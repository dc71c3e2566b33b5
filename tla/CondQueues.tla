----------------------------- MODULE CondQueues ----------------------------
(* The waiting threads of condition variables: w[c] is the queue of c.      *)
EXTENDS SequencesExt

\* After a wait, a signal and a broadcast.
Waits(w, t, c) == [w EXCEPT ![c] = Append(@, t)]
Signalled(w, c) == [w EXCEPT ![c] = IF @ = <<>> THEN @ ELSE Tail(@)]
Broadcasted(w, c) == [w EXCEPT ![c] = <<>>]

\* The threads that wait for some condition.
AllWaiting(w) == UNION {ToSet(w[c]) : c \in DOMAIN w}
=============================================================================
