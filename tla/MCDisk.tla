-------------------------------- MODULE MCDisk -----------------------------
(***************************************************************************)
(* The programs that use the disk, as one instance: the first state        *)
(* chooses the program that runs.  The nested choices allow nested         *)
(* activations of the timer handler, the others run with a handler that    *)
(* returns within a timer period.  The last choice is the arithmetic of    *)
(* completion times alone.                                                 *)
(***************************************************************************)
EXTENDS DiskQueue, DiskClock

\* Every thread of tRead has a block of its own; None is the null callback.
ASSUME ProgramAssumption ==
    /\ \E f \in [Buffers -> Blocks] : IsInjective(f)
    /\ None # "handle_read"

VARIABLES
    program,
    pc, blockno, is_read_pending, sum,     \* see SRead, ARead and TRead
    cpu, parked, tokens, readyHeld         \* see TRead

countVars == <<blockno, is_read_pending>>
threadVars == <<cpu, parked, tokens, readyHeld>>
progVars == <<pc, sum, countVars, threadVars>>
vars == <<program, diskVars, queueVars, progVars, clockVars>>

S == INSTANCE SRead WITH MaxNest <- 1
A == INSTANCE ARead WITH MaxNest <- 1
T == INSTANCE TRead WITH MaxNest <- 1
SN == INSTANCE SRead
TN == INSTANCE TRead

\* Variables of other programs.
NoCount == blockno = None /\ is_read_pending = None
NoThreads == cpu = None /\ parked = None /\ tokens = None /\ readyHeld = None

Runs(p) == program = p /\ UNCHANGED program

\* What a program leaves alone.
SRest == UNCHANGED <<queueVars, threadVars, clockVars>>
ARest == UNCHANGED <<threadVars, clockVars>>
TRest == UNCHANGED <<countVars, clockVars>>

Init ==
    \/ /\ program \in {"sRead", "sReadNested"}
       /\ SN!Init /\ QueueInit /\ NoThreads /\ ClockInit
    \/ /\ program = "aRead"
       /\ A!Init /\ NoThreads /\ ClockInit
    \/ /\ program \in {"tRead", "tReadNested"}
       /\ TN!Init /\ NoCount /\ ClockInit
    \/ /\ program = "clock"
       /\ ClockInit /\ DiskInit /\ QueueInit
       /\ pc = None /\ sum = None /\ NoCount /\ NoThreads

Next ==
    \/ Runs("sRead") /\ S!Next /\ SRest
    \/ Runs("sReadNested") /\ SN!Next /\ SRest
    \/ Runs("aRead") /\ A!Next /\ ARest
    \/ Runs("tRead") /\ T!Next /\ TRest
    \/ Runs("tReadNested") /\ TN!Next /\ TRest
    \/ Runs("clock") /\ ClockNext /\ UNCHANGED <<diskVars, queueVars, progVars>>

Spec == Init /\ [][Next]_vars

\* The processor executes the handler, the timer is periodic and time passes.
\* The handler takes less than a period: main, or the thread that runs, gets to
\* run between two activations.  The scheduler runs every thread it can.
FairSpec ==
    /\ Spec
    /\ SF_vars(Runs("sRead") /\ S!Main /\ SRest)
    /\ WF_vars(Runs("sRead") /\ S!Interrupt /\ SRest)
    /\ WF_vars(Runs("sRead") /\ S!Fires /\ SRest)
    /\ WF_vars(Runs("sRead") /\ S!Passes /\ SRest)
    /\ SF_vars(Runs("aRead") /\ A!Main /\ ARest)
    /\ WF_vars(Runs("aRead") /\ A!Interrupt /\ ARest)
    /\ WF_vars(Runs("aRead") /\ A!Fires /\ ARest)
    /\ WF_vars(Runs("aRead") /\ A!Passes /\ ARest)
    /\ \A t \in Buffers : SF_vars(Runs("tRead") /\ T!Thread(t) /\ TRest)
    /\ WF_vars(Runs("tRead") /\ T!Interrupt /\ TRest)
    /\ WF_vars(Runs("tRead") /\ T!Fires /\ TRest)
    /\ WF_vars(Runs("tRead") /\ T!Passes /\ TRest)
-----------------------------------------------------------------------------
\* What a program adds is what it read, whenever the interrupts come: in SRead
\* and TRead with nested activations of the handler too, a thread that goes on
\* having its own block; in ARead if the handler returns within a timer period,
\* no completion finding the queue empty.
SumsAreOfReads ==
    /\ program \in {"sRead", "sReadNested"} => SN!AddsWhatItRead
    /\ program \in {"tRead", "tReadNested"} => TN!ResultIsRead
    /\ program = "aRead" => A!NoNullCallback /\ A!SumFollowsReads

\* Every program ends, if the handler returns within a timer period.
ReadsEnd ==
    /\ program = "sRead" ~> program = "sRead" /\ S!Done
    /\ program = "aRead" ~> program = "aRead" /\ A!Done
    /\ program = "tRead" ~> program = "tRead" /\ T!Done
=============================================================================
