----------------------------- MODULE ListPrograms ---------------------------
(***************************************************************************)
(* Two programs on the lists of list.c: a8/trunc.c, which splits its       *)
(* arguments into numbers and words and cuts the words down to the         *)
(* numbers, and code-8/q1/test.c.  The elements of their lists are         *)
(* pointers, to memory that the lists share.                               *)
(***************************************************************************)
EXTENDS ListOps

CONSTANTS Lengths, Numbers,  \* bounds: of a word, and of an argument
          MaxArguments,
          NULL

VARIABLES
    arguments,   \* what main of trunc.c is called with; NULL in test.c
    pc,          \* the statements of main that are done
    l,           \* the lists, l0 and on
    memory,      \* what each pointer points to, where that is not freed
    string,      \* s of trunc.c: its text, and whether it fits what is allocated
    printed      \* the lines that were printed

listProgramVars == <<arguments, pc, l, memory, string, printed>>

\* An argument: strtol takes a number up to its end, a word not, and makes
\* 0 of the empty argument.  The n-th letter of argument i is <<i, n>>; the
\* digits of a number count as one.
Kinds == ({"word"} \X Lengths) \cup ({"number"} \X Numbers) \cup {<<"word", 0>>}

Argument(i, kind) ==
    IF kind[1] = "number" THEN [text |-> <<<<i, 0>>>>, strtol |-> kind[2]]
    ELSE IF kind[2] = 0 THEN [text |-> <<>>, strtol |-> 0]
    ELSE [text |-> [k \in 1..kind[2] |-> <<i, k>>], strtol |-> NULL]

ArgumentLists ==
    {[i \in DOMAIN kinds |-> Argument(i, kinds[i])] :
       kinds \in SeqOf(Kinds, MaxArguments)}

\* The int and the strings that pointers lead to.
Argv(i) == <<"argv", i>>
Pointers(name, n) == [i \in 1..n |-> <<name, i>>]

\* Memory where the pointers in s, which are new, lead to the values in vs.
Allocate(s, vs) == [p \in ToSet(s) |-> vs[CHOOSE i \in DOMAIN s : s[i] = p]] @@ memory
Without(s) == [p \in DOMAIN memory \ ToSet(s) |-> memory[p]]

Blank == <<0, 0>>

\* A line with a text, or with a number.
TextLine(s) == [text |-> s, number |-> NULL]
NumberLine(n) == [text |-> <<>>, number |-> n]
NumberLines(s) == [k \in DOMAIN s |-> NumberLine(s[k])]

Printed(s) == printed' = printed \o s

ListProgramsInit ==
    /\ arguments \in ArgumentLists \cup {NULL}
    /\ pc = 0
    /\ l = [k \in 0..5 |-> list_create]
    /\ string = [text |-> <<>>, fits |-> TRUE]
    /\ printed = <<>>
    /\ memory =
         IF arguments = NULL
         THEN [p \in {"a", "b"} \X (1..11) |-> IF p[1] = "a" THEN p[2] ELSE 12 - p[2]]
         ELSE [p \in {Argv(i) : i \in DOMAIN arguments} |-> arguments[p[2]].text]

(* trunc.c. *)

\* What isNumber stores for an argument.
isNumber(argument) == IF argument.strtol = NULL THEN -1 ELSE argument.strtol

NullString(a, b) == IF memory[b] < 0 THEN a ELSE NULL
isPositive(a) == memory[a] >= 0
isNotNULL(a) == a # NULL

\* The length that Truncate is given for the word at position i.
CutTo(i) == memory[list_get(l[3], i)]

\* Truncate: the word is cut where it is, in the argument, and passed on.
Cut(m, i) ==
    LET a == list_get(l[4], i)
    IN  IF Len(m[a]) > CutTo(i) THEN [m EXCEPT ![a] = SubSeq(@, 1, CutTo(i))] ELSE m
Truncate(a, b) == a

\* combineString: the string is made longer by 1 + strlen (b) before a blank,
\* where it is not empty, and b are put behind it.
combineString(s, b) ==
    LET separator == IF Len(s.text) > 0 THEN <<Blank>> ELSE <<>>
        new == s.text \o separator \o memory[b]
    IN  [text |-> new,
         fits |-> s.fits /\ Len(new) + 1 <= Len(s.text) + 1 + Len(memory[b]) + 1]

maximumValue(max, b) == IF max >= memory[b] THEN max ELSE memory[b]

Arg == arguments # NULL

ReadArguments ==
    /\ Arg /\ pc = 0
    /\ l' = [l EXCEPT ![0] = list_append_array(@, [i \in DOMAIN arguments |-> Argv(i)])]
    /\ UNCHANGED <<memory, string, printed>>

FindNumbers ==
    /\ Arg /\ pc = 1
    /\ memory' = Allocate(Pointers("number", Len(arguments)),
                          [i \in DOMAIN arguments |-> isNumber(arguments[i])])
    /\ l' = [l EXCEPT ![1] = list_map1(LAMBDA a : <<"number", a[2]>>, @, l[0])]
    /\ UNCHANGED <<string, printed>>

Separate ==
    /\ Arg
    /\ \/ pc = 2 /\ l' = [l EXCEPT ![2] = list_map2(NullString, @, l[0], l[1])]
       \/ pc = 3 /\ l' = [l EXCEPT ![3] = list_filter(isPositive, @, l[1])]
       \/ pc = 4 /\ l' = [l EXCEPT ![4] = list_filter(isNotNULL, @, l[2])]
    /\ UNCHANGED <<memory, string, printed>>

TruncateWords ==
    /\ Arg /\ pc = 5
    /\ l' = [l EXCEPT ![5] = list_map2(Truncate, @, l[4], l[3])]
    /\ memory' = FoldLeft(Cut, memory, Up(0, Shorter(l[4], l[3]) - 1))
    /\ UNCHANGED <<string, printed>>

PrintAll ==
    /\ Arg
    /\ \/ /\ pc = 6
          /\ Printed([i \in 1..l[5].len |-> TextLine(memory[list_foreach(l[5])[i]])])
          /\ UNCHANGED string
       \/ /\ pc = 7
          /\ string' = list_foldl(combineString, string, l[5])
          /\ Printed(<<TextLine(string'.text)>>)
       \/ /\ pc = 8
          /\ Printed(<<NumberLine(list_foldl(maximumValue, 0, l[3]))>>)
          /\ UNCHANGED string
    /\ UNCHANGED <<l, memory>>

FreeNumbers ==
    /\ Arg /\ pc = 9
    /\ memory' = Without(list_foreach(l[1]))
    /\ UNCHANGED <<l, string, printed>>

(* test.c. *)

isEven(a) == memory[a] % 2 = 0
add(a, b) == memory[a] + memory[b]
inc(a) == memory[a] + 1

Filled(k, pointers, values) ==
    /\ memory' = Allocate(pointers, values)
    /\ l' = [l EXCEPT ![k] = list_append_array(@, pointers)]
    /\ Printed(NumberLines(values))

\* Pointers that the functions of map allocate one after the other are named
\* after the list they are appended to.
test ==
    /\ ~Arg
    /\ \/ /\ pc = 0
          /\ l' = [l EXCEPT ![0] = list_append_array(@, Pointers("a", 11)),
                            ![1] = list_append_array(@, Pointers("b", 11))]
          /\ UNCHANGED <<memory, printed>>
       \/ /\ pc = 1
          /\ l' = [l EXCEPT ![2] = list_filter(isEven, @, l[0])]
          /\ Printed(NumberLines([k \in 1..l'[2].len |-> memory[list_foreach(l'[2])[k]]]))
          /\ UNCHANGED memory
       \/ /\ pc = 2
          /\ LET values == list_map1(inc, list_create, l[0])
             IN  Filled(3, Pointers("l3", values.len), list_foreach(values))
       \/ /\ pc = 3
          /\ LET values == list_map2(add, list_create, l[3], l[2])
             IN  Filled(4, Pointers("l4", values.len), list_foreach(values))
       \/ /\ pc = 4
          /\ Printed(<<NumberLine(list_foldl(LAMBDA s, b : s + memory[b], 0, l[4]))>>)
          /\ UNCHANGED <<l, memory>>
       \/ /\ pc = 5
          /\ memory' = Without(list_foreach(l[3]) \o list_foreach(l[4]))
          /\ UNCHANGED <<l, printed>>
    /\ UNCHANGED string

ListProgramsNext ==
    /\ \/ ReadArguments \/ FindNumbers \/ Separate \/ TruncateWords
       \/ PrintAll \/ FreeNumbers \/ test
    /\ pc' = pc + 1
    /\ UNCHANGED arguments

ListProgramsSpec == ListProgramsInit /\ [][ListProgramsNext]_listProgramVars
-----------------------------------------------------------------------------
Halted == pc = IF Arg THEN 10 ELSE 6

\* What trunc.c is to print: the words, each cut to the number in its place
\* among the numbers; then all of them in one line; then the largest number.
Expected ==
    LET words == SelectSeq(arguments, LAMBDA a : a.strtol = NULL)
        numbers == SelectSeq(arguments, LAMBDA a : a.strtol # NULL)
        cut == [k \in DOMAIN words \cap DOMAIN numbers |->
                  SubSeq(words[k].text, 1,
                         Min({Len(words[k].text), numbers[k].strtol}))]
        shown == SelectSeq(cut, LAMBDA w : w # <<>>)
        first == IF shown = <<>> THEN Len(cut) + 1
                 ELSE Min({k \in DOMAIN cut : cut[k] # <<>>})
        line == [k \in 1..Len(cut) - first + 1 |->
                   (IF k = 1 THEN <<>> ELSE <<Blank>>) \o cut[first + k - 1]]
    IN  [k \in DOMAIN cut |-> TextLine(cut[k])]
        \o <<TextLine(FlattenSeq(line)),
             NumberLine(Max({0} \cup {numbers[k].strtol : k \in DOMAIN numbers}))>>

ExpectedOfTest ==
    NumberLines(<<2, 4, 6, 8, 10>> \o [k \in 1..11 |-> k + 1]
                \o [k \in 1..5 |-> 3 * k + 1] \o <<50>>)

\* The programs print what they should, though the lists share their elements
\* and the words are cut where they are, in the arguments; what is put into
\* the one line fits its memory; and all that was allocated for the elements
\* is freed, once.
ListProgramsRight ==
    /\ string.fits
    /\ Halted =>
         /\ printed = IF Arg THEN Expected ELSE ExpectedOfTest
         /\ DOMAIN memory = IF Arg THEN {Argv(i) : i \in DOMAIN arguments}
                            ELSE {"a", "b"} \X (1..11)
=============================================================================
