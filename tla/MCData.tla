-------------------------------- MODULE MCData ------------------------------
(***************************************************************************)
(* The sequential libraries and programs, as one instance: the first state *)
(* chooses the one that is used, the variables of the others stay as they  *)
(* start.                                                                  *)
(***************************************************************************)
EXTENDS HeapTests, Elements, LinkQueue, ArrayList, MainMemory

CONSTANTS
    Lengths, Numbers, MaxArguments,     \* see ListPrograms
    Arguments, Numerals, MaxElements,   \* see ElementPrograms
    SwitchArgs, Q2Cases, Q2Args         \* see SMPrograms

VARIABLES
    library,
    arguments, pc, l, memory, string, printed,
    version, argv, done, list, nodes, rc,
    task, calls, machine, tables, cpu

listProgramVars == <<arguments, pc, l, memory, string, printed>>
elementProgramVars == <<version, argv, done, list, nodes, rc>>
machineProgramVars == <<task, calls, machine, tables, cpu>>

ASSUME ArgumentsAreInts ==
    SwitchArgs \subseteq Int /\ Q2Cases \subseteq Int /\ Q2Args \subseteq Int

ASSUME MaxElementsIsNat == MaxElements \in Nat

LP == INSTANCE ListPrograms
EP == INSTANCE ElementPrograms
SM == INSTANCE SMPrograms

vars == <<library, heapTestVars, elementsVars, linkVars, arrayListVars, memoryVars,
          listProgramVars, elementProgramVars, machineProgramVars>>

Init ==
    /\ library \in {"Heap", "HeapTests", "Elements", "LinkQueue", "ArrayList",
                    "MainMemory", "ListPrograms", "ElementPrograms", "SMPrograms"}
    /\ build \in IF library \in {"Heap", "HeapTests"} THEN Builds ELSE {"skeleton"}
    /\ sizes \in IF library = "HeapTests" THEN [Buckets -> Requests]
                 ELSE {[b \in Buckets |-> 0]}
    /\ value \in IF library = "Elements" THEN [Elems -> Values]
                 ELSE {[e \in Elems |-> 0]}
    /\ guarded \in IF library = "LinkQueue" THEN BOOLEAN ELSE {FALSE}
    /\ class \in IF library = "MainMemory" THEN {"code", "SM213"} ELSE {"code"}
    /\ HeapTestsInit /\ ElementsInit /\ LinkInit /\ ArrayListInit /\ MemoryInit
    /\ IF library = "ListPrograms" THEN LP!ListProgramsInit
       ELSE /\ arguments = NULL /\ pc = NULL /\ l = NULL
            /\ memory = NULL /\ string = NULL /\ printed = NULL
    /\ IF library = "ElementPrograms" THEN EP!ElementProgramsInit
       ELSE /\ version = NULL /\ argv = NULL /\ done = NULL
            /\ list = NULL /\ nodes = NULL /\ rc = NULL
    /\ IF library = "SMPrograms" THEN SM!SMInit
       ELSE /\ task = NULL /\ calls = NULL
            /\ machine = NULL /\ tables = NULL /\ cpu = NULL

Next ==
    /\ UNCHANGED library
    /\ \/ /\ library = "Heap" /\ HeapNext
          /\ UNCHANGED <<tests, i, sizes, pointers, failures>>
       \/ library = "HeapTests" /\ HeapTestsNext
       \/ library \notin {"Heap", "HeapTests"} /\ UNCHANGED heapTestVars
    /\ \/ library = "Elements" /\ ElementsNext
       \/ library # "Elements" /\ UNCHANGED elementsVars
    /\ \/ library = "LinkQueue" /\ LinkNext
       \/ library # "LinkQueue" /\ UNCHANGED linkVars
    /\ \/ library = "ArrayList" /\ ArrayListNext
       \/ library # "ArrayList" /\ UNCHANGED arrayListVars
    /\ \/ library = "MainMemory" /\ MemoryNext
       \/ library # "MainMemory" /\ UNCHANGED memoryVars
    /\ \/ library = "ListPrograms" /\ LP!ListProgramsNext
       \/ library # "ListPrograms" /\ UNCHANGED listProgramVars
    /\ \/ library = "ElementPrograms" /\ EP!ElementProgramsNext
       \/ library # "ElementPrograms" /\ UNCHANGED elementProgramVars
    /\ \/ library = "SMPrograms" /\ SM!SMNext
       \/ library # "SMPrograms" /\ UNCHANGED machineProgramVars

Spec == Init /\ [][Next]_vars

MCSymmetry == Permutations(Nodes)

MCArrays == {<<>>, <<1, 0>>}

MCWords == {0, -1, 200, 305419896}
-----------------------------------------------------------------------------
\* The managers: blocks are apart, big enough, and used again.
ManagersSound == HeapSound /\ ReuseBounds

\* What is linked by pointers is what was put in: the lists, trees and counts of
\* the elements, and the queues of threads; and the programs that keep elements
\* in a list and a tree free them when nothing refers to them any more.
LinksSound ==
    /\ StructuresSound /\ QueuesAreLinked
    /\ library = "ElementPrograms" => EP!AllFreedOnce

\* The machines: the memory keeps words as they are, and both simulators do in
\* every step what the processor does.
MachinesAgree == MemoryIsExact /\ (library = "SMPrograms" => SM!SimulatorsAgree)

\* The programs stay where sm.c reads the offset of a jump as the processor does.
OffsetsFit == library = "SMPrograms" => SM!OffsetsFit

\* Every program does what it is to do, when it is the one that runs, and no
\* jump of an SM213 program depends on the machine.
AllProgramsRight ==
    /\ OffsetsFit
    /\ CASE library = "HeapTests" -> TestsTell
         [] library = "ListPrograms" -> LP!ListProgramsRight
         [] library = "SMPrograms" -> SM!ProgramsRight
         [] OTHER -> TRUE
=============================================================================
