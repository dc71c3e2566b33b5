------------------------------ MODULE MainMemory ----------------------------
(***************************************************************************)
(* The main memory of the SM213 in Java: that of CS213/code, and that of   *)
(* SM213/src, of which the unit tests store the words 0 and -1.            *)
(***************************************************************************)
EXTENDS Words

CONSTANTS Capacity,      \* byteCapacity
          WordsToStore   \* the words that are stored

ASSUME MemoryAssumption ==
    Capacity \in Nat \ {0} /\ WordsToStore \subseteq MinInt..MaxInt

VARIABLES
    class,      \* the directory of MainMemory.java
    bytes,      \* mem
    expected    \* history: what the comments of set promise of it

memoryVars == <<class, bytes, expected>>

MemoryInit ==
    /\ class \in {"code", "SM213"}
    /\ bytes = [a \in 0..Capacity - 1 |-> 0]
    /\ expected = bytes

bytesToInteger(b) == WordOf(b)

\* That of SM213 goes through a variable of one byte.
integerToBytes(i) ==
    LET a == IF class = "SM213" THEN Signed(Byte(i, 0)) ELSE i
    IN  [k \in 1..4 |-> Byte(a, 4 - k)]

\* The addresses of a word at address; whether they are all valid.
Span(address) == address..address + 3
Valid(address) == Span(address) \subseteq 0..Capacity - 1

\* The test that throws before anything is done.
Refused(address) ==
    address < 0 \/ IF class = "SM213" THEN Capacity < address + 3
                                      ELSE address + 3 >= Capacity

\* What set leaves: where the test passes, the bytes are written one after the
\* other, until one is outside the array and the exception of the array is
\* turned into InvalidAddressException.
Written(address, b) ==
    IF Refused(address) THEN bytes
    ELSE [a \in DOMAIN bytes |-> IF a \in Span(address) THEN b[a - address + 1]
                                 ELSE bytes[a]]

\* get, and the word its bytes are made into.
readInteger(address) ==
    IF Valid(address)
    THEN bytesToInteger([k \in 1..4 |-> bytes[address + k - 1]])
    ELSE "InvalidAddressException"

\* writeInteger of the machine's memory: a word that is stored through set.
writeInteger(address, i) ==
    /\ bytes' = Written(address, integerToBytes(i))
    /\ expected' = IF Valid(address)
                   THEN [a \in DOMAIN bytes |->
                           IF a \in Span(address) THEN Byte(i, 3 - (a - address))
                           ELSE expected[a]]
                   ELSE expected
    /\ UNCHANGED class

MemoryNext ==
    \E address \in -1..Capacity, i \in WordsToStore : writeInteger(address, i)

MemorySpec == MemoryInit /\ [][MemoryNext]_memoryVars
-----------------------------------------------------------------------------
\* "Store a sequence of bytes into memory", "InvalidAddressException if any
\* address in the range ... is invalid": every byte of the memory is that of
\* the last word stored over it, big end first, and a store that throws has
\* changed nothing.
WordsAreKept == bytes = expected

\* The memory of CS213/code keeps what is stored, and reads it back.
MemoryIsExact ==
    class = "code" =>
        /\ WordsAreKept
        /\ \A address \in 0..Capacity - 4 :
             readInteger(address) =
                 bytesToInteger([k \in 1..4 |-> expected[address + k - 1]])
=============================================================================
