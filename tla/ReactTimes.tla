----------------------------- MODULE ReactTimes -----------------------------
(***************************************************************************)
(* The reaction times of one known node: the ring buffer of types/queue.go *)
(* as global/known_nodes.go fills it after every heartbeat.                *)
(***************************************************************************)
EXTENDS Integers, Sequences

CONSTANTS
    Size,       \* NewQueue's argument (5)
    Time,       \* reaction times, in milliseconds
    Nothing     \* an element of the array that was never written

ASSUME ReactTimesAssumption == Size \in Nat \ {0} /\ Time \subseteq Nat /\ Nothing \notin Time

VARIABLES
    array,      \* array[0] .. array[capability - 1]
    front,
    back

vars == <<array, front, back>>

\* Mutant: a ring of exactly the size asked for.
capabilityExact == Size

\* One more than asked for: a full ring is told from an empty one.
capability == Size + 1

Index == 0..capability - 1

NewQueue ==
    /\ array = [i \in Index |-> Nothing]
    /\ front = 0
    /\ back = 0

\* Mutant: front goes past the end of the array.
PoppedPast(f) == f + 1

\* What Pop does to front, where Push and UpdateNode call it.
Popped(f) == (f + 1) % capability

\* The number of the array's elements, not of those in use.
QueueLen == capability

\* Get: from front to back, around the end of the array if need be.
Get ==
    IF back >= front
    THEN [i \in 1..back - front |-> array[front + i - 1]]
    ELSE [i \in 1..capability - front |-> array[front + i - 1]]
           \o [i \in 1..back |-> array[i - 1]]

\* UpdateNode: it means to make room itself, which never happens since the length
\* is not Size; Push makes room.
UpdateNode(t) ==
    LET f == IF QueueLen = Size THEN Popped(front) ELSE front
    IN  /\ front' = IF (back + 1) % capability = f THEN Popped(f) ELSE f
        /\ array' = [array EXCEPT ![back] = t]
        /\ back' = (back + 1) % capability

Init == NewQueue

Next == \E t \in Time : UpdateNode(t)

Spec == Init /\ [][Next]_vars

-----------------------------------------------------------------------------
(* Properties *)

TypeOK ==
    /\ array \in [Index -> Time \cup {Nothing}]
    /\ front \in Index /\ back \in Index

W == INSTANCE Window WITH last <- Get

\* The ring of types/queue.go is a window: however often it has gone around its
\* array, Get yields exactly the last Size times in the order they were measured,
\* and no element that was never written.
ImplementsWindow == W!Spec

=============================================================================
