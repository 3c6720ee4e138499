-------------------------------- MODULE Heap --------------------------------
(***************************************************************************)
(* What include/mcb.h promises of the heap: allocate_memory returns the    *)
(* start of a range of bytes that is nobody else's, and NULL only if there *)
(* is no room; free_memory gives a range back, and refuses what is not the *)
(* start of an allocated range.                                            *)
(***************************************************************************)
EXTENDS Integers

CONSTANTS
    HeapSize,       \* bytes of the heap
    Overhead,       \* sizeof(mcb), which precedes every range
    Sizes,          \* the sizes that are asked for
    NULL            \* what a failing allocate_memory returns

VARIABLES
    owned,          \* the allocated ranges: start and size
    call            \* the last call: its argument and what it returned

(***************************************************************************)
(* A range begins with its header, Overhead bytes before start.            *)
(***************************************************************************)
Apart(b, c) ==
    b.start + b.size <= c.start - Overhead \/ c.start + c.size <= b.start - Overhead

Room(start, size) ==
    /\ Overhead <= start /\ start + size <= HeapSize
    /\ \A b \in owned : Apart([start |-> start, size |-> size], b)

Init == owned = {} /\ call = <<NULL, NULL>>

(***************************************************************************)
(* The caller gets what it asked for, or a little more when the rest would *)
(* not make a block.                                                       *)
(***************************************************************************)
Allocate(size) ==
    \/ \E start \in 0 .. HeapSize, granted \in size .. size + Overhead + 1 :
          /\ size > 0
          /\ call' = <<size, start>>
          /\ Room(start, granted)
          /\ owned' = owned \cup {[start |-> start, size |-> granted]}
    \/ /\ call' = <<size, NULL>>
       /\ size > 0 => \A start \in 0 .. HeapSize : ~ Room(start, size)
       /\ UNCHANGED owned

Free(ptr) ==
    \/ \E b \in owned : /\ b.start = ptr
                        /\ owned' = owned \ {b}
                        /\ call' = <<ptr, 0>>
    \/ /\ \A b \in owned : b.start # ptr
       /\ call' = <<ptr, -1>>
       /\ UNCHANGED owned

Next ==
    \/ \E size \in Sizes : Allocate(size)
    \/ \E ptr \in 0 .. HeapSize : Free(ptr)

Spec == Init /\ [][Next]_<<owned, call>>
=============================================================================
