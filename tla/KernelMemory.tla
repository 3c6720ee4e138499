---------------------------- MODULE KernelMemory ----------------------------
(***************************************************************************)
(* The heap as its users see it: who owns which block.  sys_alloc_mem may  *)
(* return any free block (HeapManager says which; Heap, which it           *)
(* implements, only that it is nobody else's; a short one may have grown   *)
(* by its free neighbours) and fails when none is long enough.  Operators  *)
(* take the memory M and return the memory, or the set of memories, that   *)
(* the call leaves when it succeeds.                                       *)
(***************************************************************************)
EXTENDS Integers, FiniteSets, Sequences

CONSTANTS
    Blocks,     \* the blocks the heap has room for
    NULL        \* the null pointer

ASSUME NullIsNoBlock == NULL \notin Blocks

(***************************************************************************)
(* sys_free_mem refuses what is not an allocated block.  It does not touch *)
(* what the block holds.                                                   *)
(***************************************************************************)
sys_free_mem(M, ptr) == IF ptr \in Blocks THEN [M EXCEPT !.owner[ptr] = "free"] ELSE M

Room(M) == {a \in Blocks : M.owner[a] = "free"}

(***************************************************************************)
(* How long free blocks are is known only of those that held a text when   *)
(* nothing has been allocated since: any other request may be refused.     *)
(***************************************************************************)
MayRefuse(M, bytes) ==
    \A a \in Room(M) : M.text[a] # NULL => Len(M.text[a]) + 1 < bytes

(***************************************************************************)
(* The owner writes into its block.  It may have been made of any others   *)
(* that were free, so what these hold is not known (NULL) any more.        *)
(***************************************************************************)
Taken(M, a, who, text) ==
    [M EXCEPT !.owner[a] = who,
              !.text = [b \in Blocks |-> IF b = a THEN text
                                         ELSE IF M.owner[b] = "free" THEN NULL
                                         ELSE @[b]]]

(***************************************************************************)
(* A process has a control block and a stack, both longer than any line.   *)
(* When the stack is refused, the control block is given back.             *)
(***************************************************************************)
(* Mutant: it is not. *)
KeepsBlockOnFailure(M) ==
    {[mem |-> Taken(M, a, "process", NULL), pcb |-> NULL, stack |-> NULL] : a \in Room(M)}

pcb_allocate(M) ==
    UNION {LET new == Taken(M, a, "process", NULL)
           IN  {[mem |-> sys_free_mem(new, a), pcb |-> NULL, stack |-> NULL]}
               \cup {[mem |-> Taken(new, b, "process", NULL), pcb |-> a, stack |-> b] :
                        b \in Room(new)} : a \in Room(M)}

pcb_free(M, p) == sys_free_mem(sys_free_mem(M, p.stack), p.pcb)
=============================================================================
