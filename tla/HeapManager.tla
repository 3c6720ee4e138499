---------------------------- MODULE HeapManager ----------------------------
(***************************************************************************)
(* kernel/mcb.c: the heap as one doubly linked list of memory control      *)
(* blocks, first fit, split on allocation, merged on free.  Addresses are  *)
(* offsets in the heap; a control block is at its header's address and its *)
(* memory follows it.                                                      *)
(***************************************************************************)
EXTENDS Integers, Sequences, FiniteSets, SequencesExt

CONSTANTS
    HeapSize,       \* the heap_size of initialize_heap
    Overhead,       \* sizeof(mcb)
    Sizes,          \* the sizes that are asked for
    NULL            \* the null pointer

ASSUME FirstBlockFits == HeapSize \in Nat /\ Overhead \in 1 .. HeapSize
ASSUME NullIsNoAddress == NULL \notin 0 .. HeapSize
ASSUME SizesAssumption == Sizes \subseteq Nat

VARIABLES
    mcb,            \* the control blocks, by header
    mem_tail,       \* the header of the last one
    allocated_list, \* where "the list of allocated blocks" starts
    call            \* the last call: its argument and what it returned

vars == <<mcb, mem_tail, allocated_list, call>>

mem_head == 0

start_address(h) == h + Overhead
-----------------------------------------------------------------------------
initialize_heap ==
    /\ mcb = [h \in {mem_head} |-> [size |-> HeapSize - Overhead, next |-> NULL,
                                    prev |-> NULL, is_free |-> TRUE]]
    /\ mem_tail = mem_head
    /\ allocated_list = NULL
    /\ call = <<NULL, NULL>>

(***************************************************************************)
(* The headers in the order of the next pointers.                          *)
(***************************************************************************)
List ==
    LET N == Cardinality(DOMAIN mcb)
        ptr[k \in 1 .. N + 1] ==
           IF k = 1 THEN mem_head
           ELSE IF ptr[k - 1] = NULL THEN NULL
           ELSE mcb[ptr[k - 1]].next
        last == CHOOSE k \in 1 .. N + 1 : /\ ptr[k] = NULL
                                          /\ \A j \in 1 .. k - 1 : ptr[j] # NULL
    IN  [k \in 1 .. last - 1 |-> ptr[k]]

(* Mutant: a perfect fit is refused. *)
FitsLoosely(size) ==
    {k \in DOMAIN List : mcb[List[k]].is_free /\ mcb[List[k]].size > size}

Fits(size) == {k \in DOMAIN List : mcb[List[k]].is_free /\ mcb[List[k]].size >= size}

FirstFit(size) == List[CHOOSE k \in Fits(size) : \A j \in Fits(size) : k <= j]

(***************************************************************************)
(* The block at h keeps size bytes; a new free block gets the rest.        *)
(***************************************************************************)
Split(h, size) ==
    LET old   == mcb[h]
        split == start_address(h) + size
        rest  == [size |-> old.size - size - Overhead, next |-> old.next,
                  prev |-> h, is_free |-> TRUE]
        kept  == [old EXCEPT !.size = size, !.is_free = FALSE, !.next = split]
    IN  /\ mcb' = [a \in DOMAIN mcb \cup {split} |->
                      IF a = split THEN rest
                      ELSE IF a = h THEN kept
                      ELSE IF a = old.next THEN [mcb[a] EXCEPT !.prev = split]
                      ELSE mcb[a]]
        /\ mem_tail' = IF old.next = NULL THEN split ELSE mem_tail

allocate_memory(size) ==
    /\ \/ /\ size = 0 \/ Fits(size) = {}
          /\ call' = <<size, NULL>>
          /\ UNCHANGED <<mcb, mem_tail>>
       \/ /\ size # 0 /\ Fits(size) # {}
          /\ LET h == FirstFit(size)
             IN  /\ IF mcb[h].size <= size + Overhead + 1
                    THEN /\ mcb' = [mcb EXCEPT ![h].is_free = FALSE]
                         /\ UNCHANGED mem_tail
                    ELSE Split(h, size)
                 /\ call' = <<size, start_address(h)>>
    /\ UNCHANGED allocated_list

(***************************************************************************)
(* b takes in n, the block after it, and with it n's header.               *)
(***************************************************************************)
(* Mutant: the header is lost. *)
AbsorbWithoutHeader(M, b, n) ==
    [a \in DOMAIN M \ {n} |->
        IF a = b THEN [M[b] EXCEPT !.size = @ + M[n].size, !.next = M[n].next]
        ELSE IF a = M[n].next THEN [M[a] EXCEPT !.prev = b]
        ELSE M[a]]

Absorb(M, b, n) ==
    [a \in DOMAIN M \ {n} |->
        IF a = b THEN [M[b] EXCEPT !.size = @ + M[n].size + Overhead, !.next = M[n].next]
        ELSE IF a = M[n].next THEN [M[a] EXCEPT !.prev = b]
        ELSE M[a]]

FreeAt(M, h) == h # NULL /\ M[h].is_free

(* Mutant: no merge with the block before. *)
FreesForwardOnly(ptr) ==
    LET block == ptr - Overhead
    IN  \/ /\ block \in Range(List) => mcb[block].is_free
           /\ call' = <<ptr, -1>>
           /\ UNCHANGED <<mcb, mem_tail, allocated_list>>
        \/ /\ block \in Range(List) /\ ~ mcb[block].is_free
           /\ LET freed == [mcb EXCEPT ![block].is_free = TRUE]
                  next  == freed[block].next
              IN  IF FreeAt(freed, next)
                  THEN /\ mcb' = Absorb(freed, block, next)
                       /\ mem_tail' = IF freed[next].next = NULL THEN block ELSE mem_tail
                  ELSE mcb' = freed /\ UNCHANGED mem_tail
           /\ allocated_list' = mem_head
           /\ call' = <<ptr, 0>>

free_memory(ptr) ==
    LET block == ptr - Overhead
    IN  \/ /\ block \in Range(List) => mcb[block].is_free
           /\ call' = <<ptr, -1>>
           /\ UNCHANGED <<mcb, mem_tail, allocated_list>>
        \/ /\ block \in Range(List) /\ ~ mcb[block].is_free
           /\ LET freed  == [mcb EXCEPT ![block].is_free = TRUE]
                  next   == freed[block].next
                  prev   == freed[block].prev
                  merged == IF FreeAt(freed, next) THEN Absorb(freed, block, next)
                            ELSE freed
                  tail   == IF FreeAt(freed, next) /\ freed[next].next = NULL
                            THEN block ELSE mem_tail
              IN  IF FreeAt(merged, prev)
                  THEN /\ mcb' = Absorb(merged, prev, block)
                       /\ mem_tail' = IF merged[block].next = NULL THEN prev ELSE tail
                  ELSE /\ mcb' = merged
                       /\ mem_tail' = tail
           /\ allocated_list' = mem_head
           /\ call' = <<ptr, 0>>

Next ==
    \/ \E size \in Sizes : allocate_memory(size)
    \/ \E ptr \in 0 .. HeapSize : free_memory(ptr)

Spec == initialize_heap /\ [][Next]_vars
-----------------------------------------------------------------------------
(* The blocks tile the heap: each begins where the one before it ends, the *)
(* last one ends with the heap, prev undoes next, mem_tail is the last.    *)
(* Splits and merges in any order neither lose nor double a byte.          *)
Tiled ==
    /\ Range(List) = DOMAIN mcb
    /\ mem_tail = Last(List)
    /\ \A k \in DOMAIN List :
          LET h   == List[k]
              end == start_address(h) + mcb[h].size
          IN  /\ mcb[h].prev = IF k = 1 THEN NULL ELSE List[k - 1]
              /\ end = IF k = Len(List) THEN HeapSize ELSE List[k + 1]

(* include/mcb.h: adjacent free blocks are merged: there are never two     *)
(* free blocks side by side, so the heap is one block when all is freed.   *)
Coalesced ==
    \A k \in 1 .. Len(List) - 1 : ~ (mcb[List[k]].is_free /\ mcb[List[k + 1]].is_free)

owned ==
    {[start |-> start_address(h), size |-> mcb[h].size] :
        h \in {a \in DOMAIN mcb : ~ mcb[a].is_free}}

Promise == INSTANCE Heap

(* The list of control blocks implements the heap of include/mcb.h: no two *)
(* callers share a byte, and a request fails only if no gap could hold it, *)
(* which first fit owes to the merging.                                    *)
ImplementsHeap == Promise!Spec
=============================================================================
