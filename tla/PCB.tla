-------------------------------- MODULE PCB --------------------------------
(***************************************************************************)
(* Process control blocks and the three process queues: kernel/pcb.c and   *)
(* kernel/queue.c.  A queue is the sequence of the control blocks met when *)
(* the list is walked from its head (LinkedQueues has the pointers); all   *)
(* three are one function of queues, and the control blocks one function   *)
(* from addresses to records.  Operators take both as arguments: P is the  *)
(* memory of the control blocks and Q the queues.                          *)
(***************************************************************************)
EXTENDS Integers, Sequences, SequencesExt

CONSTANTS
    PCBs,        \* the addresses at which the heap has room for a PCB
    NULL         \* the null pointer

ASSUME NullAssumption == NULL \notin PCBs

QIDs == {"ready", "blocked", "suspended"}

Priorities == 0 .. 9

(***************************************************************************)
(* What walking a list for the first element that satisfies a condition    *)
(* finds: the least index in Hits, or one past the end.                    *)
(***************************************************************************)
First(q, Hits) == Min(Hits \cup {Len(q) + 1})

(***************************************************************************)
(* The queue a control block belongs in: the suspended flag decides before *)
(* the state does.                                                         *)
(***************************************************************************)
Target(rec) == IF rec.suspended THEN "suspended" ELSE rec.state

(***************************************************************************)
(* A ready block goes in front of the first element of a larger priority   *)
(* number, whichever queue it is, the suspended one included; a blocked    *)
(* block goes to the tail.                                                 *)
(***************************************************************************)
(* Mutants: to the tail; in the order of falling numbers; before equals.   *)
SlotLast(P, q, p) == Len(q) + 1

SlotReversed(P, q, p) ==
    IF P[p].state = "ready"
    THEN First(q, {k \in DOMAIN q : P[q[k]].priority < P[p].priority})
    ELSE Len(q) + 1

SlotBeforeEquals(P, q, p) ==
    IF P[p].state = "ready"
    THEN First(q, {k \in DOMAIN q : P[q[k]].priority >= P[p].priority})
    ELSE Len(q) + 1

Slot(P, q, p) ==
    IF P[p].state = "ready"
    THEN First(q, {k \in DOMAIN q : P[q[k]].priority > P[p].priority})
    ELSE Len(q) + 1

pcb_insert(P, Q, p) ==
    LET id == Target(P[p])
    IN  [Q EXCEPT ![id] = InsertAt(Q[id], Slot(P, Q[id], p), p)]

(***************************************************************************)
(* All the blocks that are in a queue, in the order pcb_find and           *)
(* pcb_remove meet them.  A running process is in none.                    *)
(***************************************************************************)
(* Mutant: the ready queue only. *)
WalkReady(Q) == Q["ready"]

Walk(Q) == Q["ready"] \o Q["blocked"] \o Q["suspended"]

pcb_find(P, Q, name) ==
    LET w == Walk(Q)
        k == First(w, {j \in DOMAIN w : P[w[j]].name = name})
    IN  IF k \in DOMAIN w THEN w[k] ELSE NULL

Holder(Q, p) ==
    IF p \in ToSet(Q["ready"]) THEN "ready"
    ELSE IF p \in ToSet(Q["blocked"]) THEN "blocked"
    ELSE "suspended"

pcb_remove(Q, p) ==
    LET id == Holder(Q, p)
        k  == First(Q[id], {j \in DOMAIN Q[id] : Q[id][j] = p})
    IN  IF k \in DOMAIN Q[id] THEN [Q EXCEPT ![id] = RemoveAt(@, k)] ELSE Q

enqueue(Q, id, p) == [Q EXCEPT ![id] = Append(@, p)]

dequeue(Q, id) == IF Q[id] = <<>> THEN Q ELSE [Q EXCEPT ![id] = Tail(@)]

get_next(Q, id) == IF Q[id] = <<>> THEN NULL ELSE Head(Q[id])
-----------------------------------------------------------------------------
(***************************************************************************)
(* Q holds the blocks of S: each of them once, in the queue its flags call *)
(* for, and nothing else.                                                  *)
(***************************************************************************)
Holds(Q, P, S) ==
    \A id \in QIDs :
       /\ IsInjective(Q[id])
       /\ Range(Q[id]) = {p \in S : Target(P[p]) = id}

(***************************************************************************)
(* q is in the order of the priorities.                                    *)
(***************************************************************************)
Sorted(P, q) ==
    \A j, k \in DOMAIN q : j < k => P[q[j]].priority <= P[q[k]].priority
=============================================================================
