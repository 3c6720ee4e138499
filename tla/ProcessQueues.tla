--------------------------- MODULE ProcessQueues ---------------------------
(***************************************************************************)
(* What kernel/pcb.c and kernel/queue.c promise the rest of the kernel: a  *)
(* control block that is in no queue may change and be inserted, one that  *)
(* is may be removed, and a queue is a sequence of blocks.  These are the  *)
(* operations TAOS makes its steps of.                                     *)
(***************************************************************************)
EXTENDS PCB

CONSTANT Levels     \* the priorities in use

VARIABLES
    pcb,            \* what the queues see of the control blocks
    queue           \* the ready, blocked and suspended queues

Fields ==
    [state : {"ready", "blocked"}, suspended : BOOLEAN, priority : Levels]

Queued(p) == \E id \in QIDs : p \in Range(queue[id])

Init ==
    /\ pcb \in [PCBs -> Fields]
    /\ queue = [id \in QIDs |-> <<>>]

Changes(p) ==
    /\ ~ Queued(p)
    /\ \E rec \in Fields : pcb' = [pcb EXCEPT ![p] = rec]
    /\ UNCHANGED queue

Inserts(p) ==
    /\ ~ Queued(p)
    /\ queue' = pcb_insert(pcb, queue, p)
    /\ UNCHANGED pcb

AddsTo(p) ==
    /\ ~ Queued(p)
    /\ ~ pcb[p].suspended
    /\ queue' = enqueue(queue, pcb[p].state, p)
    /\ UNCHANGED pcb

Removes(p) ==
    /\ queue' = pcb_remove(queue, p)
    /\ UNCHANGED pcb

TakesNext(id) ==
    /\ queue' = dequeue(queue, id)
    /\ UNCHANGED pcb

Next ==
    \/ \E p \in PCBs : Changes(p) \/ Inserts(p) \/ AddsTo(p) \/ Removes(p)
    \/ \E id \in {"ready", "suspended"} : TakesNext(id)

Spec == Init /\ [][Next]_<<pcb, queue>>
=============================================================================
