---------------------------- MODULE Order_proofs ----------------------------
(***************************************************************************)
(* Proofs about the order of the ready queue, whose priorities never fall  *)
(* while resume_all is not used and in which no step lets a process        *)
(* overtake another one, and about the alarms that wait in it.             *)
(***************************************************************************)
EXTENDS TAOS_proofs

(***************************************************************************)
(* What the changes to a queue do to the order of those already in it.     *)
(***************************************************************************)
(* An insertion, wherever it is made, keeps the order of the others.       *)
LEMMA InsertKeepsOrder ==
    ASSUME NEW q \in Seq(PCBs), NEW k \in 1 .. Len(q) + 1, NEW e \in PCBs,
           NEW p, NEW r, Before(q, p, r)
    PROVE  Before(InsertAt(q, k, e), p, r)
<1> DEFINE s == InsertAt(q, k, e)
<1> DEFINE n == Len(q)
<1>1. n \in Nat /\ DOMAIN q = 1 .. n
  BY LenProperties
<1>2. /\ DOMAIN s = 1 .. n + 1
      /\ \A x \in 1 .. n + 1 :
            s[x] = IF x < k THEN q[x] ELSE IF x = k THEN e ELSE q[x - 1]
  <2>1. /\ s \in Seq(PCBs) /\ Len(s) = n + 1
        /\ \A x \in 1 .. n + 1 :
              s[x] = IF x < k THEN q[x] ELSE IF x = k THEN e ELSE q[x - 1]
    <3>1. s \in Seq(PCBs) /\ HasInserted(q, k, e, s)
      BY InsertAtIs
    <3> HIDE DEF s
    <3> QED BY <3>1 DEF HasInserted
  <2> HIDE DEF s
  <2> QED BY <2>1, LenProperties
<1>3. k \in 1 .. n + 1
  OBVIOUS
<1>4. PICK a \in 1 .. n, b \in 1 .. n : a < b /\ q[a] = p /\ q[b] = r
  BY <1>1 DEF Before
<1> DEFINE new(x) == IF x < k THEN x ELSE x + 1
<1> HIDE DEF s, n
<1>5. \A x \in 1 .. n : new(x) \in 1 .. n + 1 /\ s[new(x)] = q[x]
  BY <1>1, <1>2, <1>3
<1>6. new(a) < new(b)
  BY <1>1, <1>3, <1>4
<1> HIDE DEF new
<1>7. new(a) \in DOMAIN s /\ new(b) \in DOMAIN s /\ s[new(a)] = p /\ s[new(b)] = r
  BY <1>2, <1>4, <1>5
<1> QED BY <1>6, <1>7 DEF Before, s

(* Taking one element off keeps the order of the others.                   *)
LEMMA RemoveKeepsOrder ==
    ASSUME NEW q \in Seq(PCBs), NEW k \in 1 .. Len(q),
           NEW p, NEW r, Before(q, p, r), q[k] # p, q[k] # r
    PROVE  Before(RemoveAt(q, k), p, r)
<1> DEFINE s == RemoveAt(q, k)
<1> DEFINE n == Len(q)
<1>1. n \in Nat /\ DOMAIN q = 1 .. n
  BY LenProperties
<1>2. /\ DOMAIN s = 1 .. n - 1
      /\ \A x \in 1 .. n - 1 : s[x] = IF x < k THEN q[x] ELSE q[x + 1]
  <2>1. /\ s \in Seq(PCBs) /\ Len(s) = n - 1
        /\ \A x \in 1 .. n - 1 : s[x] = IF x < k THEN q[x] ELSE q[x + 1]
    BY RemoveAtElements
  <2> QED BY <2>1, LenProperties
<1>3. k \in 1 .. n
  OBVIOUS
<1>4. PICK a \in 1 .. n, b \in 1 .. n : a < b /\ q[a] = p /\ q[b] = r
  BY <1>1 DEF Before
<1>5. a # k /\ b # k
  BY <1>4
<1> DEFINE new(x) == IF x < k THEN x ELSE x - 1
<1> HIDE DEF s, n
<1>6. \A x \in 1 .. n : x # k => new(x) \in 1 .. n - 1 /\ s[new(x)] = q[x]
  BY <1>1, <1>2, <1>3
<1>7. new(a) < new(b)
  BY <1>1, <1>3, <1>4, <1>5
<1> HIDE DEF new
<1>8. new(a) \in DOMAIN s /\ new(b) \in DOMAIN s /\ s[new(a)] = p /\ s[new(b)] = r
  BY <1>2, <1>4, <1>5, <1>6
<1> QED BY <1>7, <1>8 DEF Before, s

(* Taking the head off keeps the order of the others.                      *)
LEMMA TailKeepsOrder ==
    ASSUME NEW q \in Seq(PCBs), q # <<>>, NEW p, NEW r,
           Before(q, p, r), p # Head(q)
    PROVE  Before(Tail(q), p, r)
<1>1. /\ Len(q) \in Nat \ {0} /\ DOMAIN q = 1 .. Len(q) /\ Head(q) = q[1]
      /\ DOMAIN Tail(q) = 1 .. Len(q) - 1
      /\ \A x \in 1 .. Len(q) - 1 : Tail(q)[x] = q[x + 1]
  BY HeadTailProperties, LenProperties, EmptySeq
<1>2. PICK a \in 1 .. Len(q), b \in 1 .. Len(q) : a < b /\ q[a] = p /\ q[b] = r
  BY <1>1 DEF Before
<1>3. a # 1
  BY <1>1, <1>2
<1>4. /\ a - 1 \in DOMAIN Tail(q) /\ b - 1 \in DOMAIN Tail(q) /\ a - 1 < b - 1
      /\ Tail(q)[a - 1] = p /\ Tail(q)[b - 1] = r
  BY <1>1, <1>2, <1>3
<1> QED BY <1>4 DEF Before

(* An element at the tail comes after the others.                          *)
LEMMA AppendKeepsOrder ==
    ASSUME NEW q \in Seq(PCBs), NEW e \in PCBs, NEW p, NEW r, Before(q, p, r)
    PROVE  Before(Append(q, e), p, r)
<1>1. /\ Len(q) \in Nat /\ DOMAIN q = 1 .. Len(q)
      /\ DOMAIN Append(q, e) = 1 .. Len(q) + 1
      /\ \A x \in 1 .. Len(q) : Append(q, e)[x] = q[x]
  BY LenProperties, AppendProperties
<1>2. PICK a \in 1 .. Len(q), b \in 1 .. Len(q) : a < b /\ q[a] = p /\ q[b] = r
  BY <1>1 DEF Before
<1>3. a \in 1 .. Len(q) + 1 /\ b \in 1 .. Len(q) + 1
  BY <1>1
<1> QED BY <1>1, <1>2, <1>3 DEF Before

(***************************************************************************)
(* The same for the operations of queue.c and pcb.c on the ready queue.    *)
(***************************************************************************)
(* pcb_insert makes at most one insertion into the ready queue, and makes  *)
(* it in the order of the priorities.                                      *)
LEMMA InsertReady ==
    ASSUME NEW P \in [PCBs -> PCBRecord], NEW Q \in Queues, NEW e \in PCBs
    PROVE  LET q == pcb_insert(P, Q, e)["ready"]
           IN  /\ Sorted(P, Q["ready"]) => Sorted(P, q)
               /\ \A p, r : Before(Q["ready"], p, r) => Before(q, p, r)
<1> DEFINE t == Target(P[e])
<1> DEFINE k == Slot(P, Q[t], e)
<1> DEFINE q == pcb_insert(P, Q, e)["ready"]
<1>1. Q["ready"] \in Seq(PCBs) /\ \A x \in PCBs : P[x].priority \in Int
  <2>1. \A x \in PCBs : P[x] \in PCBRecord
    OBVIOUS
  <2>2. \A x \in PCBs : P[x].priority \in Priorities
    BY <2>1 DEF PCBRecord
  <2>3. Q["ready"] \in Seq(PCBs)
    BY DEF Queues, QIDs
  <2> QED BY <2>2, <2>3 DEF Priorities
<1>2. CASE t = "ready"
  <2>1. P[e].state = "ready"
    BY <1>2 DEF Target
  <2>2. q = InsertAt(Q["ready"], Slot(P, Q["ready"], e), e)
    BY <1>2 DEF pcb_insert, Queues, QIDs
  <2>3. Slot(P, Q["ready"], e) \in 1 .. Len(Q["ready"]) + 1
    BY <1>1, SlotIsPosition
  <2>4. Sorted(P, Q["ready"]) => Sorted(P, q)
    BY <1>1, <2>1, <2>2, InsertSorted
  <2>5. ASSUME NEW p, NEW r, Before(Q["ready"], p, r) PROVE Before(q, p, r)
    BY <1>1, <2>2, <2>3, <2>5, InsertKeepsOrder
  <2> QED BY <2>4, <2>5
<1>3. CASE t # "ready"
  <2>1. q = Q["ready"]
    BY <1>3 DEF pcb_insert, Queues, QIDs
  <2> QED BY <2>1
<1> QED BY <1>2, <1>3

(* pcb_remove takes at most the given block off the ready queue.           *)
LEMMA RemoveReady ==
    ASSUME NEW P, NEW Q \in Queues, NEW e
    PROVE  LET q == pcb_remove(Q, e)["ready"]
           IN  /\ Sorted(P, Q["ready"]) => Sorted(P, q)
               /\ \A p, r : Before(Q["ready"], p, r) /\ p # e /\ r # e
                               => Before(q, p, r)
<1> DEFINE o == Q["ready"]
<1> DEFINE H == {j \in DOMAIN o : o[j] = e}
<1> DEFINE k == First(o, H)
<1> DEFINE q == pcb_remove(Q, e)["ready"]
<1>1. o \in Seq(PCBs) /\ DOMAIN o = 1 .. Len(o) /\ Len(o) \in Nat
  BY LenProperties DEF Queues, QIDs
<1>2. CASE Holder(Q, e) = "ready" /\ k \in DOMAIN o
  <2>1. q = RemoveAt(o, k)
    BY <1>2 DEF pcb_remove, Queues, QIDs
  <2>2. o[k] = e
    <3>1. H \in SUBSET (1 .. Len(o))
      BY <1>1
    <3>2. k \in H \cup {Len(o) + 1}
      <4> HIDE DEF o, H
      <4> QED BY <1>1, <3>1, LeastIndex
    <3> QED BY <1>1, <1>2, <3>2
  <2> HIDE DEF k
  <2>3. Sorted(P, o) => Sorted(P, q)
    BY <1>1, <1>2, <2>1, RemoveSorted
  <2>4. ASSUME NEW p, NEW r, Before(o, p, r), p # e, r # e PROVE Before(q, p, r)
    BY <1>1, <1>2, <2>1, <2>2, <2>4, RemoveKeepsOrder
  <2> QED BY <2>3, <2>4
<1>3. CASE ~ (Holder(Q, e) = "ready" /\ k \in DOMAIN o)
  <2>1. q = o
    BY <1>3 DEF pcb_remove, Queues, QIDs, Holder
  <2> QED BY <2>1
<1> QED BY <1>2, <1>3

(* dequeue takes the head of the ready queue off.                          *)
LEMMA DequeueReadyOrder ==
    ASSUME NEW P, NEW Q \in Queues, \A x \in PCBs : P[x].priority \in Int
    PROVE  LET q == dequeue(Q, "ready")["ready"]
           IN  /\ Sorted(P, Q["ready"]) => Sorted(P, q)
               /\ \A p, r : Before(Q["ready"], p, r) /\ p # get_next(Q, "ready")
                               => Before(q, p, r)
<1>1. CASE Q["ready"] = <<>>
  BY <1>1 DEF dequeue
<1>2. CASE Q["ready"] # <<>>
  <2>1. "ready" \in QIDs /\ Q["ready"] \in Seq(PCBs)
    BY DEF QIDs, Queues
  <2>2. dequeue(Q, "ready")["ready"] = Tail(Q["ready"])
        /\ get_next(Q, "ready") = Head(Q["ready"])
    BY <1>2, <2>1 DEF dequeue, get_next, Queues
  <2>3. Sorted(P, Q["ready"]) => Sorted(P, dequeue(Q, "ready")["ready"])
    BY <1>2, <2>1, DequeueSorted
  <2>4. ASSUME NEW p, NEW r, Before(Q["ready"], p, r), p # Head(Q["ready"])
        PROVE  Before(Tail(Q["ready"]), p, r)
    BY <1>2, <2>1, <2>4, TailKeepsOrder
  <2> QED BY <2>2, <2>3, <2>4
<1> QED BY <1>1, <1>2
-----------------------------------------------------------------------------
(***************************************************************************)
(* The two properties, action by action.                                   *)
(***************************************************************************)
(* What NoOvertaking says of one step. *)
Kept ==
    \A p, r \in PCBs :
       /\ Before(queue["ready"], p, r)
       /\ {p, r} \subseteq Range(queue'["ready"])
       /\ pcb'[p].priority = pcb[p].priority
       /\ pcb'[r].priority = pcb[r].priority
       => Before(queue'["ready"], p, r)

(* Both properties of one step. *)
Orderly == (ReadySorted => ReadySorted') /\ Kept

(* Taking a head off leaves queues, and the other queues alone.            *)
LEMMA DequeueTyped ==
    ASSUME NEW Q \in Queues, NEW id \in QIDs
    PROVE  /\ dequeue(Q, id) \in Queues
           /\ \A o \in QIDs : o # id => dequeue(Q, id)[o] = Q[o]
<1>1. Q[id] # <<>> => Tail(Q[id]) \in Seq(PCBs)
  BY HeadTailProperties DEF Queues
<1> QED BY <1>1 DEF dequeue, Queues

(* The ready queue holds live processes that do not have the CPU, and their *)
(* priorities are numbers.                                                 *)
LEMMA ReadyFacts ==
    ASSUME BlocksOK
    PROVE  /\ queue["ready"] \in Seq(PCBs)
           /\ Range(queue["ready"]) \subseteq allocated \ {current_pcb}
           /\ \A x \in PCBs : pcb[x].priority \in Int
<1>1. queue["ready"] \in Seq(PCBs)
  BY DEF BlocksOK, Queues, QIDs
<1>2. Range(queue["ready"]) \subseteq allocated \ {current_pcb}
  BY DEF BlocksOK, QueuesExact, Holds, QIDs
<1>3. \A x \in PCBs : pcb[x] \in PCBRecord
  BY DEF BlocksOK
<1>4. \A x \in PCBs : pcb[x].priority \in Priorities
  BY <1>3 DEF PCBRecord
<1> QED BY <1>1, <1>2, <1>4 DEF Priorities

(* The invariant's part that is about the blocks.                          *)
LEMMA InvariantBlocks == IInv => BlocksOK
BY DEF IInv, TypeOK, BlocksOK, Queues

(* IDLE takes the head off and puts the caller behind its equals.          *)
LEMMA OrderIdleCall ==
    ASSUME IInv, running \in PCBs,
           NEW P \in [PCBs -> PCBRecord], Alike(P), sys_idle_call(P)
    PROVE  Orderly
<1> DEFINE Q == dequeue(queue, "ready")
<1> DEFINE next == get_next(queue, "ready")
<1>1. /\ pcb' = P /\ current_pcb' = next /\ current_pcb \in PCBs
      /\ queue' = pcb_insert(P, Q, current_pcb)
  BY RunningIsCurrent DEF sys_idle_call
<1>2. BlocksOK /\ BlocksOK'
  BY InvariantBlocks, IdleCall
<1>3. queue \in Queues /\ Q \in Queues
  BY <1>2, DequeueTyped DEF BlocksOK, QIDs
<1>4. \A x \in PCBs : P[x].priority = pcb[x].priority /\ P[x].priority \in Int
  BY <1>2, ReadyFacts DEF Alike
<1>5. ReadySorted => Sorted(P, queue["ready"])
  BY <1>2, <1>4, ReadyFacts, SameSorted DEF ReadySorted, BlocksOK
<1>6. /\ Sorted(P, queue["ready"]) => Sorted(P, Q["ready"])
      /\ \A p, r : Before(queue["ready"], p, r) /\ p # next => Before(Q["ready"], p, r)
  BY <1>3, <1>4, DequeueReadyOrder
<1> HIDE DEF Q
<1>7. /\ Sorted(P, Q["ready"]) => Sorted(P, queue'["ready"])
      /\ \A p, r : Before(Q["ready"], p, r) => Before(queue'["ready"], p, r)
  BY <1>1, <1>3, InsertReady
<1>8. ReadySorted => ReadySorted'
  BY <1>1, <1>5, <1>6, <1>7 DEF ReadySorted
<1>9. next \notin Range(queue'["ready"])
  BY <1>1, <1>2 DEF BlocksOK, QueuesExact, Holds, QIDs
<1> HIDE DEF next
<1>10. Kept
  BY <1>6, <1>7, <1>9 DEF Kept
<1> QED BY <1>8, <1>10 DEF Orderly

(* EXIT takes the head off.                                                *)
LEMMA OrderExitCall ==
    ASSUME IInv, running \in PCBs,
           NEW P \in [PCBs -> PCBRecord], Alike(P), sys_exit_call(P)
    PROVE  Orderly
<1> DEFINE next == get_next(queue, "ready")
<1>1. /\ pcb' = [P EXCEPT ![current_pcb] = Freed] /\ current_pcb' = next
      /\ queue' = dequeue(queue, "ready")
  BY DEF sys_exit_call
<1>2. BlocksOK /\ BlocksOK' /\ queue \in Queues
  BY InvariantBlocks, ExitCall DEF BlocksOK
<1>3. /\ queue["ready"] \in Seq(PCBs)
      /\ Range(queue["ready"]) \subseteq PCBs \ {current_pcb}
      /\ \A x \in PCBs : pcb[x].priority \in Int
  BY <1>2, ReadyFacts DEF BlocksOK
<1>4. \A x \in Range(queue["ready"]) : pcb'[x].priority = pcb[x].priority
  BY <1>1, <1>3 DEF Alike
<1>5. \A x \in PCBs : pcb'[x].priority \in Int
  <2>1. \A x \in PCBs : pcb'[x] \in PCBRecord
    BY <1>2 DEF BlocksOK
  <2>2. \A x \in PCBs : pcb'[x].priority \in Priorities
    BY <2>1 DEF PCBRecord
  <2> QED BY <2>2 DEF Priorities
<1>6. ReadySorted => Sorted(pcb', queue["ready"])
  BY <1>4, SameSorted DEF ReadySorted
<1>7. /\ Sorted(pcb', queue["ready"]) => Sorted(pcb', queue'["ready"])
      /\ \A p, r : Before(queue["ready"], p, r) /\ p # next
                      => Before(queue'["ready"], p, r)
  BY <1>1, <1>2, <1>5, DequeueReadyOrder
<1>8. next \notin Range(queue'["ready"])
  BY <1>1, <1>2 DEF BlocksOK, QueuesExact, Holds, QIDs
<1> HIDE DEF next
<1> QED BY <1>6, <1>7, <1>8 DEF Orderly, Kept, ReadySorted

(* kmain's IDLE takes the first process off.                               *)
LEMMA OrderKernelIdle == IInv /\ KernelIdle => Orderly
<1> SUFFICES ASSUME IInv, KernelIdle PROVE Orderly
  OBVIOUS
<1> DEFINE next == get_next(queue, "ready")
<1>1. current_pcb = NULL
  BY KernelAssumption DEF KernelIdle, IInv, TypeOK, CPUConsistent
<1>2. pcb' = pcb /\ current_pcb' = next /\ queue' = dequeue(queue, "ready")
  BY <1>1 DEF KernelIdle, sys_idle_call
<1>3. BlocksOK /\ BlocksOK' /\ queue \in Queues
  BY InvariantBlocks, CoreKernelIdle DEF BlocksOK
<1>4. /\ Sorted(pcb, queue["ready"]) => Sorted(pcb, queue'["ready"])
      /\ \A p, r : Before(queue["ready"], p, r) /\ p # next
                      => Before(queue'["ready"], p, r)
  BY <1>2, <1>3, ReadyFacts, DequeueReadyOrder
<1>5. next \notin Range(queue'["ready"])
  BY <1>2, <1>3 DEF BlocksOK, QueuesExact, Holds, QIDs
<1> HIDE DEF next
<1> QED BY <1>2, <1>4, <1>5 DEF Orderly, Kept, ReadySorted

(* Boot puts its two processes into an empty ready queue.                  *)
LEMMA OrderBoot == IInv /\ create_system_processes => Orderly
<1> SUFFICES ASSUME IInv, create_system_processes PROVE Orderly
  OBVIOUS
<1>1. PICK c \in PCBs, d \in PCBs : queue' = pcb_insert(pcb', pcb_insert(pcb', queue, c), d)
  BY DEF create_system_processes
<1>2. BlocksOK /\ BlocksOK'
  BY InvariantBlocks, CoreBoot
<1>3. queue["ready"] \in Seq(PCBs) /\ Range(queue["ready"]) = {}
  <2>1. allocated = {}
    BY DEF create_system_processes, IInv, KmainPhases
  <2> QED BY <1>2, <2>1, ReadyFacts
<1>4. /\ queue \in Queues /\ pcb' \in [PCBs -> PCBRecord]
      /\ pcb_insert(pcb', queue, c) \in Queues
  <2>1. queue \in Queues /\ pcb' \in [PCBs -> PCBRecord]
    BY <1>2 DEF BlocksOK
  <2>2. Target(pcb'[c]) \in QIDs
    BY <2>1, RecordTarget
  <2>3. Holds(queue, pcb', {})
    <3>1. allocated = {} /\ Holds(queue, pcb, allocated \ {current_pcb})
      BY <1>2 DEF create_system_processes, IInv, KmainPhases, BlocksOK, QueuesExact
    <3> QED BY <3>1 DEF Holds
  <2> QED BY <2>1, <2>2, <2>3, InsertHolds
<1>5. DOMAIN queue["ready"] = {}
  BY <1>3 DEF Range
<1>6. Sorted(pcb', queue["ready"])
  BY <1>5 DEF Sorted
<1>7. Sorted(pcb', pcb_insert(pcb', queue, c)["ready"])
  BY <1>4, <1>6, InsertReady
<1>8. ReadySorted'
  <2> DEFINE Q == pcb_insert(pcb', queue, c)
  <2>1. Q \in Queues /\ Sorted(pcb', Q["ready"]) /\ queue' = pcb_insert(pcb', Q, d)
    BY <1>1, <1>4, <1>7
  <2> HIDE DEF Q
  <2>2. Sorted(pcb', pcb_insert(pcb', Q, d)["ready"])
    BY <1>4, <2>1, InsertReady
  <2> QED BY <2>1, <2>2 DEF ReadySorted
<1>9. Kept
  BY <1>5 DEF Kept, Before
<1> QED BY <1>8, <1>9 DEF Orderly

(* A new process goes behind its equals.                                   *)
LEMMA OrderCreate == IInv /\ Creating => Orderly
<1> SUFFICES ASSUME IInv, Creating PROVE Orderly
  OBVIOUS
<1>1. CASE UNCHANGED blocks
  BY <1>1 DEF blocks, Orderly, Kept, ReadySorted
<1>2. CASE ~ UNCHANGED blocks
  <2>1. PICK rec \in PCBRecord : Create(rec)
    BY <1>2, CreationCases
  <2>2. PICK p \in PCBs \ allocated :
           pcb' = [pcb EXCEPT ![p] = rec] /\ queue' = pcb_insert(pcb', queue, p)
    BY <2>1 DEF Create
  <2>3. BlocksOK /\ BlocksOK'
    BY InvariantBlocks, CoreCreate
  <2>4. queue \in Queues /\ pcb' \in [PCBs -> PCBRecord]
    BY <2>3 DEF BlocksOK
  <2>5. \A x \in Range(queue["ready"]) : pcb'[x].priority = pcb[x].priority
    BY <2>2, <2>3, ReadyFacts DEF BlocksOK
  <2>6. ReadySorted => Sorted(pcb', queue["ready"])
    BY <2>5, SameSorted DEF ReadySorted
  <2>7. /\ Sorted(pcb', queue["ready"]) => Sorted(pcb', queue'["ready"])
        /\ \A x, y : Before(queue["ready"], x, y) => Before(queue'["ready"], x, y)
    BY <2>2, <2>4, InsertReady
  <2> QED BY <2>6, <2>7 DEF Orderly, Kept, ReadySorted
<1> QED BY <1>1, <1>2

(* A process that a command moves was not in the ready queue, or leaves it, *)
(* or gets another priority.                                               *)
LEMMA OrderMoves == IInv /\ OneMoves => Orderly
<1> SUFFICES ASSUME IInv, OneMoves PROVE Orderly
  OBVIOUS
<1> DEFINE S == allocated \ {current_pcb}
<1> DEFINE ready == queue["ready"]
<1>1. PICK p \in PCBs, rec \in PCBRecord : Moved(p, rec)
  BY CommandMoves
<1> DEFINE Q == pcb_remove(queue, p)
<1>2. /\ pcb' = [pcb EXCEPT ![p] = rec] /\ queue' = pcb_insert(pcb', Q, p)
      /\ p \in S
      /\ Target(pcb[p]) = "ready" /\ Target(rec) = "ready"
            => rec.priority # pcb[p].priority
  BY <1>1 DEF Moved, Requeue
<1>3. BlocksOK /\ BlocksOK'
  BY InvariantBlocks, CoreMoves
<1>4. /\ queue \in Queues /\ Holds(queue, pcb, S)
      /\ pcb \in [PCBs -> PCBRecord] /\ pcb' \in [PCBs -> PCBRecord]
      /\ Holds(queue', pcb', allocated' \ {current_pcb'})
  BY <1>3 DEF BlocksOK, QueuesExact
<1>5. Q \in Queues /\ Holds(Q, pcb, S \ {p})
  <2>1. Target(pcb[p]) \in QIDs
    BY <1>4, RecordTarget
  <2> HIDE DEF S
  <2> QED BY <1>2, <1>4, <2>1, RemoveHolds
<1>6. /\ Sorted(pcb, ready) => Sorted(pcb, Q["ready"])
      /\ \A x, y : Before(ready, x, y) /\ x # p /\ y # p => Before(Q["ready"], x, y)
  BY <1>4, RemoveReady
<1>7. Range(Q["ready"]) \subseteq PCBs \ {p}
  BY <1>3, <1>5 DEF Holds, QIDs, BlocksOK
<1>8. p \notin Range(ready) \/ p \notin Range(queue'["ready"])
         \/ pcb'[p].priority # pcb[p].priority
  <2>1. p \in Range(ready) => Target(pcb[p]) = "ready"
    BY <1>4 DEF Holds, QIDs
  <2>2. p \in Range(queue'["ready"]) => Target(pcb'[p]) = "ready"
    BY <1>4 DEF Holds, QIDs
  <2>3. pcb'[p] = rec
    BY <1>2, <1>4
  <2> QED BY <1>2, <2>1, <2>2, <2>3
<1> HIDE DEF S, Q
<1>9. Sorted(pcb, Q["ready"]) => Sorted(pcb', Q["ready"])
  <2>1. \A x \in Range(Q["ready"]) : pcb'[x].priority = pcb[x].priority
    BY <1>2, <1>4, <1>7
  <2> QED BY <2>1, SameSorted
<1>10. /\ Sorted(pcb', Q["ready"]) => Sorted(pcb', queue'["ready"])
       /\ \A x, y : Before(Q["ready"], x, y) => Before(queue'["ready"], x, y)
  BY <1>2, <1>4, <1>5, InsertReady
<1>11. ReadySorted => ReadySorted'
  BY <1>6, <1>9, <1>10 DEF ReadySorted
<1>12. ASSUME NEW x \in PCBs, NEW y \in PCBs,
              Before(ready, x, y), {x, y} \subseteq Range(queue'["ready"]),
              pcb'[x].priority = pcb[x].priority,
              pcb'[y].priority = pcb[y].priority
       PROVE  Before(queue'["ready"], x, y)
  <2>1. x \in Range(ready) /\ y \in Range(ready)
    BY <1>12 DEF Before, Range
  <2>2. x # p /\ y # p
    BY <1>8, <1>12, <2>1
  <2> QED BY <1>6, <1>10, <1>12, <2>2
<1>13. Kept
  BY <1>12 DEF Kept
<1> QED BY <1>11, <1>13 DEF Orderly

(* A deleted process leaves the others in their order.                     *)
LEMMA OrderDelete == IInv /\ delete_pcb => Orderly
<1> SUFFICES ASSUME IInv, delete_pcb PROVE Orderly
  OBVIOUS
<1> DEFINE S == allocated \ {current_pcb}
<1>1. PICK p \in PCBs :
         /\ p \in allocated /\ p # current_pcb
         /\ queue' = pcb_remove(queue, p)
         /\ pcb' = [pcb EXCEPT ![p] = Freed]
         /\ allocated' = allocated \ {p}
  BY DeleteFinds
<1>2. BlocksOK /\ BlocksOK'
  BY InvariantBlocks, CoreDelete
<1>3. /\ queue \in Queues /\ pcb \in [PCBs -> PCBRecord]
      /\ Range(queue'["ready"]) \subseteq PCBs \ {p}
  BY <1>1, <1>2 DEF BlocksOK, QueuesExact, Holds, QIDs
<1>4. /\ Sorted(pcb, queue["ready"]) => Sorted(pcb, queue'["ready"])
      /\ \A x, y : Before(queue["ready"], x, y) /\ x # p /\ y # p
                      => Before(queue'["ready"], x, y)
  BY <1>1, <1>3, RemoveReady
<1>5. Sorted(pcb, queue'["ready"]) => Sorted(pcb', queue'["ready"])
  <2>1. \A x \in Range(queue'["ready"]) : pcb'[x].priority = pcb[x].priority
    BY <1>1, <1>3
  <2> QED BY <2>1, SameSorted
<1> QED BY <1>3, <1>4, <1>5 DEF Orderly, Kept, ReadySorted

(* resume_all appends to the ready queue: it keeps the order of those that *)
(* wait, and not that of the priorities.                                   *)
LEMMA OrderResumeAll == IInv /\ resume_all_next => Kept
<1> SUFFICES ASSUME IInv, resume_all_next PROVE Kept
  OBVIOUS
<1>1. CASE UNCHANGED blocks
  BY <1>1 DEF blocks, Kept
<1>2. CASE ~ UNCHANGED blocks
  <2> DEFINE Q == dequeue(queue, "suspended")
  <2>1. PICK p \in PCBs : queue' = enqueue(Q, pcb[p].state, p)
    BY <1>2, ResumeAllCases
  <2>2. queue \in Queues /\ "suspended" \in QIDs /\ "ready" \in QIDs
    BY InvariantBlocks DEF BlocksOK, QIDs
  <2>3. Q \in Queues /\ Q["ready"] = queue["ready"]
    BY <2>2, DequeueTyped
  <2> HIDE DEF Q
  <2>4. Q["ready"] \in Seq(PCBs)
    BY <2>2, <2>3 DEF Queues
  <2>5. \/ queue'["ready"] = Q["ready"]
        \/ queue'["ready"] = Append(Q["ready"], p)
    BY <2>1, <2>2, <2>3 DEF enqueue, Queues
  <2>6. \A x, y : Before(Q["ready"], x, y) => Before(Append(Q["ready"], p), x, y)
    BY <2>4, AppendKeepsOrder
  <2> QED BY <2>3, <2>5, <2>6 DEF Kept
<1> QED BY <1>1, <1>2

(* Every step but resume_all's keeps both orders, and that one the order   *)
(* of arrival.                                                             *)
LEMMA OrderStep ==
    ASSUME IInv, [Next]_vars
    PROVE  Kept /\ (~ resume_all_next /\ ReadySorted => ReadySorted')
<1>1. CASE Idles
  BY <1>1, IdlesKeep DEF blocks, Kept, ReadySorted
<1>2. CASE r3_proc \/ sys_idle_process \/ CommhandYields \/ exit
  <2>1. running \in PCBs /\ pcb \in [PCBs -> PCBRecord]
    BY <1>2 DEF r3_proc, sys_idle_process, CommhandYields, exit, Typed, Runs, IInv, TypeOK
  <2>2. CASE sys_idle_call(pcb)
    BY <2>1, <2>2, AlikeItself, OrderIdleCall DEF Orderly
  <2>3. CASE sys_exit_call(pcb)
    BY <2>1, <2>3, AlikeItself, OrderExitCall DEF Orderly
  <2>4. CASE r3_proc /\ pcb[running].left > 0
    <3> DEFINE P == [pcb EXCEPT ![running].left = @ - 1]
    <3>1. sys_idle_call(P)
      BY <2>4 DEF r3_proc
    <3>2. P \in [PCBs -> PCBRecord]
      BY <2>1, <2>4 DEF PCBRecord
    <3>3. Alike(P)
      BY <2>1 DEF Alike, PCBRecord
    <3> HIDE DEF P
    <3> QED BY <2>1, <3>1, <3>2, <3>3, OrderIdleCall DEF Orderly
  <2> QED BY <1>2, <2>2, <2>3, <2>4 DEF r3_proc, sys_idle_process, CommhandYields, exit
<1>3. CASE alarm_process
  BY <1>3, AlarmCalls, AlarmMemoryAlike, OrderIdleCall, OrderExitCall DEF Orderly
<1>4. CASE resume_all_next
  BY <1>4, OrderResumeAll
<1> QED
  BY <1>1, <1>2, <1>3, <1>4, StepCases, OrderBoot, OrderKernelIdle, OrderDelete,
     OrderMoves, OrderCreate DEF Orderly
-----------------------------------------------------------------------------
(***************************************************************************)
(* The theorems.                                                           *)
(***************************************************************************)

(* First come, first served: with every command, resume_all included, no   *)
(* step lets a waiting process overtake another one.                       *)
THEOREM OrderOfArrival == Spec => NoOvertaking
<1>1. IInv /\ [Next]_vars => Kept
  BY OrderStep
<1>2. IInv /\ [Next]_vars => [Kept]_vars
  BY <1>1
<1> QED BY <1>2, Invariant, PTL DEF Spec, NoOvertaking, Kept

(* The ready queue stays in the order of the priorities while the user     *)
(* does not type resume_all.  That resume_all is never under way belongs   *)
(* to the inductive invariant.                                             *)
THEOREM OrderOfPriorities ==
    ASSUME "resume_all" \notin Commands
    PROVE  Spec => []ReadySorted
<1> DEFINE Inv == ReadySorted /\ at # "resume_all"
<1>1. Init => Inv
  BY DEF Init, ReadySorted, Sorted, QIDs
<1>2. IInv /\ Inv /\ [Next]_vars => Inv'
  <2> SUFFICES ASSUME IInv, Inv, [Next]_vars PROVE Inv'
    OBVIOUS
  <2>1. ~ resume_all_next
    BY DEF resume_all_next
  <2>2. ReadySorted'
    BY <2>1, OrderStep
  <2>3. at' # "resume_all"
    BY DEF vars, control, Next, System, Prompt, Terminated, create_system_processes,
       KernelIdle, r3_proc, sys_idle_process, alarm_process, CommhandYields,
       LoadsNext, resume_all_next, NothingDone, exit, delete_pcb, block_pcb,
       unblock_pcb, set_pcb_priority, suspend_pcb, resume_pcb, OnFound,
       StartsLoading, load_process, resume_all_starts, create_alarm_process,
       set_clock, Tick, Typed
  <2> QED BY <2>2, <2>3
<1>3. Inv => ReadySorted
  OBVIOUS
<1> HIDE DEF Inv
<1> QED BY <1>1, <1>2, <1>3, Invariant, PTL DEF Spec
-----------------------------------------------------------------------------
(***************************************************************************)
(* The one buffer that every alarm's data passes through.                  *)
(* Until the last alarm created has copied the buffer, the buffer holds    *)
(* what the user asked of it.                                              *)
(***************************************************************************)
BufferIsLast ==
    \A p \in allocated :
       pcb[p].name = AlarmName(alarm_counter) =>
          IF pcb[p].started THEN pcb[p].target = pcb[p].asked
          ELSE temp_alarm_data = pcb[p].asked

(* Nothing is created that is an alarm, and no alarm's data is touched.    *)
Untouched ==
    /\ \A p \in allocated' \cap allocated :
          pcb'[p].name = pcb[p].name /\ SameAlarm(pcb'[p], pcb[p])
    /\ \A p \in allocated' \ allocated : Program(pcb'[p]) # "alarm"
    /\ UNCHANGED alarms

(* Such a step keeps the invariant.                                        *)
LEMMA UntouchedKeeps == BufferIsLast /\ Untouched => BufferIsLast'
<1> SUFFICES ASSUME BufferIsLast, Untouched, NEW p \in allocated',
                    pcb'[p].name = AlarmName(alarm_counter')
             PROVE  IF pcb'[p].started THEN pcb'[p].target = pcb'[p].asked
                    ELSE temp_alarm_data' = pcb'[p].asked
  BY DEF BufferIsLast
<1>1. Program(pcb'[p]) = "alarm"
  BY DEF AlarmName, Program
<1>2. /\ p \in allocated /\ pcb'[p].name = pcb[p].name
      /\ SameAlarm(pcb'[p], pcb[p])
      /\ alarm_counter' = alarm_counter /\ temp_alarm_data' = temp_alarm_data
  BY <1>1 DEF Untouched, alarms
<1> QED BY <1>2 DEF BufferIsLast, SameAlarm

(* The system calls touch no alarm's data.                                 *)
LEMMA CallKeepsData ==
    ASSUME IInv, NEW P \in [PCBs -> PCBRecord], NEW p \in allocated',
           \/ sys_idle_call(P)
           \/ sys_exit_call(P) /\ running \in PCBs
    PROVE  p \in allocated /\ pcb'[p] = P[p]
<1>1. allocated \subseteq PCBs
  BY DEF IInv, TypeOK
<1>2. CASE sys_idle_call(P)
  BY <1>2 DEF sys_idle_call
<1>3. CASE sys_exit_call(P) /\ running \in PCBs
  BY <1>1, <1>3, RunningIsCurrent DEF sys_exit_call
<1> QED BY <1>2, <1>3

(* A process that is not an alarm makes a call.                            *)
LEMMA CallUntouched ==
    ASSUME IInv, UNCHANGED alarms,
           KernelIdle \/ r3_proc \/ sys_idle_process \/ CommhandYields \/ exit
    PROVE  Untouched
<1>0. pcb \in [PCBs -> PCBRecord]
  BY DEF IInv, TypeOK
<1>1. PICK P \in [PCBs -> PCBRecord] :
         /\ \A p \in PCBs : P[p].name = pcb[p].name /\ SameAlarm(P[p], pcb[p])
         /\ \/ sys_idle_call(P)
            \/ sys_exit_call(P) /\ running \in PCBs
  <2>1. \A p \in PCBs : SameAlarm(pcb[p], pcb[p])
    BY DEF SameAlarm
  <2>2. CASE sys_idle_call(pcb) \/ (sys_exit_call(pcb) /\ running \in PCBs)
    BY <1>0, <2>1, <2>2
  <2>3. CASE r3_proc /\ pcb[running].left > 0
    <3> DEFINE P == [pcb EXCEPT ![running].left = @ - 1]
    <3>1. sys_idle_call(P) /\ running \in PCBs
      BY <2>3 DEF r3_proc, Runs
    <3>2. P \in [PCBs -> PCBRecord]
      BY <1>0, <2>3, <3>1 DEF PCBRecord
    <3>3. \A p \in PCBs : P[p].name = pcb[p].name /\ SameAlarm(P[p], pcb[p])
      BY <1>0, <3>1 DEF PCBRecord, SameAlarm
    <3> HIDE DEF P
    <3> QED BY <3>1, <3>2, <3>3
  <2> QED
    BY <2>2, <2>3 DEF KernelIdle, r3_proc, sys_idle_process, CommhandYields, exit,
                      Typed, Runs
<1>2. \A p \in allocated' : p \in allocated /\ p \in PCBs /\ pcb'[p] = P[p]
  BY <1>1, CallKeepsData DEF IInv, TypeOK
<1> QED BY <1>1, <1>2 DEF Untouched

(* The commands on one process, delete_pcb and resume_all leave it too.    *)
LEMMA CommandUntouched ==
    ASSUME IInv, UNCHANGED alarms, OneMoves \/ delete_pcb \/ resume_all_next
    PROVE  Untouched
<1>0. pcb \in [PCBs -> PCBRecord] /\ allocated \subseteq PCBs
  BY DEF IInv, TypeOK
<1>1. CASE OneMoves
  <2>1. PICK p \in PCBs, rec \in PCBRecord : Moved(p, rec)
    BY <1>1, CommandMoves
  <2>2. /\ pcb' = [pcb EXCEPT ![p] = rec] /\ allocated' = allocated
        /\ rec.name = pcb[p].name /\ SameAlarm(rec, pcb[p])
    BY <2>1 DEF Moved, Requeue
  <2> QED BY <1>0, <2>2 DEF Untouched, SameAlarm
<1>2. CASE delete_pcb
  <2>1. PICK p \in PCBs : pcb' = [pcb EXCEPT ![p] = Freed] /\ allocated' = allocated \ {p}
    BY <1>2, DeleteFinds
  <2> QED BY <1>0, <2>1 DEF Untouched, SameAlarm
<1>3. CASE resume_all_next
  <2>1. CASE UNCHANGED blocks
    BY <2>1 DEF blocks, Untouched, SameAlarm
  <2>2. CASE ~ UNCHANGED blocks
    <3>1. PICK p \in PCBs : /\ pcb' = [pcb EXCEPT ![p].suspended = FALSE]
                            /\ allocated' = allocated
      BY <1>3, <2>2, ResumeAllCases
    <3> DEFINE rec == [pcb[p] EXCEPT !.suspended = FALSE]
    <3>2. pcb[p] \in PCBRecord /\ pcb'[p] = rec
      BY <1>0, <3>1
    <3>3. rec.name = pcb[p].name /\ SameAlarm(rec, pcb[p])
      BY <3>2, SetSuspended
    <3> HIDE DEF rec
    <3> QED BY <1>0, <3>1, <3>2, <3>3 DEF Untouched, SameAlarm
  <2> QED BY <2>1, <2>2
<1> QED BY <1>1, <1>2, <1>3

(* The loaders create R3 processes only.                                   *)
LEMMA LoaderUntouched ==
    ASSUME IInv, UNCHANGED alarms,
           \/ load_process
           \/ \E c \in {"loadr3", "loadr3_suspended"}, b \in BOOLEAN : LoadsNext(c, b)
    PROVE  Untouched
<1>1. CASE UNCHANGED blocks
  BY <1>1 DEF blocks, Untouched, SameAlarm
<1>2. CASE ~ UNCHANGED blocks
  <2>1. PICK n \in 1 .. R3Count, b \in BOOLEAN : Create(NewProc(n, b))
    BY <1>2 DEF load_process, LoadsNext, IInv, TypeOK
  <2> DEFINE rec == NewProc(n, b)
  <2>2. Program(rec) # "alarm"
    BY DEF NewProc, pcb_setup, ProcName, Program
  <2> HIDE DEF rec
  <2>3. PICK p \in PCBs \ allocated :
           pcb' = [pcb EXCEPT ![p] = rec] /\ allocated' = allocated \cup {p}
    BY <2>1 DEF Create, rec
  <2>4. pcb \in [PCBs -> PCBRecord] /\ allocated \subseteq PCBs
    BY DEF IInv, TypeOK
  <2> QED BY <2>2, <2>3, <2>4 DEF Untouched, SameAlarm
<1> QED BY <1>1, <1>2

(* An alarm that gets the CPU copies the buffer if it had not before.      *)
LEMMA AlarmCopies ==
    ASSUME IInv, alarm_process
    PROVE  /\ UNCHANGED alarms
           /\ \A p \in allocated' :
                 /\ p \in allocated
                 /\ pcb'[p].name = pcb[p].name /\ pcb'[p].asked = pcb[p].asked
                 /\ IF p = running /\ ~ pcb[p].started
                    THEN pcb'[p].started /\ pcb'[p].target = temp_alarm_data
                    ELSE /\ pcb'[p].started = pcb[p].started
                         /\ pcb'[p].target = pcb[p].target
<1>1. /\ running \in PCBs /\ UNCHANGED alarms
      /\ sys_exit_call(AlarmMemory) \/ sys_idle_call(AlarmMemory)
  BY AlarmCalls DEF alarm_process
<1>2. AlarmMemory \in [PCBs -> PCBRecord] /\ pcb \in [PCBs -> PCBRecord]
  BY <1>1, AlarmMemoryAlike DEF IInv, TypeOK
<1>3. \A p \in allocated' : p \in allocated /\ p \in PCBs /\ pcb'[p] = AlarmMemory[p]
  BY <1>1, <1>2, CallKeepsData DEF IInv, TypeOK
<1>4. \A p \in PCBs :
         /\ AlarmMemory[p].name = pcb[p].name
         /\ AlarmMemory[p].asked = pcb[p].asked
         /\ IF p = running /\ ~ pcb[p].started
            THEN AlarmMemory[p].started /\ AlarmMemory[p].target = temp_alarm_data
            ELSE /\ AlarmMemory[p].started = pcb[p].started
                 /\ AlarmMemory[p].target = pcb[p].target
  <2>1. CASE pcb[running].started
    BY <2>1 DEF AlarmMemory
  <2>2. CASE ~ pcb[running].started
    <3> DEFINE rec == [pcb[running] EXCEPT !.started = TRUE, !.target = temp_alarm_data]
    <3>1. pcb[running] \in PCBRecord /\ temp_alarm_data \in Moments
      BY <1>1, <1>2 DEF IInv, TypeOK
    <3>2. /\ rec.name = pcb[running].name /\ rec.asked = pcb[running].asked
          /\ rec.started = TRUE /\ rec.target = temp_alarm_data
      BY <3>1, SetTarget, ZenonT(60)
    <3>3. AlarmMemory = [pcb EXCEPT ![running] = rec]
      BY <1>1, <1>2, <2>2, <3>1 DEF AlarmMemory, PCBRecord
    <3> HIDE DEF rec
    <3> QED BY <1>1, <1>2, <2>2, <3>2, <3>3
  <2> QED BY <2>1, <2>2
<1> QED BY <1>1, <1>3, <1>4

(* The last one finds its own data.                                        *)
LEMMA AlarmKeepsBuffer == IInv /\ BufferIsLast /\ alarm_process => BufferIsLast'
BY AlarmCopies DEF BufferIsLast, alarms

(* A new alarm fills the buffer before anything that can fail; nobody else *)
(* has its number.                                                         *)
LEMMA NewAlarmKeepsBuffer == IInv /\ create_alarm_process => BufferIsLast'
<1> SUFFICES ASSUME IInv, create_alarm_process PROVE BufferIsLast'
  OBVIOUS
<1> DEFINE name == AlarmName(alarm_counter + 1)
<1> DEFINE rec(m) == [pcb_setup(name, "user", 3, 0) EXCEPT !.asked = m]
<1>1. PICK target :
         /\ temp_alarm_data' = target /\ alarm_counter' = alarm_counter + 1
         /\ Create(rec(target)) \/ UNCHANGED blocks
  BY DEF create_alarm_process
<1>2. \A q \in allocated : pcb[q].name # name
  BY <1>1, NewAlarmName DEF NewName
<1>3. ~ rec(target).started /\ rec(target).asked = target
  BY DEF pcb_setup
<1> HIDE DEF rec
<1>4. CASE UNCHANGED blocks
  BY <1>1, <1>2, <1>4 DEF blocks, BufferIsLast
<1>5. CASE Create(rec(target))
  <2>1. PICK p \in PCBs \ allocated : /\ pcb' = [pcb EXCEPT ![p] = rec(target)]
                                      /\ allocated' = allocated \cup {p}
    BY <1>5 DEF Create
  <2>2. pcb \in [PCBs -> PCBRecord] /\ allocated \subseteq PCBs
    BY DEF IInv, TypeOK
  <2>3. pcb'[p] = rec(target) /\ \A q \in allocated : pcb'[q] = pcb[q]
    BY <2>1, <2>2
  <2> QED BY <1>1, <1>2, <1>3, <2>1, <2>3 DEF BufferIsLast
<1> QED BY <1>1, <1>4, <1>5

(* What the steps are to the alarms.                                       *)
LEMMA StepsAndAlarms ==
    ASSUME IInv, [Next]_vars
    PROVE  Untouched \/ create_system_processes \/ alarm_process \/ create_alarm_process
<1>1. CASE Idles
  <2>1. UNCHANGED alarms /\ UNCHANGED blocks
    BY <1>1, IdlesKeep DEF Idles, NothingDone, resume_all_starts, set_clock, Tick,
                           StartsLoading, vars
  <2> QED BY <2>1 DEF Untouched, blocks, SameAlarm
<1>2. CASE KernelIdle \/ r3_proc \/ sys_idle_process \/ CommhandYields \/ exit
  <2>1. UNCHANGED alarms
    BY <1>2 DEF KernelIdle, r3_proc, sys_idle_process, CommhandYields, exit
  <2> QED BY <1>2, <2>1, CallUntouched
<1>3. CASE OneMoves \/ delete_pcb \/ resume_all_next
  <2>1. UNCHANGED alarms
    BY <1>3 DEF OneMoves, block_pcb, unblock_pcb, set_pcb_priority, suspend_pcb,
                resume_pcb, delete_pcb, OnFound, resume_all_next
  <2> QED BY <1>3, <2>1, CommandUntouched
<1>4. CASE Creating /\ ~ create_alarm_process
  <2>1. UNCHANGED alarms
    BY <1>4 DEF Creating, load_process, LoadsNext
  <2> QED BY <1>4, <2>1, LoaderUntouched DEF Creating
<1> QED BY <1>1, <1>2, <1>3, <1>4, StepCases

(* Boot makes no alarm.                                                    *)
LEMMA BootAlarms ==
    IInv /\ create_system_processes => \A p \in allocated' : Program(pcb'[p]) # "alarm"
BY BootEffect DEF Program, CommhandName, IdleName

(* Every step keeps the invariant.                                         *)
LEMMA BufferStep == IInv /\ BufferIsLast /\ [Next]_vars => BufferIsLast'
<1> SUFFICES ASSUME IInv, BufferIsLast, [Next]_vars PROVE BufferIsLast'
  OBVIOUS
<1>1. CASE create_system_processes
  BY <1>1, BootAlarms DEF BufferIsLast, AlarmName, Program
<1> QED
  BY <1>1, StepsAndAlarms, UntouchedKeeps, AlarmKeepsBuffer, NewAlarmKeepsBuffer

(* The last alarm created waits for the moment it was asked for, however   *)
(* many alarms there are and in whatever order they get the CPU: an alarm  *)
(* can be harmed only by one that was created after it.                    *)
THEOREM LastAlarmCorrect == Spec => []LastAlarmHasOwnData
<1>1. Init => BufferIsLast
  BY DEF Init, BufferIsLast
<1>2. BufferIsLast => LastAlarmHasOwnData
  BY DEF BufferIsLast, LastAlarmHasOwnData
<1> QED BY <1>1, <1>2, BufferStep, Invariant, PTL DEF Spec
-----------------------------------------------------------------------------
(***************************************************************************)
(* When an alarm rings.                                                    *)
(***************************************************************************)
(* The times that alarms wait for are times of day.                        *)
TimesOfDay ==
    /\ temp_alarm_data.time < DayLength
    /\ \A p \in allocated :
          Program(pcb[p]) = "alarm" /\ pcb[p].started => pcb[p].target.time < DayLength

(* Every step keeps them so.                                               *)
LEMMA TimesStep == IInv /\ TimesOfDay /\ [Next]_vars => TimesOfDay'
<1> SUFFICES ASSUME IInv, TimesOfDay, [Next]_vars PROVE TimesOfDay'
  OBVIOUS
<1>1. CASE create_system_processes
  <2>1. temp_alarm_data' = temp_alarm_data
    BY <1>1 DEF create_system_processes, alarms
  <2> QED BY <1>1, <2>1, BootAlarms DEF TimesOfDay
<1>2. CASE Untouched
  BY <1>2 DEF Untouched, TimesOfDay, SameAlarm, alarms, Program
<1>3. CASE alarm_process
  BY <1>3, AlarmCopies DEF TimesOfDay, alarms, Program
<1>4. CASE create_alarm_process
  <2> DEFINE name == AlarmName(alarm_counter + 1)
  <2> DEFINE rec(m) == [pcb_setup(name, "user", 3, 0) EXCEPT !.asked = m]
  <2>1. PICK target :
           /\ temp_alarm_data' = target /\ target.time \in 0 .. DayLength - 1
           /\ Create(rec(target)) \/ UNCHANGED blocks
    <3>1. PICK time \in 0 .. DayLength - 1, reading \in Readings :
             /\ temp_alarm_data' = AlarmTarget(time, reading)
             /\ Create(rec(AlarmTarget(time, reading))) \/ UNCHANGED blocks
      BY <1>4 DEF create_alarm_process
    <3>2. AlarmTarget(time, reading).time = time
      BY DEF AlarmTarget
    <3>3. PICK m : m = AlarmTarget(time, reading)
      OBVIOUS
    <3> HIDE DEF rec
    <3> QED BY <3>1, <3>2, <3>3
  <2>2. temp_alarm_data'.time < DayLength
    BY <2>1, ClockAssumption
  <2>3. ~ rec(target).started
    BY DEF pcb_setup
  <2> HIDE DEF rec
  <2>4. CASE UNCHANGED blocks
    BY <2>2, <2>4 DEF blocks, TimesOfDay
  <2>5. CASE Create(rec(target))
    <3>1. PICK p \in PCBs \ allocated : /\ pcb' = [pcb EXCEPT ![p] = rec(target)]
                                        /\ allocated' = allocated \cup {p}
      BY <2>5 DEF Create
    <3>2. pcb \in [PCBs -> PCBRecord] /\ allocated \subseteq PCBs
      BY DEF IInv, TypeOK
    <3>3. pcb'[p] = rec(target) /\ \A q \in allocated : pcb'[q] = pcb[q]
      BY <3>1, <3>2
    <3> QED BY <2>2, <2>3, <3>1, <3>3 DEF TimesOfDay
  <2> QED BY <2>1, <2>4, <2>5
<1> QED BY <1>1, <1>2, <1>3, <1>4, StepsAndAlarms

(* A moment that is reached on the clock is no more ticks than the clock.  *)
LEMMA ReachedTicks ==
    ASSUME NEW now \in Moments, NEW then \in Moments, NEW reading \in Moments,
           then.time < DayLength, Reached(reading, then),
           reading.day = now.day, reading.time <= now.time
    PROVE  Ticks(then) <= Ticks(now)
<1>1. DayLength \in Nat
  BY ClockAssumption
<1>2. /\ now.day \in Nat /\ now.time \in Nat /\ then.day \in Nat /\ then.time \in Nat
      /\ reading.time \in Nat
  BY DEF Moments
<1>3. CASE now.day = then.day /\ then.time <= now.time
  BY <1>1, <1>2, <1>3 DEF Ticks
<1>4. CASE now.day > then.day
  <2>1. PICK d \in Nat : now.day = then.day + 1 + d
    <3>1. now.day - then.day - 1 \in Nat
      BY <1>2, <1>4
    <3>2. now.day = then.day + 1 + (now.day - then.day - 1)
      BY <1>2
    <3> QED BY <3>1, <3>2
  <2>2. DayLength * now.day = DayLength * then.day + DayLength + DayLength * d
    BY <1>1, <1>2, <2>1
  <2>3. DayLength * d \in Nat /\ DayLength * then.day \in Nat
    BY <1>1, <1>2
  <2> QED BY <1>1, <1>2, <2>2, <2>3 DEF Ticks
<1> QED BY <1>2, <1>3, <1>4 DEF Reached

(* Only an alarm's own step ends it while it has the CPU.                  *)
LEMMA OwnStepEnds ==
    ASSUME IInv, [Next]_vars, NEW p \in PCBs, running = p, Program(pcb[p]) = "alarm",
           p \notin allocated'
    PROVE  p \in allocated /\ alarm_process
<1>1. p \in allocated
  BY KernelAssumption DEF IInv, CPUConsistent
<1>2. p # Kernel
  BY KernelAssumption
<1>3. ~ (UNCHANGED blocks)
  BY <1>1 DEF blocks
<1> QED
  BY <1>1, <1>2, <1>3, StepCases, IdlesKeep
  DEF create_system_processes, KernelIdle, r3_proc, sys_idle_process, CommhandYields,
      exit, delete_pcb, OneMoves, block_pcb, unblock_pcb, set_pcb_priority, suspend_pcb,
      resume_pcb, OnFound, Creating, LoadsNext, load_process, create_alarm_process,
      resume_all_next, Typed, Runs

(* An alarm that has its data rings before its moment only when midnight   *)
(* passes while it reads the clock, on any clock, with any number of       *)
(* alarms and any changes of the clock by the user.                        *)
THEOREM EarlyOnlyAtMidnight == Spec => AlarmEarlyOnlyAtMidnight
<1>1. Init => TimesOfDay
  BY ClockAssumption DEF Init, TimesOfDay, Midnight
<1> DEFINE OnlyAtMidnight == \A p \in PCBs : RingsEarly(p) => clock'.day # clock.day
<1>2. IInv /\ TimesOfDay /\ [Next]_vars => OnlyAtMidnight
  <2> SUFFICES ASSUME IInv, TimesOfDay, [Next]_vars, NEW p \in PCBs, RingsEarly(p),
                      clock'.day = clock.day
               PROVE  FALSE
    OBVIOUS
  <2>1. /\ running = p /\ Program(pcb[p]) = "alarm" /\ pcb[p].started /\ ~ shutting_down
        /\ p \notin allocated' /\ Ticks(clock') < Ticks(pcb[p].target)
    BY DEF RingsEarly
  <2>2. p \in allocated /\ alarm_process
    BY <2>1, OwnStepEnds
  <2>3. PICK reading \in Readings :
           /\ clock' \in {clock, Ticked}
           /\ IF Reached(reading, pcb[p].target) THEN sys_exit_call(pcb)
              ELSE sys_idle_call(pcb)
    BY <2>1, <2>2 DEF alarm_process
  <2>4. Reached(reading, pcb[p].target)
    BY <2>1, <2>2, <2>3 DEF sys_idle_call
  <2>5. /\ clock \in Moments /\ clock' \in Moments /\ pcb[p].target \in Moments
        /\ pcb[p].target.time < DayLength
    <3>1. TypeOK'
      BY TypeStep
    <3>2. pcb[p] \in PCBRecord
      BY DEF IInv, TypeOK
    <3> QED BY <2>1, <2>2, <3>1, <3>2 DEF IInv, TypeOK, TimesOfDay, PCBRecord
  <2>6. clock.time <= clock'.time
    <3>1. CASE clock' = clock
      BY <2>5, <3>1 DEF Moments
    <3>2. CASE clock' = Ticked
      <4>1. clock.time \in Nat /\ clock.day \in Nat
        BY <2>5 DEF Moments
      <4> QED BY <2>5, <3>2, <4>1 DEF Ticked, Moments
    <3> QED BY <2>3, <3>1, <3>2
  <2>7. reading \in Moments /\ reading.day = clock'.day /\ reading.time <= clock'.time
    <3>1. reading.day = clock.day /\ reading.time \in Nat /\ reading.time <= clock.time
          /\ reading = [day |-> reading.day, time |-> reading.time]
      BY <2>5, <2>3 DEF Readings, DatesRead, TimesRead, Moments
    <3>2. clock.time \in Nat /\ clock'.time \in Nat /\ clock.day \in Nat
      BY <2>5 DEF Moments
    <3> QED BY <2>6, <3>1, <3>2 DEF Moments
  <2>8. Ticks(pcb[p].target) <= Ticks(clock')
    BY <2>4, <2>5, <2>7, ReachedTicks
  <2>9. Ticks(clock') \in Int /\ Ticks(pcb[p].target) \in Int
    BY <2>5, ClockAssumption DEF Ticks, Moments
  <2> QED BY <2>1, <2>8, <2>9
<1>3. IInv /\ TimesOfDay /\ [Next]_vars => [OnlyAtMidnight]_vars
  BY <1>2
<1> HIDE DEF OnlyAtMidnight
<1> QED BY <1>1, <1>3, TimesStep, Invariant, PTL DEF Spec, AlarmEarlyOnlyAtMidnight, OnlyAtMidnight
=============================================================================
