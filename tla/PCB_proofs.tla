----------------------------- MODULE PCB_proofs -----------------------------
(***************************************************************************)
(* What the operators on the process queues preserve, for any number of    *)
(* control blocks and queues of any length.                                *)
(***************************************************************************)
EXTENDS PCB, Lists_proofs

Queues == [QIDs -> Seq(PCBs)]

(* First is a position of the queue or one past its end, it is in Hits if  *)
(* it is a position, and nothing before it is.                             *)
LEMMA LeastIndex ==
    ASSUME NEW T, NEW q \in Seq(T), NEW H \in SUBSET (1 .. Len(q))
    PROVE  /\ First(q, H) \in 1 .. Len(q) + 1
           /\ First(q, H) \in H \cup {Len(q) + 1}
           /\ \A j \in H : First(q, H) <= j
<1> DEFINE S == H \cup {Len(q) + 1}
<1>0. Len(q) \in Nat /\ Len(q) + 1 \in 1 .. Len(q) + 1
  BY LenProperties
<1>1. S \subseteq Nat /\ S # {} /\ S \subseteq 1 .. Len(q) + 1
  <2>1. Len(q) + 1 \in S
    OBVIOUS
  <2>2. \A y \in S : y \in 1 .. Len(q) + 1 /\ y \in Nat
    BY <1>0
  <2> QED BY <2>1, <2>2
<1>2. First(q, H) = CHOOSE x \in S : \A y \in S : x =< y
  BY DEF First, Min
<1> HIDE DEF S
<1>3. \E x \in S : \A y \in S : x <= y
  BY <1>1, LeastNumber
<1>4. First(q, H) \in S /\ \A y \in S : First(q, H) <= y
  BY <1>2, <1>3
<1> QED
  BY <1>1, <1>4, LenProperties DEF S

(* Where pcb_insert puts a block is a position of its queue, or the tail.  *)
LEMMA SlotIsPosition ==
    ASSUME NEW P, NEW q \in Seq(PCBs), NEW p
    PROVE  Slot(P, q, p) \in 1 .. Len(q) + 1
<1> DEFINE H == {k \in DOMAIN q : P[q[k]].priority > P[p].priority}
<1>1. Len(q) \in Nat /\ H \in SUBSET (1 .. Len(q))
  BY LenProperties
<1>2. First(q, H) \in 1 .. Len(q) + 1
  BY <1>1, LeastIndex
<1>3. Len(q) + 1 \in 1 .. Len(q) + 1
  BY <1>1
<1> QED
  BY <1>2, <1>3 DEF Slot

(* pcb_insert adds one block to the queues, in the right one. *)
LEMMA InsertHolds ==
    ASSUME NEW P, NEW Q \in Queues, NEW S, NEW p \in PCBs, p \notin S,
           Target(P[p]) \in QIDs, Holds(Q, P, S)
    PROVE  /\ pcb_insert(P, Q, p) \in Queues
           /\ Holds(pcb_insert(P, Q, p), P, S \cup {p})
<1> DEFINE t == Target(P[p])
<1> DEFINE r == InsertAt(Q[t], Slot(P, Q[t], p), p)
<1> DEFINE Q2 == pcb_insert(P, Q, p)
<1>1. Q[t] \in Seq(PCBs)
  BY DEF Queues
<1>2. Slot(P, Q[t], p) \in 1 .. Len(Q[t]) + 1
  BY <1>1, SlotIsPosition
<1>3. r \in Seq(PCBs)
  BY <1>1, <1>2, InsertAtElements
<1>4. IsInjective(Q[t]) /\ Range(Q[t]) = {x \in S : Target(P[x]) = t}
  BY DEF Holds
<1>5. Range(r) = Range(Q[t]) \cup {p} /\ IsInjective(r)
  BY <1>1, <1>2, <1>4, InsertAtRange
<1>6. Q2 = [Q EXCEPT ![t] = r]
  BY DEF pcb_insert
<1> HIDE DEF r, Q2, t
<1>7. t \in QIDs
  BY DEF t
<1>8. Q2 \in Queues
  BY <1>3, <1>6 DEF Queues
<1>9. ASSUME NEW id \in QIDs
      PROVE  /\ IsInjective(Q2[id])
             /\ Range(Q2[id]) = {x \in S \cup {p} : Target(P[x]) = id}
  <2>1. CASE id = t
    <3>1. Q2[id] = r
      BY <1>6, <1>7, <2>1 DEF Queues
    <3> QED
      BY <1>4, <1>5, <2>1, <3>1 DEF t
  <2>2. CASE id # t
    <3>1. Q2[id] = Q[id]
      BY <1>6, <2>2 DEF Queues
    <3> QED
      BY <2>2, <3>1 DEF t, Holds
  <2> QED BY <2>1, <2>2
<1> QED
  BY <1>8, <1>9 DEF Holds, Q2

(* A block that is in a queue is in one only, the one Target names. *)
LEMMA HolderIsTarget ==
    ASSUME NEW P, NEW Q, NEW S, NEW p \in S,
           Target(P[p]) \in QIDs, Holds(Q, P, S)
    PROVE  Holder(Q, p) = Target(P[p])
<1>1. \A id \in QIDs : p \in ToSet(Q[id]) <=> Target(P[p]) = id
  <2> TAKE id \in QIDs
  <2>1. ToSet(Q[id]) = Range(Q[id])
    BY DEF ToSet, Range
  <2> QED
    BY <2>1 DEF Holds
<1> QED
  BY <1>1 DEF Holder, QIDs

(* pcb_remove takes one block out of the queues. *)
LEMMA RemoveHolds ==
    ASSUME NEW P, NEW Q \in Queues, NEW S, NEW p \in S,
           Target(P[p]) \in QIDs, Holds(Q, P, S)
    PROVE  /\ pcb_remove(Q, p) \in Queues
           /\ Holds(pcb_remove(Q, p), P, S \ {p})
<1> DEFINE t == Target(P[p])
<1> DEFINE q == Q[t]
<1> DEFINE H == {j \in DOMAIN q : q[j] = p}
<1> DEFINE k == First(q, H)
<1> DEFINE r == RemoveAt(q, k)
<1> DEFINE Q2 == pcb_remove(Q, p)
<1>1. q \in Seq(PCBs) /\ DOMAIN q = 1 .. Len(q) /\ Len(q) \in Nat
  BY LenProperties DEF Queues
<1>2. IsInjective(q) /\ Range(q) = {x \in S : Target(P[x]) = t}
  BY DEF Holds
<1>3. Holder(Q, p) = t
  BY HolderIsTarget
<1>4. PICK j \in DOMAIN q : q[j] = p
  BY <1>2 DEF Range
<1>5. k \in DOMAIN q /\ q[k] = p
  <2>1. H \in SUBSET (1 .. Len(q))
    BY <1>1
  <2>2. k \in 1 .. Len(q) + 1 /\ k \in H \cup {Len(q) + 1} /\ \A m \in H : k <= m
    BY <1>1, <2>1, LeastIndex, SMTT(60)
  <2>3. j \in H /\ j <= Len(q)
    BY <1>1, <1>4
  <2> HIDE DEF k, q
  <2>4. k <= Len(q)
    BY <1>1, <2>1, <2>2, <2>3
  <2> QED
    BY <1>1, <2>2, <2>4
<1>6. Q2 = [Q EXCEPT ![t] = r]
  BY <1>3, <1>5 DEF pcb_remove
<1>7. r \in Seq(PCBs) /\ IsInjective(r) /\ Range(r) = Range(q) \ {p}
  <2> HIDE DEF q, k
  <2>1. k \in 1 .. Len(q)
    BY <1>1, <1>5
  <2>2. r \in Seq(PCBs)
    BY <1>1, <2>1, RemoveAtElements
  <2>3. IsInjective(r) /\ Range(r) = Range(q) \ {q[k]}
    BY <1>1, <1>2, <2>1, RemoveAtRange
  <2> QED BY <1>5, <2>2, <2>3
<1> HIDE DEF r, Q2, k, t
<1>8. t \in QIDs
  BY DEF t
<1>9. Q2 \in Queues
  BY <1>6, <1>7 DEF Queues
<1>10. ASSUME NEW id \in QIDs
       PROVE  /\ IsInjective(Q2[id])
              /\ Range(Q2[id]) = {x \in S \ {p} : Target(P[x]) = id}
  <2>1. CASE id = t
    <3>1. Q2[id] = r
      BY <1>6, <1>8, <2>1 DEF Queues
    <3> QED
      BY <1>2, <1>7, <2>1, <3>1
  <2>2. CASE id # t
    <3>1. Q2[id] = Q[id]
      BY <1>6, <2>2 DEF Queues
    <3> QED
      BY <2>2, <3>1 DEF t, Holds
  <2> QED BY <2>1, <2>2
<1> QED
  BY <1>9, <1>10 DEF Holds, Q2

(* dequeue and get_next of a queue that has blocks: the first is taken out. *)
LEMMA DequeueHolds ==
    ASSUME NEW P, NEW Q \in Queues, NEW S, NEW id \in QIDs,
           Q[id] # <<>>, Holds(Q, P, S)
    PROVE  /\ get_next(Q, id) \in S \cap PCBs
           /\ Target(P[get_next(Q, id)]) = id
           /\ dequeue(Q, id) \in Queues
           /\ Holds(dequeue(Q, id), P, S \ {get_next(Q, id)})
<1> DEFINE q == Q[id]
<1> DEFINE p == get_next(Q, id)
<1> DEFINE r == Tail(q)
<1> DEFINE Q2 == dequeue(Q, id)
<1>1. q \in Seq(PCBs) /\ q # <<>> /\ DOMAIN q = 1 .. Len(q) /\ Len(q) \in Nat \ {0}
  BY LenProperties, EmptySeq DEF Queues
<1>2. IsInjective(q) /\ Range(q) = {x \in S : Target(P[x]) = id}
  BY DEF Holds
<1>3. p = Head(q) /\ Q2 = [Q EXCEPT ![id] = r]
  BY DEF get_next, dequeue
<1>4. Head(q) = q[1] /\ 1 \in 1 .. Len(q)
  BY <1>1
<1>5. r = RemoveAt(q, 1)
  <2> HIDE DEF q
  <2>1. r = SubSeq(q, 2, Len(q))
    BY <1>1, TailIsSubSeq
  <2>2. SubSeq(q, 1, 0) = <<>>
    BY SubSeqEmpty
  <2>3. SubSeq(q, 2, Len(q)) \in Seq(PCBs)
    BY <1>1, <2>1, HeadTailProperties
  <2> QED
    BY <2>1, <2>2, <2>3, ConcatEmptySeq DEF RemoveAt
<1>6. r \in Seq(PCBs) /\ IsInjective(r) /\ Range(r) = Range(q) \ {p}
  <2> HIDE DEF q, p, r
  <2>1. r \in Seq(PCBs)
    BY <1>1, <1>4, <1>5, RemoveAtElements
  <2>2. IsInjective(r) /\ Range(r) = Range(q) \ {q[1]}
    BY <1>1, <1>2, <1>4, <1>5, RemoveAtRange
  <2> QED BY <1>3, <1>4, <2>1, <2>2
<1>7. p \in Range(q) /\ p \in PCBs
  BY <1>1, <1>3, <1>4, HeadTailProperties DEF Range
<1>8. p \in S /\ Target(P[p]) = id
  BY <1>2, <1>7
<1> HIDE DEF p, r, Q2
<1>9. Q2 \in Queues
  BY <1>3, <1>6 DEF Queues
<1>10. ASSUME NEW i \in QIDs
       PROVE  /\ IsInjective(Q2[i])
              /\ Range(Q2[i]) = {x \in S \ {p} : Target(P[x]) = i}
  <2>1. CASE i = id
    <3>1. Q2[i] = r
      BY <1>3, <2>1 DEF Queues
    <3> QED
      BY <1>2, <1>6, <2>1, <3>1
  <2>2. CASE i # id
    <3>1. Q2[i] = Q[i]
      BY <1>3, <2>2 DEF Queues
    <3> QED
      BY <1>8, <2>2, <3>1 DEF Holds
  <2> QED BY <2>1, <2>2
<1> QED
  BY <1>7, <1>8, <1>9, <1>10 DEF Holds, Q2, p

(* The same of the ready queue, in the form in which sys_call needs it.    *)
LEMMA DequeueReady ==
    ASSUME NEW P, NEW Q \in Queues, NEW S, Q["ready"] # <<>>, Holds(Q, P, S),
           NEW next, next = get_next(Q, "ready"),
           NEW Q2, Q2 = dequeue(Q, "ready")
    PROVE  /\ next \in S /\ next \in PCBs
           /\ Target(P[next]) = "ready"
           /\ Q2 \in Queues
           /\ Holds(Q2, P, S \ {next})
<1> DEFINE id == "ready"
<1>1. id \in QIDs /\ Q[id] # <<>>
  BY DEF QIDs
<1>2. next = get_next(Q, id) /\ Q2 = dequeue(Q, id)
  OBVIOUS
<1> HIDE DEF id
<1>3. /\ get_next(Q, id) \in S \cap PCBs
      /\ Target(P[get_next(Q, id)]) = id
      /\ dequeue(Q, id) \in Queues
      /\ Holds(dequeue(Q, id), P, S \ {get_next(Q, id)})
  BY ONLY <1>1, Q \in Queues, Holds(Q, P, S), DequeueHolds
<1>4. /\ next \in S \cap PCBs /\ Target(P[next]) = id
      /\ Q2 \in Queues /\ Holds(Q2, P, S \ {next})
  BY <1>2, <1>3
<1> QED BY <1>4 DEF id

(* enqueue puts a block at the tail of the queue it is told. *)
LEMMA EnqueueHolds ==
    ASSUME NEW P, NEW Q \in Queues, NEW S, NEW p \in PCBs, p \notin S,
           Target(P[p]) \in QIDs, Holds(Q, P, S)
    PROVE  /\ enqueue(Q, Target(P[p]), p) \in Queues
           /\ Holds(enqueue(Q, Target(P[p]), p), P, S \cup {p})
<1> DEFINE t == Target(P[p])
<1> DEFINE q == Q[t]
<1> DEFINE r == Append(q, p)
<1> DEFINE Q2 == enqueue(Q, t, p)
<1>1. q \in Seq(PCBs) /\ Len(q) \in Nat /\ Len(q) + 1 \in 1 .. Len(q) + 1
  BY LenProperties DEF Queues
<1>2. IsInjective(q) /\ Range(q) = {x \in S : Target(P[x]) = t}
  BY DEF Holds
<1>3. r = InsertAt(q, Len(q) + 1, p)
  <2> HIDE DEF q
  <2>1. SubSeq(q, 1, Len(q)) = q
    BY <1>1, SubSeqFull
  <2>2. SubSeq(q, Len(q) + 1, Len(q)) = <<>>
    BY <1>1, SubSeqEmpty
  <2>3. r = q \o <<p>> /\ q \o <<p>> \in Seq(PCBs)
    BY <1>1, AppendIsConcat, ConcatProperties
  <2>4. Len(q) + 1 - 1 = Len(q)
    BY <1>1
  <2> HIDE DEF r
  <2> QED
    BY <2>1, <2>2, <2>3, <2>4, ConcatEmptySeq DEF InsertAt
<1>4. r \in Seq(PCBs) /\ IsInjective(r) /\ Range(r) = Range(q) \cup {p}
  <2> HIDE DEF q, r
  <2>1. p \notin Range(q)
    BY <1>2
  <2>2. r \in Seq(PCBs)
    BY <1>1, <1>3, InsertAtElements
  <2> QED
    BY <1>1, <1>2, <1>3, <2>1, <2>2, InsertAtRange
<1>5. Q2 = [Q EXCEPT ![t] = r]
  BY DEF enqueue
<1> HIDE DEF r, Q2, t
<1>6. t \in QIDs
  BY DEF t
<1>7. Q2 \in Queues
  BY <1>4, <1>5 DEF Queues
<1>8. ASSUME NEW id \in QIDs
      PROVE  /\ IsInjective(Q2[id])
             /\ Range(Q2[id]) = {x \in S \cup {p} : Target(P[x]) = id}
  <2>1. CASE id = t
    <3>1. Q2[id] = r
      BY <1>5, <1>6, <2>1 DEF Queues
    <3> QED
      BY <1>2, <1>4, <2>1, <3>1 DEF t
  <2>2. CASE id # t
    <3>1. Q2[id] = Q[id]
      BY <1>5, <2>2 DEF Queues
    <3> QED
      BY <2>2, <3>1 DEF t, Holds
  <2> QED BY <2>1, <2>2
<1> QED
  BY <1>7, <1>8 DEF Holds, Q2, t

(* Memory may change where it does not move a block of S elsewhere. *)
LEMMA SameHolds ==
    ASSUME NEW P, NEW P2, NEW Q, NEW S, Holds(Q, P, S),
           \A p \in S : Target(P2[p]) = Target(P[p])
    PROVE  Holds(Q, P2, S)
BY DEF Holds

(* pcb_find finds a queued block of that name if there is one. *)
LEMMA FindFinds ==
    ASSUME NEW P, NEW Q \in Queues, NEW S, NEW name, Holds(Q, P, S),
           \A p \in S : Target(P[p]) \in QIDs
    PROVE  LET f == pcb_find(P, Q, name)
           IN  /\ f # NULL => f \in S /\ f \in PCBs /\ P[f].name = name
               /\ f = NULL => \A p \in S : P[p].name # name
<1> DEFINE w == Walk(Q)
<1> DEFINE H == {j \in DOMAIN w : P[w[j]].name = name}
<1> DEFINE k == First(w, H)
<1>1. w \in Seq(PCBs) /\ Range(w) = S
  <2>1. /\ Q["ready"] \in Seq(PCBs)
        /\ Q["blocked"] \in Seq(PCBs)
        /\ Q["suspended"] \in Seq(PCBs)
    BY DEF Queues, QIDs
  <2>2. Q["ready"] \o Q["blocked"] \in Seq(PCBs)
    BY <2>1, ConcatProperties
  <2>3. Range(w) = Range(Q["ready"]) \cup Range(Q["blocked"])
                       \cup Range(Q["suspended"])
    <3> DEFINE a == Q["ready"]
    <3> DEFINE b == Q["blocked"]
    <3> DEFINE ab == a \o b
    <3> DEFINE c == Q["suspended"]
    <3>1. w = ab \o c
      BY DEF Walk
    <3>2. /\ a \in Seq(PCBs) /\ b \in Seq(PCBs)
          /\ ab \in Seq(PCBs) /\ c \in Seq(PCBs)
      BY <2>1, <2>2
    <3> HIDE DEF a, b, c, w, H, k
    <3>3. Range(ab) = Range(a) \cup Range(b)
      BY <3>2, RangeConcatenation
    <3> HIDE DEF ab
    <3>4. Range(ab \o c) = Range(ab) \cup Range(c)
      BY <3>2, RangeConcatenation
    <3>5. Range(w) = Range(a) \cup Range(b) \cup Range(c)
      BY <3>1, <3>3, <3>4
    <3> QED BY <3>5 DEF a, b, c
  <2>4. Range(w) = S
    BY <2>3 DEF Holds, QIDs
  <2> QED
    BY <2>1, <2>2, <2>4, ConcatProperties DEF Walk
<1> HIDE DEF w
<1>2. DOMAIN w = 1 .. Len(w) /\ Len(w) \in Nat /\ w \in [1 .. Len(w) -> PCBs]
  BY <1>1, LenProperties
<1>3. H \in SUBSET (1 .. Len(w))
  BY <1>2
<1>4. k \in 1 .. Len(w) + 1 /\ k \in H \cup {Len(w) + 1} /\ \A j \in H : k <= j
  BY <1>1, <1>3, LeastIndex
<1>5. pcb_find(P, Q, name) = IF k \in DOMAIN w THEN w[k] ELSE NULL
  BY DEF pcb_find, w
<1> HIDE DEF k
<1>6. CASE k \in DOMAIN w
  <2>1. k \in H
    BY <1>2, <1>4, <1>6
  <2>2. w[k] \in S /\ w[k] \in PCBs /\ P[w[k]].name = name
    BY <1>1, <1>2, <1>6, <2>1 DEF Range
  <2> QED BY <1>5, <1>6, <2>2, NullAssumption
<1>7. CASE k \notin DOMAIN w
  <2>1. k = Len(w) + 1
    BY <1>2, <1>4, <1>7
  <2>2. H = {}
    <3> SUFFICES ASSUME NEW j \in H PROVE FALSE
      OBVIOUS
    <3> QED BY <1>2, <1>4, <2>1
  <2>3. \A p \in S : \E j \in DOMAIN w : w[j] = p
    BY <1>1 DEF Range
  <2> QED BY <1>5, <1>7, <2>2, <2>3
<1> QED
  BY <1>6, <1>7
-----------------------------------------------------------------------------
(***************************************************************************)
(* The order of the ready queue.                                           *)
(***************************************************************************)

(* pcb_insert keeps a queue that is in order in order. *)
LEMMA InsertSorted ==
    ASSUME NEW P, NEW q \in Seq(PCBs), NEW p \in PCBs,
           \A x \in PCBs : P[x].priority \in Int,
           P[p].state = "ready", Sorted(P, q)
    PROVE  Sorted(P, InsertAt(q, Slot(P, q, p), p))
<1> DEFINE n == Len(q)
<1> DEFINE H == {k \in DOMAIN q : P[q[k]].priority > P[p].priority}
<1> DEFINE k == First(q, H)
<1> DEFINE r == InsertAt(q, k, p)
<1> DEFINE old(j) == IF j < k THEN j ELSE j - 1
<1>1. n \in Nat /\ DOMAIN q = 1 .. n /\ \A j \in 1 .. n : q[j] \in PCBs
  BY LenProperties
<1>2. k = Slot(P, q, p)
  BY DEF Slot
<1>3. k \in 1 .. n + 1 /\ k \in H \cup {n + 1} /\ \A j \in H : k <= j
  <2>1. H \in SUBSET (1 .. Len(q))
    BY <1>1
  <2> QED BY <2>1, LeastIndex
<1> DEFINE above(j) == P[q[j]].priority > P[p].priority
<1>11. \A j \in 1 .. n : j \in H <=> above(j)
  BY <1>1
<1> HIDE DEF k, H
<1>4. \A j \in 1 .. n : P[q[j]].priority \in Int /\ P[p].priority \in Int
  BY <1>1
<1>5. \A j \in 1 .. n : j < k => P[q[j]].priority <= P[p].priority
  <2> SUFFICES ASSUME NEW j \in 1 .. n, j < k
               PROVE  P[q[j]].priority <= P[p].priority
    OBVIOUS
  <2>1. j \notin H
    BY <1>1, <1>3
  <2> QED BY <1>1, <1>4, <1>11, <2>1
<1>6. \A j \in 1 .. n : j >= k => P[p].priority <= P[q[j]].priority
  <2> SUFFICES ASSUME NEW j \in 1 .. n, j >= k
               PROVE  P[p].priority <= P[q[j]].priority
    OBVIOUS
  <2>1. k \in 1 .. n /\ P[q[k]].priority > P[p].priority
    BY <1>1, <1>3, <1>11
  <2>2. P[q[k]].priority <= P[q[j]].priority
    BY <1>1, <1>4, <2>1, SMTT(60) DEF Sorted
  <2> QED BY <1>4, <2>1, <2>2, SMTT(60)
<1>7. DOMAIN r = 1 .. n + 1 /\ \A j \in 1 .. n + 1 :
         r[j] = IF j < k THEN q[j] ELSE IF j = k THEN p ELSE q[j - 1]
  <2>1. r \in Seq(PCBs) /\ Len(r) = n + 1
    BY <1>3, InsertAtElements
  <2>2. \A j \in 1 .. n + 1 :
           r[j] = IF j < k THEN q[j] ELSE IF j = k THEN p ELSE q[j - 1]
    BY <1>3, InsertAtElements
  <2> QED BY <2>1, <2>2, LenProperties
<1> HIDE DEF r, n
<1>8. \A j \in 1 .. n + 1 : j # k => old(j) \in 1 .. n /\ r[j] = q[old(j)]
  BY <1>1, <1>3, <1>7
<1>9. r[k] = p
  BY <1>1, <1>3, <1>7
<1>10. ASSUME NEW a \in 1 .. n + 1, NEW b \in 1 .. n + 1, a < b
       PROVE  P[r[a]].priority <= P[r[b]].priority
  <2>1. CASE a = k
    <3>1. b # k /\ old(b) >= k
      BY <1>1, <1>3, <1>10, <2>1
    <3> QED BY <1>6, <1>8, <1>9, <2>1, <3>1
  <2>2. CASE b = k
    <3>1. a # k /\ old(a) < k
      BY <1>1, <1>3, <1>10, <2>2
    <3> QED BY <1>5, <1>8, <1>9, <2>2, <3>1
  <2>3. CASE a # k /\ b # k
    <3>1. old(a) < old(b) /\ old(a) \in 1 .. n /\ old(b) \in 1 .. n
      BY <1>1, <1>3, <1>8, <1>10, <2>3
    <3>2. r[a] = q[old(a)] /\ r[b] = q[old(b)]
      BY <1>8, <2>3
    <3> HIDE DEF old
    <3> QED BY <1>1, <3>1, <3>2 DEF Sorted
  <2> QED BY <2>1, <2>2, <2>3
<1> QED
  BY <1>2, <1>7, <1>10 DEF Sorted, r, k, H

(* Taking an element out keeps the order of the others. *)
LEMMA RemoveSorted ==
    ASSUME NEW P, NEW q \in Seq(PCBs), NEW k \in 1 .. Len(q), Sorted(P, q)
    PROVE  Sorted(P, RemoveAt(q, k))
<1> DEFINE n == Len(q)
<1> DEFINE r == RemoveAt(q, k)
<1> DEFINE old(j) == IF j < k THEN j ELSE j + 1
<1>1. n \in Nat /\ DOMAIN q = 1 .. n
  BY LenProperties
<1>2. DOMAIN r = 1 .. n - 1 /\ \A j \in 1 .. n - 1 : r[j] = q[old(j)]
  BY RemoveAtElements, LenProperties, ZenonT(60)
<1> HIDE DEF r, n
<1>3. k \in 1 .. n
  BY DEF n
<1>4. \A a, b \in 1 .. n - 1 :
         a < b => old(a) < old(b) /\ old(a) \in 1 .. n /\ old(b) \in 1 .. n
  BY <1>1, <1>3
<1> HIDE DEF old
<1> QED
  BY <1>1, <1>2, <1>4 DEF Sorted, r

(* dequeue keeps the order, and what it takes is as good as what it leaves. *)
LEMMA DequeueSorted ==
    ASSUME NEW P, NEW Q \in Queues, NEW id \in QIDs, Q[id] # <<>>,
           \A x \in PCBs : P[x].priority \in Int, Sorted(P, Q[id])
    PROVE  /\ Sorted(P, dequeue(Q, id)[id])
           /\ \A p \in Range(Q[id]) :
                 P[get_next(Q, id)].priority <= P[p].priority
<1> DEFINE q == Q[id]
<1>1. /\ q \in Seq(PCBs) /\ q # <<>> /\ DOMAIN q = 1 .. Len(q)
      /\ Len(q) \in Nat \ {0} /\ \A j \in 1 .. Len(q) : q[j] \in PCBs
  BY LenProperties, EmptySeq DEF Queues
<1>2. dequeue(Q, id)[id] = Tail(q) /\ get_next(Q, id) = q[1]
  BY <1>1 DEF dequeue, get_next, Queues
<1>3. /\ Len(Tail(q)) = Len(q) - 1 /\ DOMAIN Tail(q) = 1 .. Len(q) - 1
      /\ \A j \in 1 .. Len(q) - 1 : Tail(q)[j] = q[j + 1]
  <2> HIDE DEF q
  <2> QED BY <1>1, HeadTailProperties, LenProperties
<1> HIDE DEF q
<1>4. Sorted(P, q)
  BY DEF q
<1>5. Sorted(P, Tail(q))
  <2> SUFFICES ASSUME NEW a \in 1 .. Len(q) - 1, NEW b \in 1 .. Len(q) - 1,
                      a < b
               PROVE  P[Tail(q)[a]].priority <= P[Tail(q)[b]].priority
    BY <1>3 DEF Sorted
  <2>1. a + 1 \in 1 .. Len(q) /\ b + 1 \in 1 .. Len(q) /\ a + 1 < b + 1
    BY <1>1
  <2>2. P[q[a + 1]].priority <= P[q[b + 1]].priority
    BY <1>1, <1>4, <2>1 DEF Sorted
  <2> QED BY <1>3, <2>2
<1>6. ASSUME NEW p \in Range(q) PROVE P[q[1]].priority <= P[p].priority
  <2>1. PICK j \in 1 .. Len(q) : q[j] = p
    BY <1>1 DEF Range
  <2>2. CASE j = 1
    BY <1>1, <2>1, <2>2
  <2>3. CASE 1 < j
    BY <1>1, <1>4, <2>1, <2>3 DEF Sorted
  <2> QED BY <1>1, <2>2, <2>3
<1> QED
  BY <1>2, <1>5, <1>6 DEF q

(* The order is that of the priorities of the blocks in the queue. *)
LEMMA SameSorted ==
    ASSUME NEW P, NEW P2, NEW q, Sorted(P, q),
           \A x \in Range(q) : P2[x].priority = P[x].priority
    PROVE  Sorted(P2, q)
BY DEF Sorted, Range
=============================================================================
