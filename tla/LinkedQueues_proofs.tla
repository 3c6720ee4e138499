------------------------ MODULE LinkedQueues_proofs ------------------------
(***************************************************************************)
(* Proofs that the pointers of the three queues are what the kernel takes  *)
(* them for, for any number of control blocks and priorities: they meet at *)
(* their ends, and every function does to the list what ProcessQueues      *)
(* says it does to a sequence.                                             *)
(***************************************************************************)
EXTENDS LinkedQueues, Lists_proofs, FiniteSetTheorems

(* What a pointer to the k-th block of a list holds: null past its ends. *)
At(s, k) == IF k \in 1 .. Len(s) THEN s[k] ELSE NULL

(***************************************************************************)
(* A queue with head h, tail t and count c is the list s when next is nx.  *)
(***************************************************************************)
IsList(h, t, c, nx, s) ==
    /\ s \in Seq(PCBs)
    /\ IsInjective(s)
    /\ h = At(s, 1)
    /\ t = At(s, Len(s))
    /\ c = Len(s)
    /\ \A k \in 1 .. Len(s) : nx[s[k]] = At(s, k + 1)

-----------------------------------------------------------------------------
(***************************************************************************)
(* One list.                                                               *)
(***************************************************************************)
(* The pointers are null exactly where there is no block.                  *)
LEMMA AtFacts ==
    ASSUME NEW s \in Seq(PCBs)
    PROVE  /\ Len(s) \in Nat /\ DOMAIN s = 1 .. Len(s)
           /\ s = <<>> <=> Len(s) = 0
           /\ \A k \in 1 .. Len(s) : s[k] \in PCBs /\ At(s, k) = s[k] /\ s[k] # NULL
           /\ \A k : k \notin 1 .. Len(s) => At(s, k) = NULL
<1>1. /\ Len(s) \in Nat /\ DOMAIN s = 1 .. Len(s)
      /\ \A k \in 1 .. Len(s) : s[k] \in PCBs
  BY LenProperties, ElementOfSeq
<1>2. s = <<>> <=> Len(s) = 0
  BY EmptySeq
<1> QED BY <1>1, <1>2, NullIsNoBlock DEF At

(* A list is no longer than there are blocks.                              *)
LEMMA ListIsBounded ==
    ASSUME NEW s \in Seq(PCBs), IsInjective(s)
    PROVE  /\ Cardinality(PCBs) \in Nat
           /\ Len(s) <= Cardinality(PCBs)
<1>1. s \in Injection(1 .. Len(s), PCBs)
  BY AtFacts DEF Injection, IsInjective
<1>2. Cardinality(PCBs) \in Nat
  BY HeapIsFinite, FS_CardinalityType
<1>3. Cardinality(1 .. Len(s)) <= Cardinality(PCBs)
  BY <1>1, HeapIsFinite, FS_Injection
<1>4. Cardinality(1 .. Len(s)) = Len(s)
  BY AtFacts, FS_Interval, SMTT(60)
<1> QED BY <1>2, <1>3, <1>4

(* A block p is linked in at position k: the one before it points to it    *)
(* and it to the one that was there.                                       *)
LEMMA ListInserted ==
    ASSUME NEW h, NEW t, NEW c, NEW nx, NEW s, IsList(h, t, c, nx, s),
           NEW p \in PCBs, p \notin Range(s), NEW k \in 1 .. Len(s) + 1,
           NEW nx2, nx2[p] = At(s, k),
           \A j \in 1 .. Len(s) : nx2[s[j]] = IF j = k - 1 THEN p ELSE nx[s[j]]
    PROVE  IsList(IF k = 1 THEN p ELSE h, IF k = Len(s) + 1 THEN p ELSE t, c + 1,
                  nx2, InsertAt(s, k, p))
<1> DEFINE n == Len(s)
<1> DEFINE r == InsertAt(s, k, p)
<1>1. /\ s \in Seq(PCBs) /\ IsInjective(s) /\ h = At(s, 1) /\ t = At(s, n) /\ c = n
      /\ \A j \in 1 .. n : nx[s[j]] = At(s, j + 1)
  BY DEF IsList
<1>2. /\ r \in Seq(PCBs) /\ Len(r) = n + 1
      /\ \A j \in 1 .. n + 1 :
            r[j] = IF j < k THEN s[j] ELSE IF j = k THEN p ELSE s[j - 1]
  <2>1. r \in Seq(PCBs) /\ HasInserted(s, k, p, r)
    BY <1>1, InsertAtIs
  <2> HIDE DEF r
  <2> QED BY <2>1 DEF HasInserted
<1>3. IsInjective(r)
  BY <1>1, InsertAtRange
<1>4. /\ n \in Nat
      /\ \A j \in 1 .. n : At(s, j) = s[j]
      /\ At(s, n + 1) = NULL /\ At(s, 0) = NULL
  BY <1>1, AtFacts
<1>5. /\ \A j \in 1 .. n + 1 : At(r, j) = r[j]
      /\ At(r, n + 2) = NULL
  BY <1>2, <1>4 DEF At
<1> HIDE DEF r, n
<1>6. k \in 1 .. n + 1
  BY DEF n
<1>7. /\ At(r, 1) = IF k = 1 THEN p ELSE h
      /\ At(r, n + 1) = IF k = n + 1 THEN p ELSE t
  <2>1. At(r, 1) = r[1] /\ At(r, n + 1) = r[n + 1]
    BY <1>4, <1>5
  <2>2. r[1] = IF k = 1 THEN p ELSE s[1]
    BY <1>2, <1>4, <1>6
  <2>3. r[n + 1] = IF k = n + 1 THEN p ELSE s[n]
    BY <1>2, <1>4, <1>6
  <2>4. k # 1 => h = s[1]
    BY <1>1, <1>4, <1>6
  <2>5. k # n + 1 => t = s[n]
    BY <1>1, <1>4, <1>6
  <2> QED BY <2>1, <2>2, <2>3, <2>4, <2>5
<1>8. ASSUME NEW j \in 1 .. n + 1 PROVE nx2[r[j]] = At(r, j + 1)
  <2>1. CASE j < k - 1
    BY <1>1, <1>2, <1>4, <1>5, <1>6, <2>1 DEF n
  <2>2. CASE j = k - 1
    <3>1. j \in 1 .. n /\ r[j] = s[j] /\ At(r, j + 1) = p
      BY <1>2, <1>4, <1>5, <1>6, <2>2
    <3> QED BY <2>2, <3>1 DEF n
  <2>3. CASE j = k
    <3>1. r[j] = p
      BY <1>2, <1>6, <2>3
    <3>2. At(r, j + 1) = At(s, k)
      BY <1>2, <1>4, <1>5, <1>6, <2>3
    <3> QED BY <3>1, <3>2
  <2>4. CASE j > k
    <3>1. j - 1 \in 1 .. n /\ j - 1 # k - 1 /\ r[j] = s[j - 1]
      BY <1>2, <1>4, <1>6, <2>4
    <3>2. nx2[r[j]] = At(s, j)
      BY <1>1, <1>4, <3>1 DEF n
    <3>3. At(r, j + 1) = At(s, j)
      <4>1. CASE j = n + 1
        BY <1>4, <1>5, <4>1
      <4>2. CASE j # n + 1
        <5>1. j \in 1 .. n /\ j + 1 \in 1 .. n + 1 /\ r[j + 1] = s[j]
          BY <1>2, <1>4, <1>6, <2>4, <4>2
        <5> QED BY <1>4, <1>5, <5>1
      <4> QED BY <4>1, <4>2
    <3> QED BY <3>2, <3>3
  <2> QED BY <1>6, <2>1, <2>2, <2>3, <2>4
<1> QED BY <1>1, <1>2, <1>3, <1>7, <1>8 DEF IsList, r, n

(* The block at position k is linked out.                                  *)
LEMMA ListRemoved ==
    ASSUME NEW h, NEW t, NEW c, NEW nx, NEW s, IsList(h, t, c, nx, s),
           NEW k \in 1 .. Len(s), NEW nx2,
           \A j \in 1 .. Len(s) :
              j # k => nx2[s[j]] = IF j = k - 1 THEN nx[s[k]] ELSE nx[s[j]]
    PROVE  IsList(IF k = 1 THEN nx[s[k]] ELSE h, IF k = Len(s) THEN At(s, k - 1) ELSE t, c - 1,
                  nx2, RemoveAt(s, k))
<1> DEFINE n == Len(s)
<1> DEFINE r == RemoveAt(s, k)
<1>1. /\ s \in Seq(PCBs) /\ IsInjective(s) /\ h = At(s, 1) /\ t = At(s, n) /\ c = n
      /\ \A j \in 1 .. n : nx[s[j]] = At(s, j + 1)
  BY DEF IsList
<1>2. /\ r \in Seq(PCBs) /\ Len(r) = n - 1
      /\ \A j \in 1 .. n - 1 : r[j] = IF j < k THEN s[j] ELSE s[j + 1]
  BY <1>1, RemoveAtElements
<1>3. IsInjective(r)
  BY <1>1, RemoveAtRange
<1>4. /\ n \in Nat
      /\ \A j \in 1 .. n : At(s, j) = s[j]
      /\ At(s, n + 1) = NULL /\ At(s, 0) = NULL
  BY <1>1, AtFacts
<1>5. /\ \A j \in 1 .. n - 1 : At(r, j) = r[j]
      /\ At(r, n) = NULL /\ At(r, 0) = NULL
  BY <1>2, <1>4 DEF At
<1> HIDE DEF r, n
<1>6. k \in 1 .. n
  BY DEF n
<1>7. /\ At(r, 1) = IF k = 1 THEN nx[s[k]] ELSE h
      /\ At(r, n - 1) = IF k = n THEN At(s, k - 1) ELSE t
  <2>1. CASE n = 1
    BY <1>1, <1>4, <1>5, <1>6, <2>1
  <2>2. CASE n > 1
    BY <1>1, <1>2, <1>4, <1>5, <1>6, <2>2, SMTT(60)
  <2> QED BY <1>4, <1>6, <2>1, <2>2
<1>8. ASSUME NEW j \in 1 .. n - 1 PROVE nx2[r[j]] = At(r, j + 1)
  <2>0. \A i \in 1 .. n : i # k => nx2[s[i]] = IF i = k - 1 THEN nx[s[k]] ELSE nx[s[i]]
    BY DEF n
  <2>1. CASE j < k - 1
    <3>1. j \in 1 .. n /\ j # k /\ r[j] = s[j] /\ nx2[s[j]] = At(s, j + 1)
      BY <1>1, <1>2, <1>4, <1>6, <2>0, <2>1
    <3>2. At(r, j + 1) = r[j + 1] /\ r[j + 1] = s[j + 1] /\ At(s, j + 1) = s[j + 1]
      BY <1>2, <1>4, <1>5, <1>6, <2>1
    <3> QED BY <3>1, <3>2
  <2>2. CASE j = k - 1
    <3>1. j \in 1 .. n /\ j # k /\ r[j] = s[j]
      BY <1>2, <1>4, <1>6, <2>2
    <3>2. nx2[r[j]] = At(s, k + 1)
      BY <1>1, <1>6, <2>0, <2>2, <3>1
    <3>3. At(r, j + 1) = At(s, k + 1)
      BY <1>2, <1>4, <1>5, <1>6, <2>2
    <3> QED BY <3>2, <3>3
  <2>3. CASE j >= k
    <3>1. j + 1 \in 1 .. n /\ j + 1 # k /\ j + 1 # k - 1 /\ r[j] = s[j + 1]
      BY <1>2, <1>4, <1>6, <2>3
    <3>2. nx2[r[j]] = At(s, j + 2)
      BY <1>1, <2>0, <3>1
    <3>3. At(r, j + 1) = At(s, j + 2)
      BY <1>2, <1>4, <1>5, <1>6, <2>3, SMTT(60)
    <3> QED BY <3>2, <3>3
  <2> QED BY <1>6, <2>1, <2>2, <2>3
<1> QED BY <1>1, <1>2, <1>3, <1>7, <1>8 DEF IsList, r, n

(* A list whose pointers are left alone stays the list it was.             *)
LEMMA ListKept ==
    ASSUME NEW h, NEW t, NEW c, NEW nx, NEW s, IsList(h, t, c, nx, s), NEW nx2,
           \A j \in 1 .. Len(s) : nx2[s[j]] = nx[s[j]]
    PROVE  IsList(h, t, c, nx2, s)
BY DEF IsList
-----------------------------------------------------------------------------
(***************************************************************************)
(* The three lists.                                                        *)
(***************************************************************************)
QIDs == B!QIDs

(***************************************************************************)
(* The pointers are the queues Q, which share no block.                    *)
(***************************************************************************)
AreLists(h, t, c, nx, Q) ==
    /\ Q \in [QIDs -> Seq(PCBs)]
    /\ \A id \in QIDs : IsList(h[id], t[id], c[id], nx, Q[id])
    /\ \A id, other \in QIDs : id # other => Range(Q[id]) \cap Range(Q[other]) = {}

(* A block that is in no queue is linked into one, and into no other.      *)
LEMMA QueueInserted ==
    ASSUME NEW h, NEW t, NEW c, NEW nx, NEW Q, AreLists(h, t, c, nx, Q),
           NEW p \in PCBs, \A i \in QIDs : p \notin Range(Q[i]),
           NEW id \in QIDs, NEW k \in 1 .. Len(Q[id]) + 1,
           NEW h2, NEW t2, NEW c2, NEW nx2,
           /\ nx2[p] = At(Q[id], k)
           /\ \A x \in PCBs \ {p} : nx2[x] = IF k > 1 /\ x = Q[id][k - 1] THEN p ELSE nx[x]
           /\ h2[id] = IF k = 1 THEN p ELSE h[id]
           /\ t2[id] = IF k = Len(Q[id]) + 1 THEN p ELSE t[id]
           /\ c2[id] = c[id] + 1
           /\ \A i \in QIDs \ {id} : h2[i] = h[i] /\ t2[i] = t[i] /\ c2[i] = c[i]
    PROVE  AreLists(h2, t2, c2, nx2, [Q EXCEPT ![id] = InsertAt(Q[id], k, p)])
<1> DEFINE s == Q[id]
<1> DEFINE r == InsertAt(s, k, p)
<1> DEFINE Q2 == [Q EXCEPT ![id] = r]
<1>1. s \in Seq(PCBs) /\ IsList(h[id], t[id], c[id], nx, s)
  BY DEF AreLists
<1>2. r \in Seq(PCBs) /\ Range(r) = Range(s) \cup {p}
  BY <1>1, InsertAtElements, InsertAtRange
<1>3. Q2 \in [QIDs -> Seq(PCBs)] /\ Q2[id] = r /\ \A i \in QIDs \ {id} : Q2[i] = Q[i]
  BY <1>2 DEF AreLists
<1>4. \A i \in QIDs : \A j \in 1 .. Len(Q[i]) : Q[i][j] \in PCBs \ {p}
  <2> TAKE i \in QIDs
  <2> TAKE j \in 1 .. Len(Q[i])
  <2>1. Q[i] \in Seq(PCBs)
    BY DEF AreLists
  <2> QED BY <2>1, AtFacts DEF Range
<1>5. \A j \in 1 .. Len(s) : nx2[s[j]] = IF j = k - 1 THEN p ELSE nx[s[j]]
  <2> TAKE j \in 1 .. Len(s)
  <2>1. s[j] \in PCBs \ {p} /\ Len(s) \in Nat
    BY <1>1, <1>4, AtFacts
  <2>2. k > 1 /\ s[j] = s[k - 1] => j = k - 1
    <3>1. k > 1 => k - 1 \in 1 .. Len(s)
      BY <2>1
    <3> QED BY <1>1, <3>1, AtFacts DEF IsList, IsInjective
  <2> QED BY <2>1, <2>2
<1>6. IsList(h2[id], t2[id], c2[id], nx2, r)
  <2>1. p \notin Range(s)
    OBVIOUS
  <2> HIDE DEF s
  <2>2. IsList(IF k = 1 THEN p ELSE h[id], IF k = Len(s) + 1 THEN p ELSE t[id], c[id] + 1,
               nx2, r)
    <3>1. k \in 1 .. Len(s) + 1 /\ nx2[p] = At(s, k)
      BY DEF s
    <3> QED BY <1>1, <1>5, <2>1, <3>1, ListInserted
  <2> QED BY <2>2 DEF s
<1>7. ASSUME NEW i \in QIDs \ {id} PROVE IsList(h2[i], t2[i], c2[i], nx2, Q[i])
  <2>1. \A j \in 1 .. Len(Q[i]) : nx2[Q[i][j]] = nx[Q[i][j]]
    <3> TAKE j \in 1 .. Len(Q[i])
    <3>1. Q[i][j] \in Range(Q[i]) /\ Q[i] \in Seq(PCBs)
      BY AtFacts DEF AreLists, Range
    <3>2. k > 1 => s[k - 1] \in Range(s)
      <4>1. k > 1 => k - 1 \in 1 .. Len(s)
        BY <1>1, AtFacts
      <4> QED BY <1>1, <4>1, AtFacts DEF Range
    <3>3. ~ (k > 1 /\ Q[i][j] = s[k - 1])
      BY <3>1, <3>2 DEF AreLists
    <3> QED BY <1>4, <3>3
  <2> QED BY <2>1, ListKept DEF AreLists
<1>8. \A i, other \in QIDs : i # other => Range(Q2[i]) \cap Range(Q2[other]) = {}
  BY <1>2, <1>3 DEF AreLists
<1> HIDE DEF Q2, r
<1>9. \A i \in QIDs : IsList(h2[i], t2[i], c2[i], nx2, Q2[i])
  BY <1>3, <1>6, <1>7
<1> QED BY <1>3, <1>8, <1>9 DEF AreLists, Q2, r

(* A block is linked out of the queue it is in.                            *)
LEMMA QueueRemoved ==
    ASSUME NEW h, NEW t, NEW c, NEW nx, NEW Q, AreLists(h, t, c, nx, Q),
           NEW id \in QIDs, NEW k \in 1 .. Len(Q[id]), NEW p, p = Q[id][k],
           NEW h2, NEW t2, NEW c2, NEW nx2,
           /\ \A x \in PCBs \ {p} :
                 nx2[x] = IF k > 1 /\ x = Q[id][k - 1] THEN nx[p] ELSE nx[x]
           /\ h2[id] = IF k = 1 THEN nx[p] ELSE h[id]
           /\ t2[id] = IF k = Len(Q[id]) THEN At(Q[id], k - 1) ELSE t[id]
           /\ c2[id] = c[id] - 1
           /\ \A i \in QIDs \ {id} : h2[i] = h[i] /\ t2[i] = t[i] /\ c2[i] = c[i]
    PROVE  AreLists(h2, t2, c2, nx2, [Q EXCEPT ![id] = RemoveAt(Q[id], k)])
<1> DEFINE s == Q[id]
<1> DEFINE r == RemoveAt(s, k)
<1> DEFINE Q2 == [Q EXCEPT ![id] = r]
<1>1. /\ s \in Seq(PCBs) /\ IsInjective(s) /\ IsList(h[id], t[id], c[id], nx, s)
      /\ Len(s) \in Nat
  BY AtFacts DEF AreLists, IsList
<1>2. r \in Seq(PCBs) /\ Range(r) = Range(s) \ {p}
  BY <1>1, RemoveAtElements, RemoveAtRange, ZenonT(60)
<1>3. Q2 \in [QIDs -> Seq(PCBs)] /\ Q2[id] = r /\ \A i \in QIDs \ {id} : Q2[i] = Q[i]
  BY <1>2 DEF AreLists
<1>4. \A j \in 1 .. Len(s) :
         j # k => nx2[s[j]] = IF j = k - 1 THEN nx[s[k]] ELSE nx[s[j]]
  <2> TAKE j \in 1 .. Len(s)
  <2> HAVE j # k
  <2>1. s[j] \in PCBs \ {p} /\ DOMAIN s = 1 .. Len(s)
    BY <1>1, AtFacts DEF IsInjective
  <2>2. k > 1 /\ s[j] = s[k - 1] => j = k - 1
    <3>1. k > 1 => k - 1 \in 1 .. Len(s)
      BY <1>1
    <3> QED BY <1>1, <2>1, <3>1 DEF IsInjective
  <2>3. j = k - 1 => k > 1
    BY <1>1
  <2> QED BY <2>1, <2>2, <2>3
<1>5. IsList(h2[id], t2[id], c2[id], nx2, r)
  <2>1. k \in 1 .. Len(s) /\ p = s[k]
    OBVIOUS
  <2> HIDE DEF s
  <2>2. IsList(IF k = 1 THEN nx[s[k]] ELSE h[id],
               IF k = Len(s) THEN At(s, k - 1) ELSE t[id], c[id] - 1, nx2, r)
    BY <1>1, <1>4, <2>1, ListRemoved
  <2> QED BY <2>1, <2>2 DEF s
<1>6. ASSUME NEW i \in QIDs \ {id} PROVE IsList(h2[i], t2[i], c2[i], nx2, Q[i])
  <2>1. \A j \in 1 .. Len(Q[i]) : nx2[Q[i][j]] = nx[Q[i][j]]
    <3> TAKE j \in 1 .. Len(Q[i])
    <3>1. Q[i][j] \in Range(Q[i]) /\ Q[i][j] \in PCBs /\ Q[i] \in Seq(PCBs)
      BY AtFacts DEF AreLists, Range
    <3>2. \A m \in 1 .. Len(s) : s[m] \in Range(s)
      BY <1>1, AtFacts DEF Range
    <3>3. Q[i][j] \notin Range(s)
      BY <3>1 DEF AreLists
    <3>4. k > 1 => k - 1 \in 1 .. Len(s)
      BY <1>1
    <3> QED BY <3>1, <3>2, <3>3, <3>4
  <2> QED BY <2>1, ListKept DEF AreLists
<1>7. \A i, other \in QIDs : i # other => Range(Q2[i]) \cap Range(Q2[other]) = {}
  BY <1>2, <1>3 DEF AreLists
<1> HIDE DEF Q2, r
<1>8. \A i \in QIDs : IsList(h2[i], t2[i], c2[i], nx2, Q2[i])
  BY <1>3, <1>5, <1>6
<1> QED BY <1>3, <1>7, <1>8 DEF AreLists, Q2, r

(* What a block outside the queues points to matters to none of them.      *)
LEMMA QueuesKept ==
    ASSUME NEW h, NEW t, NEW c, NEW nx, NEW Q, AreLists(h, t, c, nx, Q),
           NEW p, \A i \in QIDs : p \notin Range(Q[i]),
           NEW nx2, \A x \in PCBs \ {p} : nx2[x] = nx[x]
    PROVE  AreLists(h, t, c, nx2, Q)
<1>1. ASSUME NEW i \in QIDs PROVE IsList(h[i], t[i], c[i], nx2, Q[i])
  <2>1. \A j \in 1 .. Len(Q[i]) : Q[i][j] \in PCBs \ {p}
    <3>1. Q[i] \in Seq(PCBs)
      BY DEF AreLists
    <3> QED BY <3>1, AtFacts DEF Range
  <2> QED BY <2>1, ListKept DEF AreLists
<1> QED BY <1>1 DEF AreLists
-----------------------------------------------------------------------------
(***************************************************************************)
(* What the loops of the code find when the pointers are lists.            *)
(***************************************************************************)
Represents(Q) == AreLists(head, tail, count, next, Q)

(* A loop meets the blocks of the list in their order, and then null.      *)
(* There is one function that makes these steps: of two the first          *)
(* difference would be one step after an agreement.                        *)
LEMMA WalkMeets ==
    ASSUME NEW id, NEW s, IsList(head[id], tail[id], count[id], next, s)
    PROVE  Walk(id) = [k \in Steps |-> At(s, k + 1)]
<1> DEFINE Follows(f) ==
      f = [k \in Steps |-> IF k = 0 THEN head[id]
                           ELSE IF f[k - 1] = NULL THEN NULL ELSE next[f[k - 1]]]
<1> DEFINE g == [k \in Steps |-> At(s, k + 1)]
<1>1. s \in Seq(PCBs) /\ IsInjective(s) /\ Len(s) \in Nat
  BY AtFacts DEF IsList
<1>2. Steps = 0 .. Cardinality(PCBs) /\ Cardinality(PCBs) \in Nat
  BY <1>1, ListIsBounded DEF Steps
<1>3. \A k \in Steps : k # 0 =>
         At(s, k + 1) = IF At(s, k) = NULL THEN NULL ELSE next[At(s, k)]
  <2> TAKE k \in Steps
  <2> HAVE k # 0
  <2>1. k \in Nat /\ k >= 1
    BY <1>2
  <2>2. CASE k \in 1 .. Len(s)
    BY <1>1, <2>2, AtFacts DEF IsList
  <2>3. CASE k \notin 1 .. Len(s)
    <3>1. k + 1 \notin 1 .. Len(s)
      BY <1>1, <2>1, <2>3
    <3> QED BY <1>1, <2>3, <3>1, AtFacts
  <2> QED BY <2>2, <2>3
<1>4. Follows(g)
  <2>1. \A k \in Steps : k # 0 => k - 1 \in Steps /\ g[k - 1] = At(s, k)
    BY <1>2
  <2>2. At(s, 0 + 1) = head[id]
    BY DEF IsList
  <2>3. \A k \in Steps : g[k] = IF k = 0 THEN head[id]
                                ELSE IF g[k - 1] = NULL THEN NULL ELSE next[g[k - 1]]
    BY <1>3, <2>1, <2>2
  <2> QED BY <2>3
<1>5. ASSUME NEW f, Follows(f) PROVE f = g
  <2> DEFINE D == {k \in Steps : f[k] # g[k]}
  <2>1. CASE D = {}
    <3>1. f = [k \in Steps |-> f[k]]
      BY <1>5
    <3> QED BY <2>1, <3>1
  <2>2. CASE D # {}
    <3>1. D \in SUBSET Nat
      BY <1>2
    <3> HIDE DEF D
    <3>2. PICK k \in D : \A j \in D : k <= j
      BY <2>2, <3>1, LeastNumber
    <3>3. k \in Steps /\ f[k] # g[k]
      BY <3>2 DEF D
    <3>4. k # 0
      BY <1>4, <1>5, <3>3
    <3>5. k - 1 \in Steps /\ k - 1 \notin D
      BY <1>2, <3>2, <3>3, <3>4
    <3>6. f[k - 1] = g[k - 1]
      BY <3>5 DEF D
    <3> HIDE DEF g
    <3>7. f[k] = g[k]
      BY <1>4, <1>5, <3>3, <3>4, <3>6
    <3> QED BY <3>3, <3>7
  <2> QED BY <2>1, <2>2
<1>6. Walk(id) = CHOOSE f : Follows(f)
  BY DEF Walk
<1> HIDE DEF Follows, g
<1>7. Walk(id) = g
  BY <1>4, <1>5, <1>6
<1> QED BY <1>7 DEF g

(* The list that is read off the pointers is the list that they are.       *)
LEMMA ListIsRead ==
    ASSUME NEW id, NEW s, IsList(head[id], tail[id], count[id], next, s)
    PROVE  /\ \A k \in Steps : Walk(id)[k] = At(s, k + 1)
           /\ Steps = 0 .. Cardinality(PCBs) /\ Cardinality(PCBs) \in Nat
           /\ Len(s) \in Nat /\ Len(s) <= Cardinality(PCBs)
           /\ FirstStep({j \in Steps : Walk(id)[j] = NULL}) = Len(s)
           /\ List(id) = s
           /\ Members(id) = Range(s)
<1>1. s \in Seq(PCBs) /\ IsInjective(s) /\ Len(s) \in Nat
  BY AtFacts DEF IsList
<1>2. /\ Steps = 0 .. Cardinality(PCBs) /\ Cardinality(PCBs) \in Nat
      /\ Len(s) <= Cardinality(PCBs)
  BY <1>1, ListIsBounded DEF Steps
<1>3. \A k \in Steps : Walk(id)[k] = At(s, k + 1)
  BY WalkMeets
<1> DEFINE H == {j \in Steps : Walk(id)[j] = NULL}
<1>4. Len(s) \in H /\ H \in SUBSET Int /\ \A j \in H : Len(s) <= j
  <2>1. \A j \in Steps : j < Len(s) => Walk(id)[j] \in PCBs
    <3> TAKE j \in Steps
    <3> HAVE j < Len(s)
    <3>1. j + 1 \in 1 .. Len(s)
      BY <1>1, <1>2
    <3> QED BY <1>1, <1>3, <3>1, AtFacts
  <2>2. Len(s) \in Steps /\ Walk(id)[Len(s)] = NULL
    <3>1. Len(s) \in Steps /\ Len(s) + 1 \notin 1 .. Len(s)
      BY <1>1, <1>2
    <3> QED BY <1>1, <1>3, <3>1, AtFacts
  <2> QED BY <1>1, <1>2, <2>1, <2>2, NullIsNoBlock
<1> HIDE DEF H
<1>5. FirstStep(H) = Len(s)
  BY <1>4, LeastChosen DEF FirstStep
<1>6. List(id) = s
  <2>1. List(id) = [k \in 1 .. Len(s) |-> Walk(id)[k - 1]]
    BY <1>5 DEF List, H
  <2>2. \A k \in 1 .. Len(s) : k - 1 \in Steps /\ Walk(id)[k - 1] = s[k]
    <3> TAKE k \in 1 .. Len(s)
    <3>1. k - 1 \in Steps /\ (k - 1) + 1 = k
      BY <1>1, <1>2
    <3> QED BY <1>1, <1>3, <3>1, AtFacts
  <2>3. s = [k \in 1 .. Len(s) |-> s[k]]
    BY <1>1
  <2> QED BY <2>1, <2>2, <2>3
<1>7. Members(id) = Range(s)
  <2>1. \A k \in Steps : Walk(id)[k] # NULL =>
           k + 1 \in 1 .. Len(s) /\ Walk(id)[k] = s[k + 1]
    BY <1>1, <1>3, AtFacts
  <2>2. \A k \in 1 .. Len(s) : /\ k - 1 \in Steps /\ Walk(id)[k - 1] = s[k]
                               /\ s[k] # NULL
    <3> TAKE k \in 1 .. Len(s)
    <3>1. k - 1 \in Steps /\ (k - 1) + 1 = k
      BY <1>1, <1>2
    <3> QED BY <1>1, <1>3, <3>1, AtFacts
  <2>3. DOMAIN s = 1 .. Len(s)
    BY <1>1, AtFacts
  <2>4. ASSUME NEW x \in Members(id) PROVE x \in Range(s)
    <3>1. PICK k \in Steps : x = Walk(id)[k] /\ x # NULL
      BY DEF Members
    <3> QED BY <2>1, <2>3, <3>1 DEF Range
  <2>5. ASSUME NEW x \in Range(s) PROVE x \in Members(id)
    <3>1. PICK k \in 1 .. Len(s) : x = s[k]
      BY <2>3 DEF Range
    <3> QED BY <2>2, <3>1 DEF Members
  <2> QED BY <2>4, <2>5
<1> QED BY <1>1, <1>2, <1>3, <1>5, <1>6, <1>7 DEF H

(* All of it for the three queues.                                         *)
LEMMA ContentsAreRead ==
    \A Q : Represents(Q) =>
       /\ Contents = Q
       /\ \A id \in QIDs : Members(id) = Range(Q[id])
<1> SUFFICES ASSUME NEW Q, Represents(Q)
             PROVE  /\ Contents = Q
                    /\ \A id \in QIDs : Members(id) = Range(Q[id])
  OBVIOUS
<1>1. ASSUME NEW id \in QIDs PROVE List(id) = Q[id] /\ Members(id) = Range(Q[id])
  BY ListIsRead DEF Represents, AreLists
<1>2. Q = [id \in QIDs |-> Q[id]]
  BY DEF Represents, AreLists
<1>3. Contents = [id \in QIDs |-> List(id)]
  BY DEF Contents, QIDs
<1> QED BY <1>1, <1>2, <1>3

(* The same after a step.                                                  *)
LEMMA ContentsAreReadNext == \A Q : Represents(Q)' => Contents' = Q
<1>1. \A Q : Represents(Q) => Contents = Q
  BY ContentsAreRead
<1>2. (\A Q : Represents(Q) => Contents = Q)'
  BY <1>1, PTL
<1> QED BY <1>2
-----------------------------------------------------------------------------
(***************************************************************************)
(* The invariant: the pointers are the lists that are read off them.       *)
(***************************************************************************)
LinksTyped ==
    /\ pcb \in [PCBs -> Sequential!Fields]
    /\ next \in [PCBs -> PCBs \cup {NULL}]
    /\ head \in [QIDs -> PCBs \cup {NULL}]
    /\ tail \in [QIDs -> PCBs \cup {NULL}]
    /\ count \in [QIDs -> Nat]

LinksInv == LinksTyped /\ Represents(Contents)

(* The two specifications compute with the same operators.                 *)
LEMMA SameOperators ==
    /\ QIDs = {"ready", "blocked", "suspended"} /\ Sequential!QIDs = QIDs
    /\ \A rec \in Sequential!Fields : /\ Sequential!Target(rec) = B!Target(rec)
                                      /\ B!Target(rec) \in QIDs
    /\ \A f : Sequential!Range(f) = Range(f)
    /\ \A q, k, e : Sequential!InsertAt(q, k, e) = InsertAt(q, k, e)
    /\ \A q, k : Sequential!RemoveAt(q, k) = RemoveAt(q, k)
<1>1. QIDs = {"ready", "blocked", "suspended"} /\ Sequential!QIDs = QIDs
  BY DEF QIDs, B!QIDs, Sequential!QIDs
<1>2. ASSUME NEW rec \in Sequential!Fields
      PROVE  Sequential!Target(rec) = B!Target(rec) /\ B!Target(rec) \in QIDs
  <2>1. rec.suspended \in BOOLEAN /\ rec.state \in {"ready", "blocked"}
    BY DEF Sequential!Fields
  <2> QED BY <1>1, <2>1 DEF Sequential!Target, B!Target
<1>3. \A f : Sequential!Range(f) = Range(f)
  BY DEF Sequential!Range, Range
<1>4. \A q, k, e : Sequential!InsertAt(q, k, e) = InsertAt(q, k, e)
  BY DEF Sequential!InsertAt, InsertAt
<1>5. \A q, k : Sequential!RemoveAt(q, k) = RemoveAt(q, k)
  BY DEF Sequential!RemoveAt, RemoveAt
<1> QED BY <1>1, <1>2, <1>3, <1>4, <1>5

(* A block is queued in the one sense if it is in the other.               *)
LEMMA SameQueued ==
    ASSUME LinksInv, NEW p
    PROVE  /\ Queued(p) <=> \E id \in QIDs : p \in Range(Contents[id])
           /\ Sequential!Queued(p) <=> Queued(p)
<1>1. \A id \in QIDs : Members(id) = Range(Contents[id])
  BY ContentsAreRead DEF LinksInv
<1>2. Queued(p) <=> \E id \in QIDs : p \in Range(Contents[id])
  BY <1>1 DEF Queued, QIDs
<1>3. Sequential!Queued(p) <=> \E id \in QIDs : p \in Range(Contents[id])
  BY SameOperators DEF Sequential!Queued
<1> QED BY <1>2, <1>3

(* To show that the lists are what they should be is to show that the      *)
(* pointers are.                                                           *)
LEMMA NewContents ==
    ASSUME LinksTyped', NEW Q, Represents(Q)'
    PROVE  LinksInv' /\ Contents' = Q
<1>1. Contents' = Q
  BY ContentsAreReadNext
<1> QED BY <1>1 DEF LinksInv, Represents

(* At boot all three lists are empty.                                      *)
LEMMA LinksInit == Init => LinksInv /\ Sequential!Init
<1> SUFFICES ASSUME Init PROVE LinksInv /\ Sequential!Init
  OBVIOUS
<1> DEFINE Q == [id \in QIDs |-> <<>>]
<1>1. LinksTyped
  <2>1. PICK priority \in Levels : pcb = [p \in PCBs |-> NewBlock(priority)]
    BY DEF Init
  <2>2. pcb \in [PCBs -> Sequential!Fields]
    BY <2>1 DEF NewBlock, Sequential!Fields
  <2> QED BY <2>2 DEF Init, LinksTyped, QIDs
<1>2. Represents(Q)
  <2>1. <<>> \in Seq(PCBs) /\ Len(<<>>) = 0 /\ 1 .. 0 = {}
    BY EmptySeq
  <2>2. IsInjective(<<>>) /\ Range(<<>>) = {}
    BY <2>1, AtFacts DEF IsInjective, Range
  <2>3. At(<<>>, 0) = NULL /\ At(<<>>, 1) = NULL
    BY <2>1, AtFacts
  <2>4. \A id \in QIDs : head[id] = NULL /\ tail[id] = NULL /\ count[id] = 0
    BY DEF Init, QIDs
  <2>5. \A id \in QIDs : IsList(head[id], tail[id], count[id], next, <<>>)
    BY <2>1, <2>2, <2>3, <2>4 DEF IsList
  <2> QED BY <2>1, <2>2, <2>5 DEF Represents, AreLists
<1>3. Contents = Q
  BY <1>2, ContentsAreRead
<1>4. Sequential!Init
  BY <1>1, <1>3, SameOperators DEF Sequential!Init, LinksTyped
<1> QED BY <1>1, <1>2, <1>3, <1>4 DEF LinksInv
-----------------------------------------------------------------------------
(***************************************************************************)
(* The steps: each keeps the invariant and is a step of ProcessQueues.     *)
(***************************************************************************)
(* A block outside the queues gets other fields, and its next any value.   *)
LEMMA ChangesStep ==
    ASSUME LinksInv, NEW p \in PCBs, SetsUp(p) \/ Changes(p)
    PROVE  LinksInv' /\ Sequential!Changes(p)
<1>1. PICK Q : Q = Contents /\ Represents(Q)
  BY DEF LinksInv
<1>2. /\ ~ Queued(p) /\ head' = head /\ tail' = tail /\ count' = count
      /\ \A x \in PCBs \ {p} : next'[x] = next[x]
      /\ next' \in [PCBs -> PCBs \cup {NULL}]
  BY DEF SetsUp, Changes, links, LinksInv, LinksTyped
<1>3. PICK rec \in Sequential!Fields : pcb' = [pcb EXCEPT ![p] = rec]
  <2>1. CASE SetsUp(p)
    <3>1. PICK priority \in Levels : pcb' = [pcb EXCEPT ![p] = NewBlock(priority)]
      BY <2>1 DEF SetsUp
    <3>2. NewBlock(priority) \in Sequential!Fields
      BY DEF NewBlock, Sequential!Fields
    <3> QED BY <3>1, <3>2
  <2>2. CASE Changes(p)
    <3>1. pcb[p] \in Sequential!Fields
      BY DEF LinksInv, LinksTyped
    <3>2. CASE \E state \in {"ready", "blocked"} : pcb' = [pcb EXCEPT ![p].state = state]
      <4>1. PICK state \in {"ready", "blocked"} :
               pcb' = [pcb EXCEPT ![p] = [pcb[p] EXCEPT !.state = state]]
        BY <3>2
      <4>2. [pcb[p] EXCEPT !.state = state] \in Sequential!Fields
        BY <3>1 DEF Sequential!Fields
      <4> QED BY <4>1, <4>2
    <3>3. CASE pcb' = [pcb EXCEPT ![p].suspended = ~ @]
      <4>1. [pcb[p] EXCEPT !.suspended = ~ @] \in Sequential!Fields
        BY <3>1 DEF Sequential!Fields
      <4>2. pcb' = [pcb EXCEPT ![p] = [pcb[p] EXCEPT !.suspended = ~ @]]
        BY <3>3
      <4> QED BY <4>1, <4>2
    <3>4. CASE \E priority \in Levels : pcb' = [pcb EXCEPT ![p].priority = priority]
      <4>1. PICK priority \in Levels :
               pcb' = [pcb EXCEPT ![p] = [pcb[p] EXCEPT !.priority = priority]]
        BY <3>4
      <4>2. [pcb[p] EXCEPT !.priority = priority] \in Sequential!Fields
        BY <3>1 DEF Sequential!Fields
      <4> QED BY <4>1, <4>2
    <3> QED BY <2>2, <3>2, <3>3, <3>4 DEF Changes
  <2> QED BY <2>1, <2>2
<1>4. LinksTyped'
  BY <1>2, <1>3 DEF LinksInv, LinksTyped
<1>5. \A id \in QIDs : p \notin Range(Q[id])
  BY <1>1, <1>2, SameQueued
<1>6. Represents(Q)'
  BY <1>1, <1>2, <1>5, QueuesKept DEF Represents
<1>7. LinksInv' /\ Contents' = Contents
  BY <1>1, <1>4, <1>6, NewContents
<1> QED BY <1>2, <1>3, <1>7, SameQueued DEF Sequential!Changes

(* To enqueue is to insert behind the last block.                          *)
LEMMA EnqueueStep ==
    ASSUME LinksInv, NEW p \in PCBs, ~ Queued(p), NEW id \in QIDs, enqueue(id, p), pcb' = pcb,
           NEW Q, Q = Contents
    PROVE  /\ LinksTyped'
           /\ AreLists(head', tail', count', next',
                       [Q EXCEPT ![id] = InsertAt(Q[id], Len(Q[id]) + 1, p)])
<1> DEFINE s == Q[id]
<1> DEFINE n == Len(s)
<1>1. /\ AreLists(head, tail, count, next, Q) /\ IsList(head[id], tail[id], count[id], next, s)
      /\ s \in Seq(PCBs) /\ n \in Nat
      /\ \A i \in QIDs : p \notin Range(Q[i])
  BY SameQueued, AtFacts DEF LinksInv, Represents, AreLists
<1>2. /\ tail[id] = At(s, n) /\ head[id] = At(s, 1) /\ n + 1 \in 1 .. n + 1
      /\ At(s, n + 1) = NULL
      /\ tail[id] = NULL <=> n = 0
      /\ n > 0 => tail[id] = s[n] /\ n \in 1 .. n
  BY <1>1, AtFacts DEF IsList
<1>3. n > 0 => s[n] \in PCBs \ {p}
  BY <1>1, <1>2, AtFacts DEF Range
<1>4. LinksTyped'
  BY <1>2, <1>3, SMTT(60) DEF enqueue, LinksInv, LinksTyped
<1>5. /\ next'[p] = At(s, n + 1)
      /\ \A x \in PCBs \ {p} : next'[x] = IF n + 1 > 1 /\ x = s[(n + 1) - 1] THEN p ELSE next[x]
      /\ head'[id] = IF n + 1 = 1 THEN p ELSE head[id]
      /\ tail'[id] = IF n + 1 = n + 1 THEN p ELSE tail[id]
      /\ count'[id] = count[id] + 1
      /\ \A i \in QIDs \ {id} : head'[i] = head[i] /\ tail'[i] = tail[i] /\ count'[i] = count[i]
  <2>1. /\ tail'[id] = p /\ count'[id] = count[id] + 1
        /\ \A i \in QIDs \ {id} : tail'[i] = tail[i] /\ count'[i] = count[i]
    BY DEF enqueue, LinksInv, LinksTyped
  <2> HIDE DEF n, s
  <2>2. CASE n = 0
    <3>1. head' = [head EXCEPT ![id] = p] /\ next' = [next EXCEPT ![p] = NULL]
      BY <1>2, <2>2 DEF enqueue
    <3> QED BY <1>1, <1>2, <2>1, <2>2, <3>1 DEF LinksInv, LinksTyped
  <2>3. CASE n > 0
    <3>1. head' = head /\ next' = [next EXCEPT ![p] = NULL, ![s[n]] = p]
      BY <1>1, <1>2, <2>3 DEF enqueue
    <3>2. (n + 1) - 1 = n
      BY <1>1
    <3> QED BY <1>1, <1>2, <1>3, <2>1, <2>3, <3>1, <3>2 DEF LinksInv, LinksTyped
  <2> QED BY <1>1, <2>2, <2>3
<1>6. AreLists(head', tail', count', next', [Q EXCEPT ![id] = InsertAt(Q[id], Len(Q[id]) + 1, p)])
  BY <1>1, <1>2, <1>5, QueueInserted
<1> QED BY <1>4, <1>6

(* A block is added behind the last one of its state's queue.              *)
LEMMA AddsToStep ==
    ASSUME LinksInv, NEW p \in PCBs, AddsTo(p)
    PROVE  LinksInv' /\ Sequential!AddsTo(p)
<1> DEFINE id == pcb[p].state
<1>1. PICK Q : Q = Contents
  OBVIOUS
<1>2. ~ Queued(p) /\ ~ pcb[p].suspended /\ enqueue(id, p) /\ pcb' = pcb
  BY DEF AddsTo
<1>3. id \in QIDs
  BY SameOperators DEF LinksInv, LinksTyped, Sequential!Fields
<1> HIDE DEF id
<1>4. LinksInv' /\ Contents' = [Q EXCEPT ![id] = InsertAt(Q[id], Len(Q[id]) + 1, p)]
  <2>1. PICK Q2 : Q2 = [Q EXCEPT ![id] = InsertAt(Q[id], Len(Q[id]) + 1, p)]
    OBVIOUS
  <2>2. LinksTyped' /\ Represents(Q2)'
    BY <1>1, <1>2, <1>3, <2>1, EnqueueStep DEF Represents
  <2> QED BY <2>1, <2>2, NewContents
<1>5. Q[id] \in Seq(PCBs)
  BY <1>1, <1>3 DEF LinksInv, Represents, AreLists
<1>6. Contents' = Sequential!enqueue(Contents, id, p)
  BY <1>1, <1>4, <1>5, AppendInserts DEF Sequential!enqueue
<1> QED BY <1>2, <1>4, <1>6, SameQueued DEF Sequential!AddsTo, id

(* The least number in S is the one that is chosen, and there is one.      *)
LEMMA FirstStepIsLeast ==
    ASSUME NEW S \in SUBSET Nat, S # {}
    PROVE  FirstStep(S) \in S /\ \A j \in S : FirstStep(S) <= j
<1>1. \E k \in S : \A j \in S : k <= j
  BY LeastNumber
<1> QED BY <1>1 DEF FirstStep

(* The loop of pcb_insert stops where ProcessQueues puts the block.        *)
LEMMA InsertStops ==
    ASSUME LinksInv, NEW p \in PCBs, NEW id \in QIDs, NEW s, s = Contents[id],
           NEW k, k = FirstStep({j \in Steps : \/ Walk(id)[j] = NULL
                                               \/ StopsAt(Walk(id)[j], p)})
    PROVE  /\ k \in 0 .. Len(s)
           /\ Walk(id)[k] = At(s, k + 1)
           /\ k > 0 => Walk(id)[k - 1] = s[k]
           /\ pcb[p].state = "ready" => Sequential!Slot(pcb, s, p) = k + 1
<1> DEFINE H == {j \in Steps : \/ Walk(id)[j] = NULL
                               \/ StopsAt(Walk(id)[j], p)}
<1> DEFINE n == Len(s)
<1>1. IsList(head[id], tail[id], count[id], next, s)
  BY DEF LinksInv, Represents, AreLists
<1>2. /\ \A j \in Steps : Walk(id)[j] = At(s, j + 1)
      /\ Steps = 0 .. Cardinality(PCBs) /\ Cardinality(PCBs) \in Nat
      /\ n \in Nat /\ n <= Cardinality(PCBs)
  BY <1>1, ListIsRead
<1>3. s \in Seq(PCBs)
  BY <1>1 DEF IsList
<1> HIDE DEF n
<1>4. /\ \A j \in 1 .. n : s[j] \in PCBs /\ At(s, j) = s[j] /\ s[j] # NULL
      /\ At(s, n + 1) = NULL /\ DOMAIN s = 1 .. n
  BY <1>2, <1>3, AtFacts DEF n
<1>5. n \in H
  BY <1>2, <1>4
<1>6. k \in H /\ (\A j \in H : k <= j) /\ H \in SUBSET Nat
  <2>1. H \in SUBSET Nat
    BY <1>2
  <2>2. k = FirstStep(H)
    OBVIOUS
  <2> HIDE DEF H
  <2>3. FirstStep(H) \in H /\ \A j \in H : FirstStep(H) <= j
    BY <1>5, <2>1, FirstStepIsLeast
  <2> QED BY <2>1, <2>2, <2>3
<1>7. k \in 0 .. n
  BY <1>2, <1>5, <1>6
<1>8. Walk(id)[k] = At(s, k + 1) /\ (k > 0 => Walk(id)[k - 1] = s[k])
  <2>1. k \in Steps /\ (k > 0 => k - 1 \in Steps /\ (k - 1) + 1 = k /\ k \in 1 .. n)
    BY <1>2, <1>7
  <2> QED BY <1>2, <1>4, <2>1, ZenonT(60)
<1>9. ASSUME pcb[p].state = "ready" PROVE Sequential!Slot(pcb, s, p) = k + 1
  <2> DEFINE S == {j \in DOMAIN s : pcb[s[j]].priority > pcb[p].priority} \cup {n + 1}
  <2>1. S \in SUBSET Int
    BY <1>2, <1>4
  <2>2. k + 1 \in S
    <3>1. k = n \/ k + 1 \in 1 .. n
      BY <1>2, <1>7, SMTT(60)
    <3>2. CASE k + 1 \in 1 .. n
      <4>1. Walk(id)[k] = s[k + 1] /\ s[k + 1] # NULL
        BY <1>4, <1>8, <3>2
      <4>2. StopsAt(s[k + 1], p)
        BY <1>6, <4>1
      <4> QED BY <1>4, <3>2, <4>2, ZenonT(60) DEF StopsAt
    <3> QED BY <3>1, <3>2
  <2>3. \A j \in S : k + 1 <= j
    <3> TAKE j \in S
    <3>1. CASE j = n + 1
      BY <1>2, <1>7, <3>1
    <3>2. CASE j # n + 1
      <4>1. j \in 1 .. n /\ pcb[s[j]].priority > pcb[p].priority
        BY <1>4, <3>2
      <4>2. j - 1 \in Steps /\ (j - 1) + 1 = j
        BY <1>2, <4>1
      <4>3. Walk(id)[j - 1] = s[j]
        BY <1>2, <1>4, <4>1, <4>2
      <4>4. j - 1 \in H
        BY <4>1, <4>2, <4>3 DEF StopsAt
      <4> HIDE DEF H
      <4>5. k <= j - 1
        BY <1>6, <4>4
      <4> QED BY <1>7, <1>2, <4>1, <4>5
    <3> QED BY <3>1, <3>2
  <2>4. Sequential!Slot(pcb, s, p) = CHOOSE x \in S : \A y \in S : x <= y
    BY <1>9 DEF Sequential!Slot, Sequential!First, Sequential!Min, n
  <2> HIDE DEF S
  <2>5. k + 1 = CHOOSE x \in S : \A y \in S : x <= y
    BY <2>1, <2>2, <2>3, LeastChosen
  <2> QED BY <2>4, <2>5
<1> QED BY <1>7, <1>8, <1>9 DEF n

(* A block is put in its place in the queue its fields call for.           *)
LEMMA InsertsStep ==
    ASSUME LinksInv, NEW p \in PCBs, Inserts(p)
    PROVE  LinksInv' /\ Sequential!Inserts(p)
<1> DEFINE id == B!Target(pcb[p])
<1> DEFINE k == FirstStep({j \in Steps : \/ Walk(id)[j] = NULL
                                         \/ StopsAt(Walk(id)[j], p)})
<1>1. PICK Q : Q = Contents /\ AreLists(head, tail, count, next, Q)
  BY DEF LinksInv, Represents
<1> DEFINE s == Q[id]
<1> DEFINE n == Len(s)
<1> DEFINE slot == Sequential!Slot(pcb, s, p)
<1>2. /\ ~ Queued(p) /\ pcb' = pcb
      /\ \A i \in QIDs : p \notin Range(Q[i])
  BY <1>1, SameQueued DEF Inserts
<1>3. id \in QIDs /\ Sequential!Target(pcb[p]) = id /\ pcb[p].state \in {"ready", "blocked"}
  <2>1. pcb[p] \in Sequential!Fields
    BY DEF LinksInv, LinksTyped
  <2> QED BY <2>1, SameOperators DEF Sequential!Fields
<1>4. /\ k \in 0 .. n
      /\ Walk(id)[k] = At(s, k + 1)
      /\ k > 0 => Walk(id)[k - 1] = s[k]
      /\ pcb[p].state = "ready" => slot = k + 1
  BY <1>1, <1>3, InsertStops, SMTT(60)
<1>5. \/ /\ head[id] = NULL
         /\ head' = [head EXCEPT ![id] = p]
         /\ tail' = [tail EXCEPT ![id] = p]
         /\ next' = [next EXCEPT ![p] = NULL]
         /\ count' = [count EXCEPT ![id] = @ + 1]
      \/ /\ head[id] # NULL /\ pcb[p].state = "ready" /\ k = 0
         /\ next' = [next EXCEPT ![p] = head[id]]
         /\ head' = [head EXCEPT ![id] = p]
         /\ tail' = tail
         /\ count' = [count EXCEPT ![id] = @ + 1]
      \/ /\ head[id] # NULL /\ pcb[p].state = "ready" /\ k > 0 /\ Walk(id)[k] # NULL
         /\ next' = [next EXCEPT ![Walk(id)[k - 1]] = p, ![p] = Walk(id)[k]]
         /\ head' = head /\ tail' = tail
         /\ count' = [count EXCEPT ![id] = @ + 1]
      \/ /\ head[id] # NULL
         /\ pcb[p].state = "ready" => k > 0 /\ Walk(id)[k] = NULL
         /\ enqueue(id, p)
  BY DEF Inserts, pcb_insert
<1> HIDE DEF id, k
<1>6. /\ s \in Seq(PCBs) /\ n \in Nat /\ head[id] = At(s, 1) /\ tail[id] = At(s, n)
      /\ head[id] = NULL <=> n = 0
      /\ \A j \in 1 .. n : s[j] \in PCBs \ {p} /\ At(s, j) = s[j] /\ s[j] # NULL
      /\ At(s, n + 1) = NULL
  BY <1>1, <1>2, <1>3, AtFacts DEF AreLists, IsList, Range
<1> HIDE DEF s, slot
<1>7. pcb[p].state # "ready" \/ n = 0 => slot = n + 1
  <2>1. pcb[p].state # "ready" => slot = n + 1
    BY DEF slot, Sequential!Slot
  <2>2. pcb[p].state = "ready" /\ n = 0 => slot = n + 1
    BY <1>4, <1>6
  <2> QED BY <2>1, <2>2
<1>8. /\ LinksTyped'
      /\ AreLists(head', tail', count', next', [Q EXCEPT ![id] = InsertAt(s, slot, p)])
  <2> HIDE DEF n
  <2>1. CASE /\ head[id] = NULL
             /\ head' = [head EXCEPT ![id] = p]
             /\ tail' = [tail EXCEPT ![id] = p]
             /\ next' = [next EXCEPT ![p] = NULL]
             /\ count' = [count EXCEPT ![id] = @ + 1]
    <3>1. slot = 1 /\ n = 0 /\ At(s, 1) = NULL /\ 1 \in 1 .. n + 1
      BY <1>6, <1>7, <2>1
    <3>2. LinksTyped'
      BY <1>2, <1>3, <2>1 DEF LinksInv, LinksTyped
    <3>3. /\ next'[p] = At(s, 1)
          /\ \A x \in PCBs \ {p} : next'[x] = IF 1 > 1 /\ x = s[1 - 1] THEN p ELSE next[x]
          /\ head'[id] = IF 1 = 1 THEN p ELSE head[id]
          /\ tail'[id] = IF 1 = n + 1 THEN p ELSE tail[id]
          /\ count'[id] = count[id] + 1
          /\ \A i \in QIDs \ {id} :
                head'[i] = head[i] /\ tail'[i] = tail[i] /\ count'[i] = count[i]
      BY <1>3, <2>1, <3>1 DEF LinksInv, LinksTyped
    <3>4. AreLists(head', tail', count', next', [Q EXCEPT ![id] = InsertAt(Q[id], 1, p)])
      <4>1. PICK one \in 1 .. n + 1 : one = 1
        BY <3>1
      <4>2. /\ next'[p] = At(s, one)
            /\ \A x \in PCBs \ {p} :
                  next'[x] = IF one > 1 /\ x = s[one - 1] THEN p ELSE next[x]
            /\ head'[id] = IF one = 1 THEN p ELSE head[id]
            /\ tail'[id] = IF one = n + 1 THEN p ELSE tail[id]
        BY <3>3, <4>1
      <4>3. AreLists(head', tail', count', next', [Q EXCEPT ![id] = InsertAt(Q[id], one, p)])
        BY <1>1, <1>2, <1>3, <3>3, <4>2, QueueInserted DEF s, n
      <4> QED BY <4>1, <4>3
    <3> QED BY <3>1, <3>2, <3>4 DEF s
  <2>2. CASE /\ head[id] # NULL /\ pcb[p].state = "ready" /\ k = 0
             /\ next' = [next EXCEPT ![p] = head[id]]
             /\ head' = [head EXCEPT ![id] = p]
             /\ tail' = tail
             /\ count' = [count EXCEPT ![id] = @ + 1]
    <3>1. slot = 1 /\ n # 0 /\ 1 \in 1 .. n + 1
      BY <1>4, <1>6, <2>2
    <3>2. LinksTyped'
      BY <1>2, <1>3, <2>2 DEF LinksInv, LinksTyped
    <3>3. /\ next'[p] = At(s, 1)
          /\ \A x \in PCBs \ {p} : next'[x] = IF 1 > 1 /\ x = s[1 - 1] THEN p ELSE next[x]
          /\ head'[id] = IF 1 = 1 THEN p ELSE head[id]
          /\ tail'[id] = IF 1 = n + 1 THEN p ELSE tail[id]
          /\ count'[id] = count[id] + 1
          /\ \A i \in QIDs \ {id} :
                head'[i] = head[i] /\ tail'[i] = tail[i] /\ count'[i] = count[i]
      BY <1>3, <1>6, <2>2, <3>1 DEF LinksInv, LinksTyped
    <3>4. AreLists(head', tail', count', next', [Q EXCEPT ![id] = InsertAt(Q[id], 1, p)])
      <4>1. PICK one \in 1 .. n + 1 : one = 1
        BY <3>1
      <4>2. /\ next'[p] = At(s, one)
            /\ \A x \in PCBs \ {p} :
                  next'[x] = IF one > 1 /\ x = s[one - 1] THEN p ELSE next[x]
            /\ head'[id] = IF one = 1 THEN p ELSE head[id]
            /\ tail'[id] = IF one = n + 1 THEN p ELSE tail[id]
        BY <3>3, <4>1
      <4>3. AreLists(head', tail', count', next', [Q EXCEPT ![id] = InsertAt(Q[id], one, p)])
        BY <1>1, <1>2, <1>3, <3>3, <4>2, QueueInserted DEF s, n
      <4> QED BY <4>1, <4>3
    <3> QED BY <3>1, <3>2, <3>4 DEF s
  <2>3. CASE /\ head[id] # NULL /\ pcb[p].state = "ready" /\ k > 0 /\ Walk(id)[k] # NULL
             /\ next' = [next EXCEPT ![Walk(id)[k - 1]] = p, ![p] = Walk(id)[k]]
             /\ head' = head /\ tail' = tail
             /\ count' = [count EXCEPT ![id] = @ + 1]
    <3>1. /\ slot = k + 1 /\ k + 1 \in 1 .. n /\ k \in 1 .. n
          /\ k + 1 # 1 /\ k + 1 > 1 /\ (k + 1) - 1 = k /\ k + 1 # n + 1
          /\ next' = [next EXCEPT ![s[k]] = p, ![p] = s[k + 1]]
      <4>1. k \in 0 .. n /\ k # n
        BY <1>4, <1>6, <2>3
      <4>2. k + 1 \in 1 .. n /\ k \in 1 .. n /\ k + 1 # n + 1 /\ (k + 1) - 1 = k
        BY <1>6, <2>3, <4>1
      <4>3. Walk(id)[k - 1] = s[k] /\ Walk(id)[k] = s[k + 1]
        BY <1>4, <1>6, <2>3, <4>2
      <4>4. k + 1 # 1 /\ k + 1 > 1
        BY <1>6, <4>2
      <4>5. next' = [next EXCEPT ![s[k]] = p, ![p] = s[k + 1]]
        BY <2>3, <4>3
      <4> QED BY <1>4, <2>3, <4>2, <4>4, <4>5
    <3>2. LinksTyped'
      <4>1. s[k + 1] \in PCBs /\ p \in PCBs
        BY <1>6, <3>1
      <4>2. next' \in [PCBs -> PCBs \cup {NULL}]
        BY <3>1, <4>1 DEF LinksInv, LinksTyped
      <4>3. count' \in [QIDs -> Nat]
        BY <1>3, <2>3 DEF LinksInv, LinksTyped
      <4> QED BY <1>2, <2>3, <4>2, <4>3 DEF LinksInv, LinksTyped
    <3>3. /\ next'[p] = At(s, k + 1)
          /\ \A x \in PCBs \ {p} :
                next'[x] = IF k + 1 > 1 /\ x = s[(k + 1) - 1] THEN p ELSE next[x]
      BY <1>6, <3>1 DEF LinksInv, LinksTyped
    <3>4. /\ head'[id] = IF k + 1 = 1 THEN p ELSE head[id]
          /\ tail'[id] = IF k + 1 = n + 1 THEN p ELSE tail[id]
          /\ count'[id] = count[id] + 1
          /\ \A i \in QIDs \ {id} :
                head'[i] = head[i] /\ tail'[i] = tail[i] /\ count'[i] = count[i]
      BY <1>3, <2>3, <3>1 DEF LinksInv, LinksTyped
    <3>5. k + 1 \in 1 .. n + 1
      BY <1>6, <3>1
    <3>6. AreLists(head', tail', count', next', [Q EXCEPT ![id] = InsertAt(Q[id], k + 1, p)])
      BY <1>1, <1>2, <1>3, <3>3, <3>4, <3>5, QueueInserted DEF s, n
    <3> QED BY <3>1, <3>2, <3>6 DEF s
  <2>4. CASE /\ head[id] # NULL
             /\ pcb[p].state = "ready" => k > 0 /\ Walk(id)[k] = NULL
             /\ enqueue(id, p)
    <3>1. slot = n + 1
      <4>1. CASE pcb[p].state = "ready"
        <5>1. At(s, k + 1) = NULL /\ k \in 0 .. n
          BY <1>4, <2>4, <4>1
        <5>2. k + 1 \notin 1 .. n
          BY <1>6, <5>1
        <5> QED BY <1>4, <1>6, <4>1, <5>1, <5>2
      <4> QED BY <1>7, <4>1
    <3>2. /\ LinksTyped'
          /\ AreLists(head', tail', count', next',
                      [Q EXCEPT ![id] = InsertAt(Q[id], Len(Q[id]) + 1, p)])
      <4>1. enqueue(id, p) /\ Q = Contents
        BY <1>1, <2>4
      <4> QED BY <1>2, <1>3, <4>1, EnqueueStep
    <3> QED BY <3>1, <3>2 DEF s, n
  <2> QED BY <1>5, <2>1, <2>2, <2>3, <2>4
<1>9. LinksInv' /\ Contents' = [Q EXCEPT ![id] = InsertAt(s, slot, p)]
  <2>1. PICK Q2 : Q2 = [Q EXCEPT ![id] = InsertAt(s, slot, p)]
    OBVIOUS
  <2>2. LinksTyped' /\ Represents(Q2)'
    BY <1>8, <2>1 DEF Represents
  <2> QED BY <2>1, <2>2, NewContents
<1>10. Contents' = Sequential!pcb_insert(pcb, Contents, p)
  BY <1>1, <1>3, <1>9, SameOperators DEF Sequential!pcb_insert, s, slot
<1> QED BY <1>2, <1>9, <1>10, SameQueued DEF Sequential!Inserts

(* What ProcessQueues removes of a block that is in a queue, and of one    *)
(* that is in none.                                                        *)
LEMMA RemovesIt ==
    ASSUME NEW Q \in [QIDs -> Seq(PCBs)], NEW p,
           \A i \in QIDs : IsInjective(Q[i]),
           \A i, other \in QIDs : i # other => Range(Q[i]) \cap Range(Q[other]) = {}
    PROVE  /\ (\A i \in QIDs : p \notin Range(Q[i])) => Sequential!pcb_remove(Q, p) = Q
           /\ \A id \in QIDs : \A k \in 1 .. Len(Q[id]) :
                 Q[id][k] = p => Sequential!pcb_remove(Q, p) = [Q EXCEPT ![id] = RemoveAt(Q[id], k)]
<1> DEFINE holder == Sequential!Holder(Q, p)
<1> DEFINE hits == {j \in DOMAIN Q[holder] : Q[holder][j] = p}
<1> DEFINE first == Sequential!First(Q[holder], hits)
<1>1. Sequential!pcb_remove(Q, p) = IF first \in DOMAIN Q[holder]
                                    THEN [Q EXCEPT ![holder] = RemoveAt(Q[holder], first)]
                                    ELSE Q
  BY SameOperators DEF Sequential!pcb_remove
<1>2. QIDs = {"ready", "blocked", "suspended"} /\ holder \in QIDs
  BY SameOperators DEF Sequential!Holder
<1>3. \A i \in QIDs : Sequential!ToSet(Q[i]) = Range(Q[i])
  BY DEF Sequential!ToSet, Range
<1>4. \A i \in QIDs : Q[i] \in Seq(PCBs) /\ DOMAIN Q[i] = 1 .. Len(Q[i]) /\ Len(Q[i]) \in Nat
  BY AtFacts
<1>5. \A id \in QIDs : p \in Range(Q[id]) => holder = id
  BY <1>2, <1>3 DEF Sequential!Holder
<1>6. first = CHOOSE x \in hits \cup {Len(Q[holder]) + 1} :
                  \A y \in hits \cup {Len(Q[holder]) + 1} : x <= y
  BY DEF Sequential!First, Sequential!Min
<1> HIDE DEF holder, first
<1>7. ASSUME \A i \in QIDs : p \notin Range(Q[i]) PROVE Sequential!pcb_remove(Q, p) = Q
  <2>1. hits = {}
    BY <1>2, <1>7 DEF Range
  <2>2. first = Len(Q[holder]) + 1
    BY <1>2, <1>4, <1>6, <2>1
  <2>3. first \notin DOMAIN Q[holder]
    BY <1>2, <1>4, <2>2
  <2> QED BY <1>1, <2>3
<1>8. ASSUME NEW id \in QIDs, NEW k \in 1 .. Len(Q[id]), Q[id][k] = p
      PROVE  Sequential!pcb_remove(Q, p) = [Q EXCEPT ![id] = RemoveAt(Q[id], k)]
  <2>1. holder = id
    BY <1>4, <1>5, <1>8 DEF Range
  <2>2. hits = {k}
    BY <1>4, <1>8, <2>1 DEF IsInjective
  <2>3. {k, Len(Q[id]) + 1} \in SUBSET Int /\ \A y \in {k, Len(Q[id]) + 1} : k <= y
    BY <1>4
  <2>4. k = CHOOSE x \in {k, Len(Q[id]) + 1} : \A y \in {k, Len(Q[id]) + 1} : x <= y
    BY <2>3, LeastChosen
  <2>5. hits \cup {Len(Q[holder]) + 1} = {k, Len(Q[id]) + 1}
    BY <2>1, <2>2
  <2>6. first = k
    BY <1>6, <2>4, <2>5
  <2> QED BY <1>1, <1>4, <2>1, <2>6
<1> QED BY <1>7, <1>8

(* A block is unlinked from wherever it is.                                *)
LEMMA RemovesStep ==
    ASSUME LinksInv, NEW p \in PCBs, Removes(p)
    PROVE  LinksInv' /\ Sequential!Removes(p)
<1>1. PICK Q : Q = Contents /\ AreLists(head, tail, count, next, Q)
  BY DEF LinksInv, Represents
<1>2. /\ Q \in [QIDs -> Seq(PCBs)]
      /\ \A i \in QIDs : IsInjective(Q[i])
      /\ \A i, other \in QIDs : i # other => Range(Q[i]) \cap Range(Q[other]) = {}
  BY <1>1 DEF AreLists, IsList
<1>3. pcb' = pcb /\ pcb_remove(p)
  BY DEF Removes
<1>4. CASE ~ Queued(p)
  <2>1. \A i \in QIDs : p \notin Range(Q[i]) /\ p \notin Members(i)
    BY <1>1, <1>4, SameQueued DEF Queued, QIDs
  <2>2. head' = head /\ tail' = tail /\ count' = count /\ next' = next
    BY <1>3, <2>1 DEF pcb_remove, links, QIDs
  <2>3. LinksTyped' /\ Represents(Q)'
    BY <1>1, <1>3, <2>2 DEF LinksInv, LinksTyped, Represents
  <2>4. LinksInv' /\ Contents' = Q
    BY <2>3, NewContents
  <2>5. Sequential!pcb_remove(Q, p) = Q
    BY <1>2, <2>1, RemovesIt
  <2> QED BY <1>1, <1>3, <2>4, <2>5 DEF Sequential!Removes
<1>5. CASE Queued(p)
  <2>1. PICK id \in QIDs :
           LET k    == FirstStep({j \in Steps : Walk(id)[j] = p})
               prev == IF k = 0 THEN NULL ELSE Walk(id)[k - 1]
           IN  /\ p \in Members(id)
               /\ IF prev = NULL
                  THEN /\ head' = [head EXCEPT ![id] = next[p]]
                       /\ next' = [next EXCEPT ![p] = NULL]
                  ELSE /\ next' = [next EXCEPT ![prev] = next[p], ![p] = NULL]
                       /\ UNCHANGED head
               /\ tail' = IF p = tail[id] THEN [tail EXCEPT ![id] = prev] ELSE tail
               /\ count' = [count EXCEPT ![id] = @ - 1]
    BY <1>3, <1>5 DEF pcb_remove, QIDs
  <2> DEFINE H == {j \in Steps : Walk(id)[j] = p}
  <2>2. PICK s : s = Q[id]
    OBVIOUS
  <2>3. /\ IsList(head[id], tail[id], count[id], next, s)
        /\ s \in Seq(PCBs) /\ IsInjective(s) /\ DOMAIN s = 1 .. Len(s)
        /\ \A j \in 1 .. Len(s) : s[j] \in PCBs /\ At(s, j) = s[j] /\ s[j] # NULL
        /\ \A j : j \notin 1 .. Len(s) => At(s, j) = NULL
    BY <1>1, <2>2, AtFacts DEF AreLists, IsList
  <2>4. /\ \A j \in Steps : Walk(id)[j] = At(s, j + 1)
        /\ Steps = 0 .. Cardinality(PCBs) /\ Cardinality(PCBs) \in Nat
        /\ Len(s) \in Nat /\ Len(s) <= Cardinality(PCBs)
        /\ Members(id) = Range(s)
    BY <2>3, ListIsRead
  <2>5. PICK k \in 1 .. Len(s) : s[k] = p
    BY <2>1, <2>3, <2>4 DEF Range
  <2>6. FirstStep(H) = k - 1
    <3>1. k - 1 \in Steps /\ Walk(id)[k - 1] = p
      <4>1. k - 1 \in Steps /\ (k - 1) + 1 = k
        BY <2>4
      <4> QED BY <2>3, <2>4, <2>5, <4>1
    <3>2. \A j \in H : j = k - 1
      <4> TAKE j \in H
      <4>1. j \in Steps /\ At(s, j + 1) = p
        BY <2>4
      <4>2. j + 1 \in 1 .. Len(s)
        BY <2>3, <2>5, <4>1
      <4>3. s[j + 1] = s[k]
        BY <2>3, <2>5, <4>1, <4>2
      <4>4. j + 1 = k
        BY <2>3, <4>2, <4>3 DEF IsInjective
      <4> QED BY <2>4, <4>1, <4>4
    <3>3. H \in SUBSET Nat /\ H # {}
      BY <2>4, <3>1
    <3> HIDE DEF H
    <3> QED BY <3>2, <3>3, FirstStepIsLeast
  <2>7. PICK prev : prev = At(s, k - 1)
    OBVIOUS
  <2>8. /\ prev = IF k = 1 THEN NULL ELSE s[k - 1]
        /\ k > 1 => k - 1 \in 1 .. Len(s) /\ s[k - 1] \in PCBs /\ s[k - 1] # p /\ s[k - 1] # NULL
    <3>1. k > 1 => k - 1 \in 1 .. Len(s) /\ k - 1 # k
      BY <2>4
    <3>2. k > 1 => s[k - 1] # p
      BY <2>3, <2>5, <3>1 DEF IsInjective
    <3>3. k = 1 => At(s, k - 1) = NULL
      <4>1. k = 1 => k - 1 \notin 1 .. Len(s)
        BY <2>4
      <4> QED BY <2>3, <4>1
    <3>4. k # 1 => k > 1
      BY <2>4
    <3> QED BY <2>3, <2>7, <3>1, <3>2, <3>3, <3>4
  <2>9. prev = IF k - 1 = 0 THEN NULL ELSE Walk(id)[(k - 1) - 1]
    <3>1. CASE k = 1
      BY <2>8, <3>1
    <3>2. CASE k # 1
      <4>1. (k - 1) - 1 \in Steps /\ ((k - 1) - 1) + 1 = k - 1 /\ k - 1 # 0
        BY <2>4, <3>2
      <4>2. Walk(id)[(k - 1) - 1] = At(s, k - 1)
        BY <2>4, <4>1
      <4> QED BY <2>7, <4>1, <4>2
    <3> QED BY <3>1, <3>2
  <2>10. /\ IF prev = NULL
            THEN /\ head' = [head EXCEPT ![id] = next[p]]
                 /\ next' = [next EXCEPT ![p] = NULL]
            ELSE /\ next' = [next EXCEPT ![prev] = next[p], ![p] = NULL]
                 /\ head' = head
         /\ tail' = IF p = tail[id] THEN [tail EXCEPT ![id] = prev] ELSE tail
         /\ count' = [count EXCEPT ![id] = @ - 1]
    <3>1. \A x : x = FirstStep(H) =>
            LET pr == IF x = 0 THEN NULL ELSE Walk(id)[x - 1]
            IN  /\ IF pr = NULL
                   THEN /\ head' = [head EXCEPT ![id] = next[p]]
                        /\ next' = [next EXCEPT ![p] = NULL]
                   ELSE /\ next' = [next EXCEPT ![pr] = next[p], ![p] = NULL]
                        /\ head' = head
                /\ tail' = IF p = tail[id] THEN [tail EXCEPT ![id] = pr] ELSE tail
                /\ count' = [count EXCEPT ![id] = @ - 1]
      BY <2>1, SMTT(60)
    <3> HIDE DEF H
    <3> QED BY <2>6, <2>9, <3>1
  <2>11. /\ tail[id] = At(s, Len(s)) /\ count[id] = Len(s)
         /\ p = tail[id] <=> k = Len(s)
    <3>1. tail[id] = At(s, Len(s)) /\ count[id] = Len(s)
      BY <2>3 DEF IsList
    <3>2. Len(s) \in 1 .. Len(s)
      BY <2>4, SMTT(60)
    <3>3. s[Len(s)] = s[k] <=> k = Len(s)
      BY <2>3, <3>2, ZenonT(60) DEF IsInjective
    <3> QED BY <2>3, <2>5, <3>1, <3>2, <3>3, ZenonT(60)
  <2>12. LinksTyped'
    <3>1. prev \in PCBs \cup {NULL} /\ next[p] \in PCBs \cup {NULL}
      BY <2>4, <2>8 DEF LinksInv, LinksTyped
    <3>2. next' \in [PCBs -> PCBs \cup {NULL}]
      BY <2>10, <3>1 DEF LinksInv, LinksTyped
    <3>3. head' \in [QIDs -> PCBs \cup {NULL}]
      BY <2>10, <3>1 DEF LinksInv, LinksTyped
    <3>4. tail' \in [QIDs -> PCBs \cup {NULL}]
      BY <2>10, <3>1 DEF LinksInv, LinksTyped
    <3>5. count' \in [QIDs -> Nat]
      <4>1. count[id] - 1 \in Nat
        BY <2>4, <2>11
      <4> QED BY <2>10, <4>1 DEF LinksInv, LinksTyped
    <3> QED BY <1>3, <3>2, <3>3, <3>4, <3>5 DEF LinksInv, LinksTyped
  <2>13. /\ \A x \in PCBs \ {p} :
               next'[x] = IF k > 1 /\ x = s[k - 1] THEN next[p] ELSE next[x]
         /\ head'[id] = IF k = 1 THEN next[p] ELSE head[id]
         /\ tail'[id] = IF k = Len(s) THEN At(s, k - 1) ELSE tail[id]
         /\ count'[id] = count[id] - 1
         /\ \A i \in QIDs \ {id} :
               head'[i] = head[i] /\ tail'[i] = tail[i] /\ count'[i] = count[i]
    <3>1. CASE k = 1
      BY <2>7, <2>8, <2>10, <2>11, <3>1 DEF LinksInv, LinksTyped
    <3>2. CASE k # 1
      <4>1. k > 1 /\ prev = s[k - 1] /\ prev # NULL /\ prev \in PCBs /\ prev # p
        BY <2>4, <2>8, <3>2
      <4> QED BY <2>7, <2>10, <2>11, <4>1 DEF LinksInv, LinksTyped
    <3> QED BY <3>1, <3>2
  <2>14. PICK Q2 : Q2 = [Q EXCEPT ![id] = RemoveAt(Q[id], k)]
    OBVIOUS
  <2>15. AreLists(head', tail', count', next', Q2)
    <3> HIDE DEF H
    <3>1. k \in 1 .. Len(Q[id]) /\ p = Q[id][k]
      BY <2>2, <2>5
    <3>2. /\ \A x \in PCBs \ {p} :
                next'[x] = IF k > 1 /\ x = Q[id][k - 1] THEN next[p] ELSE next[x]
          /\ head'[id] = IF k = 1 THEN next[p] ELSE head[id]
          /\ tail'[id] = IF k = Len(Q[id]) THEN At(Q[id], k - 1) ELSE tail[id]
          /\ count'[id] = count[id] - 1
          /\ \A i \in QIDs \ {id} :
                head'[i] = head[i] /\ tail'[i] = tail[i] /\ count'[i] = count[i]
      BY <2>2, <2>13
    <3>3. AreLists(head', tail', count', next', [Q EXCEPT ![id] = RemoveAt(Q[id], k)])
      BY <1>1, <3>1, <3>2, QueueRemoved
    <3> QED BY <2>14, <3>3
  <2>16. LinksInv' /\ Contents' = Q2
    <3>1. Represents(Q2)'
      BY <2>15 DEF Represents
    <3> QED BY <2>12, <3>1, NewContents
  <2>17. Sequential!pcb_remove(Q, p) = Q2
    BY <1>2, <2>2, <2>5, <2>14, RemovesIt, SMTT(60)
  <2> QED BY <1>1, <1>3, <2>16, <2>17 DEF Sequential!Removes
<1> QED BY <1>4, <1>5

(* The first block is unlinked, if there is one.                           *)
LEMMA TakesNextStep ==
    ASSUME LinksInv, NEW id \in {"ready", "suspended"}, TakesNext(id)
    PROVE  LinksInv' /\ Sequential!TakesNext(id)
<1>1. PICK Q : Q = Contents /\ AreLists(head, tail, count, next, Q)
  BY DEF LinksInv, Represents
<1>2. pcb' = pcb /\ dequeue(id) /\ id \in QIDs
  BY SameOperators DEF TakesNext
<1>3. PICK s : s = Q[id]
  OBVIOUS
<1>4. /\ IsList(head[id], tail[id], count[id], next, s) /\ Q \in [QIDs -> Seq(PCBs)]
      /\ s \in Seq(PCBs) /\ IsInjective(s) /\ Len(s) \in Nat /\ DOMAIN s = 1 .. Len(s)
      /\ s = <<>> <=> Len(s) = 0
      /\ \A j \in 1 .. Len(s) : s[j] \in PCBs /\ At(s, j) = s[j] /\ s[j] # NULL
      /\ \A j : j \notin 1 .. Len(s) => At(s, j) = NULL
  BY <1>1, <1>2, <1>3, AtFacts DEF AreLists, IsList
<1>5. /\ head[id] = At(s, 1) /\ tail[id] = At(s, Len(s)) /\ count[id] = Len(s)
      /\ \A k \in 1 .. Len(s) : next[s[k]] = At(s, k + 1)
  BY <1>4 DEF IsList
<1>6. head[id] = NULL <=> s = <<>>
  BY <1>4, <1>5
<1>7. CASE head[id] = NULL
  <2>1. head' = head /\ tail' = tail /\ count' = count /\ next' = next
    BY <1>2, <1>7 DEF dequeue, links
  <2>2. LinksTyped' /\ Represents(Q)'
    BY <1>1, <1>2, <2>1 DEF LinksInv, LinksTyped, Represents
  <2>3. LinksInv' /\ Contents' = Q
    BY <2>2, NewContents
  <2>4. Sequential!dequeue(Q, id) = Q
    BY <1>3, <1>6, <1>7 DEF Sequential!dequeue
  <2> QED BY <1>1, <1>2, <2>3, <2>4 DEF Sequential!TakesNext
<1>8. CASE head[id] # NULL
  <2>1. PICK p \in PCBs : p = head[id]
    BY <1>2, <1>8 DEF LinksInv, LinksTyped
  <2>2. /\ head' = [head EXCEPT ![id] = next[p]]
        /\ tail' = IF next[p] = NULL THEN [tail EXCEPT ![id] = NULL] ELSE tail
        /\ next' = [next EXCEPT ![p] = NULL]
        /\ count' = [count EXCEPT ![id] = @ - 1]
    BY <1>2, <1>8, <2>1 DEF dequeue
  <2>3. /\ 1 \in 1 .. Len(s) /\ p = s[1] /\ Len(s) # 0 /\ At(s, 0) = NULL
        /\ next[p] = NULL <=> Len(s) = 1
    <3>1. Len(s) # 0 /\ 1 \in 1 .. Len(s) /\ 0 \notin 1 .. Len(s)
      BY <1>4, <1>6, <1>8
    <3>2. p = s[1] /\ next[p] = At(s, 2)
      BY <1>4, <1>5, <2>1, <3>1
    <3>3. At(s, 2) = NULL <=> Len(s) = 1
      <4>1. 2 \in 1 .. Len(s) <=> Len(s) # 1
        BY <1>4, <3>1
      <4> QED BY <1>4, <4>1
    <3> QED BY <1>4, <3>1, <3>2, <3>3
  <2>4. LinksTyped'
    <3>1. next' \in [PCBs -> PCBs \cup {NULL}] /\ next[p] \in PCBs \cup {NULL}
      BY <2>2 DEF LinksInv, LinksTyped
    <3>2. head' \in [QIDs -> PCBs \cup {NULL}] /\ tail' \in [QIDs -> PCBs \cup {NULL}]
      BY <2>2, <3>1 DEF LinksInv, LinksTyped
    <3>3. count' \in [QIDs -> Nat]
      <4>1. count[id] - 1 \in Nat
        BY <1>4, <1>5, <2>3
      <4> QED BY <2>2, <4>1 DEF LinksInv, LinksTyped
    <3> QED BY <1>2, <3>1, <3>2, <3>3 DEF LinksInv, LinksTyped
  <2>5. PICK k \in 1 .. Len(Q[id]) : k = 1 /\ p = Q[id][k]
    BY <1>3, <2>3
  <2>6. /\ \A x \in PCBs \ {p} :
              next'[x] = IF k > 1 /\ x = Q[id][k - 1] THEN next[p] ELSE next[x]
        /\ head'[id] = IF k = 1 THEN next[p] ELSE head[id]
        /\ tail'[id] = IF k = Len(Q[id]) THEN At(Q[id], k - 1) ELSE tail[id]
        /\ count'[id] = count[id] - 1
        /\ \A i \in QIDs \ {id} :
              head'[i] = head[i] /\ tail'[i] = tail[i] /\ count'[i] = count[i]
    BY <1>2, <1>3, <2>2, <2>3, <2>5 DEF LinksInv, LinksTyped
  <2>7. PICK Q2 : Q2 = [Q EXCEPT ![id] = RemoveAt(Q[id], k)]
    OBVIOUS
  <2>8. AreLists(head', tail', count', next', Q2)
    <3>1. AreLists(head', tail', count', next', [Q EXCEPT ![id] = RemoveAt(Q[id], k)])
      <4>1. k \in 1 .. Len(Q[id]) /\ p = Q[id][k] /\ id \in QIDs
        BY <1>2, <2>5
      <4> QED BY <1>1, <2>6, <4>1, QueueRemoved
    <3> QED BY <2>7, <3>1
  <2>9. LinksInv' /\ Contents' = Q2
    <3>1. Represents(Q2)'
      BY <2>8 DEF Represents
    <3> QED BY <2>4, <3>1, NewContents
  <2>10. Sequential!dequeue(Q, id) = Q2
    <3>1. Tail(s) = RemoveAt(s, 1)
      BY <1>4, <1>6, <1>8, TailRemoves
    <3> QED BY <1>3, <1>6, <1>8, <2>5, <2>7, <3>1 DEF Sequential!dequeue
  <2> QED BY <1>1, <1>2, <2>9, <2>10 DEF Sequential!TakesNext
<1> QED BY <1>7, <1>8

(* Every step does to the contents what a step of ProcessQueues does.      *)
LEMMA LinksNext ==
    ASSUME LinksInv, [Next]_vars
    PROVE  LinksInv' /\ [Sequential!Next]_<<pcb, Contents>>
<1>1. CASE UNCHANGED vars
  <2>1. PICK Q : Q = Contents /\ Represents(Q)
    BY DEF LinksInv
  <2>2. LinksTyped' /\ Represents(Q)' /\ pcb' = pcb
    BY <1>1, <2>1 DEF LinksInv, LinksTyped, Represents, vars
  <2> QED BY <2>1, <2>2, NewContents
<1>2. ASSUME NEW p \in PCBs, SetsUp(p) \/ Changes(p)
      PROVE  LinksInv' /\ Sequential!Next
  BY <1>2, ChangesStep DEF Sequential!Next
<1>3. ASSUME NEW p \in PCBs, Inserts(p) PROVE LinksInv' /\ Sequential!Next
  BY <1>3, InsertsStep DEF Sequential!Next
<1>4. ASSUME NEW p \in PCBs, AddsTo(p) PROVE LinksInv' /\ Sequential!Next
  BY <1>4, AddsToStep DEF Sequential!Next
<1>5. ASSUME NEW p \in PCBs, Removes(p) PROVE LinksInv' /\ Sequential!Next
  BY <1>5, RemovesStep DEF Sequential!Next
<1>6. ASSUME NEW id \in {"ready", "suspended"}, TakesNext(id)
      PROVE  LinksInv' /\ Sequential!Next
  BY <1>6, TakesNextStep DEF Sequential!Next
<1> QED BY <1>1, <1>2, <1>3, <1>4, <1>5, <1>6 DEF Next
-----------------------------------------------------------------------------
(***************************************************************************)
(* The theorems.                                                           *)
(***************************************************************************)
LEMMA LinksInvariant == Spec => []LinksInv
<1>1. Init => LinksInv
  BY LinksInit
<1>2. LinksInv /\ [Next]_vars => LinksInv'
  BY LinksNext
<1> QED BY <1>1, <1>2, PTL DEF Spec

(* Each queue ends in null at its tail, has as many blocks as it counts    *)
(* and shares none, after any calls of enqueue, dequeue, pcb_insert and    *)
(* pcb_remove on any number of blocks.                                     *)
THEOREM EndsMeetCorrect == Spec => []EndsMeet
<1>1. LinksInv => EndsMeet
  <2> SUFFICES ASSUME LinksInv PROVE EndsMeet
    OBVIOUS
  <2>1. PICK Q : Q = Contents /\ AreLists(head, tail, count, next, Q)
    BY DEF LinksInv, Represents
  <2>2. ASSUME NEW id \in QIDs
        PROVE  /\ \E k \in Steps : Walk(id)[k] = NULL
               /\ count[id] = Len(List(id))
               /\ tail[id] = IF List(id) = <<>> THEN NULL ELSE List(id)[Len(List(id))]
    <3>1. PICK s : s = Q[id] /\ IsList(head[id], tail[id], count[id], next, s)
      BY <2>1 DEF AreLists
    <3>2. /\ s \in Seq(PCBs) /\ tail[id] = At(s, Len(s)) /\ count[id] = Len(s)
          /\ Len(s) \in Nat /\ s = <<>> <=> Len(s) = 0
          /\ \A j \in 1 .. Len(s) : At(s, j) = s[j]
          /\ \A j : j \notin 1 .. Len(s) => At(s, j) = NULL
      BY <3>1, AtFacts DEF IsList
    <3>3. /\ List(id) = s
          /\ \A k \in Steps : Walk(id)[k] = At(s, k + 1)
          /\ Steps = 0 .. Cardinality(PCBs) /\ Cardinality(PCBs) \in Nat
          /\ Len(s) <= Cardinality(PCBs)
      BY <3>1, ListIsRead
    <3>4. Len(s) \in Steps /\ Walk(id)[Len(s)] = NULL
      <4>1. Len(s) \in Steps /\ Len(s) + 1 \notin 1 .. Len(s)
        BY <3>2, <3>3
      <4> QED BY <3>2, <3>3, <4>1
    <3>5. tail[id] = IF s = <<>> THEN NULL ELSE s[Len(s)]
      BY <3>2
    <3> QED BY <3>2, <3>3, <3>4, <3>5
  <2>3. ASSUME NEW id \in QIDs, NEW other \in QIDs, id # other
        PROVE  Members(id) \cap Members(other) = {}
    <3>1. Members(id) = Range(Q[id]) /\ Members(other) = Range(Q[other])
      BY <2>1, ContentsAreRead DEF Represents
    <3> QED BY <2>1, <2>3, <3>1 DEF AreLists
  <2> QED BY <2>2, <2>3 DEF EndsMeet, QIDs
<1> QED BY <1>1, LinksInvariant, PTL

(* The pointers implement the sequences that the model of the kernel       *)
(* computes with: every call does to the list what the operation on        *)
(* sequences does to the sequence.                                         *)
THEOREM SequencesImplemented == Spec => ImplementsSequences
<1>1. Init => LinksInv /\ Sequential!Init
  BY LinksInit
<1>2. LinksInv /\ [Next]_vars => LinksInv' /\ [Sequential!Next]_<<pcb, Contents>>
  BY LinksNext
<1> QED BY <1>1, <1>2, PTL DEF Spec, ImplementsSequences, Sequential!Spec
=============================================================================
