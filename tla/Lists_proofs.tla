---------------------------- MODULE Lists_proofs ----------------------------
(***************************************************************************)
(* What the proofs about lists have in common, be they sequences, chains   *)
(* of pointers or blocks in an address space: a set of numbers has a least *)
(* one (which is all the induction there is), and what InsertAt and        *)
(* RemoveAt make of a sequence.                                            *)
(***************************************************************************)
EXTENDS Integers, SequencesExt, SequenceTheorems, WellFoundedInduction, TLAPS

(* A set of natural numbers has a least one.                               *)
LEMMA LeastNumber ==
    ASSUME NEW S \in SUBSET Nat, S # {}
    PROVE  \E x \in S : \A y \in S : x <= y
<1> DEFINE R == {ss \in Nat \X Nat : ss[1] < ss[2]}
<1>1. IsWellFoundedOn(R, Nat)
  BY NatLessThanWellFounded, Zenon DEF OpToRel
<1> HIDE DEF R
<1>2. PICK x \in S : \A y \in S : ~ (<<y, x>> \in R)
  BY <1>1, WFMin
<1>3. \A y \in S : x <= y
  <2> TAKE y \in S
  <2>1. ~ (y < x)
    BY <1>2 DEF R
  <2> QED BY <2>1
<1> QED BY <1>3

(* The least element of a set of numbers is the one that is chosen.        *)
LEMMA LeastChosen ==
    ASSUME NEW S \in SUBSET Int, NEW x \in S, \A y \in S : x <= y
    PROVE  x = CHOOSE z \in S : \A y \in S : z <= y
<1>1. \A z \in S : (\A y \in S : z <= y) => z = x
  OBVIOUS
<1> QED BY <1>1

(* InsertAt, element by element. *)
LEMMA InsertAtElements ==
    ASSUME NEW S, NEW q \in Seq(S), NEW k \in 1 .. Len(q) + 1, NEW e \in S
    PROVE  LET r == InsertAt(q, k, e)
           IN  /\ r \in Seq(S)
               /\ Len(r) = Len(q) + 1
               /\ \A j \in 1 .. Len(q) + 1 :
                     r[j] = IF j < k THEN q[j]
                            ELSE IF j = k THEN e ELSE q[j - 1]
<1> DEFINE a == SubSeq(q, 1, k - 1)
<1> DEFINE b == SubSeq(q, k, Len(q))
<1>1. a \in Seq(S) /\ Len(a) = k - 1 /\ \A j \in 1 .. k - 1 : a[j] = q[j]
  BY SubSeqProperties, LenProperties
<1>2. /\ b \in Seq(S) /\ Len(b) = Len(q) - k + 1
      /\ \A j \in 1 .. Len(q) - k + 1 : b[j] = q[k + j - 1]
  BY SubSeqProperties, LenProperties
<1>3. InsertAt(q, k, e) = a \o <<e>> \o b
  BY DEF InsertAt
<1> HIDE DEF a, b
<1>4. /\ a \o <<e>> \in Seq(S) /\ Len(a \o <<e>>) = k
      /\ \A j \in 1 .. k : (a \o <<e>>)[j] = IF j < k THEN q[j] ELSE e
  BY <1>1, ConcatProperties
<1> DEFINE c == a \o <<e>>
<1>7. c \in Seq(S) /\ Len(c) = k /\ \A j \in 1 .. k : c[j] = IF j < k THEN q[j] ELSE e
  BY <1>4
<1> HIDE DEF c
<1>5. /\ c \o b \in Seq(S) /\ Len(c \o b) = Len(q) + 1
      /\ \A j \in 1 .. Len(q) + 1 :
            (c \o b)[j] = IF j <= k THEN c[j] ELSE b[j - k]
  <2>1. c \o b \in Seq(S) /\ Len(c \o b) = Len(c) + Len(b)
    BY <1>2, <1>7, ConcatProperties
  <2>2. \A j \in 1 .. Len(c) + Len(b) :
           (c \o b)[j] = IF j <= Len(c) THEN c[j] ELSE b[j - Len(c)]
    BY <1>2, <1>7, ConcatProperties
  <2>3. Len(c) + Len(b) = Len(q) + 1
    BY <1>2, <1>7, LenProperties
  <2> QED
    BY <1>7, <2>1, <2>2, <2>3
<1> QED
  BY <1>2, <1>3, <1>7, <1>5, LenProperties DEF c

(* The same, of a sequence that is known to be the one inserted into.      *)
HasInserted(q, k, e, r) ==
    /\ Len(r) = Len(q) + 1
    /\ \A j \in 1 .. Len(q) + 1 :
          r[j] = IF j < k THEN q[j] ELSE IF j = k THEN e ELSE q[j - 1]

LEMMA InsertAtIs ==
    ASSUME NEW S, NEW q \in Seq(S), NEW k \in 1 .. Len(q) + 1, NEW e \in S
    PROVE  InsertAt(q, k, e) \in Seq(S) /\ HasInserted(q, k, e, InsertAt(q, k, e))
BY InsertAtElements DEF HasInserted

(* RemoveAt, element by element. *)
LEMMA RemoveAtElements ==
    ASSUME NEW S, NEW q \in Seq(S), NEW k \in 1 .. Len(q)
    PROVE  LET r == RemoveAt(q, k)
           IN  /\ r \in Seq(S)
               /\ Len(r) = Len(q) - 1
               /\ \A j \in 1 .. Len(q) - 1 :
                     r[j] = IF j < k THEN q[j] ELSE q[j + 1]
<1> DEFINE a == SubSeq(q, 1, k - 1)
<1> DEFINE b == SubSeq(q, k + 1, Len(q))
<1>1. a \in Seq(S) /\ Len(a) = k - 1 /\ \A j \in 1 .. k - 1 : a[j] = q[j]
  BY SubSeqProperties, LenProperties
<1>2. /\ b \in Seq(S) /\ Len(b) = Len(q) - k
      /\ \A j \in 1 .. Len(q) - k : b[j] = q[k + j]
  BY SubSeqProperties, LenProperties
<1>3. RemoveAt(q, k) = a \o b
  BY DEF RemoveAt
<1> HIDE DEF a, b
<1> QED
  BY <1>1, <1>2, <1>3, ConcatProperties, SMTT(60)

(* An element put into a sequence is added to its range, and does not      *)
(* repeat an element unless it was there.                                  *)
LEMMA InsertAtRange ==
    ASSUME NEW S, NEW q \in Seq(S), NEW k \in 1 .. Len(q) + 1, NEW e \in S
    PROVE  LET r == InsertAt(q, k, e)
           IN  /\ Range(r) = Range(q) \cup {e}
               /\ IsInjective(q) /\ e \notin Range(q) => IsInjective(r)
<1> DEFINE r == InsertAt(q, k, e)
<1> DEFINE n == Len(q)
<1>1. /\ r \in Seq(S) /\ Len(r) = n + 1
      /\ \A j \in 1 .. n + 1 :
            r[j] = IF j < k THEN q[j] ELSE IF j = k THEN e ELSE q[j - 1]
  <2>1. r \in Seq(S) /\ HasInserted(q, k, e, r)
    BY InsertAtIs, Zenon
  <2> HIDE DEF r
  <2> QED BY ONLY <2>1 DEF HasInserted
<1>2. n \in Nat /\ DOMAIN q = 1 .. n /\ DOMAIN r = 1 .. n + 1
  BY <1>1, LenProperties
<1> HIDE DEF r, n
<1>3. k \in 1 .. n + 1
  BY DEF n
<1>4. ASSUME NEW x \in Range(r) PROVE x \in Range(q) \cup {e}
  <2>1. PICK j \in 1 .. n + 1 : x = r[j]
    BY <1>2 DEF Range
  <2>2. j < k => j \in 1 .. n /\ x = q[j]
    BY <1>1, <1>2, <1>3, <2>1
  <2>3. j > k => j - 1 \in 1 .. n /\ x = q[j - 1]
    BY <1>1, <1>2, <1>3, <2>1
  <2>4. j # k => x \in Range(q)
    BY <1>2, <1>3, <2>2, <2>3 DEF Range
  <2>5. j = k => x = e
    BY <1>1, <1>3, <2>1
  <2> QED BY <2>4, <2>5
<1>5. e \in Range(r)
  BY <1>1, <1>2, <1>3, SMTT(60) DEF Range
<1>6. ASSUME NEW x \in Range(q) PROVE x \in Range(r)
  <2>1. PICK j \in 1 .. n : x = q[j]
    BY <1>2 DEF Range
  <2>2. CASE j < k
    <3>1. j \in 1 .. n + 1 /\ r[j] = x
      BY <1>1, <1>2, <1>3, <2>1, <2>2
    <3> QED BY <1>2, <3>1 DEF Range
  <2>3. CASE j >= k
    <3>1. j + 1 \in 1 .. n + 1 /\ r[j + 1] = x
      BY <1>1, <1>2, <1>3, <2>1, <2>3
    <3> QED BY <1>2, <3>1 DEF Range
  <2> QED BY <1>2, <1>3, <2>2, <2>3
<1>7. ASSUME IsInjective(q), e \notin Range(q),
             NEW a \in 1 .. n + 1, NEW b \in 1 .. n + 1, r[a] = r[b]
      PROVE  a = b
  <2> DEFINE old(j) == IF j < k THEN j ELSE j - 1
  <2>1. \A j \in 1 .. n + 1 : j # k => old(j) \in 1 .. n /\ r[j] = q[old(j)]
    BY <1>1, <1>2, <1>3
  <2>2. \A j \in 1 .. n : q[j] # e
    BY <1>2, <1>7 DEF Range
  <2>3. r[k] = e
    BY <1>1, <1>3, <1>2
  <2>4. CASE a = k \/ b = k
    BY <1>3, <1>7, <2>1, <2>2, <2>3, <2>4
  <2>5. CASE a # k /\ b # k
    <3>1. old(a) = old(b)
      BY <1>2, <1>7, <2>1, <2>5 DEF IsInjective
    <3> QED BY <1>2, <1>3, <2>5, <3>1
  <2> QED BY <2>4, <2>5
<1>8. Range(r) = Range(q) \cup {e}
  BY <1>4, <1>5, <1>6
<1>9. IsInjective(q) /\ e \notin Range(q) => IsInjective(r)
  BY <1>2, <1>7 DEF IsInjective
<1> QED
  BY <1>8, <1>9 DEF r

(* An element taken out of a sequence without repetitions is out of it,    *)
(* and all the others stay.                                                *)
LEMMA RemoveAtRange ==
    ASSUME NEW S, NEW q \in Seq(S), NEW k \in 1 .. Len(q), IsInjective(q)
    PROVE  LET r == RemoveAt(q, k)
           IN  /\ Range(r) = Range(q) \ {q[k]}
               /\ IsInjective(r)
<1> DEFINE r == RemoveAt(q, k)
<1> DEFINE n == Len(q)
<1>1. /\ r \in Seq(S) /\ Len(r) = n - 1
      /\ \A j \in 1 .. n - 1 : r[j] = IF j < k THEN q[j] ELSE q[j + 1]
  BY RemoveAtElements
<1>2. n \in Nat /\ DOMAIN q = 1 .. n /\ DOMAIN r = 1 .. n - 1
  BY <1>1, LenProperties
<1> HIDE DEF r, n
<1>3. k \in 1 .. n
  BY DEF n
<1> DEFINE old(j) == IF j < k THEN j ELSE j + 1
<1>4. \A j \in 1 .. n - 1 : /\ old(j) \in 1 .. n
                            /\ old(j) # k
                            /\ r[j] = q[old(j)]
  BY <1>1, <1>2, <1>3
<1>5. \A a, b \in 1 .. n - 1 : old(a) = old(b) => a = b
  BY <1>2, <1>3
<1>6. \A j \in 1 .. n : j # k => \E m \in 1 .. n - 1 : old(m) = j
  <2> TAKE j \in 1 .. n
  <2> HAVE j # k
  <2>1. CASE j < k
    <3>1. j \in 1 .. n - 1 /\ old(j) = j
      BY <1>2, <1>3, <2>1
    <3> QED BY <3>1
  <2>2. CASE j > k
    <3>1. j - 1 \in 1 .. n - 1 /\ old(j - 1) = j
      BY <1>2, <1>3, <2>2
    <3> QED BY <3>1
  <2> QED BY <1>2, <1>3, <2>1, <2>2
<1> HIDE DEF old
<1>7. \A a, b \in 1 .. n : q[a] = q[b] => a = b
  BY <1>2 DEF IsInjective
<1>8. Range(r) \subseteq Range(q) \ {q[k]}
  <2> SUFFICES ASSUME NEW j \in 1 .. n - 1 PROVE r[j] \in Range(q) \ {q[k]}
    BY <1>2 DEF Range
  <2> QED BY <1>2, <1>3, <1>4, <1>7 DEF Range
<1>9. Range(q) \ {q[k]} \subseteq Range(r)
  <2> SUFFICES ASSUME NEW j \in 1 .. n, j # k PROVE q[j] \in Range(r)
    BY <1>2, <1>3 DEF Range
  <2>1. PICK m \in 1 .. n - 1 : old(m) = j
    BY <1>6
  <2> QED BY <1>2, <1>4, <2>1 DEF Range
<1>10. IsInjective(r)
  BY <1>2, <1>4, <1>5, <1>7 DEF IsInjective
<1> QED
  BY <1>8, <1>9, <1>10 DEF r
-----------------------------------------------------------------------------
(***************************************************************************)
(* The queues.                                                             *)
(***************************************************************************)

(* To append is to insert behind the last element.                         *)
LEMMA AppendInserts ==
    ASSUME NEW S, NEW q \in Seq(S), NEW e \in S
    PROVE  Append(q, e) = InsertAt(q, Len(q) + 1, e)
<1> DEFINE n == Len(q)
<1> DEFINE r == InsertAt(q, n + 1, e)
<1>1. n \in Nat /\ n + 1 \in 1 .. n + 1
  BY LenProperties
<1>2. /\ r \in Seq(S) /\ Len(r) = n + 1
      /\ \A j \in 1 .. n + 1 : r[j] = IF j < n + 1 THEN q[j]
                                      ELSE IF j = n + 1 THEN e ELSE q[j - 1]
  <2>1. PICK k : k = n + 1
    OBVIOUS
  <2>2. k \in 1 .. Len(q) + 1
    BY <1>1, <2>1
  <2>3. InsertAt(q, k, e) \in Seq(S) /\ HasInserted(q, k, e, InsertAt(q, k, e))
    BY ONLY q \in Seq(S), e \in S, <2>2, InsertAtIs, Zenon
  <2>4. r \in Seq(S) /\ HasInserted(q, k, e, r)
    BY <2>1, <2>3
  <2> HIDE DEF r
  <2> QED BY <1>1, <2>1, <2>4 DEF HasInserted
<1>3. /\ Append(q, e) \in Seq(S) /\ Len(Append(q, e)) = n + 1
      /\ \A j \in 1 .. n : Append(q, e)[j] = q[j]
      /\ Append(q, e)[n + 1] = e
  BY AppendProperties
<1> HIDE DEF n, r
<1>4. \A j \in 1 .. n + 1 : r[j] = Append(q, e)[j]
  BY <1>1, <1>2, <1>3
<1>5. r = Append(q, e)
  BY <1>2, <1>3, <1>4, SeqEqual
<1> QED BY <1>5 DEF r, n

(* The tail is what is left when the first element is removed.             *)
LEMMA TailRemoves ==
    ASSUME NEW S, NEW q \in Seq(S), q # <<>>
    PROVE  Tail(q) = RemoveAt(q, 1)
<1> DEFINE n == Len(q)
<1> DEFINE r == RemoveAt(q, 1)
<1>1. n \in Nat /\ 1 \in 1 .. n
  BY LenProperties, EmptySeq
<1>2. /\ r \in Seq(S) /\ Len(r) = n - 1
      /\ \A j \in 1 .. n - 1 : r[j] = IF j < 1 THEN q[j] ELSE q[j + 1]
  BY <1>1, RemoveAtElements
<1>3. /\ Tail(q) \in Seq(S) /\ Len(Tail(q)) = n - 1
      /\ \A j \in 1 .. n - 1 : Tail(q)[j] = q[j + 1]
  BY HeadTailProperties, LenProperties
<1> HIDE DEF n, r
<1>4. \A j \in 1 .. n - 1 : r[j] = Tail(q)[j]
  BY <1>1, <1>2, <1>3
<1>5. r = Tail(q)
  BY <1>2, <1>3, <1>4, SeqEqual
<1> QED BY <1>5 DEF r
=============================================================================
