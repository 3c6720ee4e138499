------------------------- MODULE HeapManager_proofs -------------------------
(***************************************************************************)
(* Proofs that the control blocks of the heap tile it, that free ones are  *)
(* merged, and that first fit on them keeps the promise of Heap, for a     *)
(* heap of any size and any requests.                                      *)
(***************************************************************************)
EXTENDS HeapManager, Lists_proofs, FiniteSetTheorems

(***************************************************************************)
(* What there is of one control block.                                     *)
(***************************************************************************)
Addresses == 0 .. HeapSize

Blocks == [size : Nat, next : Addresses \cup {NULL}, prev : Addresses \cup {NULL},
           is_free : BOOLEAN]

End(M, h) == h + Overhead + M[h].size

(* The header at position k of a list: null past its ends. *)
At(s, k) == IF k \in 1 .. Len(s) THEN s[k] ELSE NULL

(***************************************************************************)
(* The control blocks M, with their tail t, are the list s of headers: in  *)
(* the order of the addresses, each beginning where the one before it      *)
(* ends.                                                                   *)
(***************************************************************************)
IsHeap(M, t, s) ==
    /\ s \in Seq(Addresses) /\ Len(s) >= 1 /\ s[1] = mem_head
    /\ M \in [Range(s) -> Blocks]
    /\ t = s[Len(s)]
    /\ \A k \in 1 .. Len(s) : End(M, s[k]) = IF k = Len(s) THEN HeapSize ELSE s[k + 1]
    /\ \A j, k \in 1 .. Len(s) : j < k => End(M, s[j]) <= s[k]
    /\ \A k \in 1 .. Len(s) : M[s[k]].next = At(s, k + 1) /\ M[s[k]].prev = At(s, k - 1)

-----------------------------------------------------------------------------
(***************************************************************************)
(* The list of blocks.                                                     *)
(***************************************************************************)
(* What every proof below needs of it.                                     *)
LEMMA HeapFacts ==
    ASSUME NEW M, NEW t, NEW s, IsHeap(M, t, s)
    PROVE  /\ HeapSize \in Nat /\ Overhead \in Nat /\ Overhead >= 1 /\ Overhead <= HeapSize
           /\ Len(s) \in Nat /\ Len(s) >= 1 /\ DOMAIN s = 1 .. Len(s) /\ s[1] = 0
           /\ \A k \in 1 .. Len(s) :
                 /\ s[k] \in Addresses /\ s[k] \in Nat /\ s[k] # NULL /\ At(s, k) = s[k]
                 /\ s[k] \in DOMAIN M /\ M[s[k]] \in Blocks
                 /\ M[s[k]].size \in Nat /\ M[s[k]].is_free \in BOOLEAN
           /\ At(s, 0) = NULL /\ At(s, Len(s) + 1) = NULL
           /\ \A j, k \in 1 .. Len(s) : j < k => s[j] < s[k]
           /\ \A j, k \in 1 .. Len(s) : s[j] = s[k] => j = k
           /\ DOMAIN M = Range(s)
           /\ \A h \in DOMAIN M : \E k \in 1 .. Len(s) : h = s[k]
<1>1. HeapSize \in Nat /\ Overhead \in Nat /\ Overhead >= 1 /\ Overhead <= HeapSize
  BY FirstBlockFits
<1>2. /\ s \in Seq(Addresses) /\ Len(s) >= 1 /\ s[1] = 0 /\ M \in [Range(s) -> Blocks]
      /\ \A j, k \in 1 .. Len(s) : j < k => End(M, s[j]) <= s[k]
  BY DEF IsHeap, mem_head
<1>3. Len(s) \in Nat /\ DOMAIN s = 1 .. Len(s) /\ \A k \in 1 .. Len(s) : s[k] \in Addresses
  BY <1>2, LenProperties, ElementOfSeq
<1>4. \A a \in Addresses : a \in Nat /\ a # NULL
  BY <1>1, NullIsNoAddress DEF Addresses
<1>5. ASSUME NEW k \in 1 .. Len(s)
      PROVE  /\ s[k] \in Addresses /\ s[k] \in Nat /\ s[k] # NULL /\ At(s, k) = s[k]
             /\ s[k] \in DOMAIN M /\ M[s[k]] \in Blocks
             /\ M[s[k]].size \in Nat /\ M[s[k]].is_free \in BOOLEAN
  <2>1. s[k] \in Range(s)
    BY <1>3 DEF Range
  <2>2. s[k] \in DOMAIN M /\ M[s[k]] \in Blocks
    BY <1>2, <2>1
  <2>3. M[s[k]].size \in Nat /\ M[s[k]].is_free \in BOOLEAN
    BY <2>2 DEF Blocks
  <2> QED BY <1>3, <1>4, <2>2, <2>3 DEF At
<1>6. At(s, 0) = NULL /\ At(s, Len(s) + 1) = NULL
  BY <1>3 DEF At
<1>7. \A j, k \in 1 .. Len(s) : j < k => s[j] < s[k]
  <2> TAKE j, k \in 1 .. Len(s)
  <2> HAVE j < k
  <2>1. s[j] \in Nat /\ s[k] \in Nat /\ M[s[j]].size \in Nat
    BY <1>5
  <2>2. s[j] + Overhead + M[s[j]].size <= s[k]
    BY <1>2 DEF End
  <2> QED BY <1>1, <2>1, <2>2, SMTT(60)
<1>8. \A j, k \in 1 .. Len(s) : s[j] = s[k] => j = k
  <2> TAKE j, k \in 1 .. Len(s)
  <2> HAVE s[j] = s[k]
  <2>1. ~ (s[j] < s[k]) /\ ~ (s[k] < s[j])
    BY <1>5
  <2>2. ~ (j < k) /\ ~ (k < j)
    BY <1>7, <2>1
  <2> QED BY <1>3, <2>2
<1>9. DOMAIN M = Range(s)
  BY <1>2
<1>10. \A h \in DOMAIN M : \E k \in 1 .. Len(s) : h = s[k]
  BY <1>3, <1>9 DEF Range
<1> QED BY <1>1, <1>2, <1>3, <1>5, <1>6, <1>7, <1>8, <1>9, <1>10

(* A block ends within the heap, and not where it begins.                  *)
LEMMA BlockEnds ==
    ASSUME NEW M, NEW t, NEW s, IsHeap(M, t, s), NEW k \in 1 .. Len(s)
    PROVE  /\ End(M, s[k]) \in Nat /\ End(M, s[k]) <= HeapSize
           /\ s[k] + Overhead <= End(M, s[k]) /\ s[k] < End(M, s[k])
<1>1. End(M, s[k]) = IF k = Len(s) THEN HeapSize ELSE s[k + 1]
  BY DEF IsHeap
<1>2. k # Len(s) => s[k + 1] \in Addresses
  <2>1. k # Len(s) => k + 1 \in 1 .. Len(s)
    BY HeapFacts
  <2> QED BY <2>1, HeapFacts
<1>3. s[k] \in Nat /\ M[s[k]].size \in Nat /\ Overhead \in Nat /\ Overhead >= 1 /\ HeapSize \in Nat
  BY HeapFacts
<1> QED BY <1>1, <1>2, <1>3, SMTT(60) DEF End, Addresses

(* What is so of M2, the blocks M with another is_free at h. *)
IsFlagged(M, t, s, h, free, M2) ==
    /\ IsHeap(M2, t, s) /\ DOMAIN M2 = DOMAIN M /\ M2[h].is_free = free
    /\ \A a \in DOMAIN M : /\ M2[a].size = M[a].size
                           /\ M2[a].next = M[a].next
                           /\ M2[a].prev = M[a].prev
    /\ \A a \in DOMAIN M \ {h} : M2[a] = M[a]

(* To change the is_free of a block changes nothing of the list.           *)
LEMMA HeapFlag ==
    ASSUME NEW M, NEW t, NEW s, IsHeap(M, t, s), NEW h \in DOMAIN M, NEW free \in BOOLEAN,
           NEW M2, M2 = [M EXCEPT ![h].is_free = free]
    PROVE  IsFlagged(M, t, s, h, free, M2)
<1>1. M \in [Range(s) -> Blocks]
  BY DEF IsHeap
<1>2. \A a \in DOMAIN M : M[a] \in Blocks
  BY <1>1
<1>3. /\ DOMAIN M2 = DOMAIN M /\ M2[h] = [M[h] EXCEPT !.is_free = free]
      /\ \A a \in DOMAIN M \ {h} : M2[a] = M[a]
  OBVIOUS
<1>4. /\ M2[h] \in Blocks /\ M2[h].is_free = free
      /\ M2[h].size = M[h].size /\ M2[h].next = M[h].next /\ M2[h].prev = M[h].prev
  BY <1>2, <1>3 DEF Blocks
<1>5. M2 \in [Range(s) -> Blocks]
  BY <1>1, <1>4
<1>6. \A a \in DOMAIN M : /\ M2[a].size = M[a].size
                          /\ M2[a].next = M[a].next /\ M2[a].prev = M[a].prev
  BY <1>3, <1>4
<1>7. IsHeap(M2, t, s)
  <2>1. \A k \in 1 .. Len(s) : s[k] \in DOMAIN M
    BY HeapFacts
  <2>2. \A k \in 1 .. Len(s) : End(M2, s[k]) = End(M, s[k])
    BY <1>6, <2>1 DEF End
  <2>3. \A k \in 1 .. Len(s) : /\ M2[s[k]].next = M[s[k]].next
                               /\ M2[s[k]].prev = M[s[k]].prev
    BY <1>6, <2>1
  <2> QED BY <1>5, <2>2, <2>3 DEF IsHeap
<1> QED BY <1>3, <1>4, <1>6, <1>7 DEF IsFlagged

(* Where the header e put in at position k of a list is, and where the     *)
(* others are then.                                                        *)
Inserted(s, k, e, r) ==
    /\ r \in Seq(Addresses) /\ Len(r) = Len(s) + 1
    /\ Range(r) = Range(s) \cup {e}
    /\ \A j \in 1 .. Len(s) + 1 :
          /\ j < k => j \in 1 .. Len(s) /\ r[j] = s[j]
          /\ j = k => r[j] = e
          /\ j > k => j - 1 \in 1 .. Len(s) /\ r[j] = s[j - 1]
    /\ \A j \in 0 .. Len(s) + 2 :
          /\ j < k => At(r, j) = At(s, j)
          /\ j = k => At(r, j) = e
          /\ j > k => At(r, j) = At(s, j - 1)

LEMMA AtInserted ==
    ASSUME NEW s \in Seq(Addresses), NEW k \in 1 .. Len(s) + 1, NEW e \in Addresses, NEW r,
           r = InsertAt(s, k, e)
    PROVE  Inserted(s, k, e, r)
<1> DEFINE n == Len(s)
<1>1. /\ r \in Seq(Addresses) /\ Len(r) = n + 1 /\ Range(r) = Range(s) \cup {e}
      /\ \A j \in 1 .. n + 1 : r[j] = IF j < k THEN s[j] ELSE IF j = k THEN e ELSE s[j - 1]
  <2>1. Range(InsertAt(s, k, e)) = Range(s) \cup {e}
    BY InsertAtRange
  <2>2. InsertAt(s, k, e) \in Seq(Addresses) /\ HasInserted(s, k, e, InsertAt(s, k, e))
    BY InsertAtIs
  <2>3. r \in Seq(Addresses) /\ HasInserted(s, k, e, r)
    BY <2>2
  <2> QED BY <2>1, <2>3 DEF HasInserted
<1>2. n \in Nat
  BY LenProperties
<1> HIDE DEF n
<1>3. k \in 1 .. n + 1
  BY DEF n
<1>4. \A j \in 1 .. n + 1 : /\ j < k => j \in 1 .. n /\ r[j] = s[j]
                            /\ j = k => r[j] = e
                            /\ j > k => j - 1 \in 1 .. n /\ r[j] = s[j - 1]
  BY <1>1, <1>2, <1>3
<1>5. ASSUME NEW j \in 0 .. n + 2
      PROVE  /\ j < k => At(r, j) = At(s, j)
             /\ j = k => At(r, j) = e
             /\ j > k => At(r, j) = At(s, j - 1)
  <2>1. CASE j = 0
    <3>1. j \notin 1 .. Len(r) /\ j \notin 1 .. Len(s) /\ j < k
      BY <1>1, <1>2, <1>3, <2>1
    <3> QED BY <1>3, <3>1 DEF At
  <2>2. CASE j = n + 2
    <3>1. j \notin 1 .. Len(r) /\ j - 1 \notin 1 .. Len(s) /\ j > k
      BY <1>1, <1>2, <1>3, <2>2 DEF n
    <3> QED BY <1>3, <3>1 DEF At
  <2>3. CASE j \in 1 .. n + 1
    BY <1>1, <1>2, <1>3, <1>4, <2>3 DEF At, n
  <2> QED BY <1>2, <2>1, <2>2, <2>3
<1> QED BY <1>1, <1>4, <1>5 DEF n, Inserted

(* What Split makes of the control blocks. *)
SplitBlocks(M, h, size) ==
    LET split == start_address(h) + size
    IN  [a \in DOMAIN M \cup {split} |->
           IF a = split
           THEN [size |-> M[h].size - size - Overhead, next |-> M[h].next,
                 prev |-> h, is_free |-> TRUE]
           ELSE IF a = h THEN [M[h] EXCEPT !.size = size, !.is_free = FALSE, !.next = split]
           ELSE IF a = M[h].next THEN [M[a] EXCEPT !.prev = split]
           ELSE M[a]]

(* What is so of M2, the blocks M with the one at h = s[k] split at split. *)
IsSplit(M, t, s, k, h, size, split, M2) ==
    /\ split \in Addresses /\ split \notin DOMAIN M
    /\ IsHeap(M2, IF M[h].next = NULL THEN split ELSE t, InsertAt(s, k + 1, split))
    /\ DOMAIN M2 = DOMAIN M \cup {split} /\ M2[split].is_free
    /\ M2[h].size = size /\ ~ M2[h].is_free
    /\ \A a \in DOMAIN M \ {h} : M2[a].is_free = M[a].is_free /\ M2[a].size = M[a].size

(* A block that is split becomes two: the first keeps the header and size  *)
(* bytes, the second begins behind them and ends where the block ended.    *)
LEMMA HeapSplit ==
    ASSUME NEW M, NEW t, NEW s, IsHeap(M, t, s), NEW k \in 1 .. Len(s), NEW h, h = s[k],
           NEW size \in Nat, size + Overhead <= M[h].size,
           NEW split, split = start_address(h) + size,
           NEW M2, M2 = SplitBlocks(M, h, size)
    PROVE  IsSplit(M, t, s, k, h, size, split, M2)
<1> DEFINE n == Len(s)
<1> DEFINE r == InsertAt(s, k + 1, split)
<1> DEFINE t2 == IF M[h].next = NULL THEN split ELSE t
<1>1. /\ HeapSize \in Nat /\ Overhead \in Nat /\ Overhead >= 1
      /\ n \in Nat /\ n >= 1 /\ DOMAIN s = 1 .. n /\ k \in 1 .. n
      /\ s \in Seq(Addresses)
  BY HeapFacts, SMTT(60) DEF IsHeap
<1>2. /\ \A j \in 1 .. n : /\ s[j] \in Nat /\ s[j] \in Addresses /\ s[j] # NULL /\ s[j] \in DOMAIN M
                           /\ M[s[j]] \in Blocks /\ M[s[j]].size \in Nat
                           /\ At(s, j) = s[j]
      /\ \A j, i \in 1 .. n : s[j] = s[i] => j = i
      /\ \A j, i \in 1 .. n : j < i => s[j] < s[i] /\ End(M, s[j]) <= s[i]
      /\ At(s, n + 1) = NULL /\ At(s, 0) = NULL
      /\ s[1] = 0 /\ DOMAIN M = Range(s) /\ t = s[n]
      /\ \A j \in 1 .. n : End(M, s[j]) = IF j = n THEN HeapSize ELSE s[j + 1]
      /\ \A j \in 1 .. n : M[s[j]].next = At(s, j + 1) /\ M[s[j]].prev = At(s, j - 1)
  <2>1. /\ \A j \in 1 .. n : /\ s[j] \in Nat /\ s[j] \in Addresses /\ s[j] # NULL
                             /\ s[j] \in DOMAIN M
                             /\ M[s[j]] \in Blocks /\ M[s[j]].size \in Nat
                             /\ At(s, j) = s[j]
    BY HeapFacts, SMTT(60)
  <2>1a. /\ \A j, i \in 1 .. n : s[j] = s[i] => j = i
         /\ \A j, i \in 1 .. n : j < i => s[j] < s[i]
    <3>1. \A j, i \in 1 .. n : s[j] = s[i] => j = i
      BY HeapFacts
    <3>2. \A j, i \in 1 .. n : j < i => s[j] < s[i]
      BY HeapFacts
    <3> QED BY <3>1, <3>2
  <2>1b. At(s, n + 1) = NULL /\ At(s, 0) = NULL /\ s[1] = 0 /\ DOMAIN M = Range(s)
    BY HeapFacts
  <2>2. /\ \A j, i \in 1 .. n : j < i => End(M, s[j]) <= s[i]
        /\ t = s[n]
        /\ \A j \in 1 .. n : End(M, s[j]) = IF j = n THEN HeapSize ELSE s[j + 1]
        /\ \A j \in 1 .. n : M[s[j]].next = At(s, j + 1) /\ M[s[j]].prev = At(s, j - 1)
    BY DEF IsHeap
  <2> HIDE DEF n
  <2> QED BY <2>1, <2>1a, <2>1b, <2>2
<1> HIDE DEF n, r, t2
<1>3. /\ split = h + Overhead + size /\ split \in Nat /\ h < split
      /\ split + Overhead <= End(M, h) /\ End(M, h) <= HeapSize /\ split \in Addresses
      /\ h \in Nat
  <2>1. /\ h \in Nat /\ M[h].size \in Nat /\ End(M, h) = h + Overhead + M[h].size
        /\ End(M, h) <= HeapSize
    BY <1>1, <1>2, BlockEnds, ZenonT(60) DEF End, n
  <2>2. split = h + Overhead + size
    BY DEF start_address
  <2>3. split \in Nat /\ h < split /\ split + Overhead <= End(M, h) /\ split <= HeapSize
    BY <1>1, <2>1, <2>2, SMTT(60)
  <2>4. split \in Addresses
    BY <1>1, <2>3 DEF Addresses
  <2> QED BY <2>1, <2>2, <2>3, <2>4, SMTT(60)
<1>4. /\ \A j \in 1 .. n : j <= k => s[j] < split
      /\ \A j \in 1 .. n : j > k => split < s[j] /\ End(M, h) <= s[j]
  <2>1. ASSUME NEW j \in 1 .. n, j <= k PROVE s[j] < split
    <3>1. s[j] <= h /\ s[j] \in Nat
      <4>0. j < k \/ j = k
        BY <1>1, <2>1
      <4>1. s[j] \in Nat /\ h \in Nat /\ (j < k \/ j = k)
        BY <1>2, <1>3, <4>0
      <4>2. j < k => s[j] < s[k]
        BY <1>1, <1>2
      <4> QED BY <4>1, <4>2
    <3> QED BY <1>3, <3>1
  <2>2. ASSUME NEW j \in 1 .. n, j > k PROVE split < s[j] /\ End(M, h) <= s[j]
    <3>1. End(M, h) <= s[j] /\ s[j] \in Nat
      BY <1>1, <1>2, <2>2
    <3>2. End(M, h) \in Nat
      BY BlockEnds
    <3> QED BY <1>1, <1>3, <3>1, <3>2, SMTT(60)
  <2> QED BY <2>1, <2>2
<1>5. split \notin DOMAIN M
  <2>1. \A j \in 1 .. n : s[j] # split
    <3> TAKE j \in 1 .. n
    <3>1. s[j] \in Nat /\ (j <= k \/ j > k)
      BY <1>1, <1>2, SMTT(60)
    <3>2. s[j] < split \/ split < s[j]
      BY <1>4, <3>1
    <3> QED BY <1>3, <3>1, <3>2
  <2> QED BY <1>1, <1>2, <2>1 DEF Range
<1>6. /\ r \in Seq(Addresses) /\ Len(r) = n + 1 /\ Range(r) = Range(s) \cup {split}
      /\ \A j \in 1 .. n + 1 : /\ j < k + 1 => j \in 1 .. n /\ r[j] = s[j]
                               /\ j = k + 1 => r[j] = split
                               /\ j > k + 1 => j - 1 \in 1 .. n /\ r[j] = s[j - 1]
      /\ \A j \in 0 .. n + 2 : /\ j < k + 1 => At(r, j) = At(s, j)
                               /\ j = k + 1 => At(r, j) = split
                               /\ j > k + 1 => At(r, j) = At(s, j - 1)
  <2>1. k + 1 \in 1 .. n + 1
    BY <1>1
  <2>2. s \in Seq(Addresses) /\ k + 1 \in 1 .. Len(s) + 1 /\ r = InsertAt(s, k + 1, split)
    BY <1>1, <2>1 DEF n, r
  <2>3. Inserted(s, k + 1, split, r)
    BY <1>3, <2>2, AtInserted
  <2> QED BY <2>3 DEF Inserted, n
<1>7. M2[split] = [size |-> M[h].size - size - Overhead, next |-> M[h].next,
                   prev |-> h, is_free |-> TRUE]
  BY DEF SplitBlocks
<1>8. M2[h] = [M[h] EXCEPT !.size = size, !.is_free = FALSE, !.next = split]
  <2>1. h # split /\ h \in DOMAIN M
    BY <1>1, <1>2, <1>5
  <2> QED BY <2>1 DEF SplitBlocks
<1>9. /\ M2[split] \in Blocks /\ M2[split].size = M[h].size - size - Overhead
      /\ M2[split].next = At(s, k + 1) /\ M2[split].prev = h
      /\ M2[h] \in Blocks /\ M2[h].size = size /\ M2[h].next = split /\ M2[h].prev = At(s, k - 1)
  <2>1. /\ M[h] \in Blocks /\ M[h].size \in Nat /\ h \in Addresses
        /\ M[h].next = At(s, k + 1) /\ M[h].prev = At(s, k - 1)
    BY <1>1, <1>2
  <2>2. M[h].size - size - Overhead \in Nat
    BY <1>1, <2>1, SMTT(60)
  <2>3. At(s, k + 1) \in Addresses \cup {NULL}
    BY <2>1 DEF Blocks
  <2>4. /\ M2[split] \in Blocks /\ M2[split].size = M[h].size - size - Overhead
        /\ M2[split].next = At(s, k + 1) /\ M2[split].prev = h
    BY <1>7, <2>1, <2>2, <2>3 DEF Blocks
  <2>5. /\ M2[h] \in Blocks /\ M2[h].size = size /\ M2[h].next = split
        /\ M2[h].prev = At(s, k - 1)
    BY <1>3, <1>8, <2>1 DEF Blocks
  <2> QED BY <2>4, <2>5
<1>10. ASSUME NEW j \in 1 .. n, j # k
       PROVE  /\ M2[s[j]] \in Blocks /\ M2[s[j]].size = M[s[j]].size
              /\ M2[s[j]].is_free = M[s[j]].is_free
              /\ M2[s[j]].next = At(s, j + 1)
              /\ M2[s[j]].prev = IF j = k + 1 THEN split ELSE At(s, j - 1)
  <2>1. s[j] \in DOMAIN M /\ s[j] # h /\ M[s[j]] \in Blocks /\ s[j] # split
    BY <1>1, <1>2, <1>5, <1>10, ZenonT(60)
  <2>2. s[j] = M[h].next <=> j = k + 1
    <3>1. M[h].next = At(s, k + 1)
      BY <1>1, <1>2
    <3>2. CASE k = n
      BY <1>1, <1>2, <3>1, <3>2
    <3>3. CASE k # n
      <4>1. k + 1 \in 1 .. n /\ At(s, k + 1) = s[k + 1]
        BY <1>1, <1>2, <3>3
      <4> QED BY <1>2, <3>1, <4>1
    <3> QED BY <3>2, <3>3
  <2>3. M2[s[j]] = IF j = k + 1 THEN [M[s[j]] EXCEPT !.prev = split] ELSE M[s[j]]
    BY <2>1, <2>2 DEF SplitBlocks
  <2>4. M[s[j]].next = At(s, j + 1) /\ M[s[j]].prev = At(s, j - 1)
    BY <1>2
  <2> QED BY <1>3, <2>1, <2>3, <2>4 DEF Blocks
<1>11. M2 \in [Range(r) -> Blocks]
  <2>1. DOMAIN M2 = Range(r)
    BY <1>2, <1>6 DEF SplitBlocks
  <2>2. M2 = [a \in Range(r) |-> M2[a]]
    BY <2>1 DEF SplitBlocks
  <2>3. ASSUME NEW a \in Range(r) PROVE M2[a] \in Blocks
    <3>1. CASE a = split
      BY <1>9, <3>1
    <3>2. CASE a # split
      <4>1. PICK j \in 1 .. n : a = s[j]
        BY <1>1, <1>6, <2>3, <3>2 DEF Range
      <4> QED BY <1>9, <1>10, <4>1
    <3> QED BY <3>1, <3>2
  <2> QED BY <2>2, <2>3
<1>12. \A j \in 1 .. n + 1 :
          /\ j < k => End(M2, r[j]) = End(M, s[j])
          /\ j = k => End(M2, r[j]) = split
          /\ j = k + 1 => End(M2, r[j]) = End(M, h)
          /\ j > k + 1 => End(M2, r[j]) = End(M, s[j - 1])
  <2> TAKE j \in 1 .. n + 1
  <2>1. ASSUME j < k PROVE End(M2, r[j]) = End(M, s[j])
    <3>1. j \in 1 .. n /\ j # k /\ r[j] = s[j]
      BY <1>1, <1>6, <2>1
    <3> QED BY <1>10, <3>1 DEF End
  <2>2. ASSUME j = k PROVE End(M2, r[j]) = split
    <3>1. r[j] = h
      BY <1>1, <1>6, <2>2
    <3> QED BY <1>3, <1>9, <3>1 DEF End
  <2>3. ASSUME j = k + 1 PROVE End(M2, r[j]) = End(M, h)
    <3>1. r[j] = split
      BY <1>6, <2>3
    <3>2. M[h].size \in Nat
      BY <1>1, <1>2
    <3>3. PICK z \in Nat : z = M[h].size
      BY <3>2
    <3>4. End(M2, split) = split + Overhead + (z - size - Overhead)
      BY <1>9, <3>3 DEF End
    <3>5. End(M, h) = h + Overhead + z
      BY <3>3 DEF End
    <3> QED BY <1>1, <1>3, <3>1, <3>4, <3>5, SMTT(30)
  <2>4. ASSUME j > k + 1 PROVE End(M2, r[j]) = End(M, s[j - 1])
    <3>1. j - 1 \in 1 .. n /\ j - 1 # k /\ r[j] = s[j - 1]
      BY <1>1, <1>6, <2>4
    <3> QED BY <1>10, <3>1 DEF End
  <2> QED BY <2>1, <2>2, <2>3, <2>4
<1>13. \A j \in 1 .. n + 1 : End(M2, r[j]) = IF j = n + 1 THEN HeapSize ELSE r[j + 1]
  <2> TAKE j \in 1 .. n + 1
  <2>1. CASE j < k
    <3>1. /\ j \in 1 .. n /\ j # n /\ j # n + 1 /\ j + 1 \in 1 .. n + 1 /\ j + 1 < k + 1
      BY <1>1, <2>1, SMTT(60)
    <3>2. r[j + 1] = s[j + 1] /\ End(M2, r[j]) = End(M, s[j])
      BY <1>6, <1>12, <2>1, <3>1
    <3> QED BY <1>2, <3>1, <3>2
  <2>2. CASE j = k
    <3>1. j # n + 1 /\ j + 1 \in 1 .. n + 1 /\ j + 1 = k + 1
      BY <1>1, <2>2
    <3> QED BY <1>6, <1>12, <2>2, <3>1
  <2>3. CASE j = k + 1
    <3>1. End(M2, r[j]) = End(M, h) /\ End(M, h) = IF k = n THEN HeapSize ELSE s[k + 1]
      BY <1>1, <1>2, <1>12, <2>3
    <3>2. j # n + 1 => r[j + 1] = s[k + 1]
      <4>1. j # n + 1 => j + 1 \in 1 .. n + 1 /\ j + 1 > k + 1 /\ (j + 1) - 1 = k + 1
        BY <1>1, <2>3
      <4> QED BY <1>6, <4>1
    <3>3. j = n + 1 <=> k = n
      BY <1>1, <2>3
    <3> QED BY <3>1, <3>2, <3>3
  <2>4. CASE j > k + 1
    <3>1. j - 1 \in 1 .. n /\ End(M2, r[j]) = End(M, s[j - 1])
      BY <1>6, <1>12, <2>4
    <3>2. End(M, s[j - 1]) = IF j - 1 = n THEN HeapSize ELSE s[(j - 1) + 1]
      BY <1>2, <3>1
    <3>3. j # n + 1 => r[j + 1] = s[(j - 1) + 1]
      <4>1. j # n + 1 => j + 1 \in 1 .. n + 1 /\ j + 1 > k + 1 /\ (j + 1) - 1 = (j - 1) + 1
        BY <1>1, <2>4
      <4> QED BY <1>6, <4>1
    <3>4. j = n + 1 <=> j - 1 = n
      BY <1>1
    <3> QED BY <3>1, <3>2, <3>3, <3>4
  <2> QED BY <1>1, <2>1, <2>2, <2>3, <2>4
<1>14. \A j, i \in 1 .. n + 1 : j < i => End(M2, r[j]) <= r[i]
  <2> TAKE j, i \in 1 .. n + 1
  <2> HAVE j < i
  <2>1. CASE j < k
    <3>1. j \in 1 .. n /\ End(M2, r[j]) = End(M, s[j])
      BY <1>6, <1>12, <1>1, <2>1
    <3>2. CASE i < k + 1
      <4>1. i \in 1 .. n /\ r[i] = s[i]
        BY <1>6, <3>2
      <4> QED BY <1>2, <3>1, <4>1
    <3>3. CASE i = k + 1
      <4>1. End(M, s[j]) <= h /\ r[i] = split
        BY <1>1, <1>2, <1>6, <2>1, <3>1, <3>3
      <4>2. End(M, s[j]) \in Nat
        BY <3>1, BlockEnds DEF n
      <4> QED BY <1>3, <3>1, <4>1, <4>2
    <3>4. CASE i > k + 1
      <4>1. i - 1 \in 1 .. n /\ r[i] = s[i - 1]
        BY <1>6, <3>4
      <4>2. j < i - 1
        BY <1>1, <2>1, <3>4, SMTT(60)
      <4> QED BY <1>2, <3>1, <4>1, <4>2, ZenonT(60)
    <3> QED BY <1>1, <3>2, <3>3, <3>4, SMTT(60)
  <2>2. CASE j = k
    <3>1. End(M2, r[j]) = split
      BY <1>12, <2>2
    <3>2. CASE i = k + 1
      <4>1. r[i] = split
        BY <1>6, <3>2
      <4> QED BY <1>3, <3>1, <4>1
    <3>3. CASE i # k + 1
      <4>1. i > k + 1 /\ i - 1 > k
        BY <1>1, <2>2, <3>3
      <4>2. i - 1 \in 1 .. n /\ r[i] = s[i - 1] /\ s[i - 1] \in Nat
        BY <1>2, <1>6, <4>1
      <4>3. split < s[i - 1]
        BY <1>4, <4>1, <4>2
      <4> QED BY <1>3, <3>1, <4>2, <4>3, SMTT(60)
    <3> QED BY <3>2, <3>3
  <2>3. CASE j = k + 1
    <3>1. End(M2, r[j]) = End(M, h)
      BY <1>12, <2>3
    <3>2. i > k + 1 /\ i - 1 > k
      BY <1>1, <2>3
    <3>3. i - 1 \in 1 .. n /\ r[i] = s[i - 1]
      BY <1>6, <3>2
    <3> QED BY <1>4, <3>1, <3>2, <3>3
  <2>4. CASE j > k + 1
    <3>1. j - 1 \in 1 .. n /\ End(M2, r[j]) = End(M, s[j - 1])
      BY <1>6, <1>12, <2>4
    <3>2. i > k + 1 /\ j - 1 < i - 1
      BY <1>1, <2>4
    <3>3. i - 1 \in 1 .. n /\ r[i] = s[i - 1]
      BY <1>6, <3>2
    <3> QED BY <1>2, <3>1, <3>2, <3>3
  <2> QED BY <1>1, <2>1, <2>2, <2>3, <2>4
<1>14a. \A j \in 1 .. n + 1 : M2[r[j]].next = At(r, j + 1) /\ M2[r[j]].prev = At(r, j - 1)
  <2> TAKE j \in 1 .. n + 1
  <2>0. j + 1 \in 0 .. n + 2 /\ j - 1 \in 0 .. n + 2 /\ (j + 1) - 1 = j /\ (j - 1) + 1 = j
    BY <1>1
  <2>1. CASE j < k
    <3>1. j \in 1 .. n /\ j # k /\ r[j] = s[j] /\ j # k + 1 /\ j + 1 < k + 1 /\ j - 1 < k + 1
      BY <1>1, <1>6, <2>1, SMTT(60)
    <3>2. At(r, j + 1) = At(s, j + 1) /\ At(r, j - 1) = At(s, j - 1)
      BY <1>6, <2>0, <3>1
    <3> QED BY <1>10, <3>1, <3>2
  <2>2. CASE j = k
    <3>1. j + 1 = k + 1 /\ j - 1 < k + 1 /\ j < k + 1
      BY <1>1, <2>2
    <3>2. r[j] = h /\ At(r, j + 1) = split /\ At(r, j - 1) = At(s, j - 1)
      BY <1>6, <2>0, <2>2, <3>1
    <3> QED BY <1>9, <2>2, <3>2
  <2>3. CASE j = k + 1
    <3>1. j - 1 = k /\ j - 1 < k + 1 /\ j + 1 > k + 1
      BY <1>1, <2>3
    <3>2. r[j] = split /\ At(r, j - 1) = At(s, k) /\ At(r, j + 1) = At(s, j)
      BY <1>6, <2>0, <2>3, <3>1
    <3> QED BY <1>1, <1>2, <1>9, <2>3, <3>2
  <2>4. CASE j > k + 1
    <3>1. j - 1 # k /\ j + 1 > k + 1
      BY <1>1, <2>4
    <3>2. j - 1 \in 1 .. n /\ r[j] = s[j - 1] /\ At(r, j + 1) = At(s, j)
      BY <1>6, <2>0, <2>4, <3>1
    <3>3. /\ M2[s[j - 1]].next = At(s, (j - 1) + 1)
          /\ M2[s[j - 1]].prev = IF j - 1 = k + 1 THEN split ELSE At(s, (j - 1) - 1)
      BY <1>10, <3>1, <3>2
    <3>4. At(r, j - 1) = IF j - 1 = k + 1 THEN split ELSE At(s, (j - 1) - 1)
      <4>1. j - 1 # k + 1 => j - 1 > k + 1
        BY <1>1, <2>4
      <4> QED BY <1>6, <2>0, <4>1
    <3> QED BY <2>0, <3>2, <3>3, <3>4
  <2> QED BY <1>1, <2>1, <2>2, <2>3, <2>4
<1>15. t2 = r[n + 1]
  <2>1. M[h].next = At(s, k + 1) /\ n + 1 \in 1 .. n + 1
    BY <1>1, <1>2
  <2>2. CASE k = n
    <3>1. At(s, k + 1) = NULL /\ r[n + 1] = split
      BY <1>2, <1>6, <2>1, <2>2
    <3> QED BY <2>1, <3>1 DEF t2
  <2>3. CASE k # n
    <3>1. k + 1 \in 1 .. n /\ n + 1 > k + 1 /\ (n + 1) - 1 = n
      BY <1>1, <2>3
    <3>2. r[n + 1] = s[(n + 1) - 1]
      BY <1>6, <2>1, <3>1
    <3>3. At(s, k + 1) # NULL
      BY <1>2, <3>1
    <3> QED BY <1>2, <2>1, <3>1, <3>2, <3>3 DEF t2
  <2> QED BY <2>2, <2>3
<1>16. r[1] = 0
  <2>1. 1 \in 1 .. n + 1 /\ 1 < k + 1
    BY <1>1
  <2> QED BY <1>2, <1>6, <2>1
<1>17. IsHeap(M2, t2, r)
  <2>1. Len(r) >= 1
    BY <1>1, <1>6
  <2> QED BY <1>6, <1>11, <1>13, <1>14, <1>14a, <1>15, <1>16, <2>1 DEF IsHeap, mem_head
<1>18. DOMAIN M2 = DOMAIN M \cup {split}
  BY DEF SplitBlocks
<1>19. M2[split].is_free /\ M2[h].size = size /\ ~ M2[h].is_free
  <2>1. M[h] \in Blocks
    BY <1>1, <1>2
  <2> QED BY <1>7, <1>8, <2>1 DEF Blocks
<1>20. ASSUME NEW a \in DOMAIN M \ {h}
       PROVE  M2[a].is_free = M[a].is_free /\ M2[a].size = M[a].size
  <2>1. PICK j \in 1 .. n : a = s[j] /\ j # k
    BY <1>1, <1>2, <1>20 DEF Range
  <2> QED BY <1>10, <2>1
<1> QED BY <1>3, <1>5, <1>17, <1>18, <1>19, <1>20 DEF r, t2, IsSplit

(* Where the headers of a list are when the one at position k is gone.     *)
Removed(s, k, r) ==
    /\ r \in Seq(Addresses) /\ Len(r) = Len(s) - 1
    /\ Range(r) = Range(s) \ {s[k]}
    /\ \A j \in 1 .. Len(s) - 1 :
          /\ j < k => j \in 1 .. Len(s) /\ r[j] = s[j]
          /\ j >= k => j + 1 \in 1 .. Len(s) /\ r[j] = s[j + 1]
    /\ \A j \in 0 .. Len(s) :
          /\ j < k => At(r, j) = At(s, j)
          /\ j >= k => At(r, j) = At(s, j + 1)

LEMMA AtRemoved ==
    ASSUME NEW s \in Seq(Addresses), IsInjective(s), NEW k \in 1 .. Len(s), NEW r,
           r = RemoveAt(s, k)
    PROVE  Removed(s, k, r)
<1> DEFINE n == Len(s)
<1>1. /\ r \in Seq(Addresses) /\ Len(r) = n - 1 /\ Range(r) = Range(s) \ {s[k]}
      /\ \A j \in 1 .. n - 1 : r[j] = IF j < k THEN s[j] ELSE s[j + 1]
  <2>1. Range(RemoveAt(s, k)) = Range(s) \ {s[k]}
    BY RemoveAtRange
  <2>2. /\ RemoveAt(s, k) \in Seq(Addresses) /\ Len(RemoveAt(s, k)) = n - 1
    BY RemoveAtElements
  <2>3. \A j \in 1 .. n - 1 : RemoveAt(s, k)[j] = IF j < k THEN s[j] ELSE s[j + 1]
    BY RemoveAtElements
  <2> QED BY <2>1, <2>2, <2>3
<1>2. n \in Nat
  BY LenProperties
<1> HIDE DEF n
<1>3. k \in 1 .. n
  BY DEF n
<1>4. \A j \in 1 .. n - 1 : /\ j < k => j \in 1 .. n /\ r[j] = s[j]
                            /\ j >= k => j + 1 \in 1 .. n /\ r[j] = s[j + 1]
  BY <1>1, <1>2, <1>3
<1>5. ASSUME NEW j \in 0 .. n
      PROVE  /\ j < k => At(r, j) = At(s, j)
             /\ j >= k => At(r, j) = At(s, j + 1)
  <2>1. CASE j = 0
    <3>1. j \notin 1 .. Len(r) /\ j \notin 1 .. Len(s) /\ j < k
      BY <1>1, <1>2, <1>3, <2>1
    <3> QED BY <1>3, <3>1 DEF At
  <2>2. CASE j = n
    <3>1. j \notin 1 .. Len(r) /\ j + 1 \notin 1 .. Len(s) /\ j >= k
      BY <1>1, <1>2, <1>3, <2>2 DEF n
    <3> QED BY <1>3, <3>1 DEF At
  <2>3. CASE j \in 1 .. n - 1
    BY <1>1, <1>2, <1>3, <1>4, <2>3 DEF At, n
  <2> QED BY <1>2, <2>1, <2>2, <2>3
<1> QED BY <1>1, <1>4, <1>5 DEF n, Removed

(* What is so of M2, the blocks M where b = s[k] took in m = s[k + 1].      *)
IsAbsorbed(M, t, s, k, b, m, M2) ==
    /\ IsHeap(M2, IF M[m].next = NULL THEN b ELSE t, RemoveAt(s, k + 1))
    /\ DOMAIN M2 = DOMAIN M \ {m}
    /\ \A a \in DOMAIN M \ {m} : M2[a].is_free = M[a].is_free
    /\ \A a \in DOMAIN M \ {b, m} : M2[a].size = M[a].size

(* A block that takes in the one after it ends where that one ended.       *)
LEMMA HeapAbsorbed ==
    ASSUME NEW M, NEW t, NEW s, IsHeap(M, t, s), NEW k \in 1 .. Len(s) - 1,
           NEW b, b = s[k], NEW m, m = s[k + 1],
           NEW M2, M2 = Absorb(M, b, m)
    PROVE  IsAbsorbed(M, t, s, k, b, m, M2)
<1> DEFINE n == Len(s)
<1> DEFINE r == RemoveAt(s, k + 1)
<1> DEFINE t2 == IF M[m].next = NULL THEN b ELSE t
<1>1. /\ HeapSize \in Nat /\ Overhead \in Nat /\ Overhead >= 1
      /\ n \in Nat /\ n >= 1 /\ DOMAIN s = 1 .. n /\ s \in Seq(Addresses)
  BY HeapFacts, SMTT(60) DEF IsHeap
<1>2. k \in 1 .. n /\ k + 1 \in 1 .. n /\ k # n /\ k # k + 1 /\ k < k + 1
  <2>1. k \in 1 .. n - 1
    OBVIOUS
  <2> HIDE DEF n
  <2> QED BY <1>1, <2>1
<1>3. /\ \A j \in 1 .. n : /\ s[j] \in Nat /\ s[j] \in Addresses /\ s[j] # NULL
                           /\ s[j] \in DOMAIN M
                           /\ M[s[j]] \in Blocks /\ M[s[j]].size \in Nat
                           /\ At(s, j) = s[j]
      /\ \A j, i \in 1 .. n : s[j] = s[i] => j = i
      /\ At(s, n + 1) = NULL /\ At(s, 0) = NULL /\ s[1] = 0 /\ DOMAIN M = Range(s)
      /\ \A j, i \in 1 .. n : j < i => End(M, s[j]) <= s[i]
      /\ t = s[n]
      /\ \A j \in 1 .. n : End(M, s[j]) = IF j = n THEN HeapSize ELSE s[j + 1]
      /\ \A j \in 1 .. n : M[s[j]].next = At(s, j + 1) /\ M[s[j]].prev = At(s, j - 1)
  <2>1. \A j \in 1 .. n : /\ s[j] \in Nat /\ s[j] \in Addresses /\ s[j] # NULL
                          /\ s[j] \in DOMAIN M
                          /\ M[s[j]] \in Blocks /\ M[s[j]].size \in Nat
                          /\ At(s, j) = s[j]
    BY HeapFacts, SMTT(60)
  <2>2. \A j, i \in 1 .. n : s[j] = s[i] => j = i
    BY HeapFacts, SMTT(30)
  <2>3. At(s, n + 1) = NULL /\ At(s, 0) = NULL /\ s[1] = 0 /\ DOMAIN M = Range(s)
    BY HeapFacts
  <2>4. /\ \A j, i \in 1 .. n : j < i => End(M, s[j]) <= s[i]
        /\ t = s[n]
        /\ \A j \in 1 .. n : End(M, s[j]) = IF j = n THEN HeapSize ELSE s[j + 1]
        /\ \A j \in 1 .. n : M[s[j]].next = At(s, j + 1) /\ M[s[j]].prev = At(s, j - 1)
    BY DEF IsHeap
  <2> HIDE DEF n
  <2> QED BY <2>1, <2>2, <2>3, <2>4
<1> HIDE DEF n, r, t2
<1>4. /\ r \in Seq(Addresses) /\ Len(r) = n - 1 /\ Range(r) = Range(s) \ {m}
      /\ \A j \in 1 .. n - 1 : /\ j < k + 1 => j \in 1 .. n /\ r[j] = s[j]
                               /\ j >= k + 1 => j + 1 \in 1 .. n /\ r[j] = s[j + 1]
      /\ \A j \in 0 .. n : /\ j < k + 1 => At(r, j) = At(s, j)
                           /\ j >= k + 1 => At(r, j) = At(s, j + 1)
  <2>1. s \in Seq(Addresses) /\ IsInjective(s) /\ k + 1 \in 1 .. Len(s) /\ r = RemoveAt(s, k + 1)
    BY <1>1, <1>2, <1>3, ZenonT(60) DEF n, r, IsInjective
  <2>2. Removed(s, k + 1, r)
    BY <2>1, AtRemoved
  <2> QED BY <2>2 DEF Removed, n
<1>5. /\ b \in DOMAIN M /\ m \in DOMAIN M /\ b # m /\ M[m].next = At(s, (k + 1) + 1)
      /\ M[b] \in Blocks /\ M[m] \in Blocks /\ M[b].size \in Nat /\ M[m].size \in Nat
      /\ M[b].prev = At(s, k - 1) /\ b \in Addresses
  BY <1>2, <1>3
<1>6. /\ M2[b] = [M[b] EXCEPT !.size = @ + M[m].size + Overhead, !.next = M[m].next]
      /\ M2[b] \in Blocks /\ M2[b].size = M[b].size + M[m].size + Overhead
      /\ M2[b].next = At(s, (k + 1) + 1) /\ M2[b].prev = At(s, k - 1)
      /\ M2[b].is_free = M[b].is_free
  <2>1. M2[b] = [M[b] EXCEPT !.size = @ + M[m].size + Overhead, !.next = M[m].next]
    BY <1>5 DEF Absorb
  <2>2. M[m].next \in Addresses \cup {NULL} /\ M[b].size + M[m].size + Overhead \in Nat
    BY <1>1, <1>5 DEF Blocks
  <2> QED BY <1>5, <2>1, <2>2, ZenonT(60) DEF Blocks
<1>7. ASSUME NEW j \in 1 .. n, j # k, j # k + 1
      PROVE  /\ M2[s[j]] \in Blocks /\ M2[s[j]].size = M[s[j]].size
             /\ M2[s[j]].is_free = M[s[j]].is_free
             /\ M2[s[j]].next = At(s, j + 1)
             /\ M2[s[j]].prev = IF j = (k + 1) + 1 THEN b ELSE At(s, j - 1)
  <2>1. s[j] \in DOMAIN M /\ s[j] # b /\ s[j] # m /\ M[s[j]] \in Blocks
    BY <1>2, <1>3, <1>7
  <2>2. s[j] = M[m].next <=> j = (k + 1) + 1
    <3>1. CASE k + 1 = n
      BY <1>1, <1>3, <1>5, <3>1
    <3>2. CASE k + 1 # n
      <4>1. (k + 1) + 1 \in 1 .. n
        BY <1>1, <1>2, <3>2
      <4> QED BY <1>3, <1>5, <4>1
    <3> QED BY <3>1, <3>2
  <2>3. M2[s[j]] = IF j = (k + 1) + 1 THEN [M[s[j]] EXCEPT !.prev = b] ELSE M[s[j]]
    BY <2>1, <2>2 DEF Absorb
  <2>4. M[s[j]].next = At(s, j + 1) /\ M[s[j]].prev = At(s, j - 1)
    BY <1>3
  <2> QED BY <1>5, <2>1, <2>3, <2>4 DEF Blocks
<1>8. DOMAIN M2 = DOMAIN M \ {m}
  BY DEF Absorb
<1>9. ASSUME NEW a \in DOMAIN M \ {m}
      PROVE  /\ M2[a] \in Blocks /\ M2[a].is_free = M[a].is_free
             /\ a # b => M2[a].size = M[a].size
  <2>1. PICK j \in 1 .. n : a = s[j] /\ j # k + 1
    BY <1>1, <1>3, <1>9, ZenonT(60) DEF Range
  <2> QED BY <1>6, <1>7, <2>1
<1>10. M2 \in [Range(r) -> Blocks]
  <2>1. M2 = [a \in Range(r) |-> M2[a]]
    BY <1>3, <1>4 DEF Absorb
  <2> QED BY <1>3, <1>4, <1>9, <2>1
<1>11. \A j \in 1 .. n - 1 :
          /\ j < k => End(M2, r[j]) = End(M, s[j])
          /\ j = k => End(M2, r[j]) = End(M, m)
          /\ j > k => End(M2, r[j]) = End(M, s[j + 1])
  <2> TAKE j \in 1 .. n - 1
  <2>1. ASSUME j < k PROVE End(M2, r[j]) = End(M, s[j])
    <3>1. j \in 1 .. n /\ j # k /\ j # k + 1 /\ r[j] = s[j]
      BY <1>1, <1>2, <1>4, <2>1
    <3> QED BY <1>7, <3>1 DEF End
  <2>2. ASSUME j = k PROVE End(M2, r[j]) = End(M, m)
    <3>1. r[j] = b
      BY <1>2, <1>4, <2>2
    <3>2. PICK x \in Nat, y \in Nat : x = M[b].size /\ y = M[m].size
      BY <1>5
    <3>3. End(M2, b) = b + Overhead + (x + y + Overhead)
      BY <1>6, <3>2 DEF End
    <3>4. End(M, m) = m + Overhead + y /\ End(M, b) = b + Overhead + x
      BY <3>2 DEF End
    <3>5. End(M, b) = m /\ b \in Nat
      BY <1>2, <1>3
    <3> QED BY <1>1, <3>1, <3>3, <3>4, <3>5, SMTT(60)
  <2>3. ASSUME j > k PROVE End(M2, r[j]) = End(M, s[j + 1])
    <3>1. j >= k + 1 /\ j + 1 # k /\ j + 1 # k + 1
      BY <1>1, <1>2, <2>3
    <3>2. j + 1 \in 1 .. n /\ r[j] = s[j + 1]
      BY <1>4, <3>1
    <3> QED BY <1>7, <3>1, <3>2 DEF End
  <2> QED BY <2>1, <2>2, <2>3
<1>12. \A j \in 1 .. n - 1 : End(M2, r[j]) = IF j = n - 1 THEN HeapSize ELSE r[j + 1]
  <2> TAKE j \in 1 .. n - 1
  <2>1. CASE j < k
    <3>1. j \in 1 .. n /\ j # n /\ j # n - 1 /\ j + 1 \in 1 .. n - 1 /\ j + 1 < k + 1
      BY <1>1, <1>2, <2>1
    <3>2. r[j + 1] = s[j + 1] /\ End(M2, r[j]) = End(M, s[j])
      BY <1>4, <1>11, <2>1, <3>1
    <3> QED BY <1>3, <3>1, <3>2
  <2>2. CASE j = k
    <3>1. End(M2, r[j]) = IF k + 1 = n THEN HeapSize ELSE s[(k + 1) + 1]
      BY <1>2, <1>3, <1>11, <2>2
    <3>2. j = n - 1 <=> k + 1 = n
      BY <1>1, <2>2
    <3>3. j # n - 1 => r[j + 1] = s[(k + 1) + 1]
      <4>1. j # n - 1 => j + 1 \in 1 .. n - 1 /\ j + 1 >= k + 1 /\ j + 1 = k + 1
        BY <1>1, <2>2
      <4> QED BY <1>4, <4>1
    <3> QED BY <3>1, <3>2, <3>3
  <2>3. CASE j > k
    <3>1. j >= k + 1 /\ (j = n - 1 <=> j + 1 = n)
      BY <1>1, <1>2, <2>3
    <3>2. j + 1 \in 1 .. n /\ End(M2, r[j]) = End(M, s[j + 1])
      BY <1>4, <1>11, <2>3, <3>1
    <3>3. End(M, s[j + 1]) = IF j + 1 = n THEN HeapSize ELSE s[(j + 1) + 1]
      BY <1>3, <3>2
    <3>4. j # n - 1 => r[j + 1] = s[(j + 1) + 1]
      <4>1. j # n - 1 => j + 1 \in 1 .. n - 1 /\ j + 1 >= k + 1
        BY <1>1, <3>1
      <4> QED BY <1>4, <4>1
    <3> QED BY <3>1, <3>2, <3>3, <3>4
  <2> QED BY <1>1, <1>2, <2>1, <2>2, <2>3
<1>13. \A j, i \in 1 .. n - 1 : j < i => End(M2, r[j]) <= r[i]
  <2> TAKE j, i \in 1 .. n - 1
  <2> HAVE j < i
  <2>0. i + 1 \in 1 .. n /\ j + 1 \in 1 .. n /\ j < i + 1 /\ j + 1 < i + 1 /\ j \in 1 .. n /\ i \in 1 .. n
    BY <1>1
  <2>1. CASE j < k
    <3>1. End(M2, r[j]) = End(M, s[j])
      BY <1>11, <2>1
    <3>2. CASE i < k + 1
      <4>1. r[i] = s[i]
        BY <1>4, <3>2
      <4> QED BY <1>3, <2>0, <3>1, <4>1
    <3>3. CASE i >= k + 1
      <4>1. r[i] = s[i + 1]
        BY <1>4, <3>3
      <4> QED BY <1>3, <2>0, <3>1, <4>1
    <3> QED BY <1>1, <1>2, <3>2, <3>3
  <2>2. CASE j = k
    <3>1. i >= k + 1 /\ k + 1 < i + 1
      BY <1>1, <1>2, <2>2
    <3>2. r[i] = s[i + 1] /\ End(M2, r[j]) = End(M, s[k + 1])
      BY <1>4, <1>11, <2>2, <3>1
    <3> QED BY <1>2, <1>3, <2>0, <3>1, <3>2
  <2>3. CASE j > k
    <3>1. i >= k + 1
      BY <1>1, <1>2, <2>3
    <3>2. r[i] = s[i + 1] /\ End(M2, r[j]) = End(M, s[j + 1])
      BY <1>4, <1>11, <2>3, <3>1
    <3> QED BY <1>3, <2>0, <3>2, ZenonT(60)
  <2> QED BY <1>1, <1>2, <2>1, <2>2, <2>3
<1>14. \A j \in 1 .. n - 1 : M2[r[j]].next = At(r, j + 1) /\ M2[r[j]].prev = At(r, j - 1)
  <2> TAKE j \in 1 .. n - 1
  <2>0. /\ j + 1 \in 0 .. n /\ j - 1 \in 0 .. n /\ (j - 1) + 1 = j /\ (j + 1) - 1 = j
    BY <1>1
  <2>1. CASE j < k
    <3>1. j # k /\ j # k + 1 /\ j # (k + 1) + 1 /\ j < k + 1 /\ j + 1 < k + 1 /\ j - 1 < k + 1
      BY <1>1, <1>2, <2>1
    <3>2. /\ j \in 1 .. n /\ r[j] = s[j] /\ At(r, j + 1) = At(s, j + 1)
          /\ At(r, j - 1) = At(s, j - 1)
      BY <1>4, <2>0, <3>1
    <3> QED BY <1>7, <3>1, <3>2
  <2>2. CASE j = k
    <3>1. j < k + 1 /\ j + 1 >= k + 1 /\ j - 1 < k + 1
      BY <1>1, <1>2, <2>2
    <3>2. r[j] = b /\ At(r, j + 1) = At(s, (k + 1) + 1) /\ At(r, j - 1) = At(s, k - 1)
      BY <1>4, <2>0, <2>2, <3>1
    <3> QED BY <1>6, <3>2
  <2>3. CASE j > k
    <3>1. j >= k + 1 /\ j + 1 # k /\ j + 1 # k + 1 /\ j + 1 >= k + 1
      BY <1>1, <1>2, <2>3
    <3>2. j + 1 \in 1 .. n /\ r[j] = s[j + 1] /\ At(r, j + 1) = At(s, (j + 1) + 1)
      BY <1>4, <2>0, <3>1
    <3>3. /\ M2[s[j + 1]].next = At(s, (j + 1) + 1)
          /\ M2[s[j + 1]].prev = IF j + 1 = (k + 1) + 1 THEN b ELSE At(s, (j + 1) - 1)
      BY <1>7, <3>1, <3>2
    <3>4. At(r, j - 1) = IF j + 1 = (k + 1) + 1 THEN b ELSE At(s, (j + 1) - 1)
      <4>1. CASE j = k + 1
        <5>1. j - 1 < k + 1 /\ j - 1 = k /\ j + 1 = (k + 1) + 1
          BY <1>2, <4>1
        <5>2. At(r, j - 1) = At(s, k)
          BY <1>4, <2>0, <5>1
        <5> QED BY <1>2, <1>3, <5>1, <5>2
      <4>2. CASE j # k + 1
        <5>1. j - 1 >= k + 1 /\ j + 1 # (k + 1) + 1
          BY <1>1, <1>2, <3>1, <4>2
        <5>2. At(r, j - 1) = At(s, (j - 1) + 1)
          BY <1>4, <2>0, <5>1
        <5> QED BY <2>0, <5>1, <5>2
      <4> QED BY <4>1, <4>2
    <3> QED BY <3>2, <3>3, <3>4
  <2> QED BY <1>1, <1>2, <2>1, <2>2, <2>3
<1>15. t2 = r[n - 1]
  <2>1. n - 1 \in 1 .. n - 1
    BY <1>1, <1>2
  <2>2. CASE k + 1 = n
    <3>1. M[m].next = NULL /\ n - 1 = k /\ n - 1 < k + 1
      BY <1>1, <1>3, <1>5, <2>2
    <3> QED BY <1>4, <2>1, <3>1 DEF t2
  <2>3. CASE k + 1 # n
    <3>1. (k + 1) + 1 \in 1 .. n /\ n - 1 >= k + 1 /\ (n - 1) + 1 = n
      BY <1>1, <1>2, <2>3
    <3>2. M[m].next # NULL
      BY <1>3, <1>5, <3>1
    <3>3. r[n - 1] = s[(n - 1) + 1]
      BY <1>4, <2>1, <3>1
    <3> QED BY <1>3, <3>1, <3>2, <3>3 DEF t2
  <2> QED BY <2>2, <2>3
<1>16. Len(r) >= 1 /\ r[1] = 0
  <2>1. 1 \in 1 .. n - 1 /\ 1 < k + 1
    BY <1>1, <1>2
  <2> QED BY <1>3, <1>4, <2>1
<1>17. IsHeap(M2, t2, r)
  BY <1>4, <1>10, <1>12, <1>13, <1>14, <1>15, <1>16 DEF IsHeap, mem_head
<1> QED BY <1>8, <1>9, <1>17 DEF r, t2, IsAbsorbed
-----------------------------------------------------------------------------
(***************************************************************************)
(* What the loops of the code find.                                        *)
(***************************************************************************)
(* The list that is read off the next pointers is the list they are: of    *)
(* two functions that follow them, the first difference would be one step  *)
(* after an agreement.                                                     *)
LEMMA HeapIsRead == \A s : IsHeap(mcb, mem_tail, s) => List = s
<1> SUFFICES ASSUME NEW s, IsHeap(mcb, mem_tail, s) PROVE List = s
  OBVIOUS
<1> DEFINE n == Len(s)
<1> DEFINE N == Cardinality(DOMAIN mcb)
<1> DEFINE Follows(f) ==
      f = [k \in 1 .. N + 1 |-> IF k = 1 THEN mem_head
                                ELSE IF f[k - 1] = NULL THEN NULL
                                ELSE mcb[f[k - 1]].next]
<1> DEFINE ptr == CHOOSE f : Follows(f)
<1> DEFINE Ends(k) == ptr[k] = NULL /\ \A j \in 1 .. k - 1 : ptr[j] # NULL
<1> DEFINE last == CHOOSE k \in 1 .. N + 1 : Ends(k)
<1>1. List = [k \in 1 .. last - 1 |-> ptr[k]]
  BY DEF List
<1>2. /\ n \in Nat /\ n >= 1 /\ DOMAIN s = 1 .. n /\ s[1] = mem_head
      /\ \A k \in 1 .. n : s[k] # NULL /\ At(s, k) = s[k]
      /\ At(s, n + 1) = NULL
  BY HeapFacts DEF mem_head
<1>3. N = n
  <2>1. s \in [1 .. n -> DOMAIN mcb]
    <3>1. s \in Seq(Addresses) /\ \A k \in 1 .. n : s[k] \in DOMAIN mcb
      BY HeapFacts DEF IsHeap
    <3>2. s = [k \in 1 .. n |-> s[k]]
      BY <3>1
    <3> QED BY <3>1, <3>2
  <2>2. IsInjective(s) /\ \A h \in DOMAIN mcb : \E k \in 1 .. n : s[k] = h
    <3>1. \A j, k \in 1 .. n : s[j] = s[k] => j = k
      BY HeapFacts
    <3>2. \A h \in DOMAIN mcb : \E k \in 1 .. n : h = s[k]
      BY HeapFacts
    <3> QED BY <1>2, <3>1, <3>2 DEF IsInjective
  <2>3. s \in Bijection(1 .. n, DOMAIN mcb)
    BY <2>1, <2>2 DEF Bijection, Injection, Surjection
  <2> QED BY <1>2, <2>3, FS_CountingElements DEF ExistsBijection
<1> HIDE DEF n, N
<1> DEFINE g == [k \in 1 .. N + 1 |-> At(s, k)]
<1>4. \A k \in 1 .. n : mcb[s[k]].next = At(s, k + 1)
  BY DEF IsHeap, n
<1>5. Follows(g)
  <2>1. ASSUME NEW k \in 1 .. N + 1
        PROVE  g[k] = IF k = 1 THEN mem_head
                      ELSE IF g[k - 1] = NULL THEN NULL
                      ELSE mcb[g[k - 1]].next
    <3>1. CASE k = 1
      BY <1>2, <1>3, <3>1
    <3>2. CASE k # 1
      <4>1. k - 1 \in 1 .. n /\ k - 1 \in 1 .. N + 1 /\ (k - 1) + 1 = k
        BY <1>2, <1>3, <3>2
      <4> QED BY <1>2, <1>4, <3>2, <4>1
    <3> QED BY <3>1, <3>2
  <2> QED BY <2>1
<1>6. ASSUME NEW f, Follows(f) PROVE f = g
  <2> DEFINE D == {k \in 1 .. N + 1 : f[k] # g[k]}
  <2>1. CASE D = {}
    <3>1. f = [k \in 1 .. N + 1 |-> f[k]]
      BY <1>6
    <3> QED BY <2>1, <3>1
  <2>2. CASE D # {}
    <3>1. D \in SUBSET Nat
      BY <1>2, <1>3
    <3> HIDE DEF D
    <3>2. PICK k \in D : \A j \in D : k <= j
      BY <2>2, <3>1, LeastNumber
    <3>3. k \in 1 .. N + 1 /\ f[k] # g[k]
      BY <3>2 DEF D
    <3>4. k # 1
      BY <1>5, <1>6, <3>3
    <3>5. k - 1 \in 1 .. N + 1 /\ k - 1 \notin D
      BY <1>2, <1>3, <3>2, <3>3, <3>4
    <3>6. f[k - 1] = g[k - 1]
      BY <3>5 DEF D
    <3> HIDE DEF g
    <3>7. f[k] = IF f[k - 1] = NULL THEN NULL ELSE mcb[f[k - 1]].next
      BY <1>6, <3>3, <3>4
    <3>8. g[k] = IF g[k - 1] = NULL THEN NULL ELSE mcb[g[k - 1]].next
      BY <1>5, <3>3, <3>4
    <3> QED BY <3>3, <3>6, <3>7, <3>8
  <2> QED BY <2>1, <2>2
<1> HIDE DEF Follows, g
<1>7. ptr = g
  BY <1>5, <1>6
<1>8. \A k \in 1 .. n + 1 : ptr[k] = At(s, k)
  BY <1>3, <1>7 DEF g
<1> HIDE DEF ptr
<1>9. last = n + 1
  <2>1. n + 1 \in 1 .. N + 1 /\ Ends(n + 1)
    <3>1. \A j \in 1 .. (n + 1) - 1 : j \in 1 .. n /\ j \in 1 .. n + 1
      BY <1>2
    <3>2. n + 1 \in 1 .. n + 1
      BY <1>2
    <3> QED BY <1>2, <1>3, <1>8, <3>1, <3>2
  <2>2. \A k \in 1 .. N + 1 : Ends(k) => k = n + 1
    <3> SUFFICES ASSUME NEW k \in 1 .. N + 1, Ends(k), k # n + 1 PROVE FALSE
      OBVIOUS
    <3>1. k \in 1 .. n /\ k \in 1 .. n + 1
      BY <1>2, <1>3
    <3> QED BY <1>2, <1>8, <3>1
  <2> HIDE DEF Ends
  <2> QED BY <2>1, <2>2
<1> HIDE DEF last
<1>10. List = [k \in 1 .. n |-> s[k]]
  <2>1. last - 1 = n
    BY <1>2, <1>9
  <2>2. \A k \in 1 .. n : ptr[k] = s[k]
    <3> TAKE k \in 1 .. n
    <3>1. k \in 1 .. n + 1
      BY <1>2
    <3> QED BY <1>2, <1>8, <3>1
  <2> QED BY <1>1, <2>1, <2>2
<1>11. s = [k \in 1 .. n |-> s[k]]
  BY DEF IsHeap, n
<1> QED BY <1>10, <1>11

(* The same after a step.                                                  *)
LEMMA HeapIsReadNext == \A s : IsHeap(mcb, mem_tail, s)' => List' = s
<1>1. \A s : IsHeap(mcb, mem_tail, s) => List = s
  BY HeapIsRead
<1>2. (\A s : IsHeap(mcb, mem_tail, s) => List = s)'
  BY <1>1, PTL
<1> QED BY <1>2
-----------------------------------------------------------------------------
(***************************************************************************)
(* The invariant: the control blocks are the list that is read off them,   *)
(* and no two free ones lie side by side.                                  *)
(***************************************************************************)
FreePair(M, s, k) == M[s[k]].is_free /\ M[s[k + 1]].is_free

Merged(M, s) == \A k \in 1 .. Len(s) - 1 : ~ FreePair(M, s, k)

HeapInv == IsHeap(mcb, mem_tail, List) /\ Merged(mcb, List)

(* To show that a step keeps it is to name the list the step makes.        *)
LEMMA NewList ==
    ASSUME NEW s, IsHeap(mcb', mem_tail', s), Merged(mcb', s)
    PROVE  HeapInv'
<1>1. List' = s
  BY HeapIsReadNext
<1> QED BY <1>1 DEF HeapInv, Merged, FreePair

(* The ranges that are allocated are the blocks that are not free.         *)
RangeAt(M, h) == [start |-> start_address(h), size |-> M[h].size]

OwnedOf(M) == {RangeAt(M, h) : h \in {a \in DOMAIN M : ~ M[a].is_free}}

LEMMA OwnedIs == owned = OwnedOf(mcb) /\ owned' = OwnedOf(mcb')
BY DEF owned, OwnedOf, RangeAt

(* A block that is taken adds its range, and the rest of it none.          *)
LEMMA OwnedTaken ==
    ASSUME NEW M, NEW h \in DOMAIN M, M[h].is_free,
           NEW M2, DOMAIN M \subseteq DOMAIN M2, ~ M2[h].is_free,
           \A a \in DOMAIN M2 \ DOMAIN M : M2[a].is_free,
           \A a \in DOMAIN M \ {h} : M2[a].is_free = M[a].is_free /\ M2[a].size = M[a].size
    PROVE  OwnedOf(M2) = OwnedOf(M) \cup {RangeAt(M2, h)}
<1>1. {a \in DOMAIN M2 : ~ M2[a].is_free} = {a \in DOMAIN M : ~ M[a].is_free} \cup {h}
  OBVIOUS
<1>2. \A a \in {x \in DOMAIN M : ~ M[x].is_free} : RangeAt(M2, a) = RangeAt(M, a)
  BY DEF RangeAt
<1> QED BY <1>1, <1>2 DEF OwnedOf

(* A block that is freed takes its range with it.                          *)
LEMMA OwnedFreed ==
    ASSUME NEW M, DOMAIN M \subseteq Nat, NEW h \in DOMAIN M, ~ M[h].is_free,
           NEW M2, DOMAIN M2 = DOMAIN M, M2[h].is_free,
           \A a \in DOMAIN M \ {h} : M2[a] = M[a]
    PROVE  OwnedOf(M2) = OwnedOf(M) \ {RangeAt(M, h)}
<1>1. {a \in DOMAIN M2 : ~ M2[a].is_free} = {a \in DOMAIN M : ~ M[a].is_free} \ {h}
  OBVIOUS
<1>2. \A a \in {x \in DOMAIN M : ~ M[x].is_free} \ {h} :
         RangeAt(M2, a) = RangeAt(M, a) /\ RangeAt(M, a) # RangeAt(M, h)
  BY FirstBlockFits DEF RangeAt, start_address
<1> QED BY <1>1, <1>2 DEF OwnedOf

(* At boot there is one free block.                                        *)
LEMMA HeapInit == initialize_heap => HeapInv /\ Promise!Init
<1> SUFFICES ASSUME initialize_heap PROVE HeapInv /\ Promise!Init
  OBVIOUS
<1> DEFINE first == [size |-> HeapSize - Overhead, next |-> NULL, prev |-> NULL,
                     is_free |-> TRUE]
<1>1. mcb = [h \in {0} |-> first] /\ mem_tail = 0 /\ call = <<NULL, NULL>>
  BY DEF initialize_heap, mem_head
<1>2. HeapSize \in Nat /\ Overhead \in Nat /\ HeapSize - Overhead \in Nat
  BY FirstBlockFits
<1>3. first \in Blocks /\ first.size = HeapSize - Overhead /\ first.next = NULL /\ first.prev = NULL
      /\ first.is_free
  BY <1>2 DEF Blocks
<1> HIDE DEF first
<1>4. PICK s : s = <<0>>
  OBVIOUS
<1>5. s \in Seq(Addresses) /\ Len(s) = 1 /\ s[1] = 0 /\ Range(s) = {0}
  BY <1>2, <1>4 DEF Addresses, Range
<1>6. mcb \in [Range(s) -> Blocks] /\ mcb[0] = first
  BY <1>1, <1>3, <1>5
<1>7. At(s, 2) = NULL /\ At(s, 0) = NULL
  BY <1>5 DEF At
<1>8. End(mcb, 0) = HeapSize
  BY <1>2, <1>3, <1>6 DEF End
<1>9. IsHeap(mcb, mem_tail, s)
  BY <1>1, <1>3, <1>5, <1>6, <1>7, <1>8 DEF IsHeap, mem_head
<1>10. Merged(mcb, s)
  BY <1>5 DEF Merged
<1>11. List = s
  BY <1>9, HeapIsRead
<1>12. owned = {}
  BY <1>1, <1>3 DEF owned
<1> QED BY <1>1, <1>9, <1>10, <1>11, <1>12 DEF HeapInv, Promise!Init
-----------------------------------------------------------------------------
(***************************************************************************)
(* allocate_memory.                                                        *)
(***************************************************************************)
(* A free block has room for what is no larger than it.                    *)
LEMMA RoomInBlock ==
    ASSUME HeapInv, NEW k \in 1 .. Len(List), mcb[List[k]].is_free,
           NEW size \in Nat, size <= mcb[List[k]].size
    PROVE  Promise!Room(start_address(List[k]), size)
<1>1. PICK s : s = List /\ IsHeap(mcb, mem_tail, s)
  BY DEF HeapInv
<1>2. PICK h : h = s[k]
  OBVIOUS
<1>3. /\ h \in Nat /\ mcb[h].size \in Nat /\ Overhead \in Nat /\ HeapSize \in Nat
      /\ k \in 1 .. Len(s) /\ Len(s) \in Nat
  BY <1>1, <1>2, HeapFacts
<1>4. End(mcb, h) <= HeapSize /\ End(mcb, h) = h + Overhead + mcb[h].size
  BY <1>1, <1>2, BlockEnds DEF End
<1>5. h + Overhead + size <= End(mcb, h)
  <2>1. PICK z \in Nat : z = mcb[h].size
    BY <1>3
  <2>2. size <= z /\ End(mcb, h) = h + Overhead + z
    BY <1>1, <1>2, <1>4, <2>1
  <2> QED BY <1>3, <2>2
<1>6. Overhead <= h + Overhead /\ h + Overhead + size <= HeapSize
  BY <1>3, <1>4, <1>5 DEF End
<1>7. ASSUME NEW b \in owned
      PROVE  Promise!Apart([start |-> h + Overhead, size |-> size], b)
  <2>1. PICK a \in DOMAIN mcb : ~ mcb[a].is_free /\ b = RangeAt(mcb, a)
    BY <1>7, OwnedIs DEF OwnedOf
  <2>2. PICK j \in 1 .. Len(s) : a = s[j]
    BY <1>1, <2>1, HeapFacts
  <2>3. j # k
    BY <1>1, <1>2, <2>1, <2>2
  <2>4. /\ a \in Nat /\ mcb[a].size \in Nat
        /\ b.start = a + Overhead /\ b.size = mcb[a].size
    BY <1>1, <2>1, <2>2, HeapFacts DEF RangeAt, start_address
  <2>5. CASE j < k
    <3>1. a + Overhead + mcb[a].size <= h
      BY <1>1, <1>2, <1>3, <2>2, <2>5 DEF IsHeap, End
    <3>2. b.start + b.size <= (h + Overhead) - Overhead
      BY <1>3, <2>4, <3>1
    <3> QED BY <3>2 DEF Promise!Apart
  <2>6. CASE j > k
    <3>1. End(mcb, h) <= a
      BY <1>1, <1>2, <1>3, <2>2, <2>6 DEF IsHeap
    <3>2. h + Overhead + size <= a
      BY <1>3, <1>4, <1>5, <2>4, <3>1, SMTT(60)
    <3>3. h + Overhead + size <= b.start - Overhead
      BY <1>3, <2>4, <3>2
    <3> QED BY <3>3 DEF Promise!Apart
  <2> QED BY <1>3, <2>3, <2>5, <2>6
<1>8. Promise!Room(h + Overhead, size)
  BY <1>6, <1>7 DEF Promise!Room
<1> QED BY <1>1, <1>2, <1>8 DEF start_address

(* Where there is room for a range there is a free block for it: the range *)
(* begins in a block, which is free, and so the next one is not.           *)
LEMMA RoomIsABlock ==
    ASSUME HeapInv, NEW size \in Nat, size > 0, NEW start \in 0 .. HeapSize,
           Promise!Room(start, size)
    PROVE  Fits(size) # {}
<1>1. PICK s : s = List /\ IsHeap(mcb, mem_tail, s) /\ Merged(mcb, s)
  BY DEF HeapInv
<1>2. /\ Overhead \in Nat /\ Overhead >= 1 /\ HeapSize \in Nat /\ start \in Nat
      /\ Overhead <= start /\ start + size <= HeapSize
      /\ \A b \in owned : Promise!Apart([start |-> start, size |-> size], b)
  BY FirstBlockFits DEF Promise!Room
<1>3. PICK a \in Nat : a = start - Overhead
  BY <1>2
<1>4. /\ Len(s) \in Nat /\ Len(s) >= 1 /\ s[1] = 0 /\ DOMAIN s = 1 .. Len(s)
      /\ \A k \in 1 .. Len(s) : s[k] \in Nat /\ s[k] \in DOMAIN mcb /\ mcb[s[k]].size \in Nat
  BY <1>1, HeapFacts
<1>5. PICK k \in 1 .. Len(s) : s[k] <= a /\ (k # Len(s) => a < s[k + 1])
  <2> DEFINE D == {k \in 1 .. Len(s) : s[k] > a}
  <2>1. CASE D = {}
    <3>1. Len(s) \in 1 .. Len(s) /\ Len(s) \notin D
      BY <1>4, <2>1
    <3>2. s[Len(s)] <= a
      BY <1>4, <3>1
    <3> QED BY <3>1, <3>2
  <2>2. CASE D # {}
    <3>1. D \in SUBSET Nat
      BY <1>4
    <3> HIDE DEF D
    <3>2. PICK j \in D : \A i \in D : j <= i
      BY <2>2, <3>1, LeastNumber
    <3>3. j \in 1 .. Len(s) /\ s[j] > a
      BY <3>2 DEF D
    <3>4. j # 1
      BY <1>4, <3>3
    <3>5. j - 1 \in 1 .. Len(s) /\ j - 1 \notin D /\ (j - 1) + 1 = j
      BY <1>4, <3>2, <3>3, <3>4
    <3>6. s[j - 1] <= a
      BY <1>4, <3>5, SMTT(60) DEF D
    <3> QED BY <3>3, <3>5, <3>6
  <2> QED BY <2>1, <2>2
<1>6. PICK h \in Nat, z \in Nat : h = s[k] /\ z = mcb[h].size
  BY <1>4
<1>7. \A j \in 1 .. Len(s) : ~ mcb[s[j]].is_free =>
         \/ start + size <= s[j]
         \/ s[j] + Overhead + mcb[s[j]].size <= a
  <2> TAKE j \in 1 .. Len(s)
  <2> HAVE ~ mcb[s[j]].is_free
  <2>1. RangeAt(mcb, s[j]) \in owned
    BY <1>4, OwnedIs DEF OwnedOf
  <2>2. Promise!Apart([start |-> start, size |-> size], RangeAt(mcb, s[j]))
    BY <1>2, <2>1
  <2>3. \/ start + size <= (s[j] + Overhead) - Overhead
        \/ s[j] + Overhead + mcb[s[j]].size <= start - Overhead
    BY <2>2 DEF Promise!Apart, RangeAt, start_address
  <2>4. (s[j] + Overhead) - Overhead = s[j]
    BY <1>2, <1>4
  <2> QED BY <1>3, <2>3, <2>4
<1>8. End(mcb, h) = IF k = Len(s) THEN HeapSize ELSE s[k + 1]
  BY <1>1, <1>6 DEF IsHeap
<1>9. End(mcb, h) = h + Overhead + z
  BY <1>6 DEF End
<1>10. a < start + size /\ a + size < HeapSize
  BY <1>2, <1>3
<1>11. a < End(mcb, h)
  BY <1>2, <1>3, <1>5, <1>8, <1>10
<1>12. mcb[h].is_free
  <2> SUFFICES ASSUME ~ mcb[h].is_free PROVE FALSE
    OBVIOUS
  <2>1. start + size <= h \/ h + Overhead + z <= a
    BY <1>6, <1>7
  <2> QED BY <1>2, <1>3, <1>5, <1>6, <1>9, <1>10, <1>11, <2>1, SMTT(60)
<1>13. start + size <= End(mcb, h)
  <2>1. CASE k = Len(s)
    BY <1>2, <1>8, <2>1
  <2>2. CASE k # Len(s)
    <3>1. k \in 1 .. Len(s) - 1 /\ k + 1 \in 1 .. Len(s)
      <4>1. PICK n \in Nat : n = Len(s) /\ k \in 1 .. n
        BY <1>4, ZenonT(60)
      <4>2. k \in 1 .. n - 1 /\ k + 1 \in 1 .. n
        BY <2>2, <4>1
      <4> QED BY <4>1, <4>2
    <3>2. ~ mcb[s[k + 1]].is_free
      BY <1>1, <1>6, <1>12, <3>1 DEF Merged, FreePair
    <3>3. PICK y \in Nat, x \in Nat : y = s[k + 1] /\ x = mcb[s[k + 1]].size
      BY <1>4, <3>1
    <3>4. start + size <= y \/ y + Overhead + x <= a
      BY <1>7, <3>1, <3>2, <3>3
    <3>5. a < y
      BY <1>5, <2>2, <3>3
    <3>6. start + size <= y
      BY <1>2, <3>3, <3>4, <3>5, SMTT(30)
    <3> QED BY <1>8, <2>2, <3>3, <3>6
  <2> QED BY <2>1, <2>2
<1>14. size <= z
  BY <1>2, <1>3, <1>5, <1>6, <1>9, <1>13, SMTT(60)
<1>15. k \in Fits(size)
  BY <1>1, <1>4, <1>6, <1>12, <1>14 DEF Fits
<1> QED BY <1>15

(* The pairs of a list that is split: the block in front of the rest is    *)
(* taken, and the one behind it was not free.                              *)
LEMMA SplitMerged ==
    ASSUME NEW M, NEW t, NEW s, IsHeap(M, t, s), Merged(M, s),
           NEW k \in 1 .. Len(s), NEW h, h = s[k], M[h].is_free,
           NEW split, split \in Addresses, split \notin DOMAIN M,
           NEW M2, ~ M2[h].is_free, \A a \in DOMAIN M \ {h} : M2[a].is_free = M[a].is_free
    PROVE  Merged(M2, InsertAt(s, k + 1, split))
<1> DEFINE n == Len(s)
<1> DEFINE r == InsertAt(s, k + 1, split)
<1>1. /\ n \in Nat /\ s \in Seq(Addresses) /\ k \in 1 .. n
      /\ \A j \in 1 .. n : s[j] \in DOMAIN M
      /\ \A j \in 1 .. n : j # k => s[j] # h
  <2>1. n \in Nat /\ s \in Seq(Addresses)
    BY HeapFacts DEF IsHeap
  <2>2. \A j \in 1 .. n : s[j] \in DOMAIN M
    BY HeapFacts
  <2>3. \A j \in 1 .. n : j # k => s[j] # h
    BY HeapFacts
  <2> QED BY <2>1, <2>2, <2>3
<1> HIDE DEF n, r
<1>2. Inserted(s, k + 1, split, r)
  <2>1. k + 1 \in 1 .. Len(s) + 1 /\ r = InsertAt(s, k + 1, split)
    BY <1>1 DEF n, r
  <2> QED BY <1>1, <2>1, AtInserted
<1>3. /\ Len(r) = n + 1
      /\ \A j \in 1 .. n + 1 : /\ j < k + 1 => j \in 1 .. n /\ r[j] = s[j]
                               /\ j = k + 1 => r[j] = split
                               /\ j > k + 1 => j - 1 \in 1 .. n /\ r[j] = s[j - 1]
  BY <1>2 DEF Inserted, n
<1>4. ASSUME NEW j \in 1 .. n PROVE M2[s[j]].is_free => M[s[j]].is_free
  BY <1>1, <1>4
<1>5. ASSUME NEW j \in 1 .. n, FreePair(M2, r, j) PROVE FALSE
  <2>0. j \in 1 .. n + 1 /\ j + 1 \in 1 .. n + 1 /\ (j + 1) - 1 = j /\ (j - 1) + 1 = j
    BY <1>1
  <2>1. CASE j < k
    <3>1. j < k + 1 /\ j + 1 < k + 1 /\ j + 1 \in 1 .. n /\ j \in 1 .. n - 1
      BY <1>1, <2>1
    <3>2. r[j] = s[j] /\ r[j + 1] = s[j + 1]
      BY <1>3, <2>0, <3>1
    <3>3. FreePair(M, s, j)
      BY <1>4, <1>5, <3>1, <3>2 DEF FreePair
    <3> QED BY <3>1, <3>3 DEF Merged, n
  <2>2. CASE j = k
    <3>1. j < k + 1
      BY <1>1, <2>2
    <3>2. r[j] = h
      BY <1>3, <2>0, <2>2, <3>1
    <3> QED BY <1>5, <3>2 DEF FreePair
  <2>3. CASE j = k + 1
    <3>1. j + 1 > k + 1 /\ k \in 1 .. n - 1 /\ j \in 1 .. n
      BY <1>1, <2>3
    <3>2. r[j + 1] = s[k + 1]
      BY <1>3, <2>0, <2>3, <3>1
    <3>3. FreePair(M, s, k)
      BY <1>4, <1>5, <2>3, <3>1, <3>2 DEF FreePair
    <3> QED BY <3>1, <3>3 DEF Merged, n
  <2>4. CASE j > k + 1
    <3>1. j + 1 > k + 1 /\ j - 1 \in 1 .. n - 1 /\ j - 1 \in 1 .. n
      BY <1>1, <2>4
    <3>2. r[j] = s[j - 1] /\ r[j + 1] = s[(j - 1) + 1]
      BY <1>3, <2>0, <2>4, <3>1
    <3>3. FreePair(M, s, j - 1)
      BY <1>4, <1>5, <2>0, <3>1, <3>2 DEF FreePair
    <3> QED BY <3>1, <3>3 DEF Merged, n
  <2> QED BY <1>1, <2>1, <2>2, <2>3, <2>4
<1>6. Len(r) - 1 = n
  BY <1>1, <1>3
<1> QED BY <1>5, <1>6 DEF Merged, r

(* A request gets a range that is nobody's, or nothing when there is none. *)
LEMMA AllocateStep ==
    ASSUME HeapInv, NEW size \in Sizes, allocate_memory(size)
    PROVE  HeapInv' /\ Promise!Allocate(size)
<1>1. PICK s : s = List /\ IsHeap(mcb, mem_tail, s) /\ Merged(mcb, s)
  BY DEF HeapInv
<1>2. size \in Nat /\ Overhead \in Nat /\ HeapSize \in Nat
  BY SizesAssumption, FirstBlockFits
<1>3. CASE size = 0 \/ Fits(size) = {}
  <2>1. mcb' = mcb /\ mem_tail' = mem_tail /\ call' = <<size, NULL>>
    BY <1>3 DEF allocate_memory
  <2>2. HeapInv'
    BY <1>1, <2>1, NewList
  <2>3. size > 0 => \A start \in 0 .. HeapSize : ~ Promise!Room(start, size)
    BY <1>2, <1>3, RoomIsABlock
  <2>4. owned' = owned
    BY <2>1, OwnedIs
  <2> QED BY <2>1, <2>2, <2>3, <2>4 DEF Promise!Allocate
<1>4. CASE size # 0 /\ Fits(size) # {}
  <2>1. PICK k \in Fits(size) : FirstFit(size) = List[k]
    <3>1. Fits(size) \in SUBSET Nat
      BY <1>1, HeapFacts DEF Fits
    <3>2. \E k \in Fits(size) : \A j \in Fits(size) : k <= j
      BY <1>4, <3>1, LeastNumber
    <3> QED BY <3>2 DEF FirstFit
  <2>2. PICK h : h = s[k]
    OBVIOUS
  <2>3. /\ k \in 1 .. Len(s) /\ k \in 1 .. Len(List) /\ h = List[k] /\ mcb[h].is_free
        /\ mcb[h].size >= size
        /\ h \in Nat /\ h \in DOMAIN mcb /\ mcb[h].size \in Nat
    BY <1>1, <2>1, <2>2, HeapFacts DEF Fits
  <2>4. /\ IF mcb[h].size <= size + Overhead + 1
           THEN /\ mcb' = [mcb EXCEPT ![h].is_free = FALSE]
                /\ mem_tail' = mem_tail
           ELSE Split(h, size)
        /\ call' = <<size, start_address(h)>>
    BY <1>1, <1>4, <2>1, <2>2 DEF allocate_memory
  <2>5. start_address(h) \in 0 .. HeapSize
    <3>1. h + Overhead <= End(mcb, h) /\ End(mcb, h) <= HeapSize /\ End(mcb, h) \in Nat
      BY <1>1, <2>2, <2>3, BlockEnds
    <3> QED BY <1>2, <2>3, <3>1, SMTT(60) DEF start_address
  <2>6. ASSUME NEW granted, granted \in size .. size + Overhead + 1, granted <= mcb[h].size,
               owned' = owned \cup {[start |-> start_address(h), size |-> granted]}
        PROVE  Promise!Allocate(size)
    <3>1. granted \in Nat
      BY <1>2, <2>6
    <3>2. Promise!Room(start_address(h), granted)
      BY <2>3, <2>6, <3>1, RoomInBlock
    <3>3. size > 0
      BY <1>2, <1>4
    <3> QED BY <2>4, <2>5, <2>6, <3>2, <3>3 DEF Promise!Allocate
  <2>7. CASE mcb[h].size <= size + Overhead + 1
    <3>1. mcb' = [mcb EXCEPT ![h].is_free = FALSE] /\ mem_tail' = mem_tail
      BY <2>4, <2>7
    <3>2. /\ IsHeap(mcb', mem_tail', s) /\ DOMAIN mcb' = DOMAIN mcb /\ ~ mcb'[h].is_free
          /\ mcb'[h].size = mcb[h].size
          /\ \A a \in DOMAIN mcb \ {h} : mcb'[a] = mcb[a]
      <4>1. PICK free \in BOOLEAN : free = FALSE
        OBVIOUS
      <4>2. mcb' = [mcb EXCEPT ![h].is_free = free]
        BY <3>1, <4>1
      <4>3. IsFlagged(mcb, mem_tail, s, h, free, mcb')
        BY <1>1, <2>3, <4>2, HeapFlag
      <4> QED BY <2>3, <3>1, <4>1, <4>3 DEF IsFlagged
    <3>3. Merged(mcb', s)
      <4> SUFFICES ASSUME NEW j \in 1 .. Len(s) - 1, FreePair(mcb', s, j) PROVE FALSE
        BY DEF Merged
      <4>1. j \in 1 .. Len(s) /\ j + 1 \in 1 .. Len(s)
        BY <1>1, HeapFacts
      <4>2. s[j] \in DOMAIN mcb /\ s[j + 1] \in DOMAIN mcb
        BY <1>1, <4>1, HeapFacts
      <4>3. FreePair(mcb, s, j)
        BY <3>2, <4>2 DEF FreePair
      <4> QED BY <1>1, <4>3 DEF Merged
    <3>4. OwnedOf(mcb') = OwnedOf(mcb) \cup {RangeAt(mcb', h)}
      BY <2>3, <3>2, OwnedTaken
    <3>5. owned' = owned \cup {[start |-> start_address(h), size |-> mcb[h].size]}
      BY <3>2, <3>4, OwnedIs DEF RangeAt
    <3>6. mcb[h].size \in size .. size + Overhead + 1 /\ mcb[h].size <= mcb[h].size
      BY <1>2, <2>3, <2>7
    <3>7. HeapInv'
      BY <3>2, <3>3, NewList
    <3> QED BY <2>6, <3>5, <3>6, <3>7
  <2>8. CASE ~ (mcb[h].size <= size + Overhead + 1)
    <3>1. PICK split : split = start_address(h) + size
      OBVIOUS
    <3>2. /\ mcb' = SplitBlocks(mcb, h, size)
          /\ mem_tail' = IF mcb[h].next = NULL THEN split ELSE mem_tail
      BY <2>4, <2>8, <3>1 DEF Split, SplitBlocks
    <3>3. size + Overhead <= mcb[h].size
      BY <1>2, <2>3, <2>8, SMTT(60)
    <3>4. /\ split \in Addresses /\ split \notin DOMAIN mcb
          /\ IsHeap(mcb', mem_tail', InsertAt(s, k + 1, split))
          /\ DOMAIN mcb' = DOMAIN mcb \cup {split} /\ mcb'[split].is_free
          /\ mcb'[h].size = size /\ ~ mcb'[h].is_free
          /\ \A a \in DOMAIN mcb \ {h} : /\ mcb'[a].is_free = mcb[a].is_free
                                         /\ mcb'[a].size = mcb[a].size
      <4>1. IsSplit(mcb, mem_tail, s, k, h, size, split, mcb')
        BY <1>1, <1>2, <2>2, <2>3, <3>1, <3>2, <3>3, HeapSplit
      <4> QED BY <3>2, <4>1 DEF IsSplit
    <3>5. Merged(mcb', InsertAt(s, k + 1, split))
      BY <1>1, <2>2, <2>3, <3>4, SplitMerged
    <3>6. HeapInv'
      BY <3>4, <3>5, NewList
    <3>7. OwnedOf(mcb') = OwnedOf(mcb) \cup {RangeAt(mcb', h)}
      BY <2>3, <3>4, OwnedTaken
    <3>8. owned' = owned \cup {[start |-> start_address(h), size |-> size]}
      BY <3>4, <3>7, OwnedIs DEF RangeAt
    <3>9. size \in size .. size + Overhead + 1 /\ size <= mcb[h].size
      BY <1>2, <2>3
    <3> QED BY <2>6, <3>6, <3>8, <3>9
  <2> QED BY <2>7, <2>8
<1> QED BY <1>3, <1>4
-----------------------------------------------------------------------------
(***************************************************************************)
(* free_memory.                                                            *)
(***************************************************************************)
(* When two free blocks become one, the new one has a free neighbour only  *)
(* where the first of the two had one in front of it.                      *)
LEMMA AbsorbedPairs ==
    ASSUME NEW M, NEW t, NEW s, IsHeap(M, t, s), NEW k \in 1 .. Len(s) - 1,
           NEW b, b = s[k], NEW m, m = s[k + 1], M[m].is_free,
           \A j \in 1 .. Len(s) - 1 : FreePair(M, s, j) => j \in {k - 1, k},
           NEW M2, IsAbsorbed(M, t, s, k, b, m, M2),
           NEW r, r = RemoveAt(s, k + 1)
    PROVE  \A j \in 1 .. Len(r) - 1 : FreePair(M2, r, j) => j = k - 1 /\ FreePair(M, s, j)
<1>1. PICK n \in Nat : n = Len(s)
  BY HeapFacts
<1>2. /\ s \in Seq(Addresses) /\ IsInjective(s) /\ k + 1 \in 1 .. n
      /\ k \in 1 .. n - 1 /\ \A j \in 1 .. n : s[j] \in DOMAIN M
      /\ \A j, i \in 1 .. n : s[j] = s[i] => j = i
  <2>1. s \in Seq(Addresses)
    BY DEF IsHeap
  <2>2. \A j, i \in 1 .. Len(s) : s[j] = s[i] => j = i
    BY HeapFacts
  <2>3. DOMAIN s = 1 .. Len(s) /\ \A j \in 1 .. Len(s) : s[j] \in DOMAIN M
    BY HeapFacts
  <2>4. IsInjective(s)
    BY <2>2, <2>3 DEF IsInjective
  <2>5. k \in 1 .. n - 1 /\ k + 1 \in 1 .. n
    BY <1>1
  <2> QED BY <1>1, <2>1, <2>2, <2>3, <2>4, <2>5
<1>3. /\ Len(r) = n - 1
      /\ \A j \in 1 .. n - 1 : /\ j < k + 1 => r[j] = s[j]
                               /\ j >= k + 1 => j + 1 \in 1 .. n /\ r[j] = s[j + 1]
  <2>1. Removed(s, k + 1, r)
    BY <1>1, <1>2, AtRemoved
  <2> QED BY <1>1, <2>1 DEF Removed
<1>4. \A j \in 1 .. n : j # k + 1 => M2[s[j]].is_free = M[s[j]].is_free
  <2>1. \A j \in 1 .. n : j # k + 1 => s[j] \in DOMAIN M \ {m}
    BY <1>2
  <2> QED BY <2>1 DEF IsAbsorbed
<1>5. ASSUME NEW j \in 1 .. n - 2, FreePair(M2, r, j)
      PROVE  j = k - 1 /\ FreePair(M, s, j)
  <2>0. j \in 1 .. n - 1 /\ j + 1 \in 1 .. n - 1 /\ (j + 1) + 1 \in 1 .. n
    BY <1>1
  <2>1. CASE j < k
    <3>1. /\ j < k + 1 /\ j + 1 < k + 1 /\ j # k + 1 /\ j + 1 # k + 1 /\ j # k
          /\ j \in 1 .. n /\ j + 1 \in 1 .. n
      BY <1>2, <2>0, <2>1
    <3>2. r[j] = s[j] /\ r[j + 1] = s[j + 1]
      BY <1>3, <2>0, <3>1
    <3>3. FreePair(M, s, j)
      BY <1>4, <1>5, <3>1, <3>2 DEF FreePair
    <3>4. j \in {k - 1, k}
      BY <1>1, <2>0, <3>3
    <3> QED BY <3>1, <3>3, <3>4
  <2>2. CASE j = k
    <3>1. j + 1 >= k + 1 /\ (k + 1) + 1 # k + 1 /\ (k + 1) + 1 \in 1 .. n
          /\ k + 1 \in 1 .. n - 1 /\ k + 1 \notin {k - 1, k}
      BY <1>2, <2>0, <2>2
    <3>2. r[j + 1] = s[(k + 1) + 1]
      BY <1>3, <2>0, <2>2, <3>1
    <3>3. FreePair(M, s, k + 1)
      BY <1>4, <1>5, <3>1, <3>2 DEF FreePair
    <3> QED BY <1>1, <3>1, <3>3
  <2>3. CASE j > k
    <3>1. /\ j >= k + 1 /\ j + 1 >= k + 1 /\ j + 1 # k + 1 /\ (j + 1) + 1 # k + 1
          /\ j + 1 \in 1 .. n /\ j + 1 \notin {k - 1, k}
      BY <1>2, <2>0, <2>3
    <3>2. r[j] = s[j + 1] /\ r[j + 1] = s[(j + 1) + 1]
      BY <1>3, <2>0, <3>1
    <3>3. FreePair(M, s, j + 1)
      BY <1>4, <1>5, <2>0, <3>1, <3>2 DEF FreePair
    <3> QED BY <1>1, <2>0, <3>1, <3>3
  <2> QED BY <1>2, <2>0, <2>1, <2>2, <2>3
<1>6. Len(r) - 1 = n - 2
  BY <1>1, <1>3
<1> QED BY <1>5, <1>6

(* Free blocks that become one were nobody's.                              *)
LEMMA AbsorbedOwned ==
    ASSUME NEW M, NEW t, NEW s, IsHeap(M, t, s), NEW k \in 1 .. Len(s) - 1,
           NEW b, b = s[k], NEW m, m = s[k + 1], M[b].is_free, M[m].is_free,
           NEW M2, IsAbsorbed(M, t, s, k, b, m, M2)
    PROVE  OwnedOf(M2) = OwnedOf(M)
<1>1. Len(s) \in Nat
  BY HeapFacts
<1>2. k \in 1 .. Len(s) /\ k + 1 \in 1 .. Len(s) /\ k # k + 1
  BY <1>1
<1>3. b \in DOMAIN M /\ m \in DOMAIN M /\ b # m
  BY <1>2, HeapFacts
<1>4. /\ DOMAIN M2 = DOMAIN M \ {m}
      /\ \A a \in DOMAIN M \ {m} : M2[a].is_free = M[a].is_free
      /\ \A a \in DOMAIN M \ {b, m} : M2[a].size = M[a].size
  BY DEF IsAbsorbed
<1>5. {a \in DOMAIN M2 : ~ M2[a].is_free} = {a \in DOMAIN M : ~ M[a].is_free}
  BY <1>3, <1>4
<1>6. \A a \in {x \in DOMAIN M : ~ M[x].is_free} : RangeAt(M2, a) = RangeAt(M, a)
  BY <1>4 DEF RangeAt
<1> QED BY <1>5, <1>6 DEF OwnedOf

(* The blocks M while block s[k] is being freed: it is, and its neighbours *)
(* may be free too; no other two are.                                      *)
FreedAt(M, t, s, k) ==
    /\ IsHeap(M, t, s) /\ k \in 1 .. Len(s) /\ M[s[k]].is_free
    /\ \A j \in 1 .. Len(s) - 1 : FreePair(M, s, j) => j \in {k - 1, k}

(* What the merge with the block behind b = s[k] leaves to do: at most the *)
(* block in front is still free.                                           *)
MergedForward(M, k, b, M2, t2, r) ==
    /\ FreedAt(M2, t2, r, k) /\ r[k] = b
    /\ \A j \in 1 .. Len(r) - 1 : FreePair(M2, r, j) => j = k - 1
    /\ M2[b].prev = M[b].prev
    /\ OwnedOf(M2) = OwnedOf(M)

LEMMA MergeNext ==
    ASSUME NEW M, NEW t, NEW s, NEW k, FreedAt(M, t, s, k), NEW b, b = s[k],
           NEW next, next = M[b].next,
           NEW M2, M2 = IF FreeAt(M, next) THEN Absorb(M, b, next) ELSE M,
           NEW t2, t2 = IF FreeAt(M, next) /\ M[next].next = NULL THEN b ELSE t
    PROVE  \E r : MergedForward(M, k, b, M2, t2, r)
<1>1. IsHeap(M, t, s) /\ k \in 1 .. Len(s) /\ M[b].is_free
  BY DEF FreedAt
<1>2. PICK n \in Nat : n = Len(s) /\ k \in 1 .. n
  BY <1>1, HeapFacts
<1>3. next = At(s, k + 1)
  BY <1>1 DEF IsHeap
<1>4. CASE ~ FreeAt(M, next)
  <2>1. M2 = M /\ t2 = t
    BY <1>4
  <2>2. ASSUME NEW j \in 1 .. n - 1, FreePair(M, s, j) PROVE j = k - 1
    <3>1. j # k
      <4>1. ASSUME j = k PROVE FALSE
        <5>1. k + 1 \in 1 .. n
          BY <1>2, <2>2, <4>1
        <5>2. next = s[k + 1] /\ next # NULL
          BY <1>1, <1>2, <1>3, <5>1, HeapFacts, SMTT(60) DEF At
        <5> QED BY <1>4, <2>2, <4>1, <5>2 DEF FreePair, FreeAt
      <4> QED BY <4>1
    <3> QED BY <1>2, <2>2, <3>1 DEF FreedAt
  <2> QED BY <1>2, <2>1, <2>2 DEF MergedForward
<1>5. CASE FreeAt(M, next)
  <2>1. k + 1 \in 1 .. n /\ k \in 1 .. n - 1 /\ next = s[k + 1] /\ M[next].is_free
    <3>1. next # NULL /\ M[next].is_free
      BY <1>5 DEF FreeAt
    <3>2. k + 1 \in 1 .. n /\ next = s[k + 1]
      BY <1>2, <1>3, <3>1 DEF At
    <3> QED BY <1>2, <3>1, <3>2
  <2>2. M2 = Absorb(M, b, next) /\ t2 = IF M[next].next = NULL THEN b ELSE t
    BY <1>5
  <2>3. IsAbsorbed(M, t, s, k, b, next, M2)
    BY <1>1, <1>2, <2>1, <2>2, HeapAbsorbed
  <2>4. PICK r : r = RemoveAt(s, k + 1)
    BY SMTT(60)
  <2>5. IsHeap(M2, t2, r)
    BY <2>2, <2>3, <2>4 DEF IsAbsorbed
  <2>6. \A j \in 1 .. Len(r) - 1 : FreePair(M2, r, j) => j = k - 1
    <3>1. \A j \in 1 .. Len(s) - 1 : FreePair(M, s, j) => j \in {k - 1, k}
      BY DEF FreedAt
    <3> QED BY <1>1, <1>2, <2>1, <2>3, <2>4, <3>1, AbsorbedPairs, SMTT(60)
  <2>7. /\ s \in Seq(Addresses) /\ IsInjective(s)
        /\ b \in DOMAIN M \ {next}
    <3>1. s \in Seq(Addresses)
      BY <1>1 DEF IsHeap
    <3>2. DOMAIN s = 1 .. Len(s) /\ \A j, i \in 1 .. Len(s) : s[j] = s[i] => j = i
      BY <1>1, HeapFacts
    <3>3. k # k + 1
      BY <1>2
    <3>4. b \in DOMAIN M /\ b # next
      <4>1. b \in DOMAIN M
        BY <1>1, HeapFacts
      <4> QED BY <1>2, <2>1, <3>2, <3>3, <4>1
    <3> QED BY <3>1, <3>2, <3>4 DEF IsInjective
  <2>8. Removed(s, k + 1, r)
    BY <1>2, <2>1, <2>4, <2>7, AtRemoved
  <2>9. Len(r) = n - 1 /\ r[k] = b /\ At(r, k - 1) = At(s, k - 1)
    <3>1. k < k + 1 /\ k - 1 < k + 1 /\ k - 1 \in 0 .. n
      BY <1>2
    <3> QED BY <1>2, <2>1, <2>8, <3>1 DEF Removed
  <2>10. k \in 1 .. Len(r)
    BY <2>1, <2>9
  <2>11. M2[b].is_free /\ M2[b].prev = M[b].prev
    <3>1. M2[b].is_free
      BY <1>1, <2>3, <2>7 DEF IsAbsorbed
    <3>2. M2[r[k]].prev = At(r, k - 1)
      BY <2>5, <2>10 DEF IsHeap
    <3>3. M[s[k]].prev = At(s, k - 1)
      BY <1>1, SMTT(60) DEF IsHeap
    <3> QED BY <2>9, <3>1, <3>2, <3>3, SMTT(60)
  <2>12. OwnedOf(M2) = OwnedOf(M)
    BY <1>1, <1>2, <2>1, <2>3, AbsorbedOwned
  <2>13. FreedAt(M2, t2, r, k)
    BY <2>5, <2>6, <2>9, <2>10, <2>11 DEF FreedAt
  <2> QED BY <2>6, <2>9, <2>11, <2>12, <2>13 DEF MergedForward
<1> QED BY <1>4, <1>5

(* The merge with the block in front leaves no two free blocks together.   *)
LEMMA MergePrev ==
    ASSUME NEW M, NEW t, NEW s, NEW k, FreedAt(M, t, s, k), NEW b, b = s[k],
           \A j \in 1 .. Len(s) - 1 : FreePair(M, s, j) => j = k - 1,
           NEW prev, prev = M[b].prev,
           NEW M2, M2 = IF FreeAt(M, prev) THEN Absorb(M, prev, b) ELSE M,
           NEW t2, t2 = IF FreeAt(M, prev) /\ M[b].next = NULL THEN prev ELSE t
    PROVE  \E r : IsHeap(M2, t2, r) /\ Merged(M2, r) /\ OwnedOf(M2) = OwnedOf(M)
<1>1. IsHeap(M, t, s) /\ k \in 1 .. Len(s) /\ M[b].is_free
  BY DEF FreedAt
<1>2. PICK n \in Nat : n = Len(s) /\ k \in 1 .. n
  BY <1>1, HeapFacts
<1>3. prev = At(s, k - 1)
  BY <1>1 DEF IsHeap
<1>4. CASE ~ FreeAt(M, prev)
  <2>1. M2 = M /\ t2 = t
    BY <1>4
  <2>2. Merged(M, s)
    <3> SUFFICES ASSUME NEW j \in 1 .. n - 1, FreePair(M, s, j) PROVE FALSE
      BY <1>2 DEF Merged
    <3>1. j = k - 1
      BY <1>2
    <3>2. j \in 1 .. n
      BY <1>2
    <3>3. prev = s[j] /\ prev # NULL
      <4>1. \A i \in 1 .. Len(s) : s[i] # NULL
        BY <1>1, HeapFacts
      <4> QED BY <1>2, <1>3, <3>1, <3>2, <4>1 DEF At
    <3> QED BY <1>4, <3>3 DEF FreePair, FreeAt
  <2> QED BY <1>1, <2>1, <2>2
<1>5. CASE FreeAt(M, prev)
  <2>1. prev # NULL /\ M[prev].is_free
    BY <1>5 DEF FreeAt
  <2>2. k - 1 \in 1 .. n /\ prev = s[k - 1]
    BY <1>2, <1>3, <2>1 DEF At
  <2>3. PICK i \in 1 .. n - 1 : i = k - 1 /\ i + 1 = k
    BY <1>2, <2>2
  <2>4. M2 = Absorb(M, prev, b) /\ t2 = IF M[b].next = NULL THEN prev ELSE t
    BY <1>5
  <2>5. IsAbsorbed(M, t, s, i, prev, b, M2)
    BY <1>1, <1>2, <2>2, <2>3, <2>4, HeapAbsorbed
  <2>6. PICK r : r = RemoveAt(s, i + 1)
    OBVIOUS
  <2>7. IsHeap(M2, t2, r)
    BY <2>4, <2>5, <2>6 DEF IsAbsorbed
  <2>8. Merged(M2, r)
    <3>1. \A j \in 1 .. Len(s) - 1 : FreePair(M, s, j) => j \in {i - 1, i}
      BY <2>3
    <3>2. \A j \in 1 .. Len(r) - 1 : FreePair(M2, r, j) => j = i - 1 /\ FreePair(M, s, j)
      BY <1>1, <1>2, <2>2, <2>3, <2>5, <2>6, <3>1, AbsorbedPairs, SMTT(60)
    <3> SUFFICES ASSUME NEW j \in 1 .. Len(r) - 1, FreePair(M2, r, j) PROVE FALSE
      BY DEF Merged
    <3>3. j = i - 1 /\ FreePair(M, s, j) /\ j >= 1
      BY <3>2
    <3>4. j \in 1 .. n - 1 /\ j # k - 1
      BY <1>2, <2>3, <3>3
    <3> QED BY <1>2, <3>3, <3>4
  <2>9. OwnedOf(M2) = OwnedOf(M)
    BY <1>1, <1>2, <2>1, <2>2, <2>3, <2>5, AbsorbedOwned
  <2> QED BY <2>7, <2>8, <2>9
<1> QED BY <1>4, <1>5

(* A range is given back, its block merged on both sides; what is not the  *)
(* start of an allocated range is refused.                                 *)
LEMMA FreeStep ==
    ASSUME HeapInv, NEW ptr \in 0 .. HeapSize, free_memory(ptr)
    PROVE  HeapInv' /\ Promise!Free(ptr)
<1>1. PICK s : s = List /\ IsHeap(mcb, mem_tail, s) /\ Merged(mcb, s)
  BY DEF HeapInv
<1>2. PICK b : b = ptr - Overhead
  OBVIOUS
<1>3. /\ Overhead \in Nat /\ ptr \in Nat
      /\ DOMAIN mcb \subseteq Nat /\ Range(s) = DOMAIN mcb
      /\ \A h \in DOMAIN mcb : \E k \in 1 .. Len(s) : h = s[k]
  <2>1. Overhead \in Nat /\ ptr \in Nat
    BY FirstBlockFits
  <2>2. \A k \in 1 .. Len(s) : s[k] \in Nat
    BY <1>1, HeapFacts
  <2>3. DOMAIN mcb = Range(s) /\ \A h \in DOMAIN mcb : \E k \in 1 .. Len(s) : h = s[k]
    BY <1>1, HeapFacts
  <2> QED BY <2>1, <2>2, <2>3
<1>4. start_address(b) = ptr
  BY <1>2, <1>3 DEF start_address
<1>5. CASE /\ b \in DOMAIN mcb => mcb[b].is_free
           /\ call' = <<ptr, -1>> /\ UNCHANGED <<mcb, mem_tail, allocated_list>>
  <2>1. HeapInv'
    BY <1>1, <1>5, NewList
  <2>2. owned' = owned
    BY <1>5, OwnedIs
  <2>3. ASSUME NEW c \in owned PROVE c.start # ptr
    <3>1. PICK h \in DOMAIN mcb : ~ mcb[h].is_free /\ c = RangeAt(mcb, h)
      BY OwnedIs DEF OwnedOf
    <3>2. c.start = h + Overhead /\ h \in Nat
      BY <1>3, <3>1 DEF RangeAt, start_address
    <3>3. h # b
      BY <1>5, <3>1
    <3> QED BY <1>2, <1>3, <3>2, <3>3
  <2> QED BY <1>5, <2>1, <2>2, <2>3 DEF Promise!Free
<1>6. CASE /\ b \in DOMAIN mcb /\ ~ mcb[b].is_free /\ ~ (call' = <<ptr, -1>>)
  <2>1. PICK k \in 1 .. Len(s) : b = s[k]
    BY <1>3, <1>6
  <2>2. PICK free \in BOOLEAN : free = TRUE
    OBVIOUS
  <2>3. PICK freed : freed = [mcb EXCEPT ![b].is_free = free]
    OBVIOUS
  <2>4. IsFlagged(mcb, mem_tail, s, b, free, freed)
    BY <1>1, <1>6, <2>3, HeapFlag
  <2>5. FreedAt(freed, mem_tail, s, k)
    <3>1. ASSUME NEW j \in 1 .. Len(s) - 1, FreePair(freed, s, j) PROVE j \in {k - 1, k}
      <4>1. PICK n \in Nat : n = Len(s) /\ k \in 1 .. n
        BY <1>1, HeapFacts
      <4>2. j \in 1 .. n - 1 /\ j \in 1 .. n /\ j + 1 \in 1 .. n
        BY <4>1
      <4> SUFFICES ASSUME j # k - 1, j # k PROVE FALSE
        OBVIOUS
      <4>3. j # k /\ j + 1 # k
        BY <4>1, <4>2
      <4>4. s[j] \in DOMAIN mcb \ {b} /\ s[j + 1] \in DOMAIN mcb \ {b}
        <5>1. \A i, l \in 1 .. n : s[i] = s[l] => i = l
          <6>1. \A i, l \in 1 .. Len(s) : s[i] = s[l] => i = l
            BY <1>1, HeapFacts
          <6> QED BY <4>1, <6>1
        <5>2. \A i \in 1 .. n : s[i] \in DOMAIN mcb
          BY <1>1, <4>1, HeapFacts
        <5> QED BY <2>1, <4>1, <4>2, <4>3, <5>1, <5>2
      <4>5. FreePair(mcb, s, j)
        BY <2>4, <3>1, <4>4 DEF FreePair, IsFlagged
      <4> QED BY <1>1, <4>5 DEF Merged
    <3>2. IsHeap(freed, mem_tail, s) /\ freed[s[k]].is_free
      BY <2>1, <2>2, <2>4 DEF IsFlagged
    <3> QED BY <3>1, <3>2 DEF FreedAt
  <2>6. OwnedOf(freed) = OwnedOf(mcb) \ {RangeAt(mcb, b)}
    <3>1. DOMAIN freed = DOMAIN mcb /\ freed[b].is_free
          /\ \A a \in DOMAIN mcb \ {b} : freed[a] = mcb[a]
      BY <2>2, <2>4 DEF IsFlagged
    <3> QED BY <1>3, <1>6, <3>1, OwnedFreed, SMTT(60)
  <2>7. PICK next, prev : next = freed[b].next /\ prev = freed[b].prev
    OBVIOUS
  <2>8. PICK merged, tail :
           /\ merged = IF FreeAt(freed, next) THEN Absorb(freed, b, next) ELSE freed
           /\ tail = IF FreeAt(freed, next) /\ freed[next].next = NULL THEN b ELSE mem_tail
    OBVIOUS
  <2>9. PICK r : MergedForward(freed, k, b, merged, tail, r)
    BY <2>1, <2>5, <2>7, <2>8, MergeNext
  <2>10. /\ mcb' = IF FreeAt(merged, prev) THEN Absorb(merged, prev, b) ELSE merged
         /\ mem_tail' = IF FreeAt(merged, prev) /\ merged[b].next = NULL THEN prev ELSE tail
         /\ call' = <<ptr, 0>>
    <3>1. freed = [mcb EXCEPT ![b].is_free = TRUE]
      BY <2>2, <2>3
    <3> QED BY <1>1, <1>2, <1>6, <2>7, <2>8, <3>1 DEF free_memory
  <2>11. /\ FreedAt(merged, tail, r, k) /\ b = r[k] /\ prev = merged[b].prev
         /\ \A j \in 1 .. Len(r) - 1 : FreePair(merged, r, j) => j = k - 1
         /\ OwnedOf(merged) = OwnedOf(freed)
    BY <2>7, <2>9 DEF MergedForward
  <2>12. PICK q : IsHeap(mcb', mem_tail', q) /\ Merged(mcb', q) /\ OwnedOf(mcb') = OwnedOf(merged)
    BY <2>10, <2>11, MergePrev
  <2>13. HeapInv'
    BY <2>12, NewList
  <2>14. owned' = owned \ {RangeAt(mcb, b)}
    BY <2>6, <2>11, <2>12, OwnedIs
  <2>15. RangeAt(mcb, b) \in owned /\ RangeAt(mcb, b).start = ptr
    BY <1>4, <1>6, OwnedIs DEF OwnedOf, RangeAt
  <2> QED BY <2>10, <2>13, <2>14, <2>15 DEF Promise!Free
<1> QED BY <1>1, <1>2, <1>3, <1>5, <1>6 DEF free_memory
-----------------------------------------------------------------------------
(***************************************************************************)
(* The theorems.                                                           *)
(***************************************************************************)
(* Every step keeps the invariant and is a step of the promise.            *)
LEMMA HeapNext == HeapInv /\ [Next]_vars => HeapInv' /\ [Promise!Next]_<<owned, call>>
<1> SUFFICES ASSUME HeapInv, [Next]_vars
             PROVE  HeapInv' /\ [Promise!Next]_<<owned, call>>
  OBVIOUS
<1>1. ASSUME NEW size \in Sizes, allocate_memory(size)
      PROVE  HeapInv' /\ [Promise!Next]_<<owned, call>>
  BY <1>1, AllocateStep DEF Promise!Next
<1>2. ASSUME NEW ptr \in 0 .. HeapSize, free_memory(ptr)
      PROVE  HeapInv' /\ [Promise!Next]_<<owned, call>>
  BY <1>2, FreeStep DEF Promise!Next
<1>3. CASE UNCHANGED vars
  <2>1. mcb' = mcb /\ mem_tail' = mem_tail /\ call' = call
    BY <1>3 DEF vars
  <2>2. PICK s : IsHeap(mcb, mem_tail, s) /\ Merged(mcb, s)
    BY DEF HeapInv
  <2>3. HeapInv'
    BY <2>1, <2>2, NewList
  <2>4. owned' = owned
    BY <2>1, OwnedIs, SMTT(60)
  <2> QED BY <2>1, <2>3, <2>4
<1> QED BY <1>1, <1>2, <1>3 DEF Next

(* What is so of a heap is so of the list that is read off it.             *)
LEMMA HeapInvTiled == HeapInv => Tiled
<1> SUFFICES ASSUME HeapInv PROVE Tiled
  OBVIOUS
<1>1. PICK s : s = List /\ IsHeap(mcb, mem_tail, s)
  BY DEF HeapInv
<1>2. DOMAIN s = 1 .. Len(s) /\ DOMAIN mcb = Range(s) /\ Len(s) \in Nat
  BY <1>1, HeapFacts
<1>3. mem_tail = Last(s)
  BY <1>1 DEF IsHeap, Last
<1>4. ASSUME NEW k \in 1 .. Len(s)
      PROVE  /\ mcb[s[k]].prev = IF k = 1 THEN NULL ELSE s[k - 1]
             /\ start_address(s[k]) + mcb[s[k]].size
                   = IF k = Len(s) THEN HeapSize ELSE s[k + 1]
  <2>1. mcb[s[k]].prev = At(s, k - 1)
    BY <1>1 DEF IsHeap
  <2>2. At(s, k - 1) = IF k = 1 THEN NULL ELSE s[k - 1]
    BY <1>2 DEF At
  <2>3. End(mcb, s[k]) = IF k = Len(s) THEN HeapSize ELSE s[k + 1]
    BY <1>1 DEF IsHeap
  <2>4. End(mcb, s[k]) = start_address(s[k]) + mcb[s[k]].size
    BY DEF End, start_address
  <2> QED BY <2>1, <2>2, <2>3, <2>4
<1> QED BY <1>1, <1>2, <1>3, <1>4, ZenonT(60) DEF Tiled

(* The invariant holds throughout.                                         *)
LEMMA HeapInvariant == Spec => []HeapInv
<1>1. initialize_heap => HeapInv
  BY HeapInit
<1>2. HeapInv /\ [Next]_vars => HeapInv'
  BY HeapNext
<1> QED BY <1>1, <1>2, PTL DEF Spec

(* The blocks tile the heap at all times: splits and merges, in any order, *)
(* neither lose nor double a byte, and prev, next and mem_tail agree.      *)
THEOREM TiledCorrect == Spec => []Tiled
BY HeapInvariant, HeapInvTiled, PTL

(* There are never two free blocks side by side.                           *)
THEOREM CoalescedCorrect == Spec => []Coalesced
<1>1. HeapInv => Coalesced
  BY DEF HeapInv, Merged, FreePair, Coalesced
<1> QED BY <1>1, HeapInvariant, PTL

(* The list of control blocks implements the heap that include/mcb.h       *)
(* promises: no two callers share a byte, and a request fails only if no   *)
(* gap could hold it.                                                      *)
THEOREM HeapImplemented == Spec => ImplementsHeap
<1>1. initialize_heap => Promise!Init
  BY HeapInit
<1>2. HeapInv /\ [Next]_vars => [Promise!Next]_<<owned, call>>
  BY HeapNext
<1> QED BY <1>1, <1>2, HeapInvariant, PTL DEF Spec, ImplementsHeap, Promise!Spec
=============================================================================
