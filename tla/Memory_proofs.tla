---------------------------- MODULE Memory_proofs ----------------------------
(***************************************************************************)
(* Proofs about the line editor, for any number of blocks, lines and       *)
(* processes and buffers and a history of any size: what the terminal      *)
(* shows of the buffer, who owns which block of the heap, and that bytes,  *)
(* blocks and slots give the user what LineInput promises.                 *)
(***************************************************************************)
EXTENDS LineEditor, Lists_proofs, SequenceTheorems, FiniteSetTheorems, TLAPS

Owners == {"free", "history", "process"}

(* The parts of the memory that ownership is about. *)
IsMem(M) ==
    /\ M = [owner |-> M.owner, text |-> M.text, com_hist |-> M.com_hist,
            size |-> M.size, index |-> M.index]
    /\ M.owner \in [Blocks -> Owners]
    /\ M.com_hist \in [Slots -> Blocks \cup {NULL, Wild}]
    /\ M.size \in Slots
    /\ M.index \in 0 .. M.size

(* The history's lines are its own, each in its own block. *)
LinesOwned(M) ==
    /\ \A k \in 1 .. M.size : /\ M.com_hist[k] \in Blocks
                              /\ M.owner[M.com_hist[k]] = "history"
    /\ \A j, k \in 1 .. M.size : M.com_hist[j] = M.com_hist[k] => j = k

(* Slot 0 has a block of its own or one that is free; without a step back  *)
(* it has none, unless no line was ever entered.                           *)
DraftOwned(M) ==
    M.com_hist[0] \in Blocks =>
       /\ M.owner[M.com_hist[0]] \in {"free", "history"}
       /\ \A k \in 1 .. M.size : M.com_hist[k] # M.com_hist[0]
       /\ M.size > 0 /\ M.index = 0 => M.owner[M.com_hist[0]] = "free"

(* Each of the processes P has its two blocks for itself. *)
ProcsOwned(M, P) ==
    /\ P \subseteq [pcb : Blocks, stack : Blocks]
    /\ \A p \in P : /\ p.pcb # p.stack
                    /\ M.owner[p.pcb] = "process" /\ M.owner[p.stack] = "process"
    /\ \A p, q \in P : p # q => {p.pcb, p.stack} \cap {q.pcb, q.stack} = {}

Owned(M, P) == IsMem(M) /\ LinesOwned(M) /\ DraftOwned(M) /\ ProcsOwned(M, P)

(* What is lost in M when the processes are P. *)
LostIn(M, P) ==
    {a \in Blocks : /\ M.owner[a] # "free"
                    /\ \A k \in 0 .. M.size : a # M.com_hist[k]
                    /\ \A p \in P : a # p.pcb /\ a # p.stack}

-----------------------------------------------------------------------------
(***************************************************************************)
(* The operations, field by field.                                         *)
(***************************************************************************)
(* Slot 0 and the slots of the lines are slots.                            *)
LEMMA SlotFacts ==
    /\ hist_max_size \in Nat \ {0} /\ 0 \in Slots /\ 1 \in Slots
    /\ \A n \in Slots : n \in Nat /\ n <= hist_max_size /\ 0 .. n \subseteq Slots
BY HistoryHasRoom DEF Slots

(* Freeing a block changes its owner, and freeing anything else nothing.   *)
LEMMA FreeFields ==
    ASSUME NEW M, IsMem(M), NEW ptr, NEW N, N = sys_free_mem(M, ptr)
    PROVE  /\ IsMem(N) /\ N.com_hist = M.com_hist
           /\ N.size = M.size /\ N.index = M.index
           /\ N.owner = IF ptr \in Blocks THEN [M.owner EXCEPT ![ptr] = "free"]
                        ELSE M.owner
<1>1. CASE ptr \in Blocks
  <2>1. N = [owner |-> [M.owner EXCEPT ![ptr] = "free"],
             text |-> M.text, com_hist |-> M.com_hist,
             size |-> M.size, index |-> M.index]
    BY <1>1 DEF sys_free_mem, IsMem
  <2>2. [M.owner EXCEPT ![ptr] = "free"] \in [Blocks -> Owners]
    BY DEF IsMem, Owners
  <2> QED BY <1>1, <2>1, <2>2 DEF IsMem
<1>2. CASE ptr \notin Blocks
  BY <1>2 DEF sys_free_mem
<1> QED BY <1>1, <1>2

(* The same of a block, block by block.                                    *)
LEMMA BlockFreed ==
    ASSUME NEW M, IsMem(M), NEW d \in Blocks, NEW N, N = sys_free_mem(M, d)
    PROVE  /\ IsMem(N) /\ N.com_hist = M.com_hist
           /\ N.size = M.size /\ N.index = M.index
           /\ \A a \in Blocks : N.owner[a] = IF a = d THEN "free" ELSE M.owner[a]
<1>1. /\ IsMem(N) /\ N.com_hist = M.com_hist
      /\ N.size = M.size /\ N.index = M.index
      /\ N.owner = [M.owner EXCEPT ![d] = "free"]
  BY FreeFields
<1> QED BY <1>1 DEF IsMem

(* The texts that taking block a for a text leaves. *)
TextsWith(M, a, text) ==
    [b \in Blocks |-> IF b = a THEN text
                      ELSE IF M.owner[b] = "free" THEN NULL ELSE M.text[b]]

(* Taking a block gives it its owner.                                      *)
LEMMA TakenFields ==
    ASSUME NEW M, IsMem(M), NEW a \in Blocks, NEW who \in Owners, NEW text,
           NEW N, N = Taken(M, a, who, text)
    PROVE  /\ IsMem(N) /\ N.com_hist = M.com_hist
           /\ N.size = M.size /\ N.index = M.index
           /\ N.owner = [M.owner EXCEPT ![a] = who]
<1>1. N = [owner |-> [M.owner EXCEPT ![a] = who],
           text |-> TextsWith(M, a, text), com_hist |-> M.com_hist,
           size |-> M.size, index |-> M.index]
  BY DEF Taken, IsMem, TextsWith
<1>2. [M.owner EXCEPT ![a] = who] \in [Blocks -> Owners]
  BY DEF IsMem
<1> QED BY <1>1, <1>2 DEF IsMem

(* N is M with a line stored in a and slot k pointing there. *)
Stored(M, k, a, N) ==
    /\ M.owner[a] = "free"
    /\ N.owner = [M.owner EXCEPT ![a] = "history"]
    /\ N.com_hist = [M.com_hist EXCEPT ![k] = a]

(* A line is stored in a block that was free.                              *)
LEMMA SetFields ==
    ASSUME NEW M, IsMem(M), NEW k \in Slots, NEW command,
           NEW N \in hist_set(M, k, command)
    PROVE  /\ IsMem(N) /\ N.size = M.size /\ N.index = M.index
           /\ \E a \in Blocks : Stored(M, k, a, N)
<1>1. PICK a \in Blocks : /\ M.owner[a] = "free"
                          /\ N = [Taken(M, a, "history", command) EXCEPT !.com_hist[k] = a]
  BY DEF hist_set, Room
<1> DEFINE T == Taken(M, a, "history", command)
<1>2. /\ IsMem(T) /\ T.com_hist = M.com_hist
      /\ T.size = M.size /\ T.index = M.index
      /\ T.owner = [M.owner EXCEPT ![a] = "history"]
  <2>1. "history" \in Owners /\ T = T
    BY DEF Owners
  <2> HIDE DEF T
  <2> QED BY <2>1, TakenFields DEF T
<1>3. N = [T EXCEPT !.com_hist[k] = a]
  BY <1>1
<1> HIDE DEF T
<1>4. N = [owner |-> T.owner, text |-> T.text, com_hist |-> [T.com_hist EXCEPT ![k] = a],
           size |-> T.size, index |-> T.index]
  BY <1>2, <1>3 DEF IsMem
<1>5. [T.com_hist EXCEPT ![k] = a] \in [Slots -> Blocks \cup {NULL, Wild}]
  BY <1>2 DEF IsMem
<1>6. /\ N.owner = [M.owner EXCEPT ![a] = "history"] /\ N.size = M.size
      /\ N.index = M.index /\ N.com_hist = [M.com_hist EXCEPT ![k] = a]
  BY <1>2, <1>4
<1>7. IsMem(N)
  BY <1>2, <1>4, <1>5 DEF IsMem
<1> QED BY <1>1, <1>6, <1>7 DEF Stored
-----------------------------------------------------------------------------
(***************************************************************************)
(* What each operation does to ownership.                                  *)
(***************************************************************************)
(* Another index is harmless where slot 0 has no block that is in use.     *)
LEMMA IndexOwned ==
    ASSUME NEW M, NEW P, Owned(M, P), NEW k \in 0 .. M.size,
           \/ k # 0
           \/ M.com_hist[0] \in Blocks => M.owner[M.com_hist[0]] = "free",
           NEW N, N = [M EXCEPT !.index = k]
    PROVE  Owned(N, P) /\ LostIn(N, P) = LostIn(M, P)
<1>1. N = [owner |-> M.owner, text |-> M.text, com_hist |-> M.com_hist,
           size |-> M.size, index |-> k]
  BY DEF Owned, IsMem
<1>2. /\ N.owner = M.owner /\ N.com_hist = M.com_hist /\ N.size = M.size
      /\ N.index = k
  BY <1>1
<1>3. IsMem(N)
  BY <1>1 DEF Owned, IsMem
<1>4. LinesOwned(N) /\ ProcsOwned(N, P)
  BY <1>2 DEF Owned, LinesOwned, ProcsOwned
<1>5. DraftOwned(N)
  BY <1>2 DEF Owned, DraftOwned
<1> QED BY <1>2, <1>3, <1>4, <1>5 DEF Owned, LostIn

(* Slot 0 can be freed again and again: it hits nobody else's block.       *)
LEMMA DraftFreed ==
    ASSUME NEW M, NEW P, Owned(M, P), NEW N, N = sys_free_mem(M, M.com_hist[0])
    PROVE  /\ Owned(N, P) /\ LostIn(N, P) \subseteq LostIn(M, P)
           /\ N.com_hist = M.com_hist /\ N.size = M.size /\ N.index = M.index
           /\ N.com_hist[0] \in Blocks => N.owner[N.com_hist[0]] = "free"
<1> DEFINE d == M.com_hist[0]
<1>1. /\ IsMem(N) /\ N.com_hist = M.com_hist
      /\ N.size = M.size /\ N.index = M.index
      /\ N.owner = IF d \in Blocks THEN [M.owner EXCEPT ![d] = "free"] ELSE M.owner
  BY FreeFields DEF Owned
<1>2. /\ M.owner \in [Blocks -> Owners] /\ M.size \in Nat
      /\ d \in Blocks => M.owner[d] # "process"
      /\ d \in Blocks => \A k \in 1 .. M.size : M.com_hist[k] # d
  BY SlotFacts DEF Owned, IsMem, DraftOwned
<1> HIDE DEF d
<1>3. \A a \in Blocks : N.owner[a] = IF a = d THEN "free" ELSE M.owner[a]
  BY <1>1, <1>2
<1>4. LinesOwned(N)
  BY <1>1, <1>2, <1>3 DEF Owned, LinesOwned
<1>5. ProcsOwned(N, P)
  <2>1. P \subseteq [pcb : Blocks, stack : Blocks]
    BY DEF Owned, ProcsOwned
  <2>2. \A p \in P : p.pcb \in Blocks /\ p.stack \in Blocks
    BY <2>1
  <2> QED BY <1>2, <1>3, <2>2 DEF Owned, ProcsOwned
<1>6. DraftOwned(N)
  BY <1>1, <1>2, <1>3 DEF DraftOwned, d
<1>7. LostIn(N, P) \subseteq LostIn(M, P)
  BY <1>1, <1>2, <1>3 DEF LostIn
<1> QED BY <1>1, <1>3, <1>4, <1>5, <1>6, <1>7 DEF Owned, d

(* The line that is entered gets a block of its own; the oldest one gives  *)
(* its block back when the history is full, and slot 0 is cleared.         *)
LEMMA LineAdded ==
    ASSUME NEW M, NEW P, Owned(M, P), NEW command, NEW N \in hist_add(M, command),
           M.com_hist[0] \in Blocks => M.owner[M.com_hist[0]] = "free"
    PROVE  /\ Owned(N, P) /\ LostIn(N, P) \subseteq LostIn(M, P)
           /\ N.com_hist[0] = NULL
<1> DEFINE grown == IF M.size < hist_max_size THEN [M EXCEPT !.size = @ + 1]
                    ELSE sys_free_mem(M, M.com_hist[M.size])
<1> DEFINE slots == [k \in Slots |-> IF k \in 2 .. grown.size THEN M.com_hist[k - 1]
                                     ELSE M.com_hist[k]]
<1> DEFINE shifted == [grown EXCEPT !.com_hist = slots]
<1> DEFINE n == M.size
<1>1. /\ IsMem(M) /\ n \in Nat /\ n <= hist_max_size /\ M.index \in 0 .. n
      /\ M.owner \in [Blocks -> Owners]
      /\ M.com_hist \in [Slots -> Blocks \cup {NULL, Wild}]
  BY SlotFacts DEF Owned, IsMem
<1>2. /\ IsMem(grown) /\ grown.com_hist = M.com_hist /\ grown.index = M.index
      /\ \/ grown.size = n + 1 /\ n < hist_max_size /\ grown.owner = M.owner
         \/ /\ grown.size = n /\ n = hist_max_size /\ M.com_hist[n] \in Blocks
            /\ grown.owner = [M.owner EXCEPT ![M.com_hist[n]] = "free"]
  <2>1. CASE n < hist_max_size
    <3>1. grown = [owner |-> M.owner, text |-> M.text, com_hist |-> M.com_hist,
                   size |-> n + 1, index |-> M.index]
      BY <1>1, <2>1 DEF IsMem
    <3>2. n + 1 \in Slots /\ M.index \in 0 .. n + 1
      BY <1>1, <2>1, SlotFacts DEF Slots
    <3>3. /\ grown.owner = M.owner /\ grown.com_hist = M.com_hist
          /\ grown.index = M.index /\ grown.size = n + 1
      BY <3>1
    <3>4. IsMem(grown)
      BY <1>1, <3>1, <3>2, <3>3 DEF IsMem
    <3> QED BY <2>1, <3>3, <3>4
  <2>2. CASE ~ (n < hist_max_size)
    <3>1. n = hist_max_size /\ n \in 1 .. n
      BY <1>1, <2>2, SlotFacts
    <3>2. M.com_hist[n] \in Blocks
      BY <3>1 DEF Owned, LinesOwned
    <3>3. grown = sys_free_mem(M, M.com_hist[n])
      BY <2>2
    <3> HIDE DEF grown, n
    <3> QED BY <1>1, <3>1, <3>2, <3>3, FreeFields DEF n
  <2> QED BY <2>1, <2>2
<1>3. grown.size \in 1 .. hist_max_size /\ hist_max_size \in Nat
  BY <1>1, <1>2, SlotFacts, SMTT(60)
<1>4. N \in {[new EXCEPT !.com_hist[0] = NULL] : new \in hist_set(shifted, 1, command)}
  <2>1. shifted = Shifted(M)
    BY <1>2 DEF Shifted
  <2> HIDE DEF shifted
  <2> QED BY <2>1, SMTT(60) DEF hist_add
<1> HIDE DEF grown
<1>5. /\ slots \in [Slots -> Blocks \cup {NULL, Wild}]
      /\ \A k \in 2 .. grown.size : slots[k] = M.com_hist[k - 1]
  <2>1. \A k \in 2 .. grown.size : k \in Slots /\ k - 1 \in Slots
    BY <1>3, SlotFacts DEF Slots
  <2> QED BY <1>1, <2>1
<1> HIDE DEF slots
<1>6. /\ IsMem(shifted) /\ shifted.owner = grown.owner /\ shifted.com_hist = slots
      /\ shifted.size = grown.size /\ shifted.index = grown.index
  <2>1. shifted = [owner |-> grown.owner, text |-> grown.text, com_hist |-> slots,
                   size |-> grown.size, index |-> grown.index]
    BY <1>2 DEF IsMem
  <2>2. /\ shifted.owner = grown.owner /\ shifted.com_hist = slots
        /\ shifted.size = grown.size /\ shifted.index = grown.index
    BY <2>1
  <2> QED BY <1>2, <1>5, <2>1, <2>2 DEF IsMem
<1> HIDE DEF shifted
<1>7. PICK new \in hist_set(shifted, 1, command) : N = [new EXCEPT !.com_hist[0] = NULL]
  BY <1>4
<1>8. /\ IsMem(new) /\ new.size = grown.size /\ new.index = M.index
      /\ \E a \in Blocks : /\ grown.owner[a] = "free"
                           /\ new.owner = [grown.owner EXCEPT ![a] = "history"]
                           /\ new.com_hist = [slots EXCEPT ![1] = a]
  <2>1. 1 \in Slots
    BY SlotFacts
  <2>2. /\ IsMem(new) /\ new.size = shifted.size /\ new.index = shifted.index
        /\ \E a \in Blocks : Stored(shifted, 1, a, new)
    BY <1>6, <1>7, <2>1, SetFields
  <2> QED BY <1>2, <1>6, <2>2 DEF Stored
<1>9. PICK a \in Blocks : /\ grown.owner[a] = "free"
                          /\ new.owner = [grown.owner EXCEPT ![a] = "history"]
                          /\ new.com_hist = [slots EXCEPT ![1] = a]
  BY <1>8
<1>10. /\ IsMem(N) /\ N.size = grown.size /\ N.index = M.index
       /\ N.owner = [grown.owner EXCEPT ![a] = "history"]
       /\ N.com_hist = [[slots EXCEPT ![1] = a] EXCEPT ![0] = NULL]
  <2>1. N = [owner |-> new.owner, text |-> new.text,
             com_hist |-> [new.com_hist EXCEPT ![0] = NULL],
             size |-> new.size, index |-> new.index]
    BY <1>7, <1>8 DEF IsMem
  <2>2. /\ N.owner = new.owner /\ N.size = new.size /\ N.index = new.index
        /\ N.com_hist = [new.com_hist EXCEPT ![0] = NULL]
    BY <2>1
  <2>3. N.com_hist \in [Slots -> Blocks \cup {NULL, Wild}]
    BY <1>8, <2>2 DEF IsMem
  <2>4. IsMem(N)
    BY <1>8, <2>1, <2>2, <2>3 DEF IsMem
  <2> QED BY <1>8, <1>9, <2>2, <2>4
<1>11. /\ N.com_hist[0] = NULL /\ N.com_hist[1] = a
       /\ \A k \in 2 .. N.size : N.com_hist[k] = M.com_hist[k - 1] /\ k - 1 \in 1 .. n
  <2>1. N.com_hist[0] = NULL /\ N.com_hist[1] = a
    BY <1>5, <1>10, SlotFacts
  <2>2. ASSUME NEW k \in 2 .. N.size
        PROVE  N.com_hist[k] = M.com_hist[k - 1] /\ k - 1 \in 1 .. n
    <3>1. k \in Slots /\ k # 0 /\ k # 1 /\ k - 1 \in 1 .. n
      BY <1>1, <1>2, <1>3, <1>10, SMTT(60) DEF Slots
    <3> QED BY <1>5, <1>10, <3>1
  <2> QED BY <2>1, <2>2
<1>12. \A k \in 2 .. N.size : N.com_hist[k] \in Blocks /\ grown.owner[N.com_hist[k]] = "history"
  <2>1. ASSUME NEW k \in 2 .. N.size
        PROVE  N.com_hist[k] \in Blocks /\ grown.owner[N.com_hist[k]] = "history"
    <3>1. N.com_hist[k] = M.com_hist[k - 1] /\ k - 1 \in 1 .. n
      BY <1>11
    <3>2. M.com_hist[k - 1] \in Blocks /\ M.owner[M.com_hist[k - 1]] = "history"
      BY <3>1 DEF Owned, LinesOwned
    <3>3. CASE grown.owner = M.owner
      BY <3>1, <3>2, <3>3
    <3>4. CASE /\ grown.size = n /\ M.com_hist[n] \in Blocks
               /\ grown.owner = [M.owner EXCEPT ![M.com_hist[n]] = "free"]
      <4>1. k - 1 # n /\ n \in 1 .. n
        BY <1>1, <1>10, <3>1, <3>4
      <4>2. M.com_hist[k - 1] # M.com_hist[n]
        BY <3>1, <4>1 DEF Owned, LinesOwned
      <4> QED BY <1>1, <3>1, <3>2, <3>4, <4>2
    <3> QED BY <1>2, <3>3, <3>4
  <2> QED BY <2>1
<1>13. LinesOwned(N)
  <2>0. N.size \in Nat /\ \A k \in 1 .. N.size : k = 1 \/ k \in 2 .. N.size
    BY <1>3, <1>10
  <2>1. N.owner[a] = "history" /\ \A b \in Blocks : b # a => N.owner[b] = grown.owner[b]
    BY <1>2, <1>10 DEF IsMem
  <2>2. \A k \in 2 .. N.size : N.com_hist[k] # a
    BY <1>9, <1>12
  <2>3. \A k \in 1 .. N.size : N.com_hist[k] \in Blocks /\ N.owner[N.com_hist[k]] = "history"
    BY <1>11, <1>12, <2>0, <2>1, <2>2
  <2>4. ASSUME NEW j \in 2 .. N.size, NEW k \in 2 .. N.size, N.com_hist[j] = N.com_hist[k]
        PROVE  j = k
    <3>1. j - 1 \in 1 .. n /\ k - 1 \in 1 .. n /\ M.com_hist[j - 1] = M.com_hist[k - 1]
      BY <1>11, <2>4
    <3>2. j - 1 = k - 1
      BY <3>1 DEF Owned, LinesOwned
    <3> QED BY <2>0, <3>2
  <2>5. \A j, k \in 1 .. N.size : N.com_hist[j] = N.com_hist[k] => j = k
    BY <1>11, <2>0, <2>2, <2>4
  <2> QED BY <2>3, <2>5 DEF LinesOwned
<1>14. \A b \in Blocks : N.owner[b] # M.owner[b] =>
          /\ M.owner[b] # "process"
          /\ N.owner[b] # "process"
  BY <1>1, <1>2, <1>9, <1>10, SlotFacts DEF Owned, LinesOwned
<1>15. ProcsOwned(N, P)
  <2>1. \A p \in P : p.pcb \in Blocks /\ p.stack \in Blocks
    BY DEF Owned, ProcsOwned
  <2> QED BY <1>14, <2>1 DEF Owned, ProcsOwned
<1>16. DraftOwned(N)
  BY <1>11, NullIsNoBlock DEF DraftOwned
<1>17. ASSUME NEW b \in LostIn(N, P) PROVE b \in LostIn(M, P)
  <2>1. b \in Blocks /\ N.owner[b] # "free" /\ \A k \in 0 .. N.size : b # N.com_hist[k]
    BY DEF LostIn
  <2>2. N.size \in Nat /\ 1 \in 0 .. N.size
    BY <1>3, <1>10
  <2>3. b # a
    BY <1>11, <2>1, <2>2
  <2>4. grown.owner[b] # "free"
    BY <1>2, <1>10, <2>1, <2>3 DEF IsMem
  <2>5. M.owner[b] # "free" /\ (grown.size = n => b # M.com_hist[n])
    BY <1>1, <1>2, <2>1, <2>4
  <2>6. b # M.com_hist[0]
    BY <2>1, <2>5
  <2>7. ASSUME NEW k \in 1 .. n PROVE b # M.com_hist[k]
    <3>1. CASE k = n /\ grown.size = n
      BY <2>5, <3>1
    <3>2. CASE ~ (k = n /\ grown.size = n)
      <4>1. k + 1 \in 2 .. N.size /\ k + 1 \in 0 .. N.size /\ (k + 1) - 1 = k
        BY <1>1, <1>2, <1>10, <3>2
      <4> QED BY <1>11, <2>1, <4>1
    <3> QED BY <3>1, <3>2
  <2>8. \A k \in 0 .. n : b # M.com_hist[k]
    BY <1>1, <2>6, <2>7
  <2> QED BY <2>1, <2>5, <2>8 DEF LostIn
<1> QED BY <1>10, <1>11, <1>13, <1>15, <1>16, <1>17 DEF Owned

(* What may be lost between M and what it becomes by a step. *)
MayLose(M, P, up) == LostIn(M, P) \cup IF M.size = 0 /\ up THEN {M.com_hist[0]} ELSE {}

(* Up at the line that is being edited stores it; what slot 0 had before   *)
(* is lost only if no line was ever entered.                               *)
LEMMA DraftStored ==
    ASSUME NEW M, NEW P, Owned(M, P), M.index = 0, NEW command,
           NEW S \in hist_set(M, 0, command), NEW N, N = hist_next(S)
    PROVE  Owned(N, P) /\ LostIn(N, P) \subseteq MayLose(M, P, TRUE)
<1> DEFINE d == M.com_hist[0]
<1>1. /\ IsMem(M) /\ M.size \in Nat /\ M.owner \in [Blocks -> Owners]
      /\ M.com_hist \in [Slots -> Blocks \cup {NULL, Wild}]
      /\ 0 \in Slots /\ 0 .. M.size \subseteq Slots
  BY SlotFacts DEF Owned, IsMem
<1>2. /\ IsMem(S) /\ S.size = M.size /\ S.index = 0
      /\ \E a \in Blocks : Stored(M, 0, a, S)
  BY <1>1, SetFields
<1>3. PICK a \in Blocks : /\ M.owner[a] = "free"
                          /\ S.owner = [M.owner EXCEPT ![a] = "history"]
                          /\ S.com_hist = [M.com_hist EXCEPT ![0] = a]
  BY <1>2 DEF Stored
<1> DEFINE k == IF 0 < S.size THEN 1 ELSE 0
<1>4. k \in 0 .. M.size /\ (M.size > 0 => k # 0)
  BY <1>1, <1>2
<1>5. N = [owner |-> S.owner, text |-> S.text, com_hist |-> S.com_hist,
           size |-> S.size, index |-> k]
  BY <1>2 DEF hist_next, IsMem
<1> HIDE DEF k
<1>6. /\ N.owner = S.owner /\ N.com_hist = S.com_hist /\ N.size = M.size
      /\ N.index = k
  BY <1>2, <1>5
<1>7. IsMem(N)
  BY <1>2, <1>4, <1>5, <1>6 DEF IsMem
<1>8. \A b \in Blocks : N.owner[b] = IF b = a THEN "history" ELSE M.owner[b]
  BY <1>1, <1>3, <1>6
<1>9. N.com_hist[0] = a /\ \A j \in 1 .. M.size : N.com_hist[j] = M.com_hist[j]
  BY <1>1, <1>3, <1>6
<1>10. \A j \in 1 .. M.size : M.com_hist[j] \in Blocks /\ M.com_hist[j] # a
  BY <1>3 DEF Owned, LinesOwned
<1>11. LinesOwned(N)
  BY <1>6, <1>8, <1>9, <1>10 DEF Owned, LinesOwned
<1>12. DraftOwned(N)
  BY <1>4, <1>6, <1>8, <1>9, <1>10 DEF DraftOwned
<1>13. ProcsOwned(N, P)
  <2>1. \A p \in P : p.pcb \in Blocks /\ p.stack \in Blocks
    BY DEF Owned, ProcsOwned
  <2> QED BY <1>3, <1>8, <2>1 DEF Owned, ProcsOwned
<1>14. ASSUME NEW b \in LostIn(N, P) PROVE b \in MayLose(M, P, TRUE)
  <2>1. b \in Blocks /\ b # a /\ M.owner[b] # "free"
    BY <1>1, <1>6, <1>8, <1>9, <1>14 DEF LostIn
  <2>2. CASE b = M.com_hist[0]
    <3>1. M.size = 0
      BY <1>1, <2>1, <2>2 DEF Owned, DraftOwned
    <3> QED BY <2>2, <3>1 DEF MayLose
  <2>3. CASE b # M.com_hist[0]
    <3>1. \A j \in 0 .. M.size : b # M.com_hist[j]
      BY <1>1, <1>6, <1>9, <1>14, <2>3 DEF LostIn
    <3> QED BY <1>14, <2>1, <3>1 DEF LostIn, MayLose
  <2> QED BY <2>2, <2>3
<1> QED BY <1>7, <1>11, <1>12, <1>13, <1>14 DEF Owned

(* Up from a recalled line only counts.                                    *)
LEMMA UpFurther ==
    ASSUME NEW M, NEW P, Owned(M, P), M.index # 0, NEW N, N = hist_next(M)
    PROVE  Owned(N, P) /\ LostIn(N, P) = LostIn(M, P)
<1> DEFINE k == IF M.index < M.size THEN M.index + 1 ELSE M.index
<1>1. k \in 0 .. M.size /\ k # 0
  BY SlotFacts DEF Owned, IsMem
<1>2. N = [M EXCEPT !.index = k]
  BY DEF hist_next, Owned, IsMem
<1> HIDE DEF k
<1> QED BY <1>1, <1>2, IndexOwned

(* Down, which frees the draft when it has come back to it.                *)
LEMMA DownOwned ==
    ASSUME NEW M, NEW P, Owned(M, P), NEW L, L = hist_previous(M),
           NEW N, N = IF L.index = 0 THEN sys_free_mem(L, Recalled(L)) ELSE L
    PROVE  Owned(N, P) /\ LostIn(N, P) \subseteq LostIn(M, P)
<1> DEFINE k == IF M.index > 0 THEN M.index - 1 ELSE M.index
<1>1. k \in 0 .. M.size /\ M.index \in Nat
  BY SlotFacts DEF Owned, IsMem
<1>2. L = [M EXCEPT !.index = k] /\ L.index = k /\ L.com_hist = M.com_hist
  BY DEF hist_previous, Owned, IsMem
<1>3. CASE k # 0
  <2> HIDE DEF k
  <2>1. N = L
    BY <1>2, <1>3
  <2> QED BY <1>1, <1>2, <1>3, <2>1, IndexOwned
<1>4. CASE k = 0
  <2> DEFINE F == sys_free_mem(M, M.com_hist[0])
  <2>1. /\ Owned(F, P) /\ LostIn(F, P) \subseteq LostIn(M, P)
        /\ F.com_hist = M.com_hist /\ F.size = M.size
        /\ F.com_hist[0] \in Blocks => F.owner[F.com_hist[0]] = "free"
    <3> HIDE DEF F
    <3> QED BY DraftFreed DEF F
  <2>2. N = [F EXCEPT !.index = 0]
    <3>1. N = sys_free_mem(L, M.com_hist[0])
      BY <1>2, <1>4 DEF Recalled
    <3>2. L = [owner |-> M.owner, text |-> M.text, com_hist |-> M.com_hist,
               size |-> M.size, index |-> 0]
      BY <1>2, <1>4 DEF Owned, IsMem
    <3>3. M = [owner |-> M.owner, text |-> M.text, com_hist |-> M.com_hist,
               size |-> M.size, index |-> M.index]
      BY DEF Owned, IsMem
    <3>4. CASE M.com_hist[0] \in Blocks
      <4> DEFINE d == M.com_hist[0]
      <4> DEFINE o == [M.owner EXCEPT ![d] = "free"]
      <4>1. F = [M EXCEPT !.owner[d] = "free"]
        BY <3>4 DEF sys_free_mem
      <4>2. N = [L EXCEPT !.owner[d] = "free"]
        BY <3>1, <3>4 DEF sys_free_mem
      <4> HIDE DEF F, d
      <4>3. F = [owner |-> o, text |-> M.text, com_hist |-> M.com_hist,
                 size |-> M.size, index |-> M.index]
        BY <3>3, <4>1
      <4>4. N = [owner |-> o, text |-> M.text, com_hist |-> M.com_hist,
                 size |-> M.size, index |-> 0]
        <5>1. /\ L.owner = M.owner /\ L.text = M.text /\ L.com_hist = M.com_hist
              /\ L.size = M.size /\ L.index = 0
          BY <3>2
        <5>2. L = [owner |-> L.owner, text |-> L.text, com_hist |-> L.com_hist,
                   size |-> L.size, index |-> L.index]
          BY <3>2, <5>1
        <5>3. N = [owner |-> [L.owner EXCEPT ![d] = "free"],
                   text |-> L.text, com_hist |-> L.com_hist, size |-> L.size, index |-> L.index]
          BY <4>2, <5>2
        <5> QED BY <5>1, <5>3
      <4> HIDE DEF o
      <4> QED BY <4>3, <4>4
    <3>5. CASE M.com_hist[0] \notin Blocks
      <4>1. F = M /\ N = L
        BY <3>1, <3>5 DEF sys_free_mem
      <4> HIDE DEF F
      <4> QED BY <3>2, <3>3, <4>1
    <3> QED BY <3>4, <3>5
  <2>3. 0 \in 0 .. F.size
    BY <1>1, <1>4, <2>1
  <2> HIDE DEF F
  <2>4. Owned(N, P) /\ LostIn(N, P) = LostIn(F, P)
    BY <2>1, <2>2, <2>3, IndexOwned
  <2> QED BY <2>1, <2>4
<1> QED BY <1>3, <1>4

(* A new process gets blocks of its own, and a failure gives the first one *)
(* back.                                                                   *)
LEMMA ProcessCreated ==
    ASSUME NEW M, NEW P, Owned(M, P), M.com_hist[0] \notin Blocks,
           NEW new \in pcb_allocate(M), NEW P2,
           P2 = IF new.pcb = NULL THEN P
                ELSE P \cup {[pcb |-> new.pcb, stack |-> new.stack]}
    PROVE  /\ Owned(new.mem, P2) /\ LostIn(new.mem, P2) \subseteq LostIn(M, P)
           /\ new.mem.com_hist = M.com_hist
<1>0. IsMem(M) /\ M.owner \in [Blocks -> Owners] /\ "process" \in Owners
  BY DEF Owned, IsMem, Owners
<1>1. PICK a \in Blocks :
         /\ M.owner[a] = "free"
         /\ LET T == Taken(M, a, "process", NULL)
            IN  \/ new = [mem |-> sys_free_mem(T, a), pcb |-> NULL, stack |-> NULL]
                \/ \E b \in Room(T) :
                      new = [mem |-> Taken(T, b, "process", NULL), pcb |-> a, stack |-> b]
  BY DEF pcb_allocate, Room
<1> DEFINE T == Taken(M, a, "process", NULL)
<1>2. /\ IsMem(T) /\ T.com_hist = M.com_hist /\ T.size = M.size /\ T.index = M.index
      /\ T.owner = [M.owner EXCEPT ![a] = "process"]
  <2>1. T = Taken(M, a, "process", NULL)
    OBVIOUS
  <2> HIDE DEF T
  <2> QED BY <1>0, <2>1, TakenFields
<1>3. \A p \in P : /\ p.pcb \in Blocks /\ p.stack \in Blocks
                   /\ M.owner[p.pcb] = "process" /\ M.owner[p.stack] = "process"
  <2>1. P \subseteq [pcb : Blocks, stack : Blocks]
    BY DEF Owned, ProcsOwned
  <2> QED BY <2>1 DEF Owned, ProcsOwned
<1>4. CASE new = [mem |-> sys_free_mem(T, a), pcb |-> NULL, stack |-> NULL]
  <2>1. new.mem = sys_free_mem(T, a) /\ new.pcb = NULL
    BY <1>4
  <2> HIDE DEF T
  <2>2. /\ IsMem(new.mem) /\ new.mem.com_hist = M.com_hist
        /\ new.mem.size = M.size /\ new.mem.index = M.index
        /\ \A x \in Blocks : new.mem.owner[x] = IF x = a THEN "free" ELSE T.owner[x]
    <3> DEFINE N == new.mem
    <3>1. N = sys_free_mem(T, a)
      BY <2>1
    <3> HIDE DEF N
    <3>2. /\ IsMem(N) /\ N.com_hist = T.com_hist /\ N.size = T.size /\ N.index = T.index
          /\ \A x \in Blocks : N.owner[x] = IF x = a THEN "free" ELSE T.owner[x]
      <4>1. IsMem(T)
        BY <1>2
      <4> QED BY <3>1, <4>1, BlockFreed
    <3> QED BY <1>2, <3>2 DEF N
  <2>3. new.mem.owner = M.owner /\ P2 = P
    <3>1. \A x \in Blocks : new.mem.owner[x] = M.owner[x]
      BY <1>0, <1>1, <1>2, <2>2
    <3>2. new.mem.owner \in [Blocks -> Owners]
      BY <2>2 DEF IsMem
    <3> QED BY <1>0, <2>1, <3>1, <3>2
  <2>4. LinesOwned(new.mem) /\ DraftOwned(new.mem) /\ ProcsOwned(new.mem, P2)
    BY <2>2, <2>3 DEF Owned, LinesOwned, DraftOwned, ProcsOwned
  <2> QED BY <2>2, <2>3, <2>4 DEF Owned, LostIn
<1>5. CASE \E b \in Room(T) :
             new = [mem |-> Taken(T, b, "process", NULL), pcb |-> a, stack |-> b]
  <2>1. PICK b \in Blocks : /\ T.owner[b] = "free"
                            /\ new.mem = Taken(T, b, "process", NULL)
                            /\ new.pcb = a /\ new.stack = b
    BY <1>5 DEF Room
  <2> HIDE DEF T
  <2> DEFINE N == new.mem
  <2>2. /\ IsMem(N) /\ N.com_hist = M.com_hist
        /\ N.size = M.size /\ N.index = M.index
        /\ N.owner = [T.owner EXCEPT ![b] = "process"]
    BY <1>0, <1>2, <2>1, TakenFields
  <2>3. /\ a # b /\ M.owner[b] = "free"
        /\ \A x \in Blocks : N.owner[x] = IF x \in {a, b} THEN "process" ELSE M.owner[x]
    BY <1>0, <1>1, <1>2, <2>1, <2>2
  <2>4. P2 = P \cup {[pcb |-> a, stack |-> b]}
    BY <2>1, NullIsNoBlock
  <2> HIDE DEF N
  <2>5. LinesOwned(N)
    <3>1. \A k \in 1 .. M.size : M.com_hist[k] \in Blocks /\ M.com_hist[k] \notin {a, b}
      BY <1>1, <2>3 DEF Owned, LinesOwned
    <3> QED BY <2>2, <2>3, <3>1 DEF Owned, LinesOwned
  <2>6. DraftOwned(N)
    BY <2>2 DEF DraftOwned
  <2>7. ProcsOwned(N, P2)
    <3> DEFINE r == [pcb |-> a, stack |-> b]
    <3>1. P2 \subseteq [pcb : Blocks, stack : Blocks]
      BY <2>4 DEF Owned, ProcsOwned
    <3>2. \A p \in P : {p.pcb, p.stack} \cap {a, b} = {}
      BY <1>1, <1>3, <2>3
    <3>3. r.pcb = a /\ r.stack = b /\ P2 = P \cup {r}
      BY <2>4
    <3> HIDE DEF r
    <3>4. \A p \in P2 : /\ p.pcb # p.stack
                        /\ N.owner[p.pcb] = "process" /\ N.owner[p.stack] = "process"
      BY <1>3, <2>3, <3>2, <3>3 DEF Owned, ProcsOwned
    <3>5. \A p, q \in P2 : p # q => {p.pcb, p.stack} \cap {q.pcb, q.stack} = {}
      BY <3>2, <3>3 DEF Owned, ProcsOwned
    <3> QED BY <3>1, <3>4, <3>5 DEF ProcsOwned
  <2>8. LostIn(N, P2) \subseteq LostIn(M, P)
    <3>1. ASSUME NEW x \in LostIn(N, P2) PROVE x \in LostIn(M, P)
      <4>1. x \in Blocks /\ N.owner[x] # "free" /\ \A k \in 0 .. N.size : x # N.com_hist[k]
        BY DEF LostIn
      <4>2. \A p \in P2 : x # p.pcb /\ x # p.stack
        BY DEF LostIn
      <4>3. x \notin {a, b} /\ \A p \in P : x # p.pcb /\ x # p.stack
        <5> DEFINE r == [pcb |-> a, stack |-> b]
        <5>1. r \in P2 /\ r.pcb = a /\ r.stack = b /\ P \subseteq P2
          BY <2>4
        <5> HIDE DEF r
        <5>2. x # r.pcb /\ x # r.stack
          BY <4>2, <5>1
        <5> QED BY <4>2, <5>1, <5>2
      <4> QED BY <2>2, <2>3, <4>1, <4>3 DEF LostIn
    <3> QED BY <3>1
  <2> QED BY <2>2, <2>5, <2>6, <2>7, <2>8 DEF Owned, N
<1> HIDE DEF T
<1> QED BY <1>1, <1>4, <1>5 DEF T

(* A process that ends gives its two blocks back and nobody else's.        *)
LEMMA ProcessEnded ==
    ASSUME NEW M, NEW P, Owned(M, P), NEW p \in P, NEW N, N = pcb_free(M, p)
    PROVE  /\ Owned(N, P \ {p}) /\ LostIn(N, P \ {p}) \subseteq LostIn(M, P)
           /\ N.com_hist = M.com_hist
<1> DEFINE F == sys_free_mem(M, p.stack)
<1>0. IsMem(M) /\ M.owner \in [Blocks -> Owners]
  BY DEF Owned, IsMem
<1>1. P \subseteq [pcb : Blocks, stack : Blocks]
  BY DEF Owned, ProcsOwned
<1>2. \A q \in P : /\ q.pcb \in Blocks /\ q.stack \in Blocks
                   /\ M.owner[q.pcb] = "process" /\ M.owner[q.stack] = "process"
  BY <1>1 DEF Owned, ProcsOwned
<1>3. /\ IsMem(F) /\ F.com_hist = M.com_hist /\ F.size = M.size /\ F.index = M.index
      /\ F.owner = [M.owner EXCEPT ![p.stack] = "free"]
  <2>1. F = sys_free_mem(M, p.stack)
    OBVIOUS
  <2> HIDE DEF F
  <2> QED BY <1>0, <1>2, <2>1, FreeFields
<1>4. N = sys_free_mem(F, p.pcb)
  BY DEF pcb_free
<1> HIDE DEF F
<1>5. /\ IsMem(N) /\ N.com_hist = M.com_hist /\ N.size = M.size /\ N.index = M.index
      /\ \A x \in Blocks : N.owner[x] = IF x = p.pcb THEN "free" ELSE F.owner[x]
  <2>1. PICK d \in Blocks : d = p.pcb
    BY <1>2
  <2>2. N = sys_free_mem(F, d)
    BY <1>4, <2>1
  <2>3. /\ IsMem(N) /\ N.com_hist = F.com_hist /\ N.size = F.size /\ N.index = F.index
        /\ \A x \in Blocks : N.owner[x] = IF x = d THEN "free" ELSE F.owner[x]
    <3>1. IsMem(F)
      BY <1>3
    <3> QED BY <2>2, <3>1, BlockFreed
  <2> QED BY <1>3, <2>1, <2>3
<1>6. \A x \in Blocks : N.owner[x] = IF x = p.pcb \/ x = p.stack THEN "free"
                                     ELSE M.owner[x]
  BY <1>0, <1>2, <1>3, <1>5
<1>7. LinesOwned(N)
  <2>1. \A k \in 1 .. M.size : /\ M.com_hist[k] \in Blocks
                               /\ M.com_hist[k] # p.pcb /\ M.com_hist[k] # p.stack
    BY <1>2 DEF Owned, LinesOwned
  <2> QED BY <1>5, <1>6, <2>1 DEF Owned, LinesOwned
<1>8. DraftOwned(N)
  <2>1. M.com_hist[0] \in Blocks => M.com_hist[0] # p.pcb /\ M.com_hist[0] # p.stack
    BY <1>2 DEF Owned, DraftOwned
  <2> QED BY <1>5, <1>6, <2>1 DEF Owned, DraftOwned
<1>9. ProcsOwned(N, P \ {p})
  <2>1. \A q \in P \ {p} : {q.pcb, q.stack} \cap {p.pcb, p.stack} = {}
    BY DEF Owned, ProcsOwned
  <2>2. \A q \in P \ {p} : /\ q.pcb # q.stack
                           /\ N.owner[q.pcb] = "process" /\ N.owner[q.stack] = "process"
    BY <1>2, <1>6, <2>1 DEF Owned, ProcsOwned
  <2> QED BY <1>1, <2>2 DEF Owned, ProcsOwned
<1>10. LostIn(N, P \ {p}) \subseteq LostIn(M, P)
  <2>1. ASSUME NEW x \in LostIn(N, P \ {p}) PROVE x \in LostIn(M, P)
    <3>1. x \in Blocks /\ N.owner[x] # "free" /\ \A k \in 0 .. M.size : x # M.com_hist[k]
      BY <1>5 DEF LostIn
    <3>2. M.owner[x] # "free" /\ x # p.pcb /\ x # p.stack
      BY <1>6, <3>1
    <3>3. \A q \in P : x # q.pcb /\ x # q.stack
      BY <3>2 DEF LostIn
    <3> QED BY <3>1, <3>2, <3>3 DEF LostIn
  <2> QED BY <2>1
<1> QED BY <1>5, <1>7, <1>8, <1>9, <1>10 DEF Owned
-----------------------------------------------------------------------------
(***************************************************************************)
(* The steps.                                                              *)
(***************************************************************************)
(* While a command is carried out, slot 0 is clear: there is no block in   *)
(* it that a new process could get.                                        *)
OwnerInv ==
    /\ Owned(mem, procs)
    /\ phase = "executing" => mem.com_hist[0] = NULL

(* The same, and only Up before the first line loses something. *)
OwnerStep == OwnerInv' /\ LostIn(mem, procs)' \subseteq MayLose(mem, procs, Up)

(* At boot the history has no lines.                                       *)
LEMMA OwnerInit == Init => OwnerInv
<1> SUFFICES ASSUME Init PROVE OwnerInv
  OBVIOUS
<1>1. PICK first \in {NULL, Wild} :
         mem = [owner |-> [a \in Blocks |-> "free"], text |-> [a \in Blocks |-> NULL],
                com_hist |-> [k \in Slots |-> IF k = 0 THEN first ELSE NULL],
                size |-> 0, index |-> 0]
  BY DEF Init, initialize_comhist
<1>2. /\ mem.owner = [a \in Blocks |-> "free"] /\ mem.size = 0 /\ mem.index = 0
      /\ mem.com_hist = [k \in Slots |-> IF k = 0 THEN first ELSE NULL]
      /\ mem.text = [a \in Blocks |-> NULL]
  BY <1>1
<1>3. IsMem(mem)
  <2>1. mem = [owner |-> mem.owner, text |-> mem.text, com_hist |-> mem.com_hist,
               size |-> mem.size, index |-> mem.index]
    BY <1>1, <1>2
  <2> QED BY <1>2, <2>1, SlotFacts DEF IsMem, Owners
<1>4. mem.com_hist[0] \notin Blocks
  BY <1>2, SlotFacts, NullIsNoBlock, WildIsNoBlock
<1>5. LinesOwned(mem) /\ DraftOwned(mem) /\ ProcsOwned(mem, procs)
  BY <1>2, <1>4 DEF Init, LinesOwned, DraftOwned, ProcsOwned
<1> QED BY <1>3, <1>4, <1>5 DEF Init, OwnerInv, Owned

(* The keys that do not look at the history, and the stops.                *)
LEMMA OwnerUnchanged ==
    ASSUME OwnerInv, UNCHANGED <<mem, procs>>, phase' = "executing" => phase = "executing"
    PROVE  OwnerStep
BY DEF OwnerInv, OwnerStep, MayLose

(* What an arrow shows, and that it leaves the memory it is to leave.      *)
LEMMA ShowsLeaves ==
    ASSUME NEW M, NEW left, Shows(M, left), phase = "reading"
    PROVE  /\ mem' = left \/ mem' = mem
           /\ phase' # "executing"
BY DEF Shows, Stops, Replaces

(* Up saves the line in a block that is nobody's.                          *)
LEMMA OwnerUp == OwnerInv /\ Up => OwnerStep
<1> SUFFICES ASSUME OwnerInv, Up PROVE OwnerStep
  OBVIOUS
<1>0. procs' = procs /\ phase = "reading" /\ Owned(mem, procs)
  BY DEF Up, Arrow, Key, After, OwnerInv
<1> DEFINE line == Text(buffer, strlen(buffer))
<1>1. CASE mem' = mem /\ phase' # "executing"
  BY <1>0, <1>1, OwnerUnchanged
<1>2. CASE ~ (mem' = mem /\ phase' # "executing")
  <2>1. PICK M \in IF mem.index = 0 THEN hist_set(mem, 0, line) ELSE {mem} :
           Shows(hist_next(M), hist_next(M))
    BY <1>2 DEF Up, Stops
  <2>2. mem' = hist_next(M) /\ phase' # "executing"
    BY <1>0, <1>2, <2>1, ShowsLeaves
  <2> HIDE DEF line
  <2>3. CASE mem.index = 0
    <3>1. Owned(mem', procs) /\ LostIn(mem', procs) \subseteq MayLose(mem, procs, TRUE)
      BY <1>0, <2>1, <2>2, <2>3, DraftStored
    <3> QED BY <1>0, <2>2, <3>1 DEF OwnerInv, OwnerStep, MayLose
  <2>4. CASE mem.index # 0
    <3>1. Owned(mem', procs) /\ LostIn(mem', procs) = LostIn(mem, procs)
      BY <1>0, <2>1, <2>2, <2>4, UpFurther
    <3> QED BY <1>0, <2>2, <3>1 DEF OwnerInv, OwnerStep, MayLose
  <2> QED BY <2>3, <2>4
<1> QED BY <1>1, <1>2

(* Down frees slot 0's block at most, and leaves its address there.        *)
LEMMA OwnerDown == OwnerInv /\ Down => OwnerStep
<1> SUFFICES ASSUME OwnerInv, Down PROVE OwnerStep
  OBVIOUS
<1>0. procs' = procs /\ phase = "reading" /\ Owned(mem, procs)
  BY DEF Down, Arrow, Key, After, OwnerInv
<1> DEFINE L == hist_previous(mem)
<1> DEFINE N == IF L.index = 0 THEN sys_free_mem(L, Recalled(L)) ELSE L
<1>1. (mem' = N \/ mem' = mem) /\ phase' # "executing"
  <2>1. Shows(L, N)
    BY DEF Down
  <2> HIDE DEF L, N
  <2> QED BY <1>0, <2>1, ShowsLeaves
<1>2. Owned(N, procs) /\ LostIn(N, procs) \subseteq LostIn(mem, procs)
  <2>1. L = hist_previous(mem)
        /\ N = IF L.index = 0 THEN sys_free_mem(L, Recalled(L)) ELSE L
    OBVIOUS
  <2> HIDE DEF L, N
  <2> QED BY <1>0, <2>1, DownOwned
<1> HIDE DEF N
<1> QED BY <1>0, <1>1, <1>2 DEF OwnerInv, OwnerStep, MayLose

(* The end of a line frees slot 0, and clears it if there is a command.    *)
LEMMA OwnerEnter ==
    ASSUME bufferSize \in Nat, OwnerInv, Enter
    PROVE  OwnerStep
<1> DEFINE F == sys_free_mem(mem, mem.com_hist[0])
<1> DEFINE freed == hist_index_set(F, 0)
<1> DEFINE line == Text(buffer, bufferSize)
<1>0. procs' = procs /\ phase = "reading" /\ Owned(mem, procs)
  BY DEF Enter, After, OwnerInv
<1>1. CASE mem' = mem /\ phase' # "executing"
  BY <1>0, <1>1, OwnerUnchanged
<1>2. CASE ~ (mem' = mem /\ phase' # "executing")
  <2>1. /\ mem' \in IF bufferSize > 0 THEN hist_add(freed, line) ELSE {freed}
        /\ Executes(line)
    BY <1>2 DEF Enter, Stops
  <2>2. /\ Owned(F, procs) /\ LostIn(F, procs) \subseteq LostIn(mem, procs)
        /\ F.com_hist = mem.com_hist /\ F.size = mem.size /\ F.index = mem.index
        /\ F.com_hist[0] \in Blocks => F.owner[F.com_hist[0]] = "free"
    <3> HIDE DEF F
    <3> QED BY <1>0, DraftFreed DEF F
  <2>3. freed = [F EXCEPT !.index = 0]
    BY DEF hist_index_set
  <2> HIDE DEF F, freed
  <2>4. freed.com_hist = F.com_hist /\ freed.owner = F.owner
    BY <2>2, <2>3 DEF Owned, IsMem
  <2>5. Owned(freed, procs) /\ LostIn(freed, procs) = LostIn(F, procs)
    <3>1. 0 \in 0 .. F.size
      BY <2>2, SlotFacts DEF Owned, IsMem
    <3> QED BY <2>2, <2>3, <3>1, IndexOwned
  <2>6. CASE bufferSize > 0
    <3>1. /\ Owned(mem', procs) /\ LostIn(mem', procs) \subseteq LostIn(freed, procs)
          /\ mem'.com_hist[0] = NULL
      <4>1. mem' \in hist_add(freed, line)
        BY <2>1, <2>6
      <4> HIDE DEF line
      <4> QED BY <2>2, <2>4, <2>5, <4>1, LineAdded
    <3> QED BY <1>0, <2>2, <2>5, <3>1 DEF OwnerInv, OwnerStep, MayLose
  <2>7. CASE ~ (bufferSize > 0)
    <3>1. mem' = freed /\ phase' # "executing"
      <4>1. bufferSize = 0 /\ line = <<>>
        BY <2>7 DEF Text
      <4> QED BY <2>1, <2>7, <4>1 DEF Executes
    <3> QED BY <1>0, <2>2, <2>5, <3>1 DEF OwnerInv, OwnerStep, MayLose
  <2> QED BY <2>6, <2>7
<1> QED BY <1>1, <1>2

(* A process is created while slot 0 is clear.                             *)
LEMMA OwnerCreates == OwnerInv /\ Creates => OwnerStep
<1> SUFFICES ASSUME OwnerInv, Creates PROVE OwnerStep
  OBVIOUS
<1>0. Owned(mem, procs) /\ mem.com_hist[0] = NULL /\ phase' = phase
  BY DEF Creates, Leaves, OwnerInv
<1>1. PICK new \in pcb_allocate(mem) :
         /\ mem' = new.mem
         /\ procs' = IF new.pcb = NULL THEN procs
                     ELSE procs \cup {[pcb |-> new.pcb, stack |-> new.stack]}
  BY DEF Creates, Leaves
<1>2. /\ Owned(mem', procs') /\ LostIn(mem', procs') \subseteq LostIn(mem, procs)
      /\ mem'.com_hist = mem.com_hist
  BY <1>0, <1>1, ProcessCreated, NullIsNoBlock
<1> QED BY <1>0, <1>2 DEF OwnerInv, OwnerStep, MayLose

(* A process ends, whatever slot 0 has.                                    *)
LEMMA OwnerEnds == OwnerInv /\ Ends => OwnerStep
<1> SUFFICES ASSUME OwnerInv, Ends PROVE OwnerStep
  OBVIOUS
<1>0. Owned(mem, procs) /\ phase' = phase
  BY DEF Ends, Leaves, OwnerInv
<1>1. PICK p \in procs : mem' = pcb_free(mem, p) /\ procs' = procs \ {p}
  BY DEF Ends, Leaves
<1>2. /\ Owned(mem', procs') /\ LostIn(mem', procs') \subseteq LostIn(mem, procs)
      /\ mem'.com_hist = mem.com_hist
  BY <1>0, <1>1, ProcessEnded
<1> QED BY <1>0, <1>2 DEF OwnerInv, OwnerStep, MayLose

(* Every step.                                                             *)
LEMMA OwnerNext ==
    ASSUME bufferSize \in Nat, OwnerInv, [Next]_vars
    PROVE  OwnerStep
<1>1. CASE \/ EscapeGoesOn \/ Insert \/ Backspace \/ DeleteKey
           \/ Left \/ Right \/ Home \/ End \/ Yields \/ Reads \/ Stopped
           \/ UNCHANGED vars
  <2>1. UNCHANGED <<mem, procs>> /\ (phase' = "executing" => phase = "executing")
    BY <1>1 DEF EscapeGoesOn, Insert, Backspace, DeleteKey, Left, Right, Home, End,
                Yields, Reads, Stopped, vars, Removes, MovesTo, Edits, Arrow, Key
  <2> QED BY <2>1, OwnerUnchanged
<1> QED
  BY <1>1, OwnerUp, OwnerDown, OwnerEnter, OwnerCreates, OwnerEnds DEF Next

(* The invariant is what OneOwner says, with the count of the blocks.      *)
LEMMA OwnersCounted == OwnerInv => OneOwner
<1> SUFFICES ASSUME OwnerInv PROVE OneOwner
  OBVIOUS
<1>1. /\ mem.size \in Nat /\ 0 .. mem.size \subseteq Slots
      /\ LinesOwned(mem) /\ ProcsOwned(mem, procs)
  BY SlotFacts DEF OwnerInv, Owned, IsMem
<1> DEFINE f == [k \in 1 .. mem.size |-> mem.com_hist[k]]
<1>2. f \in Bijection(1 .. mem.size, Entries)
  BY <1>1 DEF Bijection, Injection, Surjection, IsInjective, Entries, LinesOwned
<1>3. Cardinality(Entries) = mem.size
  <2>1. ExistsBijection(1 .. mem.size, Entries)
    BY <1>2 DEF ExistsBijection
  <2> QED BY <1>1, <2>1, FS_CountingElements
<1>4. \A p \in procs : /\ p.pcb # p.stack
                       /\ {mem.owner[p.pcb], mem.owner[p.stack]} = {"process"}
  BY <1>1 DEF ProcsOwned
<1> QED BY <1>1, <1>3, <1>4 DEF OneOwner, LinesOwned, ProcsOwned

(* Lost is LostIn the present memory. *)
LEMMA LostCounted == OwnerInv => Lost = LostIn(mem, procs)
<1> SUFFICES ASSUME OwnerInv PROVE Lost = LostIn(mem, procs)
  OBVIOUS
<1>1. mem.size \in Nat
  BY SlotFacts DEF OwnerInv, Owned, IsMem
<1>2. \A a : a \notin Entries \cup {mem.com_hist[0]}
                <=> \A k \in 0 .. mem.size : a # mem.com_hist[k]
  BY <1>1 DEF Entries
<1> QED BY <1>2 DEF Lost, LostIn

(* And of the next one. *)
LEMMA LostCountedNext == OwnerInv' => (Lost = LostIn(mem, procs))'
BY LostCounted, PTL
-----------------------------------------------------------------------------
(***************************************************************************)
(* The line and the screen.                                                *)
(***************************************************************************)
(* b holds a line of n letters and nothing else. *)
IsLine(b, n) ==
    /\ n \in 0 .. LineLen - 1
    /\ b = [k \in 0 .. LineLen - 1 |-> b[k]]
    /\ \A k \in 0 .. n - 1 : b[k] \in Letters
    /\ \A k \in n .. LineLen - 1 : b[k] = Nul

(* The terminal when it shows this line, with its cursor behind k letters. *)
LineShown(b, n, k) ==
    [cells |-> [j \in 1 .. LineLen |-> IF j <= n THEN b[j - 1] ELSE Blank], col |-> k]

(* The buffers have room for a letter's end at least.                      *)
LEMMA Sizes == LineLen \in Nat /\ LineLen >= 1 /\ AnswerLen \in Nat /\ AnswerLen >= 1
               /\ AnswerLen <= LineLen
BY SizesOfBuffers

(* What has been typed is a string of its length, and one of the lines.    *)
LEMMA TextIsLine ==
    ASSUME NEW b, NEW n, IsLine(b, n)
    PROVE  /\ strlen(b) = n
           /\ Text(b, n) \in Lines /\ Text(b, n) \in Seq(Letters) /\ Len(Text(b, n)) = n
           /\ \A k \in 1 .. n : Text(b, n)[k] = b[k - 1]
<1>1. LineLen \in Nat /\ n \in 0 .. LineLen - 1
  BY Sizes DEF IsLine
<1>2. strlen(b) = n
  <2> DEFINE S == {k \in 0 .. LineLen - 1 : b[k] = Nul} \cup {LineLen}
  <2>1. n \in S
    BY <1>1, SMTT(60) DEF IsLine
  <2>2. \A k \in S : n <= k
    <3>1. ASSUME NEW k \in S, k < n PROVE FALSE
      <4>1. k \in 0 .. n - 1 /\ b[k] = Nul
        BY <1>1, <3>1
      <4> QED BY <4>1, NulIsNoLetter DEF IsLine
    <3> QED BY <1>1, <3>1
  <2>3. S \subseteq Int
    BY <1>1
  <2>4. strlen(b) = CHOOSE x \in S : \A y \in S : x <= y
    BY DEF strlen, Min
  <2> HIDE DEF S
  <2>5. \A x \in S : (\A y \in S : x <= y) => x = n
    BY <1>1, <2>1, <2>2, <2>3
  <2> QED BY <2>1, <2>2, <2>4, <2>5
<1>3. Text(b, n) = [k \in 1 .. n |-> b[k - 1]]
  BY DEF Text
<1>4. \A k \in 1 .. n : b[k - 1] \in Letters
  BY <1>1, SMTT(60) DEF IsLine
<1>5. Text(b, n) \in [1 .. n -> Letters]
  BY <1>3, <1>4
<1>6. Text(b, n) \in Seq(Letters) /\ Len(Text(b, n)) = n
  BY <1>1, <1>5
<1>7. Text(b, n) \in Lines
  BY <1>1, <1>5 DEF Lines, BoundedSeq, SeqOf
<1> QED BY <1>2, <1>3, <1>6, <1>7

(* Written on T, s leaves this line and the cursor behind its q letters. *)
Overwrites(T, s, b, n, q) ==
    \E k \in Nat : \E m \in Nat :
       /\ T.col = k /\ Len(s) = m /\ q = k + m
       /\ DOMAIN T.cells = 1 .. LineLen
       /\ \A j \in 1 .. LineLen :
             (IF j \in k + 1 .. k + m THEN s[j - k] ELSE T.cells[j])
                = IF j <= n THEN b[j - 1] ELSE Blank

(* This is what Write does.                                                *)
LEMMA Redrawn ==
    ASSUME NEW T, NEW s, NEW b, NEW n, NEW q, Overwrites(T, s, b, n, q)
    PROVE  Write(T, s) = LineShown(b, n, q)
<1>1. PICK k \in Nat, m \in Nat :
         /\ T.col = k /\ Len(s) = m /\ q = k + m
         /\ DOMAIN T.cells = 1 .. LineLen
         /\ \A j \in 1 .. LineLen :
               (IF j \in k + 1 .. k + m THEN s[j - k] ELSE T.cells[j])
                  = IF j <= n THEN b[j - 1] ELSE Blank
  BY DEF Overwrites
<1> DEFINE e == [j \in 1 .. LineLen |-> IF j \in k + 1 .. k + m THEN s[j - k] ELSE T.cells[j]]
           f == [j \in 1 .. LineLen |-> IF j <= n THEN b[j - 1] ELSE Blank]
<1>2. Write(T, s) = [cells |-> e, col |-> q]
  BY <1>1 DEF Write
<1>3. e = f
  BY <1>1
<1> HIDE DEF e, f
<1> QED BY <1>2, <1>3 DEF LineShown, f

(* Moving the cursor changes nothing else. *)
LEMMA CursorMoved ==
    ASSUME NEW b, NEW n, NEW k \in Int, NEW d \in Int
    PROVE  Back(LineShown(b, n, k), d) = LineShown(b, n, k - d)
<1> DEFINE e == [j \in 1 .. LineLen |-> IF j <= n THEN b[j - 1] ELSE Blank]
<1>1. LineShown(b, n, k) = [cells |-> e, col |-> k]
      /\ LineShown(b, n, k - d) = [cells |-> e, col |-> k - d]
  BY DEF LineShown
<1> HIDE DEF e
<1> QED BY ONLY <1>1 DEF Back

(* What the terminal shows, cell by cell. *)
LEMMA CellsShown ==
    ASSUME NEW b, NEW n, NEW k, NEW T, T = LineShown(b, n, k)
    PROVE  /\ T.col = k /\ DOMAIN T.cells = 1 .. LineLen
           /\ \A j \in 1 .. LineLen : T.cells[j] = IF j <= n THEN b[j - 1] ELSE Blank
BY DEF LineShown

(* s is the rest of the line from behind its first k letters on. *)
IsRest(s, b, n, k) ==
    /\ Len(s) = n - k /\ s \in Seq({b[j] : j \in k .. n - 1})
    /\ \A j \in 1 .. n - k : s[j] = b[k + j - 1]

(* It is a part of the line. *)
LEMMA RestOfLine ==
    ASSUME NEW b, NEW n \in Nat, NEW k \in 0 .. n, NEW s,
           s = SubSeq(Text(b, n), k + 1, n)
    PROVE  IsRest(s, b, n, k)
<1> DEFINE S == {b[j] : j \in k .. n - 1}
<1>1. \A i \in k + 1 .. n : Text(b, n)[i] = b[i - 1] /\ b[i - 1] \in S
  BY DEF Text
<1> HIDE DEF S
<1>2. /\ s \in Seq(S)
      /\ Len(s) = IF k + 1 <= n THEN n - (k + 1) + 1 ELSE 0
      /\ \A j \in 1 .. n - (k + 1) + 1 : s[j] = Text(b, n)[(k + 1) + j - 1]
  <2>1. \A i \in k + 1 .. n : Text(b, n)[i] \in S
    BY <1>1
  <2>2. k + 1 \in Int /\ n \in Int
    OBVIOUS
  <2> QED BY <2>1, <2>2, SubSeqProperties
<1>3. Len(s) = n - k
  BY <1>2
<1>4. ASSUME NEW j \in 1 .. n - k PROVE s[j] = b[k + j - 1]
  <2>1. j \in 1 .. n - (k + 1) + 1 /\ (k + 1) + j - 1 \in k + 1 .. n /\ (k + 1) + j - 1 = k + j
    OBVIOUS
  <2>2. s[j] = Text(b, n)[k + j]
    BY <1>2, <2>1
  <2>3. Text(b, n)[k + j] = b[k + j - 1]
    BY <1>1, <2>1, SMTT(60)
  <2> QED BY <2>2, <2>3
<1> QED BY <1>2, <1>3, <1>4 DEF S, IsRest

(* A letter inserted behind k others.                                      *)
WithLetter(b, n, k, c) ==
    [j \in DOMAIN b |-> IF j = k THEN c
                        ELSE IF j \in k + 1 .. n THEN b[j - 1] ELSE b[j]]

(* It is what the line becomes, and what is written shows it. *)
LEMMA LetterInserted ==
    ASSUME NEW b, NEW n, IsLine(b, n), n < LineLen - 1, NEW k \in 0 .. n, NEW c \in Letters,
           NEW b2, b2 = WithLetter(b, n, k, c),
           NEW s, s = SubSeq(Text(b2, n + 1), k + 1, n + 1)
    PROVE  /\ IsLine(b2, n + 1)
           /\ Back(Write(LineShown(b, n, k), s), n - k) = LineShown(b2, n + 1, k + 1)
<1>1. LineLen \in Nat /\ n \in Nat /\ n + 1 \in 0 .. LineLen - 1 /\ DOMAIN b = 0 .. LineLen - 1
  BY Sizes DEF IsLine
<1>2. /\ b2 = [j \in 0 .. LineLen - 1 |-> b2[j]]
      /\ b2[k] = c
      /\ \A j \in 0 .. k - 1 : b2[j] = b[j]
      /\ \A j \in k + 1 .. n : b2[j] = b[j - 1]
      /\ \A j \in n + 1 .. LineLen - 1 : b2[j] = b[j]
  BY <1>1 DEF WithLetter
<1>3. \A j \in 0 .. n : b2[j] \in Letters
  <2>1. ASSUME NEW j \in 0 .. n PROVE b2[j] \in Letters
    <3>1. CASE j = k
      BY <1>2, <3>1
    <3>2. CASE j < k
      <4>1. j \in 0 .. k - 1 /\ j \in 0 .. n - 1
        BY <1>1, <3>2
      <4> QED BY <1>2, <4>1 DEF IsLine
    <3>3. CASE j > k
      <4>1. j \in k + 1 .. n /\ j - 1 \in 0 .. n - 1
        BY <1>1, <3>3
      <4> QED BY <1>2, <4>1 DEF IsLine
    <3> QED BY <1>1, <3>1, <3>2, <3>3
  <2> QED BY <2>1
<1>4. \A j \in n + 1 .. LineLen - 1 : b2[j] = Nul
  <2>1. \A j \in n + 1 .. LineLen - 1 : j \in n .. LineLen - 1
    BY <1>1
  <2> QED BY <1>2, <2>1 DEF IsLine
<1>5. IsLine(b2, n + 1)
  <2>1. (n + 1) - 1 = n
    BY <1>1
  <2> QED BY <1>1, <1>2, <1>3, <1>4, <2>1 DEF IsLine
<1>6. /\ Len(s) = n + 1 - k
      /\ \A j \in 1 .. n + 1 - k : s[j] = b2[k + j - 1]
  <2>1. PICK p \in Nat : p = n + 1
    BY <1>1
  <2>2. k \in 0 .. p /\ s = SubSeq(Text(b2, p), k + 1, p)
    BY <1>1, <2>1
  <2>3. IsRest(s, b2, p, k)
    BY ONLY <2>2, p \in Nat, RestOfLine, Zenon
  <2>4. /\ Len(s) = p - k
        /\ \A j \in 1 .. p - k : s[j] = b2[k + j - 1]
    BY ONLY <2>3 DEF IsRest
  <2>5. p - k = n + 1 - k
    BY <1>1, <2>1
  <2> QED BY ONLY <2>4, <2>5
<1> DEFINE m == n + 1 - k
           T == LineShown(b, n, k)
<1>8. T.col = k /\ DOMAIN T.cells = 1 .. LineLen
      /\ \A j \in 1 .. LineLen : T.cells[j] = IF j <= n THEN b[j - 1] ELSE Blank
  BY CellsShown
<1> HIDE DEF T
<1>7. ASSUME NEW j \in 1 .. LineLen
      PROVE  (IF j \in k + 1 .. k + m THEN s[j - k] ELSE T.cells[j])
                = IF j <= n + 1 THEN b2[j - 1] ELSE Blank
  <2>1. CASE j <= k
    <3>1. j - 1 \in 0 .. k - 1 /\ j <= n /\ j \notin k + 1 .. k + m /\ j <= n + 1
      BY <1>1, <2>1
    <3> QED BY <1>2, <1>8, <3>1
  <2>2. CASE j > k /\ j <= n + 1
    <3>1. j \in k + 1 .. k + m /\ j - k \in 1 .. n + 1 - k /\ k + (j - k) - 1 = j - 1
      BY <1>1, <2>2
    <3>2. s[j - k] = b2[j - 1]
      BY <1>6, <3>1
    <3> QED BY <2>2, <3>1, <3>2
  <2>3. CASE j > n + 1
    <3>1. ~ (j <= n) /\ ~ (j <= n + 1) /\ j \notin k + 1 .. k + m
      BY <1>1, <2>3
    <3> QED BY <1>8, <3>1
  <2> QED BY <1>1, <2>1, <2>2, <2>3
<1>9. m \in Nat /\ Len(s) = m /\ k \in Nat /\ n + 1 = k + m
      /\ n - k \in Int /\ n + 1 \in Int /\ (n + 1) - (n - k) = k + 1
  BY <1>1, <1>6
<1> HIDE DEF m
<1>10. Overwrites(T, s, b2, n + 1, n + 1)
  BY <1>7, <1>8, <1>9, ZenonT(60) DEF Overwrites
<1>11. Write(T, s) = LineShown(b2, n + 1, n + 1)
  BY <1>10, Redrawn
<1>12. Back(Write(T, s), n - k) = LineShown(b2, n + 1, k + 1)
  BY <1>9, <1>11, CursorMoved
<1> QED BY <1>5, <1>12 DEF T

(* The letter behind k others removed, with the cursor there.              *)
LEMMA LetterRemoved ==
    ASSUME NEW b, NEW n, IsLine(b, n), NEW k \in 0 .. n - 1,
           NEW b2, b2 = [j \in DOMAIN b |-> IF j = n - 1 THEN Nul
                                            ELSE IF j \in k .. n - 2 THEN b[j + 1] ELSE b[j]],
           NEW s, s = Append(SubSeq(Text(b2, n - 1), k + 1, n - 1), Blank)
    PROVE  /\ IsLine(b2, n - 1)
           /\ Back(Write(LineShown(b, n, k), s), n - k) = LineShown(b2, n - 1, k)
<1>1. LineLen \in Nat /\ n \in Nat /\ n - 1 \in 0 .. LineLen - 1 /\ DOMAIN b = 0 .. LineLen - 1
      /\ n \in 0 .. LineLen - 1
  BY Sizes, SMTT(60) DEF IsLine
<1>2. /\ b2 = [j \in 0 .. LineLen - 1 |-> b2[j]]
      /\ b2[n - 1] = Nul
      /\ \A j \in 0 .. k - 1 : b2[j] = b[j]
      /\ \A j \in k .. n - 2 : b2[j] = b[j + 1]
      /\ \A j \in n .. LineLen - 1 : b2[j] = b[j]
  BY <1>1
<1>3. \A j \in 0 .. n - 2 : b2[j] \in Letters
  <2>1. ASSUME NEW j \in 0 .. n - 2 PROVE b2[j] \in Letters
    <3>1. CASE j < k
      <4>1. j \in 0 .. k - 1 /\ j \in 0 .. n - 1
        BY <1>1, <3>1
      <4> QED BY <1>2, <4>1 DEF IsLine
    <3>2. CASE j >= k
      <4>1. j \in k .. n - 2 /\ j + 1 \in 0 .. n - 1
        BY <1>1, <3>2
      <4> QED BY <1>2, <4>1 DEF IsLine
    <3> QED BY <1>1, <3>1, <3>2
  <2> QED BY <2>1
<1>4. \A j \in n - 1 .. LineLen - 1 : b2[j] = Nul
  <2>1. \A j \in n - 1 .. LineLen - 1 : j = n - 1 \/ j \in n .. LineLen - 1
    BY <1>1
  <2> QED BY <1>2, <2>1 DEF IsLine
<1>5. IsLine(b2, n - 1)
  <2>1. (n - 1) - 1 = n - 2
    BY <1>1
  <2> QED BY <1>1, <1>2, <1>3, <1>4, <2>1 DEF IsLine
<1> DEFINE r == SubSeq(Text(b2, n - 1), k + 1, n - 1)
           m == n - k
           S == {b2[j] : j \in k .. n - 1 - 1}
<1>6. /\ Len(r) = n - 1 - k /\ r \in Seq(S)
      /\ \A j \in 1 .. n - 1 - k : r[j] = b2[k + j - 1]
  <2>1. PICK p \in Nat : p = n - 1
    BY <1>1
  <2>2. k \in 0 .. p /\ r = SubSeq(Text(b2, p), k + 1, p)
    BY <1>1, <2>1
  <2>3. S = {b2[j] : j \in k .. p - 1}
    BY <2>1
  <2> HIDE DEF r, S
  <2>4. IsRest(r, b2, p, k)
    BY ONLY <2>2, p \in Nat, RestOfLine, Zenon
  <2>5. r \in Seq(S)
    BY ONLY <2>3, <2>4, Zenon DEF IsRest
  <2> QED BY <2>1, <2>4, <2>5 DEF IsRest
<1>7. /\ Len(s) = m /\ m \in Nat
      /\ \A j \in 1 .. n - 1 - k : s[j] = b2[k + j - 1]
      /\ s[m] = Blank
  <2>1. s = Append(r, Blank)
    OBVIOUS
  <2> HIDE DEF r, S
  <2>2. r \in Seq(S \cup {Blank}) /\ Blank \in S \cup {Blank}
    BY ONLY <1>6
  <2>3. Len(s) = Len(r) + 1 /\ s[Len(r) + 1] = Blank /\ \A j \in 1 .. Len(r) : s[j] = r[j]
    BY ONLY <2>1, <2>2, AppendProperties
  <2>4. Len(r) + 1 = m /\ m \in Nat
    BY <1>1, <1>6, SMTT(60)
  <2> QED BY <1>6, <2>3, <2>4
<1> HIDE DEF r, S
<1> DEFINE T == LineShown(b, n, k)
<1>8. T.col = k /\ DOMAIN T.cells = 1 .. LineLen
      /\ \A j \in 1 .. LineLen : T.cells[j] = IF j <= n THEN b[j - 1] ELSE Blank
  BY CellsShown
<1> HIDE DEF T
<1>9. ASSUME NEW j \in 1 .. LineLen
      PROVE  (IF j \in k + 1 .. k + m THEN s[j - k] ELSE T.cells[j])
                = IF j <= n - 1 THEN b2[j - 1] ELSE Blank
  <2>1. CASE j <= k
    <3>1. j - 1 \in 0 .. k - 1 /\ j <= n /\ j \notin k + 1 .. k + m /\ j <= n - 1
      BY <1>1, <2>1
    <3> QED BY <1>2, <1>8, <3>1
  <2>2. CASE j > k /\ j <= n - 1
    <3>1. j \in k + 1 .. k + m /\ j - k \in 1 .. n - 1 - k /\ k + (j - k) - 1 = j - 1
      BY <1>1, <2>2
    <3>2. s[j - k] = b2[j - 1]
      BY <1>7, <3>1
    <3> QED BY <2>2, <3>1, <3>2
  <2>3. CASE j = n
    <3>1. j \in k + 1 .. k + m /\ j - k = m /\ ~ (j <= n - 1)
      BY <1>1, <2>3
    <3> QED BY <1>7, <3>1
  <2>4. CASE j > n
    <3>1. ~ (j <= n) /\ ~ (j <= n - 1) /\ j \notin k + 1 .. k + m
      BY <1>1, <2>4
    <3> QED BY <1>8, <3>1
  <2> QED BY <1>1, <2>1, <2>2, <2>3, <2>4
<1>10. /\ n - k \in Int /\ k \in Nat /\ n = k + m /\ n - (n - k) = k
       /\ n \in Int
  BY <1>1
<1> HIDE DEF m
<1>11. Overwrites(T, s, b2, n - 1, n)
  BY <1>7, <1>8, <1>9, <1>10 DEF Overwrites
<1>12. Write(T, s) = LineShown(b2, n - 1, n)
  BY <1>11, Redrawn
<1>13. Back(Write(T, s), n - k) = LineShown(b2, n - 1, k)
  BY <1>10, <1>12, CursorMoved
<1> QED BY <1>5, <1>13 DEF T

(* Moving to the end shows the rest of the line again. *)
LEMMA EndShown ==
    ASSUME NEW b, NEW n, IsLine(b, n), NEW k \in 0 .. n,
           NEW s, s = SubSeq(Text(b, n), k + 1, n)
    PROVE  Write(LineShown(b, n, k), s) = LineShown(b, n, n)
<1>1. LineLen \in Nat /\ n \in Nat /\ k \in Nat /\ n - k \in Nat /\ n = k + (n - k)
  BY Sizes DEF IsLine
<1>2. /\ Len(s) = n - k
      /\ \A j \in 1 .. n - k : s[j] = b[k + j - 1]
  <2>1. IsRest(s, b, n, k)
    BY <1>1, RestOfLine
  <2> QED BY ONLY <2>1 DEF IsRest
<1> DEFINE T == LineShown(b, n, k)
<1>3. T.col = k /\ DOMAIN T.cells = 1 .. LineLen
      /\ \A j \in 1 .. LineLen : T.cells[j] = IF j <= n THEN b[j - 1] ELSE Blank
  BY CellsShown
<1> HIDE DEF T
<1>4. ASSUME NEW j \in 1 .. LineLen
      PROVE  (IF j \in k + 1 .. k + (n - k) THEN s[j - k] ELSE T.cells[j])
                = IF j <= n THEN b[j - 1] ELSE Blank
  <2>1. CASE j \in k + 1 .. n
    <3>1. j \in k + 1 .. k + (n - k) /\ j - k \in 1 .. n - k /\ k + (j - k) - 1 = j - 1 /\ j <= n
      BY <1>1, <2>1
    <3>2. s[j - k] = b[j - 1]
      BY <1>2, <3>1
    <3> QED BY <3>1, <3>2
  <2>2. CASE j \notin k + 1 .. n
    <3>1. j \notin k + 1 .. k + (n - k)
      BY <1>1, <2>2
    <3> QED BY <1>3, <3>1
  <2> QED BY <2>1, <2>2
<1>5. Overwrites(T, s, b, n, n)
  BY <1>1, <1>2, <1>3, <1>4 DEF Overwrites
<1> QED BY <1>5, Redrawn DEF T

(* A text copied over the line, and blanks over what was longer. *)
WithText(b, n, text) ==
    [j \in DOMAIN b |-> IF j < Len(text) THEN text[j + 1] ELSE IF j < n THEN Nul ELSE b[j]]

Rewritten(b, n, k, s, over, b2, m) ==
    Back(Write(Back(LineShown(b, n, k), k), s), over) = LineShown(b2, m, m)

(* This is the text, and it is all that is shown. *)
LEMMA LineReplaced ==
    ASSUME NEW b, NEW n, IsLine(b, n), NEW k \in 0 .. n,
           NEW text \in Seq(Letters), NEW m, m = Len(text), m < LineLen,
           NEW b2, b2 = WithText(b, n, text),
           NEW over, over = IF n > m THEN n - m ELSE 0,
           NEW s, s = Text(b2, m) \o Spaces(over)
    PROVE  IsLine(b2, m) /\ Rewritten(b, n, k, s, over, b2, m)
<1>1. /\ LineLen \in Nat /\ n \in 0 .. LineLen - 1 /\ DOMAIN b = 0 .. LineLen - 1
      /\ m \in 0 .. LineLen - 1 /\ over \in Nat /\ n <= m + over
  BY Sizes, SMTT(60) DEF IsLine
<1>2. \A j \in 0 .. LineLen - 1 : j < n \/ b[j] = Nul
  <2>1. \A j \in 0 .. LineLen - 1 : j < n \/ j \in n .. LineLen - 1
    BY <1>1
  <2> QED BY <1>1, <2>1 DEF IsLine
<1>3. IsLine(b2, m)
  <2>1. b2 = [j \in 0 .. LineLen - 1 |-> b2[j]]
    BY <1>1 DEF WithText
  <2>2. \A j \in 0 .. m - 1 : b2[j] \in Letters
    <3>1. ASSUME NEW j \in 0 .. m - 1 PROVE b2[j] \in Letters
      <4>1. j \in DOMAIN b /\ j < m /\ j + 1 \in 1 .. Len(text)
        BY <1>1
      <4>2. b2[j] = text[j + 1]
        BY <4>1 DEF WithText
      <4> QED BY <4>1, <4>2
    <3> QED BY <3>1
  <2>3. \A j \in m .. LineLen - 1 : b2[j] = Nul
    BY <1>1, <1>2 DEF WithText
  <2> QED BY <1>1, <2>1, <2>2, <2>3 DEF IsLine
<1>4. /\ Len(s) = m + over
      /\ \A j \in 1 .. m : s[j] = b2[j - 1]
      /\ \A j \in m + 1 .. m + over : s[j] = Blank
  <2> DEFINE x == Text(b2, m)
             y == Spaces(over)
  <2>1. x \in Seq(Letters \cup {Blank}) /\ Len(x) = m /\ \A j \in 1 .. m : x[j] = b2[j - 1]
    <3>1. x \in Seq(Letters) /\ Len(x) = m /\ \A j \in 1 .. m : x[j] = b2[j - 1]
      BY ONLY <1>3, TextIsLine, Zenon DEF x
    <3> HIDE DEF x
    <3> QED BY ONLY <3>1
  <2>2. y \in Seq(Letters \cup {Blank}) /\ Len(y) = over /\ \A j \in 1 .. over : y[j] = Blank
    BY <1>1 DEF Spaces
  <2> HIDE DEF x, y
  <2>3. s = x \o y
    BY DEF x, y
  <2>4. /\ Len(s) = m + over
        /\ \A j \in 1 .. m + over : s[j] = IF j <= m THEN x[j] ELSE y[j - m]
    <3> DEFINE C == Letters \cup {Blank}
    <3>1. x \in Seq(C) /\ y \in Seq(C)
      BY <2>1, <2>2
    <3> HIDE DEF C
    <3>2. /\ Len(x \o y) = Len(x) + Len(y)
          /\ \A j \in 1 .. Len(x) + Len(y) :
                (x \o y)[j] = IF j <= Len(x) THEN x[j] ELSE y[j - Len(x)]
      BY ONLY <3>1, ConcatProperties
    <3> QED BY ONLY <2>1, <2>2, <2>3, <3>2
  <2>5. ASSUME NEW j \in 1 .. m PROVE s[j] = b2[j - 1]
    <3>1. j \in 1 .. m + over /\ j <= m
      BY <1>1
    <3> QED BY <2>1, <2>4, <3>1
  <2>6. ASSUME NEW j \in m + 1 .. m + over PROVE s[j] = Blank
    <3>1. j \in 1 .. m + over /\ ~ (j <= m) /\ j - m \in 1 .. over
      BY <1>1
    <3> QED BY <2>2, <2>4, <3>1
  <2> QED BY <2>4, <2>5, <2>6
<1> DEFINE T == LineShown(b, n, 0)
<1>5. Back(LineShown(b, n, k), k) = T
  <2>1. k \in Int /\ k - k = 0
    BY <1>1
  <2> QED BY <2>1, CursorMoved
<1>6. T.col = 0 /\ DOMAIN T.cells = 1 .. LineLen
      /\ \A j \in 1 .. LineLen : T.cells[j] = IF j <= n THEN b[j - 1] ELSE Blank
  BY CellsShown
<1> HIDE DEF T
<1>7. ASSUME NEW j \in 1 .. LineLen
      PROVE  (IF j \in 0 + 1 .. 0 + (m + over) THEN s[j - 0] ELSE T.cells[j])
                = IF j <= m THEN b2[j - 1] ELSE Blank
  <2>0. j - 0 = j /\ 0 + 1 = 1 /\ 0 + (m + over) = m + over
    BY <1>1
  <2>1. CASE j <= m
    <3>1. j \in 1 .. m /\ j \in 1 .. m + over
      BY <1>1, <2>1
    <3> QED BY <1>4, <2>0, <2>1, <3>1
  <2>2. CASE j > m /\ j <= m + over
    <3>1. j \in m + 1 .. m + over /\ j \in 1 .. m + over /\ ~ (j <= m)
      BY <1>1, <2>2
    <3> QED BY <1>4, <2>0, <3>1
  <2>3. CASE j > m + over
    <3>1. j \notin 1 .. m + over /\ ~ (j <= m) /\ ~ (j <= n)
      BY <1>1, <2>3
    <3> QED BY <1>6, <2>0, <3>1
  <2>4. j <= m \/ (j > m /\ j <= m + over) \/ j > m + over
    BY <1>1
  <2> QED BY ONLY <2>1, <2>2, <2>3, <2>4, Zenon
<1>8. /\ m + over \in Nat /\ 0 \in Nat /\ m + over = 0 + (m + over)
      /\ m + over \in Int /\ over \in Int /\ (m + over) - over = m
  BY <1>1
<1>9. Overwrites(T, s, b2, m, m + over)
  BY <1>4, <1>6, <1>7, <1>8 DEF Overwrites
<1>10. Write(T, s) = LineShown(b2, m, m + over)
  BY <1>9, Redrawn
<1>11. Back(Write(T, s), over) = LineShown(b2, m, m)
  <2>1. PICK q \in Int : q = m + over
    BY <1>8
  <2>2. Write(T, s) = LineShown(b2, m, q) /\ q - over = m
    BY <1>8, <1>10, <2>1
  <2>3. Back(LineShown(b2, m, q), over) = LineShown(b2, m, q - over)
    BY ONLY <1>8, q \in Int, CursorMoved, Zenon
  <2> QED BY <1>8, <2>2, <2>3
<1> QED BY <1>3, <1>5, <1>11 DEF Rewritten
-----------------------------------------------------------------------------
(***************************************************************************)
(* The editor's state.                                                     *)
(***************************************************************************)
(* A block holds one of the lines, or nothing that is known. *)
MemTyped(M) == IsMem(M) /\ M.text \in [Blocks -> Lines \cup {NULL}]

(* The slots, the size and the index change, and the text stays. *)
LEMMA SlotsTyped ==
    ASSUME NEW M, MemTyped(M), NEW slots \in [Slots -> Blocks \cup {NULL, Wild}],
           NEW size \in Slots, NEW index \in 0 .. size,
           NEW N, N = [owner |-> M.owner, text |-> M.text, com_hist |-> slots,
                       size |-> size, index |-> index]
    PROVE  MemTyped(N)
<1>1. /\ N.owner = M.owner /\ N.text = M.text /\ N.com_hist = slots
      /\ N.size = size /\ N.index = index
  OBVIOUS
<1> QED BY <1>1 DEF MemTyped, IsMem

(* What is freed keeps what it holds. *)
LEMMA FreeTyped ==
    ASSUME NEW M, MemTyped(M), NEW ptr, NEW N, N = sys_free_mem(M, ptr)
    PROVE  /\ MemTyped(N) /\ N.com_hist = M.com_hist
           /\ N.size = M.size /\ N.index = M.index
<1>1. /\ IsMem(N) /\ N.com_hist = M.com_hist
      /\ N.size = M.size /\ N.index = M.index
  BY FreeFields, ZenonT(60) DEF MemTyped
<1>2. N.text = M.text
  BY DEF sys_free_mem, MemTyped, IsMem
<1> QED BY <1>1, <1>2 DEF MemTyped

(* What is taken holds what its owner writes. *)
LEMMA TakenTyped ==
    ASSUME NEW M, MemTyped(M), NEW a \in Blocks, NEW who \in Owners,
           NEW text \in Lines \cup {NULL}, NEW N, N = Taken(M, a, who, text)
    PROVE  /\ MemTyped(N) /\ N.com_hist = M.com_hist
           /\ N.size = M.size /\ N.index = M.index
<1>1. N = [owner |-> [M.owner EXCEPT ![a] = who],
           text |-> TextsWith(M, a, text), com_hist |-> M.com_hist,
           size |-> M.size, index |-> M.index]
  BY DEF Taken, MemTyped, IsMem, TextsWith
<1>2. /\ [M.owner EXCEPT ![a] = who] \in [Blocks -> Owners]
      /\ TextsWith(M, a, text) \in [Blocks -> Lines \cup {NULL}]
  BY DEF MemTyped, IsMem, TextsWith
<1>3. /\ N.owner = [M.owner EXCEPT ![a] = who] /\ N.text = TextsWith(M, a, text)
      /\ N.com_hist = M.com_hist /\ N.size = M.size /\ N.index = M.index
  BY <1>1
<1> QED BY <1>1, <1>2, <1>3 DEF MemTyped, IsMem

(* A line is stored. *)
LEMMA SetTyped ==
    ASSUME NEW M, MemTyped(M), NEW k \in Slots, NEW command \in Lines,
           NEW N \in hist_set(M, k, command)
    PROVE  MemTyped(N) /\ N.size = M.size /\ N.index = M.index
<1>1. PICK a \in Blocks : N = [Taken(M, a, "history", command) EXCEPT !.com_hist[k] = a]
  BY DEF hist_set, Room
<1> DEFINE T == Taken(M, a, "history", command)
<1>2. /\ MemTyped(T) /\ T.com_hist = M.com_hist
      /\ T.size = M.size /\ T.index = M.index
  <2>1. T = Taken(M, a, "history", command) /\ "history" \in Owners
    BY DEF Owners
  <2> HIDE DEF T
  <2> QED BY <2>1, TakenTyped
<1>3. N = [T EXCEPT !.com_hist[k] = a]
  BY <1>1
<1> HIDE DEF T
<1>4. N = [owner |-> T.owner, text |-> T.text, com_hist |-> [T.com_hist EXCEPT ![k] = a],
           size |-> T.size, index |-> T.index]
  BY <1>2, <1>3 DEF MemTyped, IsMem
<1>5. [T.com_hist EXCEPT ![k] = a] \in [Slots -> Blocks \cup {NULL, Wild}]
      /\ T.size \in Slots /\ T.index \in 0 .. T.size
  BY <1>2 DEF MemTyped, IsMem
<1>6. N.size = T.size /\ N.index = T.index
  BY <1>4
<1> QED BY <1>2, <1>4, <1>5, <1>6, SlotsTyped

(* A line is added. *)
LEMMA AddTyped ==
    ASSUME NEW M, MemTyped(M), NEW command \in Lines, NEW N \in hist_add(M, command)
    PROVE  MemTyped(N)
<1> DEFINE grown == IF M.size < hist_max_size THEN [M EXCEPT !.size = @ + 1]
                    ELSE sys_free_mem(M, M.com_hist[M.size])
<1> DEFINE slots == [k \in Slots |-> IF k \in 2 .. grown.size THEN grown.com_hist[k - 1]
                                     ELSE grown.com_hist[k]]
<1> DEFINE shifted == [grown EXCEPT !.com_hist = slots]
<1>1. MemTyped(grown)
  <2>1. CASE M.size < hist_max_size
    <3>1. grown = [owner |-> M.owner, text |-> M.text, com_hist |-> M.com_hist,
                   size |-> M.size + 1, index |-> M.index]
      BY <2>1 DEF MemTyped, IsMem
    <3>2. PICK n \in Slots : n = M.size + 1 /\ M.index \in 0 .. n
      BY <2>1, SlotFacts DEF MemTyped, IsMem, Slots
    <3>3. M.com_hist \in [Slots -> Blocks \cup {NULL, Wild}]
      BY DEF MemTyped, IsMem
    <3> HIDE DEF grown
    <3> QED BY <3>1, <3>2, <3>3, SlotsTyped
  <2>2. CASE ~ (M.size < hist_max_size)
    <3>1. grown = sys_free_mem(M, M.com_hist[M.size])
      BY <2>2, SMTT(60)
    <3> HIDE DEF grown
    <3> QED BY <3>1, FreeTyped
  <2> QED BY <2>1, <2>2
<1>2. N \in {[new EXCEPT !.com_hist[0] = NULL] : new \in hist_set(shifted, 1, command)}
  <2>1. shifted = Shifted(M)
    BY DEF Shifted
  <2> HIDE DEF shifted
  <2> QED BY <2>1 DEF hist_add
<1> HIDE DEF grown
<1>3. grown.size \in Slots /\ grown.index \in 0 .. grown.size
      /\ grown.com_hist \in [Slots -> Blocks \cup {NULL, Wild}]
  BY <1>1 DEF MemTyped, IsMem
<1>4. slots \in [Slots -> Blocks \cup {NULL, Wild}]
  <2>1. \A k \in 2 .. grown.size : k - 1 \in Slots
    BY <1>3, SlotFacts DEF Slots
  <2> QED BY <1>3, <2>1
<1>5. MemTyped(shifted)
  <2> HIDE DEF slots
  <2>1. shifted = [owner |-> grown.owner, text |-> grown.text, com_hist |-> slots,
                   size |-> grown.size, index |-> grown.index]
    BY <1>1 DEF MemTyped, IsMem
  <2> HIDE DEF shifted
  <2> QED BY <1>1, <1>3, <1>4, <2>1, SlotsTyped
<1> HIDE DEF slots, shifted
<1>6. PICK new \in hist_set(shifted, 1, command) : N = [new EXCEPT !.com_hist[0] = NULL]
  BY <1>2
<1>7. MemTyped(new)
  BY <1>5, SlotFacts, SetTyped
<1>8. /\ N = [owner |-> new.owner, text |-> new.text,
              com_hist |-> [new.com_hist EXCEPT ![0] = NULL],
              size |-> new.size, index |-> new.index]
      /\ [new.com_hist EXCEPT ![0] = NULL] \in [Slots -> Blocks \cup {NULL, Wild}]
      /\ new.size \in Slots /\ new.index \in 0 .. new.size
  BY <1>6, <1>7 DEF MemTyped, IsMem
<1> QED BY <1>7, <1>8, SlotsTyped

(* Another index, within the lines there are. *)
LEMMA IndexTyped ==
    ASSUME NEW M, MemTyped(M), NEW k \in 0 .. M.size, NEW N, N = [M EXCEPT !.index = k]
    PROVE  MemTyped(N)
<1>1. N = [owner |-> M.owner, text |-> M.text, com_hist |-> M.com_hist,
           size |-> M.size, index |-> k]
      /\ M.com_hist \in [Slots -> Blocks \cup {NULL, Wild}] /\ M.size \in Slots
  BY DEF MemTyped, IsMem
<1> QED BY <1>1, SlotsTyped

(* A step back and a step forward. *)
LEMMA StepsTyped ==
    ASSUME NEW M, MemTyped(M)
    PROVE  /\ MemTyped(hist_next(M)) /\ MemTyped(hist_previous(M))
           /\ MemTyped(hist_index_set(M, 0))
<1>1. M.size \in Nat /\ M.index \in 0 .. M.size
  BY SlotFacts DEF MemTyped, IsMem
<1>2. (IF M.index < M.size THEN M.index + 1 ELSE M.index) \in 0 .. M.size
  BY <1>1
<1>3. (IF M.index > 0 THEN M.index - 1 ELSE M.index) \in 0 .. M.size
  BY <1>1
<1>4. 0 \in 0 .. M.size
  BY <1>1
<1>5. MemTyped(hist_next(M))
  <2> DEFINE k == IF M.index < M.size THEN M.index + 1 ELSE M.index
  <2>1. hist_next(M) = [M EXCEPT !.index = k]
    BY DEF hist_next
  <2>2. k \in 0 .. M.size
    BY <1>2
  <2> HIDE DEF k
  <2> QED BY <2>1, <2>2, IndexTyped
<1>6. MemTyped(hist_previous(M))
  <2> DEFINE k == IF M.index > 0 THEN M.index - 1 ELSE M.index
  <2>1. hist_previous(M) = [M EXCEPT !.index = k]
    BY DEF hist_previous
  <2>2. k \in 0 .. M.size
    BY <1>3
  <2> HIDE DEF k
  <2> QED BY <2>1, <2>2, IndexTyped
<1>7. MemTyped(hist_index_set(M, 0))
  BY <1>4, IndexTyped DEF hist_index_set
<1> QED BY <1>5, <1>6, <1>7

(* A process created, or not for want of memory. *)
LEMMA CreatedTyped ==
    ASSUME NEW M, MemTyped(M), NEW new \in pcb_allocate(M)
    PROVE  /\ MemTyped(new.mem)
           /\ new.pcb = NULL \/ (new.pcb \in Blocks /\ new.stack \in Blocks)
<1>1. PICK a \in Blocks :
         LET T == Taken(M, a, "process", NULL)
         IN  \/ new = [mem |-> sys_free_mem(T, a), pcb |-> NULL, stack |-> NULL]
             \/ \E b \in Room(T) :
                   new = [mem |-> Taken(T, b, "process", NULL), pcb |-> a, stack |-> b]
  BY DEF pcb_allocate, Room
<1> DEFINE T == Taken(M, a, "process", NULL)
<1>2. NULL \in Lines \cup {NULL} /\ "process" \in Owners
  BY DEF Owners
<1>3. MemTyped(T)
  <2>1. T = Taken(M, a, "process", NULL)
    OBVIOUS
  <2> HIDE DEF T
  <2> QED BY <1>2, <2>1, TakenTyped
<1>4. \/ new = [mem |-> sys_free_mem(T, a), pcb |-> NULL, stack |-> NULL]
      \/ \E b \in Blocks : new = [mem |-> Taken(T, b, "process", NULL), pcb |-> a, stack |-> b]
  BY <1>1 DEF Room
<1> HIDE DEF T
<1>5. CASE new = [mem |-> sys_free_mem(T, a), pcb |-> NULL, stack |-> NULL]
  <2>1. new.mem = sys_free_mem(T, a) /\ new.pcb = NULL
    BY <1>5
  <2> QED BY <1>3, <2>1, FreeTyped
<1>6. CASE \E b \in Blocks : new = [mem |-> Taken(T, b, "process", NULL), pcb |-> a, stack |-> b]
  <2>1. PICK b \in Blocks : new = [mem |-> Taken(T, b, "process", NULL), pcb |-> a, stack |-> b]
    BY <1>6
  <2>2. new.mem = Taken(T, b, "process", NULL) /\ new.pcb = a /\ new.stack = b
    BY <2>1
  <2>3. MemTyped(new.mem)
    BY <1>2, <1>3, <2>2, TakenTyped
  <2> QED BY <2>2, <2>3
<1> QED BY <1>4, <1>5, <1>6

(* The memory and the processes, in every phase. *)
MemInv == MemTyped(mem) /\ procs \subseteq [pcb : Blocks, stack : Blocks]

(* The line, and what the terminal shows of it. *)
LineInv ==
    /\ phase \in {"executing", "prompt", "reading", "panicked", "overrun"}
    /\ len \in {LineLen, AnswerLen}
    /\ IsLine(buffer, bufferSize) /\ bufferSize <= len - 1
    /\ cursorPos \in 0 .. bufferSize
    /\ screen = LineShown(buffer, bufferSize, cursorPos)

EditorInv == MemInv /\ LineInv

(* The sizes of the line are numbers, and its buffer is the caller's. *)
LEMMA LineSizes ==
    ASSUME LineInv
    PROVE  /\ len \in Nat /\ len >= 1 /\ len <= LineLen /\ LineLen \in Nat
           /\ bufferSize \in Nat /\ cursorPos \in Nat
           /\ bufferSize <= len - 1 /\ cursorPos <= bufferSize
<1>1. bufferSize \in Nat
  BY Sizes DEF LineInv, IsLine
<1> QED BY <1>1, Sizes DEF LineInv

(* No letter has come yet. *)
LEMMA LineEmpty ==
    IsLine(Zeros, 0) /\ Clear = LineShown(Zeros, 0, 0)
<1>1. IsLine(Zeros, 0)
  BY Sizes DEF Zeros, IsLine
<1>2. Clear = LineShown(Zeros, 0, 0)
  <2>1. \A j \in 1 .. LineLen : ~ (j <= 0)
    BY Sizes
  <2>2. [j \in 1 .. LineLen |-> IF j <= 0 THEN Zeros[j - 1] ELSE Blank]
           = [j \in 1 .. LineLen |-> Blank]
    BY <2>1
  <2> QED BY <2>2 DEF Clear, LineShown
<1> QED BY <1>1, <1>2

(* At boot nothing is typed yet, and the heap is free. *)
LEMMA EditorInit == Init => EditorInv
<1> SUFFICES ASSUME Init PROVE EditorInv
  OBVIOUS
<1>1. PICK first \in {NULL, Wild} :
         mem = [owner |-> [a \in Blocks |-> "free"], text |-> [a \in Blocks |-> NULL],
                com_hist |-> [k \in Slots |-> IF k = 0 THEN first ELSE NULL],
                size |-> 0, index |-> 0]
  BY DEF Init, initialize_comhist
<1>2. mem.text \in [Blocks -> Lines \cup {NULL}]
  <2>1. mem.text = [a \in Blocks |-> NULL]
    BY <1>1
  <2> QED BY <2>1
<1>3. IsMem(mem)
  BY OwnerInit DEF OwnerInv, Owned
<1>4. MemInv
  BY <1>2, <1>3 DEF Init, MemInv, MemTyped
<1>5. LineInv
  <2>1. 0 <= LineLen - 1 /\ 0 \in 0 .. 0
    BY Sizes
  <2>2. /\ phase = "reading" /\ len = LineLen /\ buffer = Zeros
        /\ bufferSize = 0 /\ cursorPos = 0 /\ screen = Clear
    BY DEF Init
  <2> QED BY <2>1, <2>2, LineEmpty DEF LineInv
<1> QED BY <1>4, <1>5 DEF EditorInv

(* A key that changes the line to one of n letters, and shows it. *)
LEMMA Edited ==
    ASSUME LineInv, NEW b, NEW n, NEW k, NEW T, NEW seq, Key(seq), Edits(b, n, k, T),
           IsLine(b, n), n <= len - 1, k \in 0 .. n, T = LineShown(b, n, k)
    PROVE  LineInv'
BY DEF LineInv, Key, Edits

(* A letter comes in. *)
LEMMA InsertShown == LineInv /\ Insert => LineInv'
<1> SUFFICES ASSUME LineInv, Insert PROVE LineInv'
  OBVIOUS
<1> DEFINE B(c) == [k \in DOMAIN buffer |->
                       IF k = cursorPos THEN c
                       ELSE IF k \in cursorPos + 1 .. bufferSize THEN buffer[k - 1]
                       ELSE buffer[k]]
           S(b) == SubSeq(Text(b, bufferSize + 1), cursorPos + 1, bufferSize + 1)
           T(s) == Back(Write(screen, s), bufferSize - cursorPos)
<1>1. PICK c \in Letters :
         /\ Key(<<>>) /\ bufferSize < len - 1
         /\ Edits(B(c), bufferSize + 1, cursorPos + 1, T(S(B(c))))
  BY DEF Insert
<1>2. PICK b : b = B(c)
  OBVIOUS
<1>3. PICK s : s = S(b)
  OBVIOUS
<1>4. /\ bufferSize < LineLen - 1 /\ cursorPos \in 0 .. bufferSize
      /\ IsLine(buffer, bufferSize) /\ screen = LineShown(buffer, bufferSize, cursorPos)
      /\ bufferSize + 1 <= len - 1 /\ cursorPos + 1 \in 0 .. bufferSize + 1
      /\ c \in Letters
  BY <1>1, LineSizes, SMTT(60) DEF LineInv
<1>5. /\ IsLine(b, bufferSize + 1)
      /\ Back(Write(LineShown(buffer, bufferSize, cursorPos), s), bufferSize - cursorPos)
            = LineShown(b, bufferSize + 1, cursorPos + 1)
  <2> DEFINE n == bufferSize
  <2>1. IsLine(buffer, n) /\ n < LineLen - 1 /\ cursorPos \in 0 .. n /\ c \in Letters
    BY <1>4
  <2>2. b = WithLetter(buffer, n, cursorPos, c)
    BY <1>2 DEF WithLetter
  <2>3. s = SubSeq(Text(b, n + 1), cursorPos + 1, n + 1)
    BY <1>3
  <2> HIDE DEF n, B, S, T
  <2>4. /\ IsLine(b, n + 1)
        /\ Back(Write(LineShown(buffer, n, cursorPos), s), n - cursorPos)
              = LineShown(b, n + 1, cursorPos + 1)
    BY ONLY <2>1, <2>2, <2>3, LetterInserted, ZenonT(60)
  <2> QED BY <2>4 DEF n
<1>6. T(s) = LineShown(b, bufferSize + 1, cursorPos + 1)
  BY <1>4, <1>5
<1>7. Edits(b, bufferSize + 1, cursorPos + 1, T(s)) /\ Key(<<>>)
  BY <1>1, <1>2, <1>3
<1> HIDE DEF B, S, T
<1> QED BY <1>4, <1>5, <1>6, <1>7, Edited

(* The letter behind k others goes, wherever the cursor was. *)
LEMMA RemovalShown ==
    ASSUME LineInv, NEW k \in 0 .. bufferSize - 1, NEW T, NEW seq, Key(seq), Removes(k, T),
           T = LineShown(buffer, bufferSize, k)
    PROVE  LineInv'
<1> DEFINE B == [j \in DOMAIN buffer |->
                    IF j = bufferSize - 1 THEN Nul
                    ELSE IF j \in k .. bufferSize - 2 THEN buffer[j + 1] ELSE buffer[j]]
           S(b) == Append(SubSeq(Text(b, bufferSize - 1), k + 1, bufferSize - 1), Blank)
<1>1. PICK b : b = B
  OBVIOUS
<1>2. PICK s : s = S(b)
  OBVIOUS
<1>3. Edits(b, bufferSize - 1, k, Back(Write(T, s), bufferSize - k))
  BY <1>1, <1>2 DEF Removes
<1>4. IsLine(buffer, bufferSize)
  BY DEF LineInv
<1>5. /\ IsLine(b, bufferSize - 1)
      /\ Back(Write(LineShown(buffer, bufferSize, k), s), bufferSize - k)
            = LineShown(b, bufferSize - 1, k)
  BY <1>1, <1>2, <1>4, LetterRemoved, ZenonT(60)
<1>6. bufferSize - 1 <= len - 1 /\ k \in 0 .. bufferSize - 1
  BY LineSizes
<1> HIDE DEF B, S
<1> QED BY <1>3, <1>5, <1>6, Edited

(* The letter before the cursor goes, and the cursor steps back first. *)
LEMMA BackspaceShown == LineInv /\ Backspace => LineInv'
<1> SUFFICES ASSUME LineInv, Backspace PROVE LineInv'
  OBVIOUS
<1>1. PICK k : k = cursorPos - 1
  OBVIOUS
<1>2. Key(<<>>) /\ cursorPos > 0 /\ Removes(k, Back(screen, 1))
  BY <1>1 DEF Backspace
<1>3. k \in 0 .. bufferSize - 1 /\ cursorPos \in Int /\ k = cursorPos - 1
  BY <1>1, <1>2, LineSizes
<1>4. Back(screen, 1) = LineShown(buffer, bufferSize, k)
  <2>1. Back(LineShown(buffer, bufferSize, cursorPos), 1)
           = LineShown(buffer, bufferSize, cursorPos - 1)
    BY <1>3, CursorMoved
  <2> QED BY <1>1, <2>1 DEF LineInv
<1> QED BY <1>2, <1>3, <1>4, RemovalShown

(* The letter under the cursor goes. *)
LEMMA DeleteShown == LineInv /\ DeleteKey => LineInv'
<1> SUFFICES ASSUME LineInv, DeleteKey PROVE LineInv'
  OBVIOUS
<1>1. Key(<<"ESC", "[", "3">>) /\ cursorPos < bufferSize /\ Removes(cursorPos, screen)
  BY DEF DeleteKey
<1>2. cursorPos \in 0 .. bufferSize - 1
  BY <1>1, LineSizes
<1>3. screen = LineShown(buffer, bufferSize, cursorPos)
  BY DEF LineInv
<1> QED BY <1>1, <1>2, <1>3, RemovalShown

(* The keys that move the cursor. *)
LEMMA MoveShown ==
    ASSUME LineInv, NEW k \in 0 .. bufferSize, NEW T, MovesTo(k, T),
           T = LineShown(buffer, bufferSize, k)
    PROVE  LineInv'
<1>1. Key(<<"ESC", "[">>) /\ Edits(buffer, bufferSize, k, T)
  BY DEF MovesTo, Arrow
<1>2. IsLine(buffer, bufferSize) /\ bufferSize <= len - 1
  BY DEF LineInv
<1> QED BY <1>1, <1>2, Edited

(* One letter, or the whole line, to the left or to the right. *)
LEMMA MovesShown == LineInv /\ (Left \/ Right \/ Home \/ End) => LineInv'
<1> SUFFICES ASSUME LineInv, Left \/ Right \/ Home \/ End PROVE LineInv'
  OBVIOUS
<1>1. /\ screen = LineShown(buffer, bufferSize, cursorPos)
      /\ IsLine(buffer, bufferSize) /\ cursorPos \in 0 .. bufferSize
  BY DEF LineInv
<1>2. cursorPos \in Int /\ bufferSize \in Nat
  BY LineSizes
<1>3. CASE Left
  <2>1. PICK k \in 0 .. bufferSize : k = cursorPos - 1 /\ MovesTo(k, Back(screen, 1))
    BY <1>1, <1>2, <1>3 DEF Left
  <2>2. Back(screen, 1) = LineShown(buffer, bufferSize, k)
    BY <1>1, <1>2, <2>1, CursorMoved
  <2> QED BY <2>1, <2>2, MoveShown
<1>4. CASE Right
  <2>1. PICK k \in 0 .. bufferSize : k = cursorPos - (-1) /\ MovesTo(k, Back(screen, -1))
    <3>1. cursorPos < bufferSize /\ MovesTo(cursorPos + 1, Back(screen, -1))
      BY <1>4 DEF Right
    <3>2. cursorPos + 1 \in 0 .. bufferSize /\ cursorPos + 1 = cursorPos - (-1)
      BY <1>1, <1>2, <3>1
    <3> QED BY <3>1, <3>2
  <2>2. Back(screen, -1) = LineShown(buffer, bufferSize, k)
    <3>1. PICK d \in Int : d = -1
      OBVIOUS
    <3>2. Back(LineShown(buffer, bufferSize, cursorPos), d)
             = LineShown(buffer, bufferSize, cursorPos - d)
      BY <1>2, CursorMoved
    <3> QED BY <1>1, <2>1, <3>1, <3>2
  <2> QED BY <2>1, <2>2, MoveShown
<1>5. CASE Home
  <2>1. MovesTo(0, Back(screen, cursorPos)) /\ 0 \in 0 .. bufferSize
    BY <1>2, <1>5 DEF Home
  <2>2. Back(screen, cursorPos) = LineShown(buffer, bufferSize, 0)
    <3>1. Back(screen, cursorPos) = LineShown(buffer, bufferSize, cursorPos - cursorPos)
      BY <1>1, <1>2, CursorMoved
    <3>2. cursorPos - cursorPos = 0
      BY <1>2
    <3> QED BY <3>1, <3>2
  <2> QED BY <2>1, <2>2, MoveShown
<1>6. CASE End
  <2>1. PICK s : s = SubSeq(Text(buffer, bufferSize), cursorPos + 1, bufferSize)
    OBVIOUS
  <2>2. MovesTo(bufferSize, Write(screen, s)) /\ bufferSize \in 0 .. bufferSize
    BY <1>2, <1>6, <2>1 DEF End
  <2>3. Write(screen, s) = LineShown(buffer, bufferSize, bufferSize)
    BY ONLY <1>1, <2>1, EndShown, Zenon
  <2> QED BY <2>2, <2>3, MoveShown
<1> QED BY <1>3, <1>4, <1>5, <1>6

(* The keys leave the memory alone. *)
LEMMA KeyTyped ==
    ASSUME MemInv, UNCHANGED <<mem, procs>>
    PROVE  MemInv'
BY DEF MemInv

(* The text an arrow shows is a line that fits. *)
LEMMA TextFits ==
    ASSUME LineInv, NEW M, MemTyped(M), NEW left, MemTyped(left), MemInv,
           NEW text \in Contents(M, Recalled(M)), UNCHANGED <<procs, len>>,
           IF Len(text) < len THEN Replaces(text) /\ mem' = left ELSE Stops("overrun")
    PROVE  LineInv' /\ MemInv'
<1>2. text \in Seq(Letters)
  <2>1. <<>> \in Seq(Letters) /\ Anything \subseteq Seq(Letters)
    BY Sizes DEF Anything, BoundedSeq, SeqOf
  <2>2. Lines \subseteq Seq(Letters)
    BY Sizes DEF Lines, BoundedSeq, SeqOf
  <2>3. ASSUME NEW ptr, ptr \in Blocks, M.text[ptr] # NULL
        PROVE  M.text[ptr] \in Lines
    BY <2>3 DEF MemTyped
  <2> QED BY <2>1, <2>2, <2>3 DEF Contents
<1>3. CASE ~ (Len(text) < len)
  <2>1. Stops("overrun")
    BY <1>3
  <2> QED BY <2>1 DEF Stops, LineInv, MemInv
<1>4. CASE Len(text) < len
  <2> DEFINE wiped == [j \in DOMAIN buffer |-> IF j < bufferSize THEN Nul ELSE buffer[j]]
             B == [j \in DOMAIN buffer |-> IF j < Len(text) THEN text[j + 1] ELSE wiped[j]]
             over(n) == IF bufferSize > n THEN bufferSize - n ELSE 0
             S(b, n) == Text(b, n) \o Spaces(over(n))
  <2>1. Replaces(text) /\ mem' = left
    BY <1>4
  <2>2. PICK m : m = Len(text)
    OBVIOUS
  <2>3. m \in Nat /\ m < LineLen /\ m <= len - 1
    BY <1>2, <1>4, <2>2, LineSizes
  <2>5. PICK b : b = WithText(buffer, bufferSize, text)
    OBVIOUS
  <2>6. b = B
    BY <2>5 DEF WithText
  <2>7. PICK o : o = IF bufferSize > m THEN bufferSize - m ELSE 0
    OBVIOUS
  <2>8. PICK s : s = Text(b, m) \o Spaces(o)
    OBVIOUS
  <2>9. /\ IsLine(buffer, bufferSize) /\ cursorPos \in 0 .. bufferSize
        /\ screen = LineShown(buffer, bufferSize, cursorPos)
    BY DEF LineInv
  <2>10. IsLine(b, m) /\ Rewritten(buffer, bufferSize, cursorPos, s, o, b, m)
    BY ONLY <1>2, <2>2, <2>3, <2>5, <2>7, <2>8, <2>9, LineReplaced, Zenon
  <2>11. strlen(b) = m
    BY <2>10, TextIsLine
  <2>12. /\ buffer' = b /\ bufferSize' = m /\ cursorPos' = m /\ phase' = phase
         /\ screen' = Back(Write(Back(screen, cursorPos), s), o)
    <3>1. /\ buffer' = B /\ bufferSize' = strlen(B) /\ cursorPos' = strlen(B)
          /\ phase' = phase
          /\ screen' = Back(Write(Back(screen, cursorPos), S(B, strlen(B))), over(strlen(B)))
      BY <2>1 DEF Replaces
    <3> HIDE DEF B
    <3> QED BY ONLY <2>6, <2>7, <2>8, <2>11, <3>1
  <2>13. LineInv'
    <3>1. /\ IsLine(buffer', bufferSize') /\ bufferSize' <= len' - 1
          /\ cursorPos' \in 0 .. bufferSize'
          /\ screen' = LineShown(buffer', bufferSize', cursorPos')
      BY <2>3, <2>9, <2>10, <2>12 DEF Rewritten
    <3> QED BY <2>12, <3>1 DEF LineInv
  <2> QED BY <2>1, <2>13 DEF MemInv
<1> QED BY <1>3, <1>4

(* What an arrow does leaves a line that fits, and the memory it is to leave. *)
LEMMA ShownFits ==
    ASSUME LineInv, NEW M, MemTyped(M), NEW left, MemTyped(left), MemInv,
           Shows(M, left), UNCHANGED <<procs, len>>
    PROVE  LineInv' /\ MemInv'
<1>1. CASE Stops("panicked")
  BY <1>1 DEF Stops, LineInv, MemInv
<1>2. CASE \E text \in Contents(M, Recalled(M)) :
             IF Len(text) < len THEN Replaces(text) /\ mem' = left ELSE Stops("overrun")
  BY ONLY LineInv, MemTyped(M), MemTyped(left), MemInv, UNCHANGED <<procs, len>>,
          <1>2, TextFits, Zenon
<1> QED BY <1>1, <1>2 DEF Shows

(* Up saves the line, which is one of the lines, before it shows another. *)
LEMMA UpShown == EditorInv /\ Up => EditorInv'
<1> SUFFICES ASSUME EditorInv, Up PROVE EditorInv'
  OBVIOUS
<1> DEFINE line == Text(buffer, strlen(buffer))
<1>0. UNCHANGED <<procs, len>> /\ LineInv /\ MemInv /\ MemTyped(mem)
  BY DEF Up, Arrow, Key, EditorInv, MemInv
<1>1. line \in Lines
  BY <1>0, TextIsLine DEF LineInv
<1> HIDE DEF line
<1>2. CASE Stops("panicked")
  BY <1>0, <1>2 DEF EditorInv, MemInv, LineInv, Stops
<1>3. CASE \E M \in IF mem.index = 0 THEN hist_set(mem, 0, line) ELSE {mem} :
              Shows(hist_next(M), hist_next(M))
  <2>1. PICK M \in IF mem.index = 0 THEN hist_set(mem, 0, line) ELSE {mem} :
           Shows(hist_next(M), hist_next(M))
    BY <1>3
  <2>2. MemTyped(M)
    BY <1>0, <1>1, <2>1, SlotFacts, SetTyped
  <2>3. MemTyped(hist_next(M))
    BY <2>2, StepsTyped
  <2> QED BY <1>0, <2>1, <2>3, ShownFits DEF EditorInv
<1> QED BY <1>2, <1>3 DEF Up, line

(* Down shows the next line and leaves the draft's block or not. *)
LEMMA DownShown == EditorInv /\ Down => EditorInv'
<1> SUFFICES ASSUME EditorInv, Down PROVE EditorInv'
  OBVIOUS
<1>0. UNCHANGED <<procs, len>> /\ LineInv /\ MemInv /\ MemTyped(mem)
  BY DEF Down, Arrow, Key, EditorInv, MemInv
<1>1. PICK L : L = hist_previous(mem)
  OBVIOUS
<1>2. PICK N : N = IF L.index = 0 THEN sys_free_mem(L, Recalled(L)) ELSE L
  OBVIOUS
<1>3. Shows(L, N)
  BY <1>1, <1>2 DEF Down
<1>4. MemTyped(L)
  BY <1>0, <1>1, StepsTyped
<1>5. MemTyped(N)
  BY <1>2, <1>4, FreeTyped
<1> QED BY <1>0, <1>3, <1>4, <1>5, ShownFits DEF EditorInv

(* The next line begins empty, in a buffer that has room for its end. *)
LEMMA EnterShown == EditorInv /\ Enter => EditorInv'
<1> SUFFICES ASSUME EditorInv, Enter PROVE EditorInv'
  OBVIOUS
<1> DEFINE line  == Text(buffer, bufferSize)
           freed == hist_index_set(sys_free_mem(mem, mem.com_hist[0]), 0)
           kept  == IF bufferSize > 0 THEN hist_add(freed, line) ELSE {freed}
<1>0. procs' = procs /\ LineInv /\ MemInv /\ MemTyped(mem)
  BY DEF Enter, EditorInv, MemInv
<1>1. line \in Lines
  BY <1>0, TextIsLine DEF LineInv
<1>2. MemTyped(freed)
  <2>1. PICK F : F = sys_free_mem(mem, mem.com_hist[0])
    OBVIOUS
  <2>2. MemTyped(F)
    BY <1>0, <2>1, FreeTyped
  <2> QED BY <2>1, <2>2, StepsTyped
<1>3. \/ Stops("panicked") /\ UNCHANGED len
      \/ /\ mem' \in kept /\ Executes(line)
         /\ buffer' = Zeros /\ bufferSize' = 0 /\ cursorPos' = 0 /\ screen' = Clear
  BY DEF Enter
<1> HIDE DEF line, freed
<1>4. \A M \in kept : MemTyped(M)
  BY <1>1, <1>2, AddTyped
<1> HIDE DEF kept
<1>5. CASE Stops("panicked") /\ UNCHANGED len
  BY <1>0, <1>5 DEF EditorInv, MemInv, LineInv, Stops
<1>6. CASE /\ mem' \in kept /\ Executes(line)
           /\ buffer' = Zeros /\ bufferSize' = 0 /\ cursorPos' = 0 /\ screen' = Clear
  <2>1. MemInv'
    BY <1>0, <1>4, <1>6 DEF MemInv
  <2>2. /\ phase' \in {"executing", "prompt", "reading", "panicked"}
        /\ len' \in {LineLen, AnswerLen}
    BY <1>0, <1>6 DEF Executes, LineInv
  <2>3. 0 <= len' - 1 /\ 0 \in 0 .. 0
    <3>1. CASE len' = LineLen
      BY <3>1, Sizes
    <3>2. CASE len' = AnswerLen
      BY <3>2, Sizes
    <3> QED BY <2>2, <3>1, <3>2
  <2>4. LineInv'
    BY <1>6, <2>2, <2>3, LineEmpty DEF LineInv
  <2> QED BY <2>1, <2>4 DEF EditorInv
<1> QED BY <1>3, <1>5, <1>6

(* Processes come and go, and the line stays. *)
LEMMA ProcessesShown == EditorInv /\ (Creates \/ Ends) => EditorInv'
<1> SUFFICES ASSUME EditorInv, Creates \/ Ends PROVE EditorInv'
  OBVIOUS
<1>0. MemTyped(mem) /\ procs \subseteq [pcb : Blocks, stack : Blocks] /\ LineInv
  BY DEF EditorInv, MemInv
<1>1. LineInv'
  BY <1>0 DEF LineInv, Creates, Ends, Leaves, editor
<1>2. MemInv'
  <2>1. CASE Creates
    <3>1. PICK new \in pcb_allocate(mem) :
             /\ mem' = new.mem
             /\ procs' = IF new.pcb = NULL THEN procs
                         ELSE procs \cup {[pcb |-> new.pcb, stack |-> new.stack]}
      BY <2>1 DEF Creates, Leaves
    <3>2. /\ MemTyped(new.mem)
          /\ new.pcb = NULL \/ (new.pcb \in Blocks /\ new.stack \in Blocks)
      BY <1>0, CreatedTyped
    <3> QED BY <1>0, <3>1, <3>2 DEF MemInv
  <2>2. CASE Ends
    <3>1. PICK p \in procs : mem' = pcb_free(mem, p) /\ procs' = procs \ {p}
      BY <2>2 DEF Ends, Leaves
    <3>2. PICK F : F = sys_free_mem(mem, p.stack)
      OBVIOUS
    <3>3. MemTyped(F) /\ mem' = sys_free_mem(F, p.pcb)
      BY <1>0, <3>1, <3>2, FreeTyped DEF pcb_free
    <3>4. MemTyped(mem')
      BY <3>3, FreeTyped
    <3> QED BY <1>0, <3>1, <3>4 DEF MemInv
  <2> QED BY <2>1, <2>2
<1> QED BY <1>1, <1>2 DEF EditorInv

(* Every step. *)
LEMMA EditorNext == EditorInv /\ [Next]_vars => EditorInv'
<1> SUFFICES ASSUME EditorInv, [Next]_vars PROVE EditorInv'
  OBVIOUS
<1>1. CASE EscapeGoesOn \/ Yields \/ Reads \/ Stopped \/ UNCHANGED vars
  <2>1. UNCHANGED <<mem, procs, editor, screen>>
        /\ phase' \in {"prompt", "reading", phase}
    BY <1>1 DEF EscapeGoesOn, Yields, Reads, Stopped, vars
  <2> QED BY <2>1 DEF EditorInv, MemInv, LineInv, editor
<1>2. CASE Insert \/ Backspace \/ DeleteKey \/ Left \/ Right \/ Home \/ End
  <2>1. UNCHANGED <<mem, procs>>
    BY <1>2 DEF Insert, Backspace, DeleteKey, Left, Right, Home, End,
                Removes, MovesTo, Edits, Arrow, Key
  <2>2. LineInv'
    BY <1>2, InsertShown, BackspaceShown, DeleteShown, MovesShown DEF EditorInv
  <2> QED BY <2>1, <2>2, KeyTyped DEF EditorInv
<1> QED
  BY <1>1, <1>2, UpShown, DownShown, EnterShown, ProcessesShown DEF Next

(* The invariant is what TypeOK and ScreenShowsLine say. *)
LEMMA EditorTyped == EditorInv => TypeOK
<1> SUFFICES ASSUME EditorInv PROVE TypeOK
  OBVIOUS
<1>1. /\ IsMem(mem) /\ mem.text \in [Blocks -> Lines \cup {NULL}]
      /\ procs \subseteq [pcb : Blocks, stack : Blocks] /\ LineInv
  BY DEF EditorInv, MemInv, MemTyped
<1>2. IsLine(buffer, bufferSize) /\ strlen(buffer) = bufferSize
      /\ bufferSize \in 0 .. len - 1
  BY <1>1, LineSizes, TextIsLine DEF LineInv
<1>3. buffer = [k \in 0 .. LineLen - 1 |-> IF k < bufferSize THEN buffer[k] ELSE Nul]
  <2>1. \A k \in 0 .. LineLen - 1 : k < bufferSize \/ buffer[k] = Nul
    <3>1. \A k \in 0 .. LineLen - 1 : k < bufferSize \/ k \in bufferSize .. LineLen - 1
      BY <1>1, LineSizes
    <3> QED BY <1>2, <3>1 DEF IsLine
  <2> QED BY <1>2, <2>1 DEF IsLine
<1> QED BY <1>1, <1>2, <1>3 DEF TypeOK, IsMem, Owners, LineInv

(* The screen is that of the buffer in every phase, not only while one is read. *)
LEMMA LineIsShown == EditorInv => ScreenShowsLine
BY DEF EditorInv, LineInv, ScreenShowsLine, LineShown
-----------------------------------------------------------------------------
(* The state of the editor stays typed: a slot below the size is a slot,   *)
(* a block holds a line, and the buffer a string with its end, bufferSize  *)
(* long, whatever keys, lines and processes come.                          *)
THEOREM EditorTypeCorrect == Spec => []TypeOK
BY EditorInit, EditorNext, EditorTyped, PTL DEF Spec

(* The terminal shows the buffer with its cursor where the next letter     *)
(* goes, after any mix of keys and recalled lines.                         *)
THEOREM ScreenCorrect == Spec => []ScreenShowsLine
BY EditorInit, EditorNext, LineIsShown, PTL DEF Spec

(* Nobody's block is given away: not by the history, which frees its slot  *)
(* 0 without knowing whether it did so before, nor by a creation that runs *)
(* out of memory half-way.                                                 *)
THEOREM OneOwnerCorrect == Spec => []OneOwner
<1>1. EditorInv => bufferSize \in Nat
  BY LineSizes DEF EditorInv
<1>2. OwnerInv /\ EditorInv /\ [Next]_vars => (OwnerInv /\ EditorInv)'
  BY <1>1, OwnerNext, EditorNext DEF OwnerStep
<1> QED BY <1>2, OwnerInit, EditorInit, OwnersCounted, PTL DEF Spec

(* No step loses a block, but Up before a line was ever entered.           *)
THEOREM NothingLostCorrect == Spec => NothingLost
<1> DEFINE Inv == OwnerInv /\ EditorInv
           A == Lost' \subseteq Lost \cup IF mem.size = 0 /\ Up THEN {mem.com_hist[0]} ELSE {}
<1>1. EditorInv => bufferSize \in Nat
  BY LineSizes DEF EditorInv
<1>2. Init => Inv
  BY OwnerInit, EditorInit
<1>3. Inv /\ [Next]_vars => Inv' /\ [A]_vars
  <2>1. SUFFICES ASSUME Inv, [Next]_vars PROVE Inv' /\ A
    OBVIOUS
  <2>2. OwnerStep /\ EditorInv'
    BY <1>1, <2>1, OwnerNext, EditorNext
  <2>3. Lost = LostIn(mem, procs) /\ OwnerInv'
    BY <2>1, <2>2, LostCounted DEF OwnerStep
  <2>4. Lost' = LostIn(mem, procs)'
    BY <2>3, LostCountedNext
  <2> QED BY <2>2, <2>3, <2>4 DEF OwnerStep, MayLose
<1>4. NothingLost <=> [][A]_vars
  BY DEF NothingLost
<1> HIDE DEF Inv, A
<1> QED BY <1>2, <1>3, <1>4, PTL DEF Spec
-----------------------------------------------------------------------------
(***************************************************************************)
(* What the user is promised of a line.  A block of the history holds one. *)
(***************************************************************************)
TextsKept(M) == \A a \in Blocks : M.owner[a] = "history" => M.text[a] # NULL

(* The line the user went back from has its block until he returns. *)
DraftHeld(M) ==
    M.index > 0 => M.com_hist[0] \in Blocks /\ M.owner[M.com_hist[0]] = "history"

(* The block in slot 0, freed or not, holds a line that fits l bytes. *)
DraftFits(M, l) ==
    M.com_hist[0] \in Blocks =>
       M.text[M.com_hist[0]] \in Lines /\ Len(M.text[M.com_hist[0]]) < l

Kept(M, P) == Owned(M, P) /\ MemTyped(M) /\ TextsKept(M) /\ DraftHeld(M)

Past(M) == [k \in 1 .. M.size |-> M.text[M.com_hist[k]]]

Draft(M) == IF M.index = 0 THEN <<>> ELSE M.text[M.com_hist[0]]

(* Block by block: b is freed; a gets this owner and this text. *)
FreedIn(M, b, N) ==
    \A c \in Blocks : /\ N.owner[c] = IF c = b THEN "free" ELSE M.owner[c]
                      /\ N.text[c] = M.text[c]

TakenIn(M, a, who, text, N) ==
    \A c \in Blocks : /\ N.owner[c] = IF c = a THEN who ELSE M.owner[c]
                      /\ N.text[c] = IF c = a THEN text
                                     ELSE IF M.owner[c] = "free" THEN NULL ELSE M.text[c]

SameSlots(M, N) == N.com_hist = M.com_hist /\ N.size = M.size /\ N.index = M.index

LEMMA FreeIs ==
    ASSUME NEW M, MemTyped(M), NEW ptr, NEW N, N = sys_free_mem(M, ptr)
    PROVE  MemTyped(N) /\ SameSlots(M, N) /\ FreedIn(M, ptr, N)
<1>1. MemTyped(N) /\ SameSlots(M, N)
  BY FreeTyped DEF SameSlots
<1>2. M.owner \in [Blocks -> Owners] /\ M.text \in [Blocks -> Lines \cup {NULL}]
      /\ M = [owner |-> M.owner, text |-> M.text, com_hist |-> M.com_hist,
              size |-> M.size, index |-> M.index]
  BY DEF MemTyped, IsMem
<1>3. CASE ptr \in Blocks
  <2>1. N = [owner |-> [M.owner EXCEPT ![ptr] = "free"],
             text |-> M.text, com_hist |-> M.com_hist,
             size |-> M.size, index |-> M.index]
    BY <1>2, <1>3 DEF sys_free_mem
  <2>2. N.owner = [M.owner EXCEPT ![ptr] = "free"] /\ N.text = M.text
    BY <2>1
  <2>3. FreedIn(M, ptr, N)
    BY <1>2, <2>2 DEF FreedIn
  <2> QED BY <1>1, <2>3
<1>4. CASE ptr \notin Blocks
  <2>1. N = M
    BY <1>4 DEF sys_free_mem
  <2>2. FreedIn(M, ptr, N)
    BY <1>4, <2>1 DEF FreedIn
  <2> QED BY <1>1, <2>2
<1> QED BY <1>3, <1>4

LEMMA TakenIs ==
    ASSUME NEW M, MemTyped(M), NEW a \in Blocks, NEW who \in Owners,
           NEW text \in Lines \cup {NULL}, NEW N, N = Taken(M, a, who, text)
    PROVE  MemTyped(N) /\ SameSlots(M, N) /\ TakenIn(M, a, who, text, N)
<1>1. MemTyped(N) /\ SameSlots(M, N)
  BY TakenTyped DEF SameSlots
<1>2. M.owner \in [Blocks -> Owners] /\ M.text \in [Blocks -> Lines \cup {NULL}]
      /\ M = [owner |-> M.owner, text |-> M.text, com_hist |-> M.com_hist,
              size |-> M.size, index |-> M.index]
  BY DEF MemTyped, IsMem
<1>3. N = [owner |-> [M.owner EXCEPT ![a] = who], text |-> TextsWith(M, a, text),
           com_hist |-> M.com_hist, size |-> M.size, index |-> M.index]
  BY <1>2 DEF Taken, TextsWith
<1>4. N.owner = [M.owner EXCEPT ![a] = who] /\ N.text = TextsWith(M, a, text)
  BY <1>3
<1>5. TakenIn(M, a, who, text, N)
  BY <1>2, <1>4 DEF TakenIn, TextsWith
<1> QED BY <1>1, <1>5

(* A line is stored in a block that was free, and slot k points there.     *)
LineStored(M, k, a, command, N) ==
    /\ MemTyped(N) /\ N.size = M.size /\ N.index = M.index
    /\ M.owner[a] = "free"
    /\ TakenIn(M, a, "history", command, N)
    /\ N.com_hist = [M.com_hist EXCEPT ![k] = a]

LEMMA SetIs ==
    ASSUME NEW M, MemTyped(M), NEW k \in Slots, NEW command \in Lines,
           NEW N \in hist_set(M, k, command)
    PROVE  \E a \in Blocks : LineStored(M, k, a, command, N)
<1>1. PICK a \in Blocks : /\ M.owner[a] = "free"
                          /\ N = [Taken(M, a, "history", command) EXCEPT !.com_hist[k] = a]
  BY DEF hist_set, Room
<1>2. PICK T : T = Taken(M, a, "history", command)
  OBVIOUS
<1>3. MemTyped(T) /\ SameSlots(M, T) /\ TakenIn(M, a, "history", command, T)
  BY <1>2, TakenIs DEF Owners
<1>4. T = [owner |-> T.owner, text |-> T.text, com_hist |-> T.com_hist,
           size |-> T.size, index |-> T.index]
  BY <1>3 DEF MemTyped, IsMem
<1>5. N = [owner |-> T.owner, text |-> T.text, com_hist |-> [T.com_hist EXCEPT ![k] = a],
           size |-> T.size, index |-> T.index]
  BY <1>1, <1>2, <1>4
<1>6. /\ N.owner = T.owner /\ N.text = T.text /\ N.com_hist = [T.com_hist EXCEPT ![k] = a]
      /\ N.size = T.size /\ N.index = T.index
  BY <1>5
<1>7. MemTyped(N)
  BY SetTyped
<1>8. TakenIn(M, a, "history", command, N)
  BY <1>3, <1>6 DEF TakenIn
<1>9. N.com_hist = [M.com_hist EXCEPT ![k] = a] /\ N.size = M.size /\ N.index = M.index
  BY <1>3, <1>6 DEF SameSlots
<1> QED BY <1>1, <1>7, <1>8, <1>9 DEF LineStored

(* Lines whose blocks are left alone stay the past.                        *)
LEMMA SamePast ==
    ASSUME NEW M, NEW N, N.size = M.size,
           \A k \in 1 .. M.size : /\ N.com_hist[k] = M.com_hist[k]
                                  /\ N.text[M.com_hist[k]] = M.text[M.com_hist[k]]
    PROVE  Past(N) = Past(M)
BY DEF Past

(* A block that is free, or the draft's, holds none of the past lines.     *)
LEMMA LineBlocks ==
    ASSUME NEW M, NEW P, Owned(M, P)
    PROVE  \A k \in 1 .. M.size :
              /\ M.com_hist[k] \in Blocks /\ M.owner[M.com_hist[k]] = "history"
              /\ M.com_hist[0] # M.com_hist[k]
<1>1. \A k \in 1 .. M.size : M.com_hist[k] \in Blocks /\ M.owner[M.com_hist[k]] = "history"
  BY DEF Owned, LinesOwned
<1>2. ASSUME NEW k \in 1 .. M.size, M.com_hist[0] = M.com_hist[k] PROVE FALSE
  BY <1>1, <1>2 DEF Owned, DraftOwned
<1> QED BY <1>1, <1>2

(* What a slot recalls is what the user may expect. *)
LEMMA RecalledIs ==
    ASSUME NEW M, NEW P, Kept(M, P), M.index > 0
    PROVE  /\ Recalled(M) \in Blocks /\ Recalled(M) # NULL
           /\ Contents(M, Recalled(M)) = {Past(M)[M.index]}
           /\ Past(M)[M.index] \in Lines
<1>1. M.index \in 1 .. M.size
  BY SlotFacts DEF Kept, Owned, IsMem
<1>2. M.com_hist[M.index] \in Blocks /\ M.owner[M.com_hist[M.index]] = "history"
  BY <1>1, LineBlocks DEF Kept
<1>3. M.text[M.com_hist[M.index]] # NULL /\ M.text[M.com_hist[M.index]] \in Lines \cup {NULL}
  BY <1>2 DEF Kept, TextsKept, MemTyped
<1>4. Past(M)[M.index] = M.text[M.com_hist[M.index]]
  BY <1>1 DEF Past
<1> QED BY <1>2, <1>3, <1>4, NullIsNoBlock DEF Recalled, Contents

(* Memory that keeps its lines does so when the text of a block in use is  *)
(* left alone.                                                             *)
LEMMA TextsFreed ==
    ASSUME NEW M, TextsKept(M), NEW b, NEW N, FreedIn(M, b, N)
    PROVE  TextsKept(N)
<1>1. ASSUME NEW a \in Blocks, N.owner[a] = "history" PROVE N.text[a] # NULL
  <2>1. /\ N.owner[a] = IF a = b THEN "free" ELSE M.owner[a]
        /\ N.text[a] = M.text[a]
    BY DEF FreedIn
  <2>2. a # b /\ M.owner[a] = "history"
    BY <1>1, <2>1
  <2> QED BY <2>1, <2>2 DEF TextsKept
<1> QED BY <1>1 DEF TextsKept

LEMMA TextsTaken ==
    ASSUME NEW M, TextsKept(M), NEW a, NEW who, NEW text, who = "history" => text # NULL,
           NEW N, TakenIn(M, a, who, text, N)
    PROVE  TextsKept(N)
<1>1. ASSUME NEW c \in Blocks, N.owner[c] = "history" PROVE N.text[c] # NULL
  <2>1. /\ N.owner[c] = IF c = a THEN who ELSE M.owner[c]
        /\ N.text[c] = IF c = a THEN text
                       ELSE IF M.owner[c] = "free" THEN NULL ELSE M.text[c]
    BY DEF TakenIn
  <2>2. CASE c = a
    BY <1>1, <2>1, <2>2
  <2>3. CASE c # a
    BY <1>1, <2>1, <2>3 DEF TextsKept
  <2> QED BY <2>2, <2>3
<1> QED BY <1>1 DEF TextsKept

LEMMA PastFreed ==
    ASSUME NEW M, NEW P, Owned(M, P), NEW b, NEW N, FreedIn(M, b, N), SameSlots(M, N),
           \A k \in 1 .. M.size : b # M.com_hist[k]
    PROVE  Past(N) = Past(M)
<1>1. ASSUME NEW k \in 1 .. M.size
      PROVE  N.com_hist[k] = M.com_hist[k] /\ N.text[M.com_hist[k]] = M.text[M.com_hist[k]]
  <2>1. M.com_hist[k] \in Blocks /\ M.com_hist[k] # b
    BY LineBlocks
  <2> QED BY <2>1 DEF FreedIn, SameSlots
<1> QED BY <1>1, SamePast DEF SameSlots

LEMMA PastTaken ==
    ASSUME NEW M, NEW P, Owned(M, P), NEW a, M.owner[a] = "free", NEW who, NEW text,
           NEW N, TakenIn(M, a, who, text, N), N.size = M.size,
           \A k \in 1 .. M.size : N.com_hist[k] = M.com_hist[k]
    PROVE  Past(N) = Past(M)
<1>1. ASSUME NEW k \in 1 .. M.size
      PROVE  N.com_hist[k] = M.com_hist[k] /\ N.text[M.com_hist[k]] = M.text[M.com_hist[k]]
  <2>1. M.com_hist[k] \in Blocks /\ M.owner[M.com_hist[k]] = "history"
    BY LineBlocks
  <2>2. M.com_hist[k] # a
    BY <2>1
  <2> QED BY <2>1, <2>2 DEF TakenIn
<1> QED BY <1>1, SamePast

(* Up for the first time: the line is saved, and the newest past line is   *)
(* shown; or the line itself when there is none.                           *)
LEMMA LineSaved ==
    ASSUME NEW M, NEW P, Kept(M, P), M.index = 0, NEW command \in Lines,
           NEW S \in hist_set(M, 0, command), NEW N, N = hist_next(S)
    PROVE  /\ Kept(N, P) /\ Past(N) = Past(M)
           /\ N.size = M.size /\ N.index = (IF M.size > 0 THEN 1 ELSE 0)
           /\ N.com_hist[0] \in Blocks /\ N.text[N.com_hist[0]] = command
<1>1. Owned(M, P) /\ MemTyped(M) /\ TextsKept(M) /\ M.size \in Nat /\ 0 \in Slots
  BY SlotFacts DEF Kept, Owned, IsMem
<1>2. PICK a \in Blocks : LineStored(M, 0, a, command, S)
  BY <1>1, SetIs
<1>3. /\ MemTyped(S) /\ S.size = M.size /\ S.index = 0 /\ M.owner[a] = "free"
      /\ TakenIn(M, a, "history", command, S)
      /\ S.com_hist = [M.com_hist EXCEPT ![0] = a]
  BY <1>2 DEF LineStored
<1>4. S = [owner |-> S.owner, text |-> S.text, com_hist |-> S.com_hist,
           size |-> S.size, index |-> S.index]
  BY <1>3 DEF MemTyped, IsMem
<1>5. N = [owner |-> S.owner, text |-> S.text, com_hist |-> S.com_hist,
           size |-> S.size, index |-> IF 0 < S.size THEN 1 ELSE 0]
  BY <1>3, <1>4 DEF hist_next
<1>6. /\ N.owner = S.owner /\ N.text = S.text /\ N.com_hist = S.com_hist /\ N.size = M.size
      /\ N.index = IF M.size > 0 THEN 1 ELSE 0
  BY <1>1, <1>3, <1>5
<1>7. TakenIn(M, a, "history", command, N)
  BY <1>3, <1>6 DEF TakenIn
<1>8. M.com_hist \in [Slots -> Blocks \cup {NULL, Wild}] /\ 0 .. M.size \subseteq Slots
  BY <1>1, SlotFacts DEF MemTyped, IsMem
<1>9. N.com_hist[0] = a /\ \A k \in 1 .. M.size : N.com_hist[k] = M.com_hist[k]
  BY <1>1, <1>3, <1>6, <1>8
<1>10. N.text[a] = command /\ N.owner[a] = "history"
  BY <1>7 DEF TakenIn
<1>11. TextsKept(N)
  BY <1>1, <1>7, NullIsNoLine, TextsTaken
<1>12. Past(N) = Past(M)
  <2>1. /\ Owned(M, P) /\ M.owner[a] = "free" /\ N.size = M.size
        /\ TakenIn(M, a, "history", command, N)
        /\ \A k \in 1 .. M.size : N.com_hist[k] = M.com_hist[k]
    BY <1>1, <1>3, <1>6, <1>7, <1>9
  <2> QED BY ONLY <2>1, PastTaken, Zenon
<1>13. Owned(N, P)
  BY <1>1, DraftStored
<1>14. MemTyped(N)
  BY <1>3, StepsTyped
<1>15. DraftHeld(N)
  BY <1>9, <1>10 DEF DraftHeld
<1> QED BY <1>6, <1>9, <1>10, <1>11, <1>12, <1>13, <1>14, <1>15 DEF Kept

(* Only the index changes. *)
SameBlocks(M, N) ==
    N.owner = M.owner /\ N.text = M.text /\ N.com_hist = M.com_hist /\ N.size = M.size

LEMMA BlocksSame ==
    ASSUME NEW M, NEW N, SameBlocks(M, N)
    PROVE  Past(N) = Past(M) /\ (TextsKept(M) => TextsKept(N))
BY DEF SameBlocks, Past, TextsKept

(* Up from a past line shows the one before it, if any.                    *)
LEMMA WentUp ==
    ASSUME NEW M, NEW P, Kept(M, P), M.index > 0, NEW N, N = hist_next(M)
    PROVE  /\ Kept(N, P) /\ SameBlocks(M, N)
           /\ N.index = (IF M.index < M.size THEN M.index + 1 ELSE M.index)
<1>1. Owned(M, P) /\ MemTyped(M) /\ TextsKept(M) /\ DraftHeld(M) /\ M.index # 0
      /\ M.index \in Nat
  BY SlotFacts DEF Kept, Owned, IsMem
<1>2. M = [owner |-> M.owner, text |-> M.text, com_hist |-> M.com_hist,
           size |-> M.size, index |-> M.index]
  BY <1>1 DEF MemTyped, IsMem
<1>3. N = [owner |-> M.owner, text |-> M.text, com_hist |-> M.com_hist,
           size |-> M.size, index |-> IF M.index < M.size THEN M.index + 1 ELSE M.index]
  BY <1>2 DEF hist_next
<1>4. SameBlocks(M, N) /\ N.index = IF M.index < M.size THEN M.index + 1 ELSE M.index
  BY <1>3 DEF SameBlocks
<1>5. Owned(N, P)
  BY <1>1, UpFurther
<1>6. MemTyped(N)
  BY <1>1, StepsTyped
<1>7. DraftHeld(N)
  BY <1>1, <1>4 DEF DraftHeld, SameBlocks
<1> QED BY <1>1, <1>4, <1>5, <1>6, <1>7, BlocksSame DEF Kept

(* Down goes one line towards the draft, and gives its block back when it  *)
(* has come to it.                                                         *)
LEMMA WentDown ==
    ASSUME NEW M, NEW P, Kept(M, P), NEW L, L = hist_previous(M),
           NEW N, N = IF L.index = 0 THEN sys_free_mem(L, Recalled(L)) ELSE L
    PROVE  /\ Kept(N, P) /\ Past(N) = Past(M) /\ SameBlocks(M, L) /\ N.size = M.size
           /\ L.index = (IF M.index > 0 THEN M.index - 1 ELSE 0) /\ N.index = L.index
           /\ L.index # 0 => N = L
           /\ N.com_hist = M.com_hist /\ \A c \in Blocks : N.text[c] = M.text[c]
<1>1. Owned(M, P) /\ MemTyped(M) /\ TextsKept(M) /\ DraftHeld(M) /\ M.index \in Nat
  BY SlotFacts DEF Kept, Owned, IsMem
<1>2. M = [owner |-> M.owner, text |-> M.text, com_hist |-> M.com_hist,
           size |-> M.size, index |-> M.index]
  BY <1>1 DEF MemTyped, IsMem
<1>3. L = [owner |-> M.owner, text |-> M.text, com_hist |-> M.com_hist,
           size |-> M.size, index |-> IF M.index > 0 THEN M.index - 1 ELSE M.index]
  BY <1>2 DEF hist_previous
<1>4. SameBlocks(M, L) /\ L.index = IF M.index > 0 THEN M.index - 1 ELSE 0
  BY <1>1, <1>3 DEF SameBlocks
<1>5. Past(L) = Past(M) /\ TextsKept(L)
  BY <1>1, <1>4, BlocksSame
<1>6. MemTyped(L)
  BY <1>1, StepsTyped
<1>7. Owned(N, P)
  BY <1>1, DownOwned
<1>8. CASE L.index = 0
  <2>1. N = sys_free_mem(L, M.com_hist[0])
    BY <1>4, <1>8 DEF Recalled, SameBlocks
  <2>2. MemTyped(N) /\ SameSlots(L, N) /\ FreedIn(L, M.com_hist[0], N)
    BY <1>6, <2>1, FreeIs
  <2>3. FreedIn(M, M.com_hist[0], N) /\ N.com_hist = M.com_hist /\ N.size = M.size
        /\ N.index = 0
    BY <1>4, <1>8, <2>2 DEF FreedIn, SameSlots, SameBlocks
  <2>4. ASSUME NEW k \in 1 .. M.size
        PROVE  N.com_hist[k] = M.com_hist[k] /\ N.text[M.com_hist[k]] = M.text[M.com_hist[k]]
    <3>1. M.com_hist[k] \in Blocks /\ M.com_hist[k] # M.com_hist[0]
      BY <1>1, LineBlocks
    <3> QED BY <2>3, <3>1 DEF FreedIn
  <2>5. Past(N) = Past(M)
    BY <2>3, <2>4, SamePast
  <2>6. TextsKept(N) /\ DraftHeld(N)
    BY <1>1, <2>3, TextsFreed DEF DraftHeld
  <2>7. \A c \in Blocks : N.text[c] = M.text[c]
    BY <2>3 DEF FreedIn
  <2> QED BY <1>4, <1>7, <1>8, <2>2, <2>3, <2>5, <2>6, <2>7 DEF Kept
<1>9. CASE L.index # 0
  <2>1. N = L
    BY <1>9
  <2>2. DraftHeld(L)
    BY <1>1, <1>4, <1>9 DEF DraftHeld, SameBlocks
  <2> QED BY <1>4, <1>5, <1>6, <1>7, <1>9, <2>1, <2>2 DEF Kept, SameBlocks
<1> QED BY <1>8, <1>9

(* Enter gives the draft's block back, wherever the user was.              *)
LEMMA DraftGone ==
    ASSUME NEW M, NEW P, Kept(M, P),
           NEW N, N = hist_index_set(sys_free_mem(M, M.com_hist[0]), 0)
    PROVE  /\ Kept(N, P) /\ Past(N) = Past(M) /\ N.index = 0 /\ N.size = M.size
           /\ N.com_hist = M.com_hist /\ FreedIn(M, M.com_hist[0], N)
           /\ N.com_hist[0] \in Blocks => N.owner[N.com_hist[0]] = "free"
<1>1. Owned(M, P) /\ MemTyped(M) /\ TextsKept(M) /\ M.size \in Nat
  BY SlotFacts DEF Kept, Owned, IsMem
<1>2. PICK F : F = sys_free_mem(M, M.com_hist[0])
  OBVIOUS
<1>3. MemTyped(F) /\ SameSlots(M, F) /\ FreedIn(M, M.com_hist[0], F)
  BY <1>1, <1>2, FreeIs
<1>4. F = [owner |-> F.owner, text |-> F.text, com_hist |-> F.com_hist,
           size |-> F.size, index |-> F.index]
  BY <1>3 DEF MemTyped, IsMem
<1>5. N = [F EXCEPT !.index = 0]
  BY <1>2 DEF hist_index_set
<1>6. N = [owner |-> F.owner, text |-> F.text, com_hist |-> F.com_hist,
           size |-> F.size, index |-> 0]
  BY <1>4, <1>5
<1>7. SameBlocks(F, N) /\ N.index = 0 /\ N.size = M.size /\ N.com_hist = M.com_hist
  BY <1>3, <1>6 DEF SameBlocks, SameSlots
<1>8. \A k \in 1 .. M.size : M.com_hist[0] # M.com_hist[k]
  BY <1>1, LineBlocks
<1>9. Past(F) = Past(M)
  BY ONLY <1>1, <1>3, <1>8, PastFreed, Zenon
<1>10. Past(N) = Past(M)
  BY <1>7, <1>9, BlocksSame
<1>11. TextsKept(F)
  BY <1>1, <1>3, TextsFreed
<1>12. TextsKept(N) /\ DraftHeld(N)
  BY <1>7, <1>11, BlocksSame DEF DraftHeld
<1>13. /\ Owned(F, P) /\ F.size = M.size
       /\ F.com_hist[0] \in Blocks => F.owner[F.com_hist[0]] = "free"
  BY <1>1, <1>2, DraftFreed
<1>14. Owned(N, P)
  <2>1. 0 \in 0 .. F.size
    BY <1>1, <1>13
  <2> QED BY ONLY <1>5, <1>13, <2>1, IndexOwned
<1>15. MemTyped(N)
  BY <1>2, <1>3, StepsTyped
<1>16. FreedIn(M, M.com_hist[0], N)
  BY <1>3, <1>7 DEF FreedIn, SameBlocks
<1>17. N.com_hist[0] \in Blocks => N.owner[N.com_hist[0]] = "free"
  BY <1>7, <1>13 DEF SameBlocks
<1> QED BY <1>7, <1>10, <1>12, <1>14, <1>15, <1>16, <1>17 DEF Kept

(* The entered line comes first, and the oldest goes when there are as     *)
(* many as are kept.                                                       *)
AddedTo(past, line, p) ==
    /\ p = [k \in 1 .. Len(p) |-> p[k]]
    /\ Len(p) = IF Len(past) < hist_max_size THEN Len(past) + 1 ELSE hist_max_size
    /\ \A k \in 1 .. Len(p) : p[k] = IF k = 1 THEN line ELSE past[k - 1]

LEMMA PastTyped ==
    ASSUME NEW M, NEW P, Kept(M, P)
    PROVE  Past(M) \in Seq(Lines) /\ Len(Past(M)) = M.size /\ M.size \in 0 .. hist_max_size
<1>1. M.size \in Nat /\ M.size <= hist_max_size /\ hist_max_size \in Nat
  BY SlotFacts DEF Kept, Owned, IsMem
<1>2. ASSUME NEW k \in 1 .. M.size PROVE M.text[M.com_hist[k]] \in Lines
  <2>1. M.com_hist[k] \in Blocks /\ M.owner[M.com_hist[k]] = "history"
    BY LineBlocks DEF Kept
  <2> QED BY <2>1 DEF Kept, TextsKept, MemTyped
<1>3. Past(M) \in [1 .. M.size -> Lines]
  BY <1>2 DEF Past
<1> QED BY <1>1, <1>3

LEMMA LineEntered ==
    ASSUME NEW M, NEW P, Kept(M, P), M.index = 0, NEW command \in Lines,
           M.com_hist[0] \in Blocks => M.owner[M.com_hist[0]] = "free",
           NEW N \in hist_add(M, command)
    PROVE  /\ Kept(N, P) /\ N.index = 0 /\ N.com_hist[0] = NULL
           /\ AddedTo(Past(M), command, Past(N))
<1> DEFINE n == M.size
           grown == IF n < hist_max_size THEN [M EXCEPT !.size = @ + 1]
                    ELSE sys_free_mem(M, M.com_hist[n])
           slots == [k \in Slots |-> IF k \in 2 .. grown.size THEN grown.com_hist[k - 1]
                                     ELSE grown.com_hist[k]]
           shifted == [grown EXCEPT !.com_hist = slots]
<1>1. /\ Owned(M, P) /\ MemTyped(M) /\ TextsKept(M)
      /\ n \in Nat /\ n <= hist_max_size /\ hist_max_size \in Nat \ {0}
      /\ M.com_hist \in [Slots -> Blocks \cup {NULL, Wild}] /\ 1 \in Slots
  BY SlotFacts DEF Kept, Owned, IsMem
<1>2. N \in {[new EXCEPT !.com_hist[0] = NULL] : new \in hist_set(shifted, 1, command)}
  <2>1. shifted = Shifted(M)
    BY DEF Shifted
  <2> HIDE DEF shifted
  <2> QED BY <2>1 DEF hist_add
<1>3. M = [owner |-> M.owner, text |-> M.text, com_hist |-> M.com_hist,
           size |-> n, index |-> 0]
  BY <1>1 DEF MemTyped, IsMem
<1>4. PICK G : G = grown
  OBVIOUS
<1>5. /\ MemTyped(G) /\ G.com_hist = M.com_hist /\ G.index = 0 /\ TextsKept(G)
      /\ G.size = (IF n < hist_max_size THEN n + 1 ELSE hist_max_size)
      /\ \A b \in Blocks : b # M.com_hist[n] \/ n < hist_max_size =>
            G.owner[b] = M.owner[b] /\ G.text[b] = M.text[b]
  <2>1. CASE n < hist_max_size
    <3>1. G = [owner |-> M.owner, text |-> M.text, com_hist |-> M.com_hist,
               size |-> n + 1, index |-> 0]
      BY <1>3, <1>4, <2>1
    <3>2. n + 1 \in Slots /\ 0 \in 0 .. n + 1
      BY <1>1, <2>1 DEF Slots
    <3>3. MemTyped(G)
      BY <1>1, <3>1, <3>2, SlotsTyped
    <3>4. G.owner = M.owner /\ G.text = M.text
      BY <3>1
    <3>5. TextsKept(G)
      BY <1>1, <3>4 DEF TextsKept, SameBlocks
    <3> QED BY <2>1, <3>1, <3>3, <3>5
  <2>2. CASE ~ (n < hist_max_size)
    <3>1. G = sys_free_mem(M, M.com_hist[n]) /\ n = hist_max_size
      BY <1>1, <1>4, <2>2
    <3>2. MemTyped(G) /\ SameSlots(M, G) /\ FreedIn(M, M.com_hist[n], G)
      BY <1>1, <3>1, FreeIs
    <3>3. TextsKept(G)
      BY <1>1, <3>2, TextsFreed
    <3> QED BY <2>2, <3>1, <3>2, <3>3 DEF SameSlots, FreedIn
  <2> QED BY <2>1, <2>2
<1>6. PICK H : H = shifted
  OBVIOUS
<1>7. /\ G = [owner |-> G.owner, text |-> G.text, com_hist |-> G.com_hist,
              size |-> G.size, index |-> G.index]
      /\ G.size \in Slots /\ G.size \in Nat /\ G.size >= 1
  BY <1>1, <1>5 DEF MemTyped, IsMem, Slots
<1> DEFINE s == [k \in Slots |-> IF k \in 2 .. G.size THEN G.com_hist[k - 1]
                                 ELSE G.com_hist[k]]
<1>8. H = [G EXCEPT !.com_hist = s]
  BY <1>4, <1>6
<1> HIDE DEF grown, shifted
<1>9. s \in [Slots -> Blocks \cup {NULL, Wild}]
  <2>1. \A k \in 2 .. G.size : k - 1 \in Slots
    BY <1>1, <1>5, <1>7 DEF Slots
  <2> QED BY <1>1, <1>5, <2>1
<1>10. s[1] = s[1] /\ \A k \in 2 .. G.size : s[k] = M.com_hist[k - 1]
  <2>1. \A k \in 2 .. G.size : k \in Slots
    BY <1>1, <1>7 DEF Slots
  <2> QED BY <1>5, <2>1
<1> HIDE DEF s
<1>11. H = [owner |-> G.owner, text |-> G.text, com_hist |-> s,
            size |-> G.size, index |-> G.index]
  BY <1>7, <1>8
<1>12. /\ H.owner = G.owner /\ H.text = G.text /\ H.com_hist = s
       /\ H.size = G.size /\ H.index = 0
  BY <1>5, <1>11
<1>13. MemTyped(H)
  <2>1. G.index \in 0 .. G.size
    BY <1>5, <1>7
  <2> QED BY <1>5, <1>7, <1>9, <1>11, <2>1, SlotsTyped
<1>14. PICK new \in hist_set(H, 1, command) : N = [new EXCEPT !.com_hist[0] = NULL]
  BY <1>2, <1>6
<1>15. PICK a \in Blocks : LineStored(H, 1, a, command, new)
  BY <1>1, <1>13, <1>14, SetIs
<1>16. /\ MemTyped(new) /\ new.size = G.size /\ new.index = 0 /\ G.owner[a] = "free"
       /\ TakenIn(H, a, "history", command, new) /\ new.com_hist = [s EXCEPT ![1] = a]
  BY <1>12, <1>15 DEF LineStored
<1>17. N = [owner |-> new.owner, text |-> new.text,
            com_hist |-> [new.com_hist EXCEPT ![0] = NULL],
            size |-> new.size, index |-> new.index]
  BY <1>14, <1>16 DEF MemTyped, IsMem
<1>18. /\ N.owner = new.owner /\ N.text = new.text /\ N.size = G.size /\ N.index = 0
       /\ N.com_hist = [[s EXCEPT ![1] = a] EXCEPT ![0] = NULL]
  BY <1>16, <1>17
<1>19. TakenIn(G, a, "history", command, N)
  BY <1>12, <1>16, <1>18 DEF TakenIn
<1>20. N.com_hist[1] = a /\ \A k \in 2 .. G.size : N.com_hist[k] = M.com_hist[k - 1]
  <2>1. \A k \in 1 .. G.size : k \in Slots /\ k # 0
    BY <1>1, <1>7 DEF Slots
  <2> QED BY <1>1, <1>9, <1>10, <1>18, <2>1
<1>21. N.text[a] = command
  BY <1>19 DEF TakenIn
<1>22. ASSUME NEW k \in 2 .. G.size PROVE N.text[N.com_hist[k]] = M.text[M.com_hist[k - 1]]
  <2>1. k - 1 \in 1 .. n
    BY <1>1, <1>5
  <2> DEFINE b == M.com_hist[k - 1]
  <2>2. b \in Blocks /\ M.owner[b] = "history"
    BY <1>1, <2>1, LineBlocks
  <2>3. b # M.com_hist[n] \/ n < hist_max_size
    <3>1. CASE n < hist_max_size
      BY <3>1
    <3>2. CASE ~ (n < hist_max_size)
      <4>1. n \in 1 .. n /\ k - 1 # n
        BY <1>1, <1>5, <3>2
      <4> QED BY <1>1, <2>1, <4>1 DEF Owned, LinesOwned
    <3> QED BY <3>1, <3>2
  <2>4. G.owner[b] = "history" /\ G.text[b] = M.text[b]
    BY <1>5, <2>2, <2>3
  <2>5. b # a
    BY <1>16, <2>4
  <2>6. N.text[b] = M.text[b]
    BY <1>19, <2>2, <2>4, <2>5 DEF TakenIn
  <2> QED BY <1>20, <2>6
<1>23. TextsKept(N)
  BY <1>5, <1>19, NullIsNoLine, TextsTaken
<1>24. Owned(N, P) /\ N.com_hist[0] = NULL
  BY <1>1, LineAdded
<1>25. MemTyped(N)
  BY <1>1, AddTyped
<1>26. Kept(N, P)
  BY <1>18, <1>23, <1>24, <1>25 DEF Kept, DraftHeld
<1>27. Past(N) \in Seq(Lines) /\ Len(Past(N)) = G.size /\ Len(Past(M)) = n
  BY <1>18, <1>26, PastTyped
<1>28. ASSUME NEW k \in 1 .. G.size
       PROVE  Past(N)[k] = IF k = 1 THEN command ELSE Past(M)[k - 1]
  <2>1. Past(N)[k] = N.text[N.com_hist[k]]
    BY <1>18 DEF Past
  <2>2. CASE k = 1
    BY <1>20, <1>21, <2>1, <2>2
  <2>3. CASE k # 1
    <3>1. k \in 2 .. G.size /\ k - 1 \in 1 .. n
      BY <1>1, <1>5, <2>3
    <3>2. Past(M)[k - 1] = M.text[M.com_hist[k - 1]]
      BY <3>1 DEF Past
    <3> QED BY <1>22, <2>1, <2>3, <3>1, <3>2
  <2> QED BY <2>2, <2>3
<1>29. AddedTo(Past(M), command, Past(N))
  BY <1>5, <1>27, <1>28 DEF AddedTo
<1> QED BY <1>18, <1>24, <1>26, <1>29

(* Processes take and give back blocks that are not the history's.         *)
LEMMA ProcessTakes ==
    ASSUME NEW M, NEW P, Kept(M, P), NEW new \in pcb_allocate(M)
    PROVE  /\ MemTyped(new.mem) /\ TextsKept(new.mem) /\ Past(new.mem) = Past(M)
           /\ new.mem.size = M.size /\ new.mem.index = M.index
<1>1. Owned(M, P) /\ MemTyped(M) /\ TextsKept(M) /\ "process" \in Owners
  BY DEF Kept, Owners
<1>2. PICK a \in Blocks :
         /\ M.owner[a] = "free"
         /\ LET T == Taken(M, a, "process", NULL)
            IN  \/ new = [mem |-> sys_free_mem(T, a), pcb |-> NULL, stack |-> NULL]
                \/ \E b \in Room(T) :
                      new = [mem |-> Taken(T, b, "process", NULL), pcb |-> a, stack |-> b]
  BY DEF pcb_allocate, Room
<1>3. PICK T : T = Taken(M, a, "process", NULL)
  OBVIOUS
<1>4. \/ new.mem = sys_free_mem(T, a)
      \/ \E b \in Room(T) : new.mem = Taken(T, b, "process", NULL)
  BY <1>2, <1>3
<1>5. MemTyped(T) /\ SameSlots(M, T) /\ TakenIn(M, a, "process", NULL, T)
  BY <1>1, <1>3, TakenIs
<1>6. TextsKept(T)
  BY <1>1, <1>5, TextsTaken
<1> DEFINE LinesLeft(N) ==
              \A k \in 1 .. M.size : /\ N.com_hist[k] = M.com_hist[k]
                                     /\ N.text[M.com_hist[k]] = M.text[M.com_hist[k]]
<1>7. ASSUME NEW k \in 1 .. M.size
      PROVE  /\ M.com_hist[k] \in Blocks /\ M.com_hist[k] # a
             /\ T.owner[M.com_hist[k]] = "history"
             /\ T.com_hist[k] = M.com_hist[k] /\ T.text[M.com_hist[k]] = M.text[M.com_hist[k]]
  <2>1. M.com_hist[k] \in Blocks /\ M.owner[M.com_hist[k]] = "history"
    BY <1>1, LineBlocks
  <2>2. M.com_hist[k] # a /\ M.owner[M.com_hist[k]] # "free"
    BY <1>2, <2>1
  <2> QED BY <1>5, <2>1, <2>2 DEF TakenIn, SameSlots
<1>8. ASSUME NEW N, MemTyped(N), SameSlots(T, N), TextsKept(N), LinesLeft(N), N = new.mem
      PROVE  /\ MemTyped(new.mem) /\ TextsKept(new.mem) /\ Past(new.mem) = Past(M)
             /\ new.mem.size = M.size /\ new.mem.index = M.index
  <2>1. N.size = M.size /\ N.index = M.index
    BY <1>5, <1>8 DEF SameSlots
  <2>2. Past(N) = Past(M)
    BY <1>8, <2>1, SamePast
  <2> QED BY <1>8, <2>1, <2>2
<1>9. CASE new.mem = sys_free_mem(T, a)
  <2>1. PICK N : N = new.mem
    OBVIOUS
  <2>2. MemTyped(N) /\ SameSlots(T, N) /\ FreedIn(T, a, N)
    BY <1>5, <1>9, <2>1, FreeIs
  <2>3. TextsKept(N)
    BY <1>6, <2>2, TextsFreed
  <2>4. LinesLeft(N)
    BY <1>7, <2>2 DEF SameSlots, FreedIn
  <2> QED BY <1>8, <2>1, <2>2, <2>3, <2>4
<1>10. CASE \E b \in Room(T) : new.mem = Taken(T, b, "process", NULL)
  <2>1. PICK b \in Blocks : T.owner[b] = "free" /\ new.mem = Taken(T, b, "process", NULL)
    BY <1>10 DEF Room
  <2>2. PICK N : N = new.mem
    OBVIOUS
  <2>3. MemTyped(N) /\ SameSlots(T, N) /\ TakenIn(T, b, "process", NULL, N)
    BY <1>1, <1>5, <2>1, <2>2, TakenIs
  <2>4. TextsKept(N)
    BY <1>6, <2>3, TextsTaken
  <2>5. ASSUME NEW k \in 1 .. M.size
        PROVE  /\ N.com_hist[k] = M.com_hist[k]
               /\ N.text[M.com_hist[k]] = M.text[M.com_hist[k]]
    <3>1. M.com_hist[k] # b
      BY <1>7, <2>1
    <3> QED BY <1>7, <2>3, <3>1 DEF SameSlots, TakenIn
  <2> QED BY <1>8, <2>2, <2>3, <2>4, <2>5
<1> QED BY <1>4, <1>9, <1>10

LEMMA ProcessGives ==
    ASSUME NEW M, NEW P, Kept(M, P), NEW p \in P, NEW N, N = pcb_free(M, p)
    PROVE  /\ MemTyped(N) /\ TextsKept(N) /\ Past(N) = Past(M)
           /\ N.size = M.size /\ N.index = M.index /\ DraftHeld(N)
           /\ N.com_hist = M.com_hist /\ \A c \in Blocks : N.text[c] = M.text[c]
<1>1. Owned(M, P) /\ MemTyped(M) /\ TextsKept(M) /\ DraftHeld(M)
  BY DEF Kept
<1>2. M.owner[p.pcb] = "process" /\ M.owner[p.stack] = "process"
  BY <1>1 DEF Owned, ProcsOwned
<1>3. PICK F : F = sys_free_mem(M, p.stack)
  OBVIOUS
<1>4. MemTyped(F) /\ SameSlots(M, F) /\ FreedIn(M, p.stack, F) /\ TextsKept(F)
  BY <1>1, <1>3, FreeIs, TextsFreed
<1>5. N = sys_free_mem(F, p.pcb)
  BY <1>3 DEF pcb_free
<1>6. MemTyped(N) /\ SameSlots(F, N) /\ FreedIn(F, p.pcb, N) /\ TextsKept(N)
  BY <1>4, <1>5, FreeIs, TextsFreed
<1>7. ASSUME NEW k \in 1 .. M.size
      PROVE  N.com_hist[k] = M.com_hist[k] /\ N.text[M.com_hist[k]] = M.text[M.com_hist[k]]
  <2>1. /\ M.com_hist[k] \in Blocks /\ M.com_hist[k] # p.stack /\ M.com_hist[k] # p.pcb
    BY <1>1, <1>2, LineBlocks
  <2> QED BY <1>4, <1>6, <2>1 DEF SameSlots, FreedIn
<1>8. N.size = M.size /\ N.index = M.index /\ N.com_hist = M.com_hist
  BY <1>4, <1>6 DEF SameSlots
<1>9. \A c \in Blocks : N.text[c] = M.text[c]
  BY <1>4, <1>6 DEF FreedIn
<1>10. DraftHeld(N)
  BY <1>1, <1>2, <1>4, <1>6, <1>8 DEF DraftHeld, FreedIn
<1> QED BY <1>6, <1>7, <1>8, <1>9, <1>10, SamePast
-----------------------------------------------------------------------------
(***************************************************************************)
(* Step by step.                                                           *)
(***************************************************************************)
KeptInv == OwnerInv /\ EditorInv /\ Kept(mem, procs) /\ DraftFits(mem, len)

(* What it says of the texts. *)
LinesKept(M, l) == TextsKept(M) /\ DraftHeld(M) /\ DraftFits(M, l)

LEMMA KeptFacts ==
    ASSUME KeptInv
    PROVE  /\ Owned(mem, procs) /\ MemTyped(mem) /\ TextsKept(mem) /\ DraftHeld(mem)
           /\ LineInv /\ MemInv /\ OwnerInv /\ EditorInv /\ Kept(mem, procs)
           /\ DraftFits(mem, len) /\ LinesKept(mem, len)
           /\ Text(buffer, bufferSize) \in Lines /\ Text(buffer, bufferSize) \in Seq(Letters)
           /\ Len(Text(buffer, bufferSize)) = bufferSize /\ strlen(buffer) = bufferSize
           /\ mem.size \in Nat /\ mem.index \in 0 .. mem.size
<1>1. /\ Owned(mem, procs) /\ MemTyped(mem) /\ TextsKept(mem) /\ DraftHeld(mem)
      /\ LineInv /\ MemInv /\ OwnerInv /\ EditorInv /\ Kept(mem, procs)
      /\ DraftFits(mem, len) /\ LinesKept(mem, len)
  BY DEF KeptInv, Kept, EditorInv, LinesKept
<1>2. mem.size \in Nat /\ mem.index \in 0 .. mem.size
  BY <1>1, SlotFacts DEF Owned, IsMem
<1>3. IsLine(buffer, bufferSize)
  BY <1>1 DEF LineInv
<1> QED BY <1>1, <1>2, <1>3, TextIsLine

(* The line that an arrow shows replaces the one in the buffer. *)
LEMMA ReplacedBy ==
    ASSUME LineInv, NEW text \in Seq(Letters), Len(text) < len, Replaces(text)
    PROVE  /\ Text(buffer', bufferSize') = text
           /\ bufferSize' = Len(text) /\ cursorPos' = Len(text) /\ phase' = phase
<1> DEFINE wiped == [j \in DOMAIN buffer |-> IF j < bufferSize THEN Nul ELSE buffer[j]]
           B == [j \in DOMAIN buffer |-> IF j < Len(text) THEN text[j + 1] ELSE wiped[j]]
<1>1. PICK m \in Nat : m = Len(text) /\ m < LineLen
  BY LineSizes
<1>2. PICK b : b = WithText(buffer, bufferSize, text)
  OBVIOUS
<1>3. b = B
  BY <1>2 DEF WithText
<1>4. PICK o : o = IF bufferSize > m THEN bufferSize - m ELSE 0
  OBVIOUS
<1>5. PICK s : s = Text(b, m) \o Spaces(o)
  OBVIOUS
<1>6. /\ IsLine(buffer, bufferSize) /\ cursorPos \in 0 .. bufferSize
  BY DEF LineInv
<1>7. IsLine(b, m)
  BY ONLY text \in Seq(Letters), <1>1, <1>2, <1>4, <1>5, <1>6, LineReplaced, Zenon
<1>8. strlen(b) = m /\ Text(b, m) \in Seq(Letters) /\ Len(Text(b, m)) = m
      /\ \A k \in 1 .. m : Text(b, m)[k] = b[k - 1]
  BY <1>7, TextIsLine
<1>9. buffer' = b /\ bufferSize' = m /\ cursorPos' = m /\ phase' = phase
  <2>1. /\ buffer' = B /\ bufferSize' = strlen(B) /\ cursorPos' = strlen(B)
        /\ phase' = phase
    BY DEF Replaces
  <2> HIDE DEF B
  <2> QED BY ONLY <1>3, <1>8, <2>1
<1>10. ASSUME NEW k \in 1 .. m PROVE Text(b, m)[k] = text[k]
  <2>1. k - 1 \in DOMAIN buffer /\ k - 1 < m /\ (k - 1) + 1 = k
    BY <1>1, <1>6, Sizes DEF IsLine
  <2>2. b[k - 1] = text[k]
    BY <1>1, <1>2, <2>1 DEF WithText
  <2> QED BY <1>8, <2>2
<1>11. Text(b, m) = text
  BY <1>1, <1>8, <1>10, SeqEqual
<1> QED BY <1>1, <1>9, <1>11

(***************************************************************************)
(* The promises, in the terms of the editor.                               *)
(***************************************************************************)
LineNow == Text(buffer, bufferSize)

SameView == /\ Past(mem)' = Past(mem) /\ Draft(mem)' = Draft(mem)
            /\ mem'.index = mem.index /\ len' = len

LEMMA NothingShown ==
    ASSUME SameView, LineNow' = LineNow, cursorPos' = cursorPos
    PROVE  UNCHANGED Promise!vars
BY DEF Promise!vars, SameView, LineNow, Past, Draft

LEMMA SameSequences ==
    /\ \A q, k, e : Promise!InsertAt(q, k, e) = InsertAt(q, k, e)
    /\ \A q, k : Promise!RemoveAt(q, k) = RemoveAt(q, k)
BY DEF Promise!InsertAt, InsertAt, Promise!RemoveAt, RemoveAt

LEMMA LetterTyped ==
    ASSUME SameView, NEW c \in Letters, Len(LineNow) < len - 1,
           LineNow' = InsertAt(LineNow, cursorPos + 1, c), cursorPos' = cursorPos + 1
    PROVE  Promise!Next
<1>1. Promise!Type(c)
  BY SameSequences DEF Promise!Type, Promise!Edit, SameView, LineNow, Past, Draft
<1> QED BY <1>1 DEF Promise!Next

LEMMA LetterGone ==
    ASSUME SameView,
           \/ /\ cursorPos > 0 /\ cursorPos' = cursorPos - 1
              /\ LineNow' = RemoveAt(LineNow, cursorPos)
           \/ /\ cursorPos < Len(LineNow) /\ cursorPos' = cursorPos
              /\ LineNow' = RemoveAt(LineNow, cursorPos + 1)
    PROVE  Promise!Next
<1>1. Promise!Backspace \/ Promise!Delete
  BY SameSequences DEF Promise!Backspace, Promise!Delete, Promise!Edit, SameView, LineNow, Past, Draft
<1> QED BY <1>1 DEF Promise!Next

LEMMA CursorMoves ==
    ASSUME SameView, LineNow' = LineNow, cursorPos' \in 0 .. Len(LineNow),
           cursorPos' \in {cursorPos - 1, cursorPos + 1, 0, Len(LineNow)}
    PROVE  Promise!Next
<1>1. Promise!Move
  BY DEF Promise!Move, Promise!Edit, SameView, LineNow, Past, Draft
<1> QED BY <1>1 DEF Promise!Next

LEMMA WentBack ==
    ASSUME mem'.index = (IF mem.index < Len(Past(mem)) THEN mem.index + 1 ELSE mem.index),
           LineNow' = (IF Past(mem) = <<>> THEN LineNow ELSE Past(mem)[mem'.index]),
           cursorPos' = Len(LineNow'),
           Draft(mem)' = (IF Past(mem) = <<>> \/ mem.index > 0 THEN Draft(mem) ELSE LineNow),
           Past(mem)' = Past(mem), len' = len
    PROVE  Promise!Next
<1>1. Promise!Up
  BY DEF Promise!Up, Promise!Shows, LineNow, Past, Draft
<1> QED BY <1>1, SMTT(60) DEF Promise!Next

LEMMA CameBack ==
    ASSUME \/ /\ mem.index > 0 /\ mem'.index = mem.index - 1
              /\ LineNow' = IF mem.index = 1 THEN Draft(mem) ELSE Past(mem)[mem.index - 1]
           \/ /\ mem.index = 0 /\ mem'.index = mem.index
              /\ \E n \in 0 .. len - 1 : LineNow' \in [1 .. n -> Letters],
           cursorPos' = Len(LineNow'),
           Draft(mem)' = (IF mem'.index = 0 THEN <<>> ELSE Draft(mem)),
           Past(mem)' = Past(mem), len' = len
    PROVE  Promise!Next
<1>1. Promise!Down
  BY DEF Promise!Down, Promise!Shows, LineNow, Past, Draft
<1> QED BY <1>1 DEF Promise!Next

LEMMA LineDone ==
    ASSUME Past(mem)' = (IF LineNow = <<>> THEN Past(mem)
                         ELSE SubSeq(<<LineNow>> \o Past(mem), 1,
                                     IF Len(Past(mem)) < hist_max_size
                                     THEN Len(Past(mem)) + 1 ELSE hist_max_size)),
           LineNow' = <<>>, cursorPos' = 0, mem'.index = 0, Draft(mem)' = <<>>,
           len' \in {LineLen, AnswerLen}
    PROVE  Promise!Next
<1>1. len' - 1 \in {LineLen - 1, AnswerLen - 1}
  OBVIOUS
<1>2. Promise!Enter
  BY <1>1 DEF Promise!Enter, LineNow, Past, Draft
<1> QED BY <1>2 DEF Promise!Next

LEMMA NothingPromised ==
    ASSUME Init PROVE Promise!Init
<1>1. Text(buffer, bufferSize) = <<>>
  BY DEF Init, Text
<1>2. mem.size = 0 /\ mem.index = 0
  BY DEF Init, initialize_comhist
<1>3. [k \in 1 .. mem.size |-> mem.text[mem.com_hist[k]]] = <<>>
  BY <1>2
<1>4. cursorPos = 0 /\ len - 1 \in {LineLen - 1, AnswerLen - 1}
  BY DEF Init
<1> QED BY <1>1, <1>2, <1>3, <1>4 DEF Promise!Init
-----------------------------------------------------------------------------
(* A letter typed into the line, and one that leaves it, as sequences.     *)
LEMMA TextInserted ==
    ASSUME NEW b, NEW n, IsLine(b, n), n < LineLen - 1, NEW k \in 0 .. n, NEW c \in Letters,
           NEW b2, b2 = WithLetter(b, n, k, c)
    PROVE  Text(b2, n + 1) = InsertAt(Text(b, n), k + 1, c)
<1> DEFINE q == Text(b, n)
           r == InsertAt(q, k + 1, c)
           t == Text(b2, n + 1)
<1>1. /\ n \in Nat /\ k \in Nat /\ k <= n /\ LineLen \in Nat
      /\ DOMAIN b = 0 .. LineLen - 1 /\ n + 1 \in Nat
  BY Sizes DEF IsLine
<1>2. q \in Seq(Letters) /\ Len(q) = n /\ \A j \in 1 .. n : q[j] = b[j - 1]
  BY TextIsLine
<1>3. DOMAIN t = 1 .. n + 1 /\ \A j \in 1 .. n + 1 : t[j] = b2[j - 1]
  BY DEF Text
<1>4. k + 1 \in 1 .. Len(q) + 1
  BY <1>1, <1>2
<1> HIDE DEF q, t
<1>5. r \in Seq(Letters) /\ HasInserted(q, k + 1, c, r)
  BY <1>2, <1>4, InsertAtIs
<1> HIDE DEF r
<1>6. /\ Len(r) = n + 1
      /\ \A j \in 1 .. n + 1 :
            r[j] = IF j < k + 1 THEN q[j] ELSE IF j = k + 1 THEN c ELSE q[j - 1]
  BY <1>2, <1>5 DEF HasInserted
<1>7. ASSUME NEW j \in 1 .. n + 1 PROVE t[j] = r[j]
  <2>1. j - 1 \in DOMAIN b /\ j \in Nat
    BY <1>1
  <2>2. t[j] = IF j - 1 = k THEN c ELSE IF j - 1 \in k + 1 .. n THEN b[j - 2] ELSE b[j - 1]
    <3>1. (j - 1) - 1 = j - 2
      BY <2>1
    <3> QED BY <1>3, <2>1, <3>1 DEF WithLetter
  <2>3. CASE j < k + 1
    <3>1. j \in 1 .. n /\ j - 1 # k /\ j - 1 \notin k + 1 .. n
      BY <1>1, <2>3
    <3> QED BY <1>2, <1>6, <2>2, <2>3, <3>1
  <2>4. CASE j = k + 1
    BY <1>1, <1>6, <2>2, <2>4
  <2>5. CASE j > k + 1
    <3>1. /\ j - 1 \in 1 .. n /\ j - 1 # k /\ j - 1 \in k + 1 .. n
          /\ (j - 1) - 1 = j - 2 /\ ~ (j < k + 1) /\ j # k + 1
      BY <1>1, <2>5
    <3>2. q[j - 1] = b[j - 2]
      BY <1>2, <3>1
    <3> QED BY <1>6, <2>2, <3>1, <3>2
  <2> QED BY <1>1, <2>1, <2>3, <2>4, <2>5
<1>8. t \in Seq(Letters)
  <2>1. \A j \in 1 .. n + 1 : r[j] \in Letters
    BY <1>1, <1>5, <1>6
  <2>2. t = [j \in 1 .. n + 1 |-> b2[j - 1]]
    BY DEF t, Text
  <2>3. t \in [1 .. n + 1 -> Letters]
    BY <1>3, <1>7, <2>1, <2>2
  <2> QED BY <1>1, <2>3
<1>9. Len(t) = n + 1
  BY <1>1, <1>3, <1>8
<1>10. t = r
  BY <1>5, <1>6, <1>7, <1>8, <1>9, SeqEqual
<1> QED BY <1>10 DEF t, r, q

WithoutLetter(b, n, k) ==
    [j \in DOMAIN b |-> IF j = n - 1 THEN Nul
                        ELSE IF j \in k .. n - 2 THEN b[j + 1] ELSE b[j]]

LEMMA TextRemoved ==
    ASSUME NEW b, NEW n, IsLine(b, n), NEW k \in 0 .. n - 1,
           NEW b2, b2 = WithoutLetter(b, n, k)
    PROVE  Text(b2, n - 1) = RemoveAt(Text(b, n), k + 1)
<1> DEFINE q == Text(b, n)
           r == RemoveAt(q, k + 1)
           t == Text(b2, n - 1)
<1>1. /\ n \in Nat /\ k \in Nat /\ k <= n - 1 /\ LineLen \in Nat /\ n <= LineLen - 1
      /\ DOMAIN b = 0 .. LineLen - 1 /\ n - 1 \in Nat
  BY Sizes DEF IsLine
<1>2. q \in Seq(Letters) /\ Len(q) = n /\ \A j \in 1 .. n : q[j] = b[j - 1]
  BY TextIsLine
<1>3. DOMAIN t = 1 .. n - 1 /\ \A j \in 1 .. n - 1 : t[j] = b2[j - 1]
  BY DEF Text
<1>4. k + 1 \in 1 .. Len(q)
  BY <1>1, <1>2
<1> HIDE DEF q, t
<1>5. /\ r \in Seq(Letters) /\ Len(r) = n - 1
      /\ \A j \in 1 .. n - 1 : r[j] = IF j < k + 1 THEN q[j] ELSE q[j + 1]
  BY <1>2, <1>4, RemoveAtElements
<1> HIDE DEF r
<1>6. ASSUME NEW j \in 1 .. n - 1 PROVE t[j] = r[j]
  <2>1. j - 1 \in DOMAIN b /\ j \in Nat /\ (j - 1) + 1 = j /\ j - 1 # n - 1
    BY <1>1
  <2>2. t[j] = IF j - 1 \in k .. n - 2 THEN b[j] ELSE b[j - 1]
    BY <1>3, <2>1 DEF WithoutLetter
  <2>3. CASE j < k + 1
    <3>1. j \in 1 .. n /\ j - 1 \notin k .. n - 2
      BY <1>1, <2>3
    <3> QED BY <1>2, <1>5, <2>2, <2>3, <3>1
  <2>4. CASE ~ (j < k + 1)
    <3>1. j + 1 \in 1 .. n /\ j - 1 \in k .. n - 2 /\ (j + 1) - 1 = j
      BY <1>1, <2>4
    <3>2. q[j + 1] = b[j]
      BY <1>2, <3>1
    <3> QED BY <1>5, <2>2, <2>4, <3>1, <3>2
  <2> QED BY <2>3, <2>4
<1>7. t \in Seq(Letters)
  <2>1. \A j \in 1 .. n - 1 : r[j] \in Letters
    BY <1>1, <1>5
  <2>2. t = [j \in 1 .. n - 1 |-> b2[j - 1]]
    BY DEF t, Text
  <2>3. t \in [1 .. n - 1 -> Letters]
    BY <1>3, <1>6, <2>1, <2>2
  <2> QED BY <1>1, <2>3
<1>8. Len(t) = n - 1
  <2>1. PICK m \in Nat : m = n - 1
    BY <1>1
  <2>2. DOMAIN t = 1 .. m
    BY <1>3, <2>1
  <2> QED BY ONLY <1>7, <2>1, <2>2
<1>9. t = r
  BY <1>5, <1>6, <1>7, <1>8, SeqEqual
<1> QED BY <1>9 DEF t, r, q

(* The keys that do not look at the history. *)
KeyPromised ==
    LinesKept(mem', len') /\ [Promise!Next]_(Promise!vars)

LEMMA ViewKept ==
    ASSUME KeptInv, mem' = mem, len' = len
    PROVE  SameView /\ LinesKept(mem', len')
<1>1. LinesKept(mem, len)
  BY KeptFacts
<1>2. LinesKept(mem', len')
  BY <1>1
<1>3. SameView
  BY DEF SameView, Past, Draft
<1> QED BY <1>2, <1>3

LEMMA InsertPromised ==
    ASSUME KeptInv, Insert PROVE KeyPromised
<1>1. PICK c \in Letters :
         /\ bufferSize < len - 1 /\ len' = len /\ mem' = mem
         /\ buffer' = WithLetter(buffer, bufferSize, cursorPos, c)
         /\ bufferSize' = bufferSize + 1 /\ cursorPos' = cursorPos + 1
  BY DEF Insert, Key, Edits, WithLetter
<1>2. /\ IsLine(buffer, bufferSize) /\ cursorPos \in 0 .. bufferSize
      /\ Len(LineNow) = bufferSize /\ len \in Nat /\ len <= LineLen /\ LineLen \in Nat
      /\ bufferSize \in Nat
  BY KeptFacts, LineSizes DEF LineInv, LineNow
<1>3. bufferSize < LineLen - 1
  BY <1>1, <1>2
<1>4. PICK b : b = WithLetter(buffer, bufferSize, cursorPos, c)
  OBVIOUS
<1>5. Text(b, bufferSize + 1) = InsertAt(Text(buffer, bufferSize), cursorPos + 1, c)
  BY <1>2, <1>3, <1>4, TextInserted
<1>6. LineNow' = InsertAt(LineNow, cursorPos + 1, c)
  BY <1>1, <1>4, <1>5 DEF LineNow
<1>7. SameView /\ LinesKept(mem', len')
  BY <1>1, ViewKept
<1>8. Promise!Next
  BY <1>1, <1>2, <1>6, <1>7, LetterTyped
<1> QED BY <1>7, <1>8 DEF KeyPromised

LEMMA RemovalPromised ==
    ASSUME KeptInv, NEW k \in 0 .. bufferSize - 1, NEW T, NEW seq, Key(seq), Removes(k, T),
           \/ k = cursorPos - 1
           \/ k = cursorPos
    PROVE  KeyPromised
<1>1. /\ len' = len /\ mem' = mem /\ cursorPos' = k /\ bufferSize' = bufferSize - 1
      /\ buffer' = WithoutLetter(buffer, bufferSize, k)
  BY DEF Key, Removes, Edits, WithoutLetter
<1>2. /\ IsLine(buffer, bufferSize) /\ cursorPos \in Nat /\ bufferSize \in Nat
      /\ cursorPos <= bufferSize /\ Len(LineNow) = bufferSize
  BY KeptFacts, LineSizes DEF LineInv, LineNow
<1>3. PICK b : b = WithoutLetter(buffer, bufferSize, k)
  OBVIOUS
<1>4. Text(b, bufferSize - 1) = RemoveAt(Text(buffer, bufferSize), k + 1)
  BY <1>2, <1>3, TextRemoved
<1>5. LineNow' = RemoveAt(LineNow, k + 1)
  BY <1>1, <1>3, <1>4 DEF LineNow
<1>6. SameView /\ LinesKept(mem', len')
  BY <1>1, ViewKept
<1>7. \/ /\ cursorPos > 0 /\ cursorPos' = cursorPos - 1
         /\ LineNow' = RemoveAt(LineNow, cursorPos)
      \/ /\ cursorPos < Len(LineNow) /\ cursorPos' = cursorPos
         /\ LineNow' = RemoveAt(LineNow, cursorPos + 1)
  <2>1. CASE k = cursorPos - 1
    <3>1. cursorPos > 0 /\ k + 1 = cursorPos
      BY <1>2, <2>1
    <3> QED BY <1>1, <1>5, <2>1, <3>1
  <2>2. CASE k = cursorPos
    <3>1. cursorPos < Len(LineNow)
      BY <1>2, <2>2
    <3> QED BY <1>1, <1>5, <2>2, <3>1
  <2> QED BY <2>1, <2>2
<1>8. Promise!Next
  BY <1>6, <1>7, LetterGone
<1> QED BY <1>6, <1>8 DEF KeyPromised

LEMMA MovePromised ==
    ASSUME KeptInv, NEW k \in 0 .. bufferSize, NEW T, MovesTo(k, T),
           k \in {cursorPos - 1, cursorPos + 1, 0, bufferSize}
    PROVE  KeyPromised
<1>1. len' = len /\ mem' = mem /\ cursorPos' = k /\ bufferSize' = bufferSize /\ buffer' = buffer
  BY DEF MovesTo, Arrow, Key, Edits
<1>2. Len(LineNow) = bufferSize /\ LineNow' = LineNow
  BY <1>1, KeptFacts DEF LineNow
<1>3. SameView /\ LinesKept(mem', len')
  BY <1>1, ViewKept
<1>4. Promise!Next
  BY <1>1, <1>2, <1>3, CursorMoves
<1> QED BY <1>3, <1>4 DEF KeyPromised

LEMMA KeysPromised ==
    ASSUME KeptInv, Insert \/ Backspace \/ DeleteKey \/ Left \/ Right \/ Home \/ End
    PROVE  KeyPromised
<1>1. bufferSize \in Nat /\ cursorPos \in Nat /\ cursorPos <= bufferSize
  BY KeptFacts, LineSizes
<1>2. CASE Insert
  BY <1>2, InsertPromised
<1>3. CASE Backspace
  <2>1. cursorPos - 1 \in 0 .. bufferSize - 1
    BY <1>1, <1>3 DEF Backspace
  <2>2. Key(<<>>) /\ Removes(cursorPos - 1, Back(screen, 1))
    BY <1>3 DEF Backspace
  <2> QED BY <2>1, <2>2, RemovalPromised
<1>4. CASE DeleteKey
  <2>1. cursorPos \in 0 .. bufferSize - 1
    BY <1>1, <1>4 DEF DeleteKey
  <2>2. Key(<<"ESC", "[", "3">>) /\ Removes(cursorPos, screen)
    BY <1>4 DEF DeleteKey
  <2> QED BY <2>1, <2>2, RemovalPromised
<1>5. CASE Left
  <2>1. cursorPos - 1 \in 0 .. bufferSize /\ MovesTo(cursorPos - 1, Back(screen, 1))
    BY <1>1, <1>5 DEF Left
  <2> QED BY <2>1, MovePromised
<1>6. CASE Right
  <2>1. cursorPos + 1 \in 0 .. bufferSize /\ MovesTo(cursorPos + 1, Back(screen, -1))
    BY <1>1, <1>6 DEF Right
  <2> QED BY <2>1, MovePromised
<1>7. CASE Home
  <2>1. 0 \in 0 .. bufferSize /\ MovesTo(0, Back(screen, cursorPos))
    BY <1>1, <1>7 DEF Home
  <2> QED BY <2>1, MovePromised
<1>8. CASE End
  <2>1. PICK T : MovesTo(bufferSize, T)
    BY <1>8 DEF End
  <2>2. bufferSize \in 0 .. bufferSize
    BY <1>1
  <2> QED BY <2>1, <2>2, MovePromised
<1> QED BY <1>2, <1>3, <1>4, <1>5, <1>6, <1>7, <1>8

(* What an arrow shows is what its slot holds, or the buffer is overrun    *)
(* and nothing is known any more; or a slot that was never written points  *)
(* nowhere, and the kernel stops.                                          *)
Replaced(text, left) ==
    /\ Len(text) < len /\ mem' = left /\ phase' = phase
    /\ LineNow' = text /\ cursorPos' = Len(text)

NothingDone == mem' = mem /\ LineNow' = LineNow /\ cursorPos' = cursorPos

Overrun(text) == ~ (Len(text) < len) /\ phase' = "overrun" /\ NothingDone

Nowhere(M) == Recalled(M) = Wild /\ phase' = "panicked" /\ NothingDone

LEMMA StopsIs ==
    ASSUME NEW how, Stops(how)
    PROVE  phase' = how /\ NothingDone
BY DEF Stops, NothingDone, LineNow

LEMMA TextIs ==
    ASSUME KeptInv, NEW left, NEW text \in Seq(Letters),
           IF Len(text) < len THEN Replaces(text) /\ mem' = left ELSE Stops("overrun")
    PROVE  Replaced(text, left) \/ Overrun(text)
<1>1. LineInv
  BY KeptFacts
<1>2. CASE Len(text) < len
  <2>1. Replaces(text) /\ mem' = left
    BY <1>2
  <2>2. /\ Text(buffer', bufferSize') = text
        /\ cursorPos' = Len(text) /\ phase' = phase
    BY <1>1, <1>2, <2>1, ReplacedBy
  <2> QED BY <1>2, <2>1, <2>2 DEF Replaced, LineNow
<1>3. CASE ~ (Len(text) < len)
  BY <1>3, StopsIs DEF Overrun
<1> QED BY <1>2, <1>3

LEMMA ShownIs ==
    ASSUME KeptInv, NEW M, NEW left, Shows(M, left),
           NEW texts, texts = Contents(M, Recalled(M)), texts \subseteq Seq(Letters)
    PROVE  Nowhere(M) \/ \E text \in texts : Replaced(text, left) \/ Overrun(text)
<1>1. CASE Recalled(M) = Wild /\ Stops("panicked")
  BY <1>1, StopsIs DEF Nowhere
<1>2. CASE \E text \in texts :
             IF Len(text) < len THEN Replaces(text) /\ mem' = left ELSE Stops("overrun")
  BY ONLY KeptInv, texts \subseteq Seq(Letters), <1>2, TextIs, Zenon
<1> QED BY <1>1, <1>2 DEF Shows

LEMMA LinesFit ==
    ASSUME NEW text \in Lines
    PROVE  text \in Seq(Letters) /\ Len(text) \in Nat /\ Len(text) <= LineLen - 1
BY Sizes DEF Lines, BoundedSeq, SeqOf

(* A past line does not fit the buffer. *)
TooLong == len = AnswerLen /\ \E k \in 1 .. mem.size : Len(mem.text[mem.com_hist[k]]) >= len

LEMMA OverrunByAnswer ==
    ASSUME KeptInv, NEW k \in 1 .. mem.size, ~ (Len(Past(mem)[k]) < len)
    PROVE  TooLong
<1>1. Past(mem) \in Seq(Lines) /\ Len(Past(mem)) = mem.size /\ mem.size \in Nat
  BY KeptFacts, PastTyped
<1>2. Past(mem)[k] \in Lines /\ Past(mem)[k] = mem.text[mem.com_hist[k]]
  BY <1>1 DEF Past
<1>3. Len(Past(mem)[k]) \in Nat /\ Len(Past(mem)[k]) <= LineLen - 1 /\ LineLen \in Nat
  BY <1>2, LinesFit, Sizes
<1>4. len \in {LineLen, AnswerLen} /\ len \in Nat
  BY KeptFacts, LineSizes DEF LineInv
<1>5. len = AnswerLen
  BY <1>3, <1>4
<1>6. Len(mem.text[mem.com_hist[k]]) >= len
  BY <1>2, <1>3, <1>4
<1> QED BY <1>5, <1>6 DEF TooLong

(* Nothing of the line and its past changes when the kernel stops.         *)
LEMMA StopKeeps ==
    ASSUME KeptInv, NothingDone, len' = len
    PROVE  KeyPromised
<1>1. SameView /\ LinesKept(mem', len')
  BY ViewKept DEF NothingDone
<1>2. UNCHANGED Promise!vars
  BY <1>1, NothingShown DEF NothingDone
<1> QED BY <1>1, <1>2 DEF KeyPromised

UpEnds == /\ phase' = "overrun" => TooLong
          /\ phase' = "panicked" => mem.index = 0

(* Up, from the line or from a past one. *)
LEMMA UpPromised ==
    ASSUME KeptInv, Up PROVE KeyPromised /\ UpEnds
<1> DEFINE line  == Text(buffer, strlen(buffer))
           saved == IF mem.index = 0 THEN hist_set(mem, 0, line) ELSE {mem}
<1>1. /\ Kept(mem, procs) /\ Owned(mem, procs) /\ mem.index \in Nat
      /\ LineInv /\ mem.size \in Nat /\ mem.index <= mem.size /\ DraftFits(mem, len)
  BY KeptFacts
<1>2. /\ line = LineNow /\ LineNow \in Lines /\ Len(LineNow) = bufferSize
      /\ bufferSize < len
  BY KeptFacts, LineSizes DEF LineNow
<1>3. len' = len /\ procs' = procs /\ phase = "reading"
  BY DEF Up, Arrow, Key, After
<1>4. \/ mem.index = 0 /\ Stops("panicked")
      \/ \E M \in saved : Shows(hist_next(M), hist_next(M))
  BY DEF Up
<1>5. Past(mem) \in Seq(Lines) /\ Len(Past(mem)) = mem.size
  BY <1>1, PastTyped
<1>6. Past(mem) = <<>> <=> mem.size = 0
  BY <1>1, <1>5, EmptySeq
<1> HIDE DEF line
<1>7. CASE mem.index = 0 /\ Stops("panicked")
  <2>1. NothingDone /\ phase' = "panicked"
    BY <1>7, StopsIs
  <2> QED BY <1>3, <1>7, <2>1, StopKeeps DEF UpEnds
<1>8. CASE \E M \in saved : Shows(hist_next(M), hist_next(M))
  <2>1. PICK M \in saved : Shows(hist_next(M), hist_next(M))
    BY <1>8
  <2>2. PICK N : N = hist_next(M)
    OBVIOUS
  <2> DEFINE shown == IF Past(mem) = <<>> THEN LineNow ELSE Past(mem)[N.index]
  <2>3. /\ Kept(N, procs) /\ Past(N) = Past(mem)
        /\ N.index = (IF mem.index < mem.size THEN mem.index + 1 ELSE mem.index)
        /\ Draft(N) = IF Past(mem) = <<>> \/ mem.index > 0 THEN Draft(mem) ELSE LineNow
        /\ mem.size = 0 => /\ N.com_hist[0] \in Blocks /\ N.text[N.com_hist[0]] = LineNow
                           /\ N.index = 0
        /\ DraftFits(N, len)
    <3>1. CASE mem.index = 0
      <4>1. M \in hist_set(mem, 0, LineNow)
        BY <1>2, <2>1, <3>1
      <4>2. /\ Kept(N, procs) /\ Past(N) = Past(mem)
            /\ N.size = mem.size /\ N.index = (IF mem.size > 0 THEN 1 ELSE 0)
            /\ N.com_hist[0] \in Blocks /\ N.text[N.com_hist[0]] = LineNow
        BY <1>1, <1>2, <2>2, <3>1, <4>1, LineSaved
      <4>3. Draft(N) = IF Past(mem) = <<>> \/ mem.index > 0 THEN Draft(mem) ELSE LineNow
        <5>1. CASE mem.size = 0
          BY <1>6, <3>1, <4>2, <5>1 DEF Draft
        <5>2. CASE mem.size # 0
          BY <1>1, <1>6, <3>1, <4>2, <5>2 DEF Draft
        <5> QED BY <5>1, <5>2
      <4>4. DraftFits(N, len)
        BY <1>2, <4>2 DEF DraftFits
      <4> QED BY <1>1, <3>1, <4>2, <4>3, <4>4
    <3>2. CASE mem.index # 0
      <4>1. N = hist_next(mem) /\ mem.index > 0
        BY <1>1, <2>1, <2>2, <3>2
      <4>2. /\ Kept(N, procs) /\ SameBlocks(mem, N)
            /\ N.index = (IF mem.index < mem.size THEN mem.index + 1 ELSE mem.index)
        BY <1>1, <4>1, WentUp
      <4>3. Past(N) = Past(mem)
        BY <4>2, BlocksSame
      <4>4. Draft(N) = Draft(mem)
        <5>1. N.index # 0
          BY <1>1, <4>1, <4>2
        <5> QED BY <3>2, <4>2, <5>1 DEF Draft, SameBlocks
      <4>5. DraftFits(N, len)
        BY <1>1, <4>2 DEF DraftFits, SameBlocks
      <4> QED BY <1>1, <4>1, <4>2, <4>3, <4>4, <4>5
    <3> QED BY <3>1, <3>2
  <2>4. PICK texts : texts = Contents(N, Recalled(N))
    OBVIOUS
  <2>5. texts = {shown} /\ shown \in Lines /\ Recalled(N) \in Blocks
    <3>1. CASE mem.size = 0
      <4>1. Recalled(N) = N.com_hist[0] /\ Recalled(N) # NULL
        BY <2>3, <3>1, NullIsNoBlock DEF Recalled
      <4>2. LineNow # NULL
        BY <1>2, NullIsNoLine
      <4>3. Contents(N, Recalled(N)) = {LineNow}
        BY <2>3, <3>1, <4>1, <4>2 DEF Contents
      <4> QED BY <1>2, <1>6, <2>3, <2>4, <3>1, <4>1, <4>3
    <3>2. CASE mem.size # 0
      <4>1. N.index > 0
        BY <1>1, <2>3, <3>2
      <4>2. /\ Recalled(N) \in Blocks /\ Contents(N, Recalled(N)) = {Past(N)[N.index]}
            /\ Past(N)[N.index] \in Lines
        BY <2>3, <4>1, RecalledIs
      <4> QED BY <1>6, <2>3, <2>4, <3>2, <4>2
    <3> QED BY <3>1, <3>2
  <2>6. shown \in Seq(Letters) /\ Shows(N, N) /\ ~ Nowhere(N)
    BY <2>1, <2>2, <2>5, LinesFit, WildIsNoBlock DEF Nowhere
  <2>7. (Past(mem) = <<>> => Len(shown) < len)
        /\ (Past(mem) # <<>> => N.index \in 1 .. mem.size /\ shown = Past(mem)[N.index])
    BY <1>1, <1>2, <1>6, <2>3
  <2> HIDE DEF shown
  <2>8. Replaced(shown, N) \/ Overrun(shown)
    <3>1. texts \subseteq Seq(Letters)
      BY <2>5, <2>6
    <3>2. Nowhere(N) \/ \E text \in texts : Replaced(text, N) \/ Overrun(text)
      BY <2>4, <2>6, <3>1, ShownIs
    <3> QED BY <2>5, <2>6, <3>2
  <2>9. CASE Replaced(shown, N)
    <3>1. mem' = N /\ phase' = phase /\ LineNow' = shown /\ cursorPos' = Len(shown)
      BY <2>9 DEF Replaced
    <3>2. LinesKept(mem', len')
      BY <1>3, <2>3, <3>1 DEF Kept, LinesKept
    <3>3. /\ mem'.index = (IF mem.index < Len(Past(mem)) THEN mem.index + 1 ELSE mem.index)
          /\ LineNow' = (IF Past(mem) = <<>> THEN LineNow ELSE Past(mem)[mem'.index])
          /\ cursorPos' = Len(LineNow')
      BY <1>5, <2>3, <3>1 DEF shown
    <3>4. /\ Past(mem') = Past(mem)
          /\ Draft(mem') = (IF Past(mem) = <<>> \/ mem.index > 0 THEN Draft(mem) ELSE LineNow)
      BY <2>3, <3>1
    <3>5. /\ Past(mem)' = Past(mem)
          /\ Draft(mem)' = (IF Past(mem) = <<>> \/ mem.index > 0 THEN Draft(mem) ELSE LineNow)
      BY <3>4
    <3>6. Promise!Next
      BY <1>3, <3>3, <3>5, WentBack
    <3> QED BY <1>3, <3>1, <3>2, <3>6 DEF KeyPromised, UpEnds
  <2>10. CASE Overrun(shown)
    <3>1. NothingDone /\ phase' = "overrun" /\ ~ (Len(shown) < len)
      BY <2>10 DEF Overrun
    <3>2. TooLong
      BY <2>7, <3>1, OverrunByAnswer
    <3> QED BY <1>3, <3>1, <3>2, StopKeeps DEF UpEnds
  <2> QED BY <2>8, <2>9, <2>10
<1> QED BY <1>4, <1>7, <1>8

(* What is found through a slot of which nothing is known is some letters. *)
LEMMA AnythingIs ==
    ASSUME NEW M, MemTyped(M), NEW ptr
    PROVE  Contents(M, ptr) \subseteq Seq(Letters)
<1>1. Anything \subseteq Seq(Letters)
  BY Sizes DEF Anything, BoundedSeq, SeqOf
<1>2. Lines \subseteq Seq(Letters) /\ <<>> \in Seq(Letters)
  BY Sizes DEF Lines, BoundedSeq, SeqOf
<1>3. ASSUME ptr \in Blocks, M.text[ptr] # NULL
      PROVE  M.text[ptr] \in Lines
  BY <1>3 DEF MemTyped
<1> QED BY <1>1, <1>2, <1>3 DEF Contents

DownEnds == /\ phase' = "overrun" => TooLong \/ mem.com_hist[0] = Wild
            /\ phase' = "panicked" => mem.com_hist[0] = Wild

(* Down, to a past line, to the draft, or to nothing. *)
LEMMA DownPromised ==
    ASSUME KeptInv, Down PROVE KeyPromised /\ DownEnds
<1>1. /\ Kept(mem, procs) /\ Owned(mem, procs) /\ MemTyped(mem) /\ mem.index \in Nat
      /\ TextsKept(mem) /\ DraftHeld(mem) /\ DraftFits(mem, len)
      /\ LineInv /\ mem.size \in Nat /\ mem.index <= mem.size /\ len \in Nat /\ len >= 1
  BY KeptFacts, LineSizes
<1>2. len' = len /\ phase = "reading"
  BY DEF Down, Arrow, Key, After
<1>3. PICK L : L = hist_previous(mem)
  OBVIOUS
<1>4. PICK N : N = IF L.index = 0 THEN sys_free_mem(L, Recalled(L)) ELSE L
  OBVIOUS
<1>5. Shows(L, N)
  BY <1>3, <1>4 DEF Down
<1>6. /\ Kept(N, procs) /\ Past(N) = Past(mem) /\ SameBlocks(mem, L) /\ N.size = mem.size
      /\ L.index = (IF mem.index > 0 THEN mem.index - 1 ELSE 0) /\ N.index = L.index
      /\ L.index # 0 => N = L
      /\ N.com_hist = mem.com_hist /\ \A c \in Blocks : N.text[c] = mem.text[c]
  BY <1>1, <1>3, <1>4, WentDown
<1>7. MemTyped(L) /\ mem.com_hist[0] \in Blocks \cup {NULL, Wild}
  BY <1>1, <1>3, StepsTyped, SlotFacts DEF MemTyped, IsMem
<1>8. Draft(N) = IF N.index = 0 THEN <<>> ELSE Draft(mem)
  <2>1. CASE N.index = 0
    BY <2>1 DEF Draft
  <2>2. CASE N.index # 0
    <3>1. N = L /\ mem.index # 0
      BY <1>6, <2>2
    <3> QED BY <1>6, <2>2, <3>1 DEF Draft, SameBlocks
  <2> QED BY <2>1, <2>2
<1>9. PICK texts : texts = Contents(L, Recalled(L))
  OBVIOUS
<1>10. texts \subseteq Seq(Letters)
  BY <1>7, <1>9, AnythingIs
<1>11. Nowhere(L) \/ \E text \in texts : Replaced(text, N) \/ Overrun(text)
  BY <1>5, <1>9, <1>10, ShownIs
<1>12. CASE L.index > 0
  <2>1. N = L /\ L.index = mem.index - 1 /\ mem.index > 1 /\ L.index \in 1 .. mem.size
    BY <1>1, <1>6, <1>12
  <2>2. Recalled(L) \in Blocks /\ Contents(L, Recalled(L)) = {Past(L)[L.index]}
    BY <1>6, <1>12, <2>1, RecalledIs
  <2>3. PICK text \in texts : Replaced(text, N) \/ Overrun(text)
    BY <1>11, <2>2, WildIsNoBlock DEF Nowhere
  <2>4. text = Past(mem)[mem.index - 1] /\ text \in Seq(Letters)
    BY <1>6, <1>9, <1>10, <2>1, <2>2, <2>3
  <2>5. CASE Overrun(text)
    <3>1. NothingDone /\ phase' = "overrun" /\ ~ (Len(text) < len)
      BY <2>5 DEF Overrun
    <3>2. TooLong
      BY <2>1, <2>4, <3>1, OverrunByAnswer
    <3> QED BY <1>2, <3>1, <3>2, StopKeeps DEF DownEnds
  <2>6. CASE Replaced(text, N)
    <3>1. mem' = N /\ phase' = phase /\ LineNow' = text /\ cursorPos' = Len(LineNow')
      BY <2>6 DEF Replaced
    <3>2. LinesKept(mem', len')
      BY <1>1, <1>2, <1>6, <3>1 DEF Kept, LinesKept, DraftFits
    <3>3. Past(mem') = Past(mem)
          /\ Draft(mem') = (IF mem'.index = 0 THEN <<>> ELSE Draft(mem))
      BY <1>6, <1>8, <3>1
    <3>4. Past(mem)' = Past(mem)
          /\ Draft(mem)' = (IF mem'.index = 0 THEN <<>> ELSE Draft(mem))
      BY <3>3
    <3>5. /\ mem.index > 0 /\ mem'.index = mem.index - 1
          /\ LineNow' = IF mem.index = 1 THEN Draft(mem) ELSE Past(mem)[mem.index - 1]
      <4>1. mem.index > 1 /\ mem'.index = mem.index - 1
        BY <2>1, <3>1
      <4>2. mem.index # 1 /\ mem.index > 0
        BY <1>1, <4>1
      <4>3. LineNow' = Past(mem)[mem.index - 1]
        BY <2>4, <3>1
      <4> QED BY <4>1, <4>2, <4>3
    <3>6. Promise!Next
      BY <1>2, <3>1, <3>4, <3>5, CameBack
    <3> QED BY <1>2, <3>1, <3>2, <3>6 DEF KeyPromised, DownEnds
  <2> QED BY <2>3, <2>5, <2>6
<1>13. CASE L.index = 0
  <2>1. /\ Recalled(L) = mem.com_hist[0] /\ L.text = mem.text
        /\ mem.index = 0 \/ mem.index = 1
    BY <1>1, <1>6, <1>13 DEF Recalled, SameBlocks
  <2>2. mem.com_hist[0] \in Blocks => texts = {mem.text[mem.com_hist[0]]}
    <3>1. ASSUME mem.com_hist[0] \in Blocks PROVE texts = {mem.text[mem.com_hist[0]]}
      <4>1. mem.text[mem.com_hist[0]] # NULL
        BY <1>1, <3>1, NullIsNoLine DEF DraftFits
      <4> QED BY <1>9, <2>1, <3>1, <4>1, NullIsNoBlock DEF Contents
    <3> QED BY <3>1
  <2>3. CASE Nowhere(L)
    BY <1>2, <2>1, <2>3, StopKeeps DEF Nowhere, DownEnds
  <2>4. ASSUME NEW text \in texts, Overrun(text) PROVE KeyPromised /\ DownEnds
    <3>1. NothingDone /\ phase' = "overrun" /\ ~ (Len(text) < len)
      BY <2>4 DEF Overrun
    <3>2. mem.com_hist[0] # NULL
      BY <1>1, <1>9, <2>1, <3>1 DEF Contents
    <3>3. mem.com_hist[0] \notin Blocks
      BY <1>1, <2>2, <3>1 DEF DraftFits
    <3> QED BY <1>2, <1>7, <3>1, <3>2, <3>3, StopKeeps DEF DownEnds
  <2>5. ASSUME NEW text \in texts, Replaced(text, N) PROVE KeyPromised /\ DownEnds
    <3>1. /\ mem' = N /\ phase' = phase /\ LineNow' = text /\ cursorPos' = Len(LineNow')
          /\ Len(text) < len
      BY <2>5 DEF Replaced
    <3>2. LinesKept(mem', len')
      BY <1>1, <1>2, <1>6, <3>1 DEF Kept, LinesKept, DraftFits
    <3>3. Past(mem') = Past(mem)
          /\ Draft(mem') = (IF mem'.index = 0 THEN <<>> ELSE Draft(mem))
      BY <1>6, <1>8, <3>1
    <3>4. Past(mem)' = Past(mem)
          /\ Draft(mem)' = (IF mem'.index = 0 THEN <<>> ELSE Draft(mem))
      BY <3>3
    <3>5. \/ /\ mem.index > 0 /\ mem'.index = mem.index - 1
             /\ LineNow' = IF mem.index = 1 THEN Draft(mem) ELSE Past(mem)[mem.index - 1]
          \/ /\ mem.index = 0 /\ mem'.index = mem.index
             /\ \E n \in 0 .. len - 1 : LineNow' \in [1 .. n -> Letters]
      <4>1. CASE mem.index = 0
        <5>1. text \in Seq(Letters)
          BY <1>10
        <5>2. text \in [1 .. Len(text) -> Letters] /\ Len(text) \in 0 .. len - 1
          BY <1>1, <3>1, <5>1
        <5> QED BY <1>6, <3>1, <4>1, <5>2
      <4>2. CASE mem.index = 1
        <5>1. mem.com_hist[0] \in Blocks
          BY <1>1, <4>2 DEF DraftHeld
        <5>2. text = Draft(mem)
          BY <2>2, <4>2, <5>1 DEF Draft
        <5> QED BY <1>6, <3>1, <4>2, <5>2
      <4> QED BY <2>1, <4>1, <4>2
    <3>6. Promise!Next
      BY <1>2, <3>1, <3>4, <3>5, CameBack
    <3> QED BY <1>2, <3>1, <3>2, <3>6 DEF KeyPromised, DownEnds
  <2> QED BY <1>11, <2>3, <2>4, <2>5
<1>14. L.index \in Nat
  BY <1>1, <1>6
<1> QED BY <1>12, <1>13, <1>14

(* This is what the promise says of the past. *)
LEMMA AddedIs ==
    ASSUME NEW past \in Seq(Lines), NEW line \in Lines, Len(past) <= hist_max_size,
           NEW p, AddedTo(past, line, p), Len(p) \in Nat
    PROVE  p = SubSeq(<<line>> \o past, 1, IF Len(past) < hist_max_size
                                           THEN Len(past) + 1 ELSE hist_max_size)
<1>1. PICK n \in Nat : n = Len(past)
  OBVIOUS
<1>2. PICK m : m = IF n < hist_max_size THEN n + 1 ELSE hist_max_size
  OBVIOUS
<1>3. m \in 1 .. n + 1 /\ Len(p) = m
  BY <1>1, <1>2, HistoryHasRoom DEF AddedTo
<1>4. PICK c : c = <<line>> \o past
  OBVIOUS
<1>5. /\ c \in Seq(Lines) /\ Len(c) = n + 1
      /\ \A k \in 1 .. n + 1 : c[k] = IF k = 1 THEN line ELSE past[k - 1]
  <2>1. <<line>> \in Seq(Lines) /\ Len(<<line>>) = 1 /\ <<line>>[1] = line
    OBVIOUS
  <2> QED BY <1>1, <1>4, <2>1, ConcatProperties
<1>6. PICK r : r = SubSeq(c, 1, m)
  OBVIOUS
<1>7. r \in Seq(Lines) /\ Len(r) = m /\ \A k \in 1 .. m : r[k] = c[k]
  BY <1>1, <1>3, <1>5, <1>6, SubSeqProperties
<1>8. ASSUME NEW k \in 1 .. m PROVE p[k] = r[k]
  BY <1>3, <1>5, <1>7, <1>1 DEF AddedTo
<1>9. r = [k \in 1 .. m |-> r[k]] /\ p = [k \in 1 .. m |-> p[k]]
  BY <1>3, <1>7 DEF AddedTo
<1>10. p = r
  BY <1>8, <1>9
<1> QED BY <1>1, <1>2, <1>4, <1>6, <1>10

(* A line is refused a block only if all that is known to be free, with    *)
(* the oldest line in a full history, is shorter.                          *)
LEMMA AddRefused ==
    ASSUME NEW M, NEW P, Kept(M, P), NEW command \in Lines, Unsaved(Shifted(M), command)
    PROVE  /\ \A b \in Blocks : M.owner[b] = "free" /\ M.text[b] \in Lines =>
                                   Len(M.text[b]) < Len(command)
           /\ M.size = hist_max_size => Len(M.text[M.com_hist[M.size]]) < Len(command)
<1> DEFINE n == M.size
           grown == IF n < hist_max_size THEN [M EXCEPT !.size = @ + 1]
                    ELSE sys_free_mem(M, M.com_hist[n])
           slots == [k \in Slots |-> IF k \in 2 .. grown.size THEN grown.com_hist[k - 1]
                                     ELSE grown.com_hist[k]]
           shifted == [grown EXCEPT !.com_hist = slots]
<1>1. /\ Owned(M, P) /\ MemTyped(M) /\ n \in Nat /\ n <= hist_max_size
      /\ hist_max_size \in Nat \ {0}
  BY SlotFacts DEF Kept, Owned, IsMem
<1>2. M = [owner |-> M.owner, text |-> M.text, com_hist |-> M.com_hist,
           size |-> M.size, index |-> M.index]
  BY <1>1 DEF MemTyped, IsMem
<1>3. shifted = Shifted(M)
  BY DEF Shifted
<1>4. PICK G : G = grown
  OBVIOUS
<1>5. PICK H : H = shifted
  OBVIOUS
<1>6. PICK s : H = [G EXCEPT !.com_hist = s]
  BY <1>4, <1>5, ZenonT(60)
<1> HIDE DEF shifted, slots
<1>7. /\ H.owner = G.owner /\ H.text = M.text
      /\ \A b \in Blocks : M.owner[b] = "free" => G.owner[b] = "free"
      /\ n = hist_max_size => M.com_hist[n] \in Blocks /\ G.owner[M.com_hist[n]] = "free"
  <2>1. CASE n < hist_max_size
    <3>1. G = [owner |-> M.owner, text |-> M.text, com_hist |-> M.com_hist,
               size |-> n + 1, index |-> M.index]
      BY <1>2, <1>4, <2>1
    <3>2. G.owner = M.owner /\ G.text = M.text /\ H.owner = G.owner /\ H.text = G.text
      BY <1>6, <3>1
    <3> QED BY <1>1, <2>1, <3>2
  <2>2. CASE ~ (n < hist_max_size)
    <3>1. G = sys_free_mem(M, M.com_hist[n]) /\ n \in 1 .. n
      BY <1>1, <1>4, <2>2
    <3>2. MemTyped(G) /\ FreedIn(M, M.com_hist[n], G)
      BY <1>1, <3>1, FreeIs
    <3>3. M.com_hist[n] \in Blocks
      BY <1>1, <3>1, LineBlocks
    <3>4. G = [owner |-> G.owner, text |-> G.text, com_hist |-> G.com_hist,
               size |-> G.size, index |-> G.index]
      BY <3>2 DEF MemTyped, IsMem
    <3>5. H.owner = G.owner /\ H.text = G.text
      BY <1>6, <3>4
    <3>6. G.text = M.text
      BY <1>1, <3>2 DEF FreedIn, MemTyped
    <3> QED BY <3>2, <3>3, <3>5, <3>6 DEF FreedIn
  <2> QED BY <2>1, <2>2
<1>8. MayRefuse(H, Len(command) + 1)
  BY <1>3, <1>5 DEF Unsaved
<1>9. ASSUME NEW b \in Blocks, G.owner[b] = "free", M.text[b] \in Lines
      PROVE  Len(M.text[b]) < Len(command)
  <2>1. b \in Room(H) /\ H.text[b] # NULL
    BY <1>7, <1>9, NullIsNoLine DEF Room
  <2>2. Len(M.text[b]) + 1 < Len(command) + 1
    BY <1>7, <1>8, <2>1 DEF MayRefuse
  <2>3. Len(M.text[b]) \in Nat /\ Len(command) \in Nat
    BY <1>9, LinesFit
  <2> QED BY <2>2, <2>3
<1>10. ASSUME n = hist_max_size PROVE Len(M.text[M.com_hist[n]]) < Len(command)
  <2>1. n \in 1 .. n
    BY <1>1, <1>10
  <2>2. M.com_hist[n] \in Blocks /\ M.owner[M.com_hist[n]] = "history"
    BY <1>1, <2>1, LineBlocks
  <2>3. M.text[M.com_hist[n]] \in Lines
    BY <2>2 DEF Kept, TextsKept, MemTyped
  <2> QED BY <1>7, <1>9, <1>10, <2>2, <2>3
<1> QED BY <1>7, <1>9, <1>10

(* A line in which strtok finds no word is blank.                          *)
LEMMA NoWord ==
    ASSUME NEW s \in Lines, strtok(s, 1, {Blank}).token = NULL, NEW k \in 1 .. Len(s)
    PROVE  s[k] = Blank
<1>1. SUFFICES ASSUME s[k] # Blank PROVE FALSE
  OBVIOUS
<1>2. s \in Seq(Letters) /\ Len(s) \in Nat /\ Len(s) <= LineLen - 1 /\ LineLen \in Nat
  BY LinesFit, Sizes
<1> DEFINE S == {j \in 1 .. Len(s) : s[j] \notin {Blank}} \cup {Len(s) + 1}
<1>3. k \in S /\ S \in SUBSET Nat /\ S # {} /\ \A x \in S : x >= 1
  BY <1>1, <1>2
<1>4. PICK from \in S : \A y \in S : from <= y
  BY <1>3, LeastNumber
<1>5. Min(S) = from
  <2>1. Min(S) = CHOOSE z \in S : \A y \in S : z <= y
    BY DEF Min
  <2>2. S \in SUBSET Int
    BY <1>3
  <2> HIDE DEF S
  <2> QED BY <1>4, <2>1, <2>2, LeastChosen
<1>6. from \in Nat /\ from >= 1 /\ from <= Len(s)
  BY <1>2, <1>3, <1>4
<1> DEFINE T == {j \in from .. Len(s) : s[j] \in {Blank}} \cup {Len(s) + 1}
<1>7. T \in SUBSET Nat /\ T # {} /\ \A x \in T : from <= x /\ x <= Len(s) + 1
  BY <1>2, <1>6
<1>8. PICK end \in T : \A y \in T : end <= y
  BY <1>7, LeastNumber
<1>9. Min(T) = end
  <2>1. Min(T) = CHOOSE z \in T : \A y \in T : z <= y
    BY DEF Min
  <2>2. T \in SUBSET Int
    BY <1>7
  <2> HIDE DEF T
  <2> QED BY <1>8, <2>1, <2>2, LeastChosen
<1>10. end \in Nat /\ from <= end /\ end <= Len(s) + 1
  BY <1>7, <1>8
<1>11. strtok(s, 1, {Blank}).token = SubSeq(s, from, end - 1)
  <2>1. PICK r : r = strtok(s, 1, {Blank})
    OBVIOUS
  <2>2. r = IF 1 = 0 \/ Min(S) > Len(s) THEN [token |-> NULL, at |-> 0]
            ELSE LET e == Min({j \in Min(S) .. Len(s) : s[j] \in {Blank}} \cup {Len(s) + 1})
                 IN  [token |-> SubSeq(s, Min(S), e - 1),
                      at |-> IF e > Len(s) THEN 0 ELSE e + 1]
    BY <2>1 DEF strtok
  <2> HIDE DEF S
  <2>3. ~ (1 = 0 \/ from > Len(s))
    BY <1>2, <1>6
  <2>4. r = [token |-> SubSeq(s, from, Min(T) - 1),
             at |-> IF Min(T) > Len(s) THEN 0 ELSE Min(T) + 1]
    BY <1>5, <2>2, <2>3
  <2> HIDE DEF T
  <2>5. r.token = SubSeq(s, from, end - 1)
    BY <1>9, <2>4
  <2> QED BY <2>1, <2>5
<1> HIDE DEF S, T
<1>12. PICK w : w = SubSeq(s, from, end - 1)
  OBVIOUS
<1>13. w \in Seq(Letters) /\ Len(w) = end - from
  BY <1>2, <1>6, <1>10, <1>12, SubSeqProperties
<1>14. w \in Lines
  <2>1. Len(w) \in 0 .. LineLen - 1
    BY <1>2, <1>6, <1>10, <1>13
  <2>2. w \in [1 .. Len(w) -> Letters]
    BY <1>13
  <2> QED BY <2>1, <2>2 DEF Lines, BoundedSeq, SeqOf
<1> QED BY <1>11, <1>12, <1>14, NullIsNoLine

(* The line has nothing but blanks, or is longer than what its memory was. *)
AllBlank == bufferSize > 0 /\ \A k \in 0 .. bufferSize - 1 : buffer[k] = Blank

Outgrown ==
    /\ mem.com_hist[0] \in Blocks => Len(mem.text[mem.com_hist[0]]) < bufferSize
    /\ mem.size = hist_max_size => Len(mem.text[mem.com_hist[mem.size]]) < bufferSize

EnterEnds == phase' # "overrun" /\ (phase' = "panicked" => AllBlank \/ Outgrown)

(* What became of the line. *)
LEMMA LineExecuted ==
    ASSUME NEW line, Executes(line), len \in {LineLen, AnswerLen}
    PROVE  /\ len' \in {LineLen, AnswerLen} /\ phase' # "overrun"
           /\ line = <<>> => len' = LineLen
           /\ phase' = "panicked" => line # <<>> /\ strtok(line, 1, {Blank}).token = NULL
BY DEF Executes

(* The end of a line. *)
LEMMA EnterPromised ==
    ASSUME KeptInv, Enter
    PROVE  KeyPromised /\ EnterEnds
<1> DEFINE line  == Text(buffer, bufferSize)
           freed == hist_index_set(sys_free_mem(mem, mem.com_hist[0]), 0)
           kept  == IF bufferSize > 0 THEN hist_add(freed, line) ELSE {freed}
<1>1. /\ Kept(mem, procs) /\ LineInv /\ mem.size \in Nat /\ DraftFits(mem, len)
      /\ bufferSize \in Nat /\ LineNow \in Lines /\ Len(LineNow) = bufferSize
      /\ len \in {LineLen, AnswerLen} /\ IsLine(buffer, bufferSize) /\ len <= LineLen
      /\ len \in Nat /\ LineLen \in Nat
  BY KeptFacts, LineSizes DEF LineNow, LineInv
<1>2. line = LineNow
  BY DEF LineNow
<1>3. \/ Unsaved(Shifted(freed), line) /\ Stops("panicked") /\ UNCHANGED len
      \/ /\ mem' \in kept /\ Executes(line)
         /\ buffer' = Zeros /\ bufferSize' = 0 /\ cursorPos' = 0
  BY DEF Enter
<1>4. PICK F : F = freed
  OBVIOUS
<1>5. /\ Kept(F, procs) /\ Past(F) = Past(mem) /\ F.index = 0 /\ F.size = mem.size
      /\ F.com_hist = mem.com_hist /\ FreedIn(mem, mem.com_hist[0], F)
      /\ F.com_hist[0] \in Blocks => F.owner[F.com_hist[0]] = "free"
  BY <1>1, <1>4, DraftGone
<1>6. kept = IF bufferSize > 0 THEN hist_add(F, LineNow) ELSE {F}
  BY <1>2, <1>4
<1>7. PICK K : K = kept
  OBVIOUS
<1> HIDE DEF kept, line, freed
<1>8. LineNow = <<>> <=> ~ (bufferSize > 0)
  <2>1. LineNow \in Seq(Letters)
    BY <1>1, LinesFit
  <2> QED BY <1>1, <2>1, EmptySeq
<1>9. CASE Unsaved(Shifted(F), LineNow) /\ Stops("panicked") /\ UNCHANGED len
  <2>1. NothingDone /\ phase' = "panicked"
    BY <1>9, StopsIs
  <2>2. KeyPromised
    BY <1>9, <2>1, StopKeeps
  <2>3. /\ \A b \in Blocks : F.owner[b] = "free" /\ F.text[b] \in Lines =>
                                Len(F.text[b]) < Len(LineNow)
        /\ F.size = hist_max_size => Len(F.text[F.com_hist[F.size]]) < Len(LineNow)
    BY <1>1, <1>5, <1>9, AddRefused
  <2>4. mem.com_hist[0] \in Blocks => Len(mem.text[mem.com_hist[0]]) < bufferSize
    <3>1. ASSUME mem.com_hist[0] \in Blocks
          PROVE  Len(mem.text[mem.com_hist[0]]) < bufferSize
      <4>1. PICK b \in Blocks : b = mem.com_hist[0]
        BY <3>1
      <4>2. F.owner[b] = "free" /\ F.text[b] = mem.text[b] /\ mem.text[b] \in Lines
        BY <1>1, <1>5, <3>1, <4>1 DEF FreedIn, DraftFits
      <4> QED BY <1>1, <2>3, <4>1, <4>2
    <3> QED BY <3>1
  <2>5. mem.size = hist_max_size => Len(mem.text[mem.com_hist[mem.size]]) < bufferSize
    <3>1. ASSUME mem.size = hist_max_size
          PROVE  Len(mem.text[mem.com_hist[mem.size]]) < bufferSize
      <4>1. mem.size \in 1 .. mem.size
        BY <1>1, <3>1, HistoryHasRoom
      <4>2. mem.com_hist[mem.size] \in Blocks
        BY <1>1, <4>1, LineBlocks DEF Kept
      <4>3. F.text[mem.com_hist[mem.size]] = mem.text[mem.com_hist[mem.size]]
        BY <1>5, <4>2 DEF FreedIn
      <4> QED BY <1>1, <1>5, <2>3, <3>1, <4>3
    <3> QED BY <3>1
  <2> QED BY <2>1, <2>2, <2>4, <2>5 DEF EnterEnds, Outgrown
<1>10. CASE /\ mem' \in K /\ Executes(LineNow)
            /\ buffer' = Zeros /\ bufferSize' = 0 /\ cursorPos' = 0
  <2>1. /\ len' \in {LineLen, AnswerLen} /\ phase' # "overrun"
        /\ LineNow = <<>> => len' = LineLen
        /\ phase' = "panicked" =>
              LineNow # <<>> /\ strtok(LineNow, 1, {Blank}).token = NULL
    BY <1>1, <1>10, LineExecuted
  <2>2. EnterEnds
    <3>1. SUFFICES ASSUME phase' = "panicked" PROVE AllBlank
      BY <2>1 DEF EnterEnds
    <3>2. bufferSize > 0 /\ strtok(LineNow, 1, {Blank}).token = NULL
      BY <1>8, <2>1, <3>1
    <3>3. ASSUME NEW k \in 0 .. bufferSize - 1 PROVE buffer[k] = Blank
      <4>1. k + 1 \in 1 .. Len(LineNow) /\ (k + 1) - 1 = k
        BY <1>1
      <4>2. LineNow[k + 1] = Blank
        BY <1>1, <3>2, <4>1, NoWord
      <4>3. LineNow[k + 1] = buffer[k]
        BY <1>1, <4>1, TextIsLine DEF LineNow
      <4> QED BY <4>2, <4>3
    <3> QED BY <3>2, <3>3 DEF AllBlank
  <2>3. /\ Kept(mem', procs) /\ mem'.index = 0
        /\ Past(mem') = (IF LineNow = <<>> THEN Past(mem)
                         ELSE SubSeq(<<LineNow>> \o Past(mem), 1,
                                     IF Len(Past(mem)) < hist_max_size
                                     THEN Len(Past(mem)) + 1 ELSE hist_max_size))
        /\ DraftFits(mem', len')
    <3>1. CASE bufferSize > 0
      <4>1. mem' \in hist_add(F, LineNow)
        BY <1>6, <1>7, <1>10, <3>1
      <4>2. PICK N : N = mem'
        OBVIOUS
      <4>3. /\ Kept(N, procs) /\ N.index = 0 /\ N.com_hist[0] = NULL
            /\ AddedTo(Past(F), LineNow, Past(N))
        BY <1>1, <1>5, <4>1, <4>2, LineEntered
      <4>4. /\ Past(F) \in Seq(Lines) /\ Len(Past(F)) <= hist_max_size
            /\ Len(Past(N)) \in Nat
        BY <1>5, <4>3, PastTyped, HistoryHasRoom
      <4>5. Past(N) = SubSeq(<<LineNow>> \o Past(F), 1,
                             IF Len(Past(F)) < hist_max_size
                             THEN Len(Past(F)) + 1 ELSE hist_max_size)
        BY <1>1, <4>3, <4>4, AddedIs
      <4>6. DraftFits(N, len')
        BY <4>3, NullIsNoBlock DEF DraftFits
      <4> QED BY <1>5, <1>8, <3>1, <4>2, <4>3, <4>5, <4>6
    <3>2. CASE ~ (bufferSize > 0)
      <4>1. mem' = F /\ len' = LineLen /\ LineNow = <<>>
        BY <1>6, <1>7, <1>8, <1>10, <2>1, <3>2
      <4>2. DraftFits(F, LineLen)
        <5>1. ASSUME F.com_hist[0] \in Blocks
              PROVE  F.text[F.com_hist[0]] \in Lines /\ Len(F.text[F.com_hist[0]]) < LineLen
          <6>1. F.text[F.com_hist[0]] = mem.text[mem.com_hist[0]]
            BY <1>5, <5>1 DEF FreedIn
          <6>2. mem.text[mem.com_hist[0]] \in Lines
            BY <1>1, <1>5, <5>1 DEF DraftFits
          <6> QED BY <1>1, <6>1, <6>2, LinesFit
        <5> QED BY <5>1 DEF DraftFits
      <4> QED BY <1>5, <4>1, <4>2
    <3> QED BY <3>1, <3>2
  <2>4. LinesKept(mem', len') /\ Draft(mem') = <<>>
    BY <2>3 DEF Kept, Draft, LinesKept
  <2>5. LineNow' = <<>>
    <3>1. LineNow' = Text(buffer', bufferSize')
      BY DEF LineNow
    <3>2. Text(Zeros, 0) = <<>>
      BY DEF Text
    <3> QED BY <1>10, <3>1, <3>2
  <2>6. /\ Draft(mem)' = <<>>
        /\ Past(mem)' = (IF LineNow = <<>> THEN Past(mem)
                         ELSE SubSeq(<<LineNow>> \o Past(mem), 1,
                                     IF Len(Past(mem)) < hist_max_size
                                     THEN Len(Past(mem)) + 1 ELSE hist_max_size))
    BY <2>3, <2>4
  <2>7. Promise!Next
    BY <1>10, <2>1, <2>3, <2>5, <2>6, LineDone
  <2> QED BY <2>2, <2>4, <2>7 DEF KeyPromised
<1>11. \/ Unsaved(Shifted(F), LineNow) /\ Stops("panicked") /\ UNCHANGED len
       \/ /\ mem' \in K /\ Executes(LineNow)
          /\ buffer' = Zeros /\ bufferSize' = 0 /\ cursorPos' = 0
  BY <1>2, <1>3, <1>4, <1>7
<1> QED BY <1>9, <1>10, <1>11

(* The memory of processes is not what the user sees. *)
LEMMA ViewStays ==
    ASSUME KeptInv, UNCHANGED editor, NEW N, N = mem', Past(N) = Past(mem),
           Draft(N) = Draft(mem), N.index = mem.index, LinesKept(N, len)
    PROVE  KeyPromised
<1>1. LineNow' = LineNow /\ cursorPos' = cursorPos /\ len' = len
  BY DEF editor, LineNow
<1>2. Past(mem)' = Past(mem) /\ Draft(mem)' = Draft(mem) /\ mem'.index = mem.index
  OBVIOUS
<1>3. SameView
  BY <1>1, <1>2 DEF SameView
<1>4. UNCHANGED Promise!vars
  BY <1>1, <1>3, NothingShown
<1> QED BY <1>1, <1>4 DEF KeyPromised

(* A process is created while no line is being looked back from. *)
LEMMA CreationPromised ==
    ASSUME KeptInv, Creates
    PROVE  KeyPromised /\ phase' = phase
<1>1. /\ Kept(mem, procs) /\ DraftHeld(mem) /\ mem.index \in Nat /\ OwnerInv
  BY KeptFacts
<1>2. phase = "executing" /\ phase' = phase /\ UNCHANGED editor
  BY DEF Creates, Leaves
<1>3. Owned(mem, procs) /\ mem.com_hist[0] = NULL
  BY <1>1, <1>2 DEF OwnerInv
<1>4. mem.index = 0
  BY <1>1, <1>3, NullIsNoBlock DEF DraftHeld
<1>5. PICK new \in pcb_allocate(mem) : mem' = new.mem
  BY DEF Creates, Leaves
<1>6. PICK N : N = new.mem
  OBVIOUS
<1>7. /\ TextsKept(N) /\ Past(N) = Past(mem) /\ N.size = mem.size /\ N.index = mem.index
      /\ N.com_hist = mem.com_hist
  BY <1>1, <1>3, <1>6, ProcessTakes, ProcessCreated, NullIsNoBlock
<1>8. DraftHeld(N) /\ Draft(N) = <<>> /\ Draft(mem) = <<>> /\ DraftFits(N, len)
  BY <1>3, <1>4, <1>7, NullIsNoBlock DEF DraftHeld, Draft, DraftFits
<1>9. KeyPromised
  BY <1>2, <1>5, <1>6, <1>7, <1>8, ViewStays DEF LinesKept
<1> QED BY <1>2, <1>9

(* A process that ends gives no line back. *)
LEMMA EndPromised ==
    ASSUME KeptInv, Ends
    PROVE  KeyPromised /\ phase' = phase
<1>1. Kept(mem, procs) /\ DraftHeld(mem) /\ DraftFits(mem, len) /\ mem.index \in Nat
  BY KeptFacts
<1>2. phase' = phase /\ UNCHANGED editor
  BY DEF Ends, Leaves
<1>3. PICK p \in procs : mem' = pcb_free(mem, p)
  BY DEF Ends, Leaves
<1>4. PICK N : N = pcb_free(mem, p)
  OBVIOUS
<1>5. /\ TextsKept(N) /\ Past(N) = Past(mem) /\ N.size = mem.size /\ N.index = mem.index
      /\ DraftHeld(N) /\ N.com_hist = mem.com_hist
      /\ \A c \in Blocks : N.text[c] = mem.text[c]
  BY <1>1, <1>4, ProcessGives
<1>6. DraftFits(N, len)
  BY <1>1, <1>5 DEF DraftFits
<1>7. Draft(N) = Draft(mem)
  <2>1. CASE mem.index = 0
    BY <1>5, <2>1 DEF Draft
  <2>2. CASE mem.index # 0
    <3>1. mem.com_hist[0] \in Blocks
      BY <1>1, <2>2 DEF DraftHeld
    <3> QED BY <1>5, <2>2, <3>1 DEF Draft
  <2> QED BY <2>1, <2>2
<1>8. KeyPromised
  BY <1>2, <1>3, <1>4, <1>5, <1>6, <1>7, ViewStays DEF LinesKept
<1> QED BY <1>2, <1>8

(* When the kernel stops or a buffer is overrun. *)
OverrunStep ==
    phase # "overrun" /\ phase' = "overrun" =>
       \/ TooLong
       \/ Down /\ mem.com_hist[0] = Wild

StopStep ==
    phase # "panicked" /\ phase' = "panicked" =>
       \/ Up /\ mem.index = 0
       \/ Down /\ mem.com_hist[0] = Wild
       \/ AllBlank
       \/ Outgrown

(* Every step: only the arrows and Enter stop the kernel.                  *)
LEMMA StepPromised ==
    ASSUME KeptInv, [Next]_vars PROVE KeyPromised /\ OverrunStep /\ StopStep
<1>1. CASE Insert \/ Backspace \/ DeleteKey \/ Left \/ Right \/ Home \/ End
  <2>1. KeyPromised
    BY <1>1, KeysPromised
  <2>2. phase' = phase
    BY <1>1 DEF Insert, Backspace, DeleteKey, Left, Right, Home, End, Removes, MovesTo, Edits
  <2> QED BY <2>1, <2>2 DEF OverrunStep, StopStep
<1>2. CASE Up
  <2>1. KeyPromised /\ UpEnds
    BY <1>2, UpPromised
  <2>2. OverrunStep /\ StopStep
    BY <1>2, <2>1 DEF UpEnds, OverrunStep, StopStep
  <2> QED BY <2>1, <2>2
<1>3. CASE Down
  <2>1. KeyPromised /\ DownEnds
    BY <1>3, DownPromised
  <2>2. OverrunStep /\ StopStep
    BY <1>3, <2>1 DEF DownEnds, OverrunStep, StopStep
  <2> QED BY <2>1, <2>2
<1>4. CASE Enter
  BY <1>4, EnterPromised DEF EnterEnds, OverrunStep, StopStep
<1>5. CASE Creates \/ Ends
  BY <1>5, CreationPromised, EndPromised DEF OverrunStep, StopStep
<1>6. CASE EscapeGoesOn \/ Yields \/ Reads \/ Stopped \/ UNCHANGED vars
  <2>1. UNCHANGED <<mem, editor>> /\ phase' \in {"prompt", "reading", phase}
    BY <1>6 DEF EscapeGoesOn, Yields, Reads, Stopped, vars
  <2>2. NothingDone /\ len' = len
    BY <2>1 DEF editor, LineNow, NothingDone
  <2> QED BY <2>1, <2>2, StopKeeps DEF OverrunStep, StopStep
<1> QED BY <1>1, <1>2, <1>3, <1>4, <1>5, <1>6 DEF Next

LEMMA KeptInit == Init => KeptInv
<1> SUFFICES ASSUME Init PROVE KeptInv
  OBVIOUS
<1>1. OwnerInv /\ EditorInv
  BY OwnerInit, EditorInit
<1>2. mem.index = 0 /\ mem.owner = [a \in Blocks |-> "free"] /\ mem.com_hist[0] \in {NULL, Wild}
  BY SlotFacts DEF Init, initialize_comhist
<1>3. TextsKept(mem) /\ DraftHeld(mem) /\ DraftFits(mem, len)
  BY <1>2, NullIsNoBlock, WildIsNoBlock DEF TextsKept, DraftHeld, DraftFits
<1> QED BY <1>1, <1>3 DEF KeptInv, Kept, OwnerInv, EditorInv, MemInv

LEMMA KeptNext ==
    ASSUME KeptInv, [Next]_vars
    PROVE  KeptInv' /\ [Promise!Next]_(Promise!vars) /\ OverrunStep /\ StopStep
<1>1. KeyPromised /\ OverrunStep /\ StopStep
  BY StepPromised
<1>2. OwnerInv /\ EditorInv /\ bufferSize \in Nat
  BY LineSizes DEF KeptInv, EditorInv
<1>3. OwnerInv'
  BY <1>2, OwnerNext DEF OwnerStep
<1>4. EditorInv'
  BY <1>2, EditorNext
<1>5. Owned(mem', procs') /\ MemTyped(mem')
  BY <1>3, <1>4 DEF OwnerInv, EditorInv, MemInv
<1>6. Kept(mem', procs') /\ DraftFits(mem', len')
  BY <1>1, <1>5 DEF KeyPromised, Kept, LinesKept
<1>7. KeptInv'
  BY <1>3, <1>4, <1>6 DEF KeptInv
<1> QED BY <1>1, <1>7 DEF KeyPromised
-----------------------------------------------------------------------------
(* The editor does for the user what LineInput promises: every key does    *)
(* its work on the line whatever bytes, slots and blocks carry it, past    *)
(* lines come back as they were entered, and so does the draft.            *)
THEOREM LineInputImplemented == Spec => ImplementsLineInput
<1>1. Init => Promise!Init
  BY NothingPromised
<1>2. KeptInv /\ [Next]_vars => KeptInv' /\ [Promise!Next]_(Promise!vars)
  BY KeptNext
<1> QED BY <1>1, <1>2, KeptInit, PTL DEF Spec, ImplementsLineInput, Promise!Spec

(* A line that an arrow recalls fits the buffer of a command with its end: *)
(* only the shorter buffer of an answer is overrun by one, or any by what  *)
(* slot 0 holds before it is ever written.                                 *)
THEOREM OverrunsCorrect == Spec => OverrunsAnswersOnly
<1>1. KeptInv /\ [Next]_vars => KeptInv' /\ [OverrunStep]_vars
  BY KeptNext
<1>2. OverrunsAnswersOnly <=> [][OverrunStep]_vars
  BY DEF OverrunsAnswersOnly, OverrunStep, TooLong
<1> QED BY <1>1, <1>2, KeptInit, PTL DEF Spec

(* The kernel stops at the terminal by Up that finds no room for the line, *)
(* by Down while slot 0 was never written, by a line of blanks, and by the *)
(* end of one that is longer than the draft and, in a full history, than   *)
(* the oldest line; and in no other way.                                   *)
THEOREM AnswersCorrect == Spec => LinesAnswered
<1>1. KeptInv /\ [Next]_vars => KeptInv' /\ [StopStep]_vars
  BY KeptNext
<1>2. LinesAnswered <=> [][StopStep]_vars
  BY DEF LinesAnswered, StopStep, AllBlank, Outgrown
<1> QED BY <1>1, <1>2, KeptInit, PTL DEF Spec
=============================================================================
