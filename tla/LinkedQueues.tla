---------------------------- MODULE LinkedQueues ----------------------------
(***************************************************************************)
(* The queues of kernel/pcb.c and kernel/queue.c as they are in memory: a  *)
(* head, a tail and a count each, and the next field of the blocks.  Two   *)
(* functions insert (pcb_insert patches the middle of the list itself and  *)
(* leaves the tail to enqueue) and two remove (dequeue and pcb_remove), so *)
(* the four must agree on what tail and next mean.                         *)
(***************************************************************************)
EXTENDS Integers, Sequences, FiniteSets

CONSTANTS
    PCBs,           \* the control blocks
    NULL,           \* the null pointer
    Levels          \* the priorities in use

ASSUME NullIsNoBlock == NULL \notin PCBs
ASSUME LevelsAreNumbers == Levels \subseteq Int
ASSUME HeapIsFinite == IsFiniteSet(PCBs)

VARIABLES
    pcb,            \* the state, suspended and priority fields
    next,           \* the next field
    head, tail,     \* the ends of the three queues
    count           \* their count field

B == INSTANCE PCB

vars  == <<pcb, next, head, tail, count>>
links == <<next, head, tail, count>>

(***************************************************************************)
(* Walk(id)[k] is curr after k steps of a loop that starts at the head and *)
(* follows next; the loops leave it at the first k that meets a condition. *)
(***************************************************************************)
Steps == 0 .. Cardinality(PCBs)

Walk(id) ==
    LET curr[k \in Steps] ==
          IF k = 0 THEN head[id]
          ELSE IF curr[k - 1] = NULL THEN NULL
          ELSE next[curr[k - 1]]
    IN  curr

FirstStep(Hits) == CHOOSE k \in Hits : \A j \in Hits : k <= j

List(id) ==
    LET w == Walk(id)
    IN  [k \in 1 .. FirstStep({j \in Steps : w[j] = NULL}) |-> w[k - 1]]

Contents == [id \in B!QIDs |-> List(id)]

Members(id) == {Walk(id)[k] : k \in Steps} \ {NULL}

Queued(p) == \E id \in B!QIDs : p \in Members(id)
-----------------------------------------------------------------------------
NewBlock(priority) == [state |-> "ready", suspended |-> FALSE, priority |-> priority]

Init ==
    /\ \E priority \in Levels : pcb = [p \in PCBs |-> NewBlock(priority)]
    /\ next = [p \in PCBs |-> NULL]
    /\ head = [id \in B!QIDs |-> NULL]
    /\ tail = [id \in B!QIDs |-> NULL]
    /\ count = [id \in B!QIDs |-> 0]

(***************************************************************************)
(* A block outside the queues is freed, allocated and set up again, and    *)
(* pcb_setup leaves next as the heap had it; or a command changes one of   *)
(* its fields.                                                             *)
(***************************************************************************)
SetsUp(p) ==
    /\ ~ Queued(p)
    /\ \E priority \in Levels : pcb' = [pcb EXCEPT ![p] = NewBlock(priority)]
    /\ \E garbage \in PCBs \cup {NULL} : next' = [next EXCEPT ![p] = garbage]
    /\ UNCHANGED <<head, tail, count>>

Changes(p) ==
    /\ ~ Queued(p)
    /\ \/ \E state \in {"ready", "blocked"} : pcb' = [pcb EXCEPT ![p].state = state]
       \/ pcb' = [pcb EXCEPT ![p].suspended = ~ @]
       \/ \E priority \in Levels : pcb' = [pcb EXCEPT ![p].priority = priority]
    /\ UNCHANGED links

enqueue(id, p) ==
    /\ IF tail[id] = NULL
       THEN /\ head' = [head EXCEPT ![id] = p]
            /\ next' = [next EXCEPT ![p] = NULL]
       ELSE /\ next' = [next EXCEPT ![p] = NULL, ![tail[id]] = p]
            /\ UNCHANGED head
    /\ tail' = [tail EXCEPT ![id] = p]
    /\ count' = [count EXCEPT ![id] = @ + 1]

dequeue(id) ==
    \/ /\ head[id] = NULL
       /\ UNCHANGED links
    \/ /\ head[id] # NULL
       /\ LET p == head[id]
          IN  /\ head' = [head EXCEPT ![id] = next[p]]
              /\ tail' = IF next[p] = NULL THEN [tail EXCEPT ![id] = NULL] ELSE tail
              /\ next' = [next EXCEPT ![p] = NULL]
       /\ count' = [count EXCEPT ![id] = @ - 1]

(* Mutant: in front of equals. *)
StopsAtEquals(curr, p) == pcb[curr].priority >= pcb[p].priority

StopsAt(curr, p) == pcb[curr].priority > pcb[p].priority

pcb_insert(p) ==
    LET id    == B!Target(pcb[p])
        k     == FirstStep({j \in Steps :
                    \/ Walk(id)[j] = NULL
                    \/ StopsAt(Walk(id)[j], p)})
        curr  == Walk(id)[k]
        prev  == Walk(id)[k - 1]
        counted == count' = [count EXCEPT ![id] = @ + 1]
    IN  \/ /\ head[id] = NULL
           /\ head' = [head EXCEPT ![id] = p]
           /\ tail' = [tail EXCEPT ![id] = p]
           /\ next' = [next EXCEPT ![p] = NULL]
           /\ counted
        \/ /\ head[id] # NULL /\ pcb[p].state = "ready" /\ k = 0
           /\ next' = [next EXCEPT ![p] = head[id]]
           /\ head' = [head EXCEPT ![id] = p]
           /\ UNCHANGED tail
           /\ counted
        \/ /\ head[id] # NULL /\ pcb[p].state = "ready" /\ k > 0 /\ curr # NULL
           /\ next' = [next EXCEPT ![prev] = p, ![p] = curr]
           /\ UNCHANGED <<head, tail>>
           /\ counted
        \/ /\ head[id] # NULL
           /\ pcb[p].state = "ready" => k > 0 /\ curr = NULL
           /\ enqueue(id, p)

(* Mutant: the tail stays at a removed block. *)
RemoveKeepsTail(p) ==
    \/ ~ Queued(p) /\ UNCHANGED links
    \/ \E id \in B!QIDs :
          LET k == FirstStep({j \in Steps : Walk(id)[j] = p})
          IN  /\ p \in Members(id)
              /\ IF k = 0
                 THEN /\ head' = [head EXCEPT ![id] = next[p]]
                      /\ next' = [next EXCEPT ![p] = NULL]
                 ELSE /\ next' = [next EXCEPT ![Walk(id)[k - 1]] = next[p], ![p] = NULL]
                      /\ UNCHANGED head
              /\ count' = [count EXCEPT ![id] = @ - 1]
              /\ UNCHANGED tail

pcb_remove(p) ==
    \/ ~ Queued(p) /\ UNCHANGED links
    \/ \E id \in B!QIDs :
          LET k    == FirstStep({j \in Steps : Walk(id)[j] = p})
              prev == IF k = 0 THEN NULL ELSE Walk(id)[k - 1]
          IN  /\ p \in Members(id)
              /\ IF prev = NULL
                 THEN /\ head' = [head EXCEPT ![id] = next[p]]
                      /\ next' = [next EXCEPT ![p] = NULL]
                 ELSE /\ next' = [next EXCEPT ![prev] = next[p], ![p] = NULL]
                      /\ UNCHANGED head
              /\ tail' = IF p = tail[id] THEN [tail EXCEPT ![id] = prev] ELSE tail
              /\ count' = [count EXCEPT ![id] = @ - 1]

Inserts(p) == ~ Queued(p) /\ pcb_insert(p) /\ UNCHANGED pcb

AddsTo(p) ==
    /\ ~ Queued(p)
    /\ ~ pcb[p].suspended
    /\ enqueue(pcb[p].state, p)
    /\ UNCHANGED pcb

Removes(p) == pcb_remove(p) /\ UNCHANGED pcb

TakesNext(id) == dequeue(id) /\ UNCHANGED pcb

Next ==
    \/ \E p \in PCBs : SetsUp(p) \/ Changes(p) \/ Inserts(p) \/ AddsTo(p) \/ Removes(p)
    \/ \E id \in {"ready", "suspended"} : TakesNext(id)

Spec == Init /\ [][Next]_vars
-----------------------------------------------------------------------------
(* A queue ends in NULL at its tail, has as many blocks as its count says, *)
(* and shares none with another: the four functions that patch head, tail, *)
(* next and count agree on what they mean after any sequence of calls.     *)
EndsMeet ==
    /\ \A id \in B!QIDs :
          /\ \E k \in Steps : Walk(id)[k] = NULL
          /\ LET list == List(id)
             IN  /\ count[id] = Len(list)
                 /\ tail[id] = IF list = <<>> THEN NULL ELSE list[Len(list)]
    /\ \A id, other \in B!QIDs : id # other => Members(id) \cap Members(other) = {}

Sequential == INSTANCE ProcessQueues WITH queue <- Contents

(* The linked lists implement the queues as sequences that the model of    *)
(* the whole kernel works with: every operation does to the contents what  *)
(* the operation on sequences does.                                        *)
ImplementsSequences == Sequential!Spec
=============================================================================
