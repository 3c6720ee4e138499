---------------------------- MODULE TAOS_proofs ----------------------------
(***************************************************************************)
(* Proofs about TAOS for any number of control blocks, any commands and    *)
(* any clock.                                                              *)
(***************************************************************************)
EXTENDS TAOS, PCB_proofs

(***************************************************************************)
(* The memory P differs from pcb at most in what scheduling does not see.  *)
(***************************************************************************)
Alike(P) ==
    \A p \in PCBs :
       /\ P[p].name = pcb[p].name
       /\ P[p].processor_class = pcb[p].processor_class
       /\ P[p].state = pcb[p].state
       /\ P[p].suspended = pcb[p].suspended
       /\ P[p].priority = pcb[p].priority

BlocksOK ==
    /\ pcb \in [PCBs -> PCBRecord]
    /\ allocated \subseteq PCBs
    /\ queue \in Queues
    /\ QueuesExact

CPUOK ==
    /\ current_pcb \in PCBs \cup {NULL}
    /\ saved_context \in {NULL, Kernel}
    /\ running \in PCBs \cup {NULL, Kernel}
    /\ CPUConsistent

(* A control block's flags name one of the three queues.                   *)
LEMMA RecordTarget ==
    ASSUME NEW r \in PCBRecord
    PROVE  Target(r) \in QIDs
BY DEF PCBRecord, Target, QIDs

(* pcb_setup returns a record of the type of control blocks.               *)
LEMMA SetupTyped ==
    ASSUME NEW name \in Names, NEW class \in {"system", "user"},
           NEW priority \in Priorities, NEW n \in 0 .. 5
    PROVE  pcb_setup(name, class, priority, n) \in PCBRecord
BY DEF pcb_setup, PCBRecord, Midnight, Moments

(* The names the kernel and the loaders give are names.                    *)
LEMMA NamesTyped ==
    /\ CommhandName \in Names /\ IdleName \in Names
    /\ \A n \in 1 .. 5 : ProcName(n) \in Names
    /\ \A n \in Nat : AlarmName(n) \in Names
BY DEF Names, CommhandName, IdleName, ProcName, AlarmName

(* The value that stands for a freed block has the type of a block.        *)
LEMMA FreedTyped == Freed \in PCBRecord
BY SetupTyped, NamesTyped DEF Freed, Priorities

(* A process that has the CPU is the current one, live and ready, and      *)
(* kmain's context is saved.                                               *)
LEMMA RunningIsCurrent ==
    ASSUME IInv, running \in PCBs
    PROVE  /\ current_pcb = running /\ running # NULL /\ running # Kernel
           /\ running \in allocated /\ saved_context = Kernel
           /\ kmain = "back" /\ Target(pcb[running]) = "ready"
BY NullAssumption, KernelAssumption DEF IInv, CPUConsistent, KmainPhases

(* What IDLE does to the blocks and the CPU when a process issues it. *)
LEMMA IdleCall ==
    ASSUME IInv, running \in PCBs,
           NEW P \in [PCBs -> PCBRecord], Alike(P), sys_idle_call(P)
    PROVE  BlocksOK' /\ CPUOK'
<1> DEFINE Q == dequeue(queue, "ready")
<1> DEFINE next == get_next(queue, "ready")
<1> DEFINE S == allocated \ {current_pcb}
<1> USE RunningIsCurrent
<1>1. queue \in Queues /\ Holds(queue, pcb, S)
  BY DEF IInv, TypeOK, QueuesExact, Queues
<1>2. /\ pcb' = P /\ allocated' = allocated /\ current_pcb' = next
      /\ queue' = pcb_insert(P, Q, current_pcb)
      /\ saved_context' = Kernel
      /\ running' = IF next = NULL THEN Kernel ELSE next
  BY DEF sys_idle_call
<1>3. \A p \in PCBs : Target(P[p]) = Target(pcb[p]) /\ Target(P[p]) \in QIDs
  BY RecordTarget DEF Alike, Target
<1>4. S \subseteq PCBs /\ current_pcb \in PCBs /\ current_pcb \notin S
  BY DEF IInv, TypeOK
<1>5. Holds(queue, P, S)
  BY <1>1, <1>3, <1>4, SameHolds
<1>6. CASE queue["ready"] = <<>>
  <2>1. Q = queue /\ next = NULL
    BY <1>6 DEF dequeue, get_next
  <2>2. /\ pcb_insert(P, Q, current_pcb) \in Queues
        /\ Holds(pcb_insert(P, Q, current_pcb), P, S \cup {current_pcb})
    BY <1>1, <1>3, <1>4, <1>5, <2>1, InsertHolds
  <2>3. S \cup {current_pcb} = allocated' \ {current_pcb'}
    BY <1>2, <2>1, NullAssumption DEF IInv, TypeOK
  <2>4. BlocksOK'
    BY <1>2, <2>2, <2>3 DEF BlocksOK, QueuesExact, IInv, TypeOK
  <2>5. CPUOK'
    BY <1>2, <2>1, KernelAssumption DEF CPUOK, CPUConsistent
  <2> QED BY <2>4, <2>5
<1>7. CASE queue["ready"] # <<>>
  <2>1. /\ next \in S \cap PCBs /\ Target(P[next]) = "ready"
        /\ Q \in Queues /\ Holds(Q, P, S \ {next})
    <3>1. next = get_next(queue, "ready") /\ Q = dequeue(queue, "ready")
      OBVIOUS
    <3> HIDE DEF S, next, Q
    <3> QED BY ONLY <1>1, <1>5, <1>7, <3>1, DequeueReady
  <2>2. /\ pcb_insert(P, Q, current_pcb) \in Queues
        /\ Holds(pcb_insert(P, Q, current_pcb), P, (S \ {next}) \cup {current_pcb})
    BY <1>3, <1>4, <2>1, InsertHolds
  <2>3. (S \ {next}) \cup {current_pcb} = allocated' \ {current_pcb'}
    BY <1>2, <1>4, <2>1
  <2>4. BlocksOK'
    BY <1>2, <2>2, <2>3 DEF BlocksOK, QueuesExact, IInv, TypeOK
  <2>5. CPUOK'
    BY <1>2, <2>1, NullAssumption, KernelAssumption DEF CPUOK, CPUConsistent
  <2> QED BY <2>4, <2>5
<1> QED BY <1>6, <1>7

(* What EXIT does to the blocks and the CPU: only a process issues it. *)
LEMMA ExitCall ==
    ASSUME IInv, running \in PCBs,
           NEW P \in [PCBs -> PCBRecord], Alike(P), sys_exit_call(P)
    PROVE  BlocksOK' /\ CPUOK'
<1> DEFINE Q == dequeue(queue, "ready")
<1> DEFINE next == get_next(queue, "ready")
<1> DEFINE S == allocated \ {current_pcb}
<1> DEFINE F == [P EXCEPT ![current_pcb] = Freed]
<1> USE RunningIsCurrent
<1>1. queue \in Queues /\ Holds(queue, pcb, S)
  BY DEF IInv, TypeOK, QueuesExact, Queues
<1>2. /\ pcb' = F
      /\ allocated' = S /\ current_pcb' = next /\ queue' = Q
      /\ saved_context' = IF next = NULL THEN NULL ELSE Kernel
      /\ running' = IF next = NULL THEN Kernel ELSE next
  BY DEF sys_exit_call
<1>3. \A p \in PCBs : Target(P[p]) = Target(pcb[p])
  BY DEF Alike, Target
<1>4. S \subseteq PCBs /\ current_pcb \in PCBs /\ current_pcb \notin S
  BY DEF IInv, TypeOK
<1>5. F \in [PCBs -> PCBRecord] /\ \A p \in S : F[p] = P[p]
  BY <1>4, FreedTyped
<1>6. Holds(queue, F, S)
  <2>1. \A p \in S : Target(F[p]) = Target(pcb[p])
    BY <1>3, <1>4, <1>5
  <2> HIDE DEF S, F
  <2> QED BY <1>1, <2>1, SameHolds
<1>7. CASE queue["ready"] = <<>>
  <2>1. Q = queue /\ next = NULL
    BY <1>7 DEF dequeue, get_next
  <2>2. S = allocated' \ {current_pcb'}
    BY <1>2, <1>4, <2>1, NullAssumption
  <2>3. BlocksOK'
    BY <1>1, <1>2, <1>4, <1>5, <1>6, <2>1, <2>2 DEF BlocksOK, QueuesExact
  <2>4. CPUOK'
    BY <1>2, <2>1, KernelAssumption DEF CPUOK, CPUConsistent
  <2> QED BY <2>3, <2>4
<1>8. CASE queue["ready"] # <<>>
  <2>1. /\ next \in S \cap PCBs /\ Target(F[next]) = "ready"
        /\ Q \in Queues /\ Holds(Q, F, S \ {next})
    <3>1. next = get_next(queue, "ready") /\ Q = dequeue(queue, "ready")
      OBVIOUS
    <3> HIDE DEF S, F, next, Q
    <3> QED BY ONLY <1>1, <1>6, <1>8, <3>1, DequeueReady
  <2>2. S \ {next} = allocated' \ {current_pcb'}
    BY <1>2
  <2>3. BlocksOK'
    BY <1>2, <1>4, <1>5, <2>1, <2>2 DEF BlocksOK, QueuesExact
  <2>4. CPUOK'
    BY <1>2, <2>1, NullAssumption, KernelAssumption DEF CPUOK, CPUConsistent
  <2> QED BY <2>3, <2>4
<1> QED BY <1>7, <1>8

(* What a command that moves one block does to the blocks. *)
LEMMA RequeueStep ==
    ASSUME IInv, NEW p \in allocated, p # current_pcb, NEW rec \in PCBRecord,
           Requeue(p, rec), UNCHANGED cpu
    PROVE  BlocksOK' /\ CPUOK'
<1> DEFINE S == allocated \ {current_pcb}
<1> DEFINE P == [pcb EXCEPT ![p] = rec]
<1>1. /\ queue \in Queues /\ Holds(queue, pcb, S)
      /\ pcb \in [PCBs -> PCBRecord] /\ allocated \subseteq PCBs
  BY DEF IInv, TypeOK, QueuesExact, Queues
<1>2. /\ pcb' = P /\ queue' = pcb_insert(P, pcb_remove(queue, p), p)
      /\ allocated' = allocated /\ current_pcb' = current_pcb
  BY DEF Requeue, cpu
<1>3. p \in S /\ p \in PCBs
  BY <1>1
<1>4. Target(pcb[p]) \in QIDs /\ Target(P[p]) \in QIDs
  BY <1>1, <1>3, RecordTarget
<1>5. pcb_remove(queue, p) \in Queues /\ Holds(pcb_remove(queue, p), pcb, S \ {p})
  <2> HIDE DEF S
  <2> QED BY <1>1, <1>3, <1>4, RemoveHolds
<1>6. Holds(pcb_remove(queue, p), P, S \ {p})
  <2>1. \A x \in S \ {p} : Target(P[x]) = Target(pcb[x])
    BY <1>1
  <2> HIDE DEF S, P
  <2> QED BY <1>5, <2>1, SameHolds
<1>7. queue' \in Queues /\ Holds(queue', P, (S \ {p}) \cup {p})
  <2> HIDE DEF S, P
  <2> QED BY <1>2, <1>3, <1>4, <1>5, <1>6, InsertHolds
<1>8. (S \ {p}) \cup {p} = allocated' \ {current_pcb'}
  BY <1>2, <1>3
<1>9. BlocksOK'
  BY <1>1, <1>2, <1>7, <1>8 DEF BlocksOK, QueuesExact
<1>10. CPUOK'
  BY <1>1, <1>2 DEF IInv, TypeOK, CPUConsistent, CPUOK, cpu
<1> QED BY <1>9, <1>10

(* What creating a process does to the blocks. *)
LEMMA CreateStep ==
    ASSUME IInv, NEW rec \in PCBRecord, Create(rec), UNCHANGED cpu
    PROVE  BlocksOK' /\ CPUOK'
<1> DEFINE S == allocated \ {current_pcb}
<1>1. /\ queue \in Queues /\ Holds(queue, pcb, S)
      /\ pcb \in [PCBs -> PCBRecord] /\ allocated \subseteq PCBs
  BY DEF IInv, TypeOK, QueuesExact, Queues
<1>2. PICK p \in PCBs \ allocated :
         LET P == [pcb EXCEPT ![p] = rec]
         IN  /\ pcb' = P
             /\ allocated' = allocated \cup {p}
             /\ queue' = pcb_insert(P, queue, p)
  BY DEF Create
<1> DEFINE P == [pcb EXCEPT ![p] = rec]
<1>3. p \notin S /\ p # current_pcb /\ current_pcb' = current_pcb
  BY <1>2, NullAssumption DEF IInv, CPUConsistent, cpu
<1>4. Target(P[p]) \in QIDs
  BY <1>1, <1>2, RecordTarget
<1>5. Holds(queue, P, S)
  <2>1. \A x \in S : Target(P[x]) = Target(pcb[x])
    BY <1>1, <1>3
  <2> HIDE DEF S, P
  <2> QED BY <1>1, <2>1, SameHolds
<1>6. queue' \in Queues /\ Holds(queue', P, S \cup {p})
  <2> HIDE DEF S
  <2> QED BY <1>1, <1>2, <1>3, <1>4, <1>5, InsertHolds
<1>7. S \cup {p} = allocated' \ {current_pcb'}
  BY <1>2, <1>3
<1>8. BlocksOK'
  BY <1>1, <1>2, <1>6, <1>7 DEF BlocksOK, QueuesExact
<1>9. CPUOK'
  BY <1>1, <1>2, <1>3 DEF IInv, TypeOK, CPUConsistent, CPUOK, cpu
<1> QED BY <1>8, <1>9

(* What a command finds by name is a live process and never the command    *)
(* handler itself, which is in no queue while it executes the command.     *)
LEMMA Found ==
    ASSUME IInv, NEW name, pcb_find(pcb, queue, name) # NULL
    PROVE  LET p == pcb_find(pcb, queue, name)
           IN  p \in allocated /\ p # current_pcb /\ p \in PCBs /\ pcb[p].name = name
<1> DEFINE S == allocated \ {current_pcb}
<1>1. queue \in Queues /\ Holds(queue, pcb, S)
  BY DEF IInv, TypeOK, QueuesExact, Queues
<1>2. \A p \in S : Target(pcb[p]) \in QIDs
  BY RecordTarget DEF IInv, TypeOK
<1>3. LET f == pcb_find(pcb, queue, name)
      IN  f \in S /\ f \in PCBs /\ pcb[f].name = name
  <2> HIDE DEF S
  <2> QED BY <1>1, <1>2, FindFinds
<1> QED BY <1>3

(* What the command handler does not find by the name of another program   *)
(* does not exist.                                                         *)
LEMMA NotFound ==
    ASSUME IInv, Runs("commhand"), NEW name, name[1] # "commhand",
           pcb_find(pcb, queue, name) = NULL
    PROVE  \A p \in allocated : pcb[p].name # name
<1> DEFINE S == allocated \ {current_pcb}
<1>1. queue \in Queues /\ Holds(queue, pcb, S)
  BY DEF IInv, TypeOK, QueuesExact, Queues
<1>2. \A p \in S : Target(pcb[p]) \in QIDs
  BY RecordTarget DEF IInv, TypeOK
<1>3. \A p \in S : pcb[p].name # name
  <2> HIDE DEF S
  <2> QED BY <1>1, <1>2, FindFinds
<1>4. pcb[current_pcb].name # name
  BY RunningIsCurrent DEF Runs, Program
<1> QED BY <1>3, <1>4

(* Nothing moves. *)
LEMMA BlocksUnchanged ==
    ASSUME IInv, UNCHANGED <<blocks, cpu>>
    PROVE  BlocksOK' /\ CPUOK'
<1> USE DEF blocks, cpu
<1>1. BlocksOK /\ CPUOK
  BY DEF IInv, TypeOK, BlocksOK, CPUOK, Queues
<1>2. BlocksOK'
  BY <1>1 DEF BlocksOK, QueuesExact
<1>3. CPUOK'
  BY <1>1 DEF CPUOK, CPUConsistent
<1> QED BY <1>2, <1>3

(* Memory that no process wrote to is like itself.                         *)
LEMMA AlikeItself == Alike(pcb)
BY DEF Alike

-----------------------------------------------------------------------------
(***************************************************************************)
(* The blocks and the CPU, action by action.                               *)
(***************************************************************************)
LEMMA CoreInit == Init => BlocksOK /\ CPUOK /\ KmainPhases
<1> SUFFICES ASSUME Init PROVE BlocksOK /\ CPUOK /\ KmainPhases
  OBVIOUS
<1>1. queue \in Queues
  BY DEF Init, Queues
<1>2. QueuesExact
  BY DEF Init, QueuesExact, Holds, IsInjective, Range
<1> QED
  BY <1>1, <1>2, FreedTyped, KernelAssumption
  DEF Init, BlocksOK, CPUOK, CPUConsistent, KmainPhases

(* create_system_processes puts two new blocks into the ready queue.       *)
LEMMA CoreBoot == IInv /\ create_system_processes => BlocksOK' /\ CPUOK'
<1> SUFFICES ASSUME IInv, create_system_processes PROVE BlocksOK' /\ CPUOK'
  OBVIOUS
<1>1. PICK c \in PCBs, d \in PCBs :
         /\ c # d
         /\ LET P == [pcb EXCEPT ![c] = pcb_setup(CommhandName, "system", 0, 0),
                                 ![d] = pcb_setup(IdleName, "system", 9, 0)]
            IN  /\ pcb' = P
                /\ queue' = pcb_insert(P, pcb_insert(P, queue, c), d)
         /\ allocated' = {c, d}
  BY DEF create_system_processes
<1> DEFINE P == [pcb EXCEPT ![c] = pcb_setup(CommhandName, "system", 0, 0),
                            ![d] = pcb_setup(IdleName, "system", 9, 0)]
<1>2. P \in [PCBs -> PCBRecord]
  BY SetupTyped, NamesTyped DEF IInv, TypeOK, Priorities
<1>3. Target(P[c]) \in QIDs /\ Target(P[d]) \in QIDs
  BY <1>2, RecordTarget
<1>4. running = Kernel /\ allocated = {} /\ current_pcb = NULL
  BY KernelAssumption
  DEF create_system_processes, IInv, KmainPhases, CPUConsistent
<1>5. queue \in Queues /\ Holds(queue, P, {})
  BY <1>4 DEF IInv, TypeOK, QueuesExact, Queues, Holds
<1> HIDE DEF P
<1>6. pcb_insert(P, queue, c) \in Queues /\ Holds(pcb_insert(P, queue, c), P, {c})
  <2>1. {} \cup {c} = {c}
    OBVIOUS
  <2>2. c \notin {}
    OBVIOUS
  <2> QED BY <1>3, <1>5, <2>1, <2>2, InsertHolds
<1> DEFINE Q == pcb_insert(P, queue, c)
<1>7. pcb_insert(P, Q, d) \in Queues /\ Holds(pcb_insert(P, Q, d), P, {c, d})
  <2>1. {c} \cup {d} = {c, d} /\ d \notin {c}
    BY <1>1
  <2> HIDE DEF Q
  <2> QED BY <1>3, <1>6, <2>1, InsertHolds DEF Q
<1>8. {c, d} = allocated' \ {current_pcb'} /\ current_pcb' = NULL
  BY <1>1, <1>4, NullAssumption DEF create_system_processes
<1>9. BlocksOK'
  BY <1>1, <1>2, <1>7, <1>8 DEF BlocksOK, QueuesExact, P
<1>10. CPUOK'
  BY <1>4, <1>8 DEF create_system_processes, IInv, TypeOK, CPUOK, CPUConsistent
<1> QED BY <1>9, <1>10

(* kmain's IDLE saves its context and dispatches the first process.        *)
LEMMA CoreKernelIdle == IInv /\ KernelIdle => BlocksOK' /\ CPUOK'
<1> SUFFICES ASSUME IInv, KernelIdle PROVE BlocksOK' /\ CPUOK'
  OBVIOUS
<1> DEFINE Q == dequeue(queue, "ready")
<1> DEFINE next == get_next(queue, "ready")
<1>1. current_pcb = NULL /\ running = Kernel
  BY KernelAssumption DEF KernelIdle, IInv, TypeOK, CPUConsistent
<1>2. queue \in Queues /\ Holds(queue, pcb, allocated)
  <2>1. allocated \ {NULL} = allocated
    BY NullAssumption DEF IInv, TypeOK
  <2> QED BY <1>1, <2>1 DEF IInv, TypeOK, QueuesExact, Queues
<1>3. /\ pcb' = pcb /\ allocated' = allocated /\ current_pcb' = next
      /\ queue' = Q /\ saved_context' = Kernel
      /\ running' = IF next = NULL THEN Kernel ELSE next
  BY <1>1 DEF KernelIdle, sys_idle_call, IInv, TypeOK
<1>4. CASE queue["ready"] = <<>>
  <2>1. Q = queue /\ next = NULL
    BY <1>4 DEF dequeue, get_next
  <2>2. allocated = allocated' \ {current_pcb'}
    BY <1>3, <2>1, NullAssumption DEF IInv, TypeOK
  <2> QED
    BY <1>2, <1>3, <2>1, <2>2, KernelAssumption
    DEF BlocksOK, QueuesExact, CPUOK, CPUConsistent, IInv, TypeOK
<1>5. CASE queue["ready"] # <<>>
  <2>1. /\ next \in allocated \cap PCBs /\ Target(pcb[next]) = "ready"
        /\ Q \in Queues /\ Holds(Q, pcb, allocated \ {next})
    <3>1. next = get_next(queue, "ready") /\ Q = dequeue(queue, "ready")
      OBVIOUS
    <3> HIDE DEF next, Q
    <3> QED BY ONLY <1>2, <1>5, <3>1, DequeueReady
  <2>2. BlocksOK'
    BY <1>3, <2>1 DEF BlocksOK, QueuesExact, IInv, TypeOK
  <2>3. CPUOK'
    BY <1>3, <2>1, NullAssumption, KernelAssumption DEF CPUOK, CPUConsistent
  <2> QED BY <2>2, <2>3
<1> QED BY <1>4, <1>5

(* An R3 process yields until its iterations are done, then exits.         *)
LEMMA CoreR3 == IInv /\ r3_proc => BlocksOK' /\ CPUOK'
<1> SUFFICES ASSUME IInv, r3_proc PROVE BlocksOK' /\ CPUOK'
  OBVIOUS
<1>1. running \in PCBs /\ pcb \in [PCBs -> PCBRecord]
  BY DEF r3_proc, Runs, IInv, TypeOK
<1>2. CASE pcb[running].left > 0
  <2> DEFINE P == [pcb EXCEPT ![running].left = @ - 1]
  <2>1. sys_idle_call(P)
    BY <1>2 DEF r3_proc
  <2>2. P \in [PCBs -> PCBRecord]
    BY <1>1, <1>2 DEF PCBRecord
  <2>3. Alike(P)
    BY <1>1 DEF Alike, PCBRecord
  <2> HIDE DEF P
  <2> QED BY <1>1, <2>1, <2>2, <2>3, IdleCall
<1>3. CASE ~ (pcb[running].left > 0)
  BY <1>1, <1>3, ExitCall, AlikeItself DEF r3_proc
<1> QED BY <1>2, <1>3

(* What a control block holds of its alarm's data. *)
SameAlarm(r, s) ==
    r.started = s.started /\ r.target = s.target /\ r.asked = s.asked

(* A record with one field changed. *)
LEMMA SetState ==
    ASSUME NEW r \in PCBRecord, NEW x \in {"ready", "blocked"}
    PROVE  LET s == [r EXCEPT !.state = x]
           IN  /\ s \in PCBRecord /\ s.name = r.name
               /\ s.processor_class = r.processor_class
               /\ s.suspended = r.suspended /\ s.state = x
               /\ SameAlarm(s, r)
BY DEF PCBRecord, SameAlarm

(* Setting the priority keeps the type, the name, the class and the flag.  *)
LEMMA SetPriority ==
    ASSUME NEW r \in PCBRecord, NEW n \in Priorities
    PROVE  LET s == [r EXCEPT !.priority = n]
           IN  /\ s \in PCBRecord /\ s.name = r.name
               /\ s.processor_class = r.processor_class
               /\ s.suspended = r.suspended /\ s.priority = n
               /\ SameAlarm(s, r)
BY DEF PCBRecord, SameAlarm

(* Setting the suspended flag keeps the type, the name and the class.      *)
LEMMA SetSuspended ==
    ASSUME NEW r \in PCBRecord, NEW b \in BOOLEAN
    PROVE  LET s == [r EXCEPT !.suspended = b]
           IN  /\ s \in PCBRecord /\ s.name = r.name
               /\ s.processor_class = r.processor_class
               /\ s.suspended = b
               /\ SameAlarm(s, r)
BY DEF PCBRecord, SameAlarm

(* Copying the alarm's data keeps what the queues and commands look at.    *)
LEMMA SetTarget ==
    ASSUME NEW r \in PCBRecord, NEW m \in Moments
    PROVE  LET s == [r EXCEPT !.started = TRUE, !.target = m]
           IN  /\ s \in PCBRecord /\ s.name = r.name
               /\ s.processor_class = r.processor_class
               /\ s.state = r.state /\ s.suspended = r.suspended
               /\ s.priority = r.priority
               /\ s.started = TRUE /\ s.target = m /\ s.asked = r.asked
BY DEF PCBRecord

(* The memory as an alarm leaves it. *)
AlarmMemory ==
    IF pcb[running].started THEN pcb
    ELSE [pcb EXCEPT ![running].started = TRUE,
                     ![running].target = temp_alarm_data]

(* What alarm_process writes does not matter to the queues.                *)
LEMMA AlarmMemoryAlike ==
    ASSUME IInv, running \in PCBs
    PROVE  AlarmMemory \in [PCBs -> PCBRecord] /\ Alike(AlarmMemory)
<1>1. pcb \in [PCBs -> PCBRecord] /\ temp_alarm_data \in Moments
  BY DEF IInv, TypeOK
<1>2. CASE pcb[running].started
  BY <1>1, <1>2, AlikeItself DEF AlarmMemory
<1>3. CASE ~ pcb[running].started
  <2> DEFINE rec == [pcb[running] EXCEPT !.started = TRUE, !.target = temp_alarm_data]
  <2>1. AlarmMemory = [pcb EXCEPT ![running] = rec]
    BY <1>1, <1>3 DEF AlarmMemory, PCBRecord
  <2>2. /\ rec \in PCBRecord /\ rec.name = pcb[running].name
        /\ rec.processor_class = pcb[running].processor_class
        /\ rec.state = pcb[running].state
        /\ rec.suspended = pcb[running].suspended
        /\ rec.priority = pcb[running].priority
    <3>1. pcb[running] \in PCBRecord
      BY <1>1
    <3> QED BY <1>1, <3>1, SetTarget, ZenonT(60)
  <2> HIDE DEF rec
  <2> QED BY <1>1, <2>1, <2>2 DEF Alike
<1> QED BY <1>2, <1>3

(* alarm_process ends in one of the two system calls.                      *)
LEMMA AlarmCalls ==
    ASSUME alarm_process
    PROVE  /\ running \in PCBs
           /\ sys_exit_call(AlarmMemory) \/ sys_idle_call(AlarmMemory)
BY DEF alarm_process, AlarmMemory, Runs

(* A step of an alarm keeps the blocks and the CPU consistent.             *)
LEMMA CoreAlarm == IInv /\ alarm_process => BlocksOK' /\ CPUOK'
BY AlarmCalls, AlarmMemoryAlike, IdleCall, ExitCall

(* So does a yield of the idle process or of the command handler.          *)
LEMMA CoreYield ==
    IInv /\ (sys_idle_process \/ CommhandYields) => BlocksOK' /\ CPUOK'
<1> SUFFICES ASSUME IInv, running \in PCBs, sys_idle_call(pcb)
             PROVE  BlocksOK' /\ CPUOK'
  BY DEF sys_idle_process, CommhandYields, Runs
<1>1. pcb \in [PCBs -> PCBRecord]
  BY DEF IInv, TypeOK
<1> QED BY <1>1, IdleCall, AlikeItself

(* So does the command handler's exit.                                     *)
LEMMA CoreExit == IInv /\ exit => BlocksOK' /\ CPUOK'
<1> SUFFICES ASSUME IInv, running \in PCBs, sys_exit_call(pcb)
             PROVE  BlocksOK' /\ CPUOK'
  BY DEF exit, Typed, Runs
<1>1. pcb \in [PCBs -> PCBRecord]
  BY DEF IInv, TypeOK
<1> QED BY <1>1, ExitCall, AlikeItself

(* The commands that change one process: what they find and what they make *)
(* of it.                                                                  *)
Moved(p, rec) ==
    /\ p \in allocated /\ p # current_pcb /\ p \in PCBs
    /\ rec \in PCBRecord
    /\ rec.name = pcb[p].name
    /\ rec.processor_class = pcb[p].processor_class
    /\ SameAlarm(rec, pcb[p])
    /\ rec.suspended => pcb[p].suspended \/ pcb[p].processor_class # "system"
    /\ Target(pcb[p]) = "ready" /\ Target(rec) = "ready"
          => rec.priority # pcb[p].priority
    /\ Requeue(p, rec)
    /\ UNCHANGED cpu

OneMoves == block_pcb \/ unblock_pcb \/ set_pcb_priority \/ suspend_pcb \/ resume_pcb

(* Each command on one process moves one block that is in a queue.         *)
LEMMA CommandMoves ==
    ASSUME IInv, OneMoves
    PROVE  \E p \in PCBs, rec \in PCBRecord : Moved(p, rec)
<1>0. pcb \in [PCBs -> PCBRecord]
  BY DEF IInv, TypeOK
<1>1. CASE block_pcb
  <2>1. PICK name :
           LET p == pcb_find(pcb, queue, name)
           IN  /\ p # NULL
               /\ Requeue(p, [pcb[p] EXCEPT !.state = "blocked"])
               /\ UNCHANGED cpu
    BY <1>1 DEF block_pcb, OnFound
  <2> DEFINE p == pcb_find(pcb, queue, name)
  <2> DEFINE rec == [pcb[p] EXCEPT !.state = "blocked"]
  <2>2. p \in allocated /\ p # current_pcb /\ p \in PCBs
    BY <2>1, Found
  <2> HIDE DEF p
  <2>3. /\ rec \in PCBRecord /\ rec.name = pcb[p].name
        /\ rec.processor_class = pcb[p].processor_class
        /\ SameAlarm(rec, pcb[p])
        /\ rec.suspended = pcb[p].suspended /\ rec.state = "blocked"
    <3>1. pcb[p] \in PCBRecord
      BY <1>0, <2>2
    <3> QED BY <3>1, SetState
  <2>4. Requeue(p, rec) /\ UNCHANGED cpu
    BY <2>1 DEF p
  <2> HIDE DEF rec
  <2>5. Target(pcb[p]) = "ready" /\ Target(rec) = "ready"
           => rec.priority # pcb[p].priority
    BY <2>3, <2>4 DEF Target
  <2> QED BY <2>1, <2>2, <2>3, <2>4, <2>5 DEF Moved, p
<1>2. CASE unblock_pcb
  <2>1. PICK name :
           LET p == pcb_find(pcb, queue, name)
           IN  /\ p # NULL
               /\ pcb[p].state # "ready"
               /\ Requeue(p, [pcb[p] EXCEPT !.state = "ready"])
               /\ UNCHANGED cpu
    BY <1>2 DEF unblock_pcb, OnFound
  <2> DEFINE p == pcb_find(pcb, queue, name)
  <2> DEFINE rec == [pcb[p] EXCEPT !.state = "ready"]
  <2>2. p \in allocated /\ p # current_pcb /\ p \in PCBs
    BY <2>1, Found
  <2> HIDE DEF p
  <2>3. /\ rec \in PCBRecord /\ rec.name = pcb[p].name
        /\ rec.processor_class = pcb[p].processor_class
        /\ SameAlarm(rec, pcb[p])
        /\ rec.suspended = pcb[p].suspended
    <3>1. pcb[p] \in PCBRecord
      BY <1>0, <2>2
    <3> QED BY <3>1, SetState
  <2>4. Requeue(p, rec) /\ UNCHANGED cpu /\ pcb[p].state # "ready"
    BY <2>1 DEF p
  <2> HIDE DEF rec
  <2>5. Target(pcb[p]) = "ready" /\ Target(rec) = "ready"
           => rec.priority # pcb[p].priority
    BY <2>3, <2>4 DEF Target
  <2> QED BY <2>1, <2>2, <2>3, <2>4, <2>5 DEF Moved, p
<1>3. CASE set_pcb_priority
  <2>1. PICK n \in Priorities, name \in {pcb[q].name : q \in allocated} :
           LET p == pcb_find(pcb, queue, name)
           IN  /\ p # NULL
               /\ pcb[p].priority # n
               /\ Requeue(p, [pcb[p] EXCEPT !.priority = n])
               /\ UNCHANGED cpu
    BY <1>3 DEF set_pcb_priority, OnFound
  <2> DEFINE p == pcb_find(pcb, queue, name)
  <2> DEFINE rec == [pcb[p] EXCEPT !.priority = n]
  <2>2. p \in allocated /\ p # current_pcb /\ p \in PCBs
    BY <2>1, Found
  <2> HIDE DEF p
  <2>3. /\ rec \in PCBRecord /\ rec.name = pcb[p].name
        /\ rec.processor_class = pcb[p].processor_class
        /\ SameAlarm(rec, pcb[p])
        /\ rec.suspended = pcb[p].suspended /\ rec.priority = n
    <3>1. pcb[p] \in PCBRecord
      BY <1>0, <2>2
    <3> QED BY <3>1, SetPriority
  <2>4. Requeue(p, rec) /\ UNCHANGED cpu /\ pcb[p].priority # n
    BY <2>1 DEF p
  <2> HIDE DEF rec
  <2>5. Target(pcb[p]) = "ready" /\ Target(rec) = "ready"
           => rec.priority # pcb[p].priority
    BY <2>3, <2>4 DEF Target
  <2> QED BY <2>1, <2>2, <2>3, <2>4, <2>5 DEF Moved, p
<1>4. CASE suspend_pcb
  <2>1. PICK name :
           LET p == pcb_find(pcb, queue, name)
           IN  /\ p # NULL
               /\ pcb[p].processor_class # "system"
               /\ Requeue(p, [pcb[p] EXCEPT !.suspended = TRUE])
               /\ UNCHANGED cpu
    BY <1>4 DEF suspend_pcb, OnFound
  <2> DEFINE p == pcb_find(pcb, queue, name)
  <2> DEFINE rec == [pcb[p] EXCEPT !.suspended = TRUE]
  <2>2. p \in allocated /\ p # current_pcb /\ p \in PCBs
    BY <2>1, Found
  <2> HIDE DEF p
  <2>3. /\ rec \in PCBRecord /\ rec.name = pcb[p].name
        /\ rec.processor_class = pcb[p].processor_class
        /\ SameAlarm(rec, pcb[p])
        /\ rec.suspended = TRUE
    <3>1. pcb[p] \in PCBRecord
      BY <1>0, <2>2
    <3> QED BY <3>1, SetSuspended
  <2>4. Requeue(p, rec) /\ UNCHANGED cpu
    BY <2>1 DEF p
  <2> HIDE DEF rec
  <2>5. Target(pcb[p]) = "ready" /\ Target(rec) = "ready"
           => rec.priority # pcb[p].priority
    BY <2>3, <2>4 DEF Target
  <2> QED BY <2>1, <2>2, <2>3, <2>4, <2>5 DEF Moved, p
<1>5. CASE resume_pcb
  <2>1. PICK name :
           LET p == pcb_find(pcb, queue, name)
           IN  /\ p # NULL
               /\ pcb[p].suspended
               /\ Requeue(p, [pcb[p] EXCEPT !.suspended = FALSE])
               /\ UNCHANGED cpu
    BY <1>5 DEF resume_pcb, OnFound
  <2> DEFINE p == pcb_find(pcb, queue, name)
  <2> DEFINE rec == [pcb[p] EXCEPT !.suspended = FALSE]
  <2>2. p \in allocated /\ p # current_pcb /\ p \in PCBs
    BY <2>1, Found
  <2> HIDE DEF p
  <2>3. /\ rec \in PCBRecord /\ rec.name = pcb[p].name
        /\ rec.processor_class = pcb[p].processor_class
        /\ SameAlarm(rec, pcb[p])
        /\ rec.suspended = FALSE
    <3>1. pcb[p] \in PCBRecord
      BY <1>0, <2>2
    <3> QED BY <3>1, SetSuspended
  <2>4. Requeue(p, rec) /\ UNCHANGED cpu /\ pcb[p].suspended
    BY <2>1 DEF p
  <2> HIDE DEF rec
  <2>5. Target(pcb[p]) = "ready" /\ Target(rec) = "ready"
           => rec.priority # pcb[p].priority
    BY <2>3, <2>4 DEF Target
  <2> QED BY <2>1, <2>2, <2>3, <2>4, <2>5 DEF Moved, p
<1> QED BY <1>1, <1>2, <1>3, <1>4, <1>5 DEF OneMoves

(* The commands on one process keep the blocks and the CPU consistent.     *)
LEMMA CoreMoves == IInv /\ OneMoves => BlocksOK' /\ CPUOK'
BY CommandMoves, RequeueStep DEF Moved

(* A deleted process is in a queue; the others stay where they are. *)
LEMMA DeleteFinds ==
    ASSUME IInv, delete_pcb
    PROVE  \E p \in PCBs :
              /\ p \in allocated /\ p # current_pcb
              /\ pcb[p].processor_class # "system"
              /\ queue' = pcb_remove(queue, p)
              /\ pcb' = [pcb EXCEPT ![p] = Freed]
              /\ allocated' = allocated \ {p}
              /\ UNCHANGED cpu
<1>1. PICK name :
         LET p == pcb_find(pcb, queue, name)
         IN  /\ p # NULL
             /\ pcb[p].processor_class # "system"
             /\ queue' = pcb_remove(queue, p)
             /\ pcb' = [pcb EXCEPT ![p] = Freed]
             /\ allocated' = allocated \ {p}
             /\ UNCHANGED cpu
  BY DEF delete_pcb, OnFound
<1> DEFINE p == pcb_find(pcb, queue, name)
<1>2. p \in allocated /\ p # current_pcb /\ p \in PCBs
  BY <1>1, Found
<1>3. /\ pcb[p].processor_class # "system"
      /\ queue' = pcb_remove(queue, p)
      /\ pcb' = [pcb EXCEPT ![p] = Freed]
      /\ allocated' = allocated \ {p}
      /\ UNCHANGED cpu
  BY <1>1
<1> HIDE DEF p
<1> QED BY <1>2, <1>3

(* delete_pcb takes a block out of its queue before it frees it.           *)
LEMMA CoreDelete == IInv /\ delete_pcb => BlocksOK' /\ CPUOK'
<1> SUFFICES ASSUME IInv, delete_pcb PROVE BlocksOK' /\ CPUOK'
  OBVIOUS
<1>1. PICK p \in PCBs :
         /\ p \in allocated /\ p # current_pcb
         /\ pcb[p].processor_class # "system"
         /\ queue' = pcb_remove(queue, p)
         /\ pcb' = [pcb EXCEPT ![p] = Freed]
         /\ allocated' = allocated \ {p}
         /\ UNCHANGED cpu
  BY DeleteFinds
<1> DEFINE S == allocated \ {current_pcb}
<1> DEFINE P == [pcb EXCEPT ![p] = Freed]
<1>2. /\ queue \in Queues /\ Holds(queue, pcb, S)
      /\ pcb \in [PCBs -> PCBRecord] /\ allocated \subseteq PCBs
  BY DEF IInv, TypeOK, QueuesExact, Queues
<1>3. p \in S /\ Target(pcb[p]) \in QIDs
  BY <1>1, <1>2, RecordTarget
<1>4. pcb_remove(queue, p) \in Queues /\ Holds(pcb_remove(queue, p), pcb, S \ {p})
  <2> HIDE DEF S
  <2> QED BY <1>2, <1>3, RemoveHolds
<1>5. Holds(pcb_remove(queue, p), P, S \ {p})
  <2>1. \A x \in S \ {p} : Target(P[x]) = Target(pcb[x])
    BY <1>2
  <2> HIDE DEF S, P
  <2> QED BY <1>4, <2>1, SameHolds
<1>6. S \ {p} = allocated' \ {current_pcb'}
  BY <1>1 DEF cpu
<1>7. BlocksOK'
  BY <1>1, <1>2, <1>4, <1>5, <1>6, FreedTyped DEF BlocksOK, QueuesExact
<1>8. CPUOK'
  BY <1>1, <1>2 DEF IInv, TypeOK, CPUConsistent, CPUOK, cpu
<1> QED BY <1>7, <1>8

(* The blocks that the creating commands make. *)
LEMMA NewProcTyped ==
    ASSUME NEW n \in 1 .. R3Count, NEW b \in BOOLEAN
    PROVE  /\ NewProc(n, b) \in PCBRecord
           /\ NewProc(n, b).name = ProcName(n)
<1> DEFINE r == pcb_setup(ProcName(n), "user", n, n)
<1>1. n \in 1 .. 5 /\ n \in Priorities /\ n \in 0 .. 5
  BY R3Assumption DEF Priorities
<1>2. r \in PCBRecord /\ r.name = ProcName(n)
  BY <1>1, SetupTyped, NamesTyped DEF pcb_setup
<1> HIDE DEF r
<1>3. [r EXCEPT !.suspended = b] \in PCBRecord
      /\ [r EXCEPT !.suspended = b].name = ProcName(n)
  BY <1>2, SetSuspended
<1> QED BY <1>3 DEF NewProc, r

(* The block of a new alarm has the type and the name it should.           *)
LEMMA NewAlarmTyped ==
    ASSUME NEW n \in Nat, NEW m \in Moments
    PROVE  LET r == [pcb_setup(AlarmName(n), "user", 3, 0) EXCEPT !.asked = m]
           IN  r \in PCBRecord /\ r.name = AlarmName(n)
<1>1. pcb_setup(AlarmName(n), "user", 3, 0) \in PCBRecord
  BY SetupTyped, NamesTyped DEF Priorities
<1>2. pcb_setup(AlarmName(n), "user", 3, 0).name = AlarmName(n)
  BY DEF pcb_setup
<1> QED BY <1>1, <1>2 DEF PCBRecord

(* The clock before and after a tick is a moment.                          *)
LEMMA TickedTyped == IInv => clock \in Moments /\ Ticked \in Moments
<1> SUFFICES ASSUME IInv PROVE clock \in Moments /\ Ticked \in Moments
  OBVIOUS
<1>1. clock \in Moments /\ clock.day \in Nat /\ clock.time \in Nat
  BY DEF IInv, TypeOK, Moments
<1>2. clock.time + 1 \in Nat /\ clock.day + 1 \in Nat
  BY <1>1
<1>3. [clock EXCEPT !.time = @ + 1] \in Moments
  BY <1>1, <1>2 DEF Moments
<1>4. [day |-> clock.day + 1, time |-> 0] \in Moments
  BY <1>2 DEF Moments
<1> QED BY <1>1, <1>3, <1>4 DEF Ticked

(* What is read of the clock is a moment, torn or not.                     *)
LEMMA ReadingTyped ==
    ASSUME IInv, clock' \in {clock, Ticked}, NEW reading \in Readings
    PROVE  reading.day \in Nat /\ reading.time \in Nat
<1>1. clock \in Moments /\ clock' \in Moments
  BY TickedTyped
<1>2. clock.day \in Nat /\ clock'.day \in Nat /\ clock.time \in Nat
  BY <1>1 DEF Moments
<1>3. \A n \in DaysAhead : clock.day + n \in Nat
  BY <1>2, TornAssumption
<1>4. DatesRead \subseteq Nat
  BY <1>2, <1>3 DEF DatesRead
<1>5. TimesRead \subseteq Nat
  BY <1>2 DEF TimesRead
<1>6. reading.day \in DatesRead /\ reading.time \in TimesRead
  BY DEF Readings
<1> QED BY <1>4, <1>5, <1>6

(* The moment create_alarm_process computes is a moment.                   *)
LEMMA TargetTyped ==
    ASSUME IInv, clock' \in {clock, Ticked},
           NEW time \in 0 .. DayLength - 1, NEW reading \in Readings
    PROVE  AlarmTarget(time, reading) \in Moments
<1>1. reading.day \in Nat /\ time \in Nat /\ reading.day + 1 \in Nat
  BY ReadingTyped, ClockAssumption
<1> QED BY <1>1 DEF AlarmTarget, Moments

(* What a creating command does: nothing, or one process whose name is new *)
(* and, if it is an alarm's, the last number given.                        *)
Creating ==
    \/ \E c \in {"loadr3", "loadr3_suspended"}, b \in BOOLEAN : LoadsNext(c, b)
    \/ load_process
    \/ create_alarm_process

NewName(name) ==
    /\ \A q \in allocated : pcb[q].name # name
    /\ name[1] = "alarm" => name[2] <= alarm_counter'

(* A loader that finds no process of a name may create one.                *)
LEMMA NewProcName ==
    ASSUME IInv, Runs("commhand"), NEW n \in 1 .. R3Count, ~ Exists(ProcName(n))
    PROVE  NewName(ProcName(n))
<1>1. ProcName(n)[1] = "proc"
  BY DEF ProcName
<1>2. \A q \in allocated : pcb[q].name # ProcName(n)
  BY <1>1, NotFound DEF Exists
<1> QED BY <1>1, <1>2 DEF NewName

(* The number of a new alarm is not in use.                                *)
LEMMA NewAlarmName ==
    ASSUME IInv, alarm_counter' = alarm_counter + 1
    PROVE  NewName(AlarmName(alarm_counter + 1))
<1> DEFINE name == AlarmName(alarm_counter + 1)
<1>1. name[1] = "alarm" /\ name[2] = alarm_counter + 1 /\ alarm_counter \in Nat
  BY DEF AlarmName, IInv, TypeOK
<1>2. ASSUME NEW q \in allocated, pcb[q].name = name PROVE FALSE
  <2>1. Program(pcb[q]) = "alarm" /\ pcb[q].name[2] = alarm_counter + 1
    BY <1>1, <1>2 DEF Program
  <2> QED BY <1>1, <2>1 DEF IInv, AlarmsNumbered
<1> QED BY <1>1, <1>2 DEF NewName

(* Each creating command leaves the blocks or creates one new name.        *)
LEMMA CreationCases ==
    ASSUME IInv, Creating
    PROVE  /\ UNCHANGED cpu
           /\ \/ UNCHANGED blocks
              \/ \E rec \in PCBRecord : Create(rec) /\ NewName(rec.name)
<1>1. CASE \E c \in {"loadr3", "loadr3_suspended"}, b \in BOOLEAN : LoadsNext(c, b)
  <2>1. PICK b \in BOOLEAN :
           /\ UNCHANGED cpu
           /\ Runs("commhand")
           /\ \/ ~ Exists(ProcName(i)) /\ Create(NewProc(i, b))
              \/ UNCHANGED blocks
    BY <1>1 DEF LoadsNext
  <2>2. i \in 1 .. R3Count
    BY DEF IInv, TypeOK
  <2> QED BY <2>1, <2>2, NewProcTyped, NewProcName
<1>2. CASE load_process
  <2>1. PICK n \in 1 .. R3Count :
           /\ UNCHANGED cpu
           /\ Runs("commhand")
           /\ \/ ~ Exists(ProcName(n)) /\ Create(NewProc(n, FALSE))
              \/ UNCHANGED blocks
    BY <1>2 DEF load_process, Typed
  <2> QED BY <2>1, NewProcTyped, NewProcName
<1>3. CASE create_alarm_process
  <2> DEFINE rec(m) == [pcb_setup(AlarmName(alarm_counter + 1), "user", 3, 0)
                            EXCEPT !.asked = m]
  <2>1. PICK time \in 0 .. DayLength - 1, reading \in Readings :
          LET target == AlarmTarget(time, reading)
          IN  /\ clock' \in {clock, Ticked}
              /\ UNCHANGED cpu
              /\ alarm_counter' = alarm_counter + 1
              /\ Create(rec(target)) \/ UNCHANGED blocks
    BY <1>3 DEF create_alarm_process
  <2> DEFINE target == AlarmTarget(time, reading)
  <2>2. target \in Moments
    BY <2>1, TargetTyped
  <2>3. /\ UNCHANGED cpu
        /\ alarm_counter' = alarm_counter + 1
        /\ Create(rec(target)) \/ UNCHANGED blocks
    BY <2>1
  <2> HIDE DEF target
  <2>4. alarm_counter + 1 \in Nat
    BY DEF IInv, TypeOK
  <2>5. rec(target) \in PCBRecord /\ rec(target).name = AlarmName(alarm_counter + 1)
    BY <2>2, <2>4, NewAlarmTyped
  <2>6. NewName(AlarmName(alarm_counter + 1))
    BY <2>3, NewAlarmName
  <2> HIDE DEF rec
  <2> QED BY <2>3, <2>5, <2>6
<1> QED BY <1>1, <1>2, <1>3 DEF Creating

(* The creating commands keep the blocks and the CPU consistent.           *)
LEMMA CoreCreate == IInv /\ Creating => BlocksOK' /\ CPUOK'
BY CreationCases, CreateStep, BlocksUnchanged

(* resume_all, one process at a time. *)
LEMMA ResumeAllCases ==
    ASSUME IInv, resume_all_next
    PROVE  /\ UNCHANGED cpu
           /\ \/ UNCHANGED blocks
              \/ \E p \in PCBs :
                    /\ p = get_next(queue, "suspended")
                    /\ queue["suspended"] # <<>>
                    /\ pcb' = [pcb EXCEPT ![p].suspended = FALSE]
                    /\ queue' = enqueue(dequeue(queue, "suspended"),
                                        pcb[p].state, p)
                    /\ allocated' = allocated
<1> DEFINE p == get_next(queue, "suspended")
<1>1. CASE p = NULL
  BY <1>1 DEF resume_all_next
<1>2. CASE p # NULL
  <2>1. queue["suspended"] # <<>> /\ p = Head(queue["suspended"])
    BY <1>2 DEF get_next
  <2>2. queue["suspended"] \in Seq(PCBs)
    BY DEF IInv, TypeOK, QIDs
  <2>3. p \in PCBs
    BY <2>1, <2>2, HeadTailProperties
  <2> QED BY <1>2, <2>1, <2>3 DEF resume_all_next
<1> QED BY <1>1, <1>2

(* resume_all moves a block to the queue its other flag calls for.         *)
LEMMA CoreResumeAll == IInv /\ resume_all_next => BlocksOK' /\ CPUOK'
<1> SUFFICES ASSUME IInv, resume_all_next PROVE BlocksOK' /\ CPUOK'
  OBVIOUS
<1>1. CASE UNCHANGED blocks
  BY <1>1, ResumeAllCases, BlocksUnchanged
<1>2. CASE ~ UNCHANGED blocks
  <2>1. PICK p \in PCBs :
           /\ p = get_next(queue, "suspended")
           /\ queue["suspended"] # <<>>
           /\ pcb' = [pcb EXCEPT ![p].suspended = FALSE]
           /\ queue' = enqueue(dequeue(queue, "suspended"), pcb[p].state, p)
           /\ allocated' = allocated
           /\ UNCHANGED cpu
    BY <1>2, ResumeAllCases
  <2> DEFINE S == allocated \ {current_pcb}
  <2> DEFINE Q == dequeue(queue, "suspended")
  <2> DEFINE P == [pcb EXCEPT ![p].suspended = FALSE]
  <2>2. /\ queue \in Queues /\ Holds(queue, pcb, S)
        /\ pcb \in [PCBs -> PCBRecord] /\ allocated \subseteq PCBs
    BY DEF IInv, TypeOK, QueuesExact, Queues
  <2>3. p \in S /\ Q \in Queues /\ Holds(Q, pcb, S \ {p})
    <3>1. "suspended" \in QIDs
      BY DEF QIDs
    <3> HIDE DEF S
    <3> QED BY <2>1, <2>2, <3>1, DequeueHolds
  <2>4. Target(P[p]) = pcb[p].state /\ Target(P[p]) \in QIDs /\ P \in [PCBs -> PCBRecord]
    <3>1. pcb[p] \in PCBRecord
      BY <2>2
    <3>2. [pcb[p] EXCEPT !.suspended = FALSE] \in PCBRecord
          /\ [pcb[p] EXCEPT !.suspended = FALSE].suspended = FALSE
          /\ [pcb[p] EXCEPT !.suspended = FALSE].state = pcb[p].state
      BY <3>1 DEF PCBRecord
    <3>3. P[p] = [pcb[p] EXCEPT !.suspended = FALSE] /\ P \in [PCBs -> PCBRecord]
      BY <2>2, <3>2
    <3>4. P[p].suspended = FALSE /\ P[p].state = pcb[p].state
      BY <3>2, <3>3
    <3>5. Target(P[p]) = pcb[p].state
      BY <3>4 DEF Target
    <3> QED BY <3>1, <3>3, <3>5 DEF PCBRecord, QIDs
  <2>5. Holds(Q, P, S \ {p})
    <3>1. \A x \in S \ {p} : Target(P[x]) = Target(pcb[x])
      BY <2>2
    <3> HIDE DEF S, P, Q
    <3> QED BY <2>3, <3>1, SameHolds
  <2>6. queue' = enqueue(Q, Target(P[p]), p)
    BY <2>1, <2>4
  <2>7. queue' \in Queues /\ Holds(queue', P, (S \ {p}) \cup {p})
    <3>1. p \notin S \ {p}
      OBVIOUS
    <3> HIDE DEF S, P, Q
    <3>2. /\ enqueue(Q, Target(P[p]), p) \in Queues
          /\ Holds(enqueue(Q, Target(P[p]), p), P, (S \ {p}) \cup {p})
      BY <2>3, <2>4, <2>5, <3>1, EnqueueHolds
    <3> QED BY <2>6, <3>2
  <2>8. (S \ {p}) \cup {p} = allocated' \ {current_pcb'}
    BY <2>1, <2>3 DEF cpu
  <2>9. BlocksOK'
    BY <2>1, <2>2, <2>4, <2>7, <2>8 DEF BlocksOK, QueuesExact
  <2>10. CPUOK'
    <3>1. current_pcb \in PCBs => P[current_pcb] = pcb[current_pcb]
      BY <2>2, <2>3
    <3> QED BY <2>1, <2>2, <3>1 DEF IInv, TypeOK, CPUConsistent, CPUOK, cpu
  <2> QED BY <2>9, <2>10
<1> QED BY <1>1, <1>2

(* The steps that touch neither the blocks nor the CPU. *)
Idles ==
    \/ NothingDone \/ resume_all_starts \/ set_clock \/ Tick
    \/ StartsLoading("loadr3") \/ StartsLoading("loadr3_suspended")
    \/ UNCHANGED vars

(* The steps that only talk or tick leave the blocks and the CPU.          *)
LEMMA IdlesKeep == Idles => UNCHANGED <<blocks, cpu>>
BY DEF Idles, NothingDone, resume_all_starts, set_clock, Tick, StartsLoading, vars

(* The steps, in the groups the proof treats together.                     *)
LEMMA StepCases ==
    ASSUME [Next]_vars
    PROVE  \/ create_system_processes \/ KernelIdle
           \/ r3_proc \/ sys_idle_process \/ alarm_process \/ CommhandYields
           \/ exit \/ delete_pcb \/ OneMoves \/ Creating \/ resume_all_next
           \/ Idles
BY DEF Next, System, Prompt, Terminated, OneMoves, Creating, Idles

(* Every step keeps the blocks and the CPU consistent.                     *)
LEMMA CoreStep == IInv /\ [Next]_vars => BlocksOK' /\ CPUOK'
<1> SUFFICES ASSUME IInv, [Next]_vars PROVE BlocksOK' /\ CPUOK'
  OBVIOUS
<1>1. CASE Idles
  BY <1>1, IdlesKeep, BlocksUnchanged
<1> QED
  BY <1>1, StepCases, CoreBoot, CoreKernelIdle, CoreR3, CoreYield, CoreAlarm,
     CoreExit, CoreDelete, CoreMoves, CoreCreate, CoreResumeAll

(* Where kmain is and which commands are under way. *)
LEMMA KmainStep ==
    ASSUME IInv, [Next]_vars
    PROVE  /\ kmain' \in {"boot", "idle", "back"}
           /\ KmainPhases'
           /\ kmain' = "boot" => kmain = "boot"
           /\ kmain = "boot" /\ kmain' # "boot" => create_system_processes
<1>1. kmain \in {"boot", "idle", "back"} /\ KmainPhases
  BY DEF IInv, TypeOK
<1>2. Runs("commhand") \/ running \in PCBs => kmain = "back"
  BY RunningIsCurrent DEF Runs
<1>3. CASE create_system_processes
  BY <1>1, <1>3, KernelAssumption
  DEF create_system_processes, KmainPhases, IInv, CPUConsistent
<1>4. CASE KernelIdle
  BY <1>4 DEF KernelIdle, KmainPhases
<1>5. CASE r3_proc \/ sys_idle_process \/ alarm_process \/ CommhandYields \/ exit
  BY <1>1, <1>2, <1>5
  DEF r3_proc, sys_idle_process, alarm_process, CommhandYields, exit, Typed, Runs,
      KmainPhases
<1>6. CASE delete_pcb
  BY <1>1, <1>2, <1>6 DEF delete_pcb, OnFound, Typed, KmainPhases, cpu
<1>7. CASE OneMoves
  BY <1>1, <1>2, <1>7
  DEF OneMoves, block_pcb, unblock_pcb, set_pcb_priority, suspend_pcb, resume_pcb,
      OnFound, Typed, KmainPhases, cpu
<1>8. CASE Creating
  BY <1>1, <1>2, <1>8
  DEF Creating, LoadsNext, load_process, create_alarm_process, Typed, KmainPhases, cpu
<1>9. CASE resume_all_next
  BY <1>1, <1>2, <1>9 DEF resume_all_next, KmainPhases, cpu
<1>10. CASE Idles
  BY <1>1, <1>10, IdlesKeep DEF KmainPhases, blocks, cpu
<1> QED
  BY <1>3, <1>4, <1>5, <1>6, <1>7, <1>8, <1>9, <1>10, StepCases

(* The variables of the command handler, the alarms and the clock. *)
RestOK ==
    /\ at \in {"loop", "prompt", "loadr3", "loadr3_suspended", "resume_all"}
    /\ i \in 1 .. R3Count
    /\ temp_alarm_data \in Moments
    /\ alarm_counter \in Nat
    /\ shutting_down \in BOOLEAN
    /\ clock \in Moments

(* Every step keeps the types of the other variables; the alarms are       *)
(* only counted up and shutting_down is never reset.                       *)
LEMMA RestStep ==
    ASSUME IInv, [Next]_vars
    PROVE  RestOK' /\ alarm_counter <= alarm_counter'
           /\ (shutting_down => shutting_down')
<1>1. RestOK
  BY DEF IInv, TypeOK, RestOK
<1>2. alarm_counter <= alarm_counter /\ 1 \in 1 .. R3Count
  BY <1>1, R3Assumption DEF RestOK
<1>3. CASE create_system_processes \/ KernelIdle \/ r3_proc \/ sys_idle_process
           \/ CommhandYields
  BY <1>1, <1>2, <1>3
  DEF create_system_processes, KernelIdle, r3_proc, sys_idle_process, CommhandYields,
      RestOK, alarms, control
<1>4. CASE alarm_process
  BY <1>1, <1>2, <1>4, TickedTyped DEF alarm_process, RestOK, alarms, control
<1>5. CASE exit
  BY <1>1, <1>2, <1>5 DEF exit, RestOK, alarms, control
<1>6. CASE delete_pcb
  BY <1>1, <1>2, <1>6 DEF delete_pcb, OnFound, RestOK, alarms
<1>7. CASE OneMoves
  BY <1>1, <1>2, <1>7
  DEF OneMoves, block_pcb, unblock_pcb, set_pcb_priority, suspend_pcb, resume_pcb,
      OnFound, RestOK, alarms
<1>8. CASE \E c \in {"loadr3", "loadr3_suspended"}, b \in BOOLEAN : LoadsNext(c, b)
  <2>1. i < R3Count => i + 1 \in 1 .. R3Count
    BY <1>1, R3Assumption DEF RestOK
  <2> QED BY <1>1, <1>2, <1>8, <2>1 DEF LoadsNext, RestOK, alarms
<1>9. CASE load_process
  BY <1>1, <1>2, <1>9 DEF load_process, RestOK, alarms
<1>10. CASE create_alarm_process
  <2>1. PICK time \in 0 .. DayLength - 1, reading \in Readings :
          /\ clock' \in {clock, Ticked}
          /\ temp_alarm_data' = AlarmTarget(time, reading)
    BY <1>10 DEF create_alarm_process
  <2>2. clock' \in Moments
    BY <2>1, TickedTyped
  <2>5. temp_alarm_data' \in Moments
    BY <2>1, TargetTyped
  <2>6. /\ alarm_counter' = alarm_counter + 1
        /\ at' = "loop" /\ i' = i /\ shutting_down' = shutting_down
    BY <1>10 DEF create_alarm_process
  <2> QED BY <1>1, <2>2, <2>5, <2>6 DEF RestOK
<1>11. CASE resume_all_next
  BY <1>1, <1>2, <1>11 DEF resume_all_next, RestOK, alarms
<1>12. CASE NothingDone \/ resume_all_starts \/ UNCHANGED vars
  BY <1>1, <1>2, <1>12
  DEF NothingDone, resume_all_starts, RestOK, vars, alarms, control
<1>13. CASE set_clock
  <2>1. clock' \in Moments
    BY <1>1, <1>13, ClockAssumption DEF set_clock, RestOK, Moments
  <2> QED BY <1>1, <1>2, <1>13, <2>1 DEF set_clock, RestOK, alarms
<1>14. CASE Tick
  BY <1>1, <1>2, <1>14, TickedTyped DEF Tick, RestOK, alarms, control
<1>15. CASE StartsLoading("loadr3") \/ StartsLoading("loadr3_suspended")
  BY <1>1, <1>2, <1>15 DEF StartsLoading, RestOK, alarms
<1> QED
  BY <1>3, <1>4, <1>5, <1>6, <1>7, <1>8, <1>9, <1>10, <1>11, <1>12, <1>13, <1>14,
     <1>15, StepCases DEF Creating, Idles

(* Every step keeps the types.                                             *)
LEMMA TypeStep == IInv /\ [Next]_vars => TypeOK'
BY CoreStep, KmainStep, RestStep DEF BlocksOK, CPUOK, RestOK, TypeOK, Queues
-----------------------------------------------------------------------------
(***************************************************************************)
(* What a step may do to the processes: names and classes stay, a system   *)
(* process is not suspended and leaves only as the command handler that    *)
(* shuts down, and at most one process with a new name is added.           *)
(***************************************************************************)
Stays(p) ==
    /\ pcb'[p].name = pcb[p].name
    /\ pcb'[p].processor_class = pcb[p].processor_class
    /\ pcb[p].processor_class = "system" /\ ~ pcb[p].suspended => ~ pcb'[p].suspended
    /\ pcb[p].name = CommhandName /\ Target(pcb[p]) = "ready"
          => Target(pcb'[p]) = "ready"

Leaves(p) ==
    \/ pcb[p].processor_class # "system"
    \/ Program(pcb[p]) \in {"proc", "alarm"}
    \/ Program(pcb[p]) = "commhand" /\ shutting_down'

Effect ==
    /\ \A p \in allocated : IF p \in allocated' THEN Stays(p) ELSE Leaves(p)
    /\ \A p \in allocated' \ allocated : NewName(pcb'[p].name)
    /\ \A p, q \in allocated' \ allocated : p = q

(* A process whose memory changes alike stays.                             *)
LEMMA AlikeStays ==
    ASSUME NEW P, Alike(P), pcb' = P, NEW p \in PCBs
    PROVE  Stays(p)
BY DEF Alike, Stays, Target

(* A step that leaves the blocks has an allowed effect.                    *)
LEMMA EffectUnchanged ==
    ASSUME IInv, UNCHANGED blocks
    PROVE  Effect
BY DEF Effect, Stays, blocks

(* IDLE has an allowed effect.                                             *)
LEMMA EffectIdleCall ==
    ASSUME IInv, NEW P, Alike(P), sys_idle_call(P)
    PROVE  Effect
<1>1. pcb' = P /\ allocated' = allocated /\ allocated \subseteq PCBs
  BY DEF sys_idle_call, IInv, TypeOK
<1> QED BY <1>1, AlikeStays DEF Effect

(* EXIT has, if the process may leave.                                     *)
LEMMA EffectExitCall ==
    ASSUME IInv, running \in PCBs, NEW P \in [PCBs -> PCBRecord], Alike(P),
           sys_exit_call(P), Leaves(running)
    PROVE  Effect
<1>1. /\ pcb' = [P EXCEPT ![running] = Freed]
      /\ allocated' = allocated \ {running}
      /\ allocated \subseteq PCBs
  BY RunningIsCurrent DEF sys_exit_call, IInv, TypeOK
<1>2. \A p \in allocated' : pcb'[p] = P[p]
  BY <1>1
<1>3. \A p \in allocated' : Stays(p)
  BY <1>1, <1>2 DEF Alike, Stays, Target
<1> QED BY <1>1, <1>3 DEF Effect

(* A creation with a new name has.                                         *)
LEMMA EffectCreate ==
    ASSUME IInv, NEW rec, Create(rec), NewName(rec.name)
    PROVE  Effect
<1>1. PICK p \in PCBs \ allocated :
         /\ pcb' = [pcb EXCEPT ![p] = rec]
         /\ allocated' = allocated \cup {p}
  BY DEF Create
<1>2. \A q \in allocated : pcb'[q] = pcb[q]
  BY <1>1 DEF IInv, TypeOK
<1>3. pcb'[p] = rec
  BY <1>1 DEF IInv, TypeOK
<1> QED BY <1>1, <1>2, <1>3 DEF Effect, Stays

(* The name decides for the command handler and the idle process. *)
LEMMA NameOfProgram ==
    ASSUME IInv, NEW p \in PCBs
    PROVE  /\ Program(pcb[p]) = "commhand" <=> pcb[p].name = CommhandName
           /\ Program(pcb[p]) = "sys_idle" <=> pcb[p].name = IdleName
<1>1. pcb[p].name \in Names
  BY DEF IInv, TypeOK, PCBRecord
<1> QED BY <1>1 DEF Names, Program, CommhandName, IdleName

(* The commands on one process have: none suspends a system process.       *)
LEMMA EffectMoves == IInv /\ OneMoves => Effect
<1> SUFFICES ASSUME IInv, OneMoves PROVE Effect
  OBVIOUS
<1>1. PICK p \in PCBs, rec \in PCBRecord : Moved(p, rec)
  BY CommandMoves
<1>2. running \in PCBs /\ Program(pcb[running]) = "commhand"
  BY DEF OneMoves, block_pcb, unblock_pcb, set_pcb_priority, suspend_pcb, resume_pcb,
         OnFound, Typed, Runs
<1>3. pcb[p].name # CommhandName
  BY <1>1, <1>2, NameOfProgram, RunningIsCurrent DEF Moved, IInv, NamesUnique
<1>4. pcb' = [pcb EXCEPT ![p] = rec] /\ allocated' = allocated
  BY <1>1 DEF Moved, Requeue
<1>5. pcb \in [PCBs -> PCBRecord] /\ allocated \subseteq PCBs
  BY DEF IInv, TypeOK
<1>6. Stays(p)
  BY <1>1, <1>3, <1>4, <1>5 DEF Stays, Moved
<1>7. \A q \in allocated \ {p} : Stays(q)
  BY <1>4, <1>5 DEF Stays
<1> QED BY <1>4, <1>6, <1>7 DEF Effect

(* resume_all has.                                                         *)
LEMMA EffectResumeAll == IInv /\ resume_all_next => Effect
<1> SUFFICES ASSUME IInv, resume_all_next, ~ UNCHANGED blocks PROVE Effect
  BY EffectUnchanged
<1>1. PICK p \in PCBs :
         /\ p = get_next(queue, "suspended")
         /\ queue["suspended"] # <<>>
         /\ pcb' = [pcb EXCEPT ![p].suspended = FALSE]
         /\ allocated' = allocated
  BY ResumeAllCases
<1>2. pcb \in [PCBs -> PCBRecord] /\ allocated \subseteq PCBs
  BY DEF IInv, TypeOK
<1> DEFINE rec == [pcb[p] EXCEPT !.suspended = FALSE]
<1>3. /\ rec.name = pcb[p].name /\ rec.processor_class = pcb[p].processor_class
      /\ rec.suspended = FALSE /\ rec.state = pcb[p].state
  <2>1. pcb[p] \in PCBRecord
    BY <1>2
  <2> QED BY <2>1 DEF PCBRecord
<1>4. pcb'[p] = rec
  BY <1>1, <1>2
<1> HIDE DEF rec
<1>5. Stays(p)
  BY <1>3, <1>4 DEF Stays, Target
<1>6. \A q \in allocated \ {p} : Stays(q)
  BY <1>1, <1>2 DEF Stays
<1> QED BY <1>1, <1>5, <1>6 DEF Effect

(* delete_pcb has: it refuses system processes.                            *)
LEMMA EffectDelete == IInv /\ delete_pcb => Effect
<1> SUFFICES ASSUME IInv, delete_pcb PROVE Effect
  OBVIOUS
<1>1. PICK p \in PCBs :
         /\ pcb[p].processor_class # "system"
         /\ pcb' = [pcb EXCEPT ![p] = Freed]
         /\ allocated' = allocated \ {p}
  BY DeleteFinds
<1>2. \A q \in allocated' : pcb'[q] = pcb[q]
  BY <1>1 DEF IInv, TypeOK
<1> QED BY <1>1, <1>2 DEF Effect, Stays, Leaves

(* Every step after the boot has an allowed effect.                        *)
LEMMA EffectStep ==
    ASSUME IInv, [Next]_vars, ~ create_system_processes
    PROVE  Effect
<1>0. pcb \in [PCBs -> PCBRecord]
  BY DEF IInv, TypeOK
<1>1. CASE KernelIdle \/ sys_idle_process \/ CommhandYields
  BY <1>1, AlikeItself, EffectIdleCall DEF KernelIdle, sys_idle_process, CommhandYields
<1>2. CASE r3_proc
  <2>1. running \in PCBs /\ Leaves(running)
    BY <1>2 DEF r3_proc, Runs, Leaves
  <2>2. CASE pcb[running].left > 0
    <3> DEFINE P == [pcb EXCEPT ![running].left = @ - 1]
    <3>1. sys_idle_call(P)
      BY <1>2, <2>2 DEF r3_proc
    <3>2. Alike(P)
      BY <1>0, <2>1 DEF Alike, PCBRecord
    <3> HIDE DEF P
    <3> QED BY <3>1, <3>2, EffectIdleCall
  <2>3. CASE ~ (pcb[running].left > 0)
    BY <1>0, <1>2, <2>1, <2>3, EffectExitCall, AlikeItself DEF r3_proc
  <2> QED BY <2>2, <2>3
<1>3. CASE alarm_process
  <2>1. Leaves(running) /\ running \in PCBs
    BY <1>3 DEF alarm_process, Runs, Leaves
  <2> QED BY <1>3, <2>1, AlarmCalls, AlarmMemoryAlike, EffectIdleCall, EffectExitCall
<1>4. CASE exit
  <2>1. Leaves(running) /\ running \in PCBs /\ sys_exit_call(pcb)
    BY <1>4 DEF exit, Typed, Runs, Leaves
  <2> QED BY <1>0, <2>1, AlikeItself, EffectExitCall
<1>5. CASE Creating
  BY <1>5, CreationCases, EffectCreate, EffectUnchanged
<1>6. CASE Idles
  BY <1>6, IdlesKeep, EffectUnchanged
<1> QED
  BY <1>1, <1>2, <1>3, <1>4, <1>5, <1>6, StepCases, EffectDelete, EffectMoves,
     EffectResumeAll

(* What the boot leaves behind. *)
LEMMA BootEffect ==
    ASSUME IInv, create_system_processes
    PROVE  \E c, d \in PCBs :
              /\ c # d /\ allocated' = {c, d}
              /\ pcb'[c].name = CommhandName /\ pcb'[d].name = IdleName
              /\ pcb'[c].processor_class = "system"
              /\ pcb'[d].processor_class = "system"
              /\ Target(pcb'[c]) = "ready" /\ ~ pcb'[d].suspended
              /\ running' = Kernel /\ kmain' = "idle"
<1>1. PICK c \in PCBs, d \in PCBs :
         /\ c # d
         /\ pcb' = [pcb EXCEPT ![c] = pcb_setup(CommhandName, "system", 0, 0),
                               ![d] = pcb_setup(IdleName, "system", 9, 0)]
         /\ allocated' = {c, d}
         /\ kmain' = "idle" /\ running' = running /\ running = Kernel
  BY DEF create_system_processes
<1>2. /\ pcb'[c] = pcb_setup(CommhandName, "system", 0, 0)
      /\ pcb'[d] = pcb_setup(IdleName, "system", 9, 0)
  BY <1>1 DEF IInv, TypeOK
<1> QED BY <1>1, <1>2 DEF pcb_setup, Target

(* Every step keeps the names unique and the alarms numbered.              *)
LEMMA NamesStep == IInv /\ [Next]_vars => NamesUnique' /\ AlarmsNumbered'
<1> SUFFICES ASSUME IInv, [Next]_vars PROVE NamesUnique' /\ AlarmsNumbered'
  OBVIOUS
<1>1. CASE create_system_processes
  <2>1. CommhandName # IdleName /\ CommhandName[1] # "alarm" /\ IdleName[1] # "alarm"
    BY DEF CommhandName, IdleName
  <2> QED BY <1>1, <2>1, BootEffect DEF NamesUnique, AlarmsNumbered, Program
<1>2. CASE ~ create_system_processes
  <2>1. Effect
    BY <1>2, EffectStep
  <2>2. \A p \in allocated \cap allocated' : pcb'[p].name = pcb[p].name
    BY <2>1 DEF Effect, Stays
  <2>3. \A p \in allocated' \ allocated : NewName(pcb'[p].name)
    BY <2>1 DEF Effect
  <2>4. \A p, q \in allocated' \ allocated : p = q
    BY <2>1 DEF Effect
  <2>5. NamesUnique'
    BY <2>2, <2>3, <2>4 DEF NamesUnique, NewName, IInv
  <2>6. ASSUME NEW p \in allocated', Program(pcb'[p]) = "alarm"
        PROVE  pcb'[p].name[2] <= alarm_counter'
    <3>1. CASE p \notin allocated
      BY <2>3, <2>6, <3>1 DEF NewName, Program
    <3>2. CASE p \in allocated
      <4>1. pcb'[p].name = pcb[p].name /\ Program(pcb[p]) = "alarm"
        BY <2>2, <2>6, <3>2 DEF Program
      <4>2. pcb[p].name[2] <= alarm_counter
        BY <3>2, <4>1 DEF IInv, AlarmsNumbered
      <4>3. pcb[p].name[2] \in Nat
        <5>1. pcb[p].name \in Names
          BY <3>2 DEF IInv, TypeOK, PCBRecord
        <5> QED BY <4>1, <5>1 DEF Names, Program, CommhandName, IdleName
      <4>4. alarm_counter \in Nat /\ alarm_counter' \in Nat
            /\ alarm_counter <= alarm_counter'
        BY RestStep DEF IInv, TypeOK, RestOK
      <4> QED BY <4>1, <4>2, <4>3, <4>4
    <3> QED BY <3>1, <3>2
  <2>7. AlarmsNumbered'
    BY <2>6 DEF AlarmsNumbered
  <2> QED BY <2>5, <2>7
<1> QED BY <1>1, <1>2

(* Every step keeps the system processes.                                  *)
LEMMA SurviveStep == IInv /\ [Next]_vars => SystemProcessesSurvive'
<1> SUFFICES ASSUME IInv, [Next]_vars PROVE SystemProcessesSurvive'
  OBVIOUS
<1>1. CASE create_system_processes
  BY <1>1, BootEffect DEF SystemProcessesSurvive
<1>2. CASE ~ create_system_processes /\ kmain' # "boot"
  <2>1. Effect /\ kmain # "boot"
    BY <1>2, EffectStep, KmainStep
  <2>2. IdleName[1] = "sys_idle" /\ CommhandName[1] = "commhand"
    BY DEF IdleName, CommhandName
  <2>3. PICK d \in allocated : /\ pcb[d].name = IdleName
                               /\ pcb[d].processor_class = "system"
                               /\ ~ pcb[d].suspended
    BY <2>1 DEF IInv, SystemProcessesSurvive
  <2>4. d \in allocated' /\ Stays(d)
    BY <2>1, <2>2, <2>3 DEF Effect, Leaves, Program
  <2>5. ASSUME ~ shutting_down'
        PROVE  \E p \in allocated' : /\ pcb'[p].name = CommhandName
                                     /\ pcb'[p].processor_class = "system"
                                     /\ Target(pcb'[p]) = "ready"
    <3>1. ~ shutting_down
      BY <2>5, RestStep
    <3>2. PICK c \in allocated : /\ pcb[c].name = CommhandName
                                 /\ pcb[c].processor_class = "system"
                                 /\ Target(pcb[c]) = "ready"
      BY <2>1, <3>1 DEF IInv, SystemProcessesSurvive
    <3>3. c \in allocated' /\ Stays(c)
      BY <2>1, <2>2, <2>5, <3>2 DEF Effect, Leaves, Program
    <3> QED BY <3>2, <3>3 DEF Stays
  <2> QED BY <2>3, <2>4, <2>5 DEF Stays, SystemProcessesSurvive
<1>3. CASE ~ create_system_processes /\ kmain' = "boot"
  BY <1>3 DEF SystemProcessesSurvive
<1> QED BY <1>1, <1>2, <1>3

(* If the ready queue is empty when the dispatcher looks into it, then     *)
(* what runs or the idle process accounts for it.                          *)
LEMMA EmptyReady ==
    ASSUME IInv, kmain # "boot", queue["ready"] = <<>>
    PROVE  /\ \A p \in allocated : Target(pcb[p]) = "ready" => p = current_pcb
           /\ \/ IdleBlocked
              \/ shutting_down /\ current_pcb # NULL /\ pcb[current_pcb].name = IdleName
<1>1. "ready" \in QIDs /\ Range(queue["ready"]) = {}
  BY DEF QIDs, Range
<1>2. \A p \in allocated \ {current_pcb} : Target(pcb[p]) # "ready"
  BY <1>1 DEF IInv, QueuesExact, Holds
<1>3. PICK d \in allocated : pcb[d].name = IdleName /\ ~ pcb[d].suspended
  BY DEF IInv, SystemProcessesSurvive
<1>4. CASE pcb[d].state = "blocked"
  BY <1>2, <1>3, <1>4 DEF IdleBlocked
<1>5. CASE pcb[d].state = "ready"
  <2>1. d = current_pcb /\ d # NULL
    BY <1>2, <1>3, <1>5, NullAssumption DEF Target, IInv, TypeOK
  <2>2. shutting_down
    <3>1. SUFFICES ASSUME ~ shutting_down PROVE FALSE
      BY DEF IInv, TypeOK
    <3>2. PICK c \in allocated : pcb[c].name = CommhandName /\ Target(pcb[c]) = "ready"
      BY <3>1 DEF IInv, SystemProcessesSurvive
    <3>3. c = d
      BY <1>2, <2>1, <3>2
    <3> QED BY <1>3, <3>2, <3>3 DEF CommhandName, IdleName
  <2> QED BY <1>2, <1>3, <2>1, <2>2
<1>6. pcb[d].state \in {"ready", "blocked"}
  BY <1>3 DEF IInv, TypeOK, PCBRecord
<1> QED BY <1>4, <1>5, <1>6

(* When IDLE of a process halts the system, the halt is orderly.           *)
LEMMA HaltIdleCall ==
    ASSUME IInv, running \in PCBs, NEW P \in [PCBs -> PCBRecord], Alike(P),
           sys_idle_call(P), shutting_down => shutting_down'
    PROVE  HaltIsOrderly'
<1> SUFFICES ASSUME Halted' PROVE HaltIsOrderly'
  BY DEF HaltIsOrderly
<1>1. /\ pcb' = P /\ allocated' = allocated
      /\ current_pcb' = get_next(queue, "ready")
      /\ get_next(queue, "ready") # NULL => running' = get_next(queue, "ready")
  BY DEF sys_idle_call
<1>2. BlocksOK' /\ CPUOK'
  BY IdleCall
<1>3. current_pcb' = NULL /\ get_next(queue, "ready") = NULL
  BY <1>1, <1>2, KernelAssumption DEF CPUOK, CPUConsistent, Halted
<1>4. queue["ready"] = <<>>
  <2>1. queue["ready"] # <<>> => get_next(queue, "ready") \in PCBs
    <3>1. queue["ready"] \in Seq(PCBs)
      BY DEF IInv, TypeOK, QIDs
    <3> QED BY <3>1, HeadTailProperties DEF get_next
  <2> QED BY <1>3, <2>1, NullAssumption
<1>5. kmain # "boot"
  BY RunningIsCurrent
<1>6. CASE IdleBlocked
  <2>1. IdleBlocked'
    BY <1>1, <1>6 DEF IdleBlocked, Alike, IInv, TypeOK
  <2> QED BY <2>1 DEF HaltIsOrderly
<1>7. CASE shutting_down /\ current_pcb # NULL /\ pcb[current_pcb].name = IdleName
  <2>1. "ready" \in QIDs
    BY DEF QIDs
  <2>2. \A p \in Range(queue'["ready"]) : p \in allocated' /\ Target(pcb'[p]) = "ready"
    BY <1>2, <2>1 DEF BlocksOK, QueuesExact, Holds
  <2>3. \A p \in allocated : Target(pcb'[p]) = Target(pcb[p]) /\ pcb'[p].name = pcb[p].name
    BY <1>1 DEF Alike, Target, IInv, TypeOK
  <2>4. \A p \in Range(queue'["ready"]) : p = current_pcb
    BY <1>1, <1>4, <1>5, <2>2, <2>3, EmptyReady
  <2>5. \A p \in Range(queue'["ready"]) : pcb'[p].name = IdleName
    BY <1>1, <1>7, <2>2, <2>3, <2>4
  <2> QED BY <1>7, <2>5 DEF HaltIsOrderly
<1> QED BY <1>4, <1>5, <1>6, <1>7, EmptyReady

(* EXIT halts the system only if the idle process is blocked.              *)
LEMMA HaltExitCall ==
    ASSUME IInv, running \in PCBs, NEW P \in [PCBs -> PCBRecord], Alike(P),
           sys_exit_call(P), Program(pcb[running]) # "sys_idle"
    PROVE  HaltIsOrderly'
<1> SUFFICES ASSUME Halted' PROVE IdleBlocked'
  BY DEF HaltIsOrderly
<1>1. /\ pcb' = [P EXCEPT ![running] = Freed] /\ allocated' = allocated \ {running}
      /\ current_pcb' = get_next(queue, "ready") /\ current_pcb = running
      /\ get_next(queue, "ready") # NULL => running' = get_next(queue, "ready")
  BY RunningIsCurrent DEF sys_exit_call
<1>2. CPUOK'
  BY ExitCall
<1>3. get_next(queue, "ready") = NULL
  BY <1>1, <1>2, KernelAssumption DEF CPUOK, CPUConsistent, Halted
<1>4. queue["ready"] = <<>>
  <2>1. queue["ready"] # <<>> => get_next(queue, "ready") \in PCBs
    <3>1. queue["ready"] \in Seq(PCBs)
      BY DEF IInv, TypeOK, QIDs
    <3> QED BY <3>1, HeadTailProperties DEF get_next
  <2> QED BY <1>3, <2>1, NullAssumption
<1>5. pcb[running].name # IdleName
  BY NameOfProgram
<1>6. IdleBlocked
  BY <1>1, <1>4, <1>5, EmptyReady, RunningIsCurrent
<1>7. PICK d \in allocated : pcb[d].name = IdleName /\ pcb[d].state = "blocked"
  BY <1>6 DEF IdleBlocked
<1>8. d \in allocated' /\ pcb'[d] = P[d] /\ d \in PCBs
  BY <1>1, <1>5, <1>7 DEF IInv, TypeOK
<1> QED BY <1>7, <1>8 DEF IdleBlocked, Alike

(* Every step keeps halts orderly.                                         *)
LEMMA HaltStep == IInv /\ [Next]_vars => HaltIsOrderly'
<1> SUFFICES ASSUME IInv, [Next]_vars PROVE HaltIsOrderly'
  OBVIOUS
<1>0. pcb \in [PCBs -> PCBRecord] /\ (shutting_down => shutting_down')
  BY RestStep DEF IInv, TypeOK
<1>1. CASE create_system_processes
  BY <1>1 DEF create_system_processes, HaltIsOrderly, Halted
<1>2. CASE KernelIdle
  <2> SUFFICES ASSUME Halted' PROVE IdleBlocked'
    BY DEF HaltIsOrderly
  <2>1. /\ pcb' = pcb /\ allocated' = allocated /\ current_pcb' = get_next(queue, "ready")
        /\ get_next(queue, "ready") # NULL => running' = get_next(queue, "ready")
        /\ kmain # "boot"
    BY <1>2 DEF KernelIdle, sys_idle_call
  <2>2. CPUOK'
    BY <1>2, CoreKernelIdle
  <2>3. get_next(queue, "ready") = NULL
    BY <2>1, <2>2, KernelAssumption DEF CPUOK, CPUConsistent, Halted
  <2>4. queue["ready"] = <<>>
    <3>1. queue["ready"] # <<>> => get_next(queue, "ready") \in PCBs
      <4>1. queue["ready"] \in Seq(PCBs)
        BY DEF IInv, TypeOK, QIDs
      <4> QED BY <4>1, HeadTailProperties DEF get_next
    <3> QED BY <2>3, <3>1, NullAssumption
  <2>5. current_pcb = NULL
    BY <1>2 DEF KernelIdle, IInv, KmainPhases
  <2> QED BY <2>1, <2>4, <2>5, EmptyReady DEF IdleBlocked
<1>3. CASE sys_idle_process \/ CommhandYields
  BY <1>0, <1>3, HaltIdleCall, AlikeItself DEF sys_idle_process, CommhandYields, Runs
<1>4. CASE r3_proc
  <2>1. running \in PCBs /\ Program(pcb[running]) # "sys_idle"
    BY <1>4 DEF r3_proc, Runs
  <2>2. CASE pcb[running].left > 0
    <3> DEFINE P == [pcb EXCEPT ![running].left = @ - 1]
    <3>1. sys_idle_call(P)
      BY <1>4, <2>2 DEF r3_proc
    <3>2. P \in [PCBs -> PCBRecord]
      BY <1>0, <2>1, <2>2 DEF PCBRecord
    <3>3. Alike(P)
      BY <1>0, <2>1 DEF Alike, PCBRecord
    <3> HIDE DEF P
    <3> QED BY <1>0, <2>1, <3>1, <3>2, <3>3, HaltIdleCall
  <2>3. CASE ~ (pcb[running].left > 0)
    BY <1>0, <1>4, <2>1, <2>3, HaltExitCall, AlikeItself DEF r3_proc
  <2> QED BY <2>2, <2>3
<1>5. CASE alarm_process
  <2>1. Program(pcb[running]) # "sys_idle"
    BY <1>5 DEF alarm_process, Runs
  <2> QED BY <1>0, <1>5, <2>1, AlarmCalls, AlarmMemoryAlike, HaltIdleCall, HaltExitCall
<1>6. CASE exit
  <2>1. Program(pcb[running]) # "sys_idle" /\ running \in PCBs /\ sys_exit_call(pcb)
    BY <1>6 DEF exit, Typed, Runs
  <2> QED BY <1>0, <2>1, AlikeItself, HaltExitCall
<1>7. CASE delete_pcb \/ OneMoves \/ Creating \/ resume_all_next
  <2>1. running \in PCBs /\ running' = running
    BY <1>7 DEF delete_pcb, OneMoves, block_pcb, unblock_pcb, set_pcb_priority,
       suspend_pcb, resume_pcb, OnFound, Creating, LoadsNext, load_process,
       create_alarm_process, resume_all_next, Typed, Runs, cpu
  <2> QED BY <2>1, KernelAssumption DEF HaltIsOrderly, Halted
<1>8. CASE NothingDone \/ resume_all_starts \/ set_clock
           \/ StartsLoading("loadr3") \/ StartsLoading("loadr3_suspended")
  <2>1. running \in PCBs /\ running' = running
    BY <1>8 DEF NothingDone, resume_all_starts, set_clock, StartsLoading, Typed, Runs, cpu
  <2> QED BY <2>1, KernelAssumption DEF HaltIsOrderly, Halted
<1>9. CASE Tick
  BY <1>9 DEF Tick, HaltIsOrderly, Halted, cpu
<1>10. CASE UNCHANGED vars
  <2>1. HaltIsOrderly
    BY DEF IInv
  <2> QED BY <1>10, <2>1
      DEF HaltIsOrderly, Halted, IdleBlocked, vars, blocks, cpu
<1> QED
  BY <1>1, <1>2, <1>3, <1>4, <1>5, <1>6, <1>7, <1>8, <1>9, <1>10, StepCases DEF Idles

-----------------------------------------------------------------------------
(***************************************************************************)
(* The theorems.                                                           *)
(***************************************************************************)

(* IInv holds in the initial state and every step keeps it. *)
THEOREM Invariant == Spec => []IInv
<1>1. Init => IInv
  <2> SUFFICES ASSUME Init PROVE IInv
    OBVIOUS
  <2>1. BlocksOK /\ CPUOK /\ KmainPhases
    BY CoreInit
  <2>2. TypeOK
    <3>1. Midnight \in Moments /\ 1 \in 1 .. R3Count
      BY R3Assumption DEF Midnight, Moments
    <3> QED BY <2>1, <3>1 DEF Init, BlocksOK, CPUOK, TypeOK, Queues
  <2>3. NamesUnique /\ AlarmsNumbered /\ SystemProcessesSurvive /\ HaltIsOrderly
    BY DEF Init, NamesUnique, AlarmsNumbered, SystemProcessesSurvive, HaltIsOrderly, Halted
  <2> QED BY <2>1, <2>2, <2>3 DEF IInv, BlocksOK, CPUOK
<1>2. IInv /\ [Next]_vars => IInv'
  <2> SUFFICES ASSUME IInv, [Next]_vars PROVE IInv'
    OBVIOUS
  <2>1. TypeOK' /\ QueuesExact' /\ CPUConsistent'
    BY TypeStep, CoreStep DEF BlocksOK, CPUOK
  <2>2. NamesUnique' /\ AlarmsNumbered' /\ KmainPhases'
    BY NamesStep, KmainStep
  <2>3. SystemProcessesSurvive' /\ HaltIsOrderly'
    BY SurviveStep, HaltStep
  <2> QED BY <2>1, <2>2, <2>3 DEF IInv
<1> QED BY <1>1, <1>2, PTL DEF Spec

(* The state of the kernel is well-typed, whatever the commands typed. *)
THEOREM TypeCorrect == Spec => []TypeOK
<1>1. IInv => TypeOK
  BY DEF IInv
<1> QED BY <1>1, Invariant, PTL

(* No process is ever lost, queued twice or left in the wrong queue. *)
THEOREM QueuesCorrect == Spec => []QueuesExact
<1>1. IInv => QueuesExact
  BY DEF IInv
<1> QED BY <1>1, Invariant, PTL

(* A name stands for one process, for any number of processes and alarms. *)
THEOREM NamesCorrect == Spec => []NamesUnique
<1>1. IInv => NamesUnique
  BY DEF IInv
<1> QED BY <1>1, Invariant, PTL

(* sys_call always has a context to load and kmain can always be resumed. *)
THEOREM DispatchCorrect == Spec => []CPUConsistent
<1>1. IInv => CPUConsistent
  BY DEF IInv
<1> QED BY <1>1, Invariant, PTL

(* The system processes outlive every sequence of commands but exit. *)
THEOREM SystemProcessesCorrect == Spec => []SystemProcessesSurvive
<1>1. IInv => SystemProcessesSurvive
  BY DEF IInv
<1> QED BY <1>1, Invariant, PTL

(* The machine halts only after exit or with the idle process blocked. *)
THEOREM HaltCorrect == Spec => []HaltIsOrderly
<1>1. IInv => HaltIsOrderly
  BY DEF IInv
<1> QED BY <1>1, Invariant, PTL
=============================================================================
