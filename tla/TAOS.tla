-------------------------------- MODULE TAOS --------------------------------
(***************************************************************************)
(* The kernel's process management as it runs: kmain boots the system and  *)
(* issues the first IDLE; sys_call dispatches; the command handler, the    *)
(* idle process, the R3 test processes and the alarms run one at a time    *)
(* and give the CPU up only through sys_req(IDLE) and sys_req(EXIT) (every *)
(* IRQ is masked, so nothing preempts them).  One step is what a process   *)
(* does from one context switch to the next, or, for the command handler,  *)
(* one command or one iteration of a command's loop.                       *)
(***************************************************************************)
EXTENDS PCB, FiniteSets

CONSTANTS
    Kernel,      \* the context kmain saves at its int 0x60
    R3Count,     \* how many of the five R3 processes are modelled
    MaxAlarms,   \* bound: alarms created in one run of the system
    DayLength,   \* ticks of the real-time clock in a day
    LastDay,     \* bound: the clock stops at the end of this day
    DaysAhead,   \* by how many days a date that is torn may be ahead
    Commands,    \* the commands the user types
    Levels       \* the priorities the user types in set_priority

AllCommands ==
    {"delete_pcb", "block", "unblock", "loadr3", "loadr3_suspended",
     "load_process", "resume_all", "set_priority", "suspend", "resume",
     "alarm", "set_time", "set_date", "exit", "other"}

ASSUME KernelAssumption == Kernel # NULL /\ Kernel \notin PCBs
ASSUME R3Assumption == R3Count \in 1 .. 5
ASSUME AlarmsAssumption == MaxAlarms \in Nat
ASSUME ClockAssumption == DayLength \in Nat \ {0} /\ LastDay \in Nat
ASSUME TornAssumption == DaysAhead \subseteq Nat \ 0 .. 27
ASSUME CommandsAssumption == Commands \subseteq AllCommands
ASSUME LevelsAssumption == Levels \subseteq Int
ASSUME RoomToBoot == \E p, q \in PCBs : p # q

VARIABLES
    pcb,              \* the control blocks, by address
    allocated,        \* the addresses that hold one
    queue,            \* the ready, blocked and suspended queues
    current_pcb,      \* sys_call.c's current_pcb
    saved_context,    \* sys_call.c's saved_context
    running,          \* whose context the CPU has loaded
    kmain,            \* where kmain is: "boot", "idle" (at int 0x60), "back"
    at,               \* where the command handler is
    i,                \* the loop index of loadr3 and loadr3_suspended
    temp_alarm_data,  \* dispatching.c's one buffer for alarm data
    alarm_counter,    \* dispatching.c's number of alarms created
    shutting_down,    \* commhand.c's flag
    clock             \* the real-time clock

blocks  == <<pcb, allocated, queue>>
cpu     == <<current_pcb, saved_context, running, kmain>>
alarms  == <<temp_alarm_data, alarm_counter>>
control == <<at, i>>
vars    == <<blocks, cpu, alarms, control, shutting_down, clock>>
-----------------------------------------------------------------------------
(***************************************************************************)
(* Data.  A name is the program its process runs and a number.  A moment   *)
(* is a date and a time of day, compared in this order, as alarm_process   *)
(* compares its two strings.                                               *)
(***************************************************************************)
CommhandName == <<"commhand", 0>>
IdleName     == <<"sys_idle", 0>>
ProcName(n)  == <<"proc", n>>
AlarmName(n) == <<"alarm", n>>

Names == {CommhandName, IdleName} \cup ({"proc"} \X (1 .. 5))
             \cup ({"alarm"} \X Nat)

Program(rec) == rec.name[1]

Moments == [day : Nat, time : Nat]
Midnight == [day |-> 0, time |-> 0]

(* Mutants: the time of day alone, and the exact day only. *)
ReachedTime(reading, target) == reading.time >= target.time

ReachedSameDay(reading, target) ==
    reading.day = target.day /\ reading.time >= target.time

Reached(reading, target) ==
    \/ reading.day > target.day
    \/ reading.day = target.day /\ reading.time >= target.time

PCBRecord ==
    [name : Names, processor_class : {"system", "user"},
     state : {"ready", "blocked"}, suspended : BOOLEAN, priority : Priorities,
     left : 0 .. 5,         \* iterations r3_proc still has to do
     started : BOOLEAN,     \* alarm_process has copied its data
     target : Moments,      \* that copy, on the process's stack
     asked : Moments]       \* auxiliary: the moment the user asked for

(***************************************************************************)
(* What pcb_setup makes of a new block; the entry point, with the          *)
(* iterations of an R3 process, is put into its context by the caller.     *)
(***************************************************************************)
pcb_setup(name, class, priority, iterations) ==
    [name |-> name, processor_class |-> class, state |-> "ready",
     suspended |-> FALSE, priority |-> priority, left |-> iterations,
     started |-> FALSE, target |-> Midnight, asked |-> Midnight]

(***************************************************************************)
(* A freed block's contents mean nothing; they are put to one value.       *)
(***************************************************************************)
Freed == pcb_setup(IdleName, "system", 0, 0)
-----------------------------------------------------------------------------
(***************************************************************************)
(* Boot.                                                                   *)
(***************************************************************************)
Init ==
    /\ pcb = [p \in PCBs |-> Freed]
    /\ allocated = {}
    /\ queue = [id \in QIDs |-> <<>>]
    /\ current_pcb = NULL
    /\ saved_context = NULL
    /\ running = Kernel
    /\ kmain = "boot"
    /\ at = "loop"
    /\ i = 1
    /\ temp_alarm_data = Midnight
    /\ alarm_counter = 0
    /\ shutting_down = FALSE
    /\ clock = Midnight

create_system_processes ==
    /\ running = Kernel
    /\ kmain = "boot"
    /\ \E c, d \in PCBs :
          /\ c # d
          /\ LET P == [pcb EXCEPT
                          ![c] = pcb_setup(CommhandName, "system", 0, 0),
                          ![d] = pcb_setup(IdleName, "system", 9, 0)]
             IN  /\ pcb' = P
                 /\ queue' = pcb_insert(P, pcb_insert(P, queue, c), d)
          /\ allocated' = {c, d}
    /\ kmain' = "idle"
    /\ UNCHANGED <<current_pcb, saved_context, running, alarms, control,
                   shutting_down, clock>>
-----------------------------------------------------------------------------
(***************************************************************************)
(* sys_call.  P is the memory as the caller leaves it.  IDLE takes the     *)
(* next block off the ready queue before it puts the caller's back, so a   *)
(* process that yields alone returns to kmain instead of to itself.        *)
(***************************************************************************)
(* Mutant: kmain's context is not saved. *)
IdleForgetsKernel(P) ==
    LET next  == get_next(queue, "ready")
        taken == dequeue(queue, "ready")
    IN  /\ pcb' = P
        /\ queue' = IF current_pcb = NULL THEN taken
                    ELSE pcb_insert(P, taken, current_pcb)
        /\ current_pcb' = next
        /\ running' = IF next = NULL THEN Kernel ELSE next
        /\ UNCHANGED <<saved_context, allocated>>

sys_idle_call(P) ==
    LET next  == get_next(queue, "ready")
        taken == dequeue(queue, "ready")
    IN  /\ pcb' = P
        /\ queue' = IF current_pcb = NULL THEN taken
                    ELSE pcb_insert(P, taken, current_pcb)
        /\ saved_context' = IF current_pcb = NULL /\ saved_context = NULL
                            THEN running ELSE saved_context
        /\ current_pcb' = next
        /\ running' = IF next = NULL THEN saved_context' ELSE next
        /\ UNCHANGED allocated

(* Mutant: EXIT goes back to kmain without a look at the ready queue. *)
ExitToKernel(P) ==
    /\ pcb' = [P EXCEPT ![current_pcb] = Freed]
    /\ allocated' = allocated \ {current_pcb}
    /\ current_pcb' = NULL
    /\ running' = saved_context
    /\ saved_context' = NULL
    /\ UNCHANGED queue

sys_exit_call(P) ==
    LET next == get_next(queue, "ready")
    IN  /\ pcb' = [P EXCEPT ![current_pcb] = Freed]
        /\ allocated' = allocated \ {current_pcb}
        /\ queue' = dequeue(queue, "ready")
        /\ current_pcb' = next
        /\ running' = IF next = NULL THEN saved_context ELSE next
        /\ saved_context' = IF next = NULL THEN NULL ELSE saved_context

KernelIdle ==
    /\ running = Kernel
    /\ kmain = "idle"
    /\ sys_idle_call(pcb)
    /\ kmain' = "back"
    /\ UNCHANGED <<alarms, control, shutting_down, clock>>

(***************************************************************************)
(* kmain got its context back: it logs and halts the CPU.                  *)
(***************************************************************************)
Halted == running = Kernel /\ kmain = "back"

Runs(program) == running \in PCBs /\ Program(pcb[running]) = program
-----------------------------------------------------------------------------
(***************************************************************************)
(* The processes that are not the command handler.                         *)
(***************************************************************************)
r3_proc ==
    /\ Runs("proc")
    /\ IF pcb[running].left > 0
       THEN sys_idle_call([pcb EXCEPT ![running].left = @ - 1])
       ELSE sys_exit_call(pcb)
    /\ UNCHANGED <<kmain, alarms, control, shutting_down, clock>>

sys_idle_process ==
    /\ Runs("sys_idle")
    /\ sys_idle_call(pcb)
    /\ UNCHANGED <<kmain, alarms, control, shutting_down, clock>>

(***************************************************************************)
(* The clock runs by itself, whatever has the CPU, and stops at the bound. *)
(***************************************************************************)
Ticked ==
    IF clock.time + 1 < DayLength THEN [clock EXCEPT !.time = @ + 1]
    ELSE IF clock.day < LastDay THEN [day |-> clock.day + 1, time |-> 0]
    ELSE clock

Tick ==
    /\ ~ Halted
    /\ Ticked # clock
    /\ clock' = Ticked
    /\ UNCHANGED <<blocks, cpu, alarms, control, shutting_down>>

(***************************************************************************)
(* The time of day is read and then the date, register by register, and    *)
(* the clock may tick meanwhile.  The hour is read first: a time that is   *)
(* torn by a carry is too early.  The day is read first: a date that is    *)
(* torn at the end of a month, a year or a century is a month, a year or a *)
(* century ahead.  RealTimeClock has the registers, and shows that nothing *)
(* else is read.                                                           *)
(***************************************************************************)
TimesRead == IF clock' = clock THEN {clock.time} ELSE 0 .. clock.time

DatesRead ==
    {clock.day, clock'.day} \cup
        IF clock'.day = clock.day THEN {} ELSE {clock.day + n : n \in DaysAhead}

Readings == [day : DatesRead, time : TimesRead]

(***************************************************************************)
(* An alarm copies the shared buffer when it first gets the CPU.           *)
(***************************************************************************)
(* Mutant: an alarm does not look at shutting_down. *)
AlarmIgnoresShutdown ==
    /\ Runs("alarm")
    /\ clock' \in {clock, Ticked}
    /\ LET target  == IF pcb[running].started THEN pcb[running].target
                      ELSE temp_alarm_data
           P == [pcb EXCEPT ![running].started = TRUE, ![running].target = target]
       IN  \E reading \in Readings :
              IF Reached(reading, target) THEN sys_exit_call(P) ELSE sys_idle_call(P)
    /\ UNCHANGED <<kmain, alarms, control, shutting_down>>

alarm_process ==
    /\ Runs("alarm")
    /\ LET rec == pcb[running]
           P   == IF rec.started THEN pcb
                  ELSE [pcb EXCEPT ![running].started = TRUE,
                                   ![running].target = temp_alarm_data]
       IN  \/ /\ shutting_down
              /\ sys_exit_call(P)
              /\ UNCHANGED clock
           \/ /\ ~ shutting_down
              /\ clock' \in {clock, Ticked}
              /\ \E reading \in Readings :
                    IF Reached(reading, P[running].target)
                    THEN sys_exit_call(P)
                    ELSE sys_idle_call(P)
    /\ UNCHANGED <<kmain, alarms, control, shutting_down>>
-----------------------------------------------------------------------------
(***************************************************************************)
(* The command handler: it yields, reads a line, and executes it.          *)
(***************************************************************************)
CommhandYields ==
    /\ Runs("commhand")
    /\ at = "loop"
    /\ sys_idle_call(pcb)
    /\ at' = "prompt"
    /\ UNCHANGED <<kmain, alarms, i, shutting_down, clock>>

Typed(command) ==
    /\ command \in Commands
    /\ Runs("commhand")
    /\ at = "prompt"

(***************************************************************************)
(* An empty line, an unknown command or name, wrong arguments, a refused   *)
(* confirmation, and the commands that only show something.                *)
(***************************************************************************)
NothingDone ==
    /\ Typed("other")
    /\ at' = "loop"
    /\ UNCHANGED <<blocks, cpu, alarms, i, shutting_down, clock>>

exit ==
    /\ Typed("exit")
    /\ shutting_down' = TRUE
    /\ sys_exit_call(pcb)
    /\ UNCHANGED <<kmain, alarms, control, clock>>

(***************************************************************************)
(* One command on the block pcb_find finds: Do(p) makes its changes.       *)
(***************************************************************************)
OnFound(command, Do(_)) ==
    /\ Typed(command)
    /\ \E name \in {pcb[p].name : p \in allocated} :
          LET p == pcb_find(pcb, queue, name)
          IN  p # NULL /\ Do(p)
    /\ at' = "loop"
    /\ UNCHANGED <<cpu, alarms, i, shutting_down, clock>>

(***************************************************************************)
(* Off its queue, changed, and into the queue it now belongs in.           *)
(***************************************************************************)
Requeue(p, rec) ==
    LET P == [pcb EXCEPT ![p] = rec]
    IN  /\ pcb' = P
        /\ queue' = pcb_insert(P, pcb_remove(queue, p), p)
        /\ UNCHANGED allocated

delete_pcb ==
    LET Do(p) ==
          /\ pcb[p].processor_class # "system"
          /\ queue' = pcb_remove(queue, p)
          /\ pcb' = [pcb EXCEPT ![p] = Freed]
          /\ allocated' = allocated \ {p}
    IN  OnFound("delete_pcb", Do)

block_pcb ==
    LET Do(p) == /\ pcb[p].state # "blocked"
                 /\ Requeue(p, [pcb[p] EXCEPT !.state = "blocked"])
    IN  OnFound("block", Do)

unblock_pcb ==
    LET Do(p) == /\ pcb[p].state # "ready"
                 /\ Requeue(p, [pcb[p] EXCEPT !.state = "ready"])
    IN  OnFound("unblock", Do)

(* Mutants: no range check; no early return for the same priority. *)
SetsAnyPriority ==
    \E new_priority \in Levels :
       LET Do(p) == /\ pcb[p].priority # new_priority
                    /\ Requeue(p, [pcb[p] EXCEPT !.priority = new_priority])
       IN  OnFound("set_priority", Do)

RequeuesSamePriority ==
    \E new_priority \in Levels \cap Priorities :
       LET Do(p) == Requeue(p, [pcb[p] EXCEPT !.priority = new_priority])
       IN  OnFound("set_priority", Do)

set_pcb_priority ==
    \E new_priority \in Levels \cap Priorities :
       LET Do(p) == /\ pcb[p].priority # new_priority
                    /\ Requeue(p, [pcb[p] EXCEPT !.priority = new_priority])
       IN  OnFound("set_priority", Do)

(* Mutant: system processes are suspended too. *)
SuspendsAnyClass ==
    LET Do(p) == /\ ~ pcb[p].suspended
                 /\ Requeue(p, [pcb[p] EXCEPT !.suspended = TRUE])
    IN  OnFound("suspend", Do)

suspend_pcb ==
    LET Do(p) == /\ pcb[p].processor_class # "system"
                 /\ ~ pcb[p].suspended
                 /\ Requeue(p, [pcb[p] EXCEPT !.suspended = TRUE])
    IN  OnFound("suspend", Do)

resume_pcb ==
    LET Do(p) == /\ pcb[p].suspended
                 /\ Requeue(p, [pcb[p] EXCEPT !.suspended = FALSE])
    IN  OnFound("resume", Do)
-----------------------------------------------------------------------------
(***************************************************************************)
(* The commands that create processes.  pcb_allocate fails when no address *)
(* is left.                                                                *)
(***************************************************************************)
HeapFull == allocated = PCBs

Create(rec) ==
    \E p \in PCBs \ allocated :
       LET P == [pcb EXCEPT ![p] = rec]
       IN  /\ pcb' = P
           /\ allocated' = allocated \cup {p}
           /\ queue' = pcb_insert(P, queue, p)

NewProc(n, suspended) ==
    [pcb_setup(ProcName(n), "user", n, n) EXCEPT !.suspended = suspended]

Exists(name) == pcb_find(pcb, queue, name) # NULL

StartsLoading(command) ==
    /\ Typed(command)
    /\ at' = command
    /\ i' = 1
    /\ UNCHANGED <<blocks, cpu, alarms, shutting_down, clock>>

LoadsNext(command, suspended) ==
    /\ Runs("commhand")
    /\ at = command
    /\ \/ ~ Exists(ProcName(i)) /\ Create(NewProc(i, suspended))
       \/ (Exists(ProcName(i)) \/ HeapFull) /\ UNCHANGED blocks
    /\ at' = IF i < R3Count THEN at ELSE "loop"
    /\ i'  = IF i < R3Count THEN i + 1 ELSE 1
    /\ UNCHANGED <<cpu, alarms, shutting_down, clock>>

load_process ==
    /\ Typed("load_process")
    /\ \E n \in 1 .. R3Count :
          \/ ~ Exists(ProcName(n)) /\ Create(NewProc(n, FALSE))
          \/ (Exists(ProcName(n)) \/ HeapFull) /\ UNCHANGED blocks
    /\ at' = "loop"
    /\ UNCHANGED <<cpu, alarms, i, shutting_down, clock>>

(***************************************************************************)
(* resume_all moves the suspended queue, head first, to the tails of the   *)
(* other two; it does not go through pcb_insert.                           *)
(***************************************************************************)
resume_all_starts ==
    /\ Typed("resume_all")
    /\ at' = "resume_all"
    /\ UNCHANGED <<blocks, cpu, alarms, i, shutting_down, clock>>

(* Mutant: the head of the suspended queue is looked at, not taken off. *)
ResumesWithoutDequeue ==
    /\ Runs("commhand")
    /\ at = "resume_all"
    /\ LET p == get_next(queue, "suspended")
       IN  IF p = NULL
           THEN at' = "loop" /\ UNCHANGED blocks
           ELSE /\ pcb' = [pcb EXCEPT ![p].suspended = FALSE]
                /\ queue' = enqueue(queue, pcb[p].state, p)
                /\ UNCHANGED <<at, allocated>>
    /\ UNCHANGED <<cpu, alarms, i, shutting_down, clock>>

resume_all_next ==
    /\ Runs("commhand")
    /\ at = "resume_all"
    /\ LET p == get_next(queue, "suspended")
       IN  IF p = NULL
           THEN at' = "loop" /\ UNCHANGED blocks
           ELSE /\ pcb' = [pcb EXCEPT ![p].suspended = FALSE]
                /\ queue' = enqueue(dequeue(queue, "suspended"),
                                    pcb[p].state, p)
                /\ UNCHANGED <<at, allocated>>
    /\ UNCHANGED <<cpu, alarms, i, shutting_down, clock>>

(***************************************************************************)
(* The alarm's data and number are stored before its block is allocated.   *)
(* A time that has passed is one of the next day.                          *)
(***************************************************************************)
AlarmTarget(time, reading) ==
    [day |-> IF time <= reading.time THEN reading.day + 1 ELSE reading.day,
     time |-> time]

(* Mutants: no rollover to the next day in the buffer; a number used twice. *)
AlarmStoredForToday ==
    /\ Typed("alarm")
    /\ alarm_counter < MaxAlarms
    /\ clock' \in {clock, Ticked}
    /\ \E time \in 0 .. DayLength - 1, reading \in Readings :
          LET setup == pcb_setup(AlarmName(alarm_counter + 1), "user", 3, 0)
          IN  /\ temp_alarm_data' = [day |-> reading.day, time |-> time]
              /\ \/ Create([setup EXCEPT !.asked = AlarmTarget(time, reading)])
                 \/ HeapFull /\ UNCHANGED blocks
    /\ alarm_counter' = alarm_counter + 1
    /\ at' = "loop"
    /\ UNCHANGED <<cpu, i, shutting_down>>

AlarmNotCounted ==
    /\ Typed("alarm")
    /\ alarm_counter < MaxAlarms
    /\ clock' \in {clock, Ticked}
    /\ \E time \in 0 .. DayLength - 1, reading \in Readings :
          LET target == AlarmTarget(time, reading)
              setup  == pcb_setup(AlarmName(alarm_counter + 1), "user", 3, 0)
          IN  /\ temp_alarm_data' = target
              /\ \/ Create([setup EXCEPT !.asked = target])
                 \/ HeapFull /\ UNCHANGED blocks
    /\ at' = "loop"
    /\ UNCHANGED <<cpu, alarm_counter, i, shutting_down>>

create_alarm_process ==
    /\ Typed("alarm")
    /\ alarm_counter < MaxAlarms
    /\ clock' \in {clock, Ticked}
    /\ \E time \in 0 .. DayLength - 1, reading \in Readings :
          LET target == AlarmTarget(time, reading)
              setup  == pcb_setup(AlarmName(alarm_counter + 1), "user", 3, 0)
          IN  /\ temp_alarm_data' = target
              /\ \/ Create([setup EXCEPT !.asked = target])
                 \/ HeapFull /\ UNCHANGED blocks
    /\ alarm_counter' = alarm_counter + 1
    /\ at' = "loop"
    /\ UNCHANGED <<cpu, i, shutting_down>>

set_clock ==
    /\ \/ /\ Typed("set_time")
          /\ \E time \in 0 .. DayLength - 1 : clock' = [clock EXCEPT !.time = time]
       \/ /\ Typed("set_date")
          /\ \E day \in 0 .. LastDay : clock' = [clock EXCEPT !.day = day]
    /\ at' = "loop"
    /\ UNCHANGED <<blocks, cpu, alarms, i, shutting_down>>
-----------------------------------------------------------------------------
(***************************************************************************)
(* System is what the CPU does by itself, Prompt what waits for the user.  *)
(***************************************************************************)
Prompt ==
    \/ NothingDone \/ exit \/ delete_pcb \/ block_pcb \/ unblock_pcb
    \/ set_pcb_priority \/ suspend_pcb \/ resume_pcb
    \/ StartsLoading("loadr3") \/ StartsLoading("loadr3_suspended")
    \/ load_process \/ resume_all_starts \/ create_alarm_process \/ set_clock

System ==
    \/ create_system_processes \/ KernelIdle
    \/ r3_proc \/ sys_idle_process \/ alarm_process
    \/ CommhandYields
    \/ LoadsNext("loadr3", FALSE) \/ LoadsNext("loadr3_suspended", TRUE)
    \/ resume_all_next

Terminated == Halted /\ UNCHANGED vars

Next == System \/ Prompt \/ Tick \/ Terminated

Spec == Init /\ [][Next]_vars

(***************************************************************************)
(* The CPU executes whatever context is loaded, so the system goes on by   *)
(* itself.  serial_poll spins until the user ends a line; that the user    *)
(* does is an assumption of its own.                                       *)
(***************************************************************************)
CPURuns   == WF_vars(System)
UserTypes == WF_vars(Prompt)

FairSpec     == Spec /\ CPURuns
AttendedSpec == FairSpec /\ UserTypes
-----------------------------------------------------------------------------
(* The variables hold what their C types and their uses allow. *)
TypeOK ==
    /\ pcb \in [PCBs -> PCBRecord]
    /\ allocated \subseteq PCBs
    /\ queue \in [QIDs -> Seq(PCBs)]
    /\ current_pcb \in PCBs \cup {NULL}
    /\ saved_context \in {NULL, Kernel}
    /\ running \in PCBs \cup {NULL, Kernel}
    /\ kmain \in {"boot", "idle", "back"}
    /\ at \in {"loop", "prompt", "loadr3", "loadr3_suspended", "resume_all"}
    /\ i \in 1 .. R3Count
    /\ temp_alarm_data \in Moments
    /\ alarm_counter \in Nat
    /\ shutting_down \in BOOLEAN
    /\ clock \in Moments

(* Every live process but the one sys_call dispatched is in exactly the    *)
(* queue that its suspended flag and its state call for, once, and no      *)
(* queue holds a freed block.  Each command, the loaders, resume_all and   *)
(* both halves of sys_call must keep this together.                        *)
QueuesExact == Holds(queue, pcb, allocated \ {current_pcb})

(* No two live processes have one name, although pcb_find, which every     *)
(* creation asks first, looks at the queues only and not at the running    *)
(* process.                                                                *)
NamesUnique ==
    \A p, q \in allocated : pcb[p].name = pcb[q].name => p = q

(* sys_call never loads a null context; what the CPU runs is what          *)
(* current_pcb says, kmain's context is kept while a process runs, and     *)
(* that process is live, ready and not suspended.                          *)
CPUConsistent ==
    /\ running # NULL
    /\ running = IF current_pcb = NULL THEN Kernel ELSE current_pcb
    /\ current_pcb # NULL =>
          /\ saved_context = Kernel
          /\ current_pcb \in allocated
          /\ Target(pcb[current_pcb]) = "ready"

(* No sequence of commands deletes or suspends a system process, or blocks *)
(* the command handler: it goes only through exit, the idle process never. *)
SystemProcessesSurvive ==
    kmain # "boot" =>
       /\ \E p \in allocated : /\ pcb[p].name = IdleName
                               /\ pcb[p].processor_class = "system"
                               /\ ~ pcb[p].suspended
       /\ ~ shutting_down =>
             \E p \in allocated : /\ pcb[p].name = CommhandName
                                  /\ pcb[p].processor_class = "system"
                                  /\ Target(pcb[p]) = "ready"

(* The ready queue is in the order of the priorities, whatever the order   *)
(* in which processes yield, arrive and are changed, as long as resume_all *)
(* (which appends) is not used.                                            *)
ReadySorted == Sorted(pcb, queue["ready"])

Before(q, p, r) == \E j, k \in DOMAIN q : j < k /\ q[j] = p /\ q[k] = r

(* First come, first served: a step changes the order of two waiting ready *)
(* processes only if it changes the priority of one of them.               *)
NoOvertaking ==
    [][\A p, r \in PCBs :
          /\ Before(queue["ready"], p, r)
          /\ {p, r} \subseteq Range(queue'["ready"])
          /\ pcb'[p].priority = pcb[p].priority
          /\ pcb'[r].priority = pcb[r].priority
          => Before(queue'["ready"], p, r)]_vars

(* kmain gets the CPU back, and the machine halts, in one of two ways:     *)
(* after a confirmed exit, when nothing but the idle process is ready any  *)
(* more, or while the idle process is blocked.  Blocking it is the only    *)
(* way to have IDLE find the ready queue empty too early.                  *)
IdleBlocked ==
    \E p \in allocated : pcb[p].name = IdleName /\ pcb[p].state = "blocked"

HaltIsOrderly ==
    Halted =>
       \/ IdleBlocked
       \/ /\ shutting_down
          /\ \A p \in Range(queue["ready"]) : pcb[p].name = IdleName

(* kmain runs again only when the dispatcher is done: it is "back" as soon *)
(* as a process has the CPU, and there is no process before it booted.     *)
KmainPhases ==
    /\ current_pcb # NULL => kmain = "back"
    /\ kmain = "boot" => allocated = {}

(* The alarms are numbered up to alarm_counter. *)
AlarmsNumbered ==
    \A p \in allocated :
       Program(pcb[p]) = "alarm" => pcb[p].name[2] <= alarm_counter

(* The inductive invariant of the proofs. *)
IInv ==
    /\ TypeOK
    /\ QueuesExact
    /\ NamesUnique
    /\ CPUConsistent
    /\ KmainPhases
    /\ AlarmsNumbered
    /\ SystemProcessesSurvive
    /\ HaltIsOrderly

(* A yielding command handler gets the CPU back, or the system halts:      *)
(* nothing that the user did with the other processes can keep it out.     *)
CommhandReturns ==
    (Runs("commhand") /\ at = "loop") ~> ((Runs("commhand") /\ at = "prompt") \/ Halted)

(* After a confirmed exit the system halts, whatever processes are left,   *)
(* without any help of the user or of the clock.                           *)
ExitHalts == shutting_down ~> Halted

(* A process that stays ready for ever without the CPU is passed over for  *)
(* ever by processes, the command handler not counted, that are better     *)
(* than it or, where resume_all has put it behind a worse one, than one    *)
(* that waits in front of it.  Its equals, the command handler and what    *)
(* the user does to queues and priorities cannot keep it waiting without   *)
(* them; only a line that is never ended can, for nothing else runs then.  *)
Waiting(name) == \E p \in Range(queue["ready"]) : pcb[p].name = name

PassedOver(name) ==
    /\ running \in PCBs
    /\ Program(pcb[running]) # "commhand"
    /\ \E k \in DOMAIN queue["ready"] :
          /\ pcb[queue["ready"][k]].name = name
          /\ \E j \in 1 .. k : pcb[running].priority < pcb[queue["ready"][j]].priority

Workers == {ProcName(n) : n \in 1 .. R3Count}
               \cup {AlarmName(n) : n \in 1 .. MaxAlarms}

PassedOverOrServed ==
    \A name \in Workers \cup {IdleName} :
       <>[]Waiting(name) =>
          \/ []<>PassedOver(name)
          \/ <>Halted
          \/ <>[](Runs("commhand") /\ at = "prompt")

(* The same order of moments, as a count of ticks. *)
Ticks(moment) == DayLength * moment.day + moment.time

(* An alarm that has its data and whose moment has come rings and is gone, *)
(* unless better processes are loaded over and over: as long as the user   *)
(* loads and resumes processes, sets alarms and exits, but neither sets    *)
(* the clock back nor suspends or blocks the alarm.                        *)
AlarmRings ==
    \A n \in 1 .. MaxAlarms :
       LET Due  == \E p \in Range(queue["ready"]) :
                      /\ pcb[p].name = AlarmName(n)
                      /\ pcb[p].started
                      /\ Ticks(clock) >= Ticks(pcb[p].target)
           Gone == \A p \in allocated : pcb[p].name # AlarmName(n)
       IN  []<>PassedOver(AlarmName(n)) \/ (Due ~> (Halted \/ Gone))

(* An alarm that got its data at an earlier dispatch rings before its      *)
(* moment only if midnight passes while it reads the clock.  No other      *)
(* carry, no change of the clock by the user, and no wait in a queue makes *)
(* one ring too early.  (One that rings at its first dispatch is not       *)
(* spoken of here.)                                                        *)
RingsEarly(p) ==
    /\ running = p /\ Program(pcb[p]) = "alarm" /\ pcb[p].started
    /\ ~ shutting_down /\ p \notin allocated'
    /\ Ticks(clock') < Ticks(pcb[p].target)

AlarmEarlyOnlyAtMidnight ==
    [][\A p \in PCBs : RingsEarly(p) => clock'.day # clock.day]_vars

(* An alarm can wait for another alarm's moment only if that one was       *)
(* created after it: the last alarm created is always right.  When the     *)
(* last creation failed, its number has no process, and this says nothing  *)
(* of the alarms before it, whose data it has overwritten.                 *)
LastAlarmHasOwnData ==
    \A p \in allocated :
       pcb[p].name = AlarmName(alarm_counter) /\ pcb[p].started
          => pcb[p].target = pcb[p].asked
-----------------------------------------------------------------------------
(***************************************************************************)
(* What the repository's texts say and the code does not do.               *)
(***************************************************************************)

(* kmain.c: the system is shut down and the CPU halted "after your command *)
(* handler returns", which it does after a confirmed exit only.            *)
HaltsOnlyAfterExit == Halted => shutting_down

(* include/sys_call.h: sys_call selects "the next ready process based on   *)
(* priority": no ready process is better than the one that is dispatched.  *)
BestIsDispatched ==
    [][current_pcb' \notin {NULL, current_pcb} =>
          \A p \in Range(queue["ready"]) : pcb[current_pcb'].priority <= pcb[p].priority]_vars

(* include/dispatching.h: process_alarm_data is to hold the "alarm data    *)
(* for each process": a started alarm waits for the moment it was asked    *)
(* for.                                                                    *)
AlarmHasOwnData ==
    \A p \in allocated : pcb[p].started => pcb[p].target = pcb[p].asked
=============================================================================
