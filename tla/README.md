# TAOS: models, checks and proofs

TAOS is a small 32-bit teaching kernel: a command handler on a serial line,
process control blocks in three queues, cooperative dispatching through two
system calls, alarms, and a heap. Everything runs on one CPU with every IRQ
masked. What makes it hard is not parallelism but *interleaving at yield
points*: any process may stop at any `sys_req(IDLE)`, the user may type any
command on any process in between, the clock runs by itself, and a dozen
functions in four files patch the same three linked lists.

## 1. The system

| Component | Code | State | Operations |
|---|---|---|---|
| Dispatcher | `kernel/sys_call.c`, `sys_call_isr.s` | `current_pcb`, `saved_context`, the loaded context | `IDLE`, `EXIT` |
| Boot and halt | `kernel/kmain.c` | where `kmain` is | create the system processes, first `IDLE`, halt |
| Blocks and queues | `kernel/pcb.c`, `kernel/queue.c` | ready, blocked, suspended queue; each block's fields | setup, free, find, insert, remove, enqueue, dequeue |
| Process commands | `user/pcb_user_commands.c` | the same | delete, block, unblock, set_priority, suspend, resume |
| Loaders | `user/dispatching.c` | the same | loadr3, loadr3_suspended, load_process, resume_all |
| Alarms | `user/dispatching.c`, `kernel/rtc.c` | one shared buffer, a counter, each alarm's own copy | alarm, the alarm's loop, set_time, set_date |
| Command handler | `user/commhand.c`, `user/user_commands.c` | `shutting_down`, where it is | yield, read, execute, exit |
| Test and idle processes | `user/core.c` | iterations left | print, yield, exit |
| Heap | `kernel/mcb.c` | control blocks, `mem_tail`, two list heads | allocate, free |
| Line editor and history | `kernel/serial.c`, `kernel/com_hist.c` | buffer, cursor, history, draft | one character; up, down, enter |
| Clock | `kernel/rtc.c` | seven registers that tick by themselves | read and write time and date |
| Libraries | `lib/*.c` | `strtok`'s pointer | conversion, comparison, words |
| Framework, help, banner | `kernel/core-c.c`, `user/help_commands.c`, ... | none of interest | setup, printing |

How they interact: a process calls `sys_req`; `IDLE` and `EXIT` enter
`sys_call` through the ISR, which moves blocks between the ready queue and
`current_pcb`. The command handler executes commands as function calls on the
same queues while it is `current_pcb` itself, so it never finds itself in a
queue. Alarms get their data through a global buffer, and learn of a shutdown
through a global flag. Control blocks, stacks and the history come from one heap,
and the line editor gives back a draft it has given back before: that nobody else has got
its block in between rests on the order of what the command handler does.

What makes each correct:

- **dispatcher**: never loads a null context; keeps `kmain`'s context as long as
  it may be needed; the running process is live, ready and in no queue;
- **queues**: each live process is in exactly the queue its flags call for; the
  ready queue is in the order of priorities and first come, first served;
  pointers, tails and counts agree;
- **commands and loaders**: names stay unique, system processes survive;
- **alarms**: ring, not before their moment, and with their own data;
- **command handler**: comes back after each yield; after exit the machine halts;
- **heap**: no byte is lost or shared, no request fails that a gap could hold;
- **line editor and history**: what the screen shows is what is executed, past lines and
  the draft come back as they were, no block has two owners and none is lost;
- **clock and calendar**: a torn reading or setting is off by one carry; tomorrow is the
  next day of the calendar; moments are compared as what they stand for.

`PROJECT.json` lists the hazards line by line ("hazards"), with the properties
that would catch each going wrong.

## 2. The modules

| Module | Models | Extends / uses |
|---|---|---|
| `PCB` | the queue operators of `pcb.c` and `queue.c`, on sequences | |
| `TAOS` | the running system: dispatcher, processes, commands, alarms, clock | `PCB` |
| `MCTAOS` | the instances of `TAOS` for TLC | `TAOS` |
| `PCB_proofs` | lemmas on the queue operators | `PCB` |
| `TAOS_proofs` | the theorems about `TAOS` | `TAOS`, `PCB_proofs` |
| `ProcessQueues` | what the queue functions promise: blocks, sequences, six operations | `PCB` |
| `LinkedQueues` | the same functions on head, tail, next and count | refines `ProcessQueues` |
| `MCLinkedQueues` | its instance | `LinkedQueues` |
| `Heap` | what `mcb.h` promises: disjoint ranges, failure only without room | |
| `HeapManager` | `mcb.c`: the list of control blocks, first fit, split, merge | refines `Heap` |
| `KernelMemory` | who owns which block of the heap; `pcb_allocate`, `pcb_free` | |
| `CommandHistory` | `com_hist.c` | `KernelMemory` |
| `LineInput` | what the user may expect of a line that is typed | |
| `LineEditor` | `serial_poll`, the loop that calls it, processes that come and go | `CommandHistory`, refines `LineInput` |
| `MCLineEditor` | its instances | `LineEditor` |
| `Calendar` | BCD, the next day, strings of moments; the Gregorian calendar | |
| `RealTimeClock` | `rtc.c` register by register, set_time, set_date, one alarm | `Calendar` |
| `MCRealTimeClock` | its instance | `RealTimeClock` |
| `Order_proofs` | the theorems about the order of the ready queue and the buffer of the alarms | `TAOS_proofs` |
| `Lists_proofs` | lemmas on lists that run through pointers, and on sequences that grow and shrink | |
| `LinkedQueues_proofs` | the theorems about the pointers of the queues | `LinkedQueues`, `PCB_proofs`, `Lists_proofs` |
| `HeapManager_proofs` | the theorems about the list of the heap | `HeapManager`, `Lists_proofs` |
| `Calendar_proofs` | the theorems about the calendar and the clock | `RealTimeClock` |
| `Memory_proofs` | the theorems about the owners of blocks, the line, the screen and what `LineInput` promises | `LineEditor`, `Lists_proofs` |

### TAOS

One step is what a process does from one context switch to the next. The command
handler's steps are finer: its yield, one typed command, and each iteration of a
command's loop (`at` says which, `i` is the loop index). Since nothing preempts,
a finer grain would add no behaviour, with one exception: the clock ticks by
itself, so the two places where the code reads it (`rtc_get_time`, then
`rtc_get_date`) let it tick meanwhile. `Readings` are the moments such a reading may
give: the time is the one before the tick, or torn and earlier; the date is the one
before or after, or torn and ahead by one of `DaysAhead`: by a month, a year or a century
less some days, for the day is read before them. `RealTimeClock` has the registers, and its
`ReadsWithinACarry` is what justifies `Readings`.

- `pcb`, `allocated` are the control blocks and the addresses in use; `queue` is
  a function from queue to sequence. `Freed` stands for the contents of a freed
  block. An address is chosen by `\E p \in PCBs \ allocated`; when none is left,
  creation fails (`HeapFull`). A name is a pair of the program the block runs and
  a number, so `Program(rec)` also stands for the entry point in its context.
- `running` is whose context the ISR loaded, `kmain` where `kmain` is: before the
  boot, waiting to issue `int 0x60`, or past it. `Halted` is `kmain` back on
  the CPU: it logs, returns to the boot code and halts.
- `sys_idle_call(P)` and `sys_exit_call(P)` are the two halves of `sys_call`, with
  `P` the memory as the caller leaves it. The order in `IDLE` (dequeue first,
  re-insert afterwards) is the code's.
- Commands on one process go through `OnFound`: only names of live processes are
  enumerated; an unknown name or a refusal changes nothing, as `NothingDone` does.
- An R3 process yields `left` times and exits. An alarm copies `temp_alarm_data`
  when it first runs, reads the clock, and exits or yields. `asked` is an auxiliary
  field, never read by an action: the moment the user asked this alarm for.
- A moment is a day number and a time of day; the code compares two strings made
  of them, date first.

Left out: message texts, the alarm's message, stack contents, and everything that
only prints. `R3Count` may be lower than five to keep TLC's instances small;
process `n` has priority `n` and `n` iterations as in the code.

### LinkedQueues and ProcessQueues

`LinkedQueues` has the pointer code of `enqueue`, `dequeue`, `pcb_insert` and
`pcb_remove`, with a new block's `next` field arbitrary (`pcb_setup` does not set
it). `Contents` reads the lists back as sequences; with it `LinkedQueues`
implements `ProcessQueues`, whose operations are those of `PCB`. So what TAOS
does with sequences is what the code does with pointers, as long as TAOS calls
them as `ProcessQueues` allows: a block is inserted only when it is in no queue,
which is what `QueuesExact` and its proof establish.

### HeapManager and Heap

Addresses are offsets in the heap. `mcb` maps header addresses to control blocks.
`Heap` knows only the owned ranges; an allocation takes any gap, may get up to
`Overhead + 1` bytes more than it asked for, and fails only if there is none.

### KernelMemory, CommandHistory, LineEditor and LineInput

The heap is a set of blocks with an owner each, and the text in those that hold a line:
enough to see who frees whose memory, and who reads what was freed. Any free block may be
returned (that the blocks are disjoint is `Heap`'s promise), and `sys_free_mem` refuses what
is not allocated, as `free_memory` does. Lengths decide about refusals only where they are
known: a free block that held a text, when nothing has been allocated since, has room for one
as long (its free neighbours may have joined it); any other request may be refused
(`MayRefuse`). A freed block keeps its text until the next allocation; after that what it
holds is not known. `CommandHistory` has the functions of `com_hist.c` as operators on the
memory; `Unsaved` is the case in which `hist_set` writes through a null pointer.

A step of `LineEditor` is one byte from the line. `buffer`, `bufferSize` and `cursorPos` are
the code's; `esc` are the bytes of an escape sequence so far; `screen` is the terminal
(external: it overwrites, BS moves left; that it wraps a line at its 80th column is left
out). While `serial_poll` spins nothing else runs. After the line the phase is `"executing"`
if it was a command, and only there are processes created; an empty line, or an answer, goes
straight to `"prompt"`, where the command handler has yielded and processes may end but
nobody allocates. Two phases end what is known: `"panicked"` (a page fault: a null pointer,
or slot 0 read by Down before it was ever written) and `"overrun"` (a line copied past the
caller's buffer). The longer command buffer and the shorter buffer of `shutdown` are
`LineLen` and `AnswerLen`, 100 and 16 in the code. `TAOS` takes a line for a command and
does not have the line of blanks that ends in a page fault.

`LineInput` is written for the user's side: a line, a cursor, the past lines newest first,
how far back, the draft. `LineEditor` implements it by reading the buffer as the line and
slots 1 to `hist_size` as the past, and slot 0 as the draft only while one is due.

Slot 0 is the delicate one. Down frees the draft and leaves its address there; an empty
line keeps it, over any number of lines, while a line with a command sets it to null
(`hist_add`) before the command is executed. So a stale address never meets a block that was
allocated after it was freed, but by Up, which then puts another address into slot 0:
this is what `OneOwner` and the text that a stale slot still shows (`ImplementsLineInput`,
`OverrunsAnswersOnly`) rest on.

### Calendar and RealTimeClock

One step is one register access, so that a tick may come between any two. An operation
takes microseconds; at most one tick comes while it is at work. `value` are the fields read
so far or to be written, `began`, `torn` and `due` are auxiliary. A string is a sequence of
distances from `'0'`, and what was typed for an alarm is kept as typed. `Calendar` also has
the reference: the Gregorian months and a number for each day.

## 3. The runs

| Run | Instance | Question |
|---|---|---|
| `commands` | 4 addresses, 3 R3 processes, priorities {0, 2, 10} typed, all process commands | Do commands and dispatching keep queues, names, CPU and system processes right? |
| `order` | the same without resume_all | Is the ready queue sorted and fair among equals? |
| `alarms` | 4 addresses, up to 3 alarms, 2 days of 2 ticks, settable clock | Own data, unique numbers, right day? |
| `returns` | 4 addresses, an R3 process and an alarm, priorities {0, 2} typed, all process commands but suspend, `FairSpec` | Does the command handler come back, does exit halt? Who can starve whom? |
| `attended` | 4 addresses, an R3 process and 2 alarms, 2 days, loading, resume_all, exit, `AttendedSpec` | Do due alarms ring? |
| `links` | 3 blocks, 2 priorities | Do the pointer functions agree, and do what the sequences do? |
| `heap` | 18 bytes, headers of 2, requests of 0, 1, 2 and 4 | Tiling, merging, and the promise of `mcb.h` |
| `terminal` | 4 blocks, 2 history slots, a letter and the blank, buffers of 3 and 2 (741147 states) | Blocks, screen, lines, and the promise of `LineInput` |
| `clock` | 5 moments before a carry, 3 ticks, 4 dates, 3 times, 4 alarm times | Torn readings and settings; is the alarm's day right; is the comparison? |
| `doc_*` | small | three claims of the repository's texts that the code does not keep |

Why the bounds are enough. Four addresses hold the two system processes and two
others; the fifth creation finds the heap full, so `HeapFull` is exercised. The
queue functions compare a block with its neighbours only, so two or three blocks
meet every case (empty, head, middle, tail). Priority 10 is the first one refused.
Three alarms number past the two that fit at once, so deletion, re-creation and a
failed creation between two are reached. Two ticks and two days are enough for a
tick inside a day and one past midnight, in the middle of any reading. Eighteen bytes hold up
to six blocks of header two, with remainders on both sides of the splitting
threshold. Addresses of control blocks are symmetric: no code compares them. The
liveness runs use no symmetry. Four blocks hold a full history, its draft and half a
process, or a process and two lines: each of the three requests (line, control block,
stack) meets a full heap, and a request for two letters a heap whose only free block held one
letter or none. A buffer of three holds lines of up to two letters, so that an
insertion and a deletion happen in front of, between and behind others, and a recalled
line of two does not fit the answer's buffer of two. The clock starts seconds before the
end of an hour, a day, a month, February of a leap year and of 2100, and a century; three
ticks carry all of them and tear a reading, a setting, and the reading after it.

Bounds in the guards: `MaxAlarms` (alarms created), `DayLength` and `LastDay` (the
clock stops at the end of the last day), `MaxTicks`. A command set in a cfg says what the user
types in that run; every command is typed in some passing run.

**Fairness.** `CPURuns` is weak fairness of the system's own steps: the CPU always
executes the context that is loaded. `UserTypes` is weak fairness of the prompt: the
user ends the line some time. The two are apart because most of what the code
promises rests on the first alone (`FairSpec`), and what needs the second
(`AttendedSpec`) is worth knowing: while the command handler waits in
`serial_poll` nothing else runs. The clock needs no fairness.

### Findings

| Run | Text | Code |
|---|---|---|
| `doc_halt` | `kernel/kmain.c:110`: shutdown after the command handler returns (help: after a confirmed exit only) | blocking `sys_idle` empties the ready queue; `IDLE` returns to `kmain` |
| `doc_alarm_data` | `include/dispatching.h:61`: alarm data for each process | one buffer, copied at the first dispatch |
| `doc_priority` | `include/sys_call.h:28-30`: the next ready process is selected by priority | `resume_all` (`user/dispatching.c:163`) appends to the ready queue, and the head is dispatched |

Other disagreements were met while modelling. Some are the exceptions that a passing
property makes:

- an alarm rings almost a day early when midnight falls between the readings of time and
  date (`user/dispatching.c:260`; the help says at the specified time) or when a date is
  torn at its creation (`AlarmEarlyOnlyAtMidnight`, `AlarmWithinADay`);
- a line of blanks ends in a comparison with the null pointer (`user/commhand.c:88-91`);
  every other unknown line is answered with a message (`LinesAnswered`);
- a recalled line overruns the 16 bytes of `shutdown` (`user/user_commands.c:137`,
  `kernel/serial.c:122`), which gave `READ` that maximum (`OverrunsAnswersOnly`);
- Down before anything was put in slot 0 reads through a pointer that was never set
  (`kernel/com_hist.c:7`, `kernel/serial.c:150`), and may fault or copy whatever is there
  (`OverrunsAnswersOnly`, `LinesAnswered`);
- a line longer than any free block is written through the null pointer
  (`kernel/com_hist.c:50-52`), also when the history is full and its oldest line, which is
  freed first, was short (`LinesAnswered`);
- Up with an empty history forgets the draft it saved before (`NothingLost`);
- `set_date` accepts February 29 of 2100, which the alarms' calendar does not have.

Others have no property: the help of `loadr3` says it loads in the suspended state; the help
of `set_priority` says a system process keeps its priority (`set_pcb_priority` has no check of
the class); `include/dispatching.h:7` says that queued processes will execute (`returns` shows
who may keep one waiting: processes that are better than it, or, after resume_all, than one
that waits in front of it, as a pending alarm is better than the idle process; or the user,
who may leave a line unended); `include/mcb.h:38` says that `allocate_memory` puts a block on
the allocated list (only `free_memory` ever sets it).

## 4. What is proved

`TAOS_proofs` proves, for any number of addresses and alarms, any clock and any set of
commands:

- `TypeCorrect`: `Spec => []TypeOK`
- `QueuesCorrect`: `Spec => []QueuesExact`
- `NamesCorrect`: `Spec => []NamesUnique`
- `DispatchCorrect`: `Spec => []CPUConsistent`
- `SystemProcessesCorrect`: `Spec => []SystemProcessesSurvive`
- `HaltCorrect`: `Spec => []HaltIsOrderly`

from the named assumptions of `PCB` and `TAOS` (the kernel's context is no block,
`NULL` neither, there is room for two blocks, 1 to 5 R3 processes, a day has a tick).

All six come from `Invariant`: `Spec => []IInv`. None of the properties is inductive
alone. `QueuesExact` needs `CPUConsistent` (what is re-inserted is the running process,
which is in no queue, ready and not suspended) and conversely (what is dispatched
comes off the ready queue, so it is live). `NamesUnique` needs `QueuesExact`, for
`pcb_find` walks the queues, and `CPUConsistent`, for the one process it cannot see is
the command handler, whose name no loader uses; it needs `AlarmsNumbered` for the
alarms, which are created without a search. `HaltIsOrderly` needs
`SystemProcessesSurvive` (an empty ready queue means the idle process is blocked) and
`KmainPhases`. `IInv` is the conjunction; it was checked with TLC on the instances of
`commands` and `alarms` before it was proved.

The proof has three layers. `PCB_proofs` says what `InsertAt`, `RemoveAt`, `Append` and
`Tail` do to the range, the injectivity and the order of a queue, then what
`pcb_insert`, `pcb_remove` and `dequeue` do to `Holds` and `Sorted`. `TAOS_proofs` then
shows, action by action, that the blocks and the CPU stay consistent (`Core...`), that
the rest stays typed (`RestStep`), and what a step may do to the set of processes
(`Effect...`: names and classes stay, at most one new name, who may leave); names and
survival follow from the effect alone (`NamesStep`, `SurviveStep`, `HaltStep`).

`Order_proofs` builds on `IInv`:

- `OrderOfArrival`: `Spec => NoOvertaking`, for any commands, resume_all included (it
  appends, and what is appended overtakes nobody). Removing from a queue, inserting into
  it anywhere and appending keep the order of the others (`RemoveKeepsOrder` and its
  neighbours); what remains is that no step takes a process off the ready queue and puts
  it back there without a new priority, which is what `Moved` of `TAOS_proofs` says of the
  commands and `CPUConsistent` of the system calls.
- `OrderOfPriorities`: `Spec => []ReadySorted`, if resume_all is not among the commands.
  The invariant adds that resume_all is never under way. What resume_all does to the order
  is the run `doc_priority`.

- `LastAlarmCorrect`: `Spec => []LastAlarmHasOwnData`. The invariant is `BufferIsLast`: until
  the last alarm created has copied the shared buffer, the buffer holds what the user asked of
  that alarm. (A creation that fails overwrites the buffer too: then the last number has no
  alarm, and the theorem says nothing of the others.) It needs `IInv` because an alarm is
  known by its number: with a name given twice there would be two last alarms.
- `EarlyOnlyAtMidnight`: `Spec => AlarmEarlyOnlyAtMidnight`, for alarms that got their data at
  an earlier dispatch. The invariant `TimesOfDay` adds that what an alarm waits for is a time
  of day. Nothing is used of the clock but that a reading is one of `Readings`.

`Memory_proofs` proves, for any number of blocks, any number of processes and a history of
any size, that the line editor, the history and `pcb_allocate` share the heap without harm:

- `OneOwnerCorrect`: `Spec => []OneOwner`
- `NothingLostCorrect`: `Spec => NothingLost`

from the assumptions that the null pointer and what slot 0 holds at boot are no blocks and
that the history has a slot. The inductive invariant `OwnerInv` has to say what slot 0 may
hold: a block of the history's own, or one that is free (`DraftOwned`: its address outlives
it, for Down does not clear it), and nothing at all while a command is executed, for then its
block could become a process's. Every operation is first described field by field
(`FreeFields`, `SetFields`), then by what it does to ownership (`DraftFreed`, `LineAdded`,
`ProcessCreated`, ...).

`OwnerInv` says who owns; what the line and the screen hold is apart from it:

- `EditorTypeCorrect`: `Spec => []TypeOK`
- `ScreenCorrect`: `Spec => []ScreenShowsLine`

The invariant is `EditorInv`: the buffer is `bufferSize` letters and nothing but ends behind
them (`IsLine`), with room for one end in the caller's buffer, and the terminal is a function
of buffer, size and cursor (`LineShown`) in every phase. Each key has a lemma about the line it
leaves and what it writes (`LetterInserted`, `LetterRemoved`, `LineReplaced`, `EndShown`); all
of them rest on one about a terminal that overwrites (`Redrawn`). It takes the assumption that
no letter is the byte that ends a string: with one, `strlen` would cut a recalled line short.

On both invariants rest:

- `LineInputImplemented`: `Spec => ImplementsLineInput`, the refinement of `LineInput`
- `OverrunsCorrect`: `Spec => OverrunsAnswersOnly`
- `AnswersCorrect`: `Spec => LinesAnswered`

The refinement maps past lines and draft to the text of blocks, so the invariant `KeptInv`
adds that a block of the history has a text until it is freed (`TextsKept`) and that, while
the user is looking back, slot 0 has a block of the history's (`DraftHeld`). That this block
holds the line he left, and the slots the lines in their order, then needs no invariant but
one (`DraftFits`): the block slot 0 points to, freed or not, holds a line that fits the
caller's buffer, for while it points to a freed block nothing is allocated but the draft that
takes its place. Each operation of the history says what it
does to `Past` and `Draft` (`LineSaved`, `WentUp`, `WentDown`, `DraftGone`, `LineEntered`,
`ProcessTakes`, `ProcessGives`), which are the mapped variables, and each key has a lemma from
there to the action of `LineInput` it implements (`KeysPromised`, `UpPromised`,
`DownPromised`, `EnterPromised`). `OwnerInv` is what keeps the text of one line out of the
operations on another. The overrun and the stop are cases of the same lemmas: a recalled line
is one of `Lines`, so it fits the longer buffer; a request is refused only if what was freed
just before it was shorter (`AddRefused`); and a line in which `strtok` finds no word has no
letter but blanks (`NoWord`). They add one assumption, that the null pointer is none of the
lines (`NullIsNoLine`): it stands for a text that is not known.

`LinkedQueues_proofs` proves, for any number of blocks and priorities and whatever a block's
`next` field held before:

- `EndsMeetCorrect`: `Spec => []EndsMeet`
- `SequencesImplemented`: `Spec => ImplementsSequences`, the refinement of `ProcessQueues`

A chain of pointers is defined by recursion, which no prover here can unfold n times. So the
proofs do not follow the chain but keep a list beside it: the invariant `LinksInv` says that
there are sequences without repetition whose neighbours are the pointers' neighbours, whose
ends are head and tail and whose length is the count. Each operation turns such a list into
another (`InsertAt`, `RemoveAt`), and two lemmas of `Lists_proofs` connect the list with what
the code does: a walk along `next` visits its elements in order, and the least index at which
the walk stops is where `pcb_insert` inserts. Induction is replaced by the least number for
which a claim fails (`LeastNumber`), which needs no operator as a parameter.

`HeapManager_proofs` does the same for the list of control blocks, for a heap and headers of
any size:

- `TiledCorrect`: `Spec => []Tiled`
- `CoalescedCorrect`: `Spec => []Coalesced`
- `HeapImplemented`: `Spec => ImplementsHeap`, the refinement of `Heap`

The invariant `HeapInv` says of the list that its addresses grow, that each block ends where
the next begins and the last one at the end of the heap (`IsHeap`), and that no two free
blocks are neighbours (`Merged`). That first fit fails only without a gap needs `Merged`, for
two free blocks side by side would be a gap that no single block has. The assumptions are
that the heap has room for one header, that headers take at least a byte (two blocks never
have one address), that the null pointer is no address in the heap and that sizes are natural.
For the queues they are that the null pointer is no block, that priorities are integers and
that the heap is finite: a list without an end would never be left.

`Calendar_proofs` proves, with no assumption but the ranges of the fields:

- `BCDRoundTrip`: a number of two digits comes back from a register as it was written;
- `NextDateFollows`: from any day of the calendar but 9999-12-31, `NextDate` is a day of the
  calendar and its day number is one more. The day number is split into the days of the
  years, the leap days before the year and the days before the month (`Days`); it grows by
  one within a month, over the end of a month and over the end of a year, and the code's
  rule for the length of a month is the reference's (`MonthsAgree`);

and about `RealTimeClock`, for any starting moments and any dates and times that are typed, as
long as they are moments of the calendar:

- `ClockTypeCorrect`: `Spec => []TypeOK`
- `ReadsCorrect`: `Spec => []ReadsWithinACarry`
- `SetsCorrect`: `Spec => SetsWithinACarry`
- `DueCorrect`: `Spec => AlarmWithinADay`
- `RingsCorrect`: `Spec => RingsWhenDue`

The last compares what `alarm_process` does, `strcmp` on two strings, with the order of the
numbers they stand for (`Compared`, `TimesCompared`, `DatesCompared`): all fields have a fixed
width, so the first character that differs decides, and what the user typed as a time must be
digits. The invariant `ClockInv` says of a reading under way that the fields read so far are
those of the moment it began, up to a place, and those of the moment after it from that place
on; a carry changes all the places behind it, so the mixture is one of three moments and
bounded by one carry. Of a setting it says the same with the fields written. The attempt to
prove it corrected two properties, which were false where the clock rolls over after 9999. A
clock that shows century 0 is read as in century 20, so `ReadsWithinACarry` now leaves those
years out; and a carry out of century 99 leaves 0, which `SetsWithinACarry` now says. `clock`
starts seconds before that moment as well, so TLC meets the roll-over too.

Only model-checked: the liveness properties, `CommhandReturns`, `ExitHalts`,
`PassedOverOrServed` and `AlarmRings` (the prover has no fairness). Every other property of a
passing run is stated by one of the theorems.

## 5. What is not modelled, and the plan

What is left is to shorten the proofs, and to state for any constants what the fair runs rest
on: that in a state where the ready queue is not empty a dispatch is possible, and which
processes it may pass over.

Not modelled: `atoi` and `itoa`, the words of a command's arguments (a line in `TAOS` is a
command with arguments already parsed), the framework (`kernel/core-c.c`, interrupt and page
tables), printing, help and banner, and `allocmem`/`freemem`/`create_pcb`, which no command
reaches.
