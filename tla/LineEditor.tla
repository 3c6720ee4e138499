----------------------------- MODULE LineEditor -----------------------------
(***************************************************************************)
(* The command handler's terminal: serial_poll of kernel/serial.c byte by  *)
(* byte, with the history of com_hist.c, the heap both use, and the        *)
(* processes that come and go with their memory between two lines: they    *)
(* are created by the commands of a line, and end there or later.          *)
(***************************************************************************)
EXTENDS CommandHistory

CONSTANTS
    Letters,            \* the printable bytes the user types
    Blank,              \* the one that separates words
    LineLen,            \* the size of the buffer of a command
    AnswerLen           \* the size of the buffer of an answer to exit

ASSUME SizesOfBuffers == LineLen \in Nat /\ AnswerLen \in 1 .. LineLen

VARIABLES
    mem,            \* heap and history
    procs,          \* the processes, with the memory each of them got
    phase,          \* "reading"; "executing": a command is carried out;
                    \* "prompt": other processes run;
                    \* "panicked", "overrun": the end of what is known
    len,            \* the size of the caller's buffer
    buffer,         \* that buffer, indexed from 0
    bufferSize, cursorPos,
    esc,            \* the bytes of an escape sequence that have come
    screen          \* what the terminal shows right of the prompt, and
                    \* where its cursor is

editor == <<len, buffer, bufferSize, cursorPos>>
vars == <<mem, procs, phase, editor, esc, screen>>

Nul == "nul"

ASSUME NulIsNoLetter == Nul \notin Letters

Zeros == [k \in 0 .. LineLen - 1 |-> Nul]

strlen(b) == Min({k \in 0 .. LineLen - 1 : b[k] = Nul} \cup {LineLen})

Text(b, n) == [k \in 1 .. n |-> b[k - 1]]

Lines == BoundedSeq(Letters, LineLen - 1)

ASSUME NullIsNoLine == NULL \notin Lines
-----------------------------------------------------------------------------
(***************************************************************************)
(* The terminal: it overwrites from its cursor on, and BS only moves left. *)
(***************************************************************************)
Clear == [cells |-> [k \in 1 .. LineLen |-> Blank], col |-> 0]

Write(T, s) ==
    [cells |-> [k \in DOMAIN T.cells |->
                   IF k \in T.col + 1 .. T.col + Len(s) THEN s[k - T.col] ELSE T.cells[k]],
     col |-> T.col + Len(s)]

Back(T, n) == [T EXCEPT !.col = @ - n]

Spaces(n) == [k \in 1 .. n |-> Blank]
-----------------------------------------------------------------------------
Init ==
    /\ mem \in initialize_comhist
    /\ procs = {}
    /\ phase = "reading"
    /\ len = LineLen
    /\ buffer = Zeros
    /\ bufferSize = 0 /\ cursorPos = 0
    /\ esc = <<>>
    /\ screen = Clear

(***************************************************************************)
(* A byte that comes after the bytes seq of an escape sequence; one that   *)
(* does not continue it is swallowed with it.                              *)
(***************************************************************************)
After(seq) == phase = "reading" /\ esc = seq

EscapeGoesOn ==
    /\ \/ After(<<>>) /\ esc' = <<"ESC">>
       \/ After(<<"ESC">>) /\ esc' \in {<<"ESC", "[">>, <<>>}
       \/ After(<<"ESC", "[">>) /\ esc' \in {<<"ESC", "[", "3">>, <<>>}
       \/ After(<<"ESC", "[", "3">>) /\ esc' = <<>>
    /\ UNCHANGED <<mem, procs, phase, editor, screen>>

Key(seq) ==
    /\ After(seq)
    /\ esc' = <<>>
    /\ UNCHANGED <<procs, len>>

Arrow == Key(<<"ESC", "[">>)

(***************************************************************************)
(* Keys that do not look at the history.                                   *)
(***************************************************************************)
Edits(b, n, k, T) ==
    /\ buffer' = b /\ bufferSize' = n /\ cursorPos' = k /\ screen' = T
    /\ UNCHANGED <<mem, phase>>

(* Mutant: the line fills the buffer and leaves no room for its end. *)
InsertFillsBuffer ==
    \E c \in Letters :
       /\ Key(<<>>)
       /\ bufferSize < len
       /\ LET b == [k \in DOMAIN buffer |->
                       IF k = cursorPos THEN c
                       ELSE IF k \in cursorPos + 1 .. bufferSize THEN buffer[k - 1]
                       ELSE buffer[k]]
              tail == SubSeq(Text(b, bufferSize + 1), cursorPos + 1, bufferSize + 1)
          IN  Edits(b, bufferSize + 1, cursorPos + 1,
                    Back(Write(screen, tail), bufferSize - cursorPos))

(* Mutant: the tail of the line is overwritten on the screen. *)
InsertWithoutRedraw ==
    \E c \in Letters :
       /\ Key(<<>>)
       /\ bufferSize < len - 1
       /\ LET b == [k \in DOMAIN buffer |->
                       IF k = cursorPos THEN c
                       ELSE IF k \in cursorPos + 1 .. bufferSize THEN buffer[k - 1]
                       ELSE buffer[k]]
          IN  Edits(b, bufferSize + 1, cursorPos + 1, Write(screen, <<c>>))

Insert ==
    \E c \in Letters :
       /\ Key(<<>>)
       /\ bufferSize < len - 1
       /\ LET b == [k \in DOMAIN buffer |->
                       IF k = cursorPos THEN c
                       ELSE IF k \in cursorPos + 1 .. bufferSize THEN buffer[k - 1]
                       ELSE buffer[k]]
              tail == SubSeq(Text(b, bufferSize + 1), cursorPos + 1, bufferSize + 1)
          IN  Edits(b, bufferSize + 1, cursorPos + 1,
                    Back(Write(screen, tail), bufferSize - cursorPos))

(***************************************************************************)
(* The byte at position k goes; T is the terminal with its cursor there.   *)
(***************************************************************************)
Removes(k, T) ==
    LET b == [j \in DOMAIN buffer |->
                 IF j = bufferSize - 1 THEN Nul
                 ELSE IF j \in k .. bufferSize - 2 THEN buffer[j + 1]
                 ELSE buffer[j]]
        tail == SubSeq(Text(b, bufferSize - 1), k + 1, bufferSize - 1)
    IN  Edits(b, bufferSize - 1, k, Back(Write(T, Append(tail, Blank)), bufferSize - k))

Backspace == Key(<<>>) /\ cursorPos > 0 /\ Removes(cursorPos - 1, Back(screen, 1))

DeleteKey ==
    Key(<<"ESC", "[", "3">>) /\ cursorPos < bufferSize /\ Removes(cursorPos, screen)

MovesTo(k, T) == Arrow /\ Edits(buffer, bufferSize, k, T)

Left  == cursorPos > 0 /\ MovesTo(cursorPos - 1, Back(screen, 1))

Right == cursorPos < bufferSize /\ MovesTo(cursorPos + 1, Back(screen, -1))

Home  == MovesTo(0, Back(screen, cursorPos))

End   == MovesTo(bufferSize, Write(screen, SubSeq(Text(buffer, bufferSize), cursorPos + 1, bufferSize)))
-----------------------------------------------------------------------------
(***************************************************************************)
(* What reading through a slot finds: a line, also in a block that was     *)
(* given back and that nobody has got since, and in memory that is not the *)
(* history's anything.                                                     *)
(***************************************************************************)
Anything == BoundedSeq(Letters, LineLen)

Contents(M, ptr) ==
    IF ptr = NULL THEN {<<>>}
    ELSE IF ptr \in Blocks /\ M.text[ptr] # NULL THEN {M.text[ptr]}
    ELSE Anything

(***************************************************************************)
(* The recalled line replaces the buffer's contents and the shown text.    *)
(* It is copied by its own length: a line that leaves no room for its end  *)
(* overruns the buffer, and what happens then is not modelled.             *)
(***************************************************************************)
Replaces(text) ==
    LET wiped == [k \in DOMAIN buffer |-> IF k < bufferSize THEN Nul ELSE buffer[k]]
        b     == [k \in DOMAIN buffer |-> IF k < Len(text) THEN text[k + 1] ELSE wiped[k]]
        n     == strlen(b)
        over  == IF bufferSize > n THEN bufferSize - n ELSE 0
    IN  /\ buffer' = b /\ bufferSize' = n /\ cursorPos' = n
        /\ screen' = Back(Write(Back(screen, cursorPos), Text(b, n) \o Spaces(over)), over)
        /\ UNCHANGED phase

Stops(how) ==
    phase' = how /\ UNCHANGED <<mem, buffer, bufferSize, cursorPos, screen>>

(***************************************************************************)
(* M has moved to a slot: its line is shown, and memory is left as given.  *)
(* A slot that was never written may point to memory that is not there.    *)
(***************************************************************************)
Shows(M, left) ==
    \/ Recalled(M) = Wild /\ Stops("panicked")
    \/ \E text \in Contents(M, Recalled(M)) :
          IF Len(text) < len THEN Replaces(text) /\ mem' = left ELSE Stops("overrun")

(***************************************************************************)
(* Up saves the line first, unless it is a recalled one.                   *)
(***************************************************************************)
Up ==
    /\ Arrow
    /\ LET line  == Text(buffer, strlen(buffer))
           saved == IF mem.index = 0 THEN hist_set(mem, 0, line) ELSE {mem}
       IN  \/ mem.index = 0 /\ Unsaved(mem, line) /\ Stops("panicked")
           \/ \E M \in saved : Shows(hist_next(M), hist_next(M))

(***************************************************************************)
(* Down frees the draft when it has come back to it.                       *)
(***************************************************************************)
(* Mutant: it does so wherever it has come to. *)
DownFreesRecalled ==
    /\ Arrow
    /\ LET M == hist_previous(mem)
       IN  Shows(M, sys_free_mem(M, Recalled(M)))

Down ==
    /\ Arrow
    /\ LET M == hist_previous(mem)
       IN  Shows(M, IF M.index = 0 THEN sys_free_mem(M, Recalled(M)) ELSE M)
-----------------------------------------------------------------------------
(***************************************************************************)
(* The next word of s from position at on, and where the one after it may  *)
(* begin; at = 0 is strtok's null pointer.                                 *)
(***************************************************************************)
(* Mutant: the blanks before a word are not skipped. *)
StopsAtFirstBlank(s, at, delims) ==
    LET end == Min({k \in at .. Len(s) : s[k] \in delims} \cup {Len(s) + 1})
    IN  IF at = 0 \/ end <= at THEN [token |-> NULL, at |-> 0]
        ELSE [token |-> SubSeq(s, at, end - 1), at |-> IF end > Len(s) THEN 0 ELSE end + 1]

strtok(s, at, delims) ==
    LET from == Min({k \in at .. Len(s) : s[k] \notin delims} \cup {Len(s) + 1})
        end  == Min({k \in from .. Len(s) : s[k] \in delims} \cup {Len(s) + 1})
    IN  IF at = 0 \/ from > Len(s) THEN [token |-> NULL, at |-> 0]
        ELSE [token |-> SubSeq(s, from, end - 1), at |-> IF end > Len(s) THEN 0 ELSE end + 1]

(***************************************************************************)
(* What becomes of a line.  An empty one and an answer have no command; a  *)
(* command's letters stand for any command: it may be exit, which reads an *)
(* answer at once.  The name is compared without a look whether there is   *)
(* one: a line of blanks has none.                                         *)
(***************************************************************************)
Executes(line) ==
    \/ /\ len = AnswerLen \/ line = <<>>
       /\ phase' = "prompt" /\ len' = LineLen
    \/ /\ len = LineLen /\ line # <<>> /\ strtok(line, 1, {Blank}).token # NULL
       /\ \/ phase' = "executing" /\ UNCHANGED len
          \/ phase' = "reading" /\ len' = AnswerLen
    \/ /\ len = LineLen /\ line # <<>> /\ strtok(line, 1, {Blank}).token = NULL
       /\ phase' = "panicked" /\ UNCHANGED len

Enter ==
    /\ After(<<>>)
    /\ LET line  == Text(buffer, bufferSize)
           freed == hist_index_set(sys_free_mem(mem, mem.com_hist[0]), 0)
           kept  == IF bufferSize > 0 THEN hist_add(freed, line) ELSE {freed}
       IN  \/ /\ bufferSize > 0 /\ Unsaved(Shifted(freed), line)
              /\ Stops("panicked") /\ UNCHANGED len
           \/ /\ mem' \in kept
              /\ Executes(line)
              /\ buffer' = Zeros /\ bufferSize' = 0 /\ cursorPos' = 0
              /\ screen' = Clear
    /\ UNCHANGED <<procs, esc>>
-----------------------------------------------------------------------------
(***************************************************************************)
(* Between two lines.  Only commands create processes; a process ends by a *)
(* command, or by itself when the command handler has yielded.             *)
(***************************************************************************)
Leaves(M, P) == mem' = M /\ procs' = P /\ UNCHANGED <<phase, editor, esc, screen>>

Creates ==
    /\ phase = "executing"
    /\ \E new \in pcb_allocate(mem) :
          Leaves(new.mem, IF new.pcb = NULL THEN procs
                          ELSE procs \cup {[pcb |-> new.pcb, stack |-> new.stack]})

Ends ==
    /\ phase \in {"executing", "prompt"}
    /\ \E p \in procs : Leaves(pcb_free(mem, p), procs \ {p})

Yields ==
    /\ phase = "executing"
    /\ phase' = "prompt"
    /\ UNCHANGED <<mem, procs, editor, esc, screen>>

Reads ==
    /\ phase = "prompt"
    /\ phase' = "reading"
    /\ UNCHANGED <<mem, procs, editor, esc, screen>>

Stopped == phase \in {"panicked", "overrun"} /\ UNCHANGED vars

Next ==
    \/ EscapeGoesOn \/ Insert \/ Backspace \/ DeleteKey
    \/ Left \/ Right \/ Home \/ End \/ Up \/ Down \/ Enter
    \/ Creates \/ Ends \/ Yields \/ Reads \/ Stopped

Spec == Init /\ [][Next]_vars
-----------------------------------------------------------------------------
Entries == {mem.com_hist[k] : k \in 1 .. mem.size}

(* A slot below the size holds a line, the buffer a string of bufferSize   *)
(* bytes with its end, and the cursor is in it.                            *)
TypeOK ==
    /\ mem.owner \in [Blocks -> {"free", "history", "process"}]
    /\ mem.text \in [Blocks -> Lines \cup {NULL}]
    /\ mem.com_hist \in [Slots -> Blocks \cup {NULL, Wild}]
    /\ mem.size \in Slots /\ mem.index \in 0 .. mem.size
    /\ procs \subseteq [pcb : Blocks, stack : Blocks]
    /\ phase \in {"reading", "executing", "prompt", "panicked", "overrun"}
    /\ len \in {LineLen, AnswerLen}
    /\ bufferSize \in 0 .. len - 1 /\ cursorPos \in 0 .. bufferSize
    /\ buffer = [k \in 0 .. LineLen - 1 |-> IF k < bufferSize THEN buffer[k] ELSE Nul]
    /\ strlen(buffer) = bufferSize

(* No block has two owners: the history's lines are the history's, each in *)
(* a block of its own, and a process has both its blocks until it ends.    *)
(* The history frees its slot 0 without knowing whether it did so before   *)
(* (an empty line leaves there what Down has freed), and this must not hit *)
(* a block that somebody else has got since.                               *)
OneOwner ==
    /\ \A k \in 1 .. mem.size : mem.owner[mem.com_hist[k]] = "history"
    /\ Cardinality(Entries) = mem.size
    /\ \A p \in procs : /\ p.pcb # p.stack
                        /\ {mem.owner[p.pcb], mem.owner[p.stack]} = {"process"}
    /\ \A p, q \in procs : p # q => {p.pcb, p.stack} \cap {q.pcb, q.stack} = {}

(* Nobody's memory is lost: a block that is not free can be reached from a *)
(* process or from the history, whatever fails half-way.  Only Up before   *)
(* the first line was ever entered forgets a block, that of the draft it   *)
(* saved before.                                                           *)
Lost == {a \in Blocks : /\ mem.owner[a] # "free"
                        /\ a \notin Entries \cup {mem.com_hist[0]}
                        /\ \A p \in procs : a \notin {p.pcb, p.stack}}

NothingLost ==
    [][Lost' \subseteq Lost \cup IF mem.size = 0 /\ Up THEN {mem.com_hist[0]} ELSE {}]_vars

(* The terminal shows the buffer, and its cursor is where the next letter  *)
(* goes, after any mix of keys: what the user sees is what is executed.    *)
ScreenShowsLine ==
    phase = "reading" =>
       screen = [cells |-> [k \in 1 .. LineLen |->
                               IF k <= bufferSize THEN buffer[k - 1] ELSE Blank],
                 col |-> cursorPos]

(* Whatever Up and Down show, also what Down has given back and reads      *)
(* again, fits the buffer of a command: it came from one, and with its     *)
(* end.  Two things overrun a buffer: a past line that does not fit the    *)
(* shorter one of an answer, and Down while slot 0 was never written.      *)
OverrunsAnswersOnly ==
    [][phase # "overrun" /\ phase' = "overrun" =>
          \/ len = AnswerLen /\ \E k \in 1 .. mem.size : Len(mem.text[mem.com_hist[k]]) >= len
          \/ Down /\ mem.com_hist[0] = Wild]_vars

(* Only a line of blanks stops the kernel by what is in it: any other is   *)
(* split into words and answered, whatever blanks are around them.  Want   *)
(* of memory stops it where Up saves the line, and at the end of a line    *)
(* only when neither the draft nor, in a full history, the oldest line,    *)
(* which are given back first, was as long.  And Down stops it while slot  *)
(* 0 was never written.                                                    *)
LinesAnswered ==
    [][phase # "panicked" /\ phase' = "panicked" =>
          \/ Up /\ mem.index = 0
          \/ Down /\ mem.com_hist[0] = Wild
          \/ bufferSize > 0 /\ \A k \in 0 .. bufferSize - 1 : buffer[k] = Blank
          \/ /\ mem.com_hist[0] \in Blocks => Len(mem.text[mem.com_hist[0]]) < bufferSize
             /\ mem.size = hist_max_size => Len(mem.text[mem.com_hist[mem.size]]) < bufferSize
      ]_vars

Promise == INSTANCE LineInput WITH
    Limits <- {LineLen - 1, AnswerLen - 1},
    Keep   <- hist_max_size,
    line   <- Text(buffer, bufferSize),
    cursor <- cursorPos,
    limit  <- len - 1,
    past   <- [k \in 1 .. mem.size |-> mem.text[mem.com_hist[k]]],
    back   <- mem.index,
    draft  <- IF mem.index = 0 THEN <<>> ELSE mem.text[mem.com_hist[0]]

(* Bytes, blocks and slots do for the user what LineInput promises: every  *)
(* key does its work on the line, lines come back as they were entered,    *)
(* the last hist_max_size of them, and so does the draft.                  *)
ImplementsLineInput == Promise!Spec
=============================================================================
