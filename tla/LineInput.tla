----------------------------- MODULE LineInput -----------------------------
(***************************************************************************)
(* What the user may expect of a line that is typed: each key does to the  *)
(* line what is printed on it, Up and Down walk the last lines without     *)
(* wrapping around, newest first, and coming back gives the draft back.    *)
(* With nothing to come back to, Down may show anything.                   *)
(***************************************************************************)
EXTENDS Integers, Sequences, SequencesExt

CONSTANTS
    Letters,    \* what can be typed
    Limits,     \* how long a line may be
    Keep        \* how many past lines are kept

VARIABLES
    line, cursor,   \* the line and how many letters are left of the cursor
    limit,          \* the longest line now
    past,           \* the last lines, newest first
    back,           \* how many lines the user has gone back
    draft           \* the line to come back to

vars == <<line, cursor, limit, past, back, draft>>

Init ==
    /\ line = <<>> /\ cursor = 0 /\ limit \in Limits
    /\ past = <<>> /\ back = 0 /\ draft = <<>>

Edit(new, k) ==
    /\ line' = new /\ cursor' = k
    /\ UNCHANGED <<limit, past, back, draft>>

Type(c)   == Len(line) < limit /\ Edit(InsertAt(line, cursor + 1, c), cursor + 1)
Backspace == cursor > 0 /\ Edit(RemoveAt(line, cursor), cursor - 1)
Delete    == cursor < Len(line) /\ Edit(RemoveAt(line, cursor + 1), cursor)
Move      == \E k \in {cursor - 1, cursor + 1, 0, Len(line)} \cap (0 .. Len(line)) :
                Edit(line, k)

Shows(new) == line' = new /\ cursor' = Len(new)

Up ==
    /\ back' = IF back < Len(past) THEN back + 1 ELSE back
    /\ Shows(IF past = <<>> THEN line ELSE past[back'])
    /\ draft' = IF past = <<>> \/ back > 0 THEN draft ELSE line
    /\ UNCHANGED <<limit, past>>

Down ==
    /\ \/ /\ back > 0
          /\ back' = back - 1
          /\ Shows(IF back = 1 THEN draft ELSE past[back - 1])
       \/ /\ back = 0
          /\ UNCHANGED back
          /\ \E n \in 0 .. limit : \E new \in [1 .. n -> Letters] : Shows(new)
    /\ draft' = IF back' = 0 THEN <<>> ELSE draft
    /\ UNCHANGED <<limit, past>>

Enter ==
    /\ past' = IF line = <<>> THEN past
               ELSE SubSeq(<<line>> \o past, 1, IF Len(past) < Keep THEN Len(past) + 1 ELSE Keep)
    /\ line' = <<>> /\ cursor' = 0
    /\ back' = 0 /\ draft' = <<>>
    /\ limit' \in Limits

Next == (\E c \in Letters : Type(c)) \/ Backspace \/ Delete \/ Move \/ Up \/ Down \/ Enter

Spec == Init /\ [][Next]_vars
=============================================================================
