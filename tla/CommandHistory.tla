--------------------------- MODULE CommandHistory ---------------------------
(***************************************************************************)
(* kernel/com_hist.c: the last lines, newest first, in slots 1 to size of  *)
(* com_hist; slot 0 is for the line that was being edited when the user    *)
(* began to look back.  M is the memory with the history's own variables.  *)
(***************************************************************************)
EXTENDS KernelMemory, SequencesExt

CONSTANTS
    Wild,           \* what slot 0 holds before it is ever written
    hist_max_size   \* slots for past lines

ASSUME WildIsNoBlock == Wild \notin Blocks
ASSUME HistoryHasRoom == hist_max_size \in Nat \ {0}

Slots == 0 .. hist_max_size

(***************************************************************************)
(* After boot: com_hist itself is allocated, and not cleared.              *)
(***************************************************************************)
initialize_comhist ==
    {[owner |-> [a \in Blocks |-> "free"], text |-> [a \in Blocks |-> NULL],
      com_hist |-> [k \in Slots |-> IF k = 0 THEN first ELSE NULL],
      size |-> 0, index |-> 0] : first \in {NULL, Wild}}

(***************************************************************************)
(* hist_set copies the line into a block of its own.  It does not look     *)
(* whether it got one: when the block is refused (Unsaved), it writes      *)
(* through the null pointer.                                               *)
(***************************************************************************)
hist_set(M, k, command) ==
    {[Taken(M, a, "history", command) EXCEPT !.com_hist[k] = a] : a \in Room(M)}

Unsaved(M, command) == MayRefuse(M, Len(command) + 1)

(***************************************************************************)
(* hist_add makes room in slot 1: a full history gives its oldest line     *)
(* back first.                                                             *)
(***************************************************************************)
Shifted(M) ==
    LET grown == IF M.size < hist_max_size THEN [M EXCEPT !.size = @ + 1]
                 ELSE sys_free_mem(M, M.com_hist[M.size])
    IN  [grown EXCEPT !.com_hist =
            [k \in Slots |-> IF k \in 2 .. grown.size THEN @[k - 1] ELSE @[k]]]

(* Mutant: the freed draft stays in slot 0. *)
AddKeepsDraft(M, command) == hist_set(Shifted(M), 1, command)

hist_add(M, command) ==
    {[new EXCEPT !.com_hist[0] = NULL] : new \in hist_set(Shifted(M), 1, command)}

hist_next(M) == [M EXCEPT !.index = IF @ < M.size THEN @ + 1 ELSE @]

hist_previous(M) == [M EXCEPT !.index = IF @ > 0 THEN @ - 1 ELSE @]

hist_index_set(M, k) == [M EXCEPT !.index = k]

Recalled(M) == M.com_hist[M.index]
=============================================================================
