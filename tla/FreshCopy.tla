------------------------------ MODULE FreshCopy ------------------------------
(***************************************************************************)
(* What the player promises about everything it keeps a copy of: the truth *)
(* may change at any moment, the copy need not change with it, but from    *)
(* then on a refresh is owed, and it stays owed until a refresh has made   *)
(* the copy equal to the truth.                                            *)
(*                                                                         *)
(* Scheduler implements it with the rows for the truth and its queue for   *)
(* the copy; Library with all that handlers and syncs can do to the rows.  *)
(***************************************************************************)
VARIABLES
  truth,  \* what is committed
  copy,   \* what somebody works with
  owed    \* whether somebody is still bound to refresh the copy

vars == <<truth, copy, owed>>

Init == owed \/ copy = truth

(* The truth changes, for instance back to what the copy is.               *)
Change == owed' /\ UNCHANGED copy

(* A refresh reads and stores in steps between which the truth may change, *)
(* so that it may end with a stale copy: then another one is owed already. *)
Refresh == UNCHANGED truth /\ (owed' \/ copy' = truth)

Next == Change \/ Refresh

Spec == Init /\ [][Next]_vars

=============================================================================
