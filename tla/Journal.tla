------------------------------ MODULE Journal ------------------------------
(***************************************************************************)
(* The progress table of the resumable journal (journal.rs).  The table is *)
(* a function from <<job, stage>> to a row; a row that was never inserted  *)
(* is NoRow, so that every statement of the journal is an operator on one  *)
(* row.  Error texts are abstracted to their presence.                     *)
(***************************************************************************)
EXTENDS Naturals

\* The stages a job goes through.  The daemon at this commit only runs
\* "extract" and "index"; the other two exist in the enum alone.
Stage == {"download", "extract", "index", "verify"}

Row == [present: BOOLEAN, position: Nat, total: Nat, done: BOOLEAN, error: BOOLEAN]

NoRow == [present |-> FALSE, position |-> 0, total |-> 0, done |-> FALSE, error |-> FALSE]

\* INSERT ... ON CONFLICT DO UPDATE SET position, total, error = NULL.
\* `done` is not in the SET list: a conflicting row keeps it.
Marked(row, position, total) ==
    [row EXCEPT !.present = TRUE, !.position = position, !.total = total, !.error = FALSE]

\* ON CONFLICT DO UPDATE SET done = 1, error = NULL: the position stays.
Completed(row) == [row EXCEPT !.present = TRUE, !.done = TRUE, !.error = FALSE]

\* ON CONFLICT DO UPDATE SET error, done = 0: the resume point stays.
Failed(row) == [row EXCEPT !.present = TRUE, !.done = FALSE, !.error = TRUE]

IsComplete(row) == row.done
LastError(row) == row.error

\* What the dashboard calls a quiet row: finished or failed (`j.done || j.error`).
Quiet(row) == row.done \/ row.error

\* The rows of a table, as the progress stream reads them.
AllProgress(table) == {<<k, table[k]>> : k \in {key \in DOMAIN table : table[key].present}}
=============================================================================
