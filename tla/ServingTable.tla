---------------------------- MODULE ServingTable ----------------------------
(***************************************************************************)
(* What recommendation_loader/README.md promises of a load: `initial` is a *)
(* full refresh, `daily` an idempotent upsert.  A load shows either its    *)
(* whole effect on the table or none, and none of its intermediate states  *)
(* is ever visible to the API.                                             *)
(***************************************************************************)
CONSTANTS
  Keys,      \* (user_id, recommended_user_id, generation_date)
  Scores,    \* similarity_score
  NoScore    \* what a table holds at a key that has no row

\* A table maps some of the keys to a score.
Tables  == [Keys -> Scores \cup {NoScore}]

VARIABLES
  table,     \* the committed contents
  dataset,   \* the rows the current load is given
  mode,      \* "initial" or "daily"
  loading    \* whether a load is under way

vars == <<table, dataset, mode, loading>>

Empty == [k \in Keys |-> NoScore]

\* The contents after a load of rows that has come to its end.
Upserted(contents, rows) ==
  [k \in Keys |-> IF rows[k] = NoScore THEN contents[k] ELSE rows[k]]
Loaded(contents, m, rows) ==
  IF m = "initial" THEN rows ELSE Upserted(contents, rows)

Init == table = Empty /\ dataset = Empty /\ mode = "initial" /\ ~loading

Begin(m, rows) ==
  /\ ~loading
  /\ loading' = TRUE
  /\ mode' = m
  /\ dataset' = rows
  /\ UNCHANGED table

Commit ==
  /\ loading
  /\ loading' = FALSE
  /\ table' = Loaded(table, mode, dataset)
  /\ UNCHANGED <<dataset, mode>>

Abort ==
  /\ loading
  /\ loading' = FALSE
  /\ UNCHANGED <<table, dataset, mode>>

Next ==
  \/ \E m \in {"initial", "daily"}, rows \in Tables : Begin(m, rows)
  \/ Commit
  \/ Abort

Spec == Init /\ [][Next]_vars
=============================================================================
