----------------------------- MODULE MCFeatures -----------------------------
(***************************************************************************)
(* Instances of Features for TLC: four students; questions that may be     *)
(* unknown, listed twice or without a key; rows that are there twice.      *)
(***************************************************************************)
EXTENDS Features

Row(u, a, i, ans, ms, d, k) ==
  [user |-> u, action |-> a, item |-> i, answer |-> ans, elapsed |-> ms,
   date |-> d, copy |-> k]
Question(i, ans, p, k) == [id |-> i, answer |-> ans, part |-> p, copy |-> k]

MCInteractions ==
  { Row(1, "respond", "q1", "a", 1, 1, 0), Row(1, "respond", "q3", "a", 3, 1, 0),
    Row(1, "enter", "l1", Null, 1, 2, 0),
    Row(2, "respond", "q1", "a", Null, 1, 0), Row(2, "respond", "q1", "a", Null, 1, 1),
    Row(3, "enter", "l1", Null, 1, 1, 0), Row(3, "respond", "q2", "b", 1, 2, 0),
    Row(4, "respond", "q1", "b", 1, 1, 0), Row(4, "respond", "q2", Null, 2, 1, 0) }

MCQuestions ==
  { Question("q1", "a", 1, 0), Question("q1", "a", 1, 1), Question("q2", "b", 2, 0),
    Question("q3", Null, 3, 0) }
=============================================================================
