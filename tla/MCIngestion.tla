---------------------------- MODULE MCIngestion ----------------------------
(***************************************************************************)
(* Instances of Ingestion for TLC.  kt4 has two rows of two event dates,   *)
(* one of them null in a required column, so that its null ratio can be on *)
(* either side of the threshold (1/2 here instead of 1/20).                *)
(***************************************************************************)
EXTENDS Ingestion

Row(s, p, n) == [source |-> s, piece |-> p, nulls |-> n]

K1 == Row("kt4", "d1", {})
KN == Row("kt4", "d2", {"item_id"})
L1 == Row("lectures", "f1", {})
L2 == Row("lectures", "f2", {})
Q1 == Row("questions", "f1", {})

MCColumns == {"item_id", "lecture_id", "correct_answer", "email", "tags"}

MCRequired == [s \in Sources |->
  CASE s = "kt4" -> {"item_id"}
    [] s = "lectures" -> {"lecture_id"}
    [] s = "questions" -> {"correct_answer"}]

\* The deployed schemas: the one the sources have, and one under which lectures
\* have grown a column privacy.py flags, and one it does not, and questions have
\* lost a required column.
Plain  == MCRequired
Broken == [MCRequired EXCEPT !["lectures"] = {"lecture_id", "email", "tags"},
                             !["questions"] = {"tags"}]

MCRows    == {K1, KN, L1, L2, Q1}
MCSchemas == {Plain, Broken}
=============================================================================
