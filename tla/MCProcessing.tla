---------------------------- MODULE MCProcessing ----------------------------
(***************************************************************************)
(* Instances of Processing for TLC: two students, one of whom is active on *)
(* the second day only in the last of the files, and the questions file.   *)
(***************************************************************************)
EXTENDS Processing

File(s, u, d) == [source |-> s, user |-> u, date |-> d]

MCFiles == { File("kt4", "u1", 0), File("kt4", "u2", 0), File("kt4", "u2", 1),
             File("questions", "", 0) }
=============================================================================
