--------------------------- MODULE MCSourceFiles ---------------------------
(***************************************************************************)
(* One directory of two files and one single-file source (questions is a   *)
(* second lectures).                                                       *)
(***************************************************************************)
EXTENDS SourceFiles

CONSTANTS u1, u2, lecturesCsv

MCOrder       == <<"kt4", "lectures">>
MCFilesOf     == [s \in {"kt4", "lectures"} |->
                    IF s = "kt4" THEN {u1, u2} ELSE {lecturesCsv}]
MCDirectories == {"kt4"}
=============================================================================
