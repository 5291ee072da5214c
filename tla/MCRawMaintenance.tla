-------------------------- MODULE MCRawMaintenance --------------------------
(***************************************************************************)
(* Two dated partitions and the undated one of kt4, one unpartitioned      *)
(* target (questions is a second lectures), a retention of one day.        *)
(***************************************************************************)
EXTENDS RawMaintenance

CONSTANTS d0, d1, undated, content

MCTargets     == <<"kt4", "lectures">>
MCPieces      == {d0, d1, undated, content}
MCTargetOf    == [p \in MCPieces |-> IF p = content THEN "lectures" ELSE "kt4"]
MCPartitioned == {"kt4"}
MCDateOf      == [p \in {d0, d1} |-> IF p = d0 THEN 0 ELSE 1]
=============================================================================
