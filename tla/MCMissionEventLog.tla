--------------------------- MODULE MCMissionEventLog ---------------------------
(* Values of MissionEventLog's constants for TLC. *)
EXTENDS MissionEventLog

CONSTANTS m1, m2, w1, w2, r1, r2, c1

\* what the migrations found: nothing, or two events of the old schemas
OldLogs == {<<>>, <<"provider", "plain">>}
=============================================================================
