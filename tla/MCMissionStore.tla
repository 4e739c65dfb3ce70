---------------------------- MODULE MCMissionStore ----------------------------
(* Values of MissionStore's constants for TLC. *)
EXTENDS MissionStore, TLC

CONSTANTS m1, m2, s1, s2, w1, w2

NeverExpires == [m \in Missions |-> NoTime]
ExpiresAt1 == [m \in Missions |-> 1]
Delays == [n \in 1..MaxAttempts |-> n]

AllSessions == Permutations(Sessions)
=============================================================================
