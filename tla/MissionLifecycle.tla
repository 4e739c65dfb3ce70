-------------------------- MODULE MissionLifecycle --------------------------
(* What the Mission store promises of statuses, whoever writes them: every *)
(* committed change of a Mission's status is a step of the status table.   *)
(* completed, cancelled and expired are never left; failed only by a retry.*)
EXTENDS MissionStateMachine

CONSTANT Missions

VARIABLE status

LifecycleTypeOK == status \in [Missions -> PersistedStatuses]

\* schemas/mission.py to_domain: waiting when a start time was given
Init == status \in [Missions -> {"created", "waiting"}]

\* one transaction of a worker commits several Missions at once
Next ==
  /\ status' \in [Missions -> PersistedStatuses]
  /\ \A m \in Missions :
       status'[m] = status[m] \/ status'[m] \in PersistedSteps(status[m])

Spec == Init /\ [][Next]_status
=============================================================================
