------------------------ MODULE MissionStateMachine ------------------------
(* The status table of a Mission and the transitions it allows: the pure   *)
(* part of services/mission_state_machine.py.  The statuses a run passes   *)
(* through in memory only (running, searching, option_found, reserving)    *)
(* are transient: run_mission writes the row back in none of them.         *)
EXTENDS Integers

\* an absent timestamp (None)
NoTime == -1

Statuses == {"created", "waiting", "paused", "processing", "running",
             "searching", "option_found", "reserving",
             "requires_confirmation", "completed", "failed", "cancelled",
             "expired"}

TransientStatuses == {"running", "searching", "option_found", "reserving"}

PersistedStatuses == Statuses \ TransientStatuses

TerminalStatuses == {"completed", "cancelled", "expired"}

\* mission_expiration.EXPIRABLE_STATUSES; scheduling, PATCH, provider
\* selection and cancellation test for the same three statuses
ExpirableStatuses == {"created", "waiting", "paused"}

AllowedTransitions ==
  [s \in Statuses |->
     CASE s = "created" -> {"waiting", "paused", "running", "cancelled", "expired"}
       [] s = "waiting" -> {"created", "paused", "processing", "running",
                            "cancelled", "expired"}
       [] s = "paused" -> {"created", "waiting", "cancelled", "expired"}
       [] s = "processing" -> {"requires_confirmation", "completed", "failed"}
       [] s = "running" -> {"searching", "failed"}
       [] s = "searching" -> {"option_found", "failed"}
       [] s = "option_found" -> {"reserving", "completed", "failed"}
       [] s = "reserving" -> {"requires_confirmation", "completed", "failed"}
       [] s = "requires_confirmation" -> {"completed", "failed", "cancelled"}
       [] OTHER -> {}]

\* can_transition: two edges exist only under their own keyword argument
CanTransition(current, target, recovery, retry) ==
  IF current = "processing" /\ target = "waiting" THEN recovery
  ELSE IF current = "failed" /\ target = "waiting" THEN retry
  ELSE target \in AllowedTransitions[current]

\* mutant: the claim stamp is left on the row
MutTransition(row, target) == [row EXCEPT !.status = target]

\* transition: every edge the program takes clears the claim stamp; claim_due
\* takes the one edge that sets it (waiting -> processing) on the row itself
Transition(row, target) ==
  [row EXCEPT !.status = target, !.claimedAt = NoTime]

-----------------------------------------------------------------------------
\* The persisted statuses a run started from "running" can end in.
RunOutcomes ==
  (UNION {AllowedTransitions[s] : s \in TransientStatuses}) \ TransientStatuses

(* One committed change of status as the table allows it: an edge between *)
(* persisted statuses, a whole run, a retry, a recovery.                   *)
PersistedSteps(current) ==
  (AllowedTransitions[current] \ TransientStatuses)
    \cup (IF "running" \in AllowedTransitions[current] THEN RunOutcomes ELSE {})
    \cup {t \in {"waiting"} : CanTransition(current, t, TRUE, TRUE)}
=============================================================================
