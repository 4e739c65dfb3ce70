------------------------------ MODULE AgentLoop ------------------------------
(***************************************************************************)
(* The bounded observe-decide-act loop of the LLM agent                    *)
(* (services/agent_loop.py, domain/agent_run.py): what it remembers        *)
(* between its turns, when it stops, and what its end means for the task   *)
(* (_apply_agent_result in api/routes/tasks.py).                           *)
(***************************************************************************)
EXTENDS BrowserRunner

\* the commands the model can choose, by what the loop distinguishes
AgentCommands == {"click", "visual", "select", "fill", "fill_document", "move", "ask"}
                   \cup Finishes
LoopStatuses == {"going", "completed", "waiting_for_user", "no_match", "exhausted", "stalled"}

\* steps: the commands executed; repeated: how often the last one was chosen
NewLoop == [steps |-> <<>>, last |-> "none", repeated |-> 0, status |-> "going", reason |-> "none"]

\* two commands of one kind may still differ, in their target for instance
Repeated(loop, again) == IF again THEN loop.repeated + 1 ELSE 1

FinishStatus(c) ==
  CASE c = "finish_no_match" -> "no_match"
    [] c \in {"finish_ready", "finish_needs_user"} -> "waiting_for_user"
    [] OTHER -> "completed"

\* the status after a command that was executed
TurnStatus(loop, c, report, maxSteps) ==
  IF c \in Finishes THEN FinishStatus(c)
  ELSE IF c = "ask" \/ report.user THEN "waiting_for_user"
  ELSE IF Len(loop.steps) + 1 = maxSteps THEN "exhausted" ELSE "going"

\* One turn.  A command chosen too often in a row is not executed any more.  The
\* reason is kept for the ends that _agent_waiting_reason asks it of.
Turn(loop, c, again, report, limit, maxSteps) ==
  LET counted == [loop EXCEPT !.last = c, !.repeated = Repeated(loop, again)]
      status == TurnStatus(loop, c, report, maxSteps)
  IN IF counted.repeated >= limit THEN [counted EXCEPT !.status = "stalled"]
     ELSE [counted EXCEPT !.steps = Append(loop.steps, c), !.status = status,
                          !.reason = IF status = "waiting_for_user" THEN report.reason ELSE "none"]

\* merge_agent_loop_results: the last cap commands of all runs of the task
Merged(before, loop, cap) ==
  LET all == before \o loop.steps IN
  IF Len(all) <= cap THEN all ELSE SubSeq(all, Len(all) - cap + 1, Len(all))

\* _agent_waiting_reason; what it does not know needs a clarification
WaitingReason(reason) ==
  CASE reason = "sensitive_data_approval_required" -> "sensitive_data_approval_required"
    [] reason \in {"irreversible_click_requires_user", "finished_ready_for_user"}
         -> "confirmation_required"
    [] OTHER -> "clarification_required"

\* mutant: the loop's status is taken for the task's
MutTaskStatusAfter(loop, mode) == loop.status

\* _apply_agent_result: the status of the task after the loop
TaskStatusAfter(loop, mode) ==
  CASE loop.status \in {"completed", "waiting_for_user"} -> loop.status
    [] loop.status = "exhausted" /\ mode = "step_by_step" -> "ready"
    [] OTHER -> "failed"

\* _pending_agent_question
QuestionPending(run) == run # <<>> /\ run[Len(run)] = "ask"
=============================================================================
