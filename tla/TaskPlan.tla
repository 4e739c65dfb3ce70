------------------------------ MODULE TaskPlan ------------------------------
(***************************************************************************)
(* What an agent task plans and what it may do alone: the permission       *)
(* policy (services/task_permission.py), the planner                       *)
(* (services/task_planner.py) and the choice of the next step with its     *)
(* approval (services/task_executor.py).  Pure definitions, used by        *)
(* AgentTasks and by its proofs.                                           *)
(***************************************************************************)
EXTENDS Naturals, Sequences

\* A policy is the set of its flags that are on.
Flags == {"navigation", "reading", "basic", "option", "review", "free_reservation",
          "ask_sensitive", "ask_cross_origin"}
DefaultPolicy == Flags \ {"free_reservation"}

Actions == {"navigate", "read_page", "fill_basic_profile", "fill_sensitive_profile",
            "select_option", "prepare_review", "create_free_reservation", "submit_order",
            "authenticate", "solve_captcha", "pay"}

\* A request names its action, whether it charges or can be undone, and the
\* origin of its target.
Requests == [action : Actions, charges : BOOLEAN, reversible : BOOLEAN,
             origin : {"none", "invalid", "same", "other"}]

Reasons == {"authentication_required", "captcha_required", "confirmation_required",
            "payment_required", "sensitive_data_approval_required", "clarification_required"}

Allowed == [verdict |-> "allowed", reason |-> "allowed"]
Denied == [verdict |-> "denied", reason |-> "denied"]
User(reason) == [verdict |-> "user", reason |-> reason]

\* the flag that lets an action go ahead; without it the action is denied
FlagOf == [read_page |-> "reading", fill_basic_profile |-> "basic",
           select_option |-> "option", prepare_review |-> "review"]

\* mutant: the order is submitted like any other step
MutDecide(policy, r) ==
  CASE r.action = "pay" \/ r.charges -> User("payment_required")
    [] r.action = "fill_sensitive_profile" /\ "ask_sensitive" \in policy
         -> User("sensitive_data_approval_required")
    [] OTHER -> Allowed

\* evaluate_browser_action: the first rule that applies decides
Decide(policy, r) ==
  CASE r.action = "pay" \/ r.charges -> User("payment_required")
    [] r.action = "solve_captcha" -> User("captcha_required")
    [] r.action = "authenticate" -> User("authentication_required")
    [] r.action = "submit_order" \/ ~r.reversible -> User("confirmation_required")
    [] r.action = "fill_sensitive_profile" ->
         IF "ask_sensitive" \in policy THEN User("sensitive_data_approval_required") ELSE Allowed
    [] r.action = "navigate" ->
         IF "navigation" \notin policy \/ r.origin \in {"none", "invalid"} THEN Denied
         ELSE IF r.origin = "other" /\ "ask_cross_origin" \in policy
              THEN User("confirmation_required") ELSE Allowed
    [] r.action \in DOMAIN FlagOf -> IF FlagOf[r.action] \in policy THEN Allowed ELSE Denied
    [] r.action = "create_free_reservation" ->
         IF "free_reservation" \in policy THEN Allowed ELSE User("confirmation_required")

-----------------------------------------------------------------------------
(* The planner                                                              *)

Kinds == {"train_ticket", "flight_ticket", "hotel", "theatre_ticket", "cinema_ticket",
          "generic_purchase"}
BasicProfileKinds == {"train_ticket", "flight_ticket", "hotel"}
DocumentKinds == {"train_ticket", "flight_ticket"}

\* step_id of a plan's steps, and the action of each
ActionOf == [open_target |-> "navigate", inspect_page |-> "read_page",
             fill_people |-> "fill_basic_profile", fill_documents |-> "fill_sensitive_profile",
             choose_option |-> "select_option", open_review |-> "prepare_review",
             prepare_order |-> "submit_order"]
StepIds == DOMAIN ActionOf

\* TaskPlanStep.to_action_request: plans navigate to the task's own target
Request(step) ==
  [action |-> ActionOf[step], charges |-> FALSE, reversible |-> step # "prepare_order",
   origin |-> IF step = "open_target" THEN "same" ELSE "none"]

PlanSteps(kind) ==
  <<"open_target", "inspect_page">>
    \o (IF kind \in BasicProfileKinds THEN <<"fill_people">> ELSE <<>>)
    \o (IF kind \in DocumentKinds THEN <<"fill_documents">> ELSE <<>>)
    \o <<"choose_option", "open_review", "prepare_order">>

-----------------------------------------------------------------------------
(* Journal and approvals                                                    *)

Outcomes == {"started", "succeeded", "blocked", "failed"}
Entry(step, outcome, reason) == [step |-> step, outcome |-> outcome, reason |-> reason]
Approval(plan, step, reason) == [plan |-> plan, step |-> step, reason |-> reason, used |-> FALSE]

Succeeded(journal) ==
  {journal[i].step : i \in {j \in 1..Len(journal) : journal[j].outcome = "succeeded"}}

\* mutant: a step that was attempted is not attempted again
MutRemaining(t) ==
  {k \in 1..Len(PlanSteps(t.kind)) : \A i \in 1..Len(t.journal) :
     t.journal[i].step = PlanSteps(t.kind)[k] => t.journal[i].outcome = "blocked"}

\* the places of the steps a task still has to run
Remaining(t) ==
  {k \in 1..Len(PlanSteps(t.kind)) : PlanSteps(t.kind)[k] \notin Succeeded(t.journal)}

\* the approvals execute_task_plan may use for a step
Matching(t, step, reason) ==
  {i \in 1..Len(t.approvals) :
     /\ t.approvals[i].plan = t.plan /\ t.approvals[i].step = step
     /\ t.approvals[i].reason = reason /\ ~t.approvals[i].used}
=============================================================================
