----------------------------- MODULE AgentTasks -----------------------------
(***************************************************************************)
(* One agent task and the requests that work on it (api/routes/tasks.py,   *)
(* services/task_executor.py, repositories/sqlalchemy/task.py).            *)
(*                                                                         *)
(* Every request reads the row, computes a changed copy and writes it back *)
(* with UPDATE ... WHERE version = <the version read>.  An execution works *)
(* on its copy for as long as the browser takes, so other requests commit  *)
(* in between; nothing of it is stored before its one final update.        *)
(***************************************************************************)
EXTENDS AgentLoop, FiniteSets

CONSTANTS
  Sessions,          \* concurrent requests
  TaskKinds,         \* kinds of purchase, a subset of Kinds
  Policies,          \* permission policies of the task, sets of Flags
  Modes,             \* control modes
  Llm,               \* values of settings.agent_llm_enabled
  SharedBrowser,     \* TRUE: one visible browser (browser_cdp_url), else one per run
  SharedTab,         \* the tab of the visible browser
  Chosen,            \* commands the model may choose, a subset of AgentCommands
  MaxSteps,          \* settings.agent_llm_max_steps
  RepeatLimit,       \* repeated_command_limit of run_agent_loop
  RunCap,            \* max_steps of merge_agent_loop_results
  MaxClarifications, \* max_length of AgentTask.clarifications
  MaxVersion         \* bound on the updates of the task

ASSUME ConstantsAssumption ==
  /\ TaskKinds \subseteq Kinds /\ TaskKinds # {}
  /\ Policies \subseteq SUBSET Flags
  /\ Modes \subseteq {"plan_only", "step_by_step", "safe_auto"}
  /\ Llm \subseteq BOOLEAN /\ SharedBrowser \in BOOLEAN /\ SharedTab \notin Sessions
  /\ Chosen \subseteq AgentCommands
  /\ MaxSteps \in Nat \ {0} /\ RepeatLimit \in Nat \ {0, 1} /\ RunCap \in Nat \ {0}
  /\ MaxClarifications \in Nat /\ MaxVersion \in Nat

VARIABLES
  task,    \* the committed row
  req,     \* what each session is doing, and the copy it works on
  tab,     \* the page of each session's browser, or of the shared one
  asked    \* history: questions of the agent that were committed

vars == <<task, req, tab, asked>>

Statuses == {"draft", "ready", "running", "monitoring", "waiting_for_user", "prepared",
             "completed", "failed", "paused", "cancelled"}
StepReasons == Reasons \cup {"allowed", "denied", "user_approved", "done", "failed",
                             "review_action_not_available"}
Entries == [step : StepIds, outcome : Outcomes, reason : StepReasons]
Approvals == [plan : Nat, step : StepIds, reason : Reasons, used : BOOLEAN]

\* plan is the version of the plan, 0 for none; run holds the commands of
\* agent_run; clar counts the clarifications; mode, kind, policy and llm do not
\* change after the creation.
Tasks == [version : Nat, status : Statuses, waiting : Reasons \cup {"none"}, plan : Nat,
          journal : Seq(Entries), approvals : Seq(Approvals),
          snapshot : Urls \cup {"none"}, fill : Urls \cup {"none"},
          run : Seq(AgentCommands), clar : Nat,
          mode : {"plan_only", "step_by_step", "safe_auto"}, kind : Kinds,
          policy : SUBSET Flags, llm : BOOLEAN]

\* create_task
NewTask(mode, kind, policy, llm) ==
  [version |-> 0, status |-> "ready", waiting |-> "none", plan |-> 0, journal |-> <<>>,
   approvals |-> <<>>, snapshot |-> "none", fill |-> "none", run |-> <<>>, clar |-> 0,
   mode |-> mode, kind |-> kind, policy |-> policy, llm |-> llm]

Idle(t) == [pc |-> "idle", kind |-> "none", copy |-> t, loop |-> NewLoop]

\* Requests that do not run are all alike, whatever their copy was.
NoCopy == NewTask("plan_only", "generic_purchase", {}, FALSE)

Init ==
  /\ \E mode \in Modes, kind \in TaskKinds, policy \in Policies, llm \in Llm :
       task = NewTask(mode, kind, policy, llm)
  /\ req = [s \in Sessions |-> Idle(NoCopy)]
  /\ tab = [b \in Sessions \cup {SharedTab} |-> NewTab]
  /\ asked = 0

\* agent_task_from_model validates what it reads; nothing is validated before.
Readable(t) == t.clar <= MaxClarifications

\* get: the row a session starts from
Reads(s) == req[s].pc = "idle" /\ Readable(task) /\ task.version < MaxVersion

Writes(s, kind, copy) == [req EXCEPT ![s] = [pc |-> "update", kind |-> kind, copy |-> copy,
                                             loop |-> NewLoop]]
WithStatus(t, status) == [t EXCEPT !.status = status, !.waiting = "none"]

-----------------------------------------------------------------------------
(* Short requests: read, check, change the copy                             *)

\* prepare_task_plan: a new version of the plan starts from an empty record
Plan(s) ==
  /\ Reads(s)
  /\ task.status \notin {"running", "completed", "cancelled"}
  /\ req' = Writes(s, "plan", [WithStatus(task, "ready") EXCEPT
                                 !.plan = task.plan + 1, !.journal = <<>>, !.approvals = <<>>,
                                 !.snapshot = "none", !.fill = "none"])
  /\ UNCHANGED <<task, tab, asked>>

\* map_task_page does not look at the status
MapPage(s) ==
  /\ Reads(s)
  /\ task.snapshot # "none"
  /\ req' = Writes(s, "map_page", [task EXCEPT !.fill = task.snapshot])
  /\ UNCHANGED <<task, tab, asked>>

\* the step the journal ends with is blocked, for the reason the task waits for,
\* and it has no approval left
Approvable(t) ==
  /\ t.status = "waiting_for_user" /\ t.plan > 0 /\ t.journal # <<>>
  /\ LET last == t.journal[Len(t.journal)] IN
     /\ last.outcome = "blocked" /\ last.reason = t.waiting
     /\ \A i \in 1..Len(t.approvals) :
          t.approvals[i].step = last.step => t.approvals[i].used

\* approve_task_step
Approve(s) ==
  /\ Reads(s) /\ Approvable(task)
  /\ LET last == task.journal[Len(task.journal)] IN
     req' = Writes(s, "approve", [WithStatus(task, "ready") EXCEPT
              !.approvals = Append(task.approvals, Approval(task.plan, last.step, last.reason))])
  /\ UNCHANGED <<task, tab, asked>>

\* mutant: the task may have gone on since it asked
MutClarifiable(t) == QuestionPending(t.run)

Clarifiable(t) ==
  /\ t.status = "waiting_for_user" /\ t.waiting = "clarification_required"
  /\ QuestionPending(t.run)

\* clarify_agent_task: nothing counts the clarifications
Clarify(s) ==
  /\ Reads(s) /\ Clarifiable(task)
  /\ req' = Writes(s, "clarify", [WithStatus(task, "ready") EXCEPT !.clar = task.clar + 1])
  /\ UNCHANGED <<task, tab, asked>>

\* pause_task
Pause(s) ==
  /\ Reads(s) /\ task.status \notin {"completed", "cancelled", "paused"}
  /\ req' = Writes(s, "pause", WithStatus(task, "paused"))
  /\ UNCHANGED <<task, tab, asked>>

\* resume_task
Resume(s) ==
  /\ Reads(s) /\ task.status \in {"paused", "failed", "monitoring", "waiting_for_user"}
  /\ req' = Writes(s, "resume", WithStatus(task, "ready"))
  /\ UNCHANGED <<task, tab, asked>>

\* cancel_task writes nothing when the task is cancelled already
Cancel(s) ==
  /\ Reads(s) /\ task.status \notin {"completed", "cancelled"}
  /\ req' = Writes(s, "cancel", WithStatus(task, "cancelled"))
  /\ UNCHANGED <<task, tab, asked>>

\* mutant: the version read is not compared
MutUpdate(s) ==
  /\ req[s].pc = "update"
  /\ task' = [req[s].copy EXCEPT !.version = task.version + 1]
  /\ asked' = asked
  /\ req' = [req EXCEPT ![s] = Idle(NoCopy)]
  /\ UNCHANGED tab

\* update: one UPDATE ... WHERE version = expected, then the commit.  A lost
\* race is a 409 and changes nothing.
Update(s) ==
  /\ req[s].pc = "update"
  /\ LET copy == req[s].copy IN
     \/ /\ copy.version = task.version
        /\ task' = [copy EXCEPT !.version = task.version + 1]
        /\ asked' = asked + IF req[s].kind = "execute" /\ Clarifiable(copy) THEN 1 ELSE 0
     \/ /\ copy.version # task.version
        /\ UNCHANGED <<task, asked>>
  /\ req' = [req EXCEPT ![s] = Idle(NoCopy)]
  /\ UNCHANGED tab

-----------------------------------------------------------------------------
(* Executions                                                               *)

\* what the user does in the browser is over when they ask to go on
UserActs == {"authentication_required", "captcha_required", "confirmation_required",
             "payment_required"}
Taken(t) ==
  IF t.status = "waiting_for_user" /\ t.waiting \in UserActs THEN WithStatus(t, "ready") ELSE t

TabOf(s) == IF SharedBrowser THEN SharedTab ELSE s

\* __aexit__ closes an isolated browser, a visible one stays as it is
Left(s, page) == [tab EXCEPT ![TabOf(s)] = IF SharedBrowser THEN page ELSE NewTab]

\* execute_task: a plan, or the model, drives a browser; an isolated browser is new
Execute(s) ==
  LET t == Taken(task) IN
  /\ Reads(s)
  /\ t.mode # "plan_only" /\ t.status = "ready"
  /\ t.llm \/ t.plan > 0
  /\ req' = [req EXCEPT ![s] =
       [pc |-> IF t.llm THEN "loop" ELSE "step", kind |-> "execute", loop |-> NewLoop,
        copy |-> IF t.llm THEN t ELSE WithStatus(t, "running")]]
  /\ UNCHANGED <<task, tab, asked>>

Journaled(t, step, outcome, reason) ==
  [t EXCEPT !.journal = Append(t.journal, Entry(step, outcome, reason))]

\* mutant: an approval is not marked when it is used
MutConsumed(t, ms) == t

\* the approval that lets a step start is consumed
Consumed(t, ms) ==
  IF ms = {} THEN t
  ELSE [t EXCEPT !.approvals[CHOOSE i \in ms : TRUE].used = TRUE]

\* mutant: the fill plan of the page before is kept
MutRecorded(t, step, r) ==
  Journaled([t EXCEPT !.snapshot = IF r.snap = "none" THEN t.snapshot ELSE r.snap,
                      !.fill = IF r.fill = "none" THEN t.fill ELSE r.fill],
            step, IF r.ok THEN "succeeded" ELSE "failed", r.reason)

\* what the copy keeps of a step's result: a new snapshot drops the fill plan
Recorded(t, step, r) ==
  LET seen == IF r.snap = "none" THEN t ELSE [t EXCEPT !.snapshot = r.snap, !.fill = "none"]
      mapped == IF r.fill = "none" THEN seen ELSE [seen EXCEPT !.fill = r.fill]
  IN Journaled(mapped, step, IF r.ok THEN "succeeded" ELSE "failed", r.reason)

\* the status after a step, "running" to go on with the next one
StatusAfter(t, r) ==
  IF ~r.ok THEN IF r.reason = "review_action_not_available" THEN "monitoring" ELSE "failed"
  ELSE IF t.mode = "step_by_step" THEN "ready" ELSE "running"

\* the next step of the same execution, or its end
Stepped(s, t, page) ==
  IF t.status = "running"
  THEN req' = [req EXCEPT ![s].copy = t] /\ tab' = [tab EXCEPT ![TabOf(s)] = page]
  ELSE req' = Writes(s, "execute", t) /\ tab' = Left(s, page)

\* The next step of the copy's plan.  There always is one: the runner implements
\* no submit_order, so prepare_order never succeeds and no plan is ever prepared.
NextStep(t) ==
  PlanSteps(t.kind)[CHOOSE k \in Remaining(t) : \A other \in Remaining(t) : k <= other]
DecisionOn(t) == Decide(t.policy, Request(NextStep(t)))
Usable(t) == Matching(t, NextStep(t), DecisionOn(t).reason)

\* execute_task_plan stops before what the user has not approved
Block(s) ==
  LET t == req[s].copy
      reason == DecisionOn(t).reason
  IN
  /\ req[s].pc = "step"
  /\ DecisionOn(t).verdict = "user" /\ Usable(t) = {}
  /\ Stepped(s, [Journaled(t, NextStep(t), "blocked", reason) EXCEPT
                   !.status = "waiting_for_user", !.waiting = reason], tab[TabOf(s)])
  /\ UNCHANGED <<task, asked>>

\* and fails at what the policy denies
Deny(s) ==
  LET t == req[s].copy IN
  /\ req[s].pc = "step"
  /\ DecisionOn(t).verdict = "denied"
  /\ Stepped(s, [Journaled(t, NextStep(t), "failed", "denied") EXCEPT !.status = "failed"],
             tab[TabOf(s)])
  /\ UNCHANGED <<task, asked>>

\* and runs every other step in the browser
RunStep(s) ==
  LET t == req[s].copy
      d == DecisionOn(t)
      step == NextStep(t)
      approved == d.verdict = "user"
      started == Journaled(Consumed(t, Usable(t)), step, "started",
                           IF approved THEN "user_approved" ELSE d.reason)
  IN
  /\ req[s].pc = "step"
  /\ d.verdict = "allowed" \/ (approved /\ Usable(t) # {})
  /\ \E r \in StepResults(t, step, tab[TabOf(s)]) :
       Stepped(s, [Recorded(started, step, r) EXCEPT !.status = StatusAfter(t, r)], r.tab)
  /\ UNCHANGED <<task, asked>>

\* _apply_agent_result; the copy's snapshot is the last one the loop has seen
Applied(t, loop) ==
  LET status == TaskStatusAfter(loop, t.mode) IN
  [t EXCEPT !.status = status,
            !.waiting = IF status = "waiting_for_user" THEN WaitingReason(loop.reason) ELSE "none",
            !.fill = "none", !.run = Merged(t.run, loop, RunCap)]

\* run_agent_loop, one turn: observe before the first one, let the model choose,
\* execute.  The choice that makes the loop stall is not executed.
LoopTurn(s) ==
  /\ req[s].pc = "loop"
  /\ LET t == req[s].copy
         b == TabOf(s)
         page == IF req[s].loop = NewLoop THEN Observed(t, tab[b]) ELSE tab[b]
         first == IF req[s].loop = NewLoop THEN page.url ELSE t.snapshot
         turns == IF t.mode = "step_by_step" THEN 1 ELSE MaxSteps
     IN \E c \in Chosen, again \in BOOLEAN : \E report \in CommandReports(c) :
          LET loop == Turn(req[s].loop, c, again, report, RepeatLimit, turns)
              acted == loop.status # "stalled"
              moved == acted /\ report.page \in {"moved", "lost"}
          IN /\ again => c = req[s].loop.last
             /\ \E after \in IF moved THEN {Goto(u) : u \in Urls} ELSE {page} :
               LET seen == [t EXCEPT !.snapshot =
                              IF acted /\ report.page \in {"same", "moved"} THEN after.url ELSE first]
               IN IF loop.status = "going"
                  THEN /\ req' = [req EXCEPT ![s].loop = loop, ![s].copy = seen]
                       /\ tab' = [tab EXCEPT ![b] = after]
                  ELSE /\ req' = Writes(s, "execute", Applied(seen, loop))
                       /\ tab' = Left(s, after)
  /\ UNCHANGED <<task, asked>>

\* The browser or the model fails, or the API process dies: nothing is stored,
\* whatever was done in the browser.
Abandon(s) ==
  /\ req[s].pc \in {"step", "loop", "update"}
  /\ req' = [req EXCEPT ![s] = Idle(NoCopy)]
  /\ tab' = Left(s, tab[TabOf(s)])
  /\ UNCHANGED <<task, asked>>

Next ==
  \E s \in Sessions :
    \/ Plan(s) \/ MapPage(s) \/ Approve(s) \/ Clarify(s)
    \/ Pause(s) \/ Resume(s) \/ Cancel(s)
    \/ Execute(s) \/ Block(s) \/ Deny(s) \/ RunStep(s) \/ LoopTurn(s)
    \/ Update(s) \/ Abandon(s)

Spec == Init /\ [][Next]_vars

-----------------------------------------------------------------------------
(* Properties                                                               *)

\* Every status an execution can end in is one the task can be stored with
\* (TaskStatus), in the row and in the copies that are still to be written.
TypeOK ==
  /\ task \in Tasks
  /\ \A s \in Sessions :
       /\ req[s].pc \in {"idle", "step", "loop", "update"}
       /\ req[s].copy \in Tasks
       /\ req[s].loop.steps \in Seq(AgentCommands) /\ req[s].loop.status \in LoopStatuses
  /\ tab \in [Sessions \cup {SharedTab} -> Tabs]
  /\ asked \in Nat

\* What model_copy does not validate (domain/task.py) holds all the same for
\* every row that is stored: it can be read back, and no execution that died
\* left it running, a status no request could take it out of.
RowIsCoherent ==
  /\ (task.status = "waiting_for_user") = (task.waiting # "none")
  /\ task.status \notin {"running", "draft"}
  /\ task.journal # <<>> \/ task.approvals # <<>> => task.plan > 0
  /\ task.fill \in {"none", task.snapshot}
  /\ \A i, j \in 1..Len(task.approvals) :
       /\ task.approvals[i].plan = task.plan
       /\ i # j /\ task.approvals[i].step = task.approvals[j].step
            => task.approvals[i].used \/ task.approvals[j].used

\* the rows that are stored and the copies executions still work on
Copies == {task} \cup {req[s].copy : s \in Sessions}

\* However often a task fails, is resumed and is executed again, by requests
\* that race: a step is attempted only after every earlier step of the plan has
\* succeeded, succeeds once, and every attempt is closed by its outcome.
JournalFollowsPlan ==
  \A t \in Copies :
    LET steps == PlanSteps(t.kind)
        J == t.journal
    IN \A i \in 1..Len(J) : \A k \in 1..Len(steps) :
         J[i].step = steps[k] =>
           /\ \A before \in 1..(k - 1) :
                \E j \in 1..(i - 1) : J[j].step = steps[before] /\ J[j].outcome = "succeeded"
           /\ \A j \in 1..(i - 1) : J[j].outcome = "succeeded" => J[j].step # J[i].step
           /\ J[i].outcome = "started" /\ i < Len(J) =>
                J[i + 1].step = J[i].step /\ J[i + 1].outcome \in {"succeeded", "failed"}

\* the steps README.md leaves to the user: irreversible ones, and documents
\* unless the policy gives them free
LeftToUser(t, step) ==
  step = "prepare_order" \/ (step = "fill_documents" /\ "ask_sensitive" \in t.policy)

\* Approved(t, step): the user approved the step in this version of the plan, and
\* the approval was taken
Approved(t, step) ==
  \E a \in 1..Len(t.approvals) : t.approvals[a].step = step /\ t.approvals[a].used

\* No step that is left to the user is started, stored or not, without an
\* approval of it, and no document is in a form of the running browsers without
\* one, whatever became of the execution's update.
NothingUnasked ==
  /\ \A t \in Copies : \A i \in 1..Len(t.journal) :
       t.journal[i].outcome = "started" /\ LeftToUser(t, t.journal[i].step) =>
         t.journal[i].reason = "user_approved" /\ Approved(t, t.journal[i].step)
  /\ \A s \in Sessions :
       LET t == req[s].copy IN
       req[s].pc = "step" /\ "sensitive" \in tab[TabOf(s)].form
         => "ask_sensitive" \notin t.policy \/ Approved(t, "fill_documents")

\* An approval is good for one recorded attempt ("one-time", domain/task_plan.py),
\* although it is consumed in memory only and several executions may hold it.
ApprovalsAreSpent ==
  \A step \in StepIds :
    Cardinality({i \in 1..Len(task.journal) :
                   task.journal[i].step = step /\ task.journal[i].reason = "user_approved"})
      = Cardinality({i \in 1..Len(task.approvals) :
                       task.approvals[i].step = step /\ task.approvals[i].used})

\* Every clarification answers a question of its own, although two users may
\* answer at once and the agent's last command stays on record.
AnswersHaveQuestions == task.clar <= asked

\* A user's decision is not overtaken: an execution that was under way when the
\* task was paused, cancelled or completed leaves no trace in it.
StoppedStays ==
  [][task.status \in {"paused", "cancelled", "completed"} =>
       /\ task'.run = task.run
       /\ task'.journal \in {task.journal, <<>>}
       /\ task'.status # task.status =>
            task.status = "paused" /\ task'.status \in {"ready", "cancelled"}]_vars
=============================================================================
