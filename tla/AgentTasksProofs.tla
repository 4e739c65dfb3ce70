-------------------------- MODULE AgentTasksProofs --------------------------
(***************************************************************************)
(* Proofs about AgentTasks.                                                *)
(***************************************************************************)
EXTENDS AgentTasks, TLAPS

-----------------------------------------------------------------------------
(* What a plan, a step and a command can come to                            *)

LEMMA StepNames ==
  StepIds = {"open_target", "inspect_page", "fill_people", "fill_documents", "choose_option",
             "open_review", "prepare_order"}
BY DEF StepIds, ActionOf

LEMMA PlanShape ==
  ASSUME NEW kind \in Kinds
  PROVE /\ PlanSteps(kind) \in Seq(StepIds)
        /\ Len(PlanSteps(kind)) \in Nat \ {0}
        /\ PlanSteps(kind)[Len(PlanSteps(kind))] = "prepare_order"
BY StepNames DEF PlanSteps, Kinds, BasicProfileKinds, DocumentKinds

\* Every nonempty set of places has a least one, because plans are short.
LEMMA PlanLength ==
  ASSUME NEW kind \in Kinds
  PROVE Len(PlanSteps(kind)) \in 5..7
BY DEF PlanSteps, Kinds, BasicProfileKinds, DocumentKinds

LEMMA LeastPlace ==
  ASSUME NEW n \in 5..7, NEW S \in SUBSET (1..n), S # {}
  PROVE \E k \in S : \A other \in S : k <= other
<1>1. CASE 1 \in S BY <1>1
<1>2. CASE 1 \notin S /\ 2 \in S BY <1>2
<1>3. CASE 1 \notin S /\ 2 \notin S /\ 3 \in S BY <1>3
<1>4. CASE 1 \notin S /\ 2 \notin S /\ 3 \notin S /\ 4 \in S BY <1>4
<1>5. CASE 1 \notin S /\ 2 \notin S /\ 3 \notin S /\ 4 \notin S /\ 5 \in S BY <1>5
<1>6. CASE 1 \notin S /\ 2 \notin S /\ 3 \notin S /\ 4 \notin S /\ 5 \notin S /\ 6 \in S BY <1>6
<1>7. CASE 1 \notin S /\ 2 \notin S /\ 3 \notin S /\ 4 \notin S /\ 5 \notin S /\ 6 \notin S
  <2>1. PICK k \in S : TRUE OBVIOUS
  <2>2. \A other \in S : other = 7 BY <1>7
  <2> QED BY <2>1, <2>2
<1> QED BY <1>1, <1>2, <1>3, <1>4, <1>5, <1>6, <1>7

Results == [ok : BOOLEAN, reason : {"done", "failed", "review_action_not_available"},
            snap : Urls \cup {"none"}, fill : Urls \cup {"none"}, tab : Tabs]

LEMMA ResultTypes ==
  ASSUME NEW p \in Tabs, NEW snap \in Urls \cup {"none"}, NEW fill \in Urls \cup {"none"}
  PROVE /\ Done(p, snap, fill) \in Results /\ Done(p, snap, fill).tab = p
        /\ Failed(p, fill) \in Results /\ Failed(p, fill).tab = p /\ ~Failed(p, fill).ok
BY DEF Done, Failed, Results

LEMMA FilledType ==
  ASSUME NEW p \in Tabs, NEW kinds \in SUBSET {"basic", "sensitive", "intent"}
  PROVE /\ Filled(p, kinds) \in Tabs /\ Filled(p, kinds).url = p.url
        /\ Filled(p, kinds).form = p.form \cup kinds
BY DEF Filled, Tabs

LEMMA GotoType ==
  ASSUME NEW url \in Urls \cup {"blank"}
  PROVE Goto(url) \in Tabs /\ Goto(url).url = url /\ Goto(url).form = {}
BY DEF Goto, Tabs

\* page q comes of page p without anything new in its form
Later(p, q) == q \in Tabs /\ q.url # "blank" /\ q.form \subseteq p.form

LEMMA OpenedLater ==
  ASSUME NEW t \in Tasks, NEW p \in Tabs
  PROVE Later(p, Opened(t, p)) /\ Opened(t, p).url \in Urls
<1>1. t.snapshot \in Urls \cup {"none"} BY DEF Tasks
<1> QED BY <1>1, GotoType DEF Later, Opened, Tabs, Urls

LEMMA RestoredLater ==
  ASSUME NEW t \in Tasks, NEW p \in Tabs, p.url # "blank", t.snapshot # "none"
  PROVE Later(p, Restored(t, p))
<1>1. t.snapshot \in Urls BY DEF Tasks
<1> QED BY <1>1, GotoType DEF Later, Restored, Urls

\* what every result of a step is, whatever the step
Sound(r, p, step) ==
  /\ r \in Results /\ r.tab.url # "blank"
  /\ r.ok => step # "prepare_order"
  /\ "sensitive" \in r.tab.form => "sensitive" \in p.form \/ step = "fill_documents"

LEMMA SoundResults ==
  ASSUME NEW p \in Tabs, NEW step \in StepIds, NEW q \in Tabs, q.url # "blank",
         "sensitive" \in q.form => "sensitive" \in p.form \/ step = "fill_documents",
         NEW snap \in Urls \cup {"none"}, NEW fill \in Urls \cup {"none"}
  PROVE /\ Sound(Failed(q, fill), p, step)
        /\ Sound(NotYet(q), p, step)
        /\ step # "prepare_order" => Sound(Done(q, snap, fill), p, step)
<1>1. Sound(Failed(q, fill), p, step) BY ResultTypes DEF Sound
<1>2. step # "prepare_order" => Sound(Done(q, snap, fill), p, step) BY ResultTypes DEF Sound
<1>3. Sound(NotYet(q), p, step) BY DEF Sound, NotYet, Results
<1> QED BY <1>1, <1>2, <1>3

\* A result of a step: its types, that prepare_order never succeeds, that a page
\* is left open, and that only fill_documents types documents.
LEMMA StepResultsSound ==
  ASSUME NEW t \in Tasks, NEW step \in StepIds, NEW p \in Tabs
  PROVE \A r \in StepResults(t, step, p) : Sound(r, p, step)
<1> DEFINE page == Opened(t, p)
           back == Restored(t, page)
<1>0. Later(p, page) /\ page \in Tabs /\ page.url \in Urls /\ page.url # "blank"
  BY OpenedLater DEF Later
<1>r. t.snapshot # "none" => Later(page, back)
  BY <1>0, RestoredLater
<1>t. t.snapshot \in Urls \cup {"none"} /\ t.fill \in Urls \cup {"none"}
  BY DEF Tasks
<1>u. /\ \A url \in Urls : Goto(url) \in Tabs /\ Goto(url).url # "blank" /\ Goto(url).form = {}
      /\ {"target", "option", "review"} \subseteq Urls
  BY GotoType DEF Urls
<1>f. \A q \in Tabs, kinds \in SUBSET {"basic", "sensitive", "intent"} :
        /\ Filled(q, kinds) \in Tabs /\ Filled(q, kinds).url = q.url
        /\ Filled(q, kinds).form = q.form \cup kinds
  BY FilledType
<1> HIDE DEF page, back
<1>1. CASE step = "open_target"
  <2>1. ActionOf[step] = "navigate" BY <1>1 DEF ActionOf
  <2>2. StepResults(t, step, p) = NavigateResults BY <2>1, Zenon DEF StepResults, page
  <2> QED BY <1>1, <1>u, <2>2, SoundResults DEF NavigateResults
<1>2. CASE step = "inspect_page"
  <2>1. ActionOf[step] = "read_page" BY <1>2 DEF ActionOf
  <2>2. StepResults(t, step, p) = ReadResults(page) BY <2>1, Zenon DEF StepResults, page
  <2> QED BY <1>0, <1>2, <2>2, SoundResults DEF ReadResults, Later
<1>3. CASE step = "fill_people"
  <2>1. ActionOf[step] = "fill_basic_profile" BY <1>3 DEF ActionOf
  <2>2. StepResults(t, step, p) = FillBasicResults(t, page) BY <2>1, Zenon DEF StepResults, page
  <2>3. Filled(page, {"basic"}) \in Tabs /\ Filled(page, {"basic"}).url = page.url
        /\ Filled(page, {"basic"}).form = page.form \cup {"basic"}
    BY <1>0, <1>f
  <2> QED BY <1>0, <1>3, <1>t, <2>2, <2>3, SoundResults DEF FillBasicResults, Later
<1>4. CASE step = "fill_documents"
  <2>1. ActionOf[step] = "fill_sensitive_profile" BY <1>4 DEF ActionOf
  <2>2. StepResults(t, step, p) = FillSensitiveResults(t, page) BY <2>1, Zenon DEF StepResults, page
  <2>3. t.snapshot # "none" =>
          /\ back \in Tabs /\ back.url # "blank"
          /\ Filled(back, {"basic"}) \in Tabs /\ Filled(back, {"basic"}).url # "blank"
          /\ Filled(back, {"basic", "sensitive"}) \in Tabs
          /\ Filled(back, {"basic", "sensitive"}).url # "blank"
    BY <1>r, <1>f DEF Later
  <2>4. FillSensitiveResults(t, page) \subseteq
          IF t.snapshot = "none" \/ t.fill = "none" THEN {Failed(page, "none")}
          ELSE {Failed(back, "none"), Failed(Filled(back, {"basic"}), t.fill),
                Done(Filled(back, {"basic", "sensitive"}), "none", t.fill)}
    BY DEF FillSensitiveResults, back
  <2>5. Sound(Failed(page, "none"), p, step) BY <1>0, SoundResults DEF Later
  <2>6. t.snapshot # "none" =>
          Sound(Failed(back, "none"), p, step) /\ Sound(Failed(Filled(back, {"basic"}), t.fill), p, step)
    BY <1>4, <1>t, <2>3, SoundResults
  <2>7. t.snapshot # "none" =>
          Sound(Done(Filled(back, {"basic", "sensitive"}), "none", t.fill), p, step)
    BY <1>4, <1>t, <2>3, SoundResults
  <2> QED BY <2>2, <2>4, <2>5, <2>6, <2>7
<1>5. CASE step = "choose_option"
  <2>1. ActionOf[step] = "select_option" BY <1>5 DEF ActionOf
  <2>2. StepResults(t, step, p) = SelectResults(t, page) BY <2>1, Zenon DEF StepResults, page
  <2>3. t.snapshot # "none" =>
          /\ Filled(back, {"intent"}) \in Tabs /\ Filled(back, {"intent"}).url # "blank"
          /\ "sensitive" \in Filled(back, {"intent"}).form => "sensitive" \in p.form
          /\ back \in Tabs /\ back.url # "blank"
          /\ "sensitive" \in back.form => "sensitive" \in p.form
    BY <1>0, <1>r, <1>f DEF Later
  <2>4. SelectResults(t, page) =
          {Failed(page, "none")} \cup
          IF t.snapshot = "none" THEN {}
          ELSE {Failed(back, t.snapshot), Done(Filled(back, {"intent"}), "none", t.snapshot),
                Done(Goto("option"), "option", "none")}
    BY DEF SelectResults, back
  <2>5. Sound(Failed(page, "none"), p, step) BY <1>0, SoundResults DEF Later
  <2>6. Sound(Done(Goto("option"), "option", "none"), p, step) BY <1>5, <1>u, SoundResults
  <2>7. t.snapshot # "none" => Sound(Failed(back, t.snapshot), p, step)
    BY <1>t, <2>3, SoundResults
  <2>8. t.snapshot # "none" => Sound(Done(Filled(back, {"intent"}), "none", t.snapshot), p, step)
    BY <1>5, <1>t, <2>3, SoundResults
  <2> QED BY <2>2, <2>4, <2>5, <2>6, <2>7, <2>8
<1>6. CASE step = "open_review"
  <2>1. ActionOf[step] = "prepare_review" BY <1>6 DEF ActionOf
  <2>2. StepResults(t, step, p) = ReviewResults(t, page) BY <2>1, Zenon DEF StepResults, page
  <2>3. ReviewResults(t, page) =
          IF t.snapshot = "none" THEN {Failed(page, "none")}
          ELSE {Failed(back, "none"), Done(Goto("review"), "review", "none"), NotYet(back)}
    BY DEF ReviewResults, back
  <2>4. Sound(Failed(page, "none"), p, step) BY <1>0, SoundResults DEF Later
  <2>5. Sound(Done(Goto("review"), "review", "none"), p, step) BY <1>6, <1>u, SoundResults
  <2>6. t.snapshot # "none" => Sound(Failed(back, "none"), p, step) /\ Sound(NotYet(back), p, step)
    BY <1>0, <1>r, SoundResults DEF Later
  <2> QED BY <2>2, <2>3, <2>4, <2>5, <2>6
<1>7. CASE step = "prepare_order"
  <2>1. ActionOf[step] = "submit_order" BY <1>7 DEF ActionOf
  <2>2. StepResults(t, step, p) = {Failed(page, "none")} BY <2>1, Zenon DEF StepResults, page
  <2> QED BY <1>0, <1>7, <2>2, SoundResults DEF Later
<1> QED BY StepNames, <1>1, <1>2, <1>3, <1>4, <1>5, <1>6, <1>7

\* The policy's answers are typed, and what README.md leaves to the user is left
\* to the user whatever the policy.
LEMMA DecideType ==
  ASSUME NEW policy \in SUBSET Flags, NEW step \in StepIds
  PROVE LET d == Decide(policy, Request(step)) IN
        /\ d.verdict \in {"allowed", "denied", "user"}
        /\ d.verdict = "allowed" => d.reason = "allowed"
        /\ d.verdict = "user" => d.reason \in Reasons
        /\ step = "prepare_order" => d.verdict = "user"
        /\ step = "fill_documents" /\ "ask_sensitive" \in policy => d.verdict = "user"
BY StepNames DEF Decide, Request, ActionOf, User, Allowed, Denied, Reasons, FlagOf

ReportReasons ==
  {"none", "control_not_found", "control_unchanged", "cross_origin_blocked",
   "irreversible_click_requires_user", "acted", "option_selected", "control_filled",
   "sensitive_data_approval_required", "navigated", "page_scrolled", "navigation_failed",
   "user_input_required", "finished_ready_for_user", "finish_needs_user", "finish_reached",
   "finish_no_match"}
Reports == [user : BOOLEAN, reason : ReportReasons, page : {"same", "moved", "lost", "unseen"}]

LEMMA ReportType ==
  ASSUME NEW user \in BOOLEAN, NEW reason \in ReportReasons,
         NEW page \in {"same", "moved", "lost", "unseen"}
  PROVE Report(user, reason, page) \in Reports
BY DEF Report, Reports

LEMMA CommandReportsType ==
  ASSUME NEW c \in AgentCommands
  PROVE CommandReports(c) \subseteq Reports
<1>1. NotFound \in Reports /\ Unchanged \in Reports /\ CrossOrigin \in Reports
      /\ Irreversible \in Reports /\ Acted \subseteq Reports
  BY ReportType DEF ReportReasons, NotFound, Unchanged, CrossOrigin, Irreversible, Acted
<1>2. ClickReports \subseteq Reports /\ VisualReports \subseteq Reports
  BY <1>1, ReportType
     DEF ReportReasons, ClickReports, VisualReports, ClickVisualReports, DragReports, ZoomReports, HoverReports
<1>3. /\ SelectReports \subseteq Reports /\ FillReports \subseteq Reports
      /\ FillDocumentReports \subseteq Reports /\ MoveReports \subseteq Reports
      /\ AskReports \subseteq Reports
  BY <1>1, ReportType DEF ReportReasons, SelectReports, FillReports, FillDocumentReports, MoveReports, AskReports
<1>4. c \in Finishes => FinishReports(c) \subseteq Reports
  <2>1. CASE c \in {"finish_ready", "finish_needs_user"}
    <3>1. (c \in {"finish_ready", "finish_needs_user"}) = TRUE BY <2>1
    <3> QED BY <2>1, <3>1, ReportType DEF FinishReports, Finishes, ReportReasons
  <2>2. CASE c \notin {"finish_ready", "finish_needs_user"}
    <3>1. (c \in {"finish_ready", "finish_needs_user"}) = FALSE BY <2>2
    <3> QED BY <2>2, <3>1, ReportType DEF FinishReports, Finishes, ReportReasons
  <2> QED BY <2>1, <2>2
<1>5. CASE c = "click" BY <1>2, <1>5, Zenon DEF CommandReports, Finishes
<1>6. CASE c = "visual" BY <1>2, <1>6, Zenon DEF CommandReports, Finishes
<1>7. CASE c \in {"select", "fill", "fill_document", "move", "ask"}
  BY <1>3, <1>7, Zenon DEF CommandReports, Finishes
<1>8. CASE c \in Finishes
  <2>1. CommandReports(c) = FinishReports(c) BY <1>8, Zenon DEF CommandReports, Finishes
  <2> QED BY <1>4, <1>8, <2>1
<1> QED BY <1>5, <1>6, <1>7, <1>8 DEF AgentCommands

-----------------------------------------------------------------------------
(* What a task is, and what the copies made of it keep                      *)

\* the runner implements no submit_order
NeverPrepared(t) ==
  \A i \in 1..Len(t.journal) :
    t.journal[i].outcome = "succeeded" => t.journal[i].step # "prepare_order"

\* the part of NothingUnasked that is about one row or copy
StartsApproved(t) ==
  \A i \in 1..Len(t.journal) :
    t.journal[i].outcome = "started" /\ LeftToUser(t, t.journal[i].step) =>
      t.journal[i].reason = "user_approved" /\ Approved(t, t.journal[i].step)

GoodTask(t) == t \in Tasks /\ NeverPrepared(t) /\ StartsApproved(t)

\* what no execution changes but by the commands it records
Kept(t, u) ==
  /\ u.version = t.version /\ u.clar = t.clar /\ u.policy = t.policy
  /\ u.kind = t.kind /\ u.mode = t.mode /\ u.llm = t.llm

ApprovalsKept(t, u) == \A step \in StepIds : Approved(t, step) => Approved(u, step)

LEMMA NextStepType ==
  ASSUME NEW t, GoodTask(t)
  PROVE NextStep(t) \in StepIds
<1> DEFINE S == Remaining(t)
           n == Len(PlanSteps(t.kind))
<1>1. t.kind \in Kinds /\ t.journal \in Seq(Entries) BY DEF GoodTask, Tasks
<1>2. n \in 5..7 /\ PlanSteps(t.kind) \in Seq(StepIds) /\ PlanSteps(t.kind)[n] = "prepare_order"
  BY <1>1, PlanShape, PlanLength
<1>3. "prepare_order" \notin Succeeded(t.journal) BY DEF Succeeded, GoodTask, NeverPrepared
<1>4. n \in S BY <1>2, <1>3 DEF Remaining
<1>5. S \in SUBSET (1..n) BY DEF Remaining
<1> HIDE DEF S, n
<1>6. PICK k \in S : \A other \in S : k <= other BY <1>2, <1>4, <1>5, LeastPlace
<1>7. (CHOOSE c \in S : \A other \in S : c <= other) \in S BY <1>6
<1> QED BY <1>2, <1>5, <1>7 DEF NextStep, S, n

LEMMA JournaledGood ==
  ASSUME NEW t, GoodTask(t), NEW step \in StepIds, NEW outcome \in Outcomes,
         NEW reason \in StepReasons,
         outcome = "succeeded" => step # "prepare_order",
         outcome = "started" /\ LeftToUser(t, step) => reason = "user_approved" /\ Approved(t, step)
  PROVE LET u == Journaled(t, step, outcome, reason) IN
        /\ GoodTask(u) /\ Kept(t, u)
        /\ u.approvals = t.approvals /\ u.run = t.run /\ u.status = t.status /\ u.waiting = t.waiting
<1> DEFINE e == Entry(step, outcome, reason)
           u == Journaled(t, step, outcome, reason)
<1>1. t \in Tasks /\ t.journal \in Seq(Entries) BY DEF GoodTask, Tasks
<1>2. e \in Entries /\ e.step = step /\ e.outcome = outcome /\ e.reason = reason
  BY DEF Entry, Entries
<1> DEFINE J == Append(t.journal, e)
<1>3. u = [t EXCEPT !.journal = J] BY DEF Journaled
<1>j. J \in Seq(Entries) BY <1>1, <1>2
<1> HIDE DEF e, u, J
<1>4. u \in Tasks /\ u.journal = J BY <1>1, <1>j, <1>3 DEF Tasks
<1>5. /\ Kept(t, u) /\ u.approvals = t.approvals /\ u.run = t.run
      /\ u.status = t.status /\ u.waiting = t.waiting
  BY <1>1, <1>3 DEF Tasks, Kept
<1>6. /\ Len(u.journal) = Len(t.journal) + 1 /\ Len(t.journal) \in Nat
      /\ \A i \in 1..Len(t.journal) : u.journal[i] = t.journal[i]
      /\ u.journal[Len(t.journal) + 1] = e
  BY <1>1, <1>2, <1>4 DEF J
<1>7. \A s \in StepIds : (Approved(u, s) <=> Approved(t, s)) /\ (LeftToUser(u, s) <=> LeftToUser(t, s))
  BY <1>5 DEF Approved, LeftToUser, Kept
<1>8. NeverPrepared(u)
  <2> SUFFICES ASSUME NEW i \in 1..Len(u.journal), u.journal[i].outcome = "succeeded"
               PROVE  u.journal[i].step # "prepare_order"
    BY DEF NeverPrepared
  <2>1. CASE i \in 1..Len(t.journal)
    BY <1>6, <2>1 DEF GoodTask, NeverPrepared
  <2>2. CASE i = Len(t.journal) + 1
    BY <1>2, <1>6, <2>2
  <2> QED BY <1>6, <2>1, <2>2
<1>9. StartsApproved(u)
  <2> SUFFICES ASSUME NEW i \in 1..Len(u.journal), u.journal[i].outcome = "started",
                      LeftToUser(u, u.journal[i].step)
               PROVE u.journal[i].reason = "user_approved" /\ Approved(u, u.journal[i].step)
    BY DEF StartsApproved
  <2>0. u.journal \in Seq(Entries) BY <1>4, <1>j
  <2>e. u.journal[i] \in Entries BY <2>0
  <2>1. u.journal[i].step \in StepIds BY <2>e DEF Entries
  <2>2. CASE i \in 1..Len(t.journal)
    BY <1>6, <1>7, <2>1, <2>2 DEF GoodTask, StartsApproved
  <2>3. CASE i = Len(t.journal) + 1
    BY <1>2, <1>6, <1>7, <2>1, <2>3
  <2> QED BY <1>6, <2>2, <2>3
<1> QED BY <1>4, <1>5, <1>8, <1>9 DEF GoodTask, u

\* a change of anything but the journal, the approvals and the policy
LEMMA SameRecord ==
  ASSUME NEW t, GoodTask(t), NEW u \in Tasks, u.journal = t.journal, u.policy = t.policy,
         ApprovalsKept(t, u)
  PROVE GoodTask(u)
<1>0. t.journal \in Seq(Entries) BY DEF GoodTask, Tasks
<1>1. \A i \in 1..Len(t.journal) : t.journal[i] \in Entries BY <1>0
<1>2. \A i \in 1..Len(t.journal) : t.journal[i].step \in StepIds BY <1>1 DEF Entries
<1> QED BY <1>2 DEF GoodTask, NeverPrepared, StartsApproved, ApprovalsKept, LeftToUser

LEMMA ConsumedGood ==
  ASSUME NEW t, GoodTask(t), NEW step \in StepIds, NEW reason
  PROVE LET ms == Matching(t, step, reason)
            u == Consumed(t, ms)
        IN /\ GoodTask(u) /\ Kept(t, u) /\ ApprovalsKept(t, u)
           /\ u.run = t.run /\ u.journal = t.journal
           /\ u.status = t.status /\ u.waiting = t.waiting
           /\ ms # {} => Approved(u, step)
<1> DEFINE ms == Matching(t, step, reason)
           u == Consumed(t, ms)
           i == CHOOSE k \in ms : TRUE
<1> SUFFICES /\ GoodTask(u) /\ Kept(t, u) /\ ApprovalsKept(t, u)
             /\ u.run = t.run /\ u.journal = t.journal
             /\ u.status = t.status /\ u.waiting = t.waiting
             /\ ms # {} => Approved(u, step)
  OBVIOUS
<1>1. t \in Tasks /\ t.approvals \in Seq(Approvals) BY DEF GoodTask, Tasks
<1>2. CASE ms = {}
  <2>1. u = t BY <1>2 DEF Consumed
  <2> HIDE DEF ms, u
  <2> QED BY <1>2, <2>1 DEF Kept, ApprovalsKept
<1>3. CASE ms # {}
  <2>1. i \in ms BY <1>3
  <2>2. i \in 1..Len(t.approvals) /\ t.approvals[i].step = step BY <2>1 DEF Matching
  <2>3. u = [t EXCEPT !.approvals[i].used = TRUE] BY <1>3 DEF Consumed
  <2> HIDE DEF u, i, ms
  <2> DEFINE a == [t.approvals[i] EXCEPT !.used = TRUE]
  <2>4. u.approvals = [t.approvals EXCEPT ![i] = a] BY <1>1, <2>3 DEF Tasks
  <2>5. a \in Approvals /\ a.step = step /\ a.used
    <3>1. t.approvals[i] \in Approvals BY <1>1, <2>2
    <3> QED BY <2>2, <3>1 DEF Approvals
  <2> HIDE DEF a
  <2>6. u.approvals \in Seq(Approvals) /\ Len(u.approvals) = Len(t.approvals)
    BY <1>1, <2>2, <2>4, <2>5
  <2>7. u \in Tasks BY <1>1, <2>3, <2>6 DEF Tasks
  <2>8. /\ Kept(t, u) /\ u.run = t.run /\ u.journal = t.journal
        /\ u.status = t.status /\ u.waiting = t.waiting
    BY <1>1, <2>3 DEF Tasks, Kept
  <2>9. u.approvals[i] = a /\ \A k \in 1..Len(t.approvals) : k # i => u.approvals[k] = t.approvals[k]
    BY <1>1, <2>2, <2>4
  <2>10. ApprovalsKept(t, u) /\ Approved(u, step)
    BY <2>2, <2>5, <2>6, <2>9 DEF ApprovalsKept, Approved
  <2> QED BY <2>7, <2>8, <2>10, SameRecord DEF Kept
<1> QED BY <1>2, <1>3

LEMMA RecordedGood ==
  ASSUME NEW t, GoodTask(t), NEW step \in StepIds, NEW p, NEW r, Sound(r, p, step)
  PROVE LET u == Recorded(t, step, r) IN
        GoodTask(u) /\ Kept(t, u) /\ u.approvals = t.approvals
<1> DEFINE seen == IF r.snap = "none" THEN t ELSE [t EXCEPT !.snapshot = r.snap, !.fill = "none"]
           mapped == IF r.fill = "none" THEN seen ELSE [seen EXCEPT !.fill = r.fill]
           outcome == IF r.ok THEN "succeeded" ELSE "failed"
           u == Recorded(t, step, r)
<1>0. t \in Tasks BY DEF GoodTask
<1>1. /\ r.snap \in Urls \cup {"none"} /\ r.fill \in Urls \cup {"none"} /\ r.ok \in BOOLEAN
      /\ r.reason \in {"done", "failed", "review_action_not_available"}
      /\ r.ok => step # "prepare_order"
  BY DEF Sound, Results
<1>2. seen \in Tasks /\ seen.journal = t.journal /\ seen.approvals = t.approvals /\ Kept(t, seen)
  BY <1>0, <1>1 DEF Tasks, Kept
<1> HIDE DEF seen
<1>3. mapped \in Tasks /\ mapped.journal = t.journal /\ mapped.approvals = t.approvals
      /\ Kept(t, mapped)
  BY <1>1, <1>2 DEF Tasks, Kept
<1> HIDE DEF mapped
<1>4. GoodTask(mapped)
  BY <1>3, SameRecord DEF Kept, ApprovalsKept, Approved
<1>5. outcome \in Outcomes \ {"started"} /\ (outcome = "succeeded" => step # "prepare_order")
      /\ r.reason \in StepReasons
  BY <1>1 DEF Outcomes, StepReasons
<1>6. u = Journaled(mapped, step, outcome, r.reason) BY DEF Recorded, mapped, seen
<1> HIDE DEF outcome, u
<1>7. GoodTask(u) /\ Kept(mapped, u) /\ u.approvals = mapped.approvals
  BY <1>4, <1>5, <1>6, JournaledGood
<1>8. Kept(t, u) /\ u.approvals = t.approvals BY <1>3, <1>7 DEF Kept
<1> QED BY <1>7, <1>8 DEF u

LEMMA StatusGood ==
  ASSUME NEW t, GoodTask(t), NEW status \in Statuses, NEW waiting \in Reasons \cup {"none"}
  PROVE /\ GoodTask([t EXCEPT !.status = status]) /\ Kept(t, [t EXCEPT !.status = status])
        /\ [t EXCEPT !.status = status].approvals = t.approvals
        /\ GoodTask([t EXCEPT !.status = status, !.waiting = waiting])
        /\ Kept(t, [t EXCEPT !.status = status, !.waiting = waiting])
        /\ [t EXCEPT !.status = status, !.waiting = waiting].approvals = t.approvals
<1> DEFINE u == [t EXCEPT !.status = status]
           v == [t EXCEPT !.status = status, !.waiting = waiting]
<1>0. t \in Tasks BY DEF GoodTask
<1>1. u \in Tasks /\ u.journal = t.journal /\ u.approvals = t.approvals /\ Kept(t, u)
  BY <1>0 DEF Tasks, Kept
<1>2. v \in Tasks /\ v.journal = t.journal /\ v.approvals = t.approvals /\ Kept(t, v)
  BY <1>0 DEF Tasks, Kept
<1> HIDE DEF u, v
<1>3. GoodTask(u) /\ GoodTask(v)
  BY <1>1, <1>2, SameRecord DEF Kept, ApprovalsKept, Approved
<1> QED BY <1>1, <1>2, <1>3 DEF u, v

-----------------------------------------------------------------------------
(* The inductive invariant behind TypeOK                                    *)

RequestKinds == {"none", "plan", "map_page", "approve", "clarify", "pause", "resume", "cancel",
                 "execute"}
Loops == [steps : Seq(AgentCommands), last : AgentCommands \cup {"none"}, repeated : Nat,
          status : LoopStatuses, reason : ReportReasons]
Working == [pc : {"idle", "step", "loop", "update"}, kind : RequestKinds, copy : Tasks, loop : Loops]

\* The rows and copies are tasks; a loop that has begun has a page open.
TypeInv ==
  /\ GoodTask(task)
  /\ req \in [Sessions -> Working]
  /\ \A s \in Sessions : GoodTask(req[s].copy)
  /\ \A s \in Sessions :
       req[s].pc = "loop" /\ req[s].loop # NewLoop => tab[TabOf(s)].url # "blank"
  /\ tab \in [Sessions \cup {SharedTab} -> Tabs]
  /\ asked \in Nat

LEMMA TypeInvImpliesTypeOK == TypeInv => TypeOK
<1> SUFFICES ASSUME TypeInv PROVE TypeOK OBVIOUS
<1>1. task \in Tasks BY DEF TypeInv, GoodTask
<1>2. \A s \in Sessions : req[s] \in Working BY DEF TypeInv
<1> QED BY <1>1, <1>2 DEF TypeInv, TypeOK, Working, Loops

LEMMA NewLoopType == NewLoop \in Loops
BY DEF NewLoop, Loops, LoopStatuses, ReportReasons

LEMMA NewTabType == NewTab \in Tabs /\ NewTab.url = "blank" /\ NewTab.form = {}
BY GotoType DEF NewTab

LEMMA TabOfType ==
  ASSUME NEW s \in Sessions
  PROVE TabOf(s) \in Sessions \cup {SharedTab}
BY DEF TabOf

\* what a step of an execution does: to the copy, to the page, to the rest
Stepping(s, u, page) ==
  /\ req[s].pc = "step"
  /\ GoodTask(u) /\ Kept(req[s].copy, u) /\ ApprovalsKept(req[s].copy, u)
  /\ page \in Tabs /\ (page.url # "blank" \/ page = tab[TabOf(s)])
  /\ "sensitive" \in page.form =>
       \/ "sensitive" \in tab[TabOf(s)].form
       \/ "ask_sensitive" \notin u.policy
       \/ Approved(u, "fill_documents")
  /\ Stepped(s, u, page) /\ UNCHANGED <<task, asked>>

LEMMA BlockStep ==
  ASSUME TypeInv, NEW s \in Sessions, Block(s)
  PROVE \E u, page : Stepping(s, u, page)
<1> DEFINE t == req[s].copy
           reason == DecisionOn(t).reason
           J == Journaled(t, NextStep(t), "blocked", reason)
           u == [J EXCEPT !.status = "waiting_for_user", !.waiting = reason]
           page == tab[TabOf(s)]
<1>1. GoodTask(t) /\ t.policy \in SUBSET Flags /\ NextStep(t) \in StepIds
  BY NextStepType DEF TypeInv, GoodTask, Tasks
<1>2. reason \in Reasons
  BY <1>1, DecideType DEF Block, DecisionOn
<1>3. Stepped(s, u, page) /\ req[s].pc = "step" /\ UNCHANGED <<task, asked>>
  BY DEF Block
<1>4. page \in Tabs BY TabOfType DEF TypeInv
<1> HIDE DEF t, reason, page
<1>5. GoodTask(J) /\ Kept(t, J) /\ J.approvals = t.approvals
  BY <1>1, <1>2, JournaledGood DEF Outcomes, StepReasons
<1> HIDE DEF J
<1>6. GoodTask(u) /\ Kept(J, u) /\ u.approvals = J.approvals
  BY <1>2, <1>5, StatusGood DEF Statuses
<1> HIDE DEF u
<1>7. Kept(t, u) /\ ApprovalsKept(t, u)
  BY <1>5, <1>6 DEF Kept, ApprovalsKept, Approved
<1>8. Stepping(s, u, page)
  BY <1>3, <1>4, <1>6, <1>7 DEF Stepping, t, page
<1> QED BY <1>8

LEMMA DenyStep ==
  ASSUME TypeInv, NEW s \in Sessions, Deny(s)
  PROVE \E u, page : Stepping(s, u, page)
<1> DEFINE t == req[s].copy
           J == Journaled(t, NextStep(t), "failed", "denied")
           u == [J EXCEPT !.status = "failed"]
           page == tab[TabOf(s)]
<1>1. GoodTask(t) /\ NextStep(t) \in StepIds
  BY NextStepType DEF TypeInv
<1>3. Stepped(s, u, page) /\ req[s].pc = "step" /\ UNCHANGED <<task, asked>>
  BY DEF Deny
<1>4. page \in Tabs BY TabOfType DEF TypeInv
<1> HIDE DEF t, page
<1>5. GoodTask(J) /\ Kept(t, J) /\ J.approvals = t.approvals
  BY <1>1, JournaledGood DEF Outcomes, StepReasons
<1> HIDE DEF J
<1>6. GoodTask(u) /\ Kept(J, u) /\ u.approvals = J.approvals
  BY <1>5, StatusGood DEF Statuses
<1> HIDE DEF u
<1>7. Kept(t, u) /\ ApprovalsKept(t, u)
  BY <1>5, <1>6 DEF Kept, ApprovalsKept, Approved
<1>8. Stepping(s, u, page)
  BY <1>3, <1>4, <1>6, <1>7 DEF Stepping, t, page
<1> QED BY <1>8

LEMMA RunStepStep ==
  ASSUME TypeInv, NEW s \in Sessions, RunStep(s)
  PROVE \E u, page : Stepping(s, u, page)
<1> DEFINE t == req[s].copy
           d == DecisionOn(t)
           step == NextStep(t)
           before == tab[TabOf(s)]
           why == IF d.verdict = "user" THEN "user_approved" ELSE d.reason
           C == Consumed(t, Usable(t))
           started == Journaled(C, step, "started", why)
<1>1. GoodTask(t) /\ t \in Tasks /\ t.policy \in SUBSET Flags /\ step \in StepIds
  BY NextStepType DEF TypeInv, GoodTask, Tasks
<1>2. before \in Tabs BY TabOfType DEF TypeInv
<1>3. /\ req[s].pc = "step" /\ UNCHANGED <<task, asked>>
      /\ d.verdict = "allowed" \/ (d.verdict = "user" /\ Usable(t) # {})
  BY DEF RunStep
<1>4. PICK r \in StepResults(t, step, before) :
        Stepped(s, [Recorded(started, step, r) EXCEPT !.status = StatusAfter(t, r)], r.tab)
  BY DEF RunStep
<1> DEFINE R == Recorded(started, step, r)
           u == [R EXCEPT !.status = StatusAfter(t, r)]
<1>5. /\ d.verdict = "allowed" => d.reason = "allowed"
      /\ step = "prepare_order" => d.verdict = "user"
      /\ step = "fill_documents" /\ "ask_sensitive" \in t.policy => d.verdict = "user"
  BY <1>1, DecideType DEF DecisionOn
<1>6. Sound(r, before, step) BY <1>1, <1>2, <1>4, StepResultsSound
<1>7. /\ GoodTask(C) /\ Kept(t, C) /\ ApprovalsKept(t, C)
      /\ Usable(t) # {} => Approved(C, step)
  BY <1>1, ConsumedGood DEF Usable
<1> HIDE DEF t, d, step, before, C
<1>8. GoodTask(started) /\ Kept(C, started) /\ started.approvals = C.approvals
  <2>1. why \in StepReasons BY <1>3, <1>5 DEF StepReasons
  <2>2. LeftToUser(C, step) => why = "user_approved" /\ Approved(C, step)
    BY <1>3, <1>5, <1>7 DEF LeftToUser, Kept
  <2> HIDE DEF why
  <2> QED BY <1>1, <1>7, <2>1, <2>2, JournaledGood DEF Outcomes
<1> HIDE DEF started
<1>9. GoodTask(R) /\ Kept(started, R) /\ R.approvals = started.approvals
  BY <1>1, <1>6, <1>8, RecordedGood
<1> HIDE DEF R
<1>10. GoodTask(u) /\ Kept(R, u) /\ u.approvals = R.approvals
  <2>1. StatusAfter(t, r) \in Statuses BY DEF StatusAfter, Statuses
  <2> QED BY <1>9, <2>1, StatusGood
<1>11. Stepped(s, u, r.tab) BY <1>4 DEF R
<1> HIDE DEF u
<1>12. Kept(t, u) /\ u.approvals = C.approvals
  BY <1>7, <1>8, <1>9, <1>10 DEF Kept
<1>13. ApprovalsKept(t, u) /\ (Usable(t) # {} => Approved(u, step))
  BY <1>7, <1>12 DEF ApprovalsKept, Approved
<1>14. r.tab \in Tabs /\ r.tab.url # "blank"
       /\ ("sensitive" \in r.tab.form => "sensitive" \in before.form \/ step = "fill_documents")
  BY <1>6 DEF Sound, Results
<1>15. step = "fill_documents" => "ask_sensitive" \notin u.policy \/ Approved(u, "fill_documents")
  BY <1>3, <1>5, <1>12, <1>13 DEF Kept
<1>16. Stepping(s, u, r.tab)
  BY <1>3, <1>10, <1>11, <1>12, <1>13, <1>14, <1>15 DEF Stepping, t, before
<1> QED BY <1>16

\* one turn of the loop keeps what the loop is
LEMMA TurnType ==
  ASSUME NEW loop \in Loops, NEW c \in AgentCommands, NEW again \in BOOLEAN,
         NEW report \in Reports, NEW limit \in Nat, NEW turns \in Nat
  PROVE Turn(loop, c, again, report, limit, turns) \in Loops
<1> DEFINE repeated == Repeated(loop, again)
           counted == [loop EXCEPT !.last = c, !.repeated = repeated]
           status == TurnStatus(loop, c, report, turns)
           reason == IF status = "waiting_for_user" THEN report.reason ELSE "none"
           steps == Append(loop.steps, c)
           stalled == [counted EXCEPT !.status = "stalled"]
           went == [counted EXCEPT !.steps = steps, !.status = status, !.reason = reason]
<1>1. repeated \in Nat BY DEF Repeated, Loops
<1>2. FinishStatus(c) \in LoopStatuses BY DEF FinishStatus, LoopStatuses
<1>3. status \in LoopStatuses BY <1>2 DEF TurnStatus, LoopStatuses
<1>4. reason \in ReportReasons BY DEF Reports, ReportReasons
<1>5. steps \in Seq(AgentCommands) BY DEF Loops
<1>6. Turn(loop, c, again, report, limit, turns) = IF counted.repeated >= limit THEN stalled ELSE went
  BY DEF Turn
<1> HIDE DEF repeated, status, reason, steps
<1>7. counted \in Loops BY <1>1 DEF Loops
<1> HIDE DEF counted
<1>8. stalled \in Loops /\ went \in Loops
  BY <1>3, <1>4, <1>5, <1>7 DEF Loops, LoopStatuses
<1> QED BY <1>6, <1>8

LEMMA MergedType ==
  ASSUME NEW before \in Seq(AgentCommands), NEW loop \in Loops, NEW cap \in Nat \ {0}
  PROVE Merged(before, loop, cap) \in Seq(AgentCommands)
<1> DEFINE all == before \o loop.steps
<1>1. loop.steps \in Seq(AgentCommands) BY DEF Loops
<1>2. all \in Seq(AgentCommands) /\ Len(all) \in Nat BY <1>1
<1> HIDE DEF all
<1>3. ASSUME Len(all) > cap
      PROVE SubSeq(all, Len(all) - cap + 1, Len(all)) \in Seq(AgentCommands)
  BY <1>2, <1>3
<1> QED BY <1>2, <1>3 DEF Merged, all

LEMMA AppliedGood ==
  ASSUME NEW t, GoodTask(t), NEW loop \in Loops
  PROVE LET u == Applied(t, loop) IN
        GoodTask(u) /\ Kept(t, u) /\ u.approvals = t.approvals /\ u.journal = t.journal
<1> DEFINE status == TaskStatusAfter(loop, t.mode)
           waiting == IF status = "waiting_for_user" THEN WaitingReason(loop.reason) ELSE "none"
           run == Merged(t.run, loop, RunCap)
           u == [t EXCEPT !.status = status, !.waiting = waiting, !.fill = "none", !.run = run]
<1>1. t \in Tasks /\ t.run \in Seq(AgentCommands) BY DEF GoodTask, Tasks
<1>2. status \in Statuses BY DEF TaskStatusAfter, Statuses
<1>3. waiting \in Reasons \cup {"none"} BY DEF WaitingReason, Reasons
<1>4. run \in Seq(AgentCommands) BY <1>1, MergedType, ConstantsAssumption
<1>5. Applied(t, loop) = u BY DEF Applied
<1> HIDE DEF status, waiting, run
<1>6. u \in Tasks /\ Kept(t, u) /\ u.approvals = t.approvals /\ u.journal = t.journal
  BY <1>1, <1>2, <1>3, <1>4 DEF Tasks, Kept
<1> HIDE DEF u
<1>7. GoodTask(u) BY <1>6, SameRecord DEF Kept, ApprovalsKept, Approved
<1> QED BY <1>5, <1>6, <1>7

\* what a turn of the agent's loop does
Looping(s, u, loop, page) ==
  /\ req[s].pc = "loop"
  /\ GoodTask(u) /\ Kept(req[s].copy, u) /\ u.approvals = req[s].copy.approvals
  /\ loop \in Loops /\ page \in Tabs /\ page.url # "blank"
  /\ \/ /\ req' = [req EXCEPT ![s].loop = loop, ![s].copy = u]
        /\ tab' = [tab EXCEPT ![TabOf(s)] = page]
     \/ req' = Writes(s, "execute", u) /\ tab' = Left(s, page)
  /\ UNCHANGED <<task, asked>>

LEMMA LoopTurnStep ==
  ASSUME TypeInv, NEW s \in Sessions, LoopTurn(s)
  PROVE \E u, loop, page : Looping(s, u, loop, page)
<1> DEFINE t == req[s].copy
           b == TabOf(s)
           page == IF req[s].loop = NewLoop THEN Observed(t, tab[b]) ELSE tab[b]
           first == IF req[s].loop = NewLoop THEN page.url ELSE t.snapshot
           turns == IF t.mode = "step_by_step" THEN 1 ELSE MaxSteps
           next(c, again, report) == Turn(req[s].loop, c, again, report, RepeatLimit, turns)
           moved(loop, report) == loop.status # "stalled" /\ report.page \in {"moved", "lost"}
           seen(loop, report, after) ==
             [t EXCEPT !.snapshot = IF loop.status # "stalled" /\ report.page \in {"same", "moved"}
                                    THEN after.url ELSE first]
<1>1. GoodTask(t) /\ t \in Tasks /\ t.snapshot \in Urls \cup {"none"}
  BY DEF TypeInv, GoodTask, Tasks
<1>2. tab[b] \in Tabs /\ req[s] \in Working /\ req[s].loop \in Loops
  BY TabOfType DEF TypeInv, Working
<1>3. req[s].pc = "loop" /\ UNCHANGED <<task, asked>> BY DEF LoopTurn
<1>4. page \in Tabs /\ page.url # "blank"
  <2>1. CASE req[s].loop = NewLoop
    BY <1>1, <1>2, <2>1, OpenedLater, NewTabType DEF Observed, Later
  <2>2. CASE req[s].loop # NewLoop
    BY <1>2, <1>3, <2>2 DEF TypeInv
  <2> QED BY <2>1, <2>2
<1>5. page.url \in Urls BY <1>4 DEF Tabs
<1>6. first \in Urls \cup {"none"} BY <1>1, <1>5
<1>7. turns \in Nat /\ RepeatLimit \in Nat BY ConstantsAssumption
<1> DEFINE ends(loop, copy, after) ==
             IF loop.status = "going"
             THEN /\ req' = [req EXCEPT ![s].loop = loop, ![s].copy = copy]
                  /\ tab' = [tab EXCEPT ![b] = after]
             ELSE /\ req' = Writes(s, "execute", Applied(copy, loop))
                  /\ tab' = Left(s, after)
           pages(loop, report) == IF moved(loop, report) THEN {Goto(u) : u \in Urls} ELSE {page}
<1>p. PICK c \in Chosen, again \in BOOLEAN :
        \E report \in CommandReports(c) :
          \E after \in pages(next(c, again, report), report) :
            ends(next(c, again, report), seen(next(c, again, report), report, after), after)
  BY ZenonT(90) DEF LoopTurn
<1>q. PICK report \in CommandReports(c) :
        \E after \in pages(next(c, again, report), report) :
          ends(next(c, again, report), seen(next(c, again, report), report, after), after)
  BY <1>p
<1>8. PICK after \in pages(next(c, again, report), report) :
        ends(next(c, again, report), seen(next(c, again, report), report, after), after)
  BY <1>q
<1> DEFINE loop == next(c, again, report)
           copy == seen(loop, report, after)
<1>9. loop \in Loops
  <2>1. c \in AgentCommands BY ConstantsAssumption
  <2>2. report \in Reports BY <2>1, CommandReportsType
  <2> QED BY <1>2, <1>7, <2>1, <2>2, TurnType
<1>10. after \in Tabs /\ after.url # "blank" /\ after.url \in Urls
  BY <1>4, <1>5, GotoType DEF Urls
<1> DEFINE snapshot == IF loop.status # "stalled" /\ report.page \in {"same", "moved"}
                       THEN after.url ELSE first
<1>11. snapshot \in Urls \cup {"none"} BY <1>6, <1>10
<1>12. copy = [t EXCEPT !.snapshot = snapshot] OBVIOUS
<1>13. IF loop.status = "going"
       THEN /\ req' = [req EXCEPT ![s].loop = loop, ![s].copy = copy]
            /\ tab' = [tab EXCEPT ![b] = after]
       ELSE /\ req' = Writes(s, "execute", Applied(copy, loop))
            /\ tab' = Left(s, after)
  BY <1>8
<1> HIDE DEF t, b, page, first, turns, next, moved, seen, ends, pages, loop, copy, snapshot
<1>14. copy \in Tasks /\ copy.journal = t.journal /\ copy.approvals = t.approvals /\ Kept(t, copy)
  BY <1>1, <1>11, <1>12 DEF Tasks, Kept
<1>15. GoodTask(copy)
  BY <1>1, <1>14, SameRecord DEF Kept, ApprovalsKept, Approved
<1> DEFINE end == Applied(copy, loop)
<1>16. GoodTask(end) /\ Kept(copy, end) /\ end.approvals = copy.approvals
  BY <1>9, <1>15, AppliedGood
<1> HIDE DEF end
<1>17. Kept(t, end) /\ end.approvals = t.approvals BY <1>14, <1>16 DEF Kept
<1>18. CASE loop.status = "going"
  <2>1. Looping(s, copy, loop, after)
    BY <1>3, <1>9, <1>10, <1>13, <1>14, <1>15, <1>18 DEF Looping, t, b
  <2> QED BY <2>1
<1>19. CASE loop.status # "going"
  <2>1. req' = Writes(s, "execute", end) /\ tab' = Left(s, after)
    BY <1>13, <1>19 DEF end
  <2>2. Looping(s, end, loop, after)
    BY <1>3, <1>9, <1>10, <1>16, <1>17, <2>1 DEF Looping, t, b
  <2> QED BY <2>2
<1> QED BY <1>18, <1>19

\* what StoppedStays asks of one update, from row t to row u
Stays(t, u) ==
  t.status \in {"paused", "cancelled", "completed"} =>
    /\ u.run = t.run
    /\ u.journal \in {t.journal, <<>>}
    /\ u.status # t.status => t.status = "paused" /\ u.status \in {"ready", "cancelled"}

\* what a short request does: it holds a changed copy of the row it has read
Short(s, kind, copy) ==
  /\ req[s].pc = "idle" /\ kind \in RequestKinds \ {"execute"}
  /\ GoodTask(copy) /\ copy.version = task.version /\ Stays(task, copy)
  /\ \/ copy.clar = task.clar /\ (Clarifiable(copy) => Clarifiable(task))
     \/ copy.clar = task.clar + 1 /\ Clarifiable(task) /\ ~Clarifiable(copy)
  /\ req' = Writes(s, kind, copy)
  /\ UNCHANGED <<task, tab, asked>>

LEMMA WithStatusGood ==
  ASSUME NEW t, GoodTask(t), NEW status \in Statuses
  PROVE LET u == WithStatus(t, status) IN
        /\ GoodTask(u) /\ u.status = status /\ u.waiting = "none" /\ Kept(t, u)
        /\ u.run = t.run /\ u.journal = t.journal /\ u.approvals = t.approvals
        /\ u.plan = t.plan /\ u.snapshot = t.snapshot
<1>1. t \in Tasks BY DEF GoodTask
<1>2. LET u == WithStatus(t, status) IN
        /\ u.status = status /\ u.waiting = "none"
        /\ u.run = t.run /\ u.journal = t.journal /\ u.approvals = t.approvals
        /\ u.plan = t.plan /\ u.snapshot = t.snapshot
  BY <1>1 DEF WithStatus, Tasks
<1>3. GoodTask(WithStatus(t, status)) /\ Kept(t, WithStatus(t, status))
  BY StatusGood DEF WithStatus
<1> QED BY <1>2, <1>3

LEMMA PlanShort ==
  ASSUME TypeInv, NEW s \in Sessions, Plan(s) PROVE \E kind, copy : Short(s, kind, copy)
<1> DEFINE w == WithStatus(task, "ready")
           n == task.plan + 1
           nothing == <<>>
           u == [w EXCEPT !.plan = n, !.journal = nothing, !.approvals = nothing,
                          !.snapshot = "none", !.fill = "none"]
<1>1. GoodTask(task) /\ task.plan \in Nat BY DEF TypeInv, GoodTask, Tasks
<1>2. GoodTask(w) /\ w.status = "ready" /\ Kept(task, w) /\ w.run = task.run
  BY <1>1, WithStatusGood DEF Statuses
<1>3. /\ req[s].pc = "idle" /\ task.status \notin {"running", "completed", "cancelled"}
      /\ req' = Writes(s, "plan", u) /\ UNCHANGED <<task, tab, asked>>
  BY DEF Plan, Reads
<1>n. n \in Nat /\ nothing \in Seq(Entries) /\ nothing \in Seq(Approvals) BY <1>1
<1> HIDE DEF w, n, nothing
<1>4. w \in Tasks BY <1>2 DEF GoodTask
<1>5. /\ u \in Tasks /\ u.status = "ready" /\ u.journal = nothing /\ u.run = w.run
      /\ u.version = w.version /\ u.clar = w.clar
  BY <1>n, <1>2, <1>4 DEF Tasks
<1> HIDE DEF u
<1>6. GoodTask(u) BY <1>5 DEF GoodTask, NeverPrepared, StartsApproved, nothing
<1>7. ~Clarifiable(u) BY <1>5 DEF Clarifiable
<1>8. Short(s, "plan", u)
  BY <1>2, <1>3, <1>5, <1>6, <1>7 DEF Short, RequestKinds, Stays, Kept, nothing
<1> QED BY <1>8

LEMMA MapPageShort ==
  ASSUME TypeInv, NEW s \in Sessions, MapPage(s) PROVE \E kind, copy : Short(s, kind, copy)
<1> DEFINE u == [task EXCEPT !.fill = task.snapshot]
<1>1. GoodTask(task) /\ task \in Tasks /\ task.snapshot \in Urls \cup {"none"}
  BY DEF TypeInv, GoodTask, Tasks
<1>2. req[s].pc = "idle" /\ req' = Writes(s, "map_page", u) /\ UNCHANGED <<task, tab, asked>>
  BY DEF MapPage, Reads
<1>3. /\ u \in Tasks /\ u.journal = task.journal /\ u.approvals = task.approvals
      /\ u.policy = task.policy /\ u.status = task.status /\ u.waiting = task.waiting
      /\ u.run = task.run /\ u.clar = task.clar /\ u.version = task.version
  BY <1>1 DEF Tasks
<1> HIDE DEF u
<1>4. GoodTask(u) BY <1>1, <1>3, SameRecord DEF ApprovalsKept, Approved
<1>5. Clarifiable(u) => Clarifiable(task) BY <1>3 DEF Clarifiable
<1>6. Short(s, "map_page", u)
  BY <1>2, <1>3, <1>4, <1>5 DEF Short, RequestKinds, Stays
<1> QED BY <1>6

LEMMA ApproveShort ==
  ASSUME TypeInv, NEW s \in Sessions, Approve(s) PROVE \E kind, copy : Short(s, kind, copy)
<1> DEFINE w == WithStatus(task, "ready")
           last == task.journal[Len(task.journal)]
           a == Approval(task.plan, last.step, last.reason)
           A == Append(task.approvals, a)
           u == [w EXCEPT !.approvals = A]
<1>1. /\ GoodTask(task) /\ task.plan \in Nat /\ task.journal \in Seq(Entries)
      /\ task.approvals \in Seq(Approvals) /\ task.waiting \in Reasons \cup {"none"}
  BY DEF TypeInv, GoodTask, Tasks
<1>2. /\ GoodTask(w) /\ w.status = "ready" /\ Kept(task, w) /\ w.approvals = task.approvals
  BY <1>1, WithStatusGood DEF Statuses
<1>3. /\ req[s].pc = "idle" /\ task.status = "waiting_for_user"
      /\ task.journal # <<>> /\ last.reason = task.waiting
      /\ req' = Writes(s, "approve", u) /\ UNCHANGED <<task, tab, asked>>
  BY DEF Approve, Approvable, Reads
<1>4. last \in Entries BY <1>1, <1>3
<1>5. last.step \in StepIds /\ last.reason \in Reasons
  BY <1>1, <1>3, <1>4 DEF Entries, StepReasons, Reasons
<1> HIDE DEF w, last
<1>6. a \in Approvals BY <1>1, <1>5 DEF Approval, Approvals
<1> HIDE DEF a
<1>7. /\ A \in Seq(Approvals) /\ Len(A) = Len(task.approvals) + 1 /\ Len(task.approvals) \in Nat
      /\ \A i \in 1..Len(task.approvals) : A[i] = task.approvals[i]
  BY <1>1, <1>6
<1> HIDE DEF A
<1>8. w \in Tasks BY <1>2 DEF GoodTask
<1>9. /\ u \in Tasks /\ u.journal = w.journal /\ u.policy = w.policy /\ u.approvals = A
      /\ u.status = w.status /\ u.version = w.version /\ u.clar = w.clar
  BY <1>7, <1>8 DEF Tasks
<1> HIDE DEF u
<1>10. ApprovalsKept(w, u) BY <1>2, <1>7, <1>9 DEF ApprovalsKept, Approved
<1>11. GoodTask(u) BY <1>2, <1>9, <1>10, SameRecord
<1>12. ~Clarifiable(u) BY <1>2, <1>9 DEF Clarifiable
<1>13. Short(s, "approve", u)
  BY <1>2, <1>3, <1>9, <1>11, <1>12 DEF Short, RequestKinds, Stays, Kept
<1> QED BY <1>13

LEMMA ClarifyShort ==
  ASSUME TypeInv, NEW s \in Sessions, Clarify(s) PROVE \E kind, copy : Short(s, kind, copy)
<1> DEFINE w == WithStatus(task, "ready")
           n == task.clar + 1
           u == [w EXCEPT !.clar = n]
<1>1. GoodTask(task) /\ task.clar \in Nat BY DEF TypeInv, GoodTask, Tasks
<1>2. GoodTask(w) /\ w.status = "ready" /\ Kept(task, w)
  BY <1>1, WithStatusGood DEF Statuses
<1>3. /\ req[s].pc = "idle" /\ Clarifiable(task)
      /\ req' = Writes(s, "clarify", u) /\ UNCHANGED <<task, tab, asked>>
  BY DEF Clarify, Reads
<1>n. n \in Nat BY <1>1
<1> HIDE DEF w, n
<1>4. w \in Tasks BY <1>2 DEF GoodTask
<1>5. /\ u \in Tasks /\ u.journal = w.journal /\ u.policy = w.policy /\ u.approvals = w.approvals
      /\ u.status = w.status /\ u.version = w.version /\ u.clar = n
  BY <1>n, <1>4 DEF Tasks
<1> HIDE DEF u
<1>6. GoodTask(u) BY <1>2, <1>5, SameRecord DEF ApprovalsKept, Approved
<1>7. ~Clarifiable(u) BY <1>2, <1>5 DEF Clarifiable
<1>8. task.status = "waiting_for_user" BY <1>3 DEF Clarifiable
<1>9. Short(s, "clarify", u)
  BY <1>2, <1>3, <1>5, <1>6, <1>7, <1>8 DEF Short, RequestKinds, Stays, Kept, n
<1> QED BY <1>9

LEMMA StatusShort ==
  ASSUME TypeInv, NEW s \in Sessions, Pause(s) \/ Resume(s) \/ Cancel(s)
  PROVE \E kind, copy : Short(s, kind, copy)
<1>0. GoodTask(task) BY DEF TypeInv
<1>1. ASSUME NEW status \in {"paused", "ready", "cancelled"},
             NEW kind \in {"pause", "resume", "cancel"},
             req[s].pc = "idle", req' = Writes(s, kind, WithStatus(task, status)),
             task.status \in {"paused", "cancelled", "completed"} =>
               task.status = "paused" /\ status \in {"ready", "cancelled"},
             UNCHANGED <<task, tab, asked>>
      PROVE \E k, copy : Short(s, k, copy)
  <2> DEFINE u == WithStatus(task, status)
  <2>1. /\ GoodTask(u) /\ u.status = status /\ Kept(task, u)
        /\ u.run = task.run /\ u.journal = task.journal
    BY <1>0, WithStatusGood DEF Statuses
  <2> HIDE DEF u
  <2>2. ~Clarifiable(u) BY <2>1 DEF Clarifiable
  <2>3. Short(s, kind, u)
    BY <1>1, <2>1, <2>2 DEF Short, RequestKinds, Stays, Kept, u
  <2> QED BY <2>3
<1>2. CASE Pause(s) BY <1>1, <1>2 DEF Pause, Reads
<1>3. CASE Resume(s) BY <1>1, <1>3 DEF Resume, Reads
<1>4. CASE Cancel(s) BY <1>1, <1>4 DEF Cancel, Reads
<1> QED BY <1>2, <1>3, <1>4

\* an execution starts from a copy that is ready, with the browser as it is
Starting(s, pc, copy) ==
  /\ req[s].pc = "idle" /\ pc \in {"step", "loop"}
  /\ GoodTask(copy) /\ Kept(task, copy) /\ copy.approvals = task.approvals
  /\ task.status \in {"ready", "waiting_for_user"}
  /\ req' = [req EXCEPT ![s] = [pc |-> pc, kind |-> "execute", loop |-> NewLoop, copy |-> copy]]
  /\ UNCHANGED <<task, tab, asked>>

LEMMA ExecuteStart ==
  ASSUME TypeInv, NEW s \in Sessions, Execute(s) PROVE \E pc, copy : Starting(s, pc, copy)
<1> DEFINE t == Taken(task)
           pc == IF t.llm THEN "loop" ELSE "step"
           u == IF t.llm THEN t ELSE WithStatus(t, "running")
<1>0. GoodTask(task) BY DEF TypeInv
<1>1. /\ req[s].pc = "idle" /\ t.status = "ready" /\ UNCHANGED <<task, tab, asked>>
      /\ req' = [req EXCEPT ![s] = [pc |-> pc, kind |-> "execute", loop |-> NewLoop, copy |-> u]]
  BY DEF Execute, Reads
<1>2. /\ GoodTask(t) /\ Kept(task, t) /\ t.approvals = task.approvals
  BY <1>0, WithStatusGood DEF Taken, Statuses, Kept
<1>3. task.status \in {"ready", "waiting_for_user"} BY <1>1 DEF Taken
<1> HIDE DEF t
<1>4. /\ GoodTask(u) /\ Kept(t, u) /\ u.approvals = t.approvals
  BY <1>2, WithStatusGood DEF Statuses, Kept
<1>5. pc \in {"step", "loop"} OBVIOUS
<1> HIDE DEF pc, u
<1>6. Kept(task, u) BY <1>2, <1>4 DEF Kept
<1>7. Starting(s, pc, u) BY <1>1, <1>2, <1>3, <1>4, <1>5, <1>6 DEF Starting
<1> QED BY <1>7

-----------------------------------------------------------------------------
(* TypeInv is inductive                                                     *)

\* a session that comes to state w, with page in its browser
Comes(s, w, page) ==
  /\ w \in Working /\ GoodTask(w.copy)
  /\ page \in Tabs
  /\ page.url # "blank" \/ page = tab[TabOf(s)] \/ (~SharedBrowser /\ page = NewTab)
  /\ w.pc = "loop" /\ w.loop # NewLoop => page.url # "blank"
  /\ req' = [req EXCEPT ![s] = w]
  /\ tab' = [tab EXCEPT ![TabOf(s)] = page]

LEMMA ComesKeepsTypeInv ==
  ASSUME TypeInv, NEW s \in Sessions, NEW w, NEW page, Comes(s, w, page),
         GoodTask(task'), asked' \in Nat
  PROVE TypeInv'
<1>1. /\ req \in [Sessions -> Working] /\ tab \in [Sessions \cup {SharedTab} -> Tabs]
      /\ TabOf(s) \in Sessions \cup {SharedTab}
  BY TabOfType DEF TypeInv
<1>2. req' \in [Sessions -> Working] /\ tab' \in [Sessions \cup {SharedTab} -> Tabs]
  BY <1>1 DEF Comes
<1>3. \A s2 \in Sessions : req'[s2] = IF s2 = s THEN w ELSE req[s2]
  BY <1>1 DEF Comes
<1>4. \A s2 \in Sessions : GoodTask(req'[s2].copy)
  BY <1>3 DEF Comes, TypeInv
<1>5. ASSUME NEW s2 \in Sessions, req'[s2].pc = "loop", req'[s2].loop # NewLoop
      PROVE tab'[TabOf(s2)].url # "blank"
  <2>1. TabOf(s2) \in Sessions \cup {SharedTab} BY TabOfType
  <2>2. tab'[TabOf(s2)] = IF TabOf(s2) = TabOf(s) THEN page ELSE tab[TabOf(s2)]
    BY <1>1, <2>1 DEF Comes
  <2>3. CASE s2 = s BY <1>3, <1>5, <2>2, <2>3 DEF Comes
  <2>4. CASE s2 # s
    <3>1. tab[TabOf(s2)].url # "blank" BY <1>3, <1>5, <2>4 DEF TypeInv
    <3>2. CASE TabOf(s2) # TabOf(s) BY <2>2, <3>1, <3>2
    <3>3. CASE TabOf(s2) = TabOf(s)
      <4>1. SharedBrowser BY <2>4, <3>3 DEF TabOf
      <4> QED BY <2>2, <3>1, <3>3, <4>1 DEF Comes
    <3> QED BY <3>2, <3>3
  <2> QED BY <2>3, <2>4
<1>6. TabOf(s)' = TabOf(s) BY DEF TabOf
<1> QED BY <1>2, <1>4, <1>5 DEF TypeInv, GoodTask, NeverPrepared, StartsApproved, Approved, LeftToUser, TabOf

\* to its last update, or to the end of what it did
LEMMA WritesWorking ==
  ASSUME NEW kind \in RequestKinds, NEW copy \in Tasks
  PROVE [pc |-> "update", kind |-> kind, copy |-> copy, loop |-> NewLoop] \in Working
BY NewLoopType DEF Working

LEMMA NoCopyGood == GoodTask(NoCopy) /\ Idle(NoCopy) \in Working
<1>1. NoCopy \in Tasks /\ NoCopy.journal = <<>>
  BY DEF NoCopy, NewTask, Tasks, Statuses, Kinds
<1>2. GoodTask(NoCopy) BY <1>1 DEF GoodTask, NeverPrepared, StartsApproved
<1>3. Idle(NoCopy) \in Working BY <1>1, NewLoopType DEF Idle, Working, RequestKinds
<1> QED BY <1>2, <1>3

LEMMA SamePage ==
  ASSUME TypeInv, NEW s \in Sessions, UNCHANGED tab
  PROVE tab' = [tab EXCEPT ![TabOf(s)] = tab[TabOf(s)]] /\ tab[TabOf(s)] \in Tabs
BY TabOfType DEF TypeInv

LEMMA LeftPage ==
  ASSUME TypeInv, NEW s \in Sessions, NEW page \in Tabs, tab' = Left(s, page)
  PROVE tab' = [tab EXCEPT ![TabOf(s)] = IF SharedBrowser THEN page ELSE NewTab]
BY DEF Left

LEMMA ShortComes ==
  ASSUME TypeInv, NEW s \in Sessions, NEW kind, NEW copy, Short(s, kind, copy)
  PROVE Comes(s, [pc |-> "update", kind |-> kind, copy |-> copy, loop |-> NewLoop], tab[TabOf(s)])
<1>1. copy \in Tasks /\ kind \in RequestKinds BY DEF Short, GoodTask
<1> QED BY <1>1, WritesWorking, SamePage DEF Short, Comes, Writes

LEMMA StartingComes ==
  ASSUME TypeInv, NEW s \in Sessions, NEW pc, NEW copy, Starting(s, pc, copy)
  PROVE Comes(s, [pc |-> pc, kind |-> "execute", loop |-> NewLoop, copy |-> copy], tab[TabOf(s)])
<1>1. copy \in Tasks /\ pc \in {"step", "loop"} BY DEF Starting, GoodTask
<1>2. [pc |-> pc, kind |-> "execute", loop |-> NewLoop, copy |-> copy] \in Working
  BY <1>1, NewLoopType DEF Working, RequestKinds
<1> QED BY <1>1, <1>2, SamePage DEF Starting, Comes

LEMMA SteppingComes ==
  ASSUME TypeInv, NEW s \in Sessions, NEW u, NEW page, Stepping(s, u, page)
  PROVE \/ Comes(s, [req[s] EXCEPT !.copy = u], page)
        \/ Comes(s, [pc |-> "update", kind |-> "execute", copy |-> u, loop |-> NewLoop],
                 IF SharedBrowser THEN page ELSE NewTab)
<1>1. u \in Tasks /\ page \in Tabs /\ req[s] \in Working /\ req[s].pc = "step"
  BY DEF Stepping, GoodTask, TypeInv
<1>2. CASE u.status = "running"
  <2>1. req' = [req EXCEPT ![s].copy = u] /\ tab' = [tab EXCEPT ![TabOf(s)] = page]
    BY <1>2 DEF Stepping, Stepped
  <2>2. /\ [req[s] EXCEPT !.copy = u] \in Working /\ [req[s] EXCEPT !.copy = u].copy = u
        /\ [req[s] EXCEPT !.copy = u].pc = "step"
    BY <1>1 DEF Working
  <2> QED BY <1>1, <2>1, <2>2 DEF Stepping, Comes
<1>3. CASE u.status # "running"
  <2>1. req' = Writes(s, "execute", u) /\ tab' = Left(s, page)
    BY <1>3 DEF Stepping, Stepped
  <2>2. [pc |-> "update", kind |-> "execute", copy |-> u, loop |-> NewLoop] \in Working
    BY <1>1, WritesWorking DEF RequestKinds
  <2> QED BY <1>1, <2>1, <2>2, NewTabType DEF Stepping, Comes, Writes, Left
<1> QED BY <1>2, <1>3

LEMMA LoopingComes ==
  ASSUME TypeInv, NEW s \in Sessions, NEW u, NEW loop, NEW page, Looping(s, u, loop, page)
  PROVE \/ Comes(s, [req[s] EXCEPT !.loop = loop, !.copy = u], page)
        \/ Comes(s, [pc |-> "update", kind |-> "execute", copy |-> u, loop |-> NewLoop],
                 IF SharedBrowser THEN page ELSE NewTab)
<1>1. /\ u \in Tasks /\ loop \in Loops /\ page \in Tabs /\ page.url # "blank"
      /\ req[s] \in Working /\ req \in [Sessions -> Working]
  BY DEF Looping, GoodTask, TypeInv
<1> DEFINE w == [req[s] EXCEPT !.loop = loop, !.copy = u]
<1>2. CASE req' = [req EXCEPT ![s].loop = loop, ![s].copy = u] /\ tab' = [tab EXCEPT ![TabOf(s)] = page]
  <2>1. w \in Working /\ w.copy = u BY <1>1 DEF Working
  <2>2. req' = [req EXCEPT ![s] = w] BY <1>1, <1>2
  <2> HIDE DEF w
  <2>3. Comes(s, w, page) BY <1>1, <1>2, <2>1, <2>2 DEF Looping, Comes
  <2> QED BY <2>3 DEF w
<1>3. CASE req' = Writes(s, "execute", u) /\ tab' = Left(s, page)
  <2>2. [pc |-> "update", kind |-> "execute", copy |-> u, loop |-> NewLoop] \in Working
    BY <1>1, WritesWorking DEF RequestKinds
  <2> QED BY <1>1, <1>3, <2>2, NewTabType DEF Looping, Comes, Writes, Left
<1> QED BY <1>2, <1>3 DEF Looping

\* the update that wins stores its copy with the next version
Stored(s) ==
  /\ req[s].pc = "update" /\ req[s].copy.version = task.version
  /\ GoodTask(task') /\ task'.version = task.version + 1
  /\ task'.run = req[s].copy.run /\ task'.journal = req[s].copy.journal
  /\ task'.status = req[s].copy.status /\ task'.waiting = req[s].copy.waiting
  /\ task'.clar = req[s].copy.clar /\ task'.policy = req[s].copy.policy
  /\ task'.approvals = req[s].copy.approvals
  /\ asked' = asked + IF req[s].kind = "execute" /\ Clarifiable(req[s].copy) THEN 1 ELSE 0

LEMMA UpdateComes ==
  ASSUME TypeInv, NEW s \in Sessions, Update(s)
  PROVE /\ req[s].pc = "update" /\ Comes(s, Idle(NoCopy), tab[TabOf(s)]) /\ tab' = tab
        /\ Stored(s) \/ UNCHANGED <<task, asked>>
<1> DEFINE n == task.version + 1
           copy == req[s].copy
           u == [copy EXCEPT !.version = n]
<1>1. /\ req[s].pc = "update" /\ req' = [req EXCEPT ![s] = Idle(NoCopy)] /\ tab' = tab
      /\ \/ /\ copy.version = task.version /\ task' = u
            /\ asked' = asked + IF req[s].kind = "execute" /\ Clarifiable(copy) THEN 1 ELSE 0
         \/ UNCHANGED <<task, asked>>
  BY DEF Update
<1>2. Comes(s, Idle(NoCopy), tab[TabOf(s)])
  BY <1>1, NoCopyGood, SamePage DEF Comes, Idle
<1>3. task.version \in Nat /\ GoodTask(copy) /\ copy \in Tasks
  BY DEF TypeInv, GoodTask, Tasks
<1>4. n \in Nat BY <1>3
<1> HIDE DEF n, copy
<1>5. /\ u \in Tasks /\ u.version = n /\ u.run = copy.run /\ u.journal = copy.journal
      /\ u.status = copy.status /\ u.waiting = copy.waiting /\ u.clar = copy.clar
      /\ u.policy = copy.policy /\ u.approvals = copy.approvals
  BY <1>3, <1>4 DEF Tasks
<1> HIDE DEF u
<1>6. GoodTask(u) BY <1>3, <1>5, SameRecord DEF ApprovalsKept, Approved
<1> QED BY <1>1, <1>2, <1>5, <1>6 DEF Stored, n, copy

LEMMA AbandonComes ==
  ASSUME TypeInv, NEW s \in Sessions, Abandon(s)
  PROVE /\ Comes(s, Idle(NoCopy), IF SharedBrowser THEN tab[TabOf(s)] ELSE NewTab)
        /\ UNCHANGED <<task, asked>>
<1>1. tab[TabOf(s)] \in Tabs BY TabOfType DEF TypeInv
<1> QED BY <1>1, NoCopyGood, NewTabType DEF Abandon, Comes, Idle, Left

\* Every step of the system is one of six kinds of steps of one session.
SessionStep(s) ==
  \/ \E kind, copy : Short(s, kind, copy)
  \/ \E pc, copy : Starting(s, pc, copy)
  \/ \E u, page : Stepping(s, u, page)
  \/ \E u, loop, page : Looping(s, u, loop, page)
  \/ Update(s)
  \/ Abandon(s)

LEMMA NextKinds ==
  ASSUME TypeInv, Next
  PROVE \E s \in Sessions : SessionStep(s)
<1>1. PICK s \in Sessions :
        \/ Plan(s) \/ MapPage(s) \/ Approve(s) \/ Clarify(s)
        \/ Pause(s) \/ Resume(s) \/ Cancel(s)
        \/ Execute(s) \/ Block(s) \/ Deny(s) \/ RunStep(s) \/ LoopTurn(s)
        \/ Update(s) \/ Abandon(s)
  BY Zenon DEF Next
<1>2. CASE Plan(s) BY <1>2, PlanShort, Zenon DEF SessionStep
<1>3. CASE MapPage(s) BY <1>3, MapPageShort, Zenon DEF SessionStep
<1>4. CASE Approve(s) BY <1>4, ApproveShort, Zenon DEF SessionStep
<1>5. CASE Clarify(s) BY <1>5, ClarifyShort, Zenon DEF SessionStep
<1>6. CASE Pause(s) \/ Resume(s) \/ Cancel(s) BY <1>6, StatusShort, Zenon DEF SessionStep
<1>7. CASE Execute(s) BY <1>7, ExecuteStart, Zenon DEF SessionStep
<1>8. CASE Block(s) BY <1>8, BlockStep, Zenon DEF SessionStep
<1>9. CASE Deny(s) BY <1>9, DenyStep, Zenon DEF SessionStep
<1>10. CASE RunStep(s) BY <1>10, RunStepStep, Zenon DEF SessionStep
<1>11. CASE LoopTurn(s) BY <1>11, LoopTurnStep, Zenon DEF SessionStep
<1>12. CASE Update(s) \/ Abandon(s) BY <1>12, Zenon DEF SessionStep
<1> QED BY <1>1, <1>2, <1>3, <1>4, <1>5, <1>6, <1>7, <1>8, <1>9, <1>10, <1>11, <1>12

LEMMA InitTypeInv == Init => TypeInv
<1> SUFFICES ASSUME Init PROVE TypeInv OBVIOUS
<1>1. PICK mode \in Modes, kind \in TaskKinds, policy \in Policies, llm \in Llm :
        task = NewTask(mode, kind, policy, llm)
  BY DEF Init
<1>2. /\ mode \in {"plan_only", "step_by_step", "safe_auto"} /\ kind \in Kinds
      /\ policy \in SUBSET Flags /\ llm \in BOOLEAN
  BY ConstantsAssumption
<1>3. task \in Tasks /\ task.journal = <<>>
  BY <1>1, <1>2 DEF NewTask, Tasks, Statuses
<1>4. GoodTask(task) BY <1>3 DEF GoodTask, NeverPrepared, StartsApproved
<1>5. \A s \in Sessions : req[s] = Idle(NoCopy) BY DEF Init
<1>6. Idle(NoCopy).pc = "idle" /\ Idle(NoCopy).copy = NoCopy BY DEF Idle
<1>7. req \in [Sessions -> Working] BY NoCopyGood DEF Init
<1>8. tab \in [Sessions \cup {SharedTab} -> Tabs] BY NewTabType DEF Init
<1>9. asked \in Nat BY DEF Init
<1> QED BY <1>4, <1>5, <1>6, <1>7, <1>8, <1>9, NoCopyGood DEF TypeInv

LEMMA NextTypeInv == TypeInv /\ [Next]_vars => TypeInv'
<1> SUFFICES ASSUME TypeInv, [Next]_vars PROVE TypeInv' OBVIOUS
<1>1. CASE UNCHANGED vars
  BY <1>1 DEF vars, TypeInv, GoodTask, NeverPrepared, StartsApproved, Approved, LeftToUser, TabOf
<1>2. CASE Next
  <2>0. GoodTask(task) /\ asked \in Nat BY DEF TypeInv
  <2>1. PICK s \in Sessions : SessionStep(s) BY <1>2, NextKinds
  <2>2. CASE \E kind, copy : Short(s, kind, copy)
    <3>1. PICK kind, copy : Short(s, kind, copy) BY <2>2
    <3>2. task' = task /\ asked' = asked BY <3>1 DEF Short
    <3> QED BY <2>0, <3>1, <3>2, ShortComes, ComesKeepsTypeInv
  <2>3. CASE \E pc, copy : Starting(s, pc, copy)
    <3>1. PICK pc, copy : Starting(s, pc, copy) BY <2>3
    <3>2. task' = task /\ asked' = asked BY <3>1 DEF Starting
    <3> QED BY <2>0, <3>1, <3>2, StartingComes, ComesKeepsTypeInv
  <2>4. CASE \E u, page : Stepping(s, u, page)
    <3>1. PICK u, page : Stepping(s, u, page) BY <2>4
    <3>2. task' = task /\ asked' = asked BY <3>1 DEF Stepping
    <3> QED BY <2>0, <3>1, <3>2, SteppingComes, ComesKeepsTypeInv
  <2>5. CASE \E u, loop, page : Looping(s, u, loop, page)
    <3>1. PICK u, loop, page : Looping(s, u, loop, page) BY <2>5
    <3>2. task' = task /\ asked' = asked BY <3>1 DEF Looping
    <3> QED BY <2>0, <3>1, <3>2, LoopingComes, ComesKeepsTypeInv
  <2>6. CASE Update(s)
    <3>1. Comes(s, Idle(NoCopy), tab[TabOf(s)]) /\ (Stored(s) \/ UNCHANGED <<task, asked>>)
      BY <2>6, UpdateComes
    <3>2. GoodTask(task') /\ asked' \in Nat BY <2>0, <3>1 DEF Stored
    <3> QED BY <3>1, <3>2, ComesKeepsTypeInv
  <2>7. CASE Abandon(s)
    <3>1. task' = task /\ asked' = asked BY <2>7, AbandonComes
    <3> QED BY <2>0, <2>7, <3>1, AbandonComes, ComesKeepsTypeInv
  <2> QED BY <2>1, <2>2, <2>3, <2>4, <2>5, <2>6, <2>7 DEF SessionStep
<1> QED BY <1>1, <1>2

\* In every state the row and the copies are tasks, and the loops and pages
\* what they should be (agent_task_from_model can read what update wrote).
THEOREM TypeCorrect == Spec => []TypeOK
BY InitTypeInv, NextTypeInv, TypeInvImpliesTypeOK, PTL DEF Spec

-----------------------------------------------------------------------------
(* StoppedStays, AnswersHaveQuestions and NothingUnasked                    *)

\* what a session that comes to state w leaves of the others
LEMMA OthersStay ==
  ASSUME TypeInv, NEW s \in Sessions, NEW w, NEW page, Comes(s, w, page)
  PROVE /\ req'[s] = w /\ \A s2 \in Sessions \ {s} : req'[s2] = req[s2]
        /\ ~SharedBrowser =>
             tab'[s] = page /\ \A s2 \in Sessions \ {s} : tab'[s2] = tab[s2]
<1>1. req \in [Sessions -> Working] /\ tab \in [Sessions \cup {SharedTab} -> Tabs]
  BY DEF TypeInv
<1> QED BY <1>1 DEF Comes, TabOf

\* A copy of the version that is stored can only be of a task that is at work,
\* or be waiting to be written by a request the status allows.
StopsHold(t, w) ==
  w.pc # "idle" =>
    /\ w.copy.version <= t.version
    /\ w.copy.version = t.version /\ t.status \in {"paused", "cancelled", "completed"} =>
         w.pc = "update" /\ Stays(t, w.copy)
StopInv == \A s \in Sessions : StopsHold(task, req[s])

LEMMA StopStep ==
  ASSUME TypeInv, StopInv, NEW s \in Sessions, NEW w, NEW page, Comes(s, w, page),
         task' = task, StopsHold(task, w)
  PROVE StopInv'
<1>1. \A s2 \in Sessions : StopsHold(task', req'[s2])
  BY OthersStay DEF StopInv
<1> QED BY <1>1 DEF StopInv, StopsHold, Stays

LEMMA NextStopInv == TypeInv /\ StopInv /\ [Next]_vars => StopInv'
<1> SUFFICES ASSUME TypeInv, StopInv, [Next]_vars PROVE StopInv' OBVIOUS
<1>1. CASE UNCHANGED vars BY <1>1 DEF vars, StopInv, StopsHold, Stays
<1>2. CASE Next
  <2>0. /\ task.version \in Nat /\ \A s \in Sessions : req[s] \in Working /\ req[s].copy.version \in Nat
    BY DEF TypeInv, GoodTask, Working, Tasks
  <2>1. PICK s \in Sessions : SessionStep(s) BY <1>2, NextKinds
  <2>2. CASE \E kind, copy : Short(s, kind, copy)
    <3>1. PICK kind, copy : Short(s, kind, copy) BY <2>2
    <3> DEFINE w == [pc |-> "update", kind |-> kind, copy |-> copy, loop |-> NewLoop]
    <3>2. w.pc = "update" /\ w.copy = copy OBVIOUS
    <3>3. Comes(s, w, tab[TabOf(s)]) BY <3>1, ShortComes
    <3> HIDE DEF w
    <3>4. StopsHold(task, w) BY <2>0, <3>1, <3>2 DEF Short, StopsHold
    <3>5. task' = task BY <3>1 DEF Short
    <3> QED BY <3>3, <3>4, <3>5, StopStep
  <2>3. CASE \E pc, copy : Starting(s, pc, copy)
    <3>1. PICK pc, copy : Starting(s, pc, copy) BY <2>3
    <3> DEFINE w == [pc |-> pc, kind |-> "execute", loop |-> NewLoop, copy |-> copy]
    <3>2. w.copy = copy OBVIOUS
    <3>3. Comes(s, w, tab[TabOf(s)]) BY <3>1, StartingComes
    <3> HIDE DEF w
    <3>4. StopsHold(task, w) BY <2>0, <3>1, <3>2 DEF Starting, StopsHold, Kept
    <3>5. task' = task BY <3>1 DEF Starting
    <3> QED BY <3>3, <3>4, <3>5, StopStep
  <2>4. ASSUME NEW u, NEW w, NEW page, Comes(s, w, page), w.copy = u, Kept(req[s].copy, u),
               req[s].pc \in {"step", "loop"}, task' = task
        PROVE StopInv'
    <3>1. StopsHold(task, w) BY <2>0, <2>4 DEF StopInv, StopsHold, Kept
    <3> QED BY <2>4, <3>1, StopStep
  <2>5. CASE \E u, page : Stepping(s, u, page)
    <3>1. PICK u, page : Stepping(s, u, page) BY <2>5
    <3>2. [req[s] EXCEPT !.copy = u].copy = u BY <2>0 DEF Working
    <3>3. Kept(req[s].copy, u) /\ req[s].pc \in {"step", "loop"} /\ task' = task
      BY <3>1 DEF Stepping
    <3> QED BY <2>4, <3>1, <3>2, <3>3, SteppingComes
  <2>6. CASE \E u, loop, page : Looping(s, u, loop, page)
    <3>1. PICK u, loop, page : Looping(s, u, loop, page) BY <2>6
    <3>2. [req[s] EXCEPT !.loop = loop, !.copy = u].copy = u BY <2>0 DEF Working
    <3>3. Kept(req[s].copy, u) /\ req[s].pc \in {"step", "loop"} /\ task' = task
      BY <3>1 DEF Looping
    <3> QED BY <2>4, <3>1, <3>2, <3>3, LoopingComes
  <2>7. CASE Update(s)
    <3>1. Comes(s, Idle(NoCopy), tab[TabOf(s)]) /\ (Stored(s) \/ UNCHANGED <<task, asked>>)
      BY <2>7, UpdateComes
    <3>2. Idle(NoCopy).pc = "idle" BY DEF Idle
    <3>3. CASE task' = task BY <3>1, <3>2, <3>3, StopStep DEF StopsHold
    <3>4. CASE Stored(s)
      <4>1. ASSUME NEW s2 \in Sessions PROVE StopsHold(task', req'[s2])
        <5>1. CASE s2 = s BY <3>1, <3>2, <5>1, OthersStay DEF StopsHold
        <5>2. CASE s2 # s
          <6>1. req'[s2] = req[s2] BY <3>1, <5>2, OthersStay
          <6>2. req[s2].pc # "idle" => req[s2].copy.version <= task.version BY DEF StopInv, StopsHold
          <6> QED BY <2>0, <3>4, <6>1, <6>2 DEF Stored, StopsHold
        <5> QED BY <5>1, <5>2
      <4> QED BY <4>1 DEF StopInv, StopsHold, Stays
    <3> QED BY <3>1, <3>3, <3>4
  <2>8. CASE Abandon(s)
    <3>2. Idle(NoCopy).pc = "idle" BY DEF Idle
    <3> QED BY <2>8, <3>2, AbandonComes, StopStep DEF StopsHold
  <2> QED BY <2>1, <2>2, <2>3, <2>5, <2>6, <2>7, <2>8 DEF SessionStep
<1> QED BY <1>1, <1>2

\* The action StoppedStays is about, for every step.
LEMMA StopInvStays ==
  TypeInv /\ StopInv /\ [Next]_vars =>
    [task.status \in {"paused", "cancelled", "completed"} =>
       /\ task'.run = task.run
       /\ task'.journal \in {task.journal, <<>>}
       /\ task'.status # task.status =>
            task.status = "paused" /\ task'.status \in {"ready", "cancelled"}]_vars
<1> SUFFICES ASSUME TypeInv, StopInv, Next, task' # task PROVE Stays(task, task')
  BY DEF vars, Stays
<1>1. PICK s \in Sessions : SessionStep(s) BY NextKinds
<1>2. Update(s)
  BY <1>1, AbandonComes DEF SessionStep, Short, Starting, Stepping, Looping
<1>3. Stored(s) BY <1>2, UpdateComes
<1>4. StopsHold(task, req[s]) BY DEF StopInv
<1> QED BY <1>3, <1>4 DEF Stored, StopsHold, Stays

\* A pause, a cancel or the end of a task is not overtaken by an execution that
\* was under way (TaskRepository.update compares the version it has read).
THEOREM NotOvertaken == Spec => StoppedStays
<1>1. Init => StopInv
  BY DEF Init, Idle, StopInv, StopsHold
<1> QED BY <1>1, InitTypeInv, NextTypeInv, NextStopInv, StopInvStays, PTL DEF Spec, StoppedStays

\* An answer is counted when it is written, its question when it was stored; a
\* copy that asks anew is an execution's, and its question is counted with it.
AsksHold(w) ==
  w.pc # "idle" =>
    /\ w.copy.clar <= asked
    /\ w.kind = "execute" \/ (Clarifiable(w.copy) => w.copy.clar < asked)
    /\ w.pc \in {"step", "loop"} => w.kind = "execute"
AskInv ==
  /\ task.clar <= asked /\ (Clarifiable(task) => task.clar < asked)
  /\ \A s \in Sessions : AsksHold(req[s])

LEMMA AskStep ==
  ASSUME TypeInv, AskInv, NEW s \in Sessions, NEW w, NEW page, Comes(s, w, page),
         UNCHANGED <<task, asked>>, AsksHold(w)
  PROVE AskInv'
<1>1. \A s2 \in Sessions : AsksHold(req'[s2])
  BY OthersStay DEF AskInv
<1> QED BY <1>1 DEF AskInv, AsksHold, Clarifiable

LEMMA NextAskInv == TypeInv /\ AskInv /\ [Next]_vars => AskInv'
<1> SUFFICES ASSUME TypeInv, AskInv, [Next]_vars PROVE AskInv' OBVIOUS
<1>1. CASE UNCHANGED vars BY <1>1 DEF vars, AskInv, AsksHold, Clarifiable
<1>2. CASE Next
  <2>0. /\ task.clar \in Nat /\ asked \in Nat
        /\ \A s \in Sessions : req[s] \in Working /\ req[s].copy.clar \in Nat
    BY DEF TypeInv, GoodTask, Working, Tasks
  <2>1. PICK s \in Sessions : SessionStep(s) BY <1>2, NextKinds
  <2>2. CASE \E kind, copy : Short(s, kind, copy)
    <3>1. PICK kind, copy : Short(s, kind, copy) BY <2>2
    <3> DEFINE w == [pc |-> "update", kind |-> kind, copy |-> copy, loop |-> NewLoop]
    <3>2. w.pc = "update" /\ w.copy = copy OBVIOUS
    <3>3. Comes(s, w, tab[TabOf(s)]) BY <3>1, ShortComes
    <3> HIDE DEF w
    <3>4. AsksHold(w) BY <2>0, <3>1, <3>2 DEF Short, AsksHold, AskInv
    <3>5. UNCHANGED <<task, asked>> BY <3>1 DEF Short
    <3> QED BY <3>3, <3>4, <3>5, AskStep
  <2>3. CASE \E pc, copy : Starting(s, pc, copy)
    <3>1. PICK pc, copy : Starting(s, pc, copy) BY <2>3
    <3> DEFINE w == [pc |-> pc, kind |-> "execute", loop |-> NewLoop, copy |-> copy]
    <3>2. w.copy = copy /\ w.kind = "execute" OBVIOUS
    <3>3. Comes(s, w, tab[TabOf(s)]) BY <3>1, StartingComes
    <3> HIDE DEF w
    <3>4. AsksHold(w) BY <2>0, <3>1, <3>2 DEF Starting, AsksHold, AskInv, Kept
    <3>5. UNCHANGED <<task, asked>> BY <3>1 DEF Starting
    <3> QED BY <3>3, <3>4, <3>5, AskStep
  <2>4. ASSUME NEW u, NEW w, NEW page, Comes(s, w, page), w.copy = u, w.kind = "execute",
               Kept(req[s].copy, u), req[s].pc \in {"step", "loop"}, UNCHANGED <<task, asked>>
        PROVE AskInv'
    <3>1. AsksHold(w) BY <2>0, <2>4 DEF AskInv, AsksHold, Kept
    <3> QED BY <2>4, <3>1, AskStep
  <2>5. CASE \E u, page : Stepping(s, u, page)
    <3>1. PICK u, page : Stepping(s, u, page) BY <2>5
    <3>2. Kept(req[s].copy, u) /\ req[s].pc \in {"step", "loop"} /\ UNCHANGED <<task, asked>>
      BY <3>1 DEF Stepping
    <3>3. req[s].kind = "execute" BY <3>2 DEF AskInv, AsksHold
    <3>4. [req[s] EXCEPT !.copy = u].copy = u /\ [req[s] EXCEPT !.copy = u].kind = "execute"
      BY <2>0, <3>3 DEF Working
    <3> QED BY <2>4, <3>1, <3>2, <3>4, SteppingComes
  <2>6. CASE \E u, loop, page : Looping(s, u, loop, page)
    <3>1. PICK u, loop, page : Looping(s, u, loop, page) BY <2>6
    <3>2. Kept(req[s].copy, u) /\ req[s].pc \in {"step", "loop"} /\ UNCHANGED <<task, asked>>
      BY <3>1 DEF Looping
    <3>3. req[s].kind = "execute" BY <3>2 DEF AskInv, AsksHold
    <3>4. /\ [req[s] EXCEPT !.loop = loop, !.copy = u].copy = u
          /\ [req[s] EXCEPT !.loop = loop, !.copy = u].kind = "execute"
      BY <2>0, <3>3 DEF Working
    <3> QED BY <2>4, <3>1, <3>2, <3>4, LoopingComes
  <2>7. CASE Update(s)
    <3>1. Comes(s, Idle(NoCopy), tab[TabOf(s)]) /\ (Stored(s) \/ UNCHANGED <<task, asked>>)
          /\ req[s].pc = "update"
      BY <2>7, UpdateComes
    <3>2. Idle(NoCopy).pc = "idle" BY DEF Idle
    <3>3. CASE UNCHANGED <<task, asked>> BY <3>1, <3>2, <3>3, AskStep DEF AsksHold
    <3>4. CASE Stored(s)
      <4>1. AsksHold(req[s]) BY DEF AskInv
      <4>2. Clarifiable(task') <=> Clarifiable(req[s].copy) BY <3>4 DEF Stored, Clarifiable
      <4>3. asked' \in Nat /\ asked <= asked' BY <2>0, <3>4 DEF Stored
      <4>4. task'.clar <= asked' /\ (Clarifiable(task') => task'.clar < asked')
        BY <2>0, <3>1, <3>4, <4>1, <4>2 DEF Stored, AsksHold
      <4>5. ASSUME NEW s2 \in Sessions, req'[s2].pc # "idle"
            PROVE /\ req'[s2].copy.clar <= asked'
                  /\ req'[s2].kind = "execute" \/ (Clarifiable(req'[s2].copy) => req'[s2].copy.clar < asked')
                  /\ req'[s2].pc \in {"step", "loop"} => req'[s2].kind = "execute"
        <5>1. s2 # s BY <3>1, <3>2, <4>5, OthersStay
        <5>2. req'[s2] = req[s2] BY <3>1, <5>1, OthersStay
        <5>3. AsksHold(req[s2]) BY DEF AskInv
        <5> QED BY <2>0, <4>3, <4>5, <5>2, <5>3 DEF AsksHold
      <4> QED BY <4>4, <4>5 DEF AskInv, AsksHold, Clarifiable
    <3> QED BY <3>1, <3>3, <3>4
  <2>8. CASE Abandon(s)
    <3>2. Idle(NoCopy).pc = "idle" BY DEF Idle
    <3> QED BY <2>8, <3>2, AbandonComes, AskStep DEF AsksHold
  <2> QED BY <2>1, <2>2, <2>3, <2>5, <2>6, <2>7, <2>8 DEF SessionStep
<1> QED BY <1>1, <1>2

\* Every clarification that is stored has a question of its own that was stored
\* before it (clarify_agent_task).
THEOREM OneAnswerEach == Spec => []AnswersHaveQuestions
<1>1. Init => AskInv
  <2> SUFFICES ASSUME Init PROVE AskInv OBVIOUS
  <2>1. task.clar = 0 /\ task.status = "ready" BY DEF Init, NewTask
  <2>2. asked = 0 /\ \A s \in Sessions : req[s].pc = "idle" BY DEF Init, Idle
  <2> QED BY <2>1, <2>2 DEF AskInv, AsksHold, Clarifiable
<1>2. AskInv => AnswersHaveQuestions BY DEF AskInv, AnswersHaveQuestions
<1> QED BY <1>1, <1>2, InitTypeInv, NextTypeInv, NextAskInv, PTL DEF Spec

\* A browser of its own is empty before an execution and after it, and in it are
\* documents only if they were given free or approved.
FormHolds(w, page) ==
  /\ w.pc \notin {"step", "loop"} => page = NewTab
  /\ w.pc = "step" /\ "sensitive" \in page.form =>
       "ask_sensitive" \notin w.copy.policy \/ Approved(w.copy, "fill_documents")
FormInv == \A s \in Sessions : FormHolds(req[s], tab[s])

LEMMA FormStep ==
  ASSUME ~SharedBrowser, TypeInv, FormInv, NEW s \in Sessions, NEW w, NEW page, Comes(s, w, page),
         FormHolds(w, page)
  PROVE FormInv'
<1>1. \A s2 \in Sessions : FormHolds(req'[s2], tab'[s2])
  BY OthersStay DEF FormInv
<1> QED BY <1>1 DEF FormInv, FormHolds, Approved

LEMMA NextFormInv == ~SharedBrowser /\ TypeInv /\ FormInv /\ [Next]_vars => FormInv'
<1> SUFFICES ASSUME ~SharedBrowser, TypeInv, FormInv, [Next]_vars PROVE FormInv' OBVIOUS
<1>1. CASE UNCHANGED vars BY <1>1 DEF vars, FormInv, FormHolds, Approved
<1>2. CASE Next
  <2>0. \A s \in Sessions : req[s] \in Working /\ TabOf(s) = s
    BY DEF TypeInv, TabOf
  <2>1. PICK s \in Sessions : SessionStep(s) BY <1>2, NextKinds
  <2>h. FormHolds(req[s], tab[s]) BY DEF FormInv
  <2>2. CASE \E kind, copy : Short(s, kind, copy)
    <3>1. PICK kind, copy : Short(s, kind, copy) BY <2>2
    <3> DEFINE w == [pc |-> "update", kind |-> kind, copy |-> copy, loop |-> NewLoop]
    <3>2. w.pc = "update" OBVIOUS
    <3>3. Comes(s, w, tab[s]) BY <2>0, <3>1, ShortComes
    <3> HIDE DEF w
    <3>4. FormHolds(w, tab[s]) BY <2>h, <3>1, <3>2 DEF Short, FormHolds
    <3> QED BY <3>3, <3>4, FormStep
  <2>3. CASE \E pc, copy : Starting(s, pc, copy)
    <3>1. PICK pc, copy : Starting(s, pc, copy) BY <2>3
    <3> DEFINE w == [pc |-> pc, kind |-> "execute", loop |-> NewLoop, copy |-> copy]
    <3>2. w.pc = pc OBVIOUS
    <3>3. Comes(s, w, tab[s]) BY <2>0, <3>1, StartingComes
    <3> HIDE DEF w
    <3>4. FormHolds(w, tab[s])
      BY <2>h, <3>1, <3>2, NewTabType DEF Starting, FormHolds
    <3> QED BY <3>3, <3>4, FormStep
  <2>4. ASSUME NEW u, Comes(s, [pc |-> "update", kind |-> "execute", copy |-> u, loop |-> NewLoop],
                            NewTab)
        PROVE FormInv'
    <3> DEFINE w == [pc |-> "update", kind |-> "execute", copy |-> u, loop |-> NewLoop]
    <3>1. w.pc = "update" OBVIOUS
    <3> HIDE DEF w
    <3>2. FormHolds(w, NewTab) BY <3>1 DEF FormHolds
    <3> QED BY <2>4, <3>2, FormStep DEF w
  <2>5. CASE \E u, page : Stepping(s, u, page)
    <3>1. PICK u, page : Stepping(s, u, page) BY <2>5
    <3> DEFINE w == [req[s] EXCEPT !.copy = u]
    <3>2. w.copy = u /\ w.pc = "step" BY <2>0, <3>1 DEF Stepping, Working
    <3> HIDE DEF w
    <3>3. FormHolds(w, page)
      <4>1. "fill_documents" \in StepIds BY StepNames
      <4> QED BY <2>0, <2>h, <3>1, <3>2, <4>1 DEF Stepping, FormHolds, Kept, ApprovalsKept
    <3>4. \/ Comes(s, w, page)
          \/ Comes(s, [pc |-> "update", kind |-> "execute", copy |-> u, loop |-> NewLoop], NewTab)
      BY <3>1, SteppingComes DEF w
    <3> QED BY <2>4, <3>3, <3>4, FormStep
  <2>6. CASE \E u, loop, page : Looping(s, u, loop, page)
    <3>1. PICK u, loop, page : Looping(s, u, loop, page) BY <2>6
    <3> DEFINE w == [req[s] EXCEPT !.loop = loop, !.copy = u]
    <3>2. w.pc = "loop" BY <2>0, <3>1 DEF Looping, Working
    <3> HIDE DEF w
    <3>3. FormHolds(w, page) BY <3>2 DEF FormHolds
    <3>4. \/ Comes(s, w, page)
          \/ Comes(s, [pc |-> "update", kind |-> "execute", copy |-> u, loop |-> NewLoop], NewTab)
      BY <3>1, LoopingComes DEF w
    <3> QED BY <2>4, <3>3, <3>4, FormStep
  <2>7. CASE Update(s)
    <3>1. Comes(s, Idle(NoCopy), tab[s]) /\ req[s].pc = "update" BY <2>0, <2>7, UpdateComes
    <3>2. Idle(NoCopy).pc = "idle" BY DEF Idle
    <3>3. FormHolds(Idle(NoCopy), tab[s]) BY <2>h, <3>1, <3>2 DEF FormHolds
    <3> QED BY <3>1, <3>3, FormStep
  <2>8. CASE Abandon(s)
    <3>1. Comes(s, Idle(NoCopy), NewTab) BY <2>8, AbandonComes
    <3>2. Idle(NoCopy).pc = "idle" BY DEF Idle
    <3>3. FormHolds(Idle(NoCopy), NewTab) BY <3>2 DEF FormHolds
    <3> QED BY <3>1, <3>3, FormStep
  <2> QED BY <2>1, <2>2, <2>3, <2>5, <2>6, <2>7, <2>8 DEF SessionStep
<1> QED BY <1>1, <1>2

LEMMA GoodCopies ==
  TypeInv =>
    \A t \in Copies : \A i \in 1..Len(t.journal) :
      t.journal[i].outcome = "started" /\ LeftToUser(t, t.journal[i].step) =>
        t.journal[i].reason = "user_approved" /\ Approved(t, t.journal[i].step)
BY DEF TypeInv, GoodTask, StartsApproved, Copies

\* Nothing that is left to the user is done without an approval of it: by the
\* plan for any number of sessions, in the form for browsers that are isolated.
THEOREM AskedFirst == ~SharedBrowser => (Spec => []NothingUnasked)
<1> SUFFICES ASSUME ~SharedBrowser PROVE Spec => []NothingUnasked OBVIOUS
<1>1. Init => FormInv
  <2> SUFFICES ASSUME Init PROVE FormInv OBVIOUS
  <2>1. \A s \in Sessions : req[s].pc = "idle" /\ tab[s] = NewTab BY DEF Init, Idle
  <2> QED BY <2>1 DEF FormInv, FormHolds
<1>2. TypeInv /\ FormInv => NothingUnasked
  <2> SUFFICES ASSUME TypeInv, FormInv PROVE NothingUnasked OBVIOUS
  <2>1. \A s \in Sessions : TabOf(s) = s BY DEF TabOf
  <2>2. \A s \in Sessions :
          req[s].pc = "step" /\ "sensitive" \in tab[TabOf(s)].form
            => "ask_sensitive" \notin req[s].copy.policy \/ Approved(req[s].copy, "fill_documents")
    BY <2>1 DEF FormInv, FormHolds
  <2> QED BY <2>2, GoodCopies DEF NothingUnasked
<1>3. TypeInv /\ FormInv /\ [Next]_vars => FormInv' BY NextFormInv
<1> QED BY <1>1, <1>2, <1>3, InitTypeInv, NextTypeInv, PTL DEF Spec
=============================================================================
