---------------------------- MODULE BrowserRunner ----------------------------
(***************************************************************************)
(* What one step of a plan, or one command of the LLM agent, can do to the *)
(* runner's tab and report (adapters/playwright_browser.py).  Pages are    *)
(* reduced to the ones the task's snapshots tell apart, a form to the      *)
(* kinds of values that were typed into it since the page was loaded.      *)
(***************************************************************************)
EXTENDS TaskPlan

Urls == {"target", "option", "review"}
Tabs == [url : Urls \cup {"blank"}, form : SUBSET {"basic", "sensitive", "intent"}]

\* page.goto: a page that is loaded has an empty form
Goto(url) == [url |-> url, form |-> {}]
NewTab == Goto("blank")
Filled(tab, kinds) == [tab EXCEPT !.form = tab.form \cup kinds]

\* BrowserStepResult: snap and fill are what the executor stores, or "none"
Done(tab, snap, fill) ==
  [ok |-> TRUE, reason |-> "done", snap |-> snap, fill |-> fill, tab |-> tab]
Failed(tab, fill) ==
  [ok |-> FALSE, reason |-> "failed", snap |-> "none", fill |-> fill, tab |-> tab]

\* no control to press on this page yet: the task will look again
NotYet(tab) == [ok |-> FALSE, reason |-> "review_action_not_available", snap |-> "none",
                fill |-> "none", tab |-> tab]

\* A step that does not navigate opens the page the task was last seen on.
Opened(t, tab) ==
  IF tab.url # "blank" THEN tab
  ELSE Goto(IF t.snapshot # "none" THEN t.snapshot ELSE "target")

\* observe, once before the first turn of the agent loop
Observed(t, tab) ==
  IF tab.url = "blank" \/ (t.snapshot = "none" /\ tab.url # "target")
  THEN Opened(t, NewTab) ELSE tab

\* _ensure_mapped_page, and the same lines of _prepare_review
Restored(t, tab) == IF tab.url = t.snapshot THEN tab ELSE Goto(t.snapshot)

\* goto either answers or fails; the plan's target is the task's own
NavigateResults == {Done(Goto("target"), "none", "none"), Failed(Goto("target"), "none")}

ReadResults(tab) == {Done(tab, tab.url, "none"), Failed(tab, "none")}

\* the page may have changed since it was mapped, a field may be missing
FillBasicResults(t, tab) ==
  {Failed(tab, "none")} \cup
  IF t.snapshot = "none" \/ tab.url # t.snapshot THEN {}
  ELSE {Failed(tab, t.snapshot), Done(Filled(tab, {"basic"}), "none", t.snapshot)}

\* after an approval the form is filled anew: the basic fields, then the documents
FillSensitiveResults(t, tab) ==
  IF t.snapshot = "none" \/ t.fill = "none" THEN {Failed(tab, "none")}
  ELSE LET page == Restored(t, tab) IN
       {Failed(page, "none"), Failed(Filled(page, {"basic"}), t.fill),
        Done(Filled(page, {"basic", "sensitive"}), "none", t.fill)}

\* _apply_task_intent fills the mapped controls, or follows the one link that
\* matches when nothing on the page is mapped
SelectResults(t, tab) ==
  {Failed(tab, "none")} \cup
  IF t.snapshot = "none" THEN {}
  ELSE {Failed(Restored(t, tab), t.snapshot),
        Done(Filled(Restored(t, tab), {"intent"}), "none", t.snapshot),
        Done(Goto("option"), "option", "none")}

\* the one safe button is pressed; no such button is not an error but a wait
ReviewResults(t, tab) ==
  IF t.snapshot = "none" THEN {Failed(tab, "none")}
  ELSE LET page == Restored(t, tab) IN
       {Failed(page, "none"), Done(Goto("review"), "review", "none"), NotYet(page)}

\* PlaywrightBrowserStepRunner.run; the executor makes an exception a failure
StepResults(t, step, tab) ==
  LET page == Opened(t, tab) IN
  CASE ActionOf[step] = "navigate" -> NavigateResults
    [] ActionOf[step] = "read_page" -> ReadResults(page)
    [] ActionOf[step] = "fill_basic_profile" -> FillBasicResults(t, page)
    [] ActionOf[step] = "fill_sensitive_profile" -> FillSensitiveResults(t, page)
    [] ActionOf[step] = "select_option" -> SelectResults(t, page)
    [] ActionOf[step] = "prepare_review" -> ReviewResults(t, page)
    [] OTHER -> {Failed(page, "none")}

-----------------------------------------------------------------------------
(* Commands of the LLM agent: what each may report.  user: the loop stops.  *)

\* page: the result has a snapshot of the same page or of a new one, has none
\* ("unseen"), or has none although the page has changed ("lost")
Report(user, reason, page) == [user |-> user, reason |-> reason, page |-> page]
NotFound == Report(FALSE, "control_not_found", "unseen")
Unchanged == Report(FALSE, "control_unchanged", "same")
\* a page or a popup of another origin, a control that commits or pays: the user's
CrossOrigin == Report(TRUE, "cross_origin_blocked", "same")
Irreversible == Report(TRUE, "irreversible_click_requires_user", "same")
\* what was done opened another page, in a popup of the origin perhaps, or did not
Acted == {Report(FALSE, "acted", "moved"), Report(FALSE, "acted", "same")}

ClickReports == {NotFound, Irreversible, CrossOrigin, Unchanged} \cup Acted

\* on a canvas or an svg; what hovers over it does not leave the page
ClickVisualReports == {NotFound, Irreversible, CrossOrigin, Unchanged} \cup Acted
DragReports == {NotFound, CrossOrigin, Unchanged} \cup Acted
ZoomReports == {NotFound, CrossOrigin, Unchanged} \cup Acted
HoverReports == {NotFound, Unchanged, Report(FALSE, "acted", "same")}
VisualReports == ClickVisualReports \cup DragReports \cup ZoomReports \cup HoverReports

SelectReports == {NotFound, Report(FALSE, "option_selected", "same")}
FillReports == {NotFound, Report(FALSE, "control_filled", "same")}

\* the loop is never told that the user approved: documents always stop it
FillDocumentReports == {NotFound, Report(TRUE, "sensitive_data_approval_required", "same")}

\* open_url, go_back, scroll and wait; going back may end on another origin
MoveReports ==
  {Report(FALSE, "navigated", "moved"), Report(FALSE, "page_scrolled", "same"),
   Report(FALSE, "navigation_failed", "lost"), Report(TRUE, "cross_origin_blocked", "unseen"),
   Report(TRUE, "cross_origin_blocked", "lost")}

AskReports == {Report(TRUE, "user_input_required", "unseen")}

Finishes == {"finish_ready", "finish_needs_user", "finish_reached", "finish_no_match"}
FinishReports(c) ==
  {Report(c \in {"finish_ready", "finish_needs_user"},
          IF c = "finish_ready" THEN "finished_ready_for_user" ELSE c, "same")}

\* PlaywrightBrowserStepRunner.execute_command
CommandReports(c) ==
  CASE c = "click" -> ClickReports
    [] c = "visual" -> VisualReports
    [] c = "select" -> SelectReports
    [] c = "fill" -> FillReports
    [] c = "fill_document" -> FillDocumentReports
    [] c = "move" -> MoveReports
    [] c = "ask" -> AskReports
    [] c \in Finishes -> FinishReports(c)
=============================================================================
