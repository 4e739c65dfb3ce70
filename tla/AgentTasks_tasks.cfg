SPECIFICATION Spec
CONSTANTS
  s1 = s1
  s2 = s2
  Sessions = {s1, s2}
  TaskKinds = {"train_ticket"}
  Policies <- PoliciesTried
  Modes = {"safe_auto", "step_by_step"}
  Llm = {TRUE, FALSE}
  SharedBrowser = FALSE
  SharedTab = SharedTab
  Chosen = {"click", "ask", "finish_reached"}
  MaxSteps = 2
  RepeatLimit = 2
  RunCap = 2
  MaxClarifications = 1
  MaxVersion = 4
INVARIANTS
  TypeOK
  RowIsCoherent
  JournalFollowsPlan
  NothingUnasked
  ApprovalsAreSpent
  AnswersHaveQuestions
PROPERTY
  StoppedStays
SYMMETRY SessionSymmetry
CHECK_DEADLOCK FALSE
