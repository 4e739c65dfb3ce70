------------------------- MODULE AgentRecordProofs -------------------------
(***************************************************************************)
(* Proofs about AgentTasks: what a task keeps on record of its plan, its   *)
(* approvals and its pages is in order, whoever stores it and whatever the *)
(* browser reports, for any number of requests, failures and resumptions.  *)
(***************************************************************************)
EXTENDS AgentTasksProofs, FiniteSetTheorems

-----------------------------------------------------------------------------
(* The inductive invariant                                                  *)

\* JournalFollowsPlan for the journal of one task or copy
Follows(kind, J) ==
  LET steps == PlanSteps(kind) IN
  \A i \in 1..Len(J) : \A k \in 1..Len(steps) :
    J[i].step = steps[k] =>
      /\ \A before \in 1..(k - 1) :
           \E j \in 1..(i - 1) : J[j].step = steps[before] /\ J[j].outcome = "succeeded"
      /\ \A j \in 1..(i - 1) : J[j].outcome = "succeeded" => J[j].step # J[i].step
      /\ J[i].outcome = "started" /\ i < Len(J) =>
           J[i + 1].step = J[i].step /\ J[i + 1].outcome \in {"succeeded", "failed"}

\* an attempt is recorded with its outcome, never without
Ended(J) == J # <<>> => J[Len(J)].outcome # "started"

\* the attempts that took an approval, the approvals that were taken
Takings(J, step) == {i \in 1..Len(J) : J[i].step = step /\ J[i].reason = "user_approved"}
Consumptions(A, step) == {i \in 1..Len(A) : A[i].step = step /\ A[i].used}
Spent(t) ==
  \A step \in StepIds : Cardinality(Takings(t.journal, step)) = Cardinality(Consumptions(t.approvals, step))

\* approvals are of the current plan, and one of a step at most is unused
Single(plan, A) ==
  \A i, j \in 1..Len(A) :
    /\ A[i].plan = plan
    /\ i # j /\ A[i].step = A[j].step => A[i].used \/ A[j].used

InOrder(t) ==
  /\ Follows(t.kind, t.journal) /\ Ended(t.journal)
  /\ Spent(t) /\ Single(t.plan, t.approvals)
  /\ t.journal # <<>> \/ t.approvals # <<>> => t.plan > 0

\* what may be stored, and what an execution of a plan works on
Storable(t) ==
  /\ t.status = "waiting_for_user" <=> t.waiting # "none"
  /\ t.status \notin {"running", "draft"}
  /\ t.fill \in {"none", t.snapshot}
UnderWay(t) ==
  t.status = "running" /\ t.waiting = "none" /\ t.plan > 0 /\ t.fill \in {"none", t.snapshot}

RecordHolds(w) ==
  /\ InOrder(w.copy)
  /\ w.pc = "step" => UnderWay(w.copy)
  /\ w.pc = "update" => Storable(w.copy)
RecordInv ==
  /\ InOrder(task) /\ Storable(task)
  /\ \A s \in Sessions : RecordHolds(req[s])

-----------------------------------------------------------------------------
(* The journal                                                              *)

\* no plan has a step twice
LEMMA PlanDistinct ==
  ASSUME NEW kind \in Kinds,
         NEW i \in 1..Len(PlanSteps(kind)), NEW j \in 1..Len(PlanSteps(kind)),
         PlanSteps(kind)[i] = PlanSteps(kind)[j]
  PROVE  i = j
<1> DEFINE steps == PlanSteps(kind)
<1>i. i \in 1..Len(steps) /\ j \in 1..Len(steps) /\ steps[i] = steps[j] OBVIOUS
<1>1. CASE kind \in DocumentKinds
  <2>1. steps = <<"open_target", "inspect_page">> \o <<"fill_people">> \o <<"fill_documents">>
                    \o <<"choose_option", "open_review", "prepare_order">>
    BY <1>1 DEF PlanSteps, BasicProfileKinds, DocumentKinds
  <2>2. /\ Len(steps) = 7 /\ steps[1] = "open_target" /\ steps[2] = "inspect_page"
        /\ steps[3] = "fill_people" /\ steps[4] = "fill_documents" /\ steps[5] = "choose_option"
        /\ steps[6] = "open_review" /\ steps[7] = "prepare_order"
    BY <2>1
  <2> HIDE DEF steps
  <2>3. i \in {1, 2, 3, 4, 5, 6, 7} /\ j \in {1, 2, 3, 4, 5, 6, 7} BY <1>i, <2>2
  <2> QED BY <1>i, <2>2, <2>3
<1>2. CASE kind = "hotel"
  <2>1. steps = <<"open_target", "inspect_page">> \o <<"fill_people">> \o <<>>
                    \o <<"choose_option", "open_review", "prepare_order">>
    BY <1>2 DEF PlanSteps, BasicProfileKinds, DocumentKinds
  <2>2. /\ Len(steps) = 6 /\ steps[1] = "open_target" /\ steps[2] = "inspect_page"
        /\ steps[3] = "fill_people" /\ steps[4] = "choose_option"
        /\ steps[5] = "open_review" /\ steps[6] = "prepare_order"
    BY <2>1
  <2> HIDE DEF steps
  <2>3. i \in {1, 2, 3, 4, 5, 6} /\ j \in {1, 2, 3, 4, 5, 6} BY <1>i, <2>2
  <2> QED BY <1>i, <2>2, <2>3
<1>3. CASE kind \notin DocumentKinds \cup {"hotel"}
  <2>1. steps = <<"open_target", "inspect_page">> \o <<>> \o <<>>
                    \o <<"choose_option", "open_review", "prepare_order">>
    BY <1>3 DEF PlanSteps, BasicProfileKinds, DocumentKinds
  <2>2. /\ Len(steps) = 5 /\ steps[1] = "open_target" /\ steps[2] = "inspect_page"
        /\ steps[3] = "choose_option" /\ steps[4] = "open_review" /\ steps[5] = "prepare_order"
    BY <2>1
  <2> HIDE DEF steps
  <2>3. i \in {1, 2, 3, 4, 5} /\ j \in {1, 2, 3, 4, 5} BY <1>i, <2>2
  <2> QED BY <1>i, <2>2, <2>3
<1> QED BY <1>1, <1>2, <1>3

\* a step whose turn it is: all before it have succeeded, it has not
Due(kind, J, step) ==
  LET steps == PlanSteps(kind) IN
  \A k \in 1..Len(steps) : steps[k] = step =>
    /\ \A before \in 1..(k - 1) :
         \E j \in 1..Len(J) : J[j].step = steps[before] /\ J[j].outcome = "succeeded"
    /\ \A j \in 1..Len(J) : J[j].outcome = "succeeded" => J[j].step # step

LEMMA NextIsDue ==
  ASSUME NEW t, GoodTask(t)
  PROVE  Due(t.kind, t.journal, NextStep(t))
<1> DEFINE S == Remaining(t)
           steps == PlanSteps(t.kind)
           n == Len(steps)
<1>1. t.kind \in Kinds /\ t.journal \in Seq(Entries) BY DEF GoodTask, Tasks
<1>2. n \in 5..7 /\ steps \in Seq(StepIds) /\ steps[n] = "prepare_order"
  BY <1>1, PlanShape, PlanLength
<1>3. "prepare_order" \notin Succeeded(t.journal) BY DEF Succeeded, GoodTask, NeverPrepared
<1>4. n \in S BY <1>2, <1>3 DEF Remaining
<1>5. S \in SUBSET (1..n) BY DEF Remaining
<1>6. \A k \in 1..n : k \in S <=> steps[k] \notin Succeeded(t.journal) BY DEF Remaining
<1>7. \A i, j \in 1..n : steps[i] = steps[j] => i = j BY <1>1, PlanDistinct
<1>8. NextStep(t) = steps[CHOOSE k \in S : \A other \in S : k <= other] BY DEF NextStep
<1> HIDE DEF S, n, steps
<1>9. \E k \in S : \A other \in S : k <= other BY <1>2, <1>4, <1>5, LeastPlace
<1>10. PICK least \in S : (\A other \in S : least <= other) /\ NextStep(t) = steps[least]
  BY <1>8, <1>9
<1>11. \A k \in 1..n : steps[k] = NextStep(t) => k = least BY <1>5, <1>7, <1>10
<1>12. \A before \in 1..(least - 1) : steps[before] \in Succeeded(t.journal)
  BY <1>2, <1>5, <1>6, <1>10
<1>13. NextStep(t) \notin Succeeded(t.journal) BY <1>5, <1>6, <1>10
<1> QED BY <1>11, <1>12, <1>13 DEF Due, Succeeded, n, steps

\* What an entry leaves of the places before it.
LEMMA AppendedAt ==
  ASSUME NEW J \in Seq(Entries), NEW e \in Entries
  PROVE  /\ Append(J, e) \in Seq(Entries) /\ Append(J, e) # <<>>
         /\ Len(Append(J, e)) = Len(J) + 1 /\ Len(J) \in Nat
         /\ Append(J, e)[Len(J) + 1] = e
         /\ \A i \in 1..Len(J) : Append(J, e)[i] = J[i]
OBVIOUS

LEMMA StillDue ==
  ASSUME NEW kind, NEW J \in Seq(Entries), NEW e \in Entries, NEW step,
         Due(kind, J, step), e.outcome # "succeeded"
  PROVE  Due(kind, Append(J, e), step)
<1> DEFINE K == Append(J, e)
           steps == PlanSteps(kind)
<1>1. /\ Len(K) = Len(J) + 1 /\ Len(J) \in Nat /\ K[Len(J) + 1] = e
      /\ \A i \in 1..Len(J) : K[i] = J[i]
  BY AppendedAt
<1> HIDE DEF K
<1>2. ASSUME NEW k \in 1..Len(steps), steps[k] = step
      PROVE  /\ \A before \in 1..(k - 1) :
                  \E j \in 1..Len(K) : K[j].step = steps[before] /\ K[j].outcome = "succeeded"
             /\ \A j \in 1..Len(K) : K[j].outcome = "succeeded" => K[j].step # step
  <2>1. /\ \A before \in 1..(k - 1) :
             \E j \in 1..Len(J) : J[j].step = steps[before] /\ J[j].outcome = "succeeded"
        /\ \A j \in 1..Len(J) : J[j].outcome = "succeeded" => J[j].step # step
    BY <1>2 DEF Due
  <2> HIDE DEF steps
  <2>2. ASSUME NEW before \in 1..(k - 1)
        PROVE  \E j \in 1..Len(K) : K[j].step = steps[before] /\ K[j].outcome = "succeeded"
    <3>1. PICK j \in 1..Len(J) : J[j].step = steps[before] /\ J[j].outcome = "succeeded"
      BY <2>1
    <3>2. j \in 1..Len(K) /\ K[j] = J[j]
      BY <1>1
    <3> QED BY <3>1, <3>2
  <2>3. ASSUME NEW j \in 1..Len(K), K[j].outcome = "succeeded"
        PROVE  K[j].step # step
    <3>1. j # Len(J) + 1
      BY <1>1, <2>3
    <3>2. j \in 1..Len(J)
      BY <1>1, <3>1
    <3> QED BY <1>1, <2>1, <2>3, <3>2
  <2> QED BY <2>2, <2>3
<1> QED BY <1>2 DEF Due, K

LEMMA JournalGrows ==
  ASSUME NEW kind, NEW J \in Seq(Entries), NEW e \in Entries, Follows(kind, J), Due(kind, J, e.step),
         \/ Ended(J)
         \/ J[Len(J)].step = e.step /\ e.outcome \in {"succeeded", "failed"}
  PROVE  Follows(kind, Append(J, e))
<1> DEFINE K == Append(J, e)
           steps == PlanSteps(kind)
<1>1. /\ Len(K) = Len(J) + 1 /\ Len(J) \in Nat /\ K[Len(J) + 1] = e
      /\ \A i \in 1..Len(J) : K[i] = J[i]
  BY AppendedAt
<1>e. Len(J) > 0 => J # <<>> OBVIOUS
<1> HIDE DEF K
<1>2. ASSUME NEW i \in 1..Len(K), NEW k \in 1..Len(steps), K[i].step = steps[k]
      PROVE  /\ \A before \in 1..(k - 1) :
                  \E j \in 1..(i - 1) : K[j].step = steps[before] /\ K[j].outcome = "succeeded"
             /\ \A j \in 1..(i - 1) : K[j].outcome = "succeeded" => K[j].step # K[i].step
             /\ K[i].outcome = "started" /\ i < Len(K) =>
                  K[i + 1].step = K[i].step /\ K[i + 1].outcome \in {"succeeded", "failed"}
  <2>1. CASE i = Len(J) + 1
    <3>1. /\ \A before \in 1..(k - 1) :
               \E j \in 1..Len(J) : J[j].step = steps[before] /\ J[j].outcome = "succeeded"
          /\ \A j \in 1..Len(J) : J[j].outcome = "succeeded" => J[j].step # e.step
      BY <1>1, <1>2, <2>1 DEF Due
    <3> HIDE DEF steps
    <3>2. 1..(i - 1) = 1..Len(J) /\ K[i] = e /\ ~(i < Len(K)) BY <1>1, <2>1
    <3>3. \A j \in 1..Len(J) : K[j] = J[j] BY <1>1
    <3>4. \A before \in 1..(k - 1) :
            \E j \in 1..Len(J) : K[j].step = steps[before] /\ K[j].outcome = "succeeded"
      <4> TAKE before \in 1..(k - 1)
      <4>1. PICK j \in 1..Len(J) : J[j].step = steps[before] /\ J[j].outcome = "succeeded"
        BY <3>1
      <4>2. K[j] = J[j] BY <3>3
      <4> QED BY <4>1, <4>2
    <3>5. \A j \in 1..Len(J) : K[j].outcome = "succeeded" => K[j].step # K[i].step
      <4> TAKE j \in 1..Len(J)
      <4>1. K[j] = J[j] BY <3>3
      <4> QED BY <3>1, <3>2, <4>1
    <3> QED BY <3>2, <3>4, <3>5
  <2>2. CASE i \in 1..Len(J)
    <3>1. /\ \A before \in 1..(k - 1) :
               \E j \in 1..(i - 1) : J[j].step = steps[before] /\ J[j].outcome = "succeeded"
          /\ \A j \in 1..(i - 1) : J[j].outcome = "succeeded" => J[j].step # J[i].step
          /\ J[i].outcome = "started" /\ i < Len(J) =>
               J[i + 1].step = J[i].step /\ J[i + 1].outcome \in {"succeeded", "failed"}
      BY <1>1, <1>2, <2>2 DEF Follows
    <3> HIDE DEF steps
    <3>2. K[i] = J[i] /\ \A j \in 1..(i - 1) : K[j] = J[j] BY <1>1, <2>2
    <3>3. \A before \in 1..(k - 1) :
            \E j \in 1..(i - 1) : K[j].step = steps[before] /\ K[j].outcome = "succeeded"
      <4> TAKE before \in 1..(k - 1)
      <4>1. PICK j \in 1..(i - 1) : J[j].step = steps[before] /\ J[j].outcome = "succeeded"
        BY <3>1
      <4>2. K[j] = J[j] BY <3>2
      <4> QED BY <4>1, <4>2
    <3>4. \A j \in 1..(i - 1) : K[j].outcome = "succeeded" => K[j].step # K[i].step
      <4> TAKE j \in 1..(i - 1)
      <4>1. K[j] = J[j] BY <3>2
      <4> QED BY <3>1, <3>2, <4>1
    <3>5. J[i].outcome = "started" =>
            K[i + 1].step = J[i].step /\ K[i + 1].outcome \in {"succeeded", "failed"}
      <4>1. CASE i < Len(J)
        <5>1. K[i + 1] = J[i + 1] BY <1>1, <2>2, <4>1
        <5> QED BY <3>1, <4>1, <5>1
      <4>2. CASE i = Len(J)
        <5>1. K[i + 1] = e BY <1>1, <4>2
        <5>2. J # <<>> BY <1>1, <1>e, <2>2
        <5>3. J[i].outcome = "started" => J[i].step = e.step /\ e.outcome \in {"succeeded", "failed"}
          BY <4>2, <5>2 DEF Ended
        <5> QED BY <5>1, <5>3
      <4> QED BY <1>1, <2>2, <4>1, <4>2
    <3> QED BY <3>2, <3>3, <3>4, <3>5
  <2>3. i = Len(J) + 1 \/ i \in 1..Len(J) BY <1>1
  <2> QED BY <2>1, <2>2, <2>3, Zenon
<1> QED BY <1>2 DEF Follows, K

-----------------------------------------------------------------------------
(* Approvals and the attempts that took them                                *)

LEMMA PlacesFinite ==
  ASSUME NEW n \in Nat, NEW S \in SUBSET (1..n)
  PROVE  IsFiniteSet(S) /\ Cardinality(S) \in Nat
<1>1. IsFiniteSet(1..n) BY FS_Interval
<1>2. IsFiniteSet(S) BY <1>1, FS_Subset
<1> QED BY <1>2, FS_CardinalityType

\* what an entry adds to the attempts of a step
LEMMA TakingsGrow ==
  ASSUME NEW J \in Seq(Entries), NEW e \in Entries, NEW step
  PROVE  Cardinality(Takings(Append(J, e), step)) =
           Cardinality(Takings(J, step))
             + IF e.step = step /\ e.reason = "user_approved" THEN 1 ELSE 0
<1> DEFINE K == Append(J, e)
<1>1. /\ Len(K) = Len(J) + 1 /\ Len(J) \in Nat /\ K[Len(J) + 1] = e
      /\ \A i \in 1..Len(J) : K[i] = J[i]
  BY AppendedAt
<1>2. Takings(J, step) \in SUBSET (1..Len(J)) BY DEF Takings
<1>3. IsFiniteSet(Takings(J, step)) /\ Cardinality(Takings(J, step)) \in Nat
  BY <1>1, <1>2, PlacesFinite
<1> HIDE DEF K
<1>4. CASE e.step = step /\ e.reason = "user_approved"
  <2>1. Takings(K, step) = Takings(J, step) \cup {Len(J) + 1}
    BY <1>1, <1>4 DEF Takings
  <2>2. Len(J) + 1 \notin Takings(J, step) BY <1>1, <1>2
  <2>3. Cardinality(Takings(J, step) \cup {Len(J) + 1}) = Cardinality(Takings(J, step)) + 1
    BY <1>3, <2>2, FS_AddElement
  <2> QED BY <1>4, <2>1, <2>3 DEF K
<1>5. CASE ~(e.step = step /\ e.reason = "user_approved")
  <2>1. Takings(K, step) = Takings(J, step)
    BY <1>1, <1>5 DEF Takings
  <2> QED BY <1>3, <1>5, <2>1 DEF K
<1> QED BY <1>4, <1>5

\* B is A with the unused approval i taken
Takes(A, i, B) ==
  /\ i \in 1..Len(A) /\ Len(B) = Len(A) /\ ~A[i].used
  /\ B[i].used /\ B[i].step = A[i].step /\ B[i].plan = A[i].plan
  /\ \A k \in 1..Len(A) : k # i => B[k] = A[k]

\* an approval that is taken is one more of its step and of no other
LEMMA ConsumptionsGrow ==
  ASSUME NEW A \in Seq(Approvals), NEW B \in Seq(Approvals), NEW i, Takes(A, i, B), NEW step
  PROVE  Cardinality(Consumptions(B, step)) =
           Cardinality(Consumptions(A, step)) + IF A[i].step = step THEN 1 ELSE 0
<1>1. Len(A) \in Nat /\ Consumptions(A, step) \in SUBSET (1..Len(A)) BY DEF Consumptions
<1>2. IsFiniteSet(Consumptions(A, step)) /\ Cardinality(Consumptions(A, step)) \in Nat
  BY <1>1, PlacesFinite
<1>3. CASE A[i].step = step
  <2>1. Consumptions(B, step) = Consumptions(A, step) \cup {i} BY <1>3 DEF Consumptions, Takes
  <2>2. i \notin Consumptions(A, step) BY DEF Consumptions, Takes
  <2>3. Cardinality(Consumptions(A, step) \cup {i}) = Cardinality(Consumptions(A, step)) + 1
    BY <1>2, <2>2, FS_AddElement
  <2> QED BY <1>3, <2>1, <2>3
<1>4. CASE A[i].step # step
  <2>1. Consumptions(B, step) = Consumptions(A, step) BY <1>4 DEF Consumptions, Takes
  <2> QED BY <1>2, <1>4, <2>1
<1> QED BY <1>3, <1>4

-----------------------------------------------------------------------------
(* Tasks whose record is in order                                           *)

\* what a change of the record leaves of a task
Beside(t, u) ==
  /\ u.kind = t.kind /\ u.plan = t.plan /\ u.snapshot = t.snapshot /\ u.fill = t.fill
  /\ u.status = t.status /\ u.waiting = t.waiting

LEMMA SameOrder ==
  ASSUME NEW t, InOrder(t), NEW u, u.kind = t.kind, u.plan = t.plan,
         u.journal = t.journal, u.approvals = t.approvals
  PROVE  InOrder(u)
BY DEF InOrder, Spent

\* a plan of which nothing is recorded
LEMMA EmptyOrder ==
  ASSUME NEW t, t.journal = <<>>, t.approvals = <<>>
  PROVE  InOrder(t)
<1>1. Follows(t.kind, t.journal) /\ Ended(t.journal) BY DEF Follows, Ended
<1>2. \A step \in StepIds : Takings(t.journal, step) = {} /\ Consumptions(t.approvals, step) = {}
  BY DEF Takings, Consumptions
<1>3. Single(t.plan, t.approvals) BY DEF Single
<1> QED BY <1>1, <1>2, <1>3 DEF InOrder, Spent

\* an entry that is no attempt
LEMMA EntryInOrder ==
  ASSUME NEW t \in Tasks, InOrder(t), t.plan > 0, NEW e \in Entries,
         Due(t.kind, t.journal, e.step), e.outcome # "started", e.reason # "user_approved",
         NEW u, u.kind = t.kind, u.plan = t.plan, u.approvals = t.approvals,
         u.journal = Append(t.journal, e)
  PROVE  InOrder(u)
<1>1. t.journal \in Seq(Entries) BY DEF Tasks
<1>2. Follows(t.kind, u.journal) BY <1>1, JournalGrows DEF InOrder
<1>3. Ended(u.journal) BY <1>1, AppendedAt DEF Ended
<1>4. \A step \in StepIds : Cardinality(Takings(u.journal, step)) = Cardinality(Takings(t.journal, step))
  <2> TAKE step \in StepIds
  <2>1. Takings(t.journal, step) \in SUBSET (1..Len(t.journal)) /\ Len(t.journal) \in Nat
    BY <1>1 DEF Takings
  <2>2. Cardinality(Takings(t.journal, step)) \in Nat BY <2>1, PlacesFinite
  <2> QED BY <1>1, <2>2, TakingsGrow
<1> QED BY <1>2, <1>3, <1>4 DEF InOrder, Spent

\* an attempt, its outcome and the approval it took, if it needed one
LEMMA AttemptInOrder ==
  ASSUME NEW t \in Tasks, InOrder(t), t.plan > 0, NEW begun \in Entries, NEW end \in Entries,
         Due(t.kind, t.journal, begun.step), begun.outcome = "started",
         end.step = begun.step, end.outcome \in {"succeeded", "failed"},
         end.reason # "user_approved",
         NEW u \in Tasks, u.kind = t.kind, u.plan = t.plan,
         u.journal = Append(Append(t.journal, begun), end),
         \/ begun.reason # "user_approved" /\ u.approvals = t.approvals
         \/ /\ begun.reason = "user_approved"
            /\ \E i : Takes(t.approvals, i, u.approvals) /\ t.approvals[i].step = begun.step
  PROVE  InOrder(u)
<1> DEFINE J == t.journal
           K == Append(J, begun)
<1>1. /\ J \in Seq(Entries) /\ K \in Seq(Entries) /\ t.approvals \in Seq(Approvals)
      /\ u.approvals \in Seq(Approvals)
  BY AppendedAt DEF Tasks
<1>2. Follows(t.kind, K) BY <1>1, JournalGrows DEF InOrder
<1>3. Due(t.kind, K, begun.step) BY <1>1, StillDue
<1>4. K[Len(K)] = begun BY <1>1, AppendedAt
<1>5. Follows(t.kind, u.journal)
  <2> HIDE DEF K
  <2> QED BY <1>1, <1>2, <1>3, <1>4, JournalGrows DEF K
<1>6. Ended(u.journal)
  <2>1. Append(K, end)[Len(Append(K, end))] = end BY <1>1, AppendedAt
  <2> QED BY <2>1 DEF Ended
<1>7. ASSUME NEW step \in StepIds
      PROVE  Cardinality(Takings(u.journal, step)) = Cardinality(Consumptions(u.approvals, step))
  <2>1. /\ Takings(J, step) \in SUBSET (1..Len(J)) /\ Len(J) \in Nat
        /\ Cardinality(Takings(J, step)) = Cardinality(Consumptions(t.approvals, step))
    BY <1>1 DEF Takings, InOrder, Spent
  <2>2. Cardinality(Takings(J, step)) \in Nat BY <2>1, PlacesFinite
  <2>3. Cardinality(Takings(K, step)) =
          Cardinality(Takings(J, step))
            + IF begun.step = step /\ begun.reason = "user_approved" THEN 1 ELSE 0
    BY <1>1, TakingsGrow
  <2>4. Cardinality(Takings(u.journal, step)) = Cardinality(Takings(K, step)) + 0
    BY <1>1, TakingsGrow
  <2>5. CASE begun.reason # "user_approved" BY <2>1, <2>2, <2>3, <2>4, <2>5
  <2>6. CASE begun.reason = "user_approved"
    <3>1. PICK i : Takes(t.approvals, i, u.approvals) /\ t.approvals[i].step = begun.step BY <2>6
    <3>2. Cardinality(Consumptions(u.approvals, step)) =
            Cardinality(Consumptions(t.approvals, step))
              + IF t.approvals[i].step = step THEN 1 ELSE 0
      BY <1>1, <3>1, ConsumptionsGrow
    <3> QED BY <2>1, <2>2, <2>3, <2>4, <2>6, <3>1, <3>2
  <2> QED BY <2>5, <2>6
<1>8. Single(u.plan, u.approvals)
  <2>1. CASE u.approvals = t.approvals BY <2>1 DEF InOrder
  <2>2. CASE \E i : Takes(t.approvals, i, u.approvals)
    <3>1. PICK i : Takes(t.approvals, i, u.approvals) BY <2>2
    <3>2. \A k \in 1..Len(t.approvals) :
            /\ u.approvals[k].plan = t.approvals[k].plan /\ u.approvals[k].step = t.approvals[k].step
            /\ t.approvals[k].used => u.approvals[k].used
      BY <3>1 DEF Takes
    <3> QED BY <3>1, <3>2 DEF InOrder, Single, Takes
  <2> QED BY <2>1, <2>2
<1> QED BY <1>5, <1>6, <1>7, <1>8 DEF InOrder, Spent

-----------------------------------------------------------------------------
(* What the executor does to a copy                                         *)

LEMMA JournaledRecord ==
  ASSUME NEW t \in Tasks, NEW step \in StepIds, NEW outcome \in Outcomes, NEW reason \in StepReasons
  PROVE  LET u == Journaled(t, step, outcome, reason)
             e == Entry(step, outcome, reason)
         IN /\ u \in Tasks /\ Beside(t, u) /\ u.approvals = t.approvals
            /\ u.journal = Append(t.journal, e)
            /\ e \in Entries /\ e.step = step /\ e.outcome = outcome /\ e.reason = reason
<1> DEFINE e == Entry(step, outcome, reason)
           J == Append(t.journal, e)
           u == Journaled(t, step, outcome, reason)
<1>1. e \in Entries /\ e.step = step /\ e.outcome = outcome /\ e.reason = reason
  BY DEF Entry, Entries
<1>2. u = [t EXCEPT !.journal = J] BY DEF Journaled
<1> HIDE DEF e
<1>3. J \in Seq(Entries) BY <1>1 DEF Tasks
<1> HIDE DEF J, u
<1>4. u \in Tasks /\ Beside(t, u) /\ u.approvals = t.approvals /\ u.journal = J
  BY <1>2, <1>3 DEF Tasks, Beside
<1> QED BY <1>1, <1>4 DEF e, J, u

LEMMA StatusRecord ==
  ASSUME NEW t \in Tasks, NEW status \in Statuses, NEW waiting \in Reasons \cup {"none"}
  PROVE  LET u == [t EXCEPT !.status = status]
             v == [t EXCEPT !.status = status, !.waiting = waiting]
         IN /\ u \in Tasks /\ u.status = status /\ u.waiting = t.waiting
            /\ v \in Tasks /\ v.status = status /\ v.waiting = waiting
            /\ \A w \in {u, v} :
                 /\ w.kind = t.kind /\ w.plan = t.plan /\ w.snapshot = t.snapshot /\ w.fill = t.fill
                 /\ w.journal = t.journal /\ w.approvals = t.approvals
BY DEF Tasks

\* the approval that lets a step start is one of the step, and only it is taken
LEMMA ConsumedRecord ==
  ASSUME NEW t \in Tasks, NEW step, NEW reason, Matching(t, step, reason) # {}
  PROVE  LET u == Consumed(t, Matching(t, step, reason)) IN
         /\ u \in Tasks /\ Beside(t, u) /\ u.journal = t.journal
         /\ \E i : Takes(t.approvals, i, u.approvals) /\ t.approvals[i].step = step
<1> DEFINE ms == Matching(t, step, reason)
           u == Consumed(t, ms)
           i == CHOOSE k \in ms : TRUE
<1>1. t.approvals \in Seq(Approvals) BY DEF Tasks
<1>2. i \in ms OBVIOUS
<1>3. i \in 1..Len(t.approvals) /\ t.approvals[i].step = step /\ ~t.approvals[i].used
  BY <1>2 DEF Matching
<1>4. u = [t EXCEPT !.approvals[i].used = TRUE] BY DEF Consumed
<1> HIDE DEF u, i, ms
<1> DEFINE a == [t.approvals[i] EXCEPT !.used = TRUE]
<1>5. u.approvals = [t.approvals EXCEPT ![i] = a] BY <1>4 DEF Tasks
<1>6. a \in Approvals /\ a.step = t.approvals[i].step /\ a.plan = t.approvals[i].plan /\ a.used
  <2>1. t.approvals[i] \in Approvals BY <1>1, <1>3
  <2> QED BY <2>1 DEF Approvals
<1> HIDE DEF a
<1>7. /\ u.approvals \in Seq(Approvals) /\ Len(u.approvals) = Len(t.approvals)
      /\ u.approvals[i] = a
      /\ \A k \in 1..Len(t.approvals) : k # i => u.approvals[k] = t.approvals[k]
  BY <1>1, <1>3, <1>5, <1>6
<1>8. u \in Tasks BY <1>4, <1>7 DEF Tasks
<1>9. Beside(t, u) /\ u.journal = t.journal BY <1>4 DEF Beside, Tasks
<1>10. Takes(t.approvals, i, u.approvals) BY <1>3, <1>6, <1>7 DEF Takes
<1>11. u = Consumed(t, Matching(t, step, reason)) BY DEF u, ms
<1> QED BY <1>3, <1>8, <1>9, <1>10, <1>11

\* A step fills the page that was last seen or sees a new one, never both.
LEMMA ResultFits ==
  ASSUME NEW t \in Tasks, t.fill \in {"none", t.snapshot}, NEW step \in StepIds, NEW p \in Tabs,
         NEW r \in StepResults(t, step, p)
  PROVE  /\ r.fill \in {"none", t.snapshot}
         /\ r.snap # "none" => r.fill = "none"
<1> DEFINE page == Opened(t, p)
           back == Restored(t, page)
<1> HIDE DEF page, back
<1>1. CASE step = "open_target"
  <2>1. ActionOf[step] = "navigate" BY <1>1 DEF ActionOf
  <2>2. r \in NavigateResults BY <2>1, Zenon DEF StepResults
  <2> QED BY <2>2 DEF NavigateResults, Done, Failed
<1>2. CASE step = "inspect_page"
  <2>1. ActionOf[step] = "read_page" BY <1>2 DEF ActionOf
  <2>2. r \in ReadResults(page) BY <2>1, Zenon DEF StepResults, page
  <2> QED BY <2>2 DEF ReadResults, Done, Failed
<1>3. CASE step = "fill_people"
  <2>1. ActionOf[step] = "fill_basic_profile" BY <1>3 DEF ActionOf
  <2>2. r \in FillBasicResults(t, page) BY <2>1, Zenon DEF StepResults, page
  <2>3. r.fill \in {"none", t.snapshot} /\ r.snap = "none"
    BY <2>2 DEF FillBasicResults, Done, Failed
  <2> QED BY <2>3
<1>4. CASE step = "fill_documents"
  <2>1. ActionOf[step] = "fill_sensitive_profile" BY <1>4 DEF ActionOf
  <2>2. r \in FillSensitiveResults(t, page) BY <2>1, Zenon DEF StepResults, page
  <2>3. r.fill \in {"none", t.fill} /\ r.snap = "none"
    BY <2>2 DEF FillSensitiveResults, Done, Failed
  <2> QED BY <2>3
<1>5. CASE step = "choose_option"
  <2>1. ActionOf[step] = "select_option" BY <1>5 DEF ActionOf
  <2>2. r \in SelectResults(t, page) BY <2>1, Zenon DEF StepResults, page
  <2> QED BY <2>2 DEF SelectResults, Done, Failed
<1>6. CASE step = "open_review"
  <2>1. ActionOf[step] = "prepare_review" BY <1>6 DEF ActionOf
  <2>2. r \in ReviewResults(t, page) BY <2>1, Zenon DEF StepResults, page
  <2> QED BY <2>2 DEF ReviewResults, Done, Failed, NotYet
<1>7. CASE step = "prepare_order"
  <2>1. ActionOf[step] = "submit_order" BY <1>7 DEF ActionOf
  <2>2. r \in {Failed(page, "none")} BY <2>1, Zenon DEF StepResults, page
  <2> QED BY <2>2 DEF Failed
<1> QED BY StepNames, <1>1, <1>2, <1>3, <1>4, <1>5, <1>6, <1>7

LEMMA RecordedRecord ==
  ASSUME NEW t \in Tasks, t.fill \in {"none", t.snapshot}, NEW step \in StepIds,
         NEW r \in Results, r.fill \in {"none", t.snapshot}, r.snap # "none" => r.fill = "none"
  PROVE  LET u == Recorded(t, step, r)
             e == Entry(step, IF r.ok THEN "succeeded" ELSE "failed", r.reason)
         IN /\ u \in Tasks /\ u.kind = t.kind /\ u.plan = t.plan /\ u.approvals = t.approvals
            /\ u.status = t.status /\ u.waiting = t.waiting
            /\ u.fill \in {"none", u.snapshot}
            /\ u.journal = Append(t.journal, e)
            /\ e \in Entries /\ e.step = step /\ e.outcome \in {"succeeded", "failed"}
            /\ e.reason = r.reason /\ e.reason # "user_approved"
<1> DEFINE seen == IF r.snap = "none" THEN t ELSE [t EXCEPT !.snapshot = r.snap, !.fill = "none"]
           mapped == IF r.fill = "none" THEN seen ELSE [seen EXCEPT !.fill = r.fill]
           outcome == IF r.ok THEN "succeeded" ELSE "failed"
           u == Recorded(t, step, r)
<1>1. /\ r.snap \in Urls \cup {"none"} /\ r.fill \in Urls \cup {"none"} /\ r.ok \in BOOLEAN
      /\ r.reason \in {"done", "failed", "review_action_not_available"}
  BY DEF Results
<1>2. /\ seen \in Tasks /\ seen.journal = t.journal /\ seen.approvals = t.approvals
      /\ seen.kind = t.kind /\ seen.plan = t.plan /\ seen.status = t.status /\ seen.waiting = t.waiting
      /\ r.snap = "none" => seen.snapshot = t.snapshot /\ seen.fill = t.fill
      /\ r.snap # "none" => seen.fill = "none"
  BY <1>1 DEF Tasks
<1> HIDE DEF seen
<1>3. /\ mapped \in Tasks /\ mapped.journal = t.journal /\ mapped.approvals = t.approvals
      /\ mapped.kind = t.kind /\ mapped.plan = t.plan /\ mapped.status = t.status
      /\ mapped.waiting = t.waiting
      /\ mapped.fill \in {"none", mapped.snapshot}
  <2>1. CASE r.fill = "none"
    <3>1. mapped = seen BY <2>1
    <3>2. seen.fill \in {"none", seen.snapshot} BY <1>2
    <3> QED BY <1>2, <3>1, <3>2
  <2>2. CASE r.fill # "none"
    <3>1. mapped = [seen EXCEPT !.fill = r.fill] BY <2>2
    <3> QED BY <1>1, <1>2, <2>2, <3>1 DEF Tasks
  <2> QED BY <2>1, <2>2
<1> HIDE DEF mapped
<1>4. outcome \in Outcomes /\ outcome \in {"succeeded", "failed"} /\ r.reason \in StepReasons
      /\ r.reason # "user_approved"
  BY <1>1 DEF Outcomes, StepReasons
<1>5. u = Journaled(mapped, step, outcome, r.reason) BY DEF Recorded, mapped, seen
<1> HIDE DEF outcome, u
<1>6. /\ u \in Tasks /\ Beside(mapped, u) /\ u.approvals = mapped.approvals
      /\ u.journal = Append(t.journal, Entry(step, outcome, r.reason))
      /\ Entry(step, outcome, r.reason) \in Entries
      /\ Entry(step, outcome, r.reason).step = step
      /\ Entry(step, outcome, r.reason).outcome = outcome
      /\ Entry(step, outcome, r.reason).reason = r.reason
  BY <1>3, <1>4, <1>5, JournaledRecord
<1>7. /\ u \in Tasks /\ u.kind = t.kind /\ u.plan = t.plan /\ u.approvals = t.approvals
      /\ u.status = t.status /\ u.waiting = t.waiting /\ u.fill \in {"none", u.snapshot}
  BY <1>3, <1>6 DEF Beside
<1> QED BY <1>4, <1>6, <1>7 DEF u, outcome

-----------------------------------------------------------------------------
(* RecordInv is inductive                                                   *)

\* a session that comes to state w while the row stays
LEMMA RecordStep ==
  ASSUME TypeInv, RecordInv, NEW s \in Sessions, NEW w, req' = [req EXCEPT ![s] = w],
         RecordHolds(w), task' = task
  PROVE  RecordInv'
<1>1. \A other \in Sessions : req'[other] = IF other = s THEN w ELSE req[other] BY DEF TypeInv
<1>2. \A other \in Sessions : RecordHolds(req'[other]) BY <1>1 DEF RecordInv
<1>3. InOrder(task') /\ Storable(task') BY DEF RecordInv
<1> QED BY <1>2, <1>3 DEF RecordInv, RecordHolds, InOrder, Storable, UnderWay, Spent, Single,
                          Follows, Ended, Takings, Consumptions

\* a session that has a copy to write
LEMMA WritesRecord ==
  ASSUME TypeInv, RecordInv, NEW s \in Sessions, NEW kind, NEW copy,
         req' = Writes(s, kind, copy), InOrder(copy), Storable(copy), task' = task
  PROVE  RecordInv'
<1> DEFINE w == [pc |-> "update", kind |-> kind, copy |-> copy, loop |-> NewLoop]
<1>1. w.pc = "update" /\ w.copy = copy /\ req' = [req EXCEPT ![s] = w] BY DEF Writes
<1> HIDE DEF w
<1>2. RecordHolds(w) BY <1>1 DEF RecordHolds
<1> QED BY <1>1, <1>2, RecordStep

\* a status that is set with nothing to wait for
LEMMA WithStatusRecord ==
  ASSUME NEW t \in Tasks, InOrder(t), NEW status \in Statuses
  PROVE  LET u == WithStatus(t, status) IN
         /\ u \in Tasks /\ InOrder(u) /\ u.status = status /\ u.waiting = "none"
         /\ u.kind = t.kind /\ u.plan = t.plan /\ u.snapshot = t.snapshot /\ u.fill = t.fill
         /\ u.journal = t.journal /\ u.approvals = t.approvals
<1> DEFINE u == WithStatus(t, status)
<1>1. /\ u \in Tasks /\ u.status = status /\ u.waiting = "none"
      /\ u.kind = t.kind /\ u.plan = t.plan /\ u.snapshot = t.snapshot /\ u.fill = t.fill
      /\ u.journal = t.journal /\ u.approvals = t.approvals
  BY DEF WithStatus, Tasks
<1> HIDE DEF u
<1>2. InOrder(u) BY <1>1, SameOrder
<1> QED BY <1>1, <1>2 DEF u

LEMMA PlanRecord ==
  ASSUME TypeInv, RecordInv, NEW s \in Sessions, Plan(s)
  PROVE  RecordInv'
<1> DEFINE n == task.plan + 1
           nothing == <<>>
           v == WithStatus(task, "ready")
           u == [v EXCEPT !.plan = n, !.journal = nothing, !.approvals = nothing,
                          !.snapshot = "none", !.fill = "none"]
<1>1. req' = Writes(s, "plan", u) /\ task' = task BY DEF Plan
<1>2. task \in Tasks /\ InOrder(task) BY DEF TypeInv, GoodTask, RecordInv
<1> HIDE DEF n, nothing
<1>3. v \in Tasks /\ v.status = "ready" /\ v.waiting = "none"
  BY <1>2, WithStatusRecord DEF Statuses
<1> HIDE DEF v
<1>4. /\ u.journal = nothing /\ u.approvals = nothing /\ u.fill = "none"
      /\ u.status = v.status /\ u.waiting = v.waiting
  BY <1>3 DEF Tasks
<1> HIDE DEF u
<1>5. InOrder(u) BY <1>4, EmptyOrder DEF nothing
<1>6. Storable(u) BY <1>3, <1>4 DEF Storable
<1> QED BY <1>1, <1>5, <1>6, WritesRecord

LEMMA MapPageRecord ==
  ASSUME TypeInv, RecordInv, NEW s \in Sessions, MapPage(s)
  PROVE  RecordInv'
<1> DEFINE u == [task EXCEPT !.fill = task.snapshot]
<1>1. req' = Writes(s, "map_page", u) /\ task' = task BY DEF MapPage
<1>2. task \in Tasks BY DEF TypeInv, GoodTask
<1>3. /\ u.kind = task.kind /\ u.plan = task.plan /\ u.journal = task.journal
      /\ u.approvals = task.approvals /\ u.status = task.status /\ u.waiting = task.waiting
      /\ u.fill = u.snapshot
  BY <1>2 DEF Tasks
<1> HIDE DEF u
<1>4. InOrder(u) BY <1>3, SameOrder DEF RecordInv
<1>5. Storable(u) BY <1>3 DEF RecordInv, Storable
<1> QED BY <1>1, <1>4, <1>5, WritesRecord

LEMMA ApproveRecord ==
  ASSUME TypeInv, RecordInv, NEW s \in Sessions, Approve(s)
  PROVE  RecordInv'
<1> DEFINE t == task
           last == t.journal[Len(t.journal)]
           a == Approval(t.plan, last.step, last.reason)
           A == Append(t.approvals, a)
           v == WithStatus(t, "ready")
           u == [v EXCEPT !.approvals = A]
<1>1. /\ req' = Writes(s, "approve", u) /\ task' = task /\ t.plan > 0
      /\ \A i \in 1..Len(t.approvals) : t.approvals[i].step = last.step => t.approvals[i].used
      /\ t.journal # <<>> /\ last.outcome = "blocked" /\ last.reason = t.waiting
      /\ t.status = "waiting_for_user"
  BY DEF Approve, Approvable
<1>2. t \in Tasks /\ InOrder(t) /\ Storable(t) BY DEF TypeInv, GoodTask, RecordInv
<1>3. t.approvals \in Seq(Approvals) /\ t.journal \in Seq(Entries) /\ t.plan \in Nat
      /\ t.waiting \in Reasons \cup {"none"}
  BY <1>2 DEF Tasks
<1>4. last \in Entries BY <1>1, <1>3
<1>5. last.step \in StepIds /\ last.reason \in Reasons
  BY <1>1, <1>2, <1>3, <1>4 DEF Entries, Storable
<1> HIDE DEF t, last
<1>6. a \in Approvals /\ a.step = last.step /\ a.plan = t.plan /\ ~a.used
  BY <1>3, <1>5 DEF Approval, Approvals
<1> HIDE DEF a
<1>7. /\ A \in Seq(Approvals) /\ Len(A) = Len(t.approvals) + 1 /\ Len(t.approvals) \in Nat
      /\ \A i \in 1..Len(t.approvals) : A[i] = t.approvals[i]
      /\ A[Len(t.approvals) + 1] = a
  BY <1>3, <1>6
<1> HIDE DEF A
<1>8. /\ v \in Tasks /\ v.status = "ready" /\ v.waiting = "none"
      /\ v.kind = t.kind /\ v.plan = t.plan /\ v.snapshot = t.snapshot /\ v.fill = t.fill
      /\ v.journal = t.journal
  BY <1>2, WithStatusRecord DEF Statuses
<1> HIDE DEF v
<1>9. /\ u.kind = t.kind /\ u.plan = t.plan /\ u.snapshot = t.snapshot /\ u.fill = t.fill
      /\ u.journal = t.journal /\ u.approvals = A /\ u.status = "ready" /\ u.waiting = "none"
  BY <1>8 DEF Tasks
<1> HIDE DEF u
<1>10. \A step \in StepIds : Consumptions(A, step) = Consumptions(t.approvals, step)
  <2> TAKE step \in StepIds
  <2>1. \A i \in 1..Len(A) : i \in 1..Len(t.approvals) \/ i = Len(t.approvals) + 1 BY <1>7
  <2>2. \A i \in 1..Len(t.approvals) : i \in 1..Len(A) BY <1>7
  <2> QED BY <1>6, <1>7, <2>1, <2>2 DEF Consumptions
<1>11. Single(t.plan, A)
  <2> SUFFICES ASSUME NEW i \in 1..Len(A), NEW j \in 1..Len(A)
               PROVE  /\ A[i].plan = t.plan
                      /\ i # j /\ A[i].step = A[j].step => A[i].used \/ A[j].used
    BY DEF Single
  <2>1. \A k \in 1..Len(A) : k \in 1..Len(t.approvals) \/ k = Len(t.approvals) + 1 BY <1>7
  <2>2. Single(t.plan, t.approvals) BY <1>2 DEF InOrder
  <2>3. A[i].plan = t.plan BY <1>6, <1>7, <2>1, <2>2 DEF Single
  <2>4. CASE i \in 1..Len(t.approvals) /\ j \in 1..Len(t.approvals)
    BY <1>7, <2>2, <2>3, <2>4 DEF Single
  <2>5. CASE i = Len(t.approvals) + 1 /\ j \in 1..Len(t.approvals)
    BY <1>1, <1>6, <1>7, <2>3, <2>5
  <2>6. CASE i \in 1..Len(t.approvals) /\ j = Len(t.approvals) + 1
    BY <1>1, <1>6, <1>7, <2>3, <2>6
  <2>7. CASE i = Len(t.approvals) + 1 /\ j = Len(t.approvals) + 1 BY <2>3, <2>7
  <2> QED BY <2>1, <2>4, <2>5, <2>6, <2>7
<1>12. InOrder(u) BY <1>1, <1>2, <1>9, <1>10, <1>11 DEF InOrder, Spent
<1>13. Storable(u) BY <1>2, <1>9 DEF Storable
<1> QED BY <1>1, <1>12, <1>13, WritesRecord

LEMMA ClarifyRecord ==
  ASSUME TypeInv, RecordInv, NEW s \in Sessions, Clarify(s)
  PROVE  RecordInv'
<1> DEFINE n == task.clar + 1
           v == WithStatus(task, "ready")
           u == [v EXCEPT !.clar = n]
<1>1. req' = Writes(s, "clarify", u) /\ task' = task BY DEF Clarify
<1>2. task \in Tasks /\ InOrder(task) /\ Storable(task) BY DEF TypeInv, GoodTask, RecordInv
<1>3. /\ v \in Tasks /\ InOrder(v) /\ v.status = "ready" /\ v.waiting = "none"
      /\ v.snapshot = task.snapshot /\ v.fill = task.fill
  BY <1>2, WithStatusRecord DEF Statuses
<1> HIDE DEF v, n
<1>4. /\ u.kind = v.kind /\ u.plan = v.plan /\ u.snapshot = v.snapshot /\ u.fill = v.fill
      /\ u.journal = v.journal /\ u.approvals = v.approvals
      /\ u.status = v.status /\ u.waiting = v.waiting
  BY <1>3 DEF Tasks
<1> HIDE DEF u
<1>5. InOrder(u) BY <1>3, <1>4, SameOrder
<1>6. Storable(u) BY <1>2, <1>3, <1>4 DEF Storable
<1> QED BY <1>1, <1>5, <1>6, WritesRecord

LEMMA StatusChangeRecord ==
  ASSUME TypeInv, RecordInv, NEW s \in Sessions, Pause(s) \/ Resume(s) \/ Cancel(s)
  PROVE  RecordInv'
<1>1. task \in Tasks /\ InOrder(task) /\ Storable(task) BY DEF TypeInv, GoodTask, RecordInv
<1>2. ASSUME NEW kind, NEW status \in {"paused", "ready", "cancelled"},
             req' = Writes(s, kind, WithStatus(task, status)), task' = task
      PROVE  RecordInv'
  <2> DEFINE u == WithStatus(task, status)
  <2>1. /\ InOrder(u) /\ u.status = status /\ u.waiting = "none"
        /\ u.snapshot = task.snapshot /\ u.fill = task.fill
    BY <1>1, WithStatusRecord DEF Statuses
  <2> HIDE DEF u
  <2>2. Storable(u) BY <1>1, <2>1 DEF Storable
  <2> QED BY <1>2, <2>1, <2>2, WritesRecord DEF u
<1>3. CASE Pause(s) BY <1>2, <1>3 DEF Pause
<1>4. CASE Resume(s) BY <1>2, <1>4 DEF Resume
<1>5. CASE Cancel(s) BY <1>2, <1>5 DEF Cancel
<1> QED BY <1>3, <1>4, <1>5

LEMMA ExecuteRecord ==
  ASSUME TypeInv, RecordInv, NEW s \in Sessions, Execute(s)
  PROVE  RecordInv'
<1> DEFINE t == Taken(task)
           u == IF t.llm THEN t ELSE WithStatus(t, "running")
           w == [pc |-> IF t.llm THEN "loop" ELSE "step", kind |-> "execute", loop |-> NewLoop, copy |-> u]
<1>1. /\ req' = [req EXCEPT ![s] = w] /\ task' = task
      /\ t.status = "ready" /\ (t.llm \/ t.plan > 0)
  BY DEF Execute
<1>2. task \in Tasks /\ InOrder(task) /\ Storable(task) BY DEF TypeInv, GoodTask, RecordInv
<1>3. t \in Tasks /\ InOrder(t) /\ t.fill \in {"none", t.snapshot}
  BY <1>2, WithStatusRecord DEF Taken, Statuses, Storable
<1>4. w.pc \in {"step", "loop"} /\ w.copy = u /\ (w.pc = "step" => ~t.llm) OBVIOUS
<1> HIDE DEF t, w
<1>5. InOrder(u) BY <1>3, WithStatusRecord DEF Statuses
<1>6. ~t.llm => UnderWay(u) BY <1>1, <1>3, WithStatusRecord DEF UnderWay, Statuses
<1> HIDE DEF u
<1>7. RecordHolds(w) BY <1>4, <1>5, <1>6 DEF RecordHolds
<1> QED BY <1>1, <1>7, RecordStep

\* an execution that goes on with the next step or comes to its update
LEMMA SteppedRecord ==
  ASSUME TypeInv, RecordInv, NEW s \in Sessions, NEW u, NEW page, req[s].pc = "step",
         Stepped(s, u, page), InOrder(u), task' = task,
         u.status = "running" => UnderWay(u), u.status # "running" => Storable(u)
  PROVE  RecordInv'
<1>1. req[s] \in Working /\ req \in [Sessions -> Working] BY DEF TypeInv
<1>2. CASE u.status = "running"
  <2> DEFINE w == [req[s] EXCEPT !.copy = u]
  <2>1. req' = [req EXCEPT ![s] = w] BY <1>1, <1>2 DEF Stepped
  <2>2. w.copy = u /\ w.pc = "step" BY <1>1 DEF Working
  <2> HIDE DEF w
  <2>3. RecordHolds(w) BY <1>2, <2>2 DEF RecordHolds
  <2> QED BY <2>1, <2>3, RecordStep
<1>3. CASE u.status # "running"
  <2>1. req' = Writes(s, "execute", u) BY <1>3 DEF Stepped
  <2> QED BY <1>3, <2>1, WritesRecord
<1> QED BY <1>2, <1>3

LEMMA BlockRecord ==
  ASSUME TypeInv, RecordInv, NEW s \in Sessions, Block(s)
  PROVE  RecordInv'
<1> DEFINE t == req[s].copy
           step == NextStep(t)
           reason == DecisionOn(t).reason
           e == Entry(step, "blocked", reason)
           J == Journaled(t, step, "blocked", reason)
           u == [J EXCEPT !.status = "waiting_for_user", !.waiting = reason]
<1>1. /\ req[s].pc = "step" /\ Stepped(s, u, tab[TabOf(s)]) /\ task' = task
      /\ DecisionOn(t).verdict = "user"
  BY DEF Block
<1>2. GoodTask(t) /\ t \in Tasks /\ t.policy \in SUBSET Flags /\ step \in StepIds
  BY NextStepType DEF TypeInv, GoodTask, Tasks
<1>3. InOrder(t) /\ UnderWay(t) BY <1>1 DEF RecordInv, RecordHolds
<1>4. reason \in Reasons BY <1>1, <1>2, DecideType DEF DecisionOn
<1>5. Due(t.kind, t.journal, step) BY <1>2, NextIsDue
<1> HIDE DEF t, step, reason
<1>6. reason \in StepReasons /\ reason # "user_approved" /\ reason # "none" /\ "blocked" \in Outcomes
  BY <1>4 DEF StepReasons, Reasons, Outcomes
<1>7. /\ J \in Tasks /\ Beside(t, J) /\ J.approvals = t.approvals /\ J.journal = Append(t.journal, e)
      /\ e \in Entries /\ e.step = step /\ e.outcome = "blocked" /\ e.reason = reason
  BY <1>2, <1>6, JournaledRecord
<1> HIDE DEF J, e
<1>8. /\ u.kind = J.kind /\ u.plan = J.plan /\ u.snapshot = J.snapshot /\ u.fill = J.fill
      /\ u.journal = J.journal /\ u.approvals = J.approvals
      /\ u.status = "waiting_for_user" /\ u.waiting = reason
  BY <1>7 DEF Tasks
<1> HIDE DEF u
<1>9. t.plan > 0 BY <1>3 DEF UnderWay
<1>10. InOrder(J) BY <1>2, <1>3, <1>5, <1>6, <1>7, <1>9, EntryInOrder DEF Beside
<1>11. InOrder(u) BY <1>8, <1>10, SameOrder
<1>12. Storable(u) BY <1>3, <1>6, <1>7, <1>8 DEF Storable, UnderWay, Beside
<1> QED BY <1>1, <1>8, <1>11, <1>12, SteppedRecord

LEMMA DenyRecord ==
  ASSUME TypeInv, RecordInv, NEW s \in Sessions, Deny(s)
  PROVE  RecordInv'
<1> DEFINE t == req[s].copy
           step == NextStep(t)
           e == Entry(step, "failed", "denied")
           J == Journaled(t, step, "failed", "denied")
           u == [J EXCEPT !.status = "failed"]
<1>1. req[s].pc = "step" /\ Stepped(s, u, tab[TabOf(s)]) /\ task' = task BY DEF Deny
<1>2. GoodTask(t) /\ t \in Tasks /\ step \in StepIds BY NextStepType DEF TypeInv, GoodTask
<1>3. InOrder(t) /\ UnderWay(t) BY <1>1 DEF RecordInv, RecordHolds
<1>4. Due(t.kind, t.journal, step) BY <1>2, NextIsDue
<1> HIDE DEF t, step
<1>5. "denied" \in StepReasons /\ "failed" \in Outcomes BY DEF StepReasons, Outcomes
<1>6. /\ J \in Tasks /\ Beside(t, J) /\ J.approvals = t.approvals /\ J.journal = Append(t.journal, e)
      /\ e \in Entries /\ e.step = step /\ e.outcome = "failed" /\ e.reason = "denied"
  BY <1>2, <1>5, JournaledRecord
<1> HIDE DEF J, e
<1>7. /\ u.kind = J.kind /\ u.plan = J.plan /\ u.snapshot = J.snapshot /\ u.fill = J.fill
      /\ u.journal = J.journal /\ u.approvals = J.approvals
      /\ u.status = "failed" /\ u.waiting = J.waiting
  BY <1>6 DEF Tasks
<1> HIDE DEF u
<1>8. t.plan > 0 BY <1>3 DEF UnderWay
<1>9. InOrder(J) BY <1>2, <1>3, <1>4, <1>6, <1>8, EntryInOrder DEF Beside
<1>10. InOrder(u) BY <1>7, <1>9, SameOrder
<1>11. Storable(u) BY <1>3, <1>6, <1>7 DEF Storable, UnderWay, Beside
<1> QED BY <1>1, <1>7, <1>10, <1>11, SteppedRecord

\* No approval is for what the policy allows, so an attempt takes one exactly
\* when its entry says so.
LEMMA RunStepRecord ==
  ASSUME TypeInv, RecordInv, NEW s \in Sessions, RunStep(s)
  PROVE  RecordInv'
<1> DEFINE t == req[s].copy
           d == DecisionOn(t)
           step == NextStep(t)
           before == tab[TabOf(s)]
           why == IF d.verdict = "user" THEN "user_approved" ELSE d.reason
           C == Consumed(t, Usable(t))
           begun == Entry(step, "started", why)
           started == Journaled(C, step, "started", why)
<1>1. /\ req[s].pc = "step" /\ task' = task
      /\ d.verdict = "allowed" \/ (d.verdict = "user" /\ Usable(t) # {})
  BY DEF RunStep
<1>2. PICK r \in StepResults(t, step, before) :
        Stepped(s, [Recorded(started, step, r) EXCEPT !.status = StatusAfter(t, r)], r.tab)
  BY DEF RunStep
<1> DEFINE end == Entry(step, IF r.ok THEN "succeeded" ELSE "failed", r.reason)
           R == Recorded(started, step, r)
           status == StatusAfter(t, r)
           u == [R EXCEPT !.status = status]
<1>3. /\ GoodTask(t) /\ t \in Tasks /\ t.policy \in SUBSET Flags /\ step \in StepIds
      /\ t.approvals \in Seq(Approvals)
  BY NextStepType DEF TypeInv, GoodTask, Tasks
<1>4. before \in Tabs BY TabOfType DEF TypeInv
<1>5. InOrder(t) /\ UnderWay(t) BY <1>1 DEF RecordInv, RecordHolds
<1>6. Due(t.kind, t.journal, step) BY <1>3, NextIsDue
<1>7. d.verdict = "allowed" => d.reason = "allowed" BY <1>3, DecideType DEF DecisionOn
<1>8. r \in Results BY <1>3, <1>4, StepResultsSound DEF Sound
<1>9. r.fill \in {"none", t.snapshot} /\ (r.snap # "none" => r.fill = "none")
  BY <1>3, <1>4, <1>5, ResultFits DEF UnderWay
<1>10. Stepped(s, u, r.tab) BY <1>2
<1>11. status \in Statuses /\ status \notin {"draft", "waiting_for_user"}
  BY DEF StatusAfter, Statuses
<1>12. d.verdict = "allowed" => C = t
  <2>1. \A i \in 1..Len(t.approvals) : t.approvals[i] \in Approvals BY <1>3
  <2>2. \A i \in 1..Len(t.approvals) : t.approvals[i].reason # "allowed"
    BY <2>1 DEF Approvals, Reasons
  <2>3. d.verdict = "allowed" => Usable(t) = {} BY <1>7, <2>2 DEF Usable, Matching
  <2> QED BY <2>3 DEF Consumed
<1>13. d.verdict = "user" =>
         /\ C \in Tasks /\ Beside(t, C) /\ C.journal = t.journal
         /\ \E i : Takes(t.approvals, i, C.approvals) /\ t.approvals[i].step = step
  BY <1>1, <1>3, ConsumedRecord DEF Usable
<1> HIDE DEF t, d, step, before, C, status
<1>14. C \in Tasks /\ Beside(t, C) /\ C.journal = t.journal
  BY <1>1, <1>3, <1>12, <1>13 DEF Beside
<1>15. /\ why \in StepReasons /\ "started" \in Outcomes
       /\ \/ why # "user_approved" /\ C.approvals = t.approvals
          \/ /\ why = "user_approved"
             /\ \E i : Takes(t.approvals, i, C.approvals) /\ t.approvals[i].step = step
  BY <1>1, <1>7, <1>12, <1>13 DEF StepReasons, Outcomes
<1> HIDE DEF why
<1>16. /\ started \in Tasks /\ Beside(C, started) /\ started.approvals = C.approvals
       /\ started.journal = Append(t.journal, begun) /\ begun \in Entries
       /\ begun.step = step /\ begun.outcome = "started" /\ begun.reason = why
  BY <1>3, <1>14, <1>15, JournaledRecord
<1> HIDE DEF started, begun
<1>17. /\ started.kind = t.kind /\ started.plan = t.plan /\ started.snapshot = t.snapshot
       /\ started.fill = t.fill /\ started.waiting = t.waiting
  BY <1>14, <1>16 DEF Beside
<1>18. started.fill \in {"none", started.snapshot} /\ r.fill \in {"none", started.snapshot}
  BY <1>5, <1>9, <1>17 DEF UnderWay
<1>19. /\ R \in Tasks /\ R.kind = t.kind /\ R.plan = t.plan /\ R.approvals = C.approvals
       /\ R.waiting = t.waiting /\ R.fill \in {"none", R.snapshot}
       /\ R.journal = Append(Append(t.journal, begun), end) /\ end \in Entries
       /\ end.step = step /\ end.outcome \in {"succeeded", "failed"} /\ end.reason # "user_approved"
  BY <1>3, <1>8, <1>9, <1>16, <1>17, <1>18, SMTT(60), RecordedRecord
<1> HIDE DEF R, end
<1>20. t.plan > 0 BY <1>5 DEF UnderWay
<1>21. InOrder(R) BY <1>3, <1>5, <1>6, <1>15, <1>16, <1>19, <1>20, AttemptInOrder
<1>22. /\ u.kind = R.kind /\ u.plan = R.plan /\ u.snapshot = R.snapshot /\ u.fill = R.fill
       /\ u.journal = R.journal /\ u.approvals = R.approvals
       /\ u.status = status /\ u.waiting = R.waiting
  BY <1>19 DEF Tasks
<1> HIDE DEF u
<1>23. InOrder(u) BY <1>21, <1>22, SameOrder
<1>24. u.status = "running" => UnderWay(u) BY <1>5, <1>19, <1>22 DEF UnderWay
<1>25. u.status # "running" => Storable(u) BY <1>5, <1>11, <1>19, <1>22 DEF UnderWay, Storable
<1> QED BY <1>1, <1>10, <1>23, <1>24, <1>25, SteppedRecord

\* A turn changes nothing but the page that was last seen, and its last one ends
\* the execution with a status of its own.
LEMMA LoopTurnRecord ==
  ASSUME TypeInv, RecordInv, NEW s \in Sessions, LoopTurn(s)
  PROVE  RecordInv'
<1> DEFINE t == req[s].copy
           b == TabOf(s)
           page == IF req[s].loop = NewLoop THEN Observed(t, tab[b]) ELSE tab[b]
           first == IF req[s].loop = NewLoop THEN page.url ELSE t.snapshot
           turns == IF t.mode = "step_by_step" THEN 1 ELSE MaxSteps
           next(c, again, report) == Turn(req[s].loop, c, again, report, RepeatLimit, turns)
           moved(loop, report) == loop.status # "stalled" /\ report.page \in {"moved", "lost"}
           seen(loop, report, after) ==
             [t EXCEPT !.snapshot = IF loop.status # "stalled" /\ report.page \in {"same", "moved"}
                                    THEN after.url ELSE first]
           ends(loop, copy, after) ==
             IF loop.status = "going"
             THEN /\ req' = [req EXCEPT ![s].loop = loop, ![s].copy = copy]
                  /\ tab' = [tab EXCEPT ![b] = after]
             ELSE /\ req' = Writes(s, "execute", Applied(copy, loop))
                  /\ tab' = Left(s, after)
           pages(loop, report) == IF moved(loop, report) THEN {Goto(u) : u \in Urls} ELSE {page}
<1>p. PICK c \in Chosen, again \in BOOLEAN :
        \E report \in CommandReports(c) :
          \E after \in pages(next(c, again, report), report) :
            ends(next(c, again, report), seen(next(c, again, report), report, after), after)
  BY ZenonT(90) DEF LoopTurn
<1>q. PICK report \in CommandReports(c) :
        \E after \in pages(next(c, again, report), report) :
          ends(next(c, again, report), seen(next(c, again, report), report, after), after)
  BY <1>p
<1>1. PICK after \in pages(next(c, again, report), report) :
        ends(next(c, again, report), seen(next(c, again, report), report, after), after)
  BY <1>q
<1> DEFINE loop == next(c, again, report)
           snapshot == IF loop.status # "stalled" /\ report.page \in {"same", "moved"}
                       THEN after.url ELSE first
           copy == [t EXCEPT !.snapshot = snapshot]
           end == Applied(copy, loop)
<1>2. /\ loop.status = "going" => req' = [req EXCEPT ![s].loop = loop, ![s].copy = copy]
      /\ loop.status # "going" => req' = Writes(s, "execute", end)
  BY <1>1
<1>3. req[s].pc = "loop" /\ task' = task BY DEF LoopTurn
<1>4. req[s] \in Working /\ req \in [Sessions -> Working] /\ t \in Tasks /\ InOrder(t)
  BY DEF TypeInv, GoodTask, RecordInv, RecordHolds
<1> HIDE DEF t, b, page, first, turns, next, moved, seen, ends, pages, loop, snapshot
<1>5. /\ copy.kind = t.kind /\ copy.plan = t.plan
      /\ copy.journal = t.journal /\ copy.approvals = t.approvals
  BY <1>4 DEF Tasks
<1>6. InOrder(copy) BY <1>4, <1>5, SameOrder
<1>7. CASE loop.status = "going"
  <2> DEFINE w == [req[s] EXCEPT !.loop = loop, !.copy = copy]
  <2>1. req' = [req EXCEPT ![s] = w] BY <1>2, <1>4, <1>7
  <2>2. w.copy = copy /\ w.pc = "loop" BY <1>3, <1>4 DEF Working
  <2> HIDE DEF w, copy
  <2>3. RecordHolds(w) BY <1>6, <2>2 DEF RecordHolds
  <2> QED BY <1>3, <2>1, <2>3, RecordStep
<1>8. CASE loop.status # "going"
  <2> DEFINE status == TaskStatusAfter(loop, copy.mode)
             waiting == IF status = "waiting_for_user" THEN WaitingReason(loop.reason) ELSE "none"
             run == Merged(copy.run, loop, RunCap)
  <2>1. end = [copy EXCEPT !.status = status, !.waiting = waiting, !.fill = "none", !.run = run]
    BY DEF Applied
  <2>2. status \in {"completed", "waiting_for_user", "ready", "failed"} BY DEF TaskStatusAfter
  <2>3. WaitingReason(loop.reason) # "none" BY DEF WaitingReason
  <2> HIDE DEF status, run, end
  <2>4. /\ end.kind = t.kind /\ end.plan = t.plan
        /\ end.journal = t.journal /\ end.approvals = t.approvals
        /\ end.status = status /\ end.waiting = waiting /\ end.fill = "none"
    BY <1>4, <2>1 DEF Tasks
  <2>5. InOrder(end) BY <1>4, <2>4, SameOrder
  <2>6. Storable(end) BY <2>2, <2>3, <2>4 DEF Storable
  <2>7. req' = Writes(s, "execute", end) BY <1>2, <1>8
  <2> QED BY <1>3, <2>5, <2>6, <2>7, WritesRecord
<1> QED BY <1>7, <1>8

\* a request that is over
LEMMA IdleRecord == RecordHolds(Idle(NoCopy))
<1>1. Idle(NoCopy).pc = "idle" /\ Idle(NoCopy).copy = NoCopy BY DEF Idle
<1>2. NoCopy.journal = <<>> /\ NoCopy.approvals = <<>> BY DEF NoCopy, NewTask
<1>3. InOrder(NoCopy) BY <1>2, EmptyOrder
<1> QED BY <1>1, <1>3 DEF RecordHolds

LEMMA UpdateRecord ==
  ASSUME TypeInv, RecordInv, NEW s \in Sessions, Update(s)
  PROVE  RecordInv'
<1> DEFINE n == task.version + 1
           copy == req[s].copy
           u == [copy EXCEPT !.version = n]
<1>1. /\ req[s].pc = "update" /\ req' = [req EXCEPT ![s] = Idle(NoCopy)]
      /\ task' = task \/ task' = u
  BY DEF Update
<1>2. copy \in Tasks /\ InOrder(copy) /\ Storable(copy)
  BY <1>1 DEF TypeInv, GoodTask, RecordInv, RecordHolds
<1>3. CASE task' = task BY <1>1, <1>3, IdleRecord, RecordStep
<1>4. CASE task' = u
  <2> HIDE DEF n, copy
  <2>1. /\ u.kind = copy.kind /\ u.plan = copy.plan /\ u.journal = copy.journal
        /\ u.approvals = copy.approvals /\ u.status = copy.status /\ u.waiting = copy.waiting
        /\ u.snapshot = copy.snapshot /\ u.fill = copy.fill
    BY <1>2 DEF Tasks
  <2> HIDE DEF u
  <2>2. InOrder(u) BY <1>2, <2>1, SameOrder
  <2>3. Storable(u) BY <1>2, <2>1 DEF Storable
  <2>4. \A other \in Sessions : req'[other] = IF other = s THEN Idle(NoCopy) ELSE req[other]
    BY <1>1 DEF TypeInv
  <2>5. \A other \in Sessions : RecordHolds(req'[other]) BY <2>4, IdleRecord DEF RecordInv
  <2>6. InOrder(task') /\ Storable(task') BY <1>4, <2>2, <2>3
  <2> QED BY <2>5, <2>6 DEF RecordInv, RecordHolds, InOrder, Storable, UnderWay, Spent, Single,
                            Follows, Ended, Takings, Consumptions
<1> QED BY <1>1, <1>3, <1>4

LEMMA AbandonRecord ==
  ASSUME TypeInv, RecordInv, NEW s \in Sessions, Abandon(s)
  PROVE  RecordInv'
<1>1. req' = [req EXCEPT ![s] = Idle(NoCopy)] /\ task' = task BY DEF Abandon
<1> QED BY <1>1, IdleRecord, RecordStep

LEMMA InitRecordInv == Init => RecordInv
<1> SUFFICES ASSUME Init PROVE RecordInv OBVIOUS
<1>1. /\ task.journal = <<>> /\ task.approvals = <<>> /\ task.status = "ready"
      /\ task.waiting = "none" /\ task.fill = "none"
  BY DEF Init, NewTask
<1>2. InOrder(task) BY <1>1, EmptyOrder
<1>3. Storable(task) BY <1>1 DEF Storable
<1>4. \A s \in Sessions : req[s] = Idle(NoCopy) BY DEF Init
<1> QED BY <1>2, <1>3, <1>4, IdleRecord DEF RecordInv

LEMMA NextRecordInv == TypeInv /\ RecordInv /\ [Next]_vars => RecordInv'
<1> SUFFICES ASSUME TypeInv, RecordInv, [Next]_vars PROVE RecordInv' OBVIOUS
<1>1. CASE UNCHANGED vars
  <2>1. task' = task /\ req' = req
    BY <1>1 DEF vars
  <2>2. InOrder(task') /\ Storable(task')
    BY <2>1 DEF RecordInv
  <2>3. \A s \in Sessions : RecordHolds(req'[s])
    BY <2>1 DEF RecordInv
  <2> QED
    BY <2>2, <2>3 DEF RecordInv, RecordHolds, InOrder, Storable, UnderWay, Spent, Single,
                      Follows, Ended, Takings, Consumptions
<1>2. CASE Next
  <2>1. PICK s \in Sessions :
          \/ Plan(s) \/ MapPage(s) \/ Approve(s) \/ Clarify(s)
          \/ Pause(s) \/ Resume(s) \/ Cancel(s)
          \/ Execute(s) \/ Block(s) \/ Deny(s) \/ RunStep(s) \/ LoopTurn(s)
          \/ Update(s) \/ Abandon(s)
    BY <1>2, Zenon DEF Next
  <2>2. CASE Plan(s) BY <2>2, PlanRecord
  <2>3. CASE MapPage(s) BY <2>3, MapPageRecord
  <2>4. CASE Approve(s) BY <2>4, ApproveRecord
  <2>5. CASE Clarify(s) BY <2>5, ClarifyRecord
  <2>6. CASE Pause(s) \/ Resume(s) \/ Cancel(s) BY <2>6, StatusChangeRecord
  <2>7. CASE Execute(s) BY <2>7, ExecuteRecord
  <2>8. CASE Block(s) BY <2>8, BlockRecord
  <2>9. CASE Deny(s) BY <2>9, DenyRecord
  <2>10. CASE RunStep(s) BY <2>10, RunStepRecord
  <2>11. CASE LoopTurn(s) BY <2>11, LoopTurnRecord
  <2>12. CASE Update(s) BY <2>12, UpdateRecord
  <2>13. CASE Abandon(s) BY <2>13, AbandonRecord
  <2> QED BY <2>1, <2>2, <2>3, <2>4, <2>5, <2>6, <2>7, <2>8, <2>9, <2>10, <2>11, <2>12, <2>13
<1> QED BY <1>1, <1>2

-----------------------------------------------------------------------------
(* The theorems                                                             *)

\* Every row that is stored can be read back and worked on, although nothing
\* validates the copies it is made of (model_copy, domain/task.py).
THEOREM StoredRowsCohere == Spec => []RowIsCoherent
<1>1. RecordInv => RowIsCoherent
  BY Zenon DEF RecordInv, InOrder, Storable, Single, RowIsCoherent
<1> QED BY <1>1, InitTypeInv, NextTypeInv, InitRecordInv, NextRecordInv, PTL DEF Spec

\* The journal of the row and of every copy follows the plan, through failures,
\* resumptions and requests that race (execute_task_plan).
THEOREM StepsInOrder == Spec => []JournalFollowsPlan
<1>1. RecordInv => JournalFollowsPlan
  <2> SUFFICES ASSUME RecordInv, NEW t \in Copies PROVE Follows(t.kind, t.journal)
    BY Zenon DEF JournalFollowsPlan, Follows
  <2>1. InOrder(task) /\ \A s \in Sessions : InOrder(req[s].copy)
    BY DEF RecordInv, RecordHolds
  <2>2. InOrder(t) BY <2>1 DEF Copies
  <2> QED BY <2>2 DEF InOrder
<1> QED BY <1>1, InitTypeInv, NextTypeInv, InitRecordInv, NextRecordInv, PTL DEF Spec

\* An approval is taken by exactly one recorded attempt (execute_task_plan marks
\* it in its copy, and the version that is compared lets one copy win).
THEOREM OneAttemptEach == Spec => []ApprovalsAreSpent
<1>1. RecordInv => ApprovalsAreSpent
  BY DEF RecordInv, InOrder, Spent, Takings, Consumptions, ApprovalsAreSpent
<1> QED BY <1>1, InitTypeInv, NextTypeInv, InitRecordInv, NextRecordInv, PTL DEF Spec
=============================================================================
