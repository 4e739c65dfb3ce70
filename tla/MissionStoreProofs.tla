-------------------------- MODULE MissionStoreProofs --------------------------
(* Theorems about MissionStore, for every value of its constants. *)
EXTENDS MissionStore, TLAPS

-----------------------------------------------------------------------------
(* What every copy of a row satisfies, wherever it is held: in the table,  *)
(* in a transaction, in the memory of a process.                           *)

SafeRow ==
  {r \in Row : /\ r.status = "processing" <=> r.claimedAt # NoTime
               /\ r.attempts <= r.cap}

LEMMA StatusFacts ==
  /\ PersistedStatuses = {"created", "waiting", "paused", "processing",
       "requires_confirmation", "completed", "failed", "cancelled", "expired"}
  /\ NoTime \notin Nat
BY DEF PersistedStatuses, Statuses, TransientStatuses, NoTime

\* Leaving a status for one other than processing keeps a row well formed.
LEMMA TransitionSafe ==
  ASSUME NEW r \in SafeRow, NEW s \in PersistedStatuses, s # "processing"
  PROVE  Transition(r, s) \in SafeRow
BY StatusFacts DEF Transition, SafeRow, Row, Times

LEMMA BlankSafe == BlankRow \in SafeRow
BY BoundAssumption, StatusFacts DEF BlankRow, SafeRow, Row, Times, AttemptStatuses

LEMMA NewRowSafe ==
  ASSUME NEW t \in Times, NEW c \in 1..MaxAttempts
  PROVE  NewRow(t, c) \in SafeRow
<1>1. BlankRow \in Row
  BY BlankSafe DEF SafeRow
<1>2. NewRow(t, c) \in Row
  BY <1>1, BoundAssumption, StatusFacts DEF NewRow, Row, Times
<1>3. NewRow(t, c).claimedAt = NoTime /\ NewRow(t, c).attempts = 0
      /\ NewRow(t, c).status # "processing" /\ NewRow(t, c).cap = c
  BY <1>1 DEF NewRow, BlankRow
<1> QED
  BY <1>2, <1>3 DEF SafeRow

LEMMA CloseSafe ==
  ASSUME NEW r \in SafeRow, NEW o \in AttemptStatuses
  PROVE  CloseOpenAttempt(r, o) \in SafeRow
BY DEF CloseOpenAttempt, SafeRow, Row

\* update writes a well formed row when the object it is given is well formed.
LEMMA WrittenSafe ==
  ASSUME NEW r \in SafeRow, NEW s \in SafeRow
  PROVE  Written(r, s) \in SafeRow
<1> DEFINE w == [s EXCEPT !.seq = s.seq + 1, !.audit = r.audit]
<1>1. w \in SafeRow
  <2>1. r.audit \in [1..MaxAttempts -> AttemptStatuses] /\ s.seq + 1 \in Nat
    BY DEF SafeRow, Row
  <2>2. w \in Row
    BY <2>1 DEF SafeRow, Row
  <2>3. w.status = s.status /\ w.claimedAt = s.claimedAt
        /\ w.attempts = s.attempts /\ w.cap = s.cap
    BY DEF SafeRow, Row
  <2> QED
    BY <2>2, <2>3 DEF SafeRow
<1>2. {"requires_confirmation", "completed", "failed"} \subseteq AttemptStatuses
  BY DEF AttemptStatuses
<1>3. CASE w.status \in {"requires_confirmation", "completed", "failed"}
  <2>1. CloseOpenAttempt(w, w.status) \in SafeRow
    BY <1>1, <1>2, <1>3, CloseSafe
  <2> QED
    BY <2>1, <1>3 DEF Written, SyncAttempt
<1>4. CASE w.status \notin {"requires_confirmation", "completed", "failed"}
  BY <1>1, <1>4 DEF Written, SyncAttempt
<1> QED
  BY <1>3, <1>4

\* The automatic retry needs a recorded attempt to compute its delay.
LEMMA AutoRetrySafe ==
  ASSUME NEW m \in Missions, NEW r \in SafeRow, NEW t \in Nat, r.attempts > 0
  PROVE  AutoRetry(m, r, t) \in SafeRow
<1> DEFINE at == t + RetryDelay[r.attempts]
<1> DEFINE when == IF ExpiresAt[m] # NoTime /\ ExpiresAt[m] < at THEN ExpiresAt[m] ELSE at
<1>1. r.attempts \in 1..MaxAttempts
  BY BoundAssumption DEF SafeRow, Row
<1>2. at \in Nat
  BY <1>1, BoundAssumption
<1>3. when \in Times
  BY <1>2, BoundAssumption DEF Times
<1>4. Transition(r, "waiting") \in SafeRow
  BY TransitionSafe, StatusFacts
<1>5. AutoRetry(m, r, t) = [Transition(r, "waiting") EXCEPT !.sched = when, !.resv = FALSE]
  BY DEF AutoRetry
<1> HIDE DEF when
<1> QED
  BY <1>3, <1>4, <1>5 DEF SafeRow, Row

LEMMA RecoveredSafe ==
  ASSUME NEW r \in SafeRow
  PROVE  Recovered(r) \in SafeRow
<1> DEFINE target == IF Exhausted(r) THEN "failed" ELSE "waiting"
<1> DEFINE moved == [Transition(r, target) EXCEPT !.seq = r.seq + 1]
<1>1. target \in PersistedStatuses /\ target # "processing"
  BY StatusFacts
<1>2. Transition(r, target) \in SafeRow /\ r.seq + 1 \in Nat
  BY <1>1, TransitionSafe DEF SafeRow, Row
<1> HIDE DEF target
<1>3. moved \in SafeRow
  BY <1>2 DEF SafeRow, Row
<1>4. Recovered(r) = CloseOpenAttempt(moved, IF target = "failed" THEN "failed" ELSE "recovered")
  BY DEF Recovered, target
<1> HIDE DEF moved
<1>5. (IF target = "failed" THEN "failed" ELSE "recovered") \in AttemptStatuses
  BY DEF AttemptStatuses
<1> QED
  BY <1>3, <1>4, <1>5, CloseSafe

\* A claim is taken only while attempts are left, so it stays within the cap.
LEMMA ClaimedSafe ==
  ASSUME NEW r \in SafeRow, NEW t \in Nat, ~Exhausted(r)
  PROVE  Claimed(r, t) \in SafeRow
<1>1. r.attempts + 1 \in 1..MaxAttempts /\ r.attempts + 1 <= r.cap
  BY BoundAssumption DEF SafeRow, Row, Exhausted
<1> DEFINE audit == [r.audit EXCEPT ![r.attempts + 1] = "processing"]
<1>2. audit \in [1..MaxAttempts -> AttemptStatuses]
  BY DEF SafeRow, Row, AttemptStatuses
<1>3. Claimed(r, t) \in Row
  <2>1. Claimed(r, t) = [r EXCEPT !.status = "processing", !.claimedAt = t,
                                  !.attempts = r.attempts + 1, !.audit = audit]
    BY DEF Claimed
  <2>2. r.attempts + 1 \in 0..MaxAttempts /\ "processing" \in PersistedStatuses /\ t \in Times
    BY <1>1, BoundAssumption, StatusFacts DEF Times
  <2> HIDE DEF audit
  <2> QED
    BY <1>2, <2>1, <2>2 DEF SafeRow, Row
<1>4. /\ Claimed(r, t).status = "processing" /\ Claimed(r, t).claimedAt = t
      /\ Claimed(r, t).attempts = r.attempts + 1 /\ Claimed(r, t).cap = r.cap
  BY DEF Claimed, SafeRow, Row
<1> QED
  BY <1>1, <1>3, <1>4, StatusFacts DEF SafeRow

-----------------------------------------------------------------------------
(* The inductive invariant: every copy of a row is well formed, and a      *)
(* process that is past its first step has chosen a Mission.               *)

ProcState ==
  [pc : PCs, cmd : APICommands \cup {"none", "cycle", "retryable"},
   m : Missions \cup {NoMission}, snap : SafeRow, todo : SUBSET Missions, time : Nat]

ProviderState == [res : {"none", "held", "cancelled"}, conf : {"none", "granted", "refused"}]

MissionPCs == PCs \ {"idle", "expire", "claim", "batch"}

SafeTx == [owner : Procs \cup {NoProc}, row : SafeRow]

RowInv ==
  /\ now \in 0..MaxTime
  /\ db \in [Missions -> SafeRow]
  /\ tx \in [Missions -> SafeTx]
  /\ proc \in [Procs -> ProcState]
  /\ provider \in [Missions -> ProviderState]
  /\ \A p \in Procs : proc[p].pc \in MissionPCs => proc[p].m \in Missions

LEMMA IdleState == Idle \in ProcState /\ Idle.pc = "idle"
BY BlankSafe DEF Idle, ProcState, PCs

LEMMA FreeState == Free \in SafeTx
BY BlankSafe DEF Free, SafeTx

\* Begin hands the process a well formed copy and moves it past its first step.
LEMMA BeginInv ==
  ASSUME RowInv, NEW s \in Sessions, NEW m \in Missions, NEW cmd \in APICommands,
         NEW pc \in {"update", "provider", "resolve"}, NEW snap \in SafeRow,
         Begin(s, cmd, m, pc, snap)
  PROVE  RowInv'
<1> DEFINE new == [Idle EXCEPT !.pc = pc, !.cmd = cmd, !.m = m, !.snap = snap]
<1>1. new \in ProcState /\ new.m = m
  BY IdleState DEF ProcState, PCs
<1>2. proc' = [proc EXCEPT ![s] = new]
  BY DEF Begin
<1>3. UNCHANGED <<now, db, tx, provider>>
  BY DEF Begin
<1> HIDE DEF new
<1>4. proc' \in [Procs -> ProcState]
  BY <1>1, <1>2 DEF RowInv
<1>5. \A p \in Procs : proc'[p] = IF p = s THEN new ELSE proc[p]
  BY <1>2 DEF RowInv
<1>6. \A p \in Procs : proc'[p].pc \in MissionPCs => proc'[p].m \in Missions
  BY <1>1, <1>5 DEF RowInv
<1> QED
  BY <1>3, <1>4, <1>6 DEF RowInv

\* The steps a transaction takes keep tables and processes well formed.
LEMMA FlushInv ==
  ASSUME RowInv, NEW p \in Procs, NEW m \in Missions, NEW row \in SafeRow,
         Flush(p, m, row)
  PROVE  tx' \in [Missions -> SafeTx]
<1>1. [owner |-> p, row |-> row] \in SafeTx
  BY DEF SafeTx
<1> QED
  BY <1>1 DEF RowInv, Flush

LEMMA ReleaseInv ==
  ASSUME RowInv, NEW p \in Procs, Release(p)
  PROVE  tx' \in [Missions -> SafeTx]
BY FreeState DEF RowInv, Release

LEMMA IdleInv ==
  ASSUME RowInv, NEW p \in Procs, proc' = [proc EXCEPT ![p] = Idle]
  PROVE  /\ proc' \in [Procs -> ProcState]
         /\ \A q \in Procs : proc'[q].pc \in MissionPCs => proc'[q].m \in Missions
<1>1. proc' \in [Procs -> ProcState]
  BY IdleState DEF RowInv
<1>2. \A q \in Procs : proc'[q] = IF q = p THEN Idle ELSE proc[q]
  BY DEF RowInv
<1>3. Idle.pc \notin MissionPCs
  BY IdleState DEF MissionPCs
<1> QED
  BY <1>1, <1>2, <1>3 DEF RowInv

LEMMA CommitInv ==
  ASSUME RowInv, NEW p \in Procs, CommitTx(p), UNCHANGED <<now, provider>>
  PROVE  RowInv'
<1>1. db' \in [Missions -> SafeRow]
  BY DEF RowInv, CommitTx, SafeTx
<1>2. tx' \in [Missions -> SafeTx]
  BY ReleaseInv DEF CommitTx
<1>3. proc' = [proc EXCEPT ![p] = Idle]
  BY DEF CommitTx
<1> QED
  BY <1>1, <1>2, <1>3, IdleInv DEF RowInv

LEMMA RollbackInv ==
  ASSUME RowInv, NEW p \in Procs, RollbackTx(p), UNCHANGED now,
         provider' \in [Missions -> ProviderState]
  PROVE  RowInv'
<1>1. tx' \in [Missions -> SafeTx]
  BY ReleaseInv DEF RollbackTx
<1>2. proc' = [proc EXCEPT ![p] = Idle] /\ UNCHANGED db
  BY DEF RollbackTx
<1> QED
  BY <1>1, <1>2, IdleInv DEF RowInv

LEMMA GotoInv ==
  ASSUME RowInv, NEW p \in Procs, NEW new \in ProcState,
         proc' = [proc EXCEPT ![p] = new],
         new.pc \in MissionPCs => new.m \in Missions
  PROVE  /\ proc' \in [Procs -> ProcState]
         /\ \A q \in Procs : proc'[q].pc \in MissionPCs => proc'[q].m \in Missions
<1>1. proc' \in [Procs -> ProcState]
  BY DEF RowInv
<1>2. \A q \in Procs : proc'[q] = IF q = p THEN new ELSE proc[q]
  BY DEF RowInv
<1> QED
  BY <1>1, <1>2 DEF RowInv

LEMMA GotoPc ==
  ASSUME RowInv, NEW p \in Procs, NEW pc \in PCs, Goto(p, pc),
         pc \in MissionPCs => proc[p].m \in Missions
  PROVE  /\ proc' \in [Procs -> ProcState]
         /\ \A q \in Procs : proc'[q].pc \in MissionPCs => proc'[q].m \in Missions
<1> DEFINE new == [proc[p] EXCEPT !.pc = pc]
<1>1. proc[p] \in ProcState
  BY DEF RowInv
<1>2. new \in ProcState /\ new.pc = pc /\ new.m = proc[p].m
  BY <1>1 DEF ProcState
<1>3. proc' = [proc EXCEPT ![p] = new]
  BY <1>1 DEF Goto, RowInv
<1> HIDE DEF new
<1> QED
  BY <1>2, <1>3, GotoInv

LEMMA NextMissionInv ==
  ASSUME RowInv, NEW w \in Workers, NextMission(w)
  PROVE  /\ proc' \in [Procs -> ProcState]
         /\ \A q \in Procs : proc'[q].pc \in MissionPCs => proc'[q].m \in Missions
<1> DEFINE new == [Idle EXCEPT !.pc = "batch", !.cmd = "cycle",
                     !.todo = proc[w].todo \ {proc[w].m}, !.time = proc[w].time]
<1>1. w \in Procs
  BY DEF Procs
<1>2. proc[w].todo \in SUBSET Missions /\ proc[w].time \in Nat
  BY <1>1 DEF RowInv, ProcState
<1>3. new \in ProcState /\ new.pc = "batch"
  BY <1>2, IdleState DEF ProcState, PCs
<1>4. proc' = [proc EXCEPT ![w] = new]
  BY DEF NextMission
<1>5. "batch" \notin MissionPCs
  BY DEF MissionPCs
<1> HIDE DEF new
<1> QED
  BY <1>1, <1>3, <1>4, <1>5, GotoInv

-----------------------------------------------------------------------------
(* One lemma per action of an API session.                                 *)

LEMMA CommittedSafe ==
  ASSUME RowInv, NEW m \in Missions
  PROVE  db[m] \in SafeRow
BY DEF RowInv

\* What a command may change of a row besides its status.
LEMMA PlannedSafe ==
  ASSUME NEW r \in SafeRow, NEW t \in Times, NEW b \in BOOLEAN
  PROVE  /\ [r EXCEPT !.sched = t] \in SafeRow
         /\ [r EXCEPT !.resv = b] \in SafeRow
         /\ [r EXCEPT !.sched = t, !.resv = b] \in SafeRow
BY DEF SafeRow, Row

LEMMA PauseInv ==
  ASSUME RowInv, NEW s \in Sessions, NEW m \in Missions, Pause(s, m)
  PROVE  RowInv'
<1>1. Transition(db[m], "paused") \in SafeRow
  BY CommittedSafe, TransitionSafe, StatusFacts
<1>2. Begin(s, "pause", m, "update", Transition(db[m], "paused"))
  BY DEF Pause
<1> QED
  BY <1>1, <1>2, BeginInv DEF APICommands

LEMMA ResumeInv ==
  ASSUME RowInv, NEW s \in Sessions, NEW m \in Missions, Resume(s, m)
  PROVE  RowInv'
<1> DEFINE target == IF db[m].sched = NoTime THEN "created" ELSE "waiting"
<1>1. target \in PersistedStatuses /\ target # "processing"
  BY StatusFacts
<1>2. Transition(db[m], target) \in SafeRow
  BY <1>1, CommittedSafe, TransitionSafe
<1>3. Begin(s, "resume", m, "update", Transition(db[m], target))
  BY DEF Resume
<1> HIDE DEF target
<1> QED
  BY <1>2, <1>3, BeginInv DEF APICommands

LEMMA CancelInv ==
  ASSUME RowInv, NEW s \in Sessions, NEW m \in Missions, Cancel(s, m)
  PROVE  RowInv'
<1>1. Transition(db[m], "cancelled") \in SafeRow /\ db[m] \in SafeRow
  BY CommittedSafe, TransitionSafe, StatusFacts
<1>2. CASE Begin(s, "cancel", m, "update", Transition(db[m], "cancelled"))
  BY <1>1, <1>2, BeginInv DEF APICommands
<1>3. CASE Begin(s, "cancel", m, "provider", db[m])
  BY <1>1, <1>3, BeginInv DEF APICommands
<1> QED
  BY <1>2, <1>3 DEF Cancel

LEMMA ConfirmInv ==
  ASSUME RowInv, NEW s \in Sessions, NEW m \in Missions, Confirm(s, m)
  PROVE  RowInv'
BY CommittedSafe, BeginInv DEF Confirm, APICommands

LEMMA RetryInv ==
  ASSUME RowInv, NEW s \in Sessions, NEW m \in Missions, Retry(s, m)
  PROVE  RowInv'
<1>1. PICK at \in now..MaxTime :
        Begin(s, "retry", m, "update",
              [Transition(db[m], "waiting") EXCEPT !.sched = at, !.resv = FALSE])
  BY DEF Retry
<1>2. at \in Times
  BY BoundAssumption DEF RowInv, Times
<1>3. Transition(db[m], "waiting") \in SafeRow
  BY CommittedSafe, TransitionSafe, StatusFacts
<1>4. [Transition(db[m], "waiting") EXCEPT !.sched = at, !.resv = FALSE] \in SafeRow
  BY <1>2, <1>3, PlannedSafe
<1> QED
  BY <1>1, <1>4, BeginInv DEF APICommands

LEMMA ScheduleInv ==
  ASSUME RowInv, NEW s \in Sessions, NEW m \in Missions, Schedule(s, m)
  PROVE  RowInv'
<1> DEFINE planned(at) == [db[m] EXCEPT !.sched = at]
<1>1. ASSUME NEW at \in Times
      PROVE  /\ planned(at) \in SafeRow
             /\ Transition(planned(at), "waiting") \in SafeRow
             /\ Transition(planned(at), "created") \in SafeRow
  <2>1. planned(at) \in SafeRow
    BY CommittedSafe, PlannedSafe
  <2> HIDE DEF planned
  <2> QED
    BY <2>1, TransitionSafe, StatusFacts
<1>2. \E at \in Times, snap \in SafeRow : Begin(s, "schedule", m, "update", snap)
  <2>1. CASE \E at \in (now + 1)..MaxTime :
               Begin(s, "schedule", m, "update",
                 IF planned(at).status = "created" THEN Transition(planned(at), "waiting")
                 ELSE planned(at))
    <3>1. PICK at \in (now + 1)..MaxTime :
            Begin(s, "schedule", m, "update",
              IF planned(at).status = "created" THEN Transition(planned(at), "waiting")
              ELSE planned(at))
      BY <2>1
    <3>2. at \in Times
      BY BoundAssumption DEF RowInv, Times
    <3> QED
      BY <3>1, <3>2, <1>1
  <2>2. CASE Begin(s, "schedule", m, "update",
               IF planned(NoTime).status = "waiting"
               THEN Transition(planned(NoTime), "created") ELSE planned(NoTime))
    <3>1. NoTime \in Times
      BY DEF Times
    <3> QED
      BY <2>2, <3>1, <1>1
  <2> QED
    BY <2>1, <2>2 DEF Schedule
<1> QED
  BY <1>2, BeginInv DEF APICommands

LEMMA PatchInv ==
  ASSUME RowInv, NEW s \in Sessions, NEW m \in Missions, Patch(s, m)
  PROVE  RowInv'
<1>1. PICK cap \in 1..MaxAttempts :
        cap >= db[m].attempts /\ Begin(s, "patch", m, "update", [db[m] EXCEPT !.cap = cap])
  BY DEF Patch
<1>2. [db[m] EXCEPT !.cap = cap] \in SafeRow
  BY <1>1, CommittedSafe, BoundAssumption DEF SafeRow, Row
<1> QED
  BY <1>1, <1>2, BeginInv DEF APICommands

LEMMA SetProviderInv ==
  ASSUME RowInv, NEW s \in Sessions, NEW m \in Missions, SetProvider(s, m)
  PROVE  RowInv'
<1>1. [db[m] EXCEPT !.resv = FALSE] \in SafeRow
  BY CommittedSafe DEF SafeRow, Row
<1> QED
  BY <1>1, BeginInv DEF APICommands, SetProvider

LEMMA RunInv ==
  ASSUME RowInv, NEW s \in Sessions, NEW m \in Missions, Run(s, m)
  PROVE  RowInv'
BY CommittedSafe, BeginInv DEF Run, APICommands

\* What a process reads of a row, and what it holds.
LEMMA HeldSafe ==
  ASSUME RowInv, NEW p \in Procs
  PROVE  /\ proc[p] \in ProcState
         /\ proc[p].snap \in SafeRow
         /\ proc[p].pc \in MissionPCs => proc[p].m \in Missions
         /\ \A m \in Missions : tx[m].row \in SafeRow /\ View(p, m) \in SafeRow
BY DEF RowInv, ProcState, SafeTx, View

LEMMA UpdateInv ==
  ASSUME RowInv, NEW s \in Sessions, Update(s)
  PROVE  RowInv'
<1> DEFINE m == proc[s].m
<1>1. s \in Procs /\ proc[s].pc = "update"
  BY DEF Procs, Update
<1>2. m \in Missions
  BY <1>1, HeldSafe DEF MissionPCs, PCs
<1>3. CASE db[m].seq = proc[s].snap.seq
  <2>1. Flush(s, m, Written(db[m], proc[s].snap)) /\ Goto(s, "commit")
        /\ UNCHANGED <<now, db, provider>>
    BY <1>3 DEF Update
  <2>2. Written(db[m], proc[s].snap) \in SafeRow
    BY <1>1, <1>2, HeldSafe, CommittedSafe, WrittenSafe
  <2>3. tx' \in [Missions -> SafeTx]
    BY <1>1, <1>2, <2>1, <2>2, FlushInv
  <2> QED
    BY <1>1, <1>2, <2>1, <2>3, GotoPc DEF RowInv, PCs
<1>4. CASE db[m].seq # proc[s].snap.seq
  BY <1>1, <1>4, RollbackInv DEF Update, RowInv
<1> QED
  BY <1>3, <1>4

LEMMA EndInv ==
  ASSUME RowInv, NEW p \in Procs, Commit(p) \/ EndCycle(p)
  PROVE  RowInv'
BY CommitInv DEF Commit, EndCycle

LEMMA AnswerStates ==
  ASSUME RowInv, NEW m \in Missions
  PROVE  /\ \A r \in ConfirmReplies(m) : [provider[m] EXCEPT !.conf = r.conf] \in ProviderState
         /\ \A r \in CancelReplies(m) : [provider[m] EXCEPT !.res = r.res] \in ProviderState
         /\ \A r \in ReserveReplies(m) : [provider[m] EXCEPT !.res = r.res] \in ProviderState
<1>1. provider[m] \in ProviderState
  BY DEF RowInv
<1>2. \A r \in ConfirmReplies(m) : r.conf \in {"none", "granted", "refused"}
  BY <1>1 DEF ConfirmReplies, ProviderState
<1>3. \A r \in CancelReplies(m) : r.res \in {"none", "held", "cancelled"}
  BY <1>1 DEF CancelReplies, ProviderState
<1>4. \A r \in ReserveReplies(m) : r.res \in {"none", "held", "cancelled"}
  BY <1>1 DEF ReserveReplies, ProviderState
<1> QED
  BY <1>1, <1>2, <1>3, <1>4 DEF ProviderState

\* A provider answer moves a session from its call to its update.
LEMMA AnsweredInv ==
  ASSUME RowInv, NEW s \in Sessions, NEW snap \in SafeRow, proc[s].m \in Missions,
         proc' = [proc EXCEPT ![s].pc = "update", ![s].snap = snap]
  PROVE  /\ proc' \in [Procs -> ProcState]
         /\ \A q \in Procs : proc'[q].pc \in MissionPCs => proc'[q].m \in Missions
<1> DEFINE new == [proc[s] EXCEPT !.pc = "update", !.snap = snap]
<1>1. s \in Procs
  BY DEF Procs
<1>2. proc[s] \in ProcState
  BY <1>1, HeldSafe
<1>3. new \in ProcState /\ new.m = proc[s].m
  BY <1>2 DEF ProcState, PCs
<1>4. proc' = [proc EXCEPT ![s] = new]
  BY <1>1, <1>2 DEF RowInv
<1> HIDE DEF new
<1> QED
  BY <1>1, <1>3, <1>4, GotoInv

LEMMA ProviderConfirmInv ==
  ASSUME RowInv, NEW s \in Sessions, ProviderConfirm(s)
  PROVE  RowInv'
<1> DEFINE m == proc[s].m
<1>1. s \in Procs /\ proc[s].pc = "provider"
  BY DEF Procs, ProviderConfirm
<1>2. m \in Missions /\ proc[s].snap \in SafeRow
  BY <1>1, HeldSafe DEF MissionPCs, PCs
<1>3. PICK r \in ConfirmReplies(m) :
        /\ provider' = [provider EXCEPT ![m].conf = r.conf]
        /\ proc' = [proc EXCEPT ![s].pc = "update", ![s].snap =
             Transition(proc[s].snap, IF r.reply = "granted" THEN "completed" ELSE "failed")]
  BY DEF ProviderConfirm
<1>4. provider' \in [Missions -> ProviderState]
  <2>1. provider' = [provider EXCEPT ![m] = [provider[m] EXCEPT !.conf = r.conf]]
    BY <1>3
  <2> QED
    BY <1>2, <2>1, AnswerStates DEF RowInv
<1> DEFINE target == IF r.reply = "granted" THEN "completed" ELSE "failed"
<1>5. target \in PersistedStatuses /\ target # "processing"
  BY StatusFacts
<1>6. Transition(proc[s].snap, target) \in SafeRow
  BY <1>2, <1>5, TransitionSafe
<1>7. UNCHANGED <<now, db, tx>>
  BY DEF ProviderConfirm
<1>8. proc' = [proc EXCEPT ![s].pc = "update", ![s].snap = Transition(proc[s].snap, target)]
  BY <1>3
<1> HIDE DEF target
<1> QED
  BY <1>2, <1>4, <1>6, <1>7, <1>8, AnsweredInv DEF RowInv

LEMMA ProviderCancelInv ==
  ASSUME RowInv, NEW s \in Sessions, ProviderCancel(s)
  PROVE  RowInv'
<1> DEFINE m == proc[s].m
<1>1. s \in Procs /\ proc[s].pc = "provider"
  BY DEF Procs, ProviderCancel
<1>2. m \in Missions /\ proc[s].snap \in SafeRow
  BY <1>1, HeldSafe DEF MissionPCs, PCs
<1>3. PICK r \in CancelReplies(m) :
        /\ provider' = [provider EXCEPT ![m].res = r.res]
        /\ proc' = [proc EXCEPT ![s].pc = "update", ![s].snap =
             Transition(proc[s].snap, IF r.reply = "granted" THEN "cancelled" ELSE "failed")]
  BY DEF ProviderCancel
<1>4. provider' \in [Missions -> ProviderState]
  <2>1. provider' = [provider EXCEPT ![m] = [provider[m] EXCEPT !.res = r.res]]
    BY <1>3
  <2> QED
    BY <1>2, <2>1, AnswerStates DEF RowInv
<1> DEFINE target == IF r.reply = "granted" THEN "cancelled" ELSE "failed"
<1>5. target \in PersistedStatuses /\ target # "processing"
  BY StatusFacts
<1>6. Transition(proc[s].snap, target) \in SafeRow
  BY <1>2, <1>5, TransitionSafe
<1>7. UNCHANGED <<now, db, tx>>
  BY DEF ProviderCancel
<1>8. proc' = [proc EXCEPT ![s].pc = "update", ![s].snap = Transition(proc[s].snap, target)]
  BY <1>3
<1> HIDE DEF target
<1> QED
  BY <1>2, <1>4, <1>6, <1>7, <1>8, AnsweredInv DEF RowInv

-----------------------------------------------------------------------------
(* The steps of a run, whoever executes it.                                *)

\* The pieces every run step is made of leave RowInv to the provider's answer.
LEMMA RaiseInv ==
  ASSUME RowInv, NEW p \in Procs, NEW retryable \in BOOLEAN, proc[p].m \in Missions,
         Raise(p, retryable), UNCHANGED <<now, provider>>
  PROVE  RowInv'
<1>1. CASE p \in Sessions
  BY <1>1, RollbackInv DEF Raise, RowInv
<1>2. CASE p \notin Sessions
  <2> DEFINE new == [proc[p] EXCEPT !.pc = "mark",
                                    !.cmd = IF retryable THEN "retryable" ELSE "cycle"]
  <2>1. proc[p] \in ProcState
    BY HeldSafe
  <2>2. new \in ProcState /\ new.m = proc[p].m
    BY <2>1 DEF ProcState, PCs
  <2>3. proc' = [proc EXCEPT ![p] = new] /\ UNCHANGED <<db, tx>>
    BY <1>2, <2>1 DEF Raise, RowInv
  <2> HIDE DEF new
  <2> QED
    BY <2>2, <2>3, GotoInv DEF RowInv
<1> QED
  BY <1>1, <1>2

LEMMA FinishRunInv ==
  ASSUME RowInv, NEW p \in Procs, NEW row \in SafeRow, proc[p].m \in Missions,
         FinishRun(p, row), UNCHANGED now, provider' \in [Missions -> ProviderState]
  PROVE  RowInv'
<1> DEFINE m == proc[p].m
<1>1. Written(tx[m].row, row) \in SafeRow
  BY HeldSafe, WrittenSafe
<1>2. tx' \in [Missions -> SafeTx] /\ UNCHANGED db
  BY <1>1, FlushInv DEF FinishRun
<1>3. CASE p \in Sessions
  <2>1. Goto(p, "commit")
    BY <1>3 DEF FinishRun
  <2> QED
    BY <1>2, <2>1, GotoPc DEF RowInv, PCs
<1>4. CASE p \notin Sessions
  <2>1. NextMission(p) /\ p \in Workers
    BY <1>4 DEF FinishRun, Procs
  <2> QED
    BY <1>2, <2>1, NextMissionInv DEF RowInv
<1> QED
  BY <1>3, <1>4

LEMMA FailRunInv ==
  ASSUME RowInv, NEW p \in Procs, NEW retryable \in BOOLEAN, NEW snap \in SafeRow,
         proc[p].m \in Missions, FailRun(p, retryable, snap),
         UNCHANGED now, provider' \in [Missions -> ProviderState]
  PROVE  RowInv'
<1> DEFINE m == proc[p].m
<1> DEFINE failed == Written(tx[m].row, Transition(snap, "failed"))
<1>1. failed \in SafeRow
  BY HeldSafe, WrittenSafe, TransitionSafe, StatusFacts
<1>2. proc[p].time \in Nat
  BY HeldSafe DEF ProcState
<1>3. CASE Flush(p, m, failed) /\ Goto(p, "commit") /\ UNCHANGED db
  <2>1. tx' \in [Missions -> SafeTx]
    BY <1>1, <1>3, FlushInv
  <2> QED
    BY <1>3, <2>1, GotoPc DEF RowInv, PCs
<1>4. CASE /\ p \in Workers /\ failed.attempts > 0
           /\ Flush(p, m, Written(failed, AutoRetry(m, failed, proc[p].time)))
           /\ NextMission(p) /\ UNCHANGED db
  <2> HIDE DEF failed
  <2>1. Written(failed, AutoRetry(m, failed, proc[p].time)) \in SafeRow
    BY <1>1, <1>2, <1>4, AutoRetrySafe, WrittenSafe
  <2>2. tx' \in [Missions -> SafeTx]
    BY <1>4, <2>1, FlushInv
  <2> QED
    BY <1>4, <2>2, NextMissionInv DEF RowInv
<1>5. CASE p \in Workers /\ Flush(p, m, Written(failed, failed)) /\ NextMission(p)
           /\ UNCHANGED db
  <2> HIDE DEF failed
  <2>1. Written(failed, failed) \in SafeRow
    BY <1>1, WrittenSafe
  <2>2. tx' \in [Missions -> SafeTx]
    BY <1>5, <2>1, FlushInv
  <2> QED
    BY <1>5, <2>2, NextMissionInv DEF RowInv
<1>6. CASE RollbackTx(p)
  BY <1>6, RollbackInv
<1> QED
  BY <1>3, <1>4, <1>5, <1>6 DEF FailRun

LEMMA ResolveInv ==
  ASSUME RowInv, NEW p \in Procs, Resolve(p) \/ ResolveRefused(p)
  PROVE  RowInv'
<1> DEFINE m == proc[p].m
<1>1. proc[p].pc = "resolve" /\ UNCHANGED <<now, provider>>
  BY DEF Resolve, ResolveRefused
<1>2. m \in Missions
  BY <1>1, HeldSafe DEF MissionPCs, PCs
<1> DEFINE written == Written(View(p, m), proc[p].snap)
<1>3. written \in SafeRow
  BY <1>2, HeldSafe, WrittenSafe
<1>4. CASE Flush(p, m, written) /\ (Goto(p, "search") \/ Goto(p, "mark")) /\ UNCHANGED db
  <2>1. tx' \in [Missions -> SafeTx]
    BY <1>2, <1>3, <1>4, FlushInv
  <2> QED
    BY <1>1, <1>2, <1>4, <2>1, GotoPc DEF RowInv, PCs
<1>5. CASE Raise(p, FALSE)
  BY <1>1, <1>2, <1>5, RaiseInv
<1>6. CASE RollbackTx(p)
  BY <1>1, <1>6, RollbackInv DEF RowInv
<1> QED
  BY <1>4, <1>5, <1>6 DEF Resolve, ResolveRefused

LEMMA SearchInv ==
  ASSUME RowInv, NEW p \in Procs, Search(p)
  PROVE  RowInv'
<1> DEFINE row == tx[proc[p].m].row
<1>1. proc[p].m \in Missions /\ row \in SafeRow
  BY HeldSafe DEF Search, MissionPCs, PCs
<1>2. UNCHANGED <<now, provider>> /\ provider' \in [Missions -> ProviderState]
  BY DEF Search, RowInv
<1>3. CASE \E retryable \in BOOLEAN : FailRun(p, retryable, row)
  BY <1>1, <1>2, <1>3, FailRunInv
<1>4. CASE \E retryable \in BOOLEAN : Raise(p, retryable)
  BY <1>1, <1>2, <1>4, RaiseInv
<1>5. CASE FinishRun(p, Transition(row, "completed"))
  BY <1>1, <1>2, <1>5, FinishRunInv, TransitionSafe, StatusFacts
<1> QED
  BY <1>3, <1>4, <1>5 DEF Search

LEMMA ReserveInv ==
  ASSUME RowInv, NEW p \in Procs, Reserve(p)
  PROVE  RowInv'
<1> DEFINE m == proc[p].m
<1> DEFINE row == tx[m].row
<1> DEFINE reserved == [row EXCEPT !.resv = TRUE]
<1>1. proc[p] \in ProcState /\ m \in Missions /\ row \in SafeRow /\ now' = now
  BY HeldSafe DEF Reserve, MissionPCs, PCs
<1>2. reserved \in SafeRow
  BY <1>1 DEF SafeRow, Row
<1>3. PICK r \in ReserveReplies(m) :
        /\ provider' = [provider EXCEPT ![m].res = r.res]
        /\ \/ \E retryable \in BOOLEAN : FailRun(p, retryable, row)
           \/ FailRun(p, FALSE, row)
           \/ FinishRun(p, Transition(reserved, "requires_confirmation"))
           \/ FinishRun(p, Transition(reserved, "completed"))
           \/ /\ proc' = [proc EXCEPT ![p].pc = "autoconfirm", ![p].snap = reserved]
              /\ UNCHANGED <<db, tx>>
  BY DEF Reserve
<1>4. provider' \in [Missions -> ProviderState]
  <2>1. provider' = [provider EXCEPT ![m] = [provider[m] EXCEPT !.res = r.res]]
    BY <1>3
  <2> QED
    BY <1>1, <2>1, AnswerStates DEF RowInv
<1>5. Transition(reserved, "requires_confirmation") \in SafeRow
      /\ Transition(reserved, "completed") \in SafeRow
  BY <1>2, TransitionSafe, StatusFacts
<1>6. CASE \E retryable \in BOOLEAN : FailRun(p, retryable, row)
  BY <1>1, <1>4, <1>6, FailRunInv
<1>7. CASE FinishRun(p, Transition(reserved, "requires_confirmation"))
  BY <1>1, <1>4, <1>5, <1>7, FinishRunInv
<1>8. CASE FinishRun(p, Transition(reserved, "completed"))
  BY <1>1, <1>4, <1>5, <1>8, FinishRunInv
<1>9. CASE proc' = [proc EXCEPT ![p].pc = "autoconfirm", ![p].snap = reserved]
           /\ UNCHANGED <<db, tx>>
  <2> DEFINE new == [proc[p] EXCEPT !.pc = "autoconfirm", !.snap = reserved]
  <2> HIDE DEF reserved
  <2>1. new \in ProcState /\ new.m = m
    BY <1>1, <1>2 DEF ProcState, PCs
  <2>2. proc' = [proc EXCEPT ![p] = new]
    BY <1>1, <1>9 DEF RowInv
  <2> HIDE DEF new
  <2> QED
    BY <1>1, <1>4, <1>9, <2>1, <2>2, GotoInv DEF RowInv
<1> QED
  BY <1>3, <1>6, <1>7, <1>8, <1>9

LEMMA AutoConfirmInv ==
  ASSUME RowInv, NEW p \in Procs, AutoConfirm(p)
  PROVE  RowInv'
<1> DEFINE m == proc[p].m
<1> DEFINE row == proc[p].snap
<1>1. m \in Missions /\ row \in SafeRow /\ now' = now
  BY HeldSafe DEF AutoConfirm, MissionPCs, PCs
<1>2. PICK r \in ConfirmReplies(m) :
        /\ provider' = [provider EXCEPT ![m].conf = r.conf]
        /\ \/ FinishRun(p, Transition(row, "completed"))
           \/ \E retryable \in BOOLEAN : FailRun(p, retryable, row)
  BY DEF AutoConfirm
<1>3. provider' \in [Missions -> ProviderState]
  <2>1. provider' = [provider EXCEPT ![m] = [provider[m] EXCEPT !.conf = r.conf]]
    BY <1>2
  <2> QED
    BY <1>1, <2>1, AnswerStates DEF RowInv
<1>4. Transition(row, "completed") \in SafeRow
  BY <1>1, TransitionSafe, StatusFacts
<1>5. CASE FinishRun(p, Transition(row, "completed"))
  BY <1>1, <1>3, <1>4, <1>5, FinishRunInv
<1>6. CASE \E retryable \in BOOLEAN : FailRun(p, retryable, row)
  BY <1>1, <1>3, <1>6, FailRunInv
<1> QED
  BY <1>2, <1>5, <1>6

LEMMA RunStepInv ==
  ASSUME RowInv, NEW p \in Procs, RunStep(p)
  PROVE  RowInv'
BY ResolveInv, SearchInv, ReserveInv, AutoConfirmInv DEF RunStep

-----------------------------------------------------------------------------
(* One lemma per action of a worker.                                       *)

\* A new cycle of a worker remembers the time it was begun.
LEMMA CycleBegun ==
  ASSUME RowInv, NEW w \in Workers,
         proc' = [proc EXCEPT ![w] = [Idle EXCEPT !.pc = "expire", !.cmd = "cycle",
                                                  !.time = now]]
  PROVE  /\ proc' \in [Procs -> ProcState]
         /\ \A q \in Procs : proc'[q].pc \in MissionPCs => proc'[q].m \in Missions
<1> DEFINE new == [Idle EXCEPT !.pc = "expire", !.cmd = "cycle", !.time = now]
<1>1. now \in Nat
  BY BoundAssumption DEF RowInv
<1>2. new \in ProcState /\ new.pc = "expire"
  BY <1>1, IdleState DEF ProcState, PCs
<1>3. w \in Procs /\ "expire" \notin MissionPCs
  BY DEF Procs, MissionPCs
<1> HIDE DEF new
<1>4. proc' = [proc EXCEPT ![w] = new]
  BY DEF new
<1> QED
  BY <1>2, <1>3, <1>4, GotoInv

LEMMA RecoverInv ==
  ASSUME RowInv, NEW w \in Workers, Recover(w)
  PROVE  RowInv'
<1>1. PICK S \in SUBSET Missions :
        db' = [m \in Missions |-> IF m \in S THEN Recovered(db[m]) ELSE db[m]]
  BY DEF Recover, Batches
<1>2. db' \in [Missions -> SafeRow]
  BY <1>1, CommittedSafe, RecoveredSafe
<1>3. UNCHANGED <<now, tx, provider>>
  BY DEF Recover
<1> QED
  BY <1>2, <1>3, CycleBegun DEF Recover, RowInv

LEMMA ProcessDueInv ==
  ASSUME RowInv, NEW w \in Workers, ProcessDue(w)
  PROVE  RowInv'
BY CycleBegun DEF ProcessDue, RowInv

LEMMA ExpireInv ==
  ASSUME RowInv, NEW w \in Workers, Expire(w)
  PROVE  RowInv'
<1>1. w \in Procs /\ UNCHANGED <<now, provider>>
  BY DEF Procs, Expire
<1> DEFINE expired(m) == [Transition(db[m], "expired") EXCEPT !.seq = db[m].seq + 1]
<1>2. ASSUME NEW m \in Missions
      PROVE  expired(m) \in SafeRow
  <2>1. Transition(db[m], "expired") \in SafeRow /\ db[m].seq + 1 \in Nat
    BY CommittedSafe, TransitionSafe, StatusFacts DEF SafeRow, Row
  <2> QED
    BY <2>1 DEF SafeRow, Row
<1>3. CASE \E S \in SUBSET Missions :
             /\ db' = [m \in Missions |-> IF m \in S THEN expired(m) ELSE db[m]]
             /\ Goto(w, "claim") /\ UNCHANGED tx
  <2>1. db' \in [Missions -> SafeRow]
    <3> HIDE DEF expired
    <3> QED
      BY <1>2, <1>3, CommittedSafe
  <2>2. Goto(w, "claim") /\ UNCHANGED tx /\ "claim" \in PCs \ MissionPCs
    BY <1>3 DEF PCs, MissionPCs
  <2> QED
    BY <1>1, <2>1, <2>2, GotoPc DEF RowInv
<1>4. CASE RollbackTx(w)
  BY <1>1, <1>4, RollbackInv DEF RowInv
<1> QED
  BY <1>3, <1>4 DEF Expire, Batches

LEMMA ClaimInv ==
  ASSUME RowInv, NEW w \in Workers, Claim(w)
  PROVE  RowInv'
<1> DEFINE t == proc[w].time
<1>1. w \in Procs /\ UNCHANGED <<now, provider>>
  BY DEF Procs, Claim
<1>2. proc[w] \in ProcState /\ t \in Nat
  BY <1>1, HeldSafe DEF ProcState
<1>3. CASE \E S \in SUBSET {m \in Missions : Due(m, t)} :
             /\ db' = [m \in Missions |-> IF m \in S THEN Claimed(db[m], t) ELSE db[m]]
             /\ proc' = [proc EXCEPT ![w].pc = "batch", ![w].todo = S]
             /\ UNCHANGED tx
  <2>1. PICK S \in SUBSET {m \in Missions : Due(m, t)} :
             /\ db' = [m \in Missions |-> IF m \in S THEN Claimed(db[m], t) ELSE db[m]]
             /\ proc' = [proc EXCEPT ![w].pc = "batch", ![w].todo = S]
             /\ UNCHANGED tx
    BY <1>3
  <2>2. \A m \in S : ~Exhausted(db[m])
    BY <2>1 DEF Due
  <2>3. db' \in [Missions -> SafeRow]
    BY <1>2, <2>1, <2>2, CommittedSafe, ClaimedSafe
  <2> DEFINE new == [proc[w] EXCEPT !.pc = "batch", !.todo = S]
  <2>4. new \in ProcState /\ new.pc = "batch" /\ "batch" \notin MissionPCs
    BY <1>2 DEF ProcState, PCs, MissionPCs
  <2>5. proc' = [proc EXCEPT ![w] = new]
    BY <1>1, <1>2, <2>1 DEF RowInv
  <2> HIDE DEF new
  <2> QED
    BY <1>1, <2>1, <2>3, <2>4, <2>5, GotoInv DEF RowInv
<1>4. CASE RollbackTx(w)
  BY <1>1, <1>4, RollbackInv DEF RowInv
<1> QED
  BY <1>3, <1>4 DEF Claim, Batches

LEMMA PickInv ==
  ASSUME RowInv, NEW w \in Workers, Pick(w)
  PROVE  RowInv'
<1>1. PICK m \in Missions, pc \in {"resolve", "mark"} :
        proc' = [proc EXCEPT ![w] = [proc[w] EXCEPT !.pc = pc, !.m = m, !.snap = View(w, m)]]
  <2>1. proc[w].todo \subseteq Missions
    BY HeldSafe DEF Procs, ProcState
  <2> QED
    BY <2>1 DEF Pick
<1>2. w \in Procs /\ proc[w] \in ProcState /\ View(w, m) \in SafeRow
  BY HeldSafe DEF Procs
<1> DEFINE new == [proc[w] EXCEPT !.pc = pc, !.m = m, !.snap = View(w, m)]
<1>3. new \in ProcState /\ new.m = m
  BY <1>2 DEF ProcState, PCs
<1>4. proc' = [proc EXCEPT ![w] = new]
  BY <1>1
<1> HIDE DEF new
<1> QED
  BY <1>2, <1>3, <1>4, GotoInv DEF RowInv, Pick

LEMMA MarkInv ==
  ASSUME RowInv, NEW w \in Workers, Mark(w)
  PROVE  RowInv'
<1> DEFINE m == proc[w].m
<1> DEFINE snap == Transition(View(w, m), "failed")
<1>1. w \in Procs /\ UNCHANGED <<now, provider>>
  BY DEF Procs, Mark
<1>2. proc[w] \in ProcState /\ m \in Missions
  BY <1>1, HeldSafe DEF Mark, MissionPCs, PCs
<1>3. snap \in SafeRow
  BY <1>1, <1>2, HeldSafe, TransitionSafe, StatusFacts
<1>4. CASE /\ proc' = [proc EXCEPT ![w].pc = "marking", ![w].snap = snap]
           /\ UNCHANGED <<db, tx>>
  <2> DEFINE new == [proc[w] EXCEPT !.pc = "marking", !.snap = snap]
  <2> HIDE DEF snap
  <2>1. new \in ProcState /\ new.m = m
    BY <1>2, <1>3 DEF ProcState, PCs
  <2>2. proc' = [proc EXCEPT ![w] = new]
    BY <1>1, <1>2, <1>4 DEF RowInv
  <2> HIDE DEF new
  <2> QED
    BY <1>1, <1>2, <1>4, <2>1, <2>2, GotoInv DEF RowInv
<1>5. CASE RollbackTx(w)
  BY <1>1, <1>5, RollbackInv DEF RowInv
<1> QED
  BY <1>4, <1>5 DEF Mark

LEMMA MarkFailedInv ==
  ASSUME RowInv, NEW w \in Workers, MarkFailed(w)
  PROVE  RowInv'
<1> DEFINE m == proc[w].m
<1> DEFINE failed == Written(View(w, m), proc[w].snap)
<1>1. w \in Procs /\ UNCHANGED <<now, provider>>
  BY DEF Procs, MarkFailed
<1>2. proc[w].time \in Nat /\ m \in Missions
  BY <1>1, HeldSafe DEF MarkFailed, MissionPCs, PCs, ProcState
<1>3. failed \in SafeRow
  BY <1>1, <1>2, HeldSafe, WrittenSafe
<1>4. CASE RollbackTx(w)
  BY <1>1, <1>4, RollbackInv DEF RowInv
<1>5. CASE Flush(w, m, failed) /\ NextMission(w) /\ UNCHANGED db
  <2>1. tx' \in [Missions -> SafeTx]
    BY <1>1, <1>2, <1>3, <1>5, FlushInv
  <2> QED
    BY <1>1, <1>5, <2>1, NextMissionInv DEF RowInv
<1>6. CASE /\ failed.attempts # 0
           /\ Flush(w, m, Written(failed, AutoRetry(m, failed, proc[w].time)))
           /\ NextMission(w) /\ UNCHANGED db
  <2> HIDE DEF failed
  <2>1. failed.attempts > 0
    BY <1>3, <1>6, BoundAssumption DEF SafeRow, Row
  <2>2. Written(failed, AutoRetry(m, failed, proc[w].time)) \in SafeRow
    BY <1>2, <1>3, <2>1, AutoRetrySafe, WrittenSafe
  <2>3. tx' \in [Missions -> SafeTx]
    BY <1>1, <1>2, <1>6, <2>2, FlushInv
  <2> QED
    BY <1>1, <1>6, <2>3, NextMissionInv DEF RowInv
<1> QED
  BY <1>4, <1>5, <1>6 DEF MarkFailed

-----------------------------------------------------------------------------
\* Every initial state satisfies the invariant.
LEMMA InitRowInv == Init => RowInv
<1> SUFFICES ASSUME Init PROVE RowInv
  OBVIOUS
<1>1. db \in [Missions -> SafeRow]
  <2>1. \A sched \in {NoTime} \cup 0..MaxTime : sched \in Times
    BY BoundAssumption DEF Times
  <2> QED
    BY <2>1, NewRowSafe DEF Init
<1>2. tx \in [Missions -> SafeTx]
  BY FreeState DEF Init
<1>3. proc \in [Procs -> ProcState] /\ \A p \in Procs : proc[p].pc = "idle"
  BY IdleState DEF Init
<1>4. provider \in [Missions -> ProviderState]
  BY DEF Init, ProviderState
<1>5. now \in 0..MaxTime
  BY BoundAssumption DEF Init
<1> QED
  BY <1>1, <1>2, <1>3, <1>4, <1>5 DEF RowInv, MissionPCs

\* Every step preserves it.
LEMMA NextRowInv == RowInv /\ [Next]_vars => RowInv'
<1> SUFFICES ASSUME RowInv, [Next]_vars PROVE RowInv'
  OBVIOUS
<1>1. CASE Tick
  BY <1>1, BoundAssumption DEF Tick, RowInv
<1>2. ASSUME NEW s \in Sessions, Request(s)
      PROVE  RowInv'
  BY <1>2, PauseInv, ResumeInv, CancelInv, ConfirmInv, RetryInv, ScheduleInv, PatchInv,
     SetProviderInv, RunInv DEF Request
<1>3. ASSUME NEW s \in Sessions, SessionStep(s)
      PROVE  RowInv'
  BY <1>3, ProviderConfirmInv, ProviderCancelInv, UpdateInv, EndInv, RunStepInv
     DEF SessionStep, Procs
<1>4. ASSUME NEW w \in Workers, Recover(w) \/ ProcessDue(w)
      PROVE  RowInv'
  BY <1>4, RecoverInv, ProcessDueInv
<1>5. ASSUME NEW w \in Workers, CycleStep(w)
      PROVE  RowInv'
  BY <1>5, ExpireInv, ClaimInv, PickInv, MarkInv, MarkFailedInv, EndInv, RunStepInv
     DEF CycleStep, Procs
<1>6. ASSUME NEW p \in Procs, Crash(p) \/ DeadlockVictim(p)
      PROVE  RowInv'
  BY <1>6, RollbackInv DEF Crash, DeadlockVictim, RowInv
<1>7. CASE UNCHANGED vars
  BY <1>7 DEF vars, RowInv
<1> QED
  BY <1>1, <1>2, <1>3, <1>4, <1>5, <1>6, <1>7 DEF Next

LEMMA RowInvHolds == Spec => []RowInv
BY InitRowInv, NextRowInv, PTL DEF Spec

\* Every variable keeps its type, for any number of Missions, sessions and
\* workers, any batch size and any bounds.
THEOREM TypeCorrect == Spec => []TypeOK
<1>1. RowInv => TypeOK
  <2>1. SafeRow \subseteq Row
    BY DEF SafeRow
  <2>2. SafeTx \subseteq [owner : Procs \cup {NoProc}, row : Row]
    BY <2>1 DEF SafeTx
  <2>3. ProcState \subseteq
          [pc : PCs, cmd : APICommands \cup {"none", "cycle", "retryable"},
           m : Missions \cup {NoMission}, snap : Row, todo : SUBSET Missions, time : Nat]
    BY <2>1 DEF ProcState
  <2> QED
    BY <2>1, <2>2, <2>3 DEF RowInv, TypeOK, ProviderState
<1> QED
  BY <1>1, RowInvHolds, PTL

\* No interleaving of commands and cycles commits a processing Mission without
\* its claim time, a claim time on any other, or more attempts than the cap.
THEOREM ClaimStampHolds == Spec => []ClaimStamp
<1>1. RowInv => ClaimStamp
  BY DEF RowInv, SafeRow, ClaimStamp
<1> QED
  BY <1>1, RowInvHolds, PTL

-----------------------------------------------------------------------------
(* Versions.  A transaction that holds a row's lock has written a newer    *)
(* version than the committed one, and a run past its first update still   *)
(* holds the lock it took there, so nobody has overtaken it.               *)

Holds(p) ==
  /\ proc[p].pc \in {"search", "autoconfirm"} => tx[proc[p].m].owner = p
  /\ proc[p].pc = "autoconfirm" => proc[p].snap.seq = tx[proc[p].m].row.seq

Newer(m) == tx[m].owner # NoProc => tx[m].row.seq > db[m].seq

LockInv ==
  /\ \A p \in Procs : Holds(p)
  /\ \A m \in Missions : Newer(m)

NewVersion ==
  \A m \in Missions :
    db'[m] # db[m] =>
      \/ db'[m].seq > db[m].seq
      \/ /\ db[m].status = "waiting" /\ db'[m].status = "processing"
         /\ db'[m] = Claimed(db[m], db'[m].claimedAt)

LEMMA SeqFacts ==
  ASSUME NEW r \in SafeRow
  PROVE  /\ r.seq \in Nat
         /\ \A s \in PersistedStatuses : Transition(r, s).seq = r.seq
         /\ \A m \in Missions, t \in Nat : AutoRetry(m, r, t).seq = r.seq
         /\ Recovered(r).seq = r.seq + 1
         /\ [Transition(r, "expired") EXCEPT !.seq = r.seq + 1].seq = r.seq + 1
<1>1. r.seq \in Nat
  BY DEF SafeRow, Row
<1>2. \A s : Transition(r, s).seq = r.seq
  BY DEF Transition, SafeRow, Row
<1>3. ASSUME NEW m, NEW t
      PROVE  AutoRetry(m, r, t).seq = r.seq
  <2> DEFINE at == t + RetryDelay[r.attempts]
  <2> DEFINE when == IF ExpiresAt[m] # NoTime /\ ExpiresAt[m] < at THEN ExpiresAt[m] ELSE at
  <2>1. AutoRetry(m, r, t) = [Transition(r, "waiting") EXCEPT !.sched = when, !.resv = FALSE]
    BY DEF AutoRetry
  <2> HIDE DEF when
  <2> QED
    BY <1>2, <2>1 DEF Transition, SafeRow, Row
<1>4. Recovered(r).seq = r.seq + 1
  <2> DEFINE target == IF Exhausted(r) THEN "failed" ELSE "waiting"
  <2> DEFINE moved == [Transition(r, target) EXCEPT !.seq = r.seq + 1]
  <2>1. moved.seq = r.seq + 1
    BY DEF Transition, SafeRow, Row
  <2>2. Recovered(r) = CloseOpenAttempt(moved, IF target = "failed" THEN "failed" ELSE "recovered")
    BY DEF Recovered
  <2>3. \A o : CloseOpenAttempt(moved, o).seq = moved.seq
    BY DEF CloseOpenAttempt, Transition, SafeRow, Row
  <2> HIDE DEF moved, target
  <2> QED
    BY <2>1, <2>2, <2>3
<1>5. [Transition(r, "expired") EXCEPT !.seq = r.seq + 1].seq = r.seq + 1
  BY DEF Transition, SafeRow, Row
<1> QED
  BY <1>1, <1>2, <1>3, <1>4, <1>5

LEMMA WrittenSeq ==
  ASSUME NEW r, NEW s \in SafeRow
  PROVE  Written(r, s).seq = s.seq + 1
<1> DEFINE w == [s EXCEPT !.seq = s.seq + 1, !.audit = r.audit]
<1>1. w.seq = s.seq + 1
  BY DEF SafeRow, Row
<1>2. \A o : CloseOpenAttempt(w, o).seq = w.seq
  BY DEF CloseOpenAttempt, SafeRow, Row
<1>3. Written(r, s) = w \/ \E o : Written(r, s) = CloseOpenAttempt(w, o)
  BY DEF Written, SyncAttempt
<1> HIDE DEF w
<1> QED
  BY <1>1, <1>2, <1>3

\* A process that moves without touching the locks of others.
LEMMA MoveLock ==
  ASSUME RowInv, LockInv, NEW p \in Procs, NEW new, UNCHANGED <<db, tx>>,
         proc' = [proc EXCEPT ![p] = new], new.pc \notin {"search", "autoconfirm"}
  PROVE  LockInv' /\ NewVersion
<1>1. \A q \in Procs : proc'[q] = IF q = p THEN new ELSE proc[q]
  BY DEF RowInv
<1> QED
  BY <1>1 DEF LockInv, Holds, Newer, NewVersion

\* The end of a transaction, whether it commits or rolls back.
LEMMA EndLock ==
  ASSUME RowInv, LockInv, NEW p \in Procs, CommitTx(p) \/ RollbackTx(p)
  PROVE  LockInv' /\ NewVersion
<1>1. tx' = [m \in Missions |-> IF tx[m].owner = p THEN Free ELSE tx[m]]
  BY DEF CommitTx, RollbackTx, Release
<1>2. \A q \in Procs : proc'[q] = IF q = p THEN Idle ELSE proc[q]
  BY DEF CommitTx, RollbackTx, RowInv
<1>3. p # NoProc
  BY ProcessAssumption DEF Procs
<1>4. \A m \in Missions : tx[m].owner # p => db'[m] = db[m]
  BY DEF CommitTx, RollbackTx, RowInv
<1>5. ASSUME NEW m \in Missions, db'[m] # db[m]
      PROVE  db'[m].seq > db[m].seq
  <2>1. tx[m].owner = p /\ db'[m] = tx[m].row
    BY <1>4, <1>5 DEF CommitTx, RollbackTx, RowInv
  <2> QED
    BY <1>3, <2>1 DEF LockInv, Newer
<1>6. \A m \in Missions : Newer(m)'
  <2> SUFFICES ASSUME NEW m \in Missions PROVE Newer(m)'
    OBVIOUS
  <2>1. CASE tx[m].owner = p
    BY <1>1, <2>1 DEF Newer, Free
  <2>2. CASE tx[m].owner # p
    BY <1>1, <1>4, <2>2 DEF Newer, LockInv
  <2> QED
    BY <2>1, <2>2
<1>7. ASSUME NEW q \in Procs
      PROVE  Holds(q)'
  <2>1. CASE q = p
    BY <1>2, <2>1 DEF Holds, Idle
  <2>2. CASE q # p /\ proc[q].pc \in {"search", "autoconfirm"}
    <3>1. proc[q].m \in Missions
      BY <2>2, HeldSafe DEF MissionPCs, PCs
    <3>2. tx'[proc[q].m] = tx[proc[q].m]
      BY <1>1, <2>2, <3>1 DEF LockInv, Holds
    <3> QED
      BY <1>2, <2>2, <3>2 DEF LockInv, Holds
  <2>3. CASE q # p /\ proc[q].pc \notin {"search", "autoconfirm"}
    BY <1>2, <2>3 DEF Holds
  <2> QED
    BY <2>1, <2>2, <2>3
<1> QED
  BY <1>5, <1>6, <1>7 DEF LockInv, NewVersion

\* A write under the lock, of a version newer than the committed one.
LEMMA WriteLock ==
  ASSUME RowInv, LockInv, NEW p \in Procs, NEW m \in Missions, NEW row \in SafeRow, NEW new,
         CanLock(p, m), Flush(p, m, row), UNCHANGED db, row.seq > db[m].seq,
         proc' = [proc EXCEPT ![p] = new],
         new.pc # "autoconfirm", new.pc = "search" => new.m = m
  PROVE  LockInv' /\ NewVersion
<1>1. \A n \in Missions : tx'[n] = IF n = m THEN [owner |-> p, row |-> row] ELSE tx[n]
  BY DEF Flush, RowInv
<1>2. \A q \in Procs : proc'[q] = IF q = p THEN new ELSE proc[q]
  BY DEF RowInv
<1>3. p # NoProc
  BY ProcessAssumption DEF Procs
<1>4. \A n \in Missions : Newer(n)'
  BY <1>1 DEF Newer, LockInv
<1>5. ASSUME NEW q \in Procs
      PROVE  Holds(q)'
  <2>1. CASE q = p
    BY <1>1, <1>2, <2>1 DEF Holds
  <2>2. CASE q # p /\ proc[q].pc \in {"search", "autoconfirm"}
    <3>1. proc[q].m \in Missions
      BY <2>2, HeldSafe DEF MissionPCs, PCs
    <3>2. tx[proc[q].m].owner = q /\ q # NoProc
      BY <2>2, ProcessAssumption DEF LockInv, Holds, Procs
    <3>3. proc[q].m # m
      BY <2>2, <3>2 DEF CanLock
    <3> QED
      BY <1>1, <1>2, <2>2, <3>1, <3>3 DEF LockInv, Holds
  <2>3. CASE q # p /\ proc[q].pc \notin {"search", "autoconfirm"}
    BY <1>2, <2>3 DEF Holds
  <2> QED
    BY <2>1, <2>2, <2>3
<1> QED
  BY <1>4, <1>5 DEF LockInv, NewVersion

LEMMA RequestLock ==
  ASSUME RowInv, LockInv, NEW s \in Sessions, Request(s)
  PROVE  LockInv' /\ NewVersion
<1> DEFINE Begun ==
      \E cmd, m, snap, pc : pc \in {"update", "provider", "resolve"}
                            /\ Begin(s, cmd, m, pc, snap)
<1>0. Begun
  <2> SUFFICES ASSUME NEW m \in Missions,
                      \/ Pause(s, m) \/ Resume(s, m) \/ Cancel(s, m) \/ Confirm(s, m)
                      \/ Retry(s, m) \/ Schedule(s, m) \/ Patch(s, m)
                      \/ SetProvider(s, m) \/ Run(s, m)
               PROVE  Begun
    BY DEF Request
  <2>1. CASE Pause(s, m) \/ SetProvider(s, m) \/ Run(s, m) \/ Confirm(s, m)
    BY <2>1 DEF Pause, SetProvider, Run, Confirm
  <2>2. CASE Resume(s, m) \/ Cancel(s, m)
    BY <2>2 DEF Resume, Cancel
  <2>3. CASE Retry(s, m) \/ Patch(s, m)
    BY <2>3 DEF Retry, Patch
  <2>4. CASE Schedule(s, m)
    BY <2>4 DEF Schedule
  <2> QED
    BY <2>1, <2>2, <2>3, <2>4
<1>1. PICK cmd, m, snap, pc : pc \in {"update", "provider", "resolve"}
                              /\ Begin(s, cmd, m, pc, snap)
  BY <1>0
<1> DEFINE new == [Idle EXCEPT !.pc = pc, !.cmd = cmd, !.m = m, !.snap = snap]
<1>2. proc' = [proc EXCEPT ![s] = new] /\ UNCHANGED <<db, tx>> /\ s \in Procs
  BY <1>1 DEF Begin, Procs
<1>3. new.pc \notin {"search", "autoconfirm"}
  BY <1>1 DEF Idle
<1> HIDE DEF new
<1> QED
  BY <1>2, <1>3, MoveLock

LEMMA ProviderLock ==
  ASSUME RowInv, LockInv, NEW s \in Sessions, ProviderConfirm(s) \/ ProviderCancel(s)
  PROVE  LockInv' /\ NewVersion
<1>1. PICK snap : proc' = [proc EXCEPT ![s].pc = "update", ![s].snap = snap]
  BY DEF ProviderConfirm, ProviderCancel
<1> DEFINE new == [proc[s] EXCEPT !.pc = "update", !.snap = snap]
<1>2. proc[s] \in ProcState /\ s \in Procs /\ UNCHANGED <<db, tx>>
  BY HeldSafe DEF Procs, ProviderConfirm, ProviderCancel
<1>3. proc' = [proc EXCEPT ![s] = new] /\ new.pc = "update"
  BY <1>1, <1>2 DEF RowInv, ProcState
<1> HIDE DEF new
<1> QED
  BY <1>2, <1>3, MoveLock

\* Only the position of the process changes.
LEMMA GotoIs ==
  ASSUME RowInv, NEW p \in Procs, NEW pc, Goto(p, pc)
  PROVE  \E new : /\ proc' = [proc EXCEPT ![p] = new]
                  /\ new.pc = pc /\ new.m = proc[p].m
<1> DEFINE new == [proc[p] EXCEPT !.pc = pc]
<1>1. proc[p] \in ProcState
  BY HeldSafe
<1>2. new.pc = pc /\ new.m = proc[p].m /\ proc' = [proc EXCEPT ![p] = new]
  BY <1>1 DEF ProcState, Goto, RowInv
<1> HIDE DEF new
<1> QED
  BY <1>2

LEMMA NextMissionIs ==
  ASSUME NEW w \in Workers, NextMission(w)
  PROVE  \E new : proc' = [proc EXCEPT ![w] = new] /\ new.pc = "batch"
<1> DEFINE new == [Idle EXCEPT !.pc = "batch", !.cmd = "cycle",
                     !.todo = proc[w].todo \ {proc[w].m}, !.time = proc[w].time]
<1>1. proc' = [proc EXCEPT ![w] = new] /\ new.pc = "batch"
  BY DEF NextMission, Idle
<1> HIDE DEF new
<1> QED
  BY <1>1

\* What a process reads under the lock is no older than the committed row.
LEMMA ViewNewer ==
  ASSUME RowInv, LockInv, NEW p \in Procs, NEW m \in Missions
  PROVE  View(p, m).seq >= db[m].seq
<1>1. p # NoProc /\ db[m].seq \in Nat
  BY ProcessAssumption, CommittedSafe, SeqFacts DEF Procs
<1>2. tx[m].row.seq \in Nat
  BY HeldSafe, SeqFacts
<1> QED
  BY <1>1, <1>2 DEF View, LockInv, Newer

LEMMA UpdateLock ==
  ASSUME RowInv, LockInv, NEW s \in Sessions, Update(s)
  PROVE  LockInv' /\ NewVersion
<1> DEFINE m == proc[s].m
<1> DEFINE row == Written(db[m], proc[s].snap)
<1>1. s \in Procs /\ m \in Missions /\ CanLock(s, m)
  BY HeldSafe DEF Procs, Update, MissionPCs, PCs
<1>2. CASE db[m].seq = proc[s].snap.seq /\ Flush(s, m, row) /\ Goto(s, "commit")
           /\ UNCHANGED db
  <2>1. row \in SafeRow /\ row.seq = db[m].seq + 1
    BY <1>1, <1>2, HeldSafe, CommittedSafe, WrittenSafe, WrittenSeq
  <2>2. row.seq > db[m].seq
    BY <1>1, <2>1, CommittedSafe, SeqFacts
  <2>3. PICK new : proc' = [proc EXCEPT ![s] = new] /\ new.pc = "commit"
    BY <1>1, <1>2, GotoIs
  <2> HIDE DEF row
  <2> QED
    BY <1>1, <1>2, <2>1, <2>2, <2>3, WriteLock
<1>3. CASE RollbackTx(s)
  BY <1>1, <1>3, EndLock
<1> QED
  BY <1>2, <1>3 DEF Update

LEMMA RaiseLock ==
  ASSUME RowInv, LockInv, NEW p \in Procs, NEW retryable \in BOOLEAN, Raise(p, retryable)
  PROVE  LockInv' /\ NewVersion
<1>1. CASE p \in Sessions
  BY <1>1, EndLock DEF Raise
<1>2. CASE p \notin Sessions
  <2> DEFINE new == [proc[p] EXCEPT !.pc = "mark",
                                    !.cmd = IF retryable THEN "retryable" ELSE "cycle"]
  <2>1. proc[p] \in ProcState
    BY HeldSafe
  <2>2. new.pc = "mark" /\ proc' = [proc EXCEPT ![p] = new] /\ UNCHANGED <<db, tx>>
    BY <1>2, <2>1 DEF ProcState, Raise, RowInv
  <2> HIDE DEF new
  <2> QED
    BY <2>2, MoveLock
<1> QED
  BY <1>1, <1>2

LEMMA ResolveLock ==
  ASSUME RowInv, LockInv, NEW p \in Procs, Resolve(p) \/ ResolveRefused(p)
  PROVE  LockInv' /\ NewVersion
<1> DEFINE m == proc[p].m
<1> DEFINE row == Written(View(p, m), proc[p].snap)
<1>1. m \in Missions /\ CanLock(p, m)
  BY HeldSafe DEF Resolve, ResolveRefused, MissionPCs, PCs
<1>2. CASE /\ View(p, m).seq = proc[p].snap.seq /\ Flush(p, m, row)
           /\ Goto(p, "search") \/ Goto(p, "mark")
           /\ UNCHANGED db
  <2>1. row \in SafeRow /\ row.seq = View(p, m).seq + 1
    BY <1>1, <1>2, HeldSafe, WrittenSafe, WrittenSeq
  <2>2. View(p, m).seq >= db[m].seq /\ View(p, m).seq \in Nat /\ db[m].seq \in Nat
    BY <1>1, ViewNewer, HeldSafe, CommittedSafe, SeqFacts
  <2>3. row.seq > db[m].seq
    <3> HIDE DEF row
    <3> QED
      BY <2>1, <2>2
  <2>4. PICK new : /\ proc' = [proc EXCEPT ![p] = new]
                   /\ new.pc \in {"search", "mark"} /\ new.m = m
    BY <1>2, GotoIs
  <2> HIDE DEF row
  <2> QED
    BY <1>1, <1>2, <2>1, <2>3, <2>4, WriteLock
<1>3. CASE Raise(p, FALSE)
  BY <1>3, RaiseLock
<1>4. CASE RollbackTx(p)
  BY <1>4, EndLock
<1> QED
  BY <1>2, <1>3, <1>4 DEF Resolve, ResolveRefused

LEMMA FinishRunLock ==
  ASSUME RowInv, LockInv, NEW p \in Procs, NEW row \in SafeRow, proc[p].m \in Missions,
         tx[proc[p].m].owner = p, row.seq = tx[proc[p].m].row.seq, FinishRun(p, row)
  PROVE  LockInv' /\ NewVersion
<1> DEFINE m == proc[p].m
<1> DEFINE done == Written(tx[m].row, row)
<1>1. done \in SafeRow /\ done.seq = tx[m].row.seq + 1
  BY HeldSafe, WrittenSafe, WrittenSeq
<1>2. tx[m].row.seq > db[m].seq /\ tx[m].row.seq \in Nat /\ db[m].seq \in Nat
  BY ProcessAssumption, HeldSafe, CommittedSafe, SeqFacts DEF LockInv, Newer, Procs
<1>3. Flush(p, m, done) /\ UNCHANGED db /\ CanLock(p, m)
  BY DEF FinishRun, CanLock
<1> HIDE DEF done
<1>4. done.seq > db[m].seq
  BY <1>1, <1>2
<1>5. PICK new : proc' = [proc EXCEPT ![p] = new] /\ new.pc \in {"commit", "batch"}
  BY GotoIs, NextMissionIs DEF FinishRun, Procs
<1> QED
  BY <1>1, <1>3, <1>4, <1>5, WriteLock

LEMMA FailRunLock ==
  ASSUME RowInv, LockInv, NEW p \in Procs, NEW retryable \in BOOLEAN, NEW snap \in SafeRow,
         proc[p].m \in Missions, tx[proc[p].m].owner = p,
         snap.seq = tx[proc[p].m].row.seq, FailRun(p, retryable, snap)
  PROVE  LockInv' /\ NewVersion
<1> DEFINE m == proc[p].m
<1> DEFINE failed == Written(tx[m].row, Transition(snap, "failed"))
<1> DEFINE retried == Written(failed, AutoRetry(m, failed, proc[p].time))
<1>1. failed \in SafeRow /\ failed.seq = tx[m].row.seq + 1
  <2>1. Transition(snap, "failed") \in SafeRow /\ Transition(snap, "failed").seq = snap.seq
    BY TransitionSafe, SeqFacts, StatusFacts
  <2> QED
    BY <2>1, HeldSafe, WrittenSafe, WrittenSeq
<1>2. tx[m].row.seq > db[m].seq /\ tx[m].row.seq \in Nat /\ db[m].seq \in Nat
  BY ProcessAssumption, HeldSafe, CommittedSafe, SeqFacts DEF LockInv, Newer, Procs
<1>3. CanLock(p, m) /\ proc[p].time \in Nat
  BY HeldSafe DEF CanLock, ProcState
<1>4. CASE Flush(p, m, failed) /\ Goto(p, "commit") /\ UNCHANGED db
  <2> HIDE DEF failed
  <2>1. failed.seq > db[m].seq
    BY <1>1, <1>2
  <2>2. PICK new : proc' = [proc EXCEPT ![p] = new] /\ new.pc = "commit"
    BY <1>4, GotoIs
  <2> QED
    BY <1>1, <1>3, <1>4, <2>1, <2>2, WriteLock
<1>5. CASE p \in Workers /\ NextMission(p) /\ UNCHANGED db
           /\ \/ Flush(p, m, Written(failed, failed))
              \/ Flush(p, m, retried) /\ failed.attempts > 0
  <2> HIDE DEF failed
  <2>1. PICK row \in SafeRow : Flush(p, m, row) /\ row.seq = failed.seq + 1
    <3>1. CASE Flush(p, m, Written(failed, failed))
      BY <1>1, <3>1, WrittenSafe, WrittenSeq
    <3>2. CASE Flush(p, m, retried) /\ failed.attempts > 0
      <4>1. /\ AutoRetry(m, failed, proc[p].time) \in SafeRow
            /\ AutoRetry(m, failed, proc[p].time).seq = failed.seq
        BY <1>1, <1>3, <3>2, AutoRetrySafe, SeqFacts
      <4> QED
        BY <1>1, <3>2, <4>1, WrittenSafe, WrittenSeq
    <3> QED
      BY <1>5, <3>1, <3>2
  <2>2. row.seq > db[m].seq
    BY <1>1, <1>2, <2>1
  <2>3. PICK new : proc' = [proc EXCEPT ![p] = new] /\ new.pc = "batch"
    BY <1>5, NextMissionIs
  <2> QED
    BY <1>3, <1>5, <2>1, <2>2, <2>3, WriteLock
<1>6. CASE RollbackTx(p)
  BY <1>6, EndLock
<1> QED
  BY <1>4, <1>5, <1>6 DEF FailRun

LEMMA RunLock ==
  ASSUME RowInv, LockInv, NEW p \in Procs, proc[p].pc \in {"search", "autoconfirm"}
  PROVE  /\ proc[p].m \in Missions /\ tx[proc[p].m].owner = p
         /\ tx[proc[p].m].row \in SafeRow
BY HeldSafe DEF LockInv, Holds, MissionPCs, PCs

LEMMA SearchLock ==
  ASSUME RowInv, LockInv, NEW p \in Procs, Search(p)
  PROVE  LockInv' /\ NewVersion
<1> DEFINE row == tx[proc[p].m].row
<1>1. proc[p].m \in Missions /\ tx[proc[p].m].owner = p /\ row \in SafeRow
  BY RunLock DEF Search
<1>2. CASE \E retryable \in BOOLEAN : FailRun(p, retryable, row)
  BY <1>1, <1>2, FailRunLock
<1>3. CASE \E retryable \in BOOLEAN : Raise(p, retryable)
  BY <1>3, RaiseLock
<1>4. CASE FinishRun(p, Transition(row, "completed"))
  <2>1. /\ Transition(row, "completed") \in SafeRow
        /\ Transition(row, "completed").seq = row.seq
    BY <1>1, TransitionSafe, SeqFacts, StatusFacts
  <2> QED
    BY <1>1, <1>4, <2>1, FinishRunLock
<1> QED
  BY <1>2, <1>3, <1>4 DEF Search

LEMMA ReserveLock ==
  ASSUME RowInv, LockInv, NEW p \in Procs, Reserve(p)
  PROVE  LockInv' /\ NewVersion
<1> DEFINE m == proc[p].m
<1> DEFINE row == tx[m].row
<1> DEFINE reserved == [row EXCEPT !.resv = TRUE]
<1>1. m \in Missions /\ tx[m].owner = p /\ row \in SafeRow
  BY RunLock DEF Reserve
<1>2. reserved \in SafeRow /\ reserved.seq = row.seq
  BY <1>1 DEF SafeRow, Row
<1>3. ASSUME NEW t \in {"requires_confirmation", "completed"}
      PROVE  Transition(reserved, t) \in SafeRow /\ Transition(reserved, t).seq = row.seq
  <2> HIDE DEF reserved
  <2>1. t \in PersistedStatuses /\ t # "processing"
    BY StatusFacts
  <2>2. Transition(reserved, t) \in SafeRow
    BY <1>2, <2>1, TransitionSafe
  <2>3. Transition(reserved, t).seq = reserved.seq
    BY <1>2, <2>1, SeqFacts
  <2> QED
    BY <1>2, <2>2, <2>3
<1>4. CASE \E retryable \in BOOLEAN : FailRun(p, retryable, row)
  BY <1>1, <1>4, FailRunLock
<1>5. CASE \E t \in {"requires_confirmation", "completed"} : FinishRun(p, Transition(reserved, t))
  BY <1>1, <1>3, <1>5, FinishRunLock
<1>6. CASE proc' = [proc EXCEPT ![p].pc = "autoconfirm", ![p].snap = reserved]
           /\ UNCHANGED <<db, tx>>
  <2> DEFINE new == [proc[p] EXCEPT !.pc = "autoconfirm", !.snap = reserved]
  <2>1. proc[p] \in ProcState
    BY HeldSafe
  <2> HIDE DEF reserved
  <2>2. new.m = m /\ new.pc = "autoconfirm" /\ new.snap.seq = row.seq
    BY <1>2, <2>1 DEF ProcState
  <2>3. \A q \in Procs : proc'[q] = IF q = p THEN new ELSE proc[q]
    BY <1>6, <2>1 DEF RowInv
  <2> HIDE DEF new
  <2>4. Holds(p)'
    BY <1>1, <1>6, <2>2, <2>3 DEF Holds
  <2>5. \A q \in Procs \ {p} : Holds(q)'
    <3> SUFFICES ASSUME NEW q \in Procs \ {p} PROVE Holds(q)'
      OBVIOUS
    <3>1. proc'[q] = proc[q] /\ tx' = tx /\ Holds(q)
      BY <1>6, <2>3 DEF LockInv
    <3> QED
      BY <3>1 DEF Holds
  <2>6. \A n \in Missions : Newer(n)'
    BY <1>6 DEF LockInv, Newer
  <2>7. NewVersion
    BY <1>6 DEF NewVersion
  <2> QED
    BY <2>4, <2>5, <2>6, <2>7 DEF LockInv
<1> QED
  BY <1>4, <1>5, <1>6 DEF Reserve

LEMMA AutoConfirmLock ==
  ASSUME RowInv, LockInv, NEW p \in Procs, AutoConfirm(p)
  PROVE  LockInv' /\ NewVersion
<1> DEFINE m == proc[p].m
<1> DEFINE row == proc[p].snap
<1>1. m \in Missions /\ tx[m].owner = p /\ row \in SafeRow /\ row.seq = tx[m].row.seq
  BY RunLock, HeldSafe DEF AutoConfirm, LockInv, Holds
<1>2. CASE FinishRun(p, Transition(row, "completed"))
  <2>1. /\ Transition(row, "completed") \in SafeRow
        /\ Transition(row, "completed").seq = row.seq
    BY <1>1, TransitionSafe, SeqFacts, StatusFacts
  <2> QED
    BY <1>1, <1>2, <2>1, FinishRunLock
<1>3. CASE \E retryable \in BOOLEAN : FailRun(p, retryable, row)
  BY <1>1, <1>3, FailRunLock
<1> QED
  BY <1>2, <1>3 DEF AutoConfirm

\* Batch statements of a worker change only rows nobody has locked.
LEMMA BatchLock ==
  ASSUME RowInv, LockInv, NEW w \in Workers, NEW new,
         proc' = [proc EXCEPT ![w] = new], new.pc \notin {"search", "autoconfirm"},
         UNCHANGED tx,
         \A m \in Missions : db'[m] # db[m] => tx[m].owner = NoProc
  PROVE  LockInv'
<1>1. \A q \in Procs : proc'[q] = IF q = w THEN new ELSE proc[q]
  BY DEF RowInv
<1> QED
  BY <1>1 DEF LockInv, Holds, Newer

LEMMA RecoverLock ==
  ASSUME RowInv, LockInv, NEW w \in Workers, Recover(w) \/ ProcessDue(w)
  PROVE  LockInv' /\ NewVersion
<1>1. \A m \in Missions :
        db'[m] # db[m] => db'[m] = Recovered(db[m]) /\ tx[m].owner = NoProc
  <2>1. CASE Recover(w)
    <3>1. PICK S \in SUBSET {m \in Missions : Stale(m) /\ Lockable(m)} :
            db' = [m \in Missions |-> IF m \in S THEN Recovered(db[m]) ELSE db[m]]
      BY <2>1 DEF Recover, Batches
    <3> QED
      BY <3>1 DEF Lockable
  <2>2. CASE ProcessDue(w)
    BY <2>2 DEF ProcessDue
  <2> QED
    BY <2>1, <2>2
<1>2. NewVersion
  <2>1. \A m \in Missions : Recovered(db[m]).seq > db[m].seq
    BY CommittedSafe, SeqFacts
  <2> QED
    BY <1>1, <2>1 DEF NewVersion
<1> DEFINE new == [Idle EXCEPT !.pc = "expire", !.cmd = "cycle", !.time = now]
<1>3. proc' = [proc EXCEPT ![w] = new] /\ new.pc = "expire" /\ UNCHANGED tx
  BY DEF Recover, ProcessDue, Idle
<1> HIDE DEF new
<1> QED
  BY <1>1, <1>2, <1>3, BatchLock

LEMMA ExpireLock ==
  ASSUME RowInv, LockInv, NEW w \in Workers, Expire(w)
  PROVE  LockInv' /\ NewVersion
<1> DEFINE expired(m) == [Transition(db[m], "expired") EXCEPT !.seq = db[m].seq + 1]
<1>1. CASE RollbackTx(w)
  BY <1>1, EndLock DEF Procs
<1>2. CASE \E S \in SUBSET {m \in Missions : Lockable(m)} :
             /\ db' = [m \in Missions |-> IF m \in S THEN expired(m) ELSE db[m]]
             /\ Goto(w, "claim") /\ UNCHANGED tx
  <2>1. \A m \in Missions : expired(m).seq > db[m].seq
    BY CommittedSafe, SeqFacts
  <2> HIDE DEF expired
  <2>2. \A m \in Missions : db'[m] # db[m] => db'[m] = expired(m) /\ tx[m].owner = NoProc
    BY <1>2 DEF Lockable
  <2>3. PICK new : proc' = [proc EXCEPT ![w] = new] /\ new.pc = "claim"
    BY <1>2, GotoIs DEF Procs
  <2> QED
    BY <1>2, <2>1, <2>2, <2>3, BatchLock DEF NewVersion
<1> QED
  BY <1>1, <1>2 DEF Expire, Batches

LEMMA ClaimLock ==
  ASSUME RowInv, LockInv, NEW w \in Workers, Claim(w)
  PROVE  LockInv' /\ NewVersion
<1> DEFINE t == proc[w].time
<1>1. CASE RollbackTx(w)
  BY <1>1, EndLock DEF Procs
<1>2. CASE \E S \in SUBSET {m \in Missions : Due(m, t) /\ Lockable(m)} :
             /\ db' = [m \in Missions |-> IF m \in S THEN Claimed(db[m], t) ELSE db[m]]
             /\ proc' = [proc EXCEPT ![w].pc = "batch", ![w].todo = S]
             /\ UNCHANGED tx
  <2>1. PICK S \in SUBSET {m \in Missions : Due(m, t) /\ Lockable(m)} :
             /\ db' = [m \in Missions |-> IF m \in S THEN Claimed(db[m], t) ELSE db[m]]
             /\ proc' = [proc EXCEPT ![w].pc = "batch", ![w].todo = S]
             /\ UNCHANGED tx
    BY <1>2
  <2>2. \A m \in Missions : db'[m] # db[m] =>
          tx[m].owner = NoProc /\ db[m].status = "waiting" /\ db'[m] = Claimed(db[m], t)
    BY <2>1 DEF Lockable, Due
  <2>3. \A m \in Missions : /\ Claimed(db[m], t).status = "processing"
                            /\ Claimed(db[m], t).claimedAt = t
    BY CommittedSafe DEF Claimed, SafeRow, Row
  <2> DEFINE new == [proc[w] EXCEPT !.pc = "batch", !.todo = S]
  <2>4. w \in Procs /\ proc[w] \in ProcState
    BY HeldSafe DEF Procs
  <2>5. proc' = [proc EXCEPT ![w] = new] /\ new.pc = "batch"
    BY <2>1, <2>4 DEF RowInv, ProcState
  <2> HIDE DEF new
  <2>6. NewVersion
    BY <2>2, <2>3 DEF NewVersion
  <2> QED
    BY <2>1, <2>2, <2>5, <2>6, BatchLock
<1> QED
  BY <1>1, <1>2 DEF Claim, Batches

LEMMA PickLock ==
  ASSUME RowInv, LockInv, NEW w \in Workers, Pick(w) \/ Mark(w)
  PROVE  LockInv' /\ NewVersion
<1>1. w \in Procs /\ proc[w] \in ProcState
  BY HeldSafe DEF Procs
<1>2. CASE RollbackTx(w)
  BY <1>1, <1>2, EndLock
<1>3. CASE Pick(w)
  <2>1. PICK m \in Missions, pc \in {"resolve", "mark"} :
          proc' = [proc EXCEPT ![w] = [proc[w] EXCEPT !.pc = pc, !.m = m, !.snap = View(w, m)]]
    <3>1. proc[w].todo \subseteq Missions
      BY <1>1 DEF ProcState
    <3> QED
      BY <1>3, <3>1 DEF Pick
  <2> DEFINE new == [proc[w] EXCEPT !.pc = pc, !.m = m, !.snap = View(w, m)]
  <2>2. new.pc = pc /\ proc' = [proc EXCEPT ![w] = new] /\ UNCHANGED <<db, tx>>
    BY <1>1, <1>3, <2>1 DEF ProcState, Pick
  <2> HIDE DEF new
  <2> QED
    BY <1>1, <2>2, MoveLock
<1>4. CASE \E snap : proc' = [proc EXCEPT ![w].pc = "marking", ![w].snap = snap]
                     /\ UNCHANGED <<db, tx>>
  <2>1. PICK snap : proc' = [proc EXCEPT ![w].pc = "marking", ![w].snap = snap]
    BY <1>4
  <2> DEFINE new == [proc[w] EXCEPT !.pc = "marking", !.snap = snap]
  <2>2. new.pc = "marking" /\ proc' = [proc EXCEPT ![w] = new]
    BY <1>1, <2>1 DEF ProcState, RowInv
  <2> HIDE DEF new
  <2> QED
    BY <1>1, <1>4, <2>2, MoveLock
<1> QED
  BY <1>2, <1>3, <1>4 DEF Mark

LEMMA MarkFailedLock ==
  ASSUME RowInv, LockInv, NEW w \in Workers, MarkFailed(w)
  PROVE  LockInv' /\ NewVersion
<1> DEFINE m == proc[w].m
<1> DEFINE failed == Written(View(w, m), proc[w].snap)
<1> DEFINE retried == Written(failed, AutoRetry(m, failed, proc[w].time))
<1>1. w \in Procs /\ m \in Missions /\ CanLock(w, m) /\ proc[w].time \in Nat
  BY HeldSafe DEF Procs, MarkFailed, MissionPCs, PCs, ProcState
<1>2. CASE RollbackTx(w)
  BY <1>1, <1>2, EndLock
<1>3. CASE /\ View(w, m).seq = proc[w].snap.seq
           /\ Flush(w, m, failed) \/ (Flush(w, m, retried) /\ failed.attempts # 0)
           /\ NextMission(w) /\ UNCHANGED db
  <2>1. failed \in SafeRow /\ failed.seq = View(w, m).seq + 1
    BY <1>1, <1>3, HeldSafe, WrittenSafe, WrittenSeq
  <2> HIDE DEF failed
  <2>2. failed.seq > db[m].seq /\ failed.seq \in Nat /\ db[m].seq \in Nat
    <3>1. View(w, m).seq \in Nat /\ db[m].seq \in Nat /\ View(w, m).seq >= db[m].seq
      BY <1>1, ViewNewer, HeldSafe, CommittedSafe, SeqFacts
    <3> QED
      BY <2>1, <3>1
  <2>3. PICK row \in SafeRow : Flush(w, m, row) /\ row.seq >= failed.seq /\ row.seq \in Nat
    <3>1. CASE Flush(w, m, failed)
      BY <2>1, <2>2, <3>1
    <3>2. CASE Flush(w, m, retried) /\ failed.attempts # 0
      <4>1. failed.attempts > 0
        BY <2>1, <3>2, BoundAssumption DEF SafeRow, Row
      <4>2. /\ AutoRetry(m, failed, proc[w].time) \in SafeRow
            /\ AutoRetry(m, failed, proc[w].time).seq = failed.seq
        BY <1>1, <2>1, <4>1, AutoRetrySafe, SeqFacts
      <4>3. retried \in SafeRow /\ retried.seq = failed.seq + 1
        BY <2>1, <4>2, WrittenSafe, WrittenSeq
      <4> QED
        BY <2>2, <3>2, <4>3
    <3> QED
      BY <1>3, <3>1, <3>2
  <2>4. PICK new : proc' = [proc EXCEPT ![w] = new] /\ new.pc = "batch"
    BY <1>3, NextMissionIs
  <2>5. row.seq > db[m].seq
    BY <2>2, <2>3
  <2> QED
    BY <1>1, <1>3, <2>3, <2>4, <2>5, WriteLock
<1> QED
  BY <1>2, <1>3 DEF MarkFailed

LEMMA NextLockInv ==
  ASSUME RowInv, LockInv, [Next]_vars
  PROVE  LockInv' /\ NewVersion
<1>1. CASE Tick \/ UNCHANGED vars
  BY <1>1 DEF Tick, vars, LockInv, Holds, Newer, NewVersion
<1>2. ASSUME NEW p \in Procs, RunStep(p)
      PROVE  LockInv' /\ NewVersion
  BY <1>2, ResolveLock, SearchLock, ReserveLock, AutoConfirmLock DEF RunStep
<1>3. ASSUME NEW p \in Procs, Crash(p) \/ DeadlockVictim(p) \/ Commit(p) \/ EndCycle(p)
      PROVE  LockInv' /\ NewVersion
  BY <1>3, EndLock DEF Crash, DeadlockVictim, Commit, EndCycle
<1>4. ASSUME NEW s \in Sessions, Request(s) \/ SessionStep(s)
      PROVE  LockInv' /\ NewVersion
  <2>1. s \in Procs
    BY DEF Procs
  <2> QED
    BY <1>2, <1>3, <1>4, <2>1, RequestLock, ProviderLock, UpdateLock DEF SessionStep
<1>5. ASSUME NEW w \in Workers, Recover(w) \/ ProcessDue(w) \/ CycleStep(w)
      PROVE  LockInv' /\ NewVersion
  <2>1. w \in Procs
    BY DEF Procs
  <2> QED
    BY <1>2, <1>3, <1>5, <2>1, RecoverLock, ExpireLock, ClaimLock, PickLock, MarkFailedLock
       DEF CycleStep
<1> QED
  BY <1>1, <1>3, <1>4, <1>5 DEF Next

LEMMA InitLockInv == Init => LockInv
<1>1. Free.owner = NoProc /\ Idle.pc = "idle"
  BY DEF Free, Idle
<1> QED
  BY <1>1 DEF Init, LockInv, Holds, Newer

\* last_event_sequence versions every row, however many transactions race:
\* none commits a change under a version already taken, and only the claim of
\* a waiting Mission keeps the version.
THEOREM VersionsHold == Spec => VersionedWrites
<1>1. Init => RowInv /\ LockInv
  BY InitRowInv, InitLockInv
<1>2. RowInv /\ LockInv /\ [Next]_vars => (RowInv /\ LockInv)'
  BY NextRowInv, NextLockInv
<1>3. RowInv /\ LockInv /\ [Next]_vars => [NewVersion]_vars
  BY NextLockInv
<1>4. Spec => [][NewVersion]_vars
  BY <1>1, <1>2, <1>3, PTL DEF Spec
<1> QED
  BY <1>4 DEF VersionedWrites, NewVersion
=============================================================================
