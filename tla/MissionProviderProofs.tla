------------------------ MODULE MissionProviderProofs ------------------------
(* Theorems about MissionStore: what the committed status of a Mission     *)
(* says about its provider, for every value of the constants.              *)
EXTENDS MissionStoreProofs

-----------------------------------------------------------------------------
(* The inductive invariant.  The status is written long after the provider *)
(* answered, by a transaction that may still be rolled back, so what the   *)
(* status says has to hold of every copy of the row: the committed one,    *)
(* the one a transaction has written, and the one a process will write.    *)

Backed(row, held) ==
  /\ row.status \in ExpirableStatuses \cup {"processing"} => ~row.resv
  /\ row.resv => held.res # "none"
  /\ row.status = "requires_confirmation" => row.resv
  /\ row.status = "cancelled" /\ row.resv => held.res = "cancelled"
  /\ Modes = {"require_confirmation"} /\ row.status = "completed" => held.conf = "granted"

\* the positions of a process whose copy is still to be written
CopyPCs == {"update", "provider", "resolve", "marking"}

BackedInv ==
  /\ \A m \in Missions : Backed(db[m], provider[m]) /\ Backed(tx[m].row, provider[m])
  /\ \A p \in Procs :
       /\ proc[p].pc \in CopyPCs => Backed(proc[p].snap, provider[proc[p].m])
       /\ proc[p].pc = "autoconfirm" =>
            "auto_purchase" \in Modes /\ provider[proc[p].m].res # "none"

\* Provider calls are idempotent by key: what was answered once stays so.
Keeps(held, later) ==
  /\ held.res # "none" => later.res # "none"
  /\ held.res = "cancelled" => later.res = "cancelled"
  /\ held.conf = "granted" => later.conf = "granted"

ProviderKeeps == \A m \in Missions : Keeps(provider[m], provider'[m])

-----------------------------------------------------------------------------
(* Rows                                                                    *)

LEMMA BackedStays ==
  ASSUME NEW row, NEW held, NEW later, Backed(row, held), Keeps(held, later)
  PROVE  Backed(row, later)
BY DEF Backed, Keeps

\* Only the status and the reservation matter.
LEMMA BackedAlike ==
  ASSUME NEW a, NEW b, NEW held, Backed(a, held), b.status = a.status, b.resv = a.resv
  PROVE  Backed(b, held)
BY DEF Backed

\* A status that promises nothing more than the row did before.
LEMMA BackedClosed ==
  ASSUME NEW row, NEW held, row.status \in {"failed", "expired"},
         row.resv => held.res # "none"
  PROVE  Backed(row, held)
BY DEF Backed, ExpirableStatuses

LEMMA BackedUnreserved ==
  ASSUME NEW row, NEW held, ~row.resv,
         row.status \notin {"requires_confirmation", "completed"}
  PROVE  Backed(row, held)
BY DEF Backed

LEMMA TransitionIs ==
  ASSUME NEW r \in SafeRow, NEW s
  PROVE  Transition(r, s).status = s /\ Transition(r, s).resv = r.resv
BY DEF Transition, SafeRow, Row

\* update writes the status and the reservation of the object it is given.
LEMMA WrittenIs ==
  ASSUME NEW r, NEW s \in SafeRow
  PROVE  Written(r, s).status = s.status /\ Written(r, s).resv = s.resv
<1> DEFINE w == [s EXCEPT !.seq = s.seq + 1, !.audit = r.audit]
<1>1. w.status = s.status /\ w.resv = s.resv
  BY DEF SafeRow, Row
<1>2. \A o : CloseOpenAttempt(w, o).status = w.status /\ CloseOpenAttempt(w, o).resv = w.resv
  BY DEF CloseOpenAttempt, SafeRow, Row
<1>3. Written(r, s) = w \/ \E o : Written(r, s) = CloseOpenAttempt(w, o)
  BY DEF Written, SyncAttempt
<1> HIDE DEF w
<1> QED
  BY <1>1, <1>2, <1>3

LEMMA BackedWritten ==
  ASSUME NEW r, NEW s \in SafeRow, NEW held, Backed(s, held)
  PROVE  Backed(Written(r, s), held)
BY WrittenIs, BackedAlike

LEMMA AutoRetryIs ==
  ASSUME NEW m, NEW r \in SafeRow, NEW t
  PROVE  AutoRetry(m, r, t).status = "waiting" /\ ~AutoRetry(m, r, t).resv
<1> DEFINE at == t + RetryDelay[r.attempts]
<1> DEFINE when == IF ExpiresAt[m] # NoTime /\ ExpiresAt[m] < at THEN ExpiresAt[m] ELSE at
<1>1. AutoRetry(m, r, t) = [Transition(r, "waiting") EXCEPT !.sched = when, !.resv = FALSE]
  BY DEF AutoRetry
<1> HIDE DEF when
<1> QED
  BY <1>1 DEF Transition, SafeRow, Row

LEMMA BackedRetry ==
  ASSUME NEW m, NEW r \in SafeRow, NEW t, NEW held
  PROVE  Backed(AutoRetry(m, r, t), held)
<1>1. AutoRetry(m, r, t).status \notin {"requires_confirmation", "completed"}
  BY AutoRetryIs
<1> QED
  BY <1>1, AutoRetryIs, BackedUnreserved

\* A recovered Mission waits without a reservation, or has failed.
LEMMA BackedRecovered ==
  ASSUME NEW r \in SafeRow, NEW held, r.status = "processing", Backed(r, held)
  PROVE  Backed(Recovered(r), held)
<1> DEFINE target == IF Exhausted(r) THEN "failed" ELSE "waiting"
<1> DEFINE moved == [Transition(r, target) EXCEPT !.seq = r.seq + 1]
<1>1. moved.status = target /\ moved.resv = r.resv
  BY DEF Transition, SafeRow, Row
<1>2. \A o : CloseOpenAttempt(moved, o).status = moved.status
             /\ CloseOpenAttempt(moved, o).resv = moved.resv
  BY DEF CloseOpenAttempt, Transition, SafeRow, Row
<1>3. \E o : Recovered(r) = CloseOpenAttempt(moved, o)
  BY DEF Recovered
<1>4. target \in {"failed", "waiting"} /\ ~r.resv
  BY DEF Backed
<1> HIDE DEF moved, target
<1>5. Recovered(r).status \in {"failed", "waiting"} /\ ~Recovered(r).resv
  BY <1>1, <1>2, <1>3, <1>4
<1>6. Recovered(r).status \notin {"requires_confirmation", "completed"}
  BY <1>5
<1> QED
  BY <1>5, <1>6, BackedUnreserved

LEMMA BackedClaimed ==
  ASSUME NEW r \in SafeRow, NEW t, NEW held, r.status = "waiting", Backed(r, held)
  PROVE  Backed(Claimed(r, t), held)
<1>1. Claimed(r, t).status = "processing" /\ Claimed(r, t).resv = r.resv
  BY DEF Claimed, SafeRow, Row
<1> QED
  BY <1>1 DEF Backed, ExpirableStatuses

-----------------------------------------------------------------------------
(* Steps                                                                   *)

LEMMA Stays ==
  ASSUME BackedInv, ProviderKeeps, NEW m \in Missions
  PROVE  Backed(db[m], provider'[m]) /\ Backed(tx[m].row, provider'[m])
BY BackedStays DEF BackedInv, ProviderKeeps

LEMMA NobodyAsked ==
  ASSUME UNCHANGED provider
  PROVE  ProviderKeeps
BY DEF ProviderKeeps, Keeps

\* A step of process p, whatever it does to the rows.
LEMMA StepBacked ==
  ASSUME RowInv, BackedInv, ProviderKeeps, NEW p \in Procs, NEW new,
         proc' = [proc EXCEPT ![p] = new],
         new.pc \in CopyPCs => Backed(new.snap, provider'[new.m]),
         new.pc = "autoconfirm" => "auto_purchase" \in Modes /\ provider'[new.m].res # "none",
         \A m \in Missions : Backed(db'[m], provider'[m]) /\ Backed(tx'[m].row, provider'[m])
  PROVE  BackedInv'
<1>1. \A q \in Procs : proc'[q] = IF q = p THEN new ELSE proc[q]
  BY DEF RowInv
<1>2. ASSUME NEW q \in Procs
      PROVE  /\ proc'[q].pc \in CopyPCs => Backed(proc'[q].snap, provider'[proc'[q].m])
             /\ proc'[q].pc = "autoconfirm" =>
                  "auto_purchase" \in Modes /\ provider'[proc'[q].m].res # "none"
  <2>1. CASE q = p
    BY <1>1, <2>1
  <2>2. CASE q # p /\ proc[q].pc \in CopyPCs
    <3>1. proc[q].m \in Missions
      BY <2>2, HeldSafe DEF CopyPCs, MissionPCs, PCs
    <3>2. Backed(proc[q].snap, provider'[proc[q].m])
      BY <2>2, <3>1, BackedStays DEF BackedInv, ProviderKeeps
    <3>3. proc[q].pc # "autoconfirm"
      BY <2>2 DEF CopyPCs
    <3> QED
      BY <1>1, <2>2, <3>2, <3>3
  <2>3. CASE q # p /\ proc[q].pc = "autoconfirm"
    <3>1. proc[q].m \in Missions
      BY <2>3, HeldSafe DEF MissionPCs, PCs
    <3>2. "auto_purchase" \in Modes /\ provider'[proc[q].m].res # "none"
      BY <2>3, <3>1 DEF BackedInv, ProviderKeeps, Keeps
    <3> QED
      BY <1>1, <2>3, <3>2 DEF CopyPCs
  <2>4. CASE q # p /\ proc[q].pc \notin CopyPCs \cup {"autoconfirm"}
    BY <1>1, <2>4
  <2> QED
    BY <2>1, <2>2, <2>3, <2>4
<1> QED
  BY <1>2 DEF BackedInv

\* A step that leaves the rows alone.
LEMMA MoveBacked ==
  ASSUME RowInv, BackedInv, ProviderKeeps, NEW p \in Procs, NEW new,
         proc' = [proc EXCEPT ![p] = new],
         new.pc \in CopyPCs => Backed(new.snap, provider'[new.m]),
         new.pc = "autoconfirm" => "auto_purchase" \in Modes /\ provider'[new.m].res # "none",
         UNCHANGED <<db, tx>>
  PROVE  BackedInv'
BY Stays, StepBacked

\* A write under the lock.
LEMMA WriteBacked ==
  ASSUME RowInv, BackedInv, ProviderKeeps, NEW p \in Procs, NEW m \in Missions, NEW row,
         NEW new, proc' = [proc EXCEPT ![p] = new],
         new.pc \notin CopyPCs \cup {"autoconfirm"},
         Flush(p, m, row), Backed(row, provider'[m]), UNCHANGED db
  PROVE  BackedInv'
<1>1. \A n \in Missions : tx'[n] = IF n = m THEN [owner |-> p, row |-> row] ELSE tx[n]
  BY DEF Flush, RowInv
<1>2. \A n \in Missions : Backed(db'[n], provider'[n]) /\ Backed(tx'[n].row, provider'[n])
  BY <1>1, Stays
<1> QED
  BY <1>2, StepBacked

\* The end of a transaction, whether it commits or rolls back.
LEMMA EndBacked ==
  ASSUME RowInv, BackedInv, ProviderKeeps, NEW p \in Procs, CommitTx(p) \/ RollbackTx(p)
  PROVE  BackedInv'
<1>1. proc' = [proc EXCEPT ![p] = Idle] /\ Idle.pc = "idle"
  BY IdleState DEF CommitTx, RollbackTx
<1>2. \A m \in Missions : tx'[m] = IF tx[m].owner = p THEN Free ELSE tx[m]
  BY DEF CommitTx, RollbackTx, Release
<1>3. \A m \in Missions : db'[m] \in {db[m], tx[m].row}
  BY DEF CommitTx, RollbackTx
<1>4. \A held : Backed(Free.row, held)
  BY DEF Free, BlankRow, Backed
<1>5. \A m \in Missions : Backed(db'[m], provider'[m]) /\ Backed(tx'[m].row, provider'[m])
  BY <1>2, <1>3, <1>4, Stays
<1> QED
  BY <1>1, <1>5, StepBacked DEF CopyPCs

-----------------------------------------------------------------------------
(* One lemma per action of an API session.                                 *)

\* A command starts from a committed row and a backed plan for it.
LEMMA BeginBacked ==
  ASSUME RowInv, BackedInv, NEW s \in Sessions, NEW m \in Missions, NEW cmd,
         NEW pc \in {"update", "provider", "resolve"}, NEW snap,
         Begin(s, cmd, m, pc, snap), Backed(snap, provider[m])
  PROVE  BackedInv'
<1> DEFINE new == [Idle EXCEPT !.pc = pc, !.cmd = cmd, !.m = m, !.snap = snap]
<1>1. new.pc = pc /\ new.m = m /\ new.snap = snap
  BY DEF Idle
<1>2. proc' = [proc EXCEPT ![s] = new] /\ UNCHANGED <<db, tx, provider>> /\ s \in Procs
  BY DEF Begin, Procs
<1> HIDE DEF new
<1> QED
  BY <1>1, <1>2, NobodyAsked, MoveBacked

\* The commands that plan a new row are accepted only without a reservation,
\* and none of them plans a status that promises one.
LEMMA PlanBacked ==
  ASSUME RowInv, BackedInv, NEW s \in Sessions, NEW m \in Missions, NEW cmd, NEW snap,
         Begin(s, cmd, m, "update", snap), ~snap.resv,
         snap.status \notin {"requires_confirmation", "completed"}
  PROVE  BackedInv'
BY BackedUnreserved, BeginBacked

LEMMA Unreserved ==
  ASSUME RowInv, BackedInv, NEW m \in Missions, db[m].status \in ExpirableStatuses
  PROVE  ~db[m].resv
BY DEF BackedInv, Backed

LEMMA PauseBacked ==
  ASSUME RowInv, BackedInv, NEW s \in Sessions, NEW m \in Missions, Pause(s, m)
  PROVE  BackedInv'
<1>1. db[m].status \in ExpirableStatuses /\ db[m] \in SafeRow
  BY CommittedSafe DEF Pause, ExpirableStatuses
<1>2. /\ Transition(db[m], "paused").status = "paused"
      /\ ~Transition(db[m], "paused").resv
  BY <1>1, Unreserved, TransitionIs
<1> QED
  BY <1>2, PlanBacked DEF Pause

LEMMA ResumeBacked ==
  ASSUME RowInv, BackedInv, NEW s \in Sessions, NEW m \in Missions, Resume(s, m)
  PROVE  BackedInv'
<1> DEFINE target == IF db[m].sched = NoTime THEN "created" ELSE "waiting"
<1> DEFINE snap == Transition(db[m], target)
<1>1. db[m].status \in ExpirableStatuses /\ db[m] \in SafeRow
  BY CommittedSafe DEF Resume, ExpirableStatuses
<1>2. snap.status \in {"created", "waiting"} /\ ~snap.resv
  BY <1>1, Unreserved, TransitionIs
<1>3. Begin(s, "resume", m, "update", snap)
  BY DEF Resume
<1> HIDE DEF snap
<1>4. snap.status \notin {"requires_confirmation", "completed"}
  BY <1>2
<1> QED
  BY <1>2, <1>3, <1>4, PlanBacked

LEMMA CancelBacked ==
  ASSUME RowInv, BackedInv, NEW s \in Sessions, NEW m \in Missions, Cancel(s, m)
  PROVE  BackedInv'
<1> DEFINE snap == Transition(db[m], "cancelled")
<1>1. CASE db[m].status \in ExpirableStatuses /\ Begin(s, "cancel", m, "update", snap)
  <2>1. snap.status = "cancelled" /\ ~snap.resv
    BY <1>1, CommittedSafe, Unreserved, TransitionIs
  <2> HIDE DEF snap
  <2> QED
    BY <1>1, <2>1, PlanBacked
<1>2. CASE Begin(s, "cancel", m, "provider", db[m])
  BY <1>2, BeginBacked DEF BackedInv
<1> QED
  BY <1>1, <1>2 DEF Cancel

LEMMA CallBacked ==
  ASSUME RowInv, BackedInv, NEW s \in Sessions, NEW m \in Missions,
         Confirm(s, m) \/ Run(s, m)
  PROVE  BackedInv'
BY BeginBacked DEF Confirm, Run, BackedInv

LEMMA RetryBacked ==
  ASSUME RowInv, BackedInv, NEW s \in Sessions, NEW m \in Missions, Retry(s, m)
  PROVE  BackedInv'
<1>1. PICK at \in now..MaxTime :
        Begin(s, "retry", m, "update",
              [Transition(db[m], "waiting") EXCEPT !.sched = at, !.resv = FALSE])
  BY DEF Retry
<1> DEFINE snap == [Transition(db[m], "waiting") EXCEPT !.sched = at, !.resv = FALSE]
<1>2. snap.status = "waiting" /\ ~snap.resv
  BY CommittedSafe DEF Transition, SafeRow, Row
<1>3. Begin(s, "retry", m, "update", snap)
  BY <1>1
<1> HIDE DEF snap
<1> QED
  BY <1>2, <1>3, PlanBacked

LEMMA ScheduleBacked ==
  ASSUME RowInv, BackedInv, NEW s \in Sessions, NEW m \in Missions, Schedule(s, m)
  PROVE  BackedInv'
<1> DEFINE planned(at) == [db[m] EXCEPT !.sched = at]
<1>1. db[m] \in SafeRow /\ db[m].status \in ExpirableStatuses /\ ~db[m].resv
  BY CommittedSafe, Unreserved DEF Schedule
<1>2. \E snap : /\ Begin(s, "schedule", m, "update", snap)
                /\ \/ \E at : snap = planned(at)
                   \/ \E at : snap = Transition(planned(at), "waiting")
                   \/ \E at : snap = Transition(planned(at), "created")
  <2>1. CASE \E at \in (now + 1)..MaxTime :
               Begin(s, "schedule", m, "update",
                 IF planned(at).status = "created" THEN Transition(planned(at), "waiting")
                 ELSE planned(at))
    BY <2>1
  <2>2. CASE Begin(s, "schedule", m, "update",
               IF planned(NoTime).status = "waiting"
               THEN Transition(planned(NoTime), "created") ELSE planned(NoTime))
    BY <2>2
  <2> QED
    BY <2>1, <2>2 DEF Schedule
<1>3. \A at : /\ planned(at).status \in ExpirableStatuses /\ ~planned(at).resv
              /\ \A t : /\ Transition(planned(at), t).status = t
                        /\ ~Transition(planned(at), t).resv
  BY <1>1 DEF Transition, SafeRow, Row
<1> HIDE DEF planned
<1>4. PICK snap : /\ Begin(s, "schedule", m, "update", snap)
                  /\ snap.status \in ExpirableStatuses /\ ~snap.resv
  BY <1>2, <1>3 DEF ExpirableStatuses
<1> QED
  BY <1>4, PlanBacked DEF ExpirableStatuses

LEMMA EditBacked ==
  ASSUME RowInv, BackedInv, NEW s \in Sessions, NEW m \in Missions,
         Patch(s, m) \/ SetProvider(s, m)
  PROVE  BackedInv'
<1>1. db[m] \in SafeRow /\ db[m].status \in ExpirableStatuses /\ ~db[m].resv
  BY CommittedSafe, Unreserved DEF Patch, SetProvider
<1>2. \E cmd, snap : /\ Begin(s, cmd, m, "update", snap)
                     /\ snap.status = db[m].status /\ ~snap.resv
  <2>1. CASE Patch(s, m)
    <3>1. PICK cap \in 1..MaxAttempts :
            Begin(s, "patch", m, "update", [db[m] EXCEPT !.cap = cap])
      BY <2>1 DEF Patch
    <3>2. /\ [db[m] EXCEPT !.cap = cap].status = db[m].status
          /\ ~[db[m] EXCEPT !.cap = cap].resv
      BY <1>1 DEF SafeRow, Row
    <3> QED
      BY <3>1, <3>2
  <2>2. CASE SetProvider(s, m)
    <3>1. Begin(s, "provider", m, "update", [db[m] EXCEPT !.resv = FALSE])
      BY <2>2 DEF SetProvider
    <3>2. /\ [db[m] EXCEPT !.resv = FALSE].status = db[m].status
          /\ ~[db[m] EXCEPT !.resv = FALSE].resv
      BY <1>1 DEF SafeRow, Row
    <3> QED
      BY <3>1, <3>2
  <2> QED
    BY <2>1, <2>2
<1> QED
  BY <1>1, <1>2, PlanBacked DEF ExpirableStatuses

LEMMA RequestBacked ==
  ASSUME RowInv, BackedInv, NEW s \in Sessions, Request(s)
  PROVE  BackedInv'
BY PauseBacked, ResumeBacked, CancelBacked, CallBacked, RetryBacked, ScheduleBacked,
   EditBacked DEF Request

\* The provider is asked about one Mission and answers for good.
LEMMA AskedKeeps ==
  ASSUME RowInv, NEW m \in Missions, NEW later \in ProviderState, Keeps(provider[m], later),
         provider' = [provider EXCEPT ![m] = later]
  PROVE  ProviderKeeps /\ provider'[m] = later
BY DEF RowInv, ProviderKeeps, Keeps

LEMMA ConfirmReplyIs ==
  ASSUME RowInv, NEW m \in Missions, NEW r \in ConfirmReplies(m),
         provider' = [provider EXCEPT ![m].conf = r.conf]
  PROVE  /\ ProviderKeeps
         /\ r.reply = "granted" => provider'[m].conf = "granted"
<1> DEFINE later == [provider[m] EXCEPT !.conf = r.conf]
<1>1. provider[m] \in ProviderState
  BY DEF RowInv
<1>2. /\ provider[m].conf # "none" => r.conf = provider[m].conf
      /\ r.reply = "granted" => r.conf = "granted"
  BY DEF ConfirmReplies
<1>3. later \in ProviderState
  BY AnswerStates
<1>4. later.res = provider[m].res /\ later.conf = r.conf
  BY <1>1 DEF ProviderState
<1>5. provider' = [provider EXCEPT ![m] = later]
  OBVIOUS
<1> HIDE DEF later
<1>6. Keeps(provider[m], later)
  BY <1>2, <1>4 DEF Keeps
<1> QED
  BY <1>2, <1>3, <1>4, <1>5, <1>6, AskedKeeps

LEMMA CancelReplyIs ==
  ASSUME RowInv, NEW m \in Missions, NEW r \in CancelReplies(m),
         provider' = [provider EXCEPT ![m].res = r.res]
  PROVE  /\ ProviderKeeps
         /\ r.reply = "granted" => provider'[m].res = "cancelled"
<1> DEFINE later == [provider[m] EXCEPT !.res = r.res]
<1>1. provider[m] \in ProviderState
  BY DEF RowInv
<1>2. /\ provider[m].res # "none" => r.res # "none"
      /\ provider[m].res = "cancelled" => r.res = "cancelled"
      /\ r.reply = "granted" => r.res = "cancelled"
  BY DEF CancelReplies
<1>3. later \in ProviderState
  BY AnswerStates
<1>4. later.res = r.res /\ later.conf = provider[m].conf
  BY <1>1 DEF ProviderState
<1>5. provider' = [provider EXCEPT ![m] = later]
  OBVIOUS
<1> HIDE DEF later
<1>6. Keeps(provider[m], later)
  BY <1>2, <1>4 DEF Keeps
<1> QED
  BY <1>2, <1>3, <1>4, <1>5, <1>6, AskedKeeps

LEMMA ReserveReplyIs ==
  ASSUME RowInv, NEW m \in Missions, NEW r \in ReserveReplies(m),
         provider' = [provider EXCEPT ![m].res = r.res]
  PROVE  /\ ProviderKeeps
         /\ r.reply = "granted" => provider'[m].res # "none"
<1> DEFINE later == [provider[m] EXCEPT !.res = r.res]
<1>1. provider[m] \in ProviderState
  BY DEF RowInv
<1>2. /\ provider[m].res # "none" => r.res = provider[m].res
      /\ r.reply = "granted" => r.res # "none"
  BY DEF ReserveReplies
<1>3. later \in ProviderState
  BY AnswerStates
<1>4. later.res = r.res /\ later.conf = provider[m].conf
  BY <1>1 DEF ProviderState
<1>5. provider' = [provider EXCEPT ![m] = later]
  OBVIOUS
<1> HIDE DEF later
<1>6. Keeps(provider[m], later)
  BY <1>2, <1>4 DEF Keeps
<1> QED
  BY <1>2, <1>3, <1>4, <1>5, <1>6, AskedKeeps

\* The answer decides the status the session is about to write.
LEMMA AnsweredBacked ==
  ASSUME RowInv, BackedInv, ProviderKeeps, NEW s \in Sessions, NEW snap,
         proc' = [proc EXCEPT ![s].pc = "update", ![s].snap = snap],
         Backed(snap, provider'[proc[s].m]), UNCHANGED <<db, tx>>
  PROVE  BackedInv'
<1> DEFINE new == [proc[s] EXCEPT !.pc = "update", !.snap = snap]
<1>1. proc[s] \in ProcState /\ s \in Procs
  BY HeldSafe DEF Procs
<1>2. new.pc = "update" /\ new.m = proc[s].m /\ new.snap = snap
  BY <1>1 DEF ProcState
<1>3. proc' = [proc EXCEPT ![s] = new]
  BY <1>1 DEF RowInv
<1> HIDE DEF new
<1> QED
  BY <1>1, <1>2, <1>3, MoveBacked

LEMMA ProviderConfirmBacked ==
  ASSUME RowInv, BackedInv, NEW s \in Sessions, ProviderConfirm(s)
  PROVE  BackedInv'
<1> DEFINE m == proc[s].m
<1>1. s \in Procs /\ m \in Missions /\ proc[s].snap \in SafeRow /\ proc[s].pc = "provider"
  BY HeldSafe DEF Procs, ProviderConfirm, MissionPCs, PCs
<1>2. PICK r \in ConfirmReplies(m) :
        /\ provider' = [provider EXCEPT ![m].conf = r.conf]
        /\ proc' = [proc EXCEPT ![s].pc = "update", ![s].snap =
             Transition(proc[s].snap, IF r.reply = "granted" THEN "completed" ELSE "failed")]
  BY DEF ProviderConfirm
<1> DEFINE target == IF r.reply = "granted" THEN "completed" ELSE "failed"
<1> DEFINE snap == Transition(proc[s].snap, target)
<1>3. ProviderKeeps /\ (r.reply = "granted" => provider'[m].conf = "granted")
  BY <1>1, <1>2, ConfirmReplyIs
<1>4. snap.status = target /\ snap.resv = proc[s].snap.resv
  BY <1>1, TransitionIs
<1>5. Backed(snap, provider'[m])
  <2>1. snap.resv => provider'[m].res # "none"
    BY <1>1, <1>3, <1>4 DEF BackedInv, CopyPCs, Backed, ProviderKeeps, Keeps
  <2> HIDE DEF snap
  <2> QED
    BY <1>3, <1>4, <2>1 DEF Backed, ExpirableStatuses
<1>6. UNCHANGED <<db, tx>> /\ proc' = [proc EXCEPT ![s].pc = "update", ![s].snap = snap]
  BY <1>2 DEF ProviderConfirm
<1> HIDE DEF snap
<1> QED
  BY <1>3, <1>5, <1>6, AnsweredBacked

LEMMA ProviderCancelBacked ==
  ASSUME RowInv, BackedInv, NEW s \in Sessions, ProviderCancel(s)
  PROVE  BackedInv'
<1> DEFINE m == proc[s].m
<1>1. s \in Procs /\ m \in Missions /\ proc[s].snap \in SafeRow /\ proc[s].pc = "provider"
  BY HeldSafe DEF Procs, ProviderCancel, MissionPCs, PCs
<1>2. PICK r \in CancelReplies(m) :
        /\ provider' = [provider EXCEPT ![m].res = r.res]
        /\ proc' = [proc EXCEPT ![s].pc = "update", ![s].snap =
             Transition(proc[s].snap, IF r.reply = "granted" THEN "cancelled" ELSE "failed")]
  BY DEF ProviderCancel
<1> DEFINE target == IF r.reply = "granted" THEN "cancelled" ELSE "failed"
<1> DEFINE snap == Transition(proc[s].snap, target)
<1>3. ProviderKeeps /\ (r.reply = "granted" => provider'[m].res = "cancelled")
  BY <1>1, <1>2, CancelReplyIs
<1>4. snap.status = target /\ snap.resv = proc[s].snap.resv
  BY <1>1, TransitionIs
<1>5. Backed(snap, provider'[m])
  <2>1. snap.resv => provider'[m].res # "none"
    BY <1>1, <1>3, <1>4 DEF BackedInv, CopyPCs, Backed, ProviderKeeps, Keeps
  <2> HIDE DEF snap
  <2> QED
    BY <1>3, <1>4, <2>1 DEF Backed, ExpirableStatuses
<1>6. UNCHANGED <<db, tx>> /\ proc' = [proc EXCEPT ![s].pc = "update", ![s].snap = snap]
  BY <1>2 DEF ProviderCancel
<1> HIDE DEF snap
<1> QED
  BY <1>3, <1>5, <1>6, AnsweredBacked

LEMMA UpdateBacked ==
  ASSUME RowInv, BackedInv, NEW s \in Sessions, Update(s)
  PROVE  BackedInv'
<1> DEFINE m == proc[s].m
<1> DEFINE row == Written(db[m], proc[s].snap)
<1>1. s \in Procs /\ m \in Missions /\ proc[s].snap \in SafeRow /\ ProviderKeeps
  BY HeldSafe, NobodyAsked DEF Procs, Update, MissionPCs, PCs
<1>2. CASE Flush(s, m, row) /\ Goto(s, "commit") /\ UNCHANGED <<db, provider>>
  <2>1. Backed(row, provider'[m])
    BY <1>1, <1>2, BackedWritten DEF Update, BackedInv, CopyPCs
  <2>2. PICK new : proc' = [proc EXCEPT ![s] = new] /\ new.pc = "commit"
    BY <1>1, <1>2, GotoIs
  <2> HIDE DEF row
  <2> QED
    BY <1>1, <1>2, <2>1, <2>2, WriteBacked DEF CopyPCs
<1>3. CASE RollbackTx(s)
  BY <1>1, <1>3, EndBacked
<1> QED
  BY <1>2, <1>3 DEF Update

-----------------------------------------------------------------------------
(* The steps of a run, whoever executes it.                                *)

LEMMA RaiseBacked ==
  ASSUME RowInv, BackedInv, NEW p \in Procs, NEW retryable \in BOOLEAN,
         Raise(p, retryable), UNCHANGED provider
  PROVE  BackedInv'
<1>1. ProviderKeeps
  BY NobodyAsked
<1>2. CASE p \in Sessions
  BY <1>1, <1>2, EndBacked DEF Raise
<1>3. CASE p \notin Sessions
  <2> DEFINE new == [proc[p] EXCEPT !.pc = "mark",
                                    !.cmd = IF retryable THEN "retryable" ELSE "cycle"]
  <2>1. proc[p] \in ProcState
    BY HeldSafe
  <2>2. new.pc = "mark" /\ proc' = [proc EXCEPT ![p] = new] /\ UNCHANGED <<db, tx>>
    BY <1>3, <2>1 DEF ProcState, Raise, RowInv
  <2> HIDE DEF new
  <2> QED
    BY <1>1, <2>2, MoveBacked DEF CopyPCs
<1> QED
  BY <1>2, <1>3

LEMMA FinishRunBacked ==
  ASSUME RowInv, BackedInv, ProviderKeeps, NEW p \in Procs, NEW row \in SafeRow,
         proc[p].m \in Missions, FinishRun(p, row), Backed(row, provider'[proc[p].m])
  PROVE  BackedInv'
<1> DEFINE done == Written(tx[proc[p].m].row, row)
<1>1. Backed(done, provider'[proc[p].m])
  BY BackedWritten
<1>2. Flush(p, proc[p].m, done) /\ UNCHANGED db
  BY DEF FinishRun
<1>3. PICK new : proc' = [proc EXCEPT ![p] = new] /\ new.pc \in {"commit", "batch"}
  BY GotoIs, NextMissionIs DEF FinishRun, Procs
<1> HIDE DEF done
<1> QED
  BY <1>1, <1>2, <1>3, WriteBacked DEF CopyPCs

LEMMA FailRunBacked ==
  ASSUME RowInv, BackedInv, ProviderKeeps, NEW p \in Procs, NEW retryable \in BOOLEAN,
         NEW snap \in SafeRow, proc[p].m \in Missions, FailRun(p, retryable, snap),
         snap.resv => provider'[proc[p].m].res # "none"
  PROVE  BackedInv'
<1> DEFINE m == proc[p].m
<1> DEFINE failed == Written(tx[m].row, Transition(snap, "failed"))
<1> DEFINE retried == Written(failed, AutoRetry(m, failed, proc[p].time))
<1>1. failed \in SafeRow /\ failed.status = "failed" /\ failed.resv = snap.resv
  <2>1. /\ Transition(snap, "failed") \in SafeRow /\ Transition(snap, "failed").status = "failed"
        /\ Transition(snap, "failed").resv = snap.resv
    BY TransitionSafe, TransitionIs, StatusFacts
  <2> QED
    BY <2>1, HeldSafe, WrittenSafe, WrittenIs
<1>2. Backed(failed, provider'[m])
  <2> HIDE DEF failed
  <2> QED
    BY <1>1, BackedClosed
<1>3. CASE RollbackTx(p)
  BY <1>3, EndBacked
<1>4. CASE /\ \/ Flush(p, m, failed) \/ Flush(p, m, Written(failed, failed))
              \/ Flush(p, m, retried) /\ failed.attempts > 0
           /\ Goto(p, "commit") \/ (p \in Workers /\ NextMission(p))
           /\ UNCHANGED db
  <2> HIDE DEF failed
  <2>1. Backed(Written(failed, failed), provider'[m])
    BY <1>1, <1>2, BackedWritten
  <2>2. failed.attempts > 0 => Backed(retried, provider'[m])
    <3>1. proc[p].time \in Nat
      BY HeldSafe DEF ProcState
    <3>2. ASSUME failed.attempts > 0
          PROVE  Backed(retried, provider'[m])
      <4>1. AutoRetry(m, failed, proc[p].time) \in SafeRow
        BY <1>1, <3>1, <3>2, AutoRetrySafe
      <4> QED
        BY <1>1, <4>1, BackedRetry, BackedWritten
    <3> QED
      BY <3>2
  <2>3. PICK row : Flush(p, m, row) /\ Backed(row, provider'[m])
    BY <1>2, <1>4, <2>1, <2>2
  <2>4. PICK new : proc' = [proc EXCEPT ![p] = new] /\ new.pc \in {"commit", "batch"}
    BY <1>4, GotoIs, NextMissionIs
  <2> QED
    BY <1>4, <2>3, <2>4, WriteBacked DEF CopyPCs
<1> QED
  BY <1>3, <1>4 DEF FailRun

LEMMA ResolveBacked ==
  ASSUME RowInv, BackedInv, NEW p \in Procs, Resolve(p) \/ ResolveRefused(p)
  PROVE  BackedInv'
<1> DEFINE m == proc[p].m
<1> DEFINE row == Written(View(p, m), proc[p].snap)
<1>1. /\ m \in Missions /\ proc[p].snap \in SafeRow /\ proc[p].pc = "resolve"
      /\ UNCHANGED provider /\ ProviderKeeps
  BY HeldSafe, NobodyAsked DEF Resolve, ResolveRefused, MissionPCs, PCs
<1>2. CASE Flush(p, m, row) /\ (Goto(p, "search") \/ Goto(p, "mark")) /\ UNCHANGED db
  <2>1. Backed(row, provider'[m])
    BY <1>1, BackedWritten DEF BackedInv, CopyPCs
  <2>2. PICK new : proc' = [proc EXCEPT ![p] = new] /\ new.pc \in {"search", "mark"}
    BY <1>2, GotoIs
  <2> HIDE DEF row
  <2> QED
    BY <1>1, <1>2, <2>1, <2>2, WriteBacked DEF CopyPCs
<1>3. CASE Raise(p, FALSE)
  BY <1>1, <1>3, RaiseBacked
<1>4. CASE RollbackTx(p)
  BY <1>1, <1>4, EndBacked
<1> QED
  BY <1>2, <1>3, <1>4 DEF Resolve, ResolveRefused

\* A search-only run completes without asking the provider for anything, but
\* not in the mode that asks for confirmation.
LEMMA SearchBacked ==
  ASSUME RowInv, BackedInv, NEW p \in Procs, Search(p)
  PROVE  BackedInv'
<1> DEFINE row == tx[proc[p].m].row
<1> DEFINE done == Transition(row, "completed")
<1>1. /\ proc[p].m \in Missions /\ row \in SafeRow /\ UNCHANGED provider /\ ProviderKeeps
      /\ row.resv => provider'[proc[p].m].res # "none"
  <2>1. proc[p].m \in Missions /\ row \in SafeRow /\ UNCHANGED provider /\ ProviderKeeps
    BY HeldSafe, NobodyAsked DEF Search, MissionPCs, PCs
  <2> QED
    BY <2>1 DEF BackedInv, Backed
<1>2. CASE \E retryable \in BOOLEAN : FailRun(p, retryable, row)
  BY <1>1, <1>2, FailRunBacked
<1>3. CASE \E retryable \in BOOLEAN : Raise(p, retryable)
  BY <1>1, <1>3, RaiseBacked
<1>4. CASE "search_only" \in Modes /\ FinishRun(p, done)
  <2>1. done \in SafeRow /\ done.status = "completed" /\ done.resv = row.resv
    BY <1>1, TransitionSafe, TransitionIs, StatusFacts
  <2> HIDE DEF done
  <2>2. Backed(done, provider'[proc[p].m])
    BY <1>1, <1>4, <2>1 DEF Backed, ExpirableStatuses
  <2> QED
    BY <1>1, <1>4, <2>1, <2>2, FinishRunBacked
<1> QED
  BY <1>2, <1>3, <1>4 DEF Search

LEMMA ReserveBacked ==
  ASSUME RowInv, BackedInv, NEW p \in Procs, Reserve(p)
  PROVE  BackedInv'
<1> DEFINE m == proc[p].m
<1> DEFINE row == tx[m].row
<1> DEFINE reserved == [row EXCEPT !.resv = TRUE]
<1>1. m \in Missions /\ row \in SafeRow
  BY HeldSafe DEF Reserve, MissionPCs, PCs
<1>2. reserved \in SafeRow /\ reserved.resv
  BY <1>1 DEF SafeRow, Row
<1>3. ASSUME NEW t \in {"requires_confirmation", "completed"}
      PROVE  /\ Transition(reserved, t) \in SafeRow
             /\ Transition(reserved, t).status = t /\ Transition(reserved, t).resv
  <2> HIDE DEF reserved
  <2> QED
    BY <1>2, TransitionSafe, TransitionIs, StatusFacts
<1>4. PICK r \in ReserveReplies(m) :
        /\ provider' = [provider EXCEPT ![m].res = r.res]
        /\ \/ \E retryable \in BOOLEAN : FailRun(p, retryable, row)
           \/ FailRun(p, FALSE, row)
           \/ /\ r.reply = "granted"
              /\ FinishRun(p, Transition(reserved, "requires_confirmation"))
           \/ /\ r.reply = "granted" /\ "auto_purchase" \in Modes
              /\ FinishRun(p, Transition(reserved, "completed"))
           \/ /\ r.reply = "granted" /\ "auto_purchase" \in Modes
              /\ proc' = [proc EXCEPT ![p].pc = "autoconfirm", ![p].snap = reserved]
              /\ UNCHANGED <<db, tx>>
  BY DEF Reserve
<1>5. ProviderKeeps /\ (r.reply = "granted" => provider'[m].res # "none")
  BY <1>1, <1>4, ReserveReplyIs
<1>6. CASE \E retryable \in BOOLEAN : FailRun(p, retryable, row)
  <2>1. row.resv => provider'[m].res # "none"
    BY <1>1, <1>5 DEF BackedInv, Backed, ProviderKeeps, Keeps
  <2> QED
    BY <1>1, <1>5, <1>6, <2>1, FailRunBacked
<1>7. CASE /\ r.reply = "granted"
           /\ FinishRun(p, Transition(reserved, "requires_confirmation"))
  <2>1. Backed(Transition(reserved, "requires_confirmation"), provider'[m])
    <3> HIDE DEF reserved
    <3> QED
      BY <1>3, <1>5, <1>7 DEF Backed, ExpirableStatuses
  <2> QED
    BY <1>1, <1>3, <1>5, <1>7, <2>1, FinishRunBacked
<1>8. CASE /\ r.reply = "granted" /\ "auto_purchase" \in Modes
           /\ FinishRun(p, Transition(reserved, "completed"))
  <2>1. Backed(Transition(reserved, "completed"), provider'[m])
    <3> HIDE DEF reserved
    <3> QED
      BY <1>3, <1>5, <1>8 DEF Backed, ExpirableStatuses
  <2> QED
    BY <1>1, <1>3, <1>5, <1>8, <2>1, FinishRunBacked
<1>9. CASE /\ r.reply = "granted" /\ "auto_purchase" \in Modes
           /\ proc' = [proc EXCEPT ![p].pc = "autoconfirm", ![p].snap = reserved]
           /\ UNCHANGED <<db, tx>>
  <2> DEFINE new == [proc[p] EXCEPT !.pc = "autoconfirm", !.snap = reserved]
  <2>1. proc[p] \in ProcState
    BY HeldSafe
  <2> HIDE DEF reserved
  <2>2. new.pc = "autoconfirm" /\ new.m = m /\ proc' = [proc EXCEPT ![p] = new]
    BY <1>9, <2>1 DEF ProcState, RowInv
  <2> HIDE DEF new
  <2> QED
    BY <1>5, <1>9, <2>2, MoveBacked DEF CopyPCs
<1> QED
  BY <1>4, <1>6, <1>7, <1>8, <1>9

LEMMA AutoConfirmBacked ==
  ASSUME RowInv, BackedInv, NEW p \in Procs, AutoConfirm(p)
  PROVE  BackedInv'
<1> DEFINE m == proc[p].m
<1> DEFINE row == proc[p].snap
<1> DEFINE done == Transition(row, "completed")
<1>1. m \in Missions /\ row \in SafeRow /\ "auto_purchase" \in Modes
      /\ provider[m].res # "none"
  BY HeldSafe DEF AutoConfirm, MissionPCs, PCs, BackedInv
<1>2. PICK r \in ConfirmReplies(m) :
        /\ provider' = [provider EXCEPT ![m].conf = r.conf]
        /\ \/ FinishRun(p, done)
           \/ \E retryable \in BOOLEAN : FailRun(p, retryable, row)
  BY DEF AutoConfirm
<1>3. ProviderKeeps /\ provider'[m].res # "none"
  BY <1>1, <1>2, ConfirmReplyIs DEF ProviderKeeps, Keeps
<1>4. CASE FinishRun(p, done)
  <2>1. done \in SafeRow /\ done.status = "completed"
    BY <1>1, TransitionSafe, TransitionIs, StatusFacts
  <2> HIDE DEF done
  <2>2. Backed(done, provider'[m])
    BY <1>1, <1>3, <2>1 DEF Backed, ExpirableStatuses
  <2> QED
    BY <1>1, <1>3, <1>4, <2>1, <2>2, FinishRunBacked
<1>5. CASE \E retryable \in BOOLEAN : FailRun(p, retryable, row)
  BY <1>1, <1>3, <1>5, FailRunBacked
<1> QED
  BY <1>2, <1>4, <1>5

LEMMA RunStepBacked ==
  ASSUME RowInv, BackedInv, NEW p \in Procs, RunStep(p)
  PROVE  BackedInv'
BY ResolveBacked, SearchBacked, ReserveBacked, AutoConfirmBacked DEF RunStep

-----------------------------------------------------------------------------
(* One lemma per action of a worker.                                       *)

\* A batch statement rewrites committed rows.
LEMMA BatchBacked ==
  ASSUME RowInv, BackedInv, NEW w \in Workers, NEW new, proc' = [proc EXCEPT ![w] = new],
         new.pc \notin CopyPCs \cup {"autoconfirm"}, UNCHANGED <<tx, provider>>,
         \A m \in Missions : Backed(db'[m], provider[m])
  PROVE  BackedInv'
<1>1. \A m \in Missions : Backed(db'[m], provider'[m]) /\ Backed(tx'[m].row, provider'[m])
  BY DEF BackedInv
<1> QED
  BY <1>1, NobodyAsked, StepBacked DEF Procs

LEMMA RecoverBacked ==
  ASSUME RowInv, BackedInv, NEW w \in Workers, Recover(w) \/ ProcessDue(w)
  PROVE  BackedInv'
<1>1. \A m \in Missions : Backed(db'[m], provider[m])
  <2>1. CASE Recover(w)
    <3>1. PICK S \in SUBSET {m \in Missions : Stale(m) /\ Lockable(m)} :
            db' = [m \in Missions |-> IF m \in S THEN Recovered(db[m]) ELSE db[m]]
      BY <2>1 DEF Recover, Batches
    <3>2. \A m \in S : db[m].status = "processing"
      BY <3>1 DEF Stale
    <3> QED
      BY <3>1, <3>2, CommittedSafe, BackedRecovered DEF BackedInv
  <2>2. CASE ProcessDue(w)
    BY <2>2 DEF ProcessDue, BackedInv
  <2> QED
    BY <2>1, <2>2
<1> DEFINE new == [Idle EXCEPT !.pc = "expire", !.cmd = "cycle", !.time = now]
<1>2. /\ proc' = [proc EXCEPT ![w] = new] /\ new.pc = "expire"
      /\ UNCHANGED <<tx, provider>>
  BY DEF Recover, ProcessDue, Idle
<1> HIDE DEF new
<1> QED
  BY <1>1, <1>2, BatchBacked DEF CopyPCs

LEMMA ExpireBacked ==
  ASSUME RowInv, BackedInv, NEW w \in Workers, Expire(w)
  PROVE  BackedInv'
<1> DEFINE expired(m) == [Transition(db[m], "expired") EXCEPT !.seq = db[m].seq + 1]
<1>1. CASE RollbackTx(w)
  BY <1>1, NobodyAsked, EndBacked DEF Procs, Expire
<1>2. CASE \E S \in SUBSET Missions :
             /\ db' = [m \in Missions |-> IF m \in S THEN expired(m) ELSE db[m]]
             /\ Goto(w, "claim") /\ UNCHANGED <<tx, provider>>
  <2>1. \A m \in Missions : expired(m).status = "expired" /\ expired(m).resv = db[m].resv
    BY CommittedSafe DEF Transition, SafeRow, Row
  <2> HIDE DEF expired
  <2>2. \A m \in Missions : Backed(expired(m), provider[m])
    BY <2>1, BackedClosed DEF BackedInv, Backed
  <2>3. \A m \in Missions : Backed(db'[m], provider[m])
    BY <1>2, <2>2 DEF BackedInv
  <2>4. PICK new : proc' = [proc EXCEPT ![w] = new] /\ new.pc = "claim"
    BY <1>2, GotoIs DEF Procs
  <2> QED
    BY <1>2, <2>3, <2>4, BatchBacked DEF CopyPCs
<1> QED
  BY <1>1, <1>2 DEF Expire, Batches

LEMMA ClaimBacked ==
  ASSUME RowInv, BackedInv, NEW w \in Workers, Claim(w)
  PROVE  BackedInv'
<1> DEFINE t == proc[w].time
<1>1. CASE RollbackTx(w)
  BY <1>1, NobodyAsked, EndBacked DEF Procs, Claim
<1>2. CASE \E S \in SUBSET {m \in Missions : Due(m, t)} :
             /\ db' = [m \in Missions |-> IF m \in S THEN Claimed(db[m], t) ELSE db[m]]
             /\ proc' = [proc EXCEPT ![w].pc = "batch", ![w].todo = S]
             /\ UNCHANGED <<tx, provider>>
  <2>1. PICK S \in SUBSET {m \in Missions : Due(m, t)} :
             /\ db' = [m \in Missions |-> IF m \in S THEN Claimed(db[m], t) ELSE db[m]]
             /\ proc' = [proc EXCEPT ![w].pc = "batch", ![w].todo = S]
             /\ UNCHANGED <<tx, provider>>
    BY <1>2
  <2>2. \A m \in Missions : Backed(db'[m], provider[m])
    <3>1. \A m \in S : db[m].status = "waiting"
      BY <2>1 DEF Due
    <3> QED
      BY <2>1, <3>1, CommittedSafe, BackedClaimed DEF BackedInv
  <2> DEFINE new == [proc[w] EXCEPT !.pc = "batch", !.todo = S]
  <2>3. w \in Procs /\ proc[w] \in ProcState
    BY HeldSafe DEF Procs
  <2>4. proc' = [proc EXCEPT ![w] = new] /\ new.pc = "batch"
    BY <2>1, <2>3 DEF RowInv, ProcState
  <2> HIDE DEF new
  <2> QED
    BY <2>1, <2>2, <2>4, BatchBacked DEF CopyPCs
<1> QED
  BY <1>1, <1>2 DEF Claim, Batches

\* What a worker reads of a row, its own write or the committed one.
LEMMA ViewBacked ==
  ASSUME BackedInv, NEW p \in Procs, NEW m \in Missions
  PROVE  Backed(View(p, m), provider[m])
BY DEF BackedInv, View

LEMMA PickBacked ==
  ASSUME RowInv, BackedInv, NEW w \in Workers, Pick(w)
  PROVE  BackedInv'
<1>1. w \in Procs /\ proc[w] \in ProcState /\ ProviderKeeps
  BY HeldSafe, NobodyAsked DEF Procs, Pick
<1>2. PICK m \in Missions, pc \in {"resolve", "mark"} :
        proc' = [proc EXCEPT ![w] = [proc[w] EXCEPT !.pc = pc, !.m = m, !.snap = View(w, m)]]
  <2>1. proc[w].todo \subseteq Missions
    BY <1>1 DEF ProcState
  <2> QED
    BY <2>1 DEF Pick
<1> DEFINE new == [proc[w] EXCEPT !.pc = pc, !.m = m, !.snap = View(w, m)]
<1>3. new.pc = pc /\ new.m = m /\ new.snap = View(w, m)
  BY <1>1 DEF ProcState
<1>4. proc' = [proc EXCEPT ![w] = new] /\ UNCHANGED <<db, tx, provider>>
  BY <1>2 DEF Pick
<1> HIDE DEF new
<1> QED
  BY <1>1, <1>3, <1>4, ViewBacked, MoveBacked

LEMMA MarkBacked ==
  ASSUME RowInv, BackedInv, NEW w \in Workers, Mark(w)
  PROVE  BackedInv'
<1> DEFINE m == proc[w].m
<1> DEFINE snap == Transition(View(w, m), "failed")
<1>1. w \in Procs /\ proc[w] \in ProcState /\ m \in Missions /\ ProviderKeeps
  BY HeldSafe, NobodyAsked DEF Procs, Mark, MissionPCs, PCs
<1>2. CASE RollbackTx(w)
  BY <1>1, <1>2, EndBacked
<1>3. CASE proc' = [proc EXCEPT ![w].pc = "marking", ![w].snap = snap]
           /\ UNCHANGED <<db, tx, provider>>
  <2>1. snap.status = "failed" /\ snap.resv = View(w, m).resv
    BY <1>1, HeldSafe, TransitionIs
  <2>2. snap.resv => provider[m].res # "none"
    BY <1>1, <2>1, ViewBacked DEF Backed
  <2> HIDE DEF snap
  <2> DEFINE new == [proc[w] EXCEPT !.pc = "marking", !.snap = snap]
  <2>3. /\ new.snap = snap /\ new.pc = "marking" /\ new.m = m
        /\ proc' = [proc EXCEPT ![w] = new]
    BY <1>1, <1>3 DEF ProcState, RowInv
  <2> HIDE DEF new
  <2>4. Backed(new.snap, provider'[new.m])
    BY <1>3, <2>1, <2>2, <2>3, BackedClosed
  <2> QED
    BY <1>1, <1>3, <2>3, <2>4, MoveBacked
<1> QED
  BY <1>2, <1>3 DEF Mark

LEMMA MarkFailedBacked ==
  ASSUME RowInv, BackedInv, NEW w \in Workers, MarkFailed(w)
  PROVE  BackedInv'
<1> DEFINE m == proc[w].m
<1> DEFINE failed == Written(View(w, m), proc[w].snap)
<1> DEFINE retried == Written(failed, AutoRetry(m, failed, proc[w].time))
<1>1. /\ w \in Procs /\ m \in Missions /\ proc[w].time \in Nat /\ ProviderKeeps
      /\ proc[w].snap \in SafeRow /\ proc[w].pc = "marking" /\ UNCHANGED provider
  BY HeldSafe, NobodyAsked DEF Procs, MarkFailed, MissionPCs, PCs, ProcState
<1>2. CASE RollbackTx(w)
  BY <1>1, <1>2, EndBacked
<1>3. CASE /\ Flush(w, m, failed) \/ (Flush(w, m, retried) /\ failed.attempts # 0)
           /\ NextMission(w) /\ UNCHANGED db
  <2>1. failed \in SafeRow /\ Backed(failed, provider'[m])
    BY <1>1, HeldSafe, WrittenSafe, BackedWritten DEF BackedInv, CopyPCs
  <2> HIDE DEF failed
  <2>2. failed.attempts # 0 => Backed(retried, provider'[m])
    <3>1. ASSUME failed.attempts # 0
          PROVE  Backed(retried, provider'[m])
      <4>1. failed.attempts > 0
        BY <2>1, <3>1, BoundAssumption DEF SafeRow, Row
      <4>2. AutoRetry(m, failed, proc[w].time) \in SafeRow
        BY <1>1, <2>1, <4>1, AutoRetrySafe
      <4> QED
        BY <2>1, <4>2, BackedRetry, BackedWritten
    <3> QED
      BY <3>1
  <2>3. PICK row : Flush(w, m, row) /\ Backed(row, provider'[m])
    BY <1>3, <2>1, <2>2
  <2>4. PICK new : proc' = [proc EXCEPT ![w] = new] /\ new.pc = "batch"
    BY <1>3, NextMissionIs
  <2> QED
    BY <1>1, <1>3, <2>3, <2>4, WriteBacked DEF CopyPCs
<1> QED
  BY <1>2, <1>3 DEF MarkFailed

-----------------------------------------------------------------------------
(* The theorems                                                            *)

LEMMA InitBackedInv == Init => BackedInv
<1> SUFFICES ASSUME Init PROVE BackedInv
  OBVIOUS
<1>1. \A m \in Missions : Backed(db[m], provider[m])
  <2>1. \A sched, cap : /\ NewRow(sched, cap).status \in {"created", "waiting"}
                        /\ ~NewRow(sched, cap).resv
    BY DEF NewRow, BlankRow
  <2>2. \A m \in Missions : db[m].status \in {"created", "waiting"} /\ ~db[m].resv
    BY <2>1 DEF Init
  <2> QED
    BY <2>2 DEF Backed, ExpirableStatuses
<1>2. \A held : Backed(Free.row, held)
  BY DEF Free, BlankRow, Backed
<1>3. \A p \in Procs : proc[p].pc = "idle"
  BY IdleState DEF Init
<1> QED
  BY <1>1, <1>2, <1>3 DEF Init, BackedInv, CopyPCs

LEMMA NextBackedInv ==
  ASSUME RowInv, BackedInv, [Next]_vars
  PROVE  BackedInv'
<1>1. CASE Tick \/ UNCHANGED vars
  BY <1>1 DEF Tick, vars, BackedInv
<1>2. ASSUME NEW p \in Procs, Crash(p) \/ DeadlockVictim(p) \/ Commit(p) \/ EndCycle(p)
      PROVE  BackedInv'
  BY <1>2, NobodyAsked, EndBacked DEF Crash, DeadlockVictim, Commit, EndCycle
<1>3. ASSUME NEW s \in Sessions, Request(s) \/ SessionStep(s)
      PROVE  BackedInv'
  <2>1. s \in Procs
    BY DEF Procs
  <2> QED
    BY <1>2, <1>3, <2>1, RequestBacked, ProviderConfirmBacked, ProviderCancelBacked,
       UpdateBacked, RunStepBacked DEF SessionStep
<1>4. ASSUME NEW w \in Workers, Recover(w) \/ ProcessDue(w) \/ CycleStep(w)
      PROVE  BackedInv'
  <2>1. w \in Procs
    BY DEF Procs
  <2> QED
    BY <1>2, <1>4, <2>1, RecoverBacked, ExpireBacked, ClaimBacked, PickBacked, MarkBacked,
       MarkFailedBacked, RunStepBacked DEF CycleStep
<1> QED
  BY <1>1, <1>2, <1>3, <1>4 DEF Next

LEMMA BackedHolds == Spec => []BackedInv
<1>1. Init => RowInv /\ BackedInv
  BY InitRowInv, InitBackedInv
<1>2. RowInv /\ BackedInv /\ [Next]_vars => (RowInv /\ BackedInv)'
  BY NextRowInv, NextBackedInv
<1> QED
  BY <1>1, <1>2, PTL DEF Spec

\* However commands, cycles, crashes and recoveries interleave, no Mission is
\* committed as waiting for its user's confirmation unless it has a reservation
\* on record that its provider was asked for.
THEOREM ConfirmableHolds == Spec => []ConfirmableIsReserved
<1>1. BackedInv => ConfirmableIsReserved
  BY DEF BackedInv, Backed, ConfirmableIsReserved
<1> QED
  BY <1>1, BackedHolds, PTL

\* However many sessions confirm and cancel it at once, a Mission is committed
\* as cancelled with a reservation on record only after its provider cancelled
\* that reservation.
THEOREM ReleasedHolds == Spec => []CancelledIsReleased
<1>1. BackedInv => CancelledIsReleased
  BY DEF BackedInv, Backed, CancelledIsReleased
<1> QED
  BY <1>1, BackedHolds, PTL

\* In the mode that asks for confirmation no interleaving commits a Mission as
\* completed before its provider granted the confirmation.
THEOREM ConfirmedHolds == Spec => []CompletedIsConfirmed
<1>1. BackedInv => CompletedIsConfirmed
  BY DEF BackedInv, Backed, CompletedIsConfirmed
<1> QED
  BY <1>1, BackedHolds, PTL

\* Whatever a row says of its status, a reservation on record is one that the
\* provider made, and it still holds it or has cancelled it: no crash, refusal or
\* retry leaves a committed row with a reservation nobody made.
ReservationIsReal ==
  \A m \in Missions : db[m].resv => provider[m].res \in {"held", "cancelled"}

THEOREM ReservationsAreReal == Spec => []ReservationIsReal
<1>1. RowInv /\ BackedInv => ReservationIsReal
  BY DEF RowInv, ProviderState, BackedInv, Backed, ReservationIsReal
<1>2. Spec => []RowInv
  BY InitRowInv, NextRowInv, PTL DEF Spec
<1> QED
  BY <1>1, <1>2, BackedHolds, PTL

-----------------------------------------------------------------------------
(* Who cancels a reservation.  Only a request that cancels asks a provider *)
(* to, and a process is where it asks only after such a request.           *)

AskedFor == \A p \in Procs : proc[p].pc = "provider" => proc[p].cmd \in Commands

NothingCancelled == \A m \in Missions : provider[m].res # "cancelled"

\* a step of process p that does not take it to the provider
Leaves(p) == \E new : proc' = [proc EXCEPT ![p] = new] /\ new.pc # "provider"

LEMMA EndLeaves ==
  ASSUME NEW p \in Procs, CommitTx(p) \/ RollbackTx(p)
  PROVE  Leaves(p)
BY IdleState DEF CommitTx, RollbackTx, Leaves

LEMMA GotoLeaves ==
  ASSUME RowInv, NEW p \in Procs, NEW pc, pc # "provider", Goto(p, pc)
  PROVE  Leaves(p)
BY GotoIs DEF Leaves

LEMMA CopyLeaves ==
  ASSUME RowInv, NEW p \in Procs, NEW pc, pc # "provider", NEW snap,
         proc' = [proc EXCEPT ![p].pc = pc, ![p].snap = snap]
  PROVE  Leaves(p)
<1> DEFINE new == [proc[p] EXCEPT !.pc = pc, !.snap = snap]
<1>1. proc[p] \in ProcState
  BY HeldSafe
<1>2. new.pc = pc /\ proc' = [proc EXCEPT ![p] = new]
  BY <1>1 DEF ProcState, RowInv
<1> HIDE DEF new
<1> QED
  BY <1>2 DEF Leaves

LEMMA NextMissionLeaves ==
  ASSUME NEW w \in Workers, NextMission(w)
  PROVE  Leaves(w)
BY NextMissionIs DEF Leaves

LEMMA RaiseLeaves ==
  ASSUME RowInv, NEW p \in Procs, NEW retryable \in BOOLEAN, Raise(p, retryable)
  PROVE  Leaves(p)
<1>1. CASE RollbackTx(p)
  BY <1>1, EndLeaves
<1> DEFINE cmd == IF retryable THEN "retryable" ELSE "cycle"
<1>2. CASE proc' = [proc EXCEPT ![p].pc = "mark", ![p].cmd = cmd]
  <2> DEFINE new == [proc[p] EXCEPT !.pc = "mark", !.cmd = cmd]
  <2>1. proc[p] \in ProcState
    BY HeldSafe
  <2> HIDE DEF cmd
  <2>2. new.pc = "mark" /\ proc' = [proc EXCEPT ![p] = new]
    BY <1>2, <2>1 DEF ProcState, RowInv
  <2> HIDE DEF new
  <2> QED
    BY <2>2 DEF Leaves
<1> QED
  BY <1>1, <1>2 DEF Raise

LEMMA RunEndLeaves ==
  ASSUME RowInv, NEW p \in Procs, NEW snap,
         FinishRun(p, snap) \/ \E retryable \in BOOLEAN : FailRun(p, retryable, snap)
  PROVE  Leaves(p)
<1>1. CASE Goto(p, "commit")
  BY <1>1, GotoLeaves
<1>2. CASE p \in Workers /\ NextMission(p)
  BY <1>2, NextMissionLeaves
<1>3. CASE RollbackTx(p)
  BY <1>3, EndLeaves
<1>4. Goto(p, "commit") \/ (p \in Workers /\ NextMission(p)) \/ RollbackTx(p)
  <2>1. CASE FinishRun(p, snap)
    BY <2>1 DEF FinishRun, Procs
  <2>2. CASE \E retryable \in BOOLEAN : FailRun(p, retryable, snap)
    BY <2>2 DEF FailRun
  <2> QED
    BY <2>1, <2>2
<1> QED
  BY <1>1, <1>2, <1>3, <1>4

LEMMA RunStepLeaves ==
  ASSUME RowInv, NEW p \in Procs, RunStep(p)
  PROVE  Leaves(p)
<1>1. CASE Resolve(p) \/ ResolveRefused(p)
  <2>1. Goto(p, "search") \/ Goto(p, "mark") \/ Raise(p, FALSE) \/ RollbackTx(p)
    BY <1>1 DEF Resolve, ResolveRefused
  <2> QED
    BY <2>1, GotoLeaves, RaiseLeaves, EndLeaves
<1>2. CASE Search(p)
  BY <1>2, RunEndLeaves, RaiseLeaves DEF Search
<1>3. CASE Reserve(p)
  <2>1. \/ \E snap : FinishRun(p, snap) \/ \E retryable \in BOOLEAN : FailRun(p, retryable, snap)
        \/ \E snap : proc' = [proc EXCEPT ![p].pc = "autoconfirm", ![p].snap = snap]
    BY <1>3 DEF Reserve
  <2> QED
    BY <2>1, RunEndLeaves, CopyLeaves
<1>4. CASE AutoConfirm(p)
  BY <1>4, RunEndLeaves DEF AutoConfirm
<1> QED
  BY <1>1, <1>2, <1>3, <1>4 DEF RunStep

LEMMA SessionLeaves ==
  ASSUME RowInv, NEW s \in Sessions, SessionStep(s)
  PROVE  Leaves(s)
<1>1. s \in Procs
  BY DEF Procs
<1>2. CASE ProviderConfirm(s) \/ ProviderCancel(s)
  <2>1. \E snap : proc' = [proc EXCEPT ![s].pc = "update", ![s].snap = snap]
    BY <1>2 DEF ProviderConfirm, ProviderCancel
  <2> QED
    BY <1>1, <2>1, CopyLeaves
<1>3. CASE Update(s) \/ Commit(s)
  <2>1. Goto(s, "commit") \/ CommitTx(s) \/ RollbackTx(s)
    BY <1>3 DEF Update, Commit
  <2> QED
    BY <1>1, <2>1, GotoLeaves, EndLeaves
<1> QED
  BY <1>1, <1>2, <1>3, RunStepLeaves DEF SessionStep

LEMMA CycleLeaves ==
  ASSUME RowInv, NEW w \in Workers, Recover(w) \/ ProcessDue(w) \/ CycleStep(w)
  PROVE  Leaves(w)
<1>1. w \in Procs /\ proc[w] \in ProcState
  BY HeldSafe DEF Procs
<1>2. CASE Recover(w) \/ ProcessDue(w)
  <2> DEFINE new == [Idle EXCEPT !.pc = "expire", !.cmd = "cycle", !.time = now]
  <2>1. proc' = [proc EXCEPT ![w] = new] /\ new.pc = "expire"
    BY <1>2 DEF Recover, ProcessDue, Idle
  <2> HIDE DEF new
  <2> QED
    BY <2>1 DEF Leaves
<1>3. CASE Claim(w)
  <2>1. CASE RollbackTx(w)
    BY <1>1, <2>1, EndLeaves
  <2>2. CASE \E S : proc' = [proc EXCEPT ![w].pc = "batch", ![w].todo = S]
    <3>1. PICK S : proc' = [proc EXCEPT ![w].pc = "batch", ![w].todo = S]
      BY <2>2
    <3> DEFINE new == [proc[w] EXCEPT !.pc = "batch", !.todo = S]
    <3>2. new.pc = "batch" /\ proc' = [proc EXCEPT ![w] = new]
      BY <1>1, <3>1 DEF ProcState, RowInv
    <3> HIDE DEF new
    <3> QED
      BY <3>2 DEF Leaves
  <2> QED
    BY <1>3, <2>1, <2>2 DEF Claim
<1>4. CASE Pick(w)
  <2>1. PICK m \in proc[w].todo, pc \in {"resolve", "mark"} :
          proc' = [proc EXCEPT ![w] = [proc[w] EXCEPT !.pc = pc, !.m = m, !.snap = View(w, m)]]
    BY <1>4 DEF Pick
  <2> DEFINE new == [proc[w] EXCEPT !.pc = pc, !.m = m, !.snap = View(w, m)]
  <2>2. new.pc = pc /\ proc' = [proc EXCEPT ![w] = new]
    BY <1>1, <2>1 DEF ProcState
  <2> HIDE DEF new
  <2> QED
    BY <2>2 DEF Leaves
<1>5. CASE Expire(w) \/ Mark(w) \/ MarkFailed(w) \/ EndCycle(w)
  <2>1. \/ Goto(w, "claim") \/ CommitTx(w) \/ RollbackTx(w) \/ NextMission(w)
        \/ \E snap : proc' = [proc EXCEPT ![w].pc = "marking", ![w].snap = snap]
    BY <1>5 DEF Expire, Mark, MarkFailed, EndCycle
  <2> QED
    BY <1>1, <2>1, GotoLeaves, EndLeaves, NextMissionLeaves, CopyLeaves
<1> QED
  BY <1>1, <1>2, <1>3, <1>4, <1>5, RunStepLeaves DEF CycleStep

LEMMA NextAskedFor ==
  ASSUME RowInv, AskedFor, [Next]_vars
  PROVE  AskedFor'
<1>1. ASSUME NEW p \in Procs, Leaves(p) PROVE AskedFor'
  <2>1. PICK new : proc' = [proc EXCEPT ![p] = new] /\ new.pc # "provider"
    BY <1>1 DEF Leaves
  <2>2. \A q \in Procs : proc'[q] = IF q = p THEN new ELSE proc[q]
    BY <2>1 DEF RowInv
  <2> QED
    BY <2>1, <2>2 DEF AskedFor
<1>2. ASSUME NEW s \in Sessions, Request(s) PROVE AskedFor'
  <2>1. PICK cmd, m, pc, snap : Begin(s, cmd, m, pc, snap)
    <3>1. PICK m \in Missions :
            \/ Pause(s, m) \/ Resume(s, m) \/ Cancel(s, m) \/ Confirm(s, m) \/ Retry(s, m)
            \/ Schedule(s, m) \/ Patch(s, m) \/ SetProvider(s, m) \/ Run(s, m)
      BY <1>2 DEF Request
    <3> QED
      BY <3>1 DEF Pause, Resume, Cancel, Confirm, Retry, Schedule, Patch, SetProvider, Run
  <2> DEFINE new == [Idle EXCEPT !.pc = pc, !.cmd = cmd, !.m = m, !.snap = snap]
  <2>2. new.cmd = cmd
    BY DEF Idle
  <2>3. cmd \in Commands /\ proc' = [proc EXCEPT ![s] = new]
    BY <2>1 DEF Begin
  <2> HIDE DEF new
  <2>4. \A q \in Procs : proc'[q] = IF q = s THEN new ELSE proc[q]
    BY <2>3 DEF RowInv
  <2> QED
    BY <2>2, <2>3, <2>4 DEF AskedFor
<1>3. ASSUME NEW p \in Procs, Crash(p) \/ DeadlockVictim(p) PROVE AskedFor'
  BY <1>1, <1>3, EndLeaves DEF Crash, DeadlockVictim
<1>4. CASE Tick \/ UNCHANGED vars
  BY <1>4 DEF Tick, vars, AskedFor
<1>5. \A s \in Sessions : s \in Procs
  BY DEF Procs
<1>6. \A w \in Workers : w \in Procs
  BY DEF Procs
<1> QED
  BY <1>1, <1>2, <1>3, <1>4, <1>5, <1>6, SessionLeaves, CycleLeaves DEF Next

LEMMA NextNothingCancelled ==
  ASSUME RowInv, AskedFor, NothingCancelled, "cancel" \notin Commands, [Next]_vars
  PROVE  NothingCancelled'
<1>1. CASE UNCHANGED provider
  BY <1>1 DEF NothingCancelled
<1>2. ASSUME NEW m \in Missions, NEW later, later.res # "cancelled",
             provider' = [provider EXCEPT ![m] = later]
      PROVE  NothingCancelled'
  BY <1>2 DEF NothingCancelled, RowInv
<1>3. ASSUME NEW m \in Missions, NEW conf, provider' = [provider EXCEPT ![m].conf = conf]
      PROVE  NothingCancelled'
  <2> DEFINE later == [provider[m] EXCEPT !.conf = conf]
  <2>1. provider[m] \in ProviderState /\ provider[m].res # "cancelled"
    BY DEF RowInv, NothingCancelled
  <2>2. later.res # "cancelled" /\ provider' = [provider EXCEPT ![m] = later]
    BY <1>3, <2>1 DEF ProviderState
  <2> HIDE DEF later
  <2> QED
    BY <1>2, <2>2
<1>4. ASSUME NEW m \in Missions, NEW r \in ReserveReplies(m),
             provider' = [provider EXCEPT ![m].res = r.res]
      PROVE  NothingCancelled'
  <2> DEFINE later == [provider[m] EXCEPT !.res = r.res]
  <2>1. provider[m] \in ProviderState /\ provider[m].res # "cancelled"
    BY DEF RowInv, NothingCancelled
  <2>2. r.res # "cancelled"
    BY <2>1 DEF ReserveReplies
  <2>3. later.res # "cancelled" /\ provider' = [provider EXCEPT ![m] = later]
    BY <1>4, <2>1, <2>2 DEF ProviderState
  <2> HIDE DEF later
  <2> QED
    BY <1>2, <2>3
<1>5. ASSUME NEW p \in Procs, RunStep(p) PROVE NothingCancelled'
  <2>1. CASE Resolve(p) \/ ResolveRefused(p) \/ Search(p)
    BY <1>1, <2>1 DEF Resolve, ResolveRefused, Search
  <2>2. CASE Reserve(p)
    <3>1. proc[p].m \in Missions
      BY <2>2, HeldSafe DEF Reserve, MissionPCs, PCs
    <3>2. \E r \in ReserveReplies(proc[p].m) :
            provider' = [provider EXCEPT ![proc[p].m].res = r.res]
      BY <2>2 DEF Reserve
    <3> QED
      BY <1>4, <3>1, <3>2
  <2>3. CASE AutoConfirm(p)
    <3>1. proc[p].m \in Missions
      BY <2>3, HeldSafe DEF AutoConfirm, MissionPCs, PCs
    <3>2. \E conf : provider' = [provider EXCEPT ![proc[p].m].conf = conf]
      BY <2>3 DEF AutoConfirm
    <3> QED
      BY <1>3, <3>1, <3>2
  <2> QED
    BY <1>5, <2>1, <2>2, <2>3 DEF RunStep
<1>6. ASSUME NEW s \in Sessions, SessionStep(s) PROVE NothingCancelled'
  <2>1. s \in Procs
    BY DEF Procs
  <2>2. ~ProviderCancel(s)
    BY <2>1 DEF ProviderCancel, AskedFor
  <2>3. CASE ProviderConfirm(s)
    <3>1. proc[s].m \in Missions
      BY <2>1, <2>3, HeldSafe DEF ProviderConfirm, MissionPCs, PCs
    <3>2. \E conf : provider' = [provider EXCEPT ![proc[s].m].conf = conf]
      BY <2>3 DEF ProviderConfirm
    <3> QED
      BY <1>3, <3>1, <3>2
  <2>4. CASE Update(s) \/ Commit(s)
    BY <1>1, <2>4 DEF Update, Commit
  <2> QED
    BY <1>5, <1>6, <2>1, <2>2, <2>3, <2>4 DEF SessionStep
<1>7. ASSUME NEW s \in Sessions, Request(s) PROVE NothingCancelled'
  <2>1. PICK m \in Missions :
          \/ Pause(s, m) \/ Resume(s, m) \/ Cancel(s, m) \/ Confirm(s, m) \/ Retry(s, m)
          \/ Schedule(s, m) \/ Patch(s, m) \/ SetProvider(s, m) \/ Run(s, m)
    BY <1>7 DEF Request
  <2>2. UNCHANGED provider
    BY <2>1 DEF Pause, Resume, Cancel, Confirm, Retry, Schedule, Patch, SetProvider, Run, Begin
  <2> QED
    BY <1>1, <2>2
<1>8. ASSUME NEW w \in Workers, Recover(w) \/ ProcessDue(w) \/ CycleStep(w)
      PROVE  NothingCancelled'
  <2>1. w \in Procs
    BY DEF Procs
  <2>2. CASE Recover(w) \/ ProcessDue(w) \/ Expire(w) \/ Claim(w)
    BY <1>1, <2>2 DEF Recover, ProcessDue, Expire, Claim
  <2>3. CASE Pick(w) \/ Mark(w) \/ MarkFailed(w) \/ EndCycle(w)
    BY <1>1, <2>3 DEF Pick, Mark, MarkFailed, EndCycle
  <2> QED
    BY <1>5, <1>8, <2>1, <2>2, <2>3 DEF CycleStep
<1>9. CASE Tick \/ UNCHANGED vars \/ \E p \in Procs : Crash(p) \/ DeadlockVictim(p)
  BY <1>1, <1>9 DEF Tick, vars, Crash, DeadlockVictim
<1> QED
  BY <1>6, <1>7, <1>8, <1>9 DEF Next

\* Only a cancellation can lose what was sold: where no user cancels, however runs,
\* confirmations, retries, crashes and recoveries interleave, a Mission completed
\* with a reservation on record is held by its provider.
THEOREM HeldUnlessCancelled ==
  "cancel" \notin Commands => (Spec => []CompletedIsHeld)
<1> SUFFICES ASSUME "cancel" \notin Commands
             PROVE  Spec => []CompletedIsHeld
  OBVIOUS
<1>1. Init => RowInv /\ AskedFor /\ NothingCancelled
  <2>1. Init => AskedFor
    BY IdleState DEF Init, AskedFor
  <2>2. Init => NothingCancelled
    BY DEF Init, NothingCancelled
  <2> QED
    BY <2>1, <2>2, InitRowInv
<1>2. RowInv /\ AskedFor /\ NothingCancelled /\ [Next]_vars
        => (RowInv /\ AskedFor /\ NothingCancelled)'
  BY NextRowInv, NextAskedFor, NextNothingCancelled
<1>3. ReservationIsReal /\ NothingCancelled => CompletedIsHeld
  BY DEF ReservationIsReal, NothingCancelled, CompletedIsHeld
<1> QED
  BY <1>1, <1>2, <1>3, ReservationsAreReal, PTL DEF Spec
=============================================================================
