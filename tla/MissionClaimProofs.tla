-------------------------- MODULE MissionClaimProofs --------------------------
(* Theorems about MissionStore's claims: exclusive, on record, and in step *)
(* with the status table, for every value of the constants.                *)
EXTENDS MissionStoreProofs

-----------------------------------------------------------------------------
(* What the claims rest on.  A command that goes through a receipt keeps   *)
(* its Mission from being claimed while it runs; the commands without one  *)
(* overwrite a claim.  A cycle has to be done with a Mission of its batch  *)
(* before the claim goes stale, or somebody else takes it over: a worker   *)
(* that died has no batch, so its Missions may be recovered at any time.   *)

ReceiptsOnly == Commands \subseteq ReceiptCommands

Prompt == \A w \in Workers : \A m \in proc[w].todo : ~Stale(m)

-----------------------------------------------------------------------------
(* The inductive invariant.                                                *)

\* the attempts on record are those that were begun; one is open while claimed
Audited(row) ==
  /\ \A n \in 1..MaxAttempts : row.audit[n] = "none" <=> n > row.attempts
  /\ OpenAttempts(row) = IF row.status = "processing" THEN {row.attempts} ELSE {}

Steps(current, target) == target = current \/ target \in PersistedSteps(current)

\* what a transaction has written can be committed
Writable(m) ==
  tx[m].owner # NoProc => Audited(tx[m].row) /\ Steps(db[m].status, tx[m].row.status)

\* A session works on one Mission, which nobody claims meanwhile.  Its copy is
\* current, or it is too old to be written.
Commanding(s) ==
  LET x == proc[s]
      m == x.m IN
  /\ x.todo = {}
  /\ x.pc # "idle" =>
       /\ x.pc \in {"update", "provider", "resolve", "search", "autoconfirm", "commit"}
       /\ m \in Missions /\ x.cmd \in ReceiptCommands /\ db[m].status # "processing"
  /\ x.pc \in {"update", "provider", "resolve"} =>
       /\ tx[m].owner # s /\ x.snap.status # "processing" /\ x.snap.seq <= db[m].seq
       /\ x.snap.seq = db[m].seq =>
            /\ x.snap.attempts = db[m].attempts
            /\ IF x.pc = "update" THEN Steps(db[m].status, x.snap.status)
               ELSE x.snap.status = db[m].status
  /\ x.pc = "provider" => x.snap.status = "requires_confirmation"
  /\ x.pc = "resolve" => x.snap.status \in {"created", "waiting"}
  /\ x.pc \in {"search", "autoconfirm"} =>
       tx[m].row.status = db[m].status /\ db[m].status \in {"created", "waiting"}
  /\ x.pc = "autoconfirm" => x.snap.attempts = tx[m].row.attempts
  /\ \A k \in Missions : tx[k].owner = s =>
       x.pc \in {"search", "autoconfirm", "commit"} /\ k = m /\ tx[k].row.status # "processing"

\* the Missions a worker has claimed and not committed yet
Owns(w, m) == m \in proc[w].todo \/ tx[m].owner = w

\* A worker owns its Missions alone, and they stay processing in the table
\* until it commits; of those it has yet to finish it has written only the
\* one it is at.
Cycling(w) ==
  LET x == proc[w]
      m == x.m IN
  /\ \A k \in Missions : Owns(w, k) =>
       db[k].status = "processing" /\ \A v \in Workers \ {w} : ~Owns(v, k)
  /\ x.pc \in MissionPCs => m \in x.todo /\ View(w, m).status = "processing"
  /\ \A k \in x.todo : tx[k].owner = w => x.pc \in MissionPCs /\ k = m
  /\ x.pc = "resolve" => x.snap.status = "processing" /\ x.snap.attempts = View(w, m).attempts
  /\ x.pc = "autoconfirm" => x.snap.attempts = View(w, m).attempts
  /\ x.pc = "marking" => x.snap.status = "failed" /\ x.snap.attempts = View(w, m).attempts

WorkInv ==
  /\ \A m \in Missions : Audited(db[m]) /\ Writable(m)
  /\ \A s \in Sessions : Commanding(s)
  /\ \A w \in Workers : Cycling(w)

\* every committed change of status is a step of the table
Stepped == \A m \in Missions : Steps(db[m].status, db'[m].status)

-----------------------------------------------------------------------------
(* Rows and statuses                                                       *)

LEMMA RunOutcomesAre == RunOutcomes = {"requires_confirmation", "completed", "failed"}
<1>1. /\ AllowedTransitions["running"] = {"searching", "failed"}
      /\ AllowedTransitions["searching"] = {"option_found", "failed"}
      /\ AllowedTransitions["option_found"] = {"reserving", "completed", "failed"}
      /\ AllowedTransitions["reserving"] = {"requires_confirmation", "completed", "failed"}
  BY DEF AllowedTransitions, Statuses
<1> QED
  BY <1>1 DEF RunOutcomes, TransientStatuses

\* The steps of the table that commands and cycles take.
LEMMA StepFacts ==
  /\ \A s \in {"created", "waiting"} :
       {"paused", "cancelled", "expired", "requires_confirmation", "completed", "failed"}
         \subseteq PersistedSteps(s)
  /\ "waiting" \in PersistedSteps("created") /\ "created" \in PersistedSteps("waiting")
  /\ "processing" \in PersistedSteps("waiting")
  /\ {"created", "waiting", "cancelled", "expired"} \subseteq PersistedSteps("paused")
  /\ {"completed", "failed", "cancelled"} \subseteq PersistedSteps("requires_confirmation")
  /\ {"waiting", "requires_confirmation", "completed", "failed"}
       \subseteq PersistedSteps("processing")
  /\ "waiting" \in PersistedSteps("failed")
<1>1. /\ AllowedTransitions["created"] = {"waiting", "paused", "running", "cancelled", "expired"}
      /\ AllowedTransitions["waiting"] = {"created", "paused", "processing", "running",
                                          "cancelled", "expired"}
      /\ AllowedTransitions["paused"] = {"created", "waiting", "cancelled", "expired"}
      /\ AllowedTransitions["processing"] = {"requires_confirmation", "completed", "failed"}
      /\ AllowedTransitions["requires_confirmation"] = {"completed", "failed", "cancelled"}
  BY DEF AllowedTransitions, Statuses
<1>2. /\ CanTransition("processing", "waiting", TRUE, TRUE)
      /\ CanTransition("failed", "waiting", TRUE, TRUE)
  BY DEF CanTransition
<1> QED
  BY <1>1, <1>2, RunOutcomesAre DEF PersistedSteps, TransientStatuses

LEMMA TransitionIs ==
  ASSUME NEW r \in SafeRow, NEW s
  PROVE  /\ Transition(r, s).status = s /\ Transition(r, s).attempts = r.attempts
         /\ Transition(r, s).audit = r.audit
BY DEF Transition, SafeRow, Row

LEMMA AutoRetryIs ==
  ASSUME NEW m, NEW r \in SafeRow, NEW t
  PROVE  AutoRetry(m, r, t).status = "waiting" /\ AutoRetry(m, r, t).attempts = r.attempts
<1> DEFINE at == t + RetryDelay[r.attempts]
<1> DEFINE when == IF ExpiresAt[m] # NoTime /\ ExpiresAt[m] < at THEN ExpiresAt[m] ELSE at
<1>1. AutoRetry(m, r, t) = [Transition(r, "waiting") EXCEPT !.sched = when, !.resv = FALSE]
  BY DEF AutoRetry
<1> HIDE DEF when
<1> QED
  BY <1>1 DEF Transition, SafeRow, Row

\* Closing the open attempt leaves none open and none off the record.
LEMMA CloseAudited ==
  ASSUME NEW r \in SafeRow, NEW o \in {"requires_confirmation", "completed", "failed", "recovered"},
         \A n \in 1..MaxAttempts : r.audit[n] = "none" <=> n > r.attempts,
         r.status # "processing"
  PROVE  /\ Audited(CloseOpenAttempt(r, o))
         /\ CloseOpenAttempt(r, o).attempts = r.attempts
         /\ CloseOpenAttempt(r, o).status = r.status
<1> DEFINE c == CloseOpenAttempt(r, o)
<1>1. /\ c.audit = [n \in 1..MaxAttempts |-> IF r.audit[n] = "processing" THEN o ELSE r.audit[n]]
      /\ c.attempts = r.attempts /\ c.status = r.status
  BY DEF CloseOpenAttempt, SafeRow, Row
<1> HIDE DEF c
<1>2. Audited(c)
  BY <1>1 DEF Audited, OpenAttempts
<1> QED
  BY <1>1, <1>2 DEF c

\* update keeps the record straight when the copy it is given counts the same
\* attempts and leaves a claimed Mission claimed or closes the attempt.
LEMMA WrittenAudited ==
  ASSUME NEW r \in SafeRow, NEW s \in SafeRow, Audited(r), s.attempts = r.attempts,
         \/ s.status \in {"requires_confirmation", "completed", "failed"}
         \/ s.status = "processing" <=> r.status = "processing"
  PROVE  /\ Audited(Written(r, s))
         /\ Written(r, s).attempts = r.attempts /\ Written(r, s).status = s.status
<1> DEFINE w == [s EXCEPT !.seq = s.seq + 1, !.audit = r.audit]
<1>1. w \in SafeRow
  <2>1. r.audit \in [1..MaxAttempts -> AttemptStatuses] /\ s.seq + 1 \in Nat
    BY DEF SafeRow, Row
  <2>2. w \in Row
    BY <2>1 DEF SafeRow, Row
  <2>3. w.status = s.status /\ w.claimedAt = s.claimedAt
        /\ w.attempts = s.attempts /\ w.cap = s.cap
    BY DEF SafeRow, Row
  <2> QED
    BY <2>2, <2>3 DEF SafeRow
<1>2. w.status = s.status /\ w.attempts = r.attempts /\ w.audit = r.audit
  BY DEF SafeRow, Row
<1>3. Written(r, s) = SyncAttempt(w)
  BY DEF Written
<1> HIDE DEF w
<1>4. CASE w.status \in {"requires_confirmation", "completed", "failed"}
  <2>1. \A n \in 1..MaxAttempts : w.audit[n] = "none" <=> n > w.attempts
    BY <1>2 DEF Audited
  <2> QED
    BY <1>1, <1>2, <1>3, <1>4, <2>1, CloseAudited DEF SyncAttempt
<1>5. CASE w.status \notin {"requires_confirmation", "completed", "failed"}
  <2>1. Written(r, s) = w
    BY <1>3, <1>5 DEF SyncAttempt
  <2>2. OpenAttempts(w) = OpenAttempts(r)
    BY <1>2 DEF OpenAttempts
  <2>3. Audited(w)
    BY <1>2, <1>5, <2>2 DEF Audited
  <2> QED
    BY <1>2, <2>1, <2>3
<1> QED
  BY <1>4, <1>5

LEMMA RecoveredAudited ==
  ASSUME NEW r \in SafeRow, Audited(r), r.status = "processing"
  PROVE  /\ Audited(Recovered(r)) /\ Recovered(r).status \in {"failed", "waiting"}
<1> DEFINE target == IF Exhausted(r) THEN "failed" ELSE "waiting"
<1> DEFINE outcome == IF target = "failed" THEN "failed" ELSE "recovered"
<1> DEFINE moved == [Transition(r, target) EXCEPT !.seq = r.seq + 1]
<1>1. target \in {"failed", "waiting"} /\ outcome \in {"failed", "recovered"}
  OBVIOUS
<1>2. moved \in SafeRow
  <2>1. target \in PersistedStatuses /\ target # "processing"
    BY <1>1, StatusFacts
  <2> HIDE DEF target
  <2>2. Transition(r, target) \in SafeRow
    BY <2>1, TransitionSafe
  <2>3. r.seq + 1 \in Nat
    BY DEF SafeRow, Row
  <2> QED
    BY <2>2, <2>3 DEF SafeRow, Row
<1>3. moved.status = target /\ moved.attempts = r.attempts /\ moved.audit = r.audit
  BY DEF Transition, SafeRow, Row
<1>4. Recovered(r) = CloseOpenAttempt(moved, outcome)
  BY DEF Recovered
<1> HIDE DEF moved, outcome, target
<1> QED
  BY <1>1, <1>2, <1>3, <1>4, CloseAudited DEF Audited

\* A claim opens the next attempt.
LEMMA ClaimedAudited ==
  ASSUME NEW r \in SafeRow, NEW t, Audited(r), r.status = "waiting", ~Exhausted(r)
  PROVE  Audited(Claimed(r, t)) /\ Claimed(r, t).status = "processing"
<1>1. r.attempts + 1 \in 1..MaxAttempts /\ r.attempts \in Nat
  BY BoundAssumption DEF SafeRow, Row, Exhausted
<1>2. /\ Claimed(r, t).status = "processing" /\ Claimed(r, t).attempts = r.attempts + 1
      /\ Claimed(r, t).audit = [r.audit EXCEPT ![r.attempts + 1] = "processing"]
  BY DEF Claimed, SafeRow, Row
<1>3. \A n \in 1..MaxAttempts :
        Claimed(r, t).audit[n] = IF n = r.attempts + 1 THEN "processing" ELSE r.audit[n]
  BY <1>2 DEF SafeRow, Row
<1>4. \A n \in 1..MaxAttempts : Claimed(r, t).audit[n] = "none" <=> n > r.attempts + 1
  BY <1>1, <1>3 DEF Audited
<1>5. OpenAttempts(Claimed(r, t)) = {r.attempts + 1}
  <2>1. \A n \in 1..MaxAttempts : r.audit[n] # "processing"
    BY DEF Audited, OpenAttempts
  <2>2. \A n \in 1..MaxAttempts :
          Claimed(r, t).audit[n] = "processing" <=> n = r.attempts + 1
    BY <1>3, <2>1
  <2> QED
    BY <1>1, <2>2 DEF OpenAttempts
<1> QED
  BY <1>2, <1>4, <1>5 DEF Audited

-----------------------------------------------------------------------------
(* What a step of one process leaves of the others.                        *)

\* The session's Mission is not claimed, and its lock and copy are its own.
LEMMA OtherSession ==
  ASSUME RowInv, RowInv', LockInv, WorkInv, NewVersion, NEW s \in Sessions,
         proc'[s] = proc[s],
         \A m \in Missions : tx[m].owner = s \/ tx'[m].owner = s => tx'[m] = tx[m],
         \A m \in Missions : db'[m] # db[m] =>
           /\ tx[m].owner # s
           /\ db'[m].status # "processing" \/ db[m].status = "processing" \/ Lockable(m)
  PROVE  Commanding(s)'
<1> DEFINE m == proc[s].m
<1>1. Commanding(s) /\ s \in Procs
  BY DEF WorkInv, Procs
<1>2. proc[s].pc # "idle" => m \in Missions /\ proc[s].cmd \in ReceiptCommands
                             /\ db[m].status # "processing"
  BY <1>1 DEF Commanding
<1>3. proc[s].pc # "idle" => db'[m].status # "processing"
  BY <1>2 DEF Lockable
<1>4. proc[s].pc # "idle" => db'[m] = db[m] \/ db'[m].seq > db[m].seq
  BY <1>2, <1>3 DEF NewVersion
<1>5. proc[s].pc \in {"search", "autoconfirm"} => tx'[m] = tx[m] /\ db'[m] = db[m]
  BY <1>1, <1>2 DEF LockInv, Holds
<1>6. \A k \in Missions : tx'[k].owner = s => tx'[k] = tx[k]
  OBVIOUS
<1>7. proc[s].pc \in {"update", "provider", "resolve"} =>
        /\ tx'[m].owner # s /\ proc[s].snap.status # "processing"
        /\ proc[s].snap.seq <= db'[m].seq
        /\ proc[s].snap.seq = db'[m].seq => db'[m] = db[m]
  <2> SUFFICES ASSUME proc[s].pc \in {"update", "provider", "resolve"}
               PROVE  /\ tx'[m].owner # s /\ proc[s].snap.status # "processing"
                      /\ proc[s].snap.seq <= db'[m].seq
                      /\ proc[s].snap.seq = db'[m].seq => db'[m] = db[m]
    OBVIOUS
  <2>1. m \in Missions /\ tx[m].owner # s /\ proc[s].snap.seq <= db[m].seq
        /\ proc[s].snap.status # "processing"
    BY <1>1, <1>2 DEF Commanding
  <2>2. proc[s].snap.seq \in Nat /\ db[m].seq \in Nat
    BY <1>1, <2>1, HeldSafe, CommittedSafe, SeqFacts
  <2>3. db'[m] = db[m] \/ db'[m].seq > db[m].seq
    BY <1>4
  <2>4. CASE db'[m] = db[m]
    BY <1>6, <2>1, <2>4
  <2>5. CASE db'[m].seq > db[m].seq
    <3>1. db'[m].seq \in Nat
      BY <2>1 DEF RowInv, SafeRow, Row
    <3> QED
      BY <1>6, <2>1, <2>2, <2>5, <3>1
  <2> QED
    BY <2>3, <2>4, <2>5
<1> QED
  BY <1>1, <1>2, <1>3, <1>5, <1>6, <1>7 DEF Commanding

\* A worker's claims are untouched while no process changes its Missions and
\* none takes over what it owns.
LEMMA OtherWorker ==
  ASSUME RowInv, WorkInv, NEW w \in Workers, proc'[w] = proc[w],
         \A m \in Missions : tx[m].owner = w \/ tx'[m].owner = w => tx'[m] = tx[m],
         \A m \in Missions : Owns(w, m) => db'[m] = db[m],
         \A v \in Workers \ {w}, m \in Missions :
           Owns(v, m)' => Owns(v, m) \/ db[m].status # "processing"
  PROVE  Cycling(w)'
<1> DEFINE m == proc[w].m
<1>1. Cycling(w) /\ w \in Procs /\ proc[w].todo \subseteq Missions
  BY HeldSafe DEF WorkInv, Procs, ProcState
<1>2. \A k \in Missions : Owns(w, k)' <=> Owns(w, k)
  BY DEF Owns
<1>3. \A k \in Missions : Owns(w, k)' =>
        db'[k].status = "processing" /\ \A v \in Workers \ {w} : ~Owns(v, k)'
  BY <1>1, <1>2 DEF Cycling
<1>4. \A k \in Missions : Owns(w, k) => View(w, k)' = View(w, k)
  BY DEF View
<1>5. proc[w].pc \in MissionPCs => m \in Missions /\ Owns(w, m)
  BY <1>1 DEF Cycling, Owns
<1>6. {"resolve", "autoconfirm", "marking"} \subseteq MissionPCs
  BY DEF MissionPCs, PCs
<1>7. proc[w].pc \in MissionPCs => View(w, m)' = View(w, m)
  BY <1>4, <1>5
<1>8. \A k \in proc[w].todo : tx'[k].owner = w => tx[k].owner = w
  BY <1>1
<1> QED
  BY <1>1, <1>3, <1>6, <1>7, <1>8 DEF Cycling

\* A step of process p: what it takes, writes and commits is nobody else's.
LEMMA StepWork ==
  ASSUME RowInv, RowInv', LockInv, WorkInv, NewVersion, NEW p \in Procs, NEW new,
         proc' = [proc EXCEPT ![p] = new],
         \A m \in Missions : tx'[m] = tx[m] \/
           /\ CanLock(p, m) /\ tx'[m].owner \in {p, NoProc}
           /\ tx'[m].owner = p =>
                Audited(tx'[m].row) /\ Steps(db[m].status, tx'[m].row.status),
         \A m \in Missions : db'[m] # db[m] =>
           /\ Audited(db'[m]) /\ tx'[m].owner = NoProc
           /\ tx[m].owner = p \/ Lockable(m)
           /\ db'[m].status # "processing" \/ db[m].status = "processing" \/ Lockable(m)
           /\ \A w \in Workers \ {p} : ~Owns(w, m),
         p \in Workers => \A m \in Missions :
           m \in new.todo \/ tx'[m].owner = p => Owns(p, m) \/ db[m].status # "processing",
         p \in Sessions => Commanding(p)',
         p \in Workers => Cycling(p)'
  PROVE  WorkInv'
<1>1. \A q \in Procs : proc'[q] = IF q = p THEN new ELSE proc[q]
  BY DEF RowInv
<1>2. \A q \in Procs : q # NoProc
  BY ProcessAssumption DEF Procs
<1>3. \A q \in Procs \ {p}, m \in Missions :
        tx[m].owner = q \/ tx'[m].owner = q => tx'[m] = tx[m]
  BY <1>2 DEF CanLock
<1>4. ASSUME NEW m \in Missions
      PROVE  Audited(db'[m]) /\ Writable(m)'
  <2>1. Audited(db[m]) /\ Writable(m)
    BY DEF WorkInv
  <2>2. CASE db'[m] = db[m]
    BY <2>1, <2>2 DEF Writable
  <2>3. CASE db'[m] # db[m]
    BY <2>3 DEF Writable
  <2> QED
    BY <2>2, <2>3
<1>5. ASSUME NEW s \in Sessions
      PROVE  Commanding(s)'
  <2>1. CASE s = p
    BY <2>1
  <2>2. CASE s # p
    <3>1. s \in Procs
      BY DEF Procs
    <3>2. \A m \in Missions : db'[m] # db[m] =>
            /\ tx[m].owner # s
            /\ db'[m].status # "processing" \/ db[m].status = "processing" \/ Lockable(m)
      BY <1>2, <2>2, <3>1 DEF Lockable
    <3>3. proc'[s] = proc[s]
      BY <1>1, <2>2, <3>1
    <3>4. \A m \in Missions : tx[m].owner = s \/ tx'[m].owner = s => tx'[m] = tx[m]
      BY <1>3, <2>2, <3>1
    <3> QED
      BY <3>2, <3>3, <3>4, OtherSession
  <2> QED
    BY <2>1, <2>2
<1>6. ASSUME NEW w \in Workers
      PROVE  Cycling(w)'
  <2>1. CASE w = p
    BY <2>1
  <2>2. CASE w # p
    <3>1. w \in Procs /\ proc'[w] = proc[w]
      BY <1>1, <2>2 DEF Procs
    <3>2. \A m \in Missions : tx[m].owner = w \/ tx'[m].owner = w => tx'[m] = tx[m]
      BY <1>3, <2>2, <3>1
    <3>3. \A m \in Missions : Owns(w, m) => db'[m] = db[m]
      BY <2>2
    <3>4. ASSUME NEW v \in Workers \ {w}, NEW m \in Missions, Owns(v, m)'
          PROVE  Owns(v, m) \/ db[m].status # "processing"
      <4>1. v \in Procs
        BY DEF Procs
      <4>2. CASE v = p
        BY <1>1, <3>4, <4>2 DEF Owns
      <4>3. CASE v # p
        BY <1>1, <1>3, <3>4, <4>1, <4>3 DEF Owns
      <4> QED
        BY <4>2, <4>3
    <3> QED
      BY <3>1, <3>2, <3>3, <3>4, OtherWorker
  <2> QED
    BY <2>1, <2>2
<1> QED
  BY <1>4, <1>5, <1>6 DEF WorkInv

\* A step that leaves the rows alone and claims nothing.
LEMMA MoveWork ==
  ASSUME RowInv, RowInv', LockInv, WorkInv, NewVersion, NEW p \in Procs, NEW new,
         proc' = [proc EXCEPT ![p] = new], UNCHANGED <<db, tx>>,
         new.todo \subseteq proc[p].todo,
         p \in Sessions => Commanding(p)',
         p \in Workers => Cycling(p)'
  PROVE  WorkInv'
<1>1. p \in Workers => \A m \in Missions :
        m \in new.todo \/ tx'[m].owner = p => Owns(p, m) \/ db[m].status # "processing"
  BY DEF Owns
<1> QED
  BY <1>1, StepWork

\* A write under the lock.
LEMMA WriteWork ==
  ASSUME RowInv, RowInv', LockInv, WorkInv, NewVersion, NEW p \in Procs, NEW new,
         proc' = [proc EXCEPT ![p] = new], UNCHANGED db,
         new.todo \subseteq proc[p].todo,
         NEW m \in Missions, NEW row, CanLock(p, m), Flush(p, m, row),
         Audited(row), Steps(db[m].status, row.status),
         p \in Workers => m \in proc[p].todo,
         p \in Sessions => Commanding(p)',
         p \in Workers => Cycling(p)'
  PROVE  WorkInv'
<1>1. \A n \in Missions : tx'[n] = IF n = m THEN [owner |-> p, row |-> row] ELSE tx[n]
  BY DEF Flush, RowInv
<1>2. p \in Workers => \A n \in Missions :
        n \in new.todo \/ tx'[n].owner = p => Owns(p, n) \/ db[n].status # "processing"
  BY <1>1 DEF Owns
<1>3. \A n \in Missions : tx'[n] = tx[n] \/
        /\ CanLock(p, n) /\ tx'[n].owner \in {p, NoProc}
        /\ tx'[n].owner = p =>
             Audited(tx'[n].row) /\ Steps(db[n].status, tx'[n].row.status)
  BY <1>1
<1> QED
  BY <1>2, <1>3, StepWork

\* A process without a transaction owns nothing.
LEMMA IdleWork ==
  ASSUME RowInv, NEW p \in Procs, proc' = [proc EXCEPT ![p] = Idle],
         \A m \in Missions : tx'[m].owner # p
  PROVE  Commanding(p)' /\ Cycling(p)'
<1>1. proc'[p] = Idle
  BY DEF RowInv
<1>2. Idle.pc = "idle" /\ Idle.todo = {}
  BY DEF Idle
<1> QED
  BY <1>1, <1>2 DEF Commanding, Cycling, Owns, MissionPCs

\* What a transaction has written is its own to commit.
LEMMA OwnedAlone ==
  ASSUME RowInv, WorkInv, NEW p \in Procs, NEW m \in Missions, tx[m].owner = p
  PROVE  /\ \A w \in Workers \ {p} : ~Owns(w, m)
         /\ tx[m].row.status # "processing" \/ db[m].status = "processing"
<1>1. CASE p \in Workers
  BY <1>1 DEF WorkInv, Cycling, Owns
<1>2. CASE p \in Sessions
  <2>1. /\ db[m].status # "processing" /\ tx[m].row.status # "processing"
    BY <1>2 DEF WorkInv, Commanding
  <2> QED
    BY <2>1 DEF WorkInv, Cycling
<1> QED
  BY <1>1, <1>2 DEF Procs

\* The end of a transaction, whether it commits or rolls back.
LEMMA EndWork ==
  ASSUME RowInv, RowInv', LockInv, WorkInv, NewVersion, NEW p \in Procs,
         CommitTx(p) \/ RollbackTx(p)
  PROVE  WorkInv' /\ Stepped
<1>1. proc' = [proc EXCEPT ![p] = Idle] /\ Idle.todo = {}
  BY DEF CommitTx, RollbackTx, Idle
<1>2. \A m \in Missions : tx'[m] = IF tx[m].owner = p THEN Free ELSE tx[m]
  BY DEF CommitTx, RollbackTx, Release
<1>3. Free.owner = NoProc /\ p # NoProc
  BY ProcessAssumption DEF Free, Procs
<1>4. \A m \in Missions : db'[m] # db[m] => tx[m].owner = p /\ db'[m] = tx[m].row
  BY DEF CommitTx, RollbackTx, RowInv
<1>5. \A m \in Missions : db'[m] # db[m] =>
        /\ Audited(db'[m]) /\ Steps(db[m].status, db'[m].status)
        /\ tx'[m].owner = NoProc
        /\ db'[m].status # "processing" \/ db[m].status = "processing"
        /\ \A w \in Workers \ {p} : ~Owns(w, m)
  BY <1>2, <1>3, <1>4, OwnedAlone DEF WorkInv, Writable
<1>6. \A m \in Missions : tx'[m].owner # p
  BY <1>2, <1>3
<1>7. Commanding(p)' /\ Cycling(p)'
  BY <1>1, <1>6, IdleWork
<1>8. \A m \in Missions : tx'[m] = tx[m] \/ (CanLock(p, m) /\ tx'[m].owner = NoProc)
  BY <1>2, <1>3 DEF CanLock
<1>9. WorkInv'
  BY <1>1, <1>3, <1>4, <1>5, <1>6, <1>7, <1>8, StepWork
<1>10. Stepped
  BY <1>5 DEF Stepped, Steps
<1> QED
  BY <1>9, <1>10

\* A batch statement of a worker, at the beginning of whose step it owns nothing.
LEMMA BatchWork ==
  ASSUME RowInv, RowInv', LockInv, WorkInv, NewVersion, NEW w \in Workers, NEW new,
         proc' = [proc EXCEPT ![w] = new], UNCHANGED tx,
         \A m \in Missions : db'[m] # db[m] =>
           /\ Audited(db'[m]) /\ Lockable(m)
           /\ \A v \in Workers : ~Owns(v, m),
         \A m \in new.todo \cap Missions : m \in proc[w].todo \/ db[m].status # "processing",
         Cycling(w)'
  PROVE  WorkInv'
<1>1. w \in Procs /\ w \notin Sessions
  BY ProcessAssumption DEF Procs
<1>2. \A m \in Missions :
        m \in new.todo \/ tx'[m].owner = w => Owns(w, m) \/ db[m].status # "processing"
  BY DEF Owns
<1>3. \A m \in Missions : Lockable(m) => tx'[m].owner = NoProc
  BY DEF Lockable
<1> QED
  BY <1>1, <1>2, <1>3, StepWork

-----------------------------------------------------------------------------
(* One lemma per action of an API session.                                 *)

\* A command starts with a current copy, or with the row it plans from it.
LEMMA BeginWork ==
  ASSUME RowInv, RowInv', LockInv, WorkInv, NewVersion, ReceiptsOnly,
         NEW s \in Sessions, NEW m \in Missions, NEW cmd, NEW pc, NEW snap,
         Begin(s, cmd, m, pc, snap),
         db[m].status # "processing", snap.status # "processing",
         snap.seq = db[m].seq, snap.attempts = db[m].attempts,
         \/ pc = "update" /\ Steps(db[m].status, snap.status)
         \/ pc = "provider" /\ snap.status = db[m].status
              /\ snap.status = "requires_confirmation"
         \/ pc = "resolve" /\ snap.status = db[m].status /\ snap.status \in {"created", "waiting"}
  PROVE  WorkInv'
<1> DEFINE new == [Idle EXCEPT !.pc = pc, !.cmd = cmd, !.m = m, !.snap = snap]
<1>1. /\ new.pc = pc /\ new.cmd = cmd /\ new.m = m /\ new.snap = snap /\ new.todo = {}
  BY DEF Idle
<1>2. proc' = [proc EXCEPT ![s] = new] /\ UNCHANGED <<db, tx>> /\ cmd \in ReceiptCommands
  BY DEF Begin, ReceiptsOnly
<1> HIDE DEF new
<1>3. s \in Procs /\ s \notin Workers /\ proc'[s] = new
  BY <1>2, ProcessAssumption DEF Procs, RowInv
<1>4. \A k \in Missions : tx[k].owner # s
  BY DEF Begin, WorkInv, Commanding
<1>5. db[m].seq \in Nat
  BY CommittedSafe, SeqFacts
<1>6. Commanding(s)'
  BY <1>1, <1>2, <1>3, <1>4, <1>5 DEF Commanding
<1> QED
  BY <1>1, <1>2, <1>3, <1>6, MoveWork

\* What a command may plan: a step of the table that keeps the attempts.
LEMMA PlanWork ==
  ASSUME RowInv, RowInv', LockInv, WorkInv, NewVersion, ReceiptsOnly,
         NEW s \in Sessions, NEW m \in Missions, NEW cmd, NEW snap,
         Begin(s, cmd, m, "update", snap),
         db[m].status # "processing", snap.status # "processing",
         snap.seq = db[m].seq, snap.attempts = db[m].attempts,
         snap.status \in PersistedSteps(db[m].status)
  PROVE  WorkInv'
BY BeginWork DEF Steps

LEMMA PlanIs ==
  ASSUME RowInv, NEW m \in Missions, NEW t \in PersistedStatuses
  PROVE  /\ Transition(db[m], t).status = t /\ Transition(db[m], t).seq = db[m].seq
         /\ Transition(db[m], t).attempts = db[m].attempts
BY CommittedSafe, TransitionIs, SeqFacts

LEMMA PauseWork ==
  ASSUME RowInv, RowInv', LockInv, WorkInv, NewVersion, ReceiptsOnly,
         NEW s \in Sessions, NEW m \in Missions, Pause(s, m) \/ Resume(s, m)
  PROVE  WorkInv'
<1>1. PICK t \in {"paused", "created", "waiting"}, cmd \in {"pause", "resume"} :
        /\ Begin(s, cmd, m, "update", Transition(db[m], t))
        /\ IF t = "paused" THEN db[m].status \in {"created", "waiting"}
           ELSE db[m].status = "paused"
  BY DEF Pause, Resume
<1>2. t \in PersistedStatuses /\ t \in PersistedSteps(db[m].status)
  BY <1>1, StepFacts, StatusFacts
<1> QED
  BY <1>1, <1>2, PlanIs, PlanWork

LEMMA CancelWork ==
  ASSUME RowInv, RowInv', LockInv, WorkInv, NewVersion, ReceiptsOnly,
         NEW s \in Sessions, NEW m \in Missions, Cancel(s, m)
  PROVE  WorkInv'
<1>1. CASE /\ db[m].status \in ExpirableStatuses
           /\ Begin(s, "cancel", m, "update", Transition(db[m], "cancelled"))
  <2>1. "cancelled" \in PersistedStatuses /\ "cancelled" \in PersistedSteps(db[m].status)
    BY <1>1, StepFacts, StatusFacts DEF ExpirableStatuses
  <2>2. db[m].status # "processing"
    BY <1>1 DEF ExpirableStatuses
  <2> QED
    BY <1>1, <2>1, <2>2, PlanIs, PlanWork
<1>2. CASE db[m].status = "requires_confirmation" /\ Begin(s, "cancel", m, "provider", db[m])
  BY <1>2, BeginWork
<1> QED
  BY <1>1, <1>2 DEF Cancel

LEMMA CallWork ==
  ASSUME RowInv, RowInv', LockInv, WorkInv, NewVersion, ReceiptsOnly,
         NEW s \in Sessions, NEW m \in Missions, Confirm(s, m) \/ Run(s, m)
  PROVE  WorkInv'
<1>1. CASE Confirm(s, m)
  BY <1>1, BeginWork DEF Confirm
<1>2. CASE Run(s, m)
  BY <1>2, BeginWork DEF Run
<1> QED
  BY <1>1, <1>2

LEMMA RetryWork ==
  ASSUME RowInv, RowInv', LockInv, WorkInv, NewVersion, ReceiptsOnly,
         NEW s \in Sessions, NEW m \in Missions, Retry(s, m)
  PROVE  WorkInv'
<1>1. PICK at \in now..MaxTime :
        Begin(s, "retry", m, "update",
              [Transition(db[m], "waiting") EXCEPT !.sched = at, !.resv = FALSE])
  BY DEF Retry
<1> DEFINE snap == [Transition(db[m], "waiting") EXCEPT !.sched = at, !.resv = FALSE]
<1>2. snap.status = "waiting" /\ snap.seq = db[m].seq /\ snap.attempts = db[m].attempts
  BY CommittedSafe DEF Transition, SafeRow, Row
<1>3. Begin(s, "retry", m, "update", snap) /\ db[m].status = "failed"
  BY <1>1 DEF Retry
<1>4. "waiting" \in PersistedSteps(db[m].status)
  BY <1>3, StepFacts
<1> HIDE DEF snap
<1> QED
  BY <1>2, <1>3, <1>4, PlanWork

\* Scheduling, PATCH and the choice of a provider take no receipt.
LEMMA NoOtherCommand ==
  ASSUME ReceiptsOnly, NEW s, NEW m
  PROVE  ~Schedule(s, m) /\ ~Patch(s, m) /\ ~SetProvider(s, m)
<1>1. "schedule" \notin Commands /\ "patch" \notin Commands /\ "provider" \notin Commands
  BY DEF ReceiptsOnly, ReceiptCommands
<1> QED
  BY <1>1 DEF Schedule, Patch, SetProvider, Begin

LEMMA RequestWork ==
  ASSUME RowInv, RowInv', LockInv, WorkInv, NewVersion, ReceiptsOnly,
         NEW s \in Sessions, Request(s)
  PROVE  WorkInv'
BY PauseWork, CancelWork, CallWork, RetryWork, NoOtherCommand DEF Request

\* The provider's answer turns a copy into the row to write.
LEMMA ProviderWork ==
  ASSUME RowInv, RowInv', LockInv, WorkInv, NewVersion,
         NEW s \in Sessions, ProviderConfirm(s) \/ ProviderCancel(s)
  PROVE  WorkInv'
<1> DEFINE m == proc[s].m
<1>1. s \in Procs /\ s \notin Workers /\ proc[s] \in ProcState /\ proc[s].pc = "provider"
  BY ProcessAssumption, HeldSafe DEF Procs, ProviderConfirm, ProviderCancel
<1>2. Commanding(s) /\ m \in Missions /\ proc[s].snap \in SafeRow
  BY <1>1, HeldSafe DEF WorkInv, MissionPCs, PCs
<1>3. PICK t \in {"completed", "failed", "cancelled"} :
        proc' = [proc EXCEPT ![s].pc = "update", ![s].snap = Transition(proc[s].snap, t)]
  BY DEF ProviderConfirm, ProviderCancel
<1> DEFINE snap == Transition(proc[s].snap, t)
<1>4. /\ snap.status = t /\ snap.attempts = proc[s].snap.attempts
      /\ snap.seq = proc[s].snap.seq
  BY <1>2, <1>3, TransitionIs, SeqFacts, StatusFacts
<1>5. proc[s].snap.status = "requires_confirmation"
      /\ t \in PersistedSteps("requires_confirmation")
  BY <1>1, <1>2, <1>3, StepFacts DEF Commanding
<1> HIDE DEF snap
<1> DEFINE new == [proc[s] EXCEPT !.pc = "update", !.snap = snap]
<1>6. /\ new.pc = "update" /\ new.m = m /\ new.snap = snap /\ new.cmd = proc[s].cmd
      /\ new.todo = proc[s].todo
  BY <1>1 DEF ProcState
<1>7. proc' = [proc EXCEPT ![s] = new]
  BY <1>1, <1>3 DEF RowInv, snap
<1>8. UNCHANGED <<db, tx>>
  BY DEF ProviderConfirm, ProviderCancel
<1> HIDE DEF new
<1>9. proc'[s] = new
  BY <1>1, <1>7 DEF RowInv
<1>10. /\ proc[s].todo = {} /\ proc[s].cmd \in ReceiptCommands /\ db[m].status # "processing"
       /\ tx[m].owner # s /\ proc[s].snap.seq <= db[m].seq
       /\ proc[s].snap.seq = db[m].seq =>
            proc[s].snap.attempts = db[m].attempts /\ proc[s].snap.status = db[m].status
       /\ \A k \in Missions : tx[k].owner # s
  BY <1>1, <1>2 DEF Commanding
<1>11. Commanding(s)'
  <2>1. snap.status # "processing" /\ snap.seq <= db[m].seq
    BY <1>3, <1>4, <1>10
  <2>2. ASSUME snap.seq = db[m].seq
        PROVE  snap.attempts = db[m].attempts /\ Steps(db[m].status, snap.status)
    BY <1>4, <1>5, <1>10, <2>2 DEF Steps
  <2>3. /\ proc'[s].pc = "update" /\ proc'[s].m = m /\ proc'[s].snap = snap
        /\ proc'[s].todo = {} /\ proc'[s].cmd \in ReceiptCommands
    BY <1>6, <1>9, <1>10
  <2>4. db' = db /\ tx' = tx
    BY <1>8
  <2> HIDE DEF m
  <2> QED
    BY <1>2, <1>10, <2>1, <2>2, <2>3, <2>4 DEF Commanding
<1> QED
  BY <1>1, <1>6, <1>7, <1>8, <1>11, MoveWork

LEMMA GotoFields ==
  ASSUME RowInv, NEW p \in Procs, NEW pc, Goto(p, pc)
  PROVE  \E new : /\ proc' = [proc EXCEPT ![p] = new] /\ proc'[p] = new
                  /\ new.pc = pc /\ new.m = proc[p].m /\ new.cmd = proc[p].cmd
                  /\ new.snap = proc[p].snap /\ new.todo = proc[p].todo
<1> DEFINE new == [proc[p] EXCEPT !.pc = pc]
<1>1. proc[p] \in ProcState
  BY HeldSafe
<1>2. /\ new.pc = pc /\ new.m = proc[p].m /\ new.cmd = proc[p].cmd
      /\ new.snap = proc[p].snap /\ new.todo = proc[p].todo
      /\ proc' = [proc EXCEPT ![p] = new]
  BY <1>1 DEF ProcState, Goto, RowInv
<1> HIDE DEF new
<1>3. proc'[p] = new
  BY <1>2 DEF RowInv
<1> QED
  BY <1>2, <1>3

\* A session that has written goes on to its commit.
LEMMA SessionWrote ==
  ASSUME RowInv, RowInv', LockInv, WorkInv, NewVersion, NEW s \in Sessions,
         NEW row, proc[s].pc # "idle", CanLock(s, proc[s].m), Flush(s, proc[s].m, row),
         Goto(s, "commit"), UNCHANGED db,
         Audited(row), Steps(db[proc[s].m].status, row.status), row.status # "processing"
  PROVE  WorkInv'
<1> DEFINE m == proc[s].m
<1>1. s \in Procs /\ s \notin Workers /\ Commanding(s)
  BY ProcessAssumption DEF Procs, WorkInv
<1>2. m \in Missions /\ proc[s].todo = {} /\ proc[s].cmd \in ReceiptCommands
      /\ db[m].status # "processing"
  BY <1>1 DEF Commanding
<1>3. PICK new : /\ proc' = [proc EXCEPT ![s] = new] /\ proc'[s] = new
                 /\ new.pc = "commit" /\ new.m = m /\ new.cmd = proc[s].cmd
                 /\ new.todo = {}
  BY <1>1, <1>2, GotoFields
<1>4. \A n \in Missions : tx'[n] = IF n = m THEN [owner |-> s, row |-> row] ELSE tx[n]
  BY DEF Flush, RowInv
<1>5. \A k \in Missions : tx'[k].owner = s => k = m /\ tx'[k].row.status # "processing"
  BY <1>1, <1>4 DEF Commanding
<1>6. Commanding(s)'
  BY <1>1, <1>2, <1>3, <1>5 DEF Commanding
<1> QED
  BY <1>1, <1>2, <1>3, <1>6, WriteWork

LEMMA UpdateWork ==
  ASSUME RowInv, RowInv', LockInv, WorkInv, NewVersion, NEW s \in Sessions, Update(s)
  PROVE  WorkInv' /\ Stepped
<1> DEFINE m == proc[s].m
<1> DEFINE row == Written(db[m], proc[s].snap)
<1>1. s \in Procs /\ m \in Missions /\ CanLock(s, m) /\ proc[s].pc = "update"
  BY HeldSafe DEF Procs, Update, MissionPCs, PCs
<1>2. CASE db[m].seq = proc[s].snap.seq /\ Flush(s, m, row) /\ Goto(s, "commit")
           /\ UNCHANGED db
  <2>1. /\ proc[s].snap.attempts = db[m].attempts /\ proc[s].snap.status # "processing"
        /\ Steps(db[m].status, proc[s].snap.status) /\ db[m].status # "processing"
    BY <1>1, <1>2 DEF WorkInv, Commanding
  <2>2. db[m] \in SafeRow /\ proc[s].snap \in SafeRow /\ Audited(db[m])
    BY <1>1, HeldSafe, CommittedSafe DEF WorkInv
  <2>3. Audited(row) /\ row.status = proc[s].snap.status
    BY <2>1, <2>2, WrittenAudited
  <2> HIDE DEF row
  <2>4. WorkInv'
    BY <1>1, <1>2, <2>1, <2>3, SessionWrote
  <2> QED
    BY <1>2, <2>4 DEF Stepped, Steps
<1>3. CASE RollbackTx(s)
  BY <1>1, <1>3, EndWork
<1> QED
  BY <1>2, <1>3 DEF Update

-----------------------------------------------------------------------------
(* The steps of a run, whoever executes it.                                *)

\* A worker at one of its Missions: claimed, owned, still processing.
LEMMA AtMission ==
  ASSUME RowInv, WorkInv, NEW w \in Workers, proc[w].pc \in MissionPCs
  PROVE  /\ w \in Procs /\ w \notin Sessions /\ Cycling(w)
         /\ proc[w].m \in Missions /\ proc[w].m \in proc[w].todo
         /\ View(w, proc[w].m).status = "processing" /\ db[proc[w].m].status = "processing"
         /\ Audited(View(w, proc[w].m))
<1>1. w \in Procs /\ w \notin Sessions /\ Cycling(w) /\ w # NoProc
  BY ProcessAssumption DEF Procs, WorkInv
<1>2. proc[w].m \in Missions /\ proc[w].m \in proc[w].todo
  BY <1>1, HeldSafe DEF Cycling
<1>3. Owns(w, proc[w].m)
  BY <1>2 DEF Owns
<1>4. Audited(View(w, proc[w].m))
  BY <1>1, <1>2 DEF View, WorkInv, Writable
<1> QED
  BY <1>1, <1>2, <1>3, <1>4 DEF Cycling

\* A worker moves to another position at the same Mission.
LEMMA WorkerMoves ==
  ASSUME RowInv, RowInv', LockInv, WorkInv, NewVersion, NEW w \in Workers, NEW new,
         proc[w].pc \in MissionPCs, proc' = [proc EXCEPT ![w] = new], UNCHANGED <<db, tx>>,
         new.pc \in {"mark", "marking", "autoconfirm"}, new.m = proc[w].m,
         new.todo = proc[w].todo,
         new.pc # "mark" => new.snap.attempts = View(w, proc[w].m).attempts,
         new.pc = "marking" => new.snap.status = "failed"
  PROVE  WorkInv'
<1>1. /\ w \in Procs /\ w \notin Sessions /\ Cycling(w)
      /\ proc[w].m \in Missions /\ proc[w].m \in proc[w].todo
  BY AtMission
<1>2. proc'[w] = new /\ \A v \in Workers \ {w} : proc'[v] = proc[v]
  BY <1>1 DEF RowInv
<1>3. \A k \in Missions : /\ Owns(w, k)' <=> Owns(w, k)
                          /\ View(w, k)' = View(w, k)
                          /\ \A v \in Workers \ {w} : Owns(v, k)' <=> Owns(v, k)
  BY <1>2 DEF Owns, View
<1>4. \A k \in Missions : Owns(w, k)' =>
        db'[k].status = "processing" /\ \A v \in Workers \ {w} : ~Owns(v, k)'
  BY <1>1, <1>3 DEF Cycling
<1>5. new.pc \in MissionPCs /\ \A k \in new.todo : tx'[k].owner = w => k = new.m
  BY <1>1 DEF Cycling, MissionPCs, PCs
<1>6. View(w, new.m)' = View(w, proc[w].m) /\ View(w, new.m).status = "processing"
  BY <1>1, <1>3 DEF Cycling
<1>7. Cycling(w)'
  BY <1>1, <1>2, <1>4, <1>5, <1>6 DEF Cycling
<1> QED
  BY <1>1, <1>7, MoveWork

\* A worker has written its Mission, as processing, and stays at it.
LEMMA WorkerWrote ==
  ASSUME RowInv, RowInv', LockInv, WorkInv, NewVersion, NEW w \in Workers, NEW row,
         NEW pc \in {"search", "mark"}, proc[w].pc \in MissionPCs,
         CanLock(w, proc[w].m), Flush(w, proc[w].m, row), Goto(w, pc), UNCHANGED db,
         Audited(row), row.status = "processing"
  PROVE  WorkInv'
<1> DEFINE m == proc[w].m
<1>1. /\ w \in Procs /\ w \notin Sessions /\ Cycling(w) /\ m \in Missions
      /\ m \in proc[w].todo /\ db[m].status = "processing"
  BY AtMission
<1>2. PICK new : /\ proc' = [proc EXCEPT ![w] = new] /\ proc'[w] = new
                 /\ new.pc = pc /\ new.m = m /\ new.todo = proc[w].todo
  BY <1>1, GotoFields
<1>3. \A n \in Missions : tx'[n] = IF n = m THEN [owner |-> w, row |-> row] ELSE tx[n]
  BY DEF Flush, RowInv
<1>4. \A v \in Workers \ {w} : proc'[v] = proc[v]
  BY <1>2 DEF RowInv
<1>5. \A k \in Missions : /\ Owns(w, k)' => Owns(w, k)
                          /\ \A v \in Workers \ {w} : Owns(v, k)' => Owns(v, k)
  BY <1>1, <1>2, <1>3, <1>4 DEF Owns
<1>6. \A k \in Missions : Owns(w, k)' =>
        db'[k].status = "processing" /\ \A v \in Workers \ {w} : ~Owns(v, k)'
  BY <1>1, <1>5 DEF Cycling
<1>7. View(w, m)'.status = "processing" /\ pc \in MissionPCs
  BY <1>1, <1>2, <1>3 DEF View, MissionPCs, PCs
<1>8. \A k \in new.todo : tx'[k].owner = w => k = m
  <2>1. proc[w].todo \subseteq Missions
    BY <1>1, HeldSafe DEF ProcState
  <2> QED
    BY <1>1, <1>2, <1>3, <2>1 DEF Cycling
<1>9. Cycling(w)'
  BY <1>1, <1>2, <1>6, <1>7, <1>8 DEF Cycling
<1> QED
  BY <1>1, <1>2, <1>9, WriteWork DEF Steps

\* A worker is done with its Mission and goes on with its batch.
LEMMA WorkerDone ==
  ASSUME RowInv, RowInv', LockInv, WorkInv, NewVersion, NEW w \in Workers, NEW row,
         proc[w].pc \in MissionPCs, CanLock(w, proc[w].m), Flush(w, proc[w].m, row),
         NextMission(w), UNCHANGED db, Audited(row),
         row.status \in {"waiting", "requires_confirmation", "completed", "failed"}
  PROVE  WorkInv'
<1> DEFINE m == proc[w].m
<1> DEFINE new == [Idle EXCEPT !.pc = "batch", !.cmd = "cycle",
                     !.todo = proc[w].todo \ {m}, !.time = proc[w].time]
<1>1. /\ w \in Procs /\ w \notin Sessions /\ Cycling(w) /\ m \in Missions
      /\ m \in proc[w].todo /\ db[m].status = "processing"
  BY AtMission
<1>2. proc' = [proc EXCEPT ![w] = new] /\ new.pc = "batch" /\ new.todo = proc[w].todo \ {m}
  BY DEF NextMission, Idle
<1> HIDE DEF new
<1>3. proc'[w] = new /\ \A v \in Workers \ {w} : proc'[v] = proc[v]
  BY <1>1, <1>2 DEF RowInv
<1>4. \A n \in Missions : tx'[n] = IF n = m THEN [owner |-> w, row |-> row] ELSE tx[n]
  BY DEF Flush, RowInv
<1>5. \A k \in Missions : /\ Owns(w, k)' => Owns(w, k)
                          /\ \A v \in Workers \ {w} : Owns(v, k)' => Owns(v, k)
  BY <1>1, <1>2, <1>3, <1>4 DEF Owns
<1>6. \A k \in Missions : Owns(w, k)' =>
        db'[k].status = "processing" /\ \A v \in Workers \ {w} : ~Owns(v, k)'
  BY <1>1, <1>5 DEF Cycling
<1>7. \A k \in new.todo : tx'[k].owner # w
  <2>1. proc[w].todo \subseteq Missions
    BY <1>1, HeldSafe DEF ProcState
  <2> QED
    BY <1>1, <1>2, <1>4, <2>1 DEF Cycling
<1>8. Cycling(w)'
  BY <1>2, <1>3, <1>6, <1>7 DEF Cycling, MissionPCs
<1>9. Steps(db[m].status, row.status)
  BY <1>1, StepFacts DEF Steps
<1>10. new.todo \subseteq proc[w].todo
  BY <1>2
<1> QED
  BY <1>1, <1>2, <1>8, <1>9, <1>10, WriteWork

LEMMA RaiseWork ==
  ASSUME RowInv, RowInv', LockInv, WorkInv, NewVersion, NEW p \in Procs,
         NEW retryable \in BOOLEAN, proc[p].pc \in MissionPCs, Raise(p, retryable)
  PROVE  WorkInv' /\ Stepped
<1>1. CASE p \in Sessions
  BY <1>1, EndWork DEF Raise
<1>2. CASE p \notin Sessions
  <2> DEFINE new == [proc[p] EXCEPT !.pc = "mark",
                                    !.cmd = IF retryable THEN "retryable" ELSE "cycle"]
  <2>1. proc[p] \in ProcState /\ p \in Workers
    BY <1>2, HeldSafe DEF Procs
  <2>2. /\ new.pc = "mark" /\ new.m = proc[p].m /\ new.todo = proc[p].todo
        /\ proc' = [proc EXCEPT ![p] = new] /\ UNCHANGED <<db, tx>>
    BY <1>2, <2>1 DEF ProcState, Raise, RowInv
  <2> HIDE DEF new
  <2>3. WorkInv'
    BY <2>1, <2>2, WorkerMoves
  <2> QED
    BY <2>2, <2>3 DEF Stepped, Steps
<1> QED
  BY <1>1, <1>2

\* The first update of a run keeps the status it was started from.
LEMMA SessionResolved ==
  ASSUME RowInv, RowInv', LockInv, WorkInv, NewVersion, NEW s \in Sessions,
         NEW row, proc[s].pc = "resolve", CanLock(s, proc[s].m),
         Flush(s, proc[s].m, row), Goto(s, "search"), UNCHANGED db,
         Audited(row), row.status = db[proc[s].m].status, row.status \in {"created", "waiting"}
  PROVE  WorkInv'
<1> DEFINE m == proc[s].m
<1>1. s \in Procs /\ s \notin Workers /\ Commanding(s)
  BY ProcessAssumption DEF Procs, WorkInv
<1>2. m \in Missions /\ proc[s].todo = {} /\ proc[s].cmd \in ReceiptCommands
      /\ db[m].status # "processing"
  BY <1>1 DEF Commanding
<1>3. PICK new : /\ proc' = [proc EXCEPT ![s] = new] /\ proc'[s] = new
                 /\ new.pc = "search" /\ new.m = m /\ new.cmd = proc[s].cmd
                 /\ new.todo = {}
  BY <1>1, <1>2, GotoFields
<1>4. \A n \in Missions : tx'[n] = IF n = m THEN [owner |-> s, row |-> row] ELSE tx[n]
  BY DEF Flush, RowInv
<1>5. \A k \in Missions : tx'[k].owner = s => k = m /\ tx'[k].row.status # "processing"
  BY <1>1, <1>4 DEF Commanding
<1>6. tx'[m].row.status = db'[m].status /\ db'[m].status \in {"created", "waiting"}
  BY <1>2, <1>4
<1>7. Commanding(s)'
  BY <1>1, <1>2, <1>3, <1>5, <1>6 DEF Commanding
<1> QED
  BY <1>1, <1>2, <1>3, <1>7, WriteWork DEF Steps

LEMMA ResolveWork ==
  ASSUME RowInv, RowInv', LockInv, WorkInv, NewVersion, NEW p \in Procs,
         Resolve(p) \/ ResolveRefused(p)
  PROVE  WorkInv' /\ Stepped
<1> DEFINE m == proc[p].m
<1> DEFINE row == Written(View(p, m), proc[p].snap)
<1>1. /\ proc[p].pc = "resolve" /\ m \in Missions /\ CanLock(p, m)
      /\ proc[p].snap \in SafeRow /\ View(p, m) \in SafeRow
  BY HeldSafe DEF Resolve, ResolveRefused, MissionPCs, PCs
<1>2. CASE p \in Sessions /\ View(p, m).seq = proc[p].snap.seq /\ Flush(p, m, row)
           /\ Goto(p, "search") /\ UNCHANGED db
  <2>1. tx[m].owner # p /\ proc[p].snap.status \in {"created", "waiting"}
    BY <1>1, <1>2 DEF WorkInv, Commanding
  <2>2. View(p, m) = db[m]
    BY <2>1 DEF View
  <2>3. proc[p].snap.status = db[m].status /\ proc[p].snap.attempts = db[m].attempts
    BY <1>1, <1>2, <2>2 DEF WorkInv, Commanding
  <2>4. Audited(row) /\ row.status = db[m].status
    BY <1>1, <2>2, <2>3, WrittenAudited DEF WorkInv
  <2> HIDE DEF row
  <2>5. WorkInv'
    BY <1>1, <1>2, <2>1, <2>3, <2>4, SessionResolved
  <2> QED
    BY <1>2, <2>5 DEF Stepped, Steps
<1>3. CASE p \in Workers /\ Flush(p, m, row) /\ (Goto(p, "search") \/ Goto(p, "mark"))
           /\ UNCHANGED db
  <2>1. proc[p].pc \in MissionPCs
    BY <1>1 DEF MissionPCs, PCs
  <2>2. /\ proc[p].snap.status = "processing" /\ View(p, m).status = "processing"
        /\ proc[p].snap.attempts = View(p, m).attempts /\ Audited(View(p, m))
    BY <1>1, <1>3, <2>1, AtMission DEF Cycling
  <2>3. Audited(row) /\ row.status = "processing"
    BY <1>1, <2>2, WrittenAudited
  <2> HIDE DEF row
  <2>4. WorkInv'
    BY <1>1, <1>3, <2>1, <2>3, WorkerWrote
  <2> QED
    BY <1>3, <2>4 DEF Stepped, Steps
<1>4. CASE Raise(p, FALSE)
  BY <1>1, <1>4, RaiseWork DEF MissionPCs, PCs
<1>5. CASE RollbackTx(p)
  BY <1>5, EndWork
<1> QED
  BY <1>2, <1>3, <1>4, <1>5 DEF Resolve, ResolveRefused, Procs

\* A run past its first update holds the lock and its row is the one it wrote.
LEMMA Running ==
  ASSUME RowInv, LockInv, WorkInv, NEW p \in Procs,
         proc[p].pc \in {"search", "autoconfirm"}
  PROVE  /\ proc[p].m \in Missions /\ tx[proc[p].m].owner = p /\ CanLock(p, proc[p].m)
         /\ tx[proc[p].m].row \in SafeRow /\ Audited(tx[proc[p].m].row)
         /\ View(p, proc[p].m) = tx[proc[p].m].row
         /\ proc[p].pc = "autoconfirm" => proc[p].snap.attempts = tx[proc[p].m].row.attempts
         /\ p \in Sessions => db[proc[p].m].status \in {"created", "waiting"}
         /\ p \in Workers => proc[p].pc \in MissionPCs
<1>1. proc[p].m \in Missions /\ tx[proc[p].m].owner = p /\ tx[proc[p].m].row \in SafeRow
  BY RunLock
<1>2. View(p, proc[p].m) = tx[proc[p].m].row /\ CanLock(p, proc[p].m)
  BY <1>1 DEF View, CanLock
<1>3. Audited(tx[proc[p].m].row)
  BY <1>1, ProcessAssumption DEF WorkInv, Writable, Procs
<1>4. p \in Sessions => /\ db[proc[p].m].status \in {"created", "waiting"}
                        /\ proc[p].pc = "autoconfirm" =>
                             proc[p].snap.attempts = tx[proc[p].m].row.attempts
  BY DEF WorkInv, Commanding
<1>5. p \in Workers => /\ proc[p].pc = "autoconfirm" =>
                             proc[p].snap.attempts = tx[proc[p].m].row.attempts
  BY <1>2 DEF WorkInv, Cycling
<1> QED
  BY <1>1, <1>2, <1>3, <1>4, <1>5 DEF Procs, MissionPCs, PCs

LEMMA FinishRunWork ==
  ASSUME RowInv, RowInv', LockInv, WorkInv, NewVersion, NEW p \in Procs,
         proc[p].pc \in {"search", "autoconfirm"}, NEW row \in SafeRow, FinishRun(p, row),
         row.attempts = tx[proc[p].m].row.attempts,
         row.status \in {"requires_confirmation", "completed"}
  PROVE  WorkInv' /\ Stepped
<1> DEFINE m == proc[p].m
<1> DEFINE done == Written(tx[m].row, row)
<1>1. /\ m \in Missions /\ CanLock(p, m) /\ tx[m].row \in SafeRow /\ Audited(tx[m].row)
      /\ p \in Sessions => db[m].status \in {"created", "waiting"}
      /\ p \in Workers => proc[p].pc \in MissionPCs
  BY Running
<1>2. Audited(done) /\ done.status = row.status
  BY <1>1, WrittenAudited
<1>3. Flush(p, m, done) /\ UNCHANGED db
  BY DEF FinishRun
<1> HIDE DEF done
<1>4. CASE p \in Sessions
  <2>1. Goto(p, "commit") /\ Steps(db[m].status, done.status)
    BY <1>1, <1>2, <1>4, StepFacts DEF FinishRun, Steps
  <2>2. WorkInv'
    BY <1>1, <1>2, <1>3, <1>4, <2>1, SessionWrote
  <2> QED
    BY <1>3, <2>2 DEF Stepped, Steps
<1>5. CASE p \notin Sessions
  <2>1. p \in Workers /\ NextMission(p)
    BY <1>5 DEF FinishRun, Procs
  <2>2. WorkInv'
    BY <1>1, <1>2, <1>3, <2>1, WorkerDone
  <2> QED
    BY <1>3, <2>2 DEF Stepped, Steps
<1> QED
  BY <1>4, <1>5

LEMMA FailRunWork ==
  ASSUME RowInv, RowInv', LockInv, WorkInv, NewVersion, NEW p \in Procs,
         proc[p].pc \in {"search", "autoconfirm"}, NEW retryable \in BOOLEAN,
         NEW snap \in SafeRow, FailRun(p, retryable, snap),
         snap.attempts = tx[proc[p].m].row.attempts
  PROVE  WorkInv' /\ Stepped
<1> DEFINE m == proc[p].m
<1> DEFINE failed == Written(tx[m].row, Transition(snap, "failed"))
<1> DEFINE retried == Written(failed, AutoRetry(m, failed, proc[p].time))
<1>1. /\ m \in Missions /\ CanLock(p, m) /\ tx[m].row \in SafeRow /\ Audited(tx[m].row)
      /\ p \in Sessions => db[m].status \in {"created", "waiting"}
      /\ p \in Workers => proc[p].pc \in MissionPCs
  BY Running
<1>2. failed \in SafeRow /\ Audited(failed) /\ failed.status = "failed"
  <2>1. /\ Transition(snap, "failed") \in SafeRow /\ Transition(snap, "failed").status = "failed"
        /\ Transition(snap, "failed").attempts = snap.attempts
    BY TransitionSafe, TransitionIs, StatusFacts
  <2> DEFINE to == Transition(snap, "failed")
  <2> HIDE DEF to
  <2>2. Written(tx[m].row, to) \in SafeRow
    BY <1>1, <2>1, WrittenSafe DEF to
  <2>3. /\ Audited(Written(tx[m].row, to))
        /\ Written(tx[m].row, to).status = "failed"
    BY <1>1, <2>1, WrittenAudited DEF to
  <2> QED
    BY <2>2, <2>3 DEF to
<1> HIDE DEF failed
<1>3. CASE p \in Sessions /\ Flush(p, m, failed) /\ Goto(p, "commit") /\ UNCHANGED db
  <2>1. Steps(db[m].status, failed.status) /\ proc[p].pc # "idle"
    BY <1>1, <1>2, <1>3, StepFacts DEF Steps
  <2>2. WorkInv'
    BY <1>1, <1>2, <1>3, <2>1, SessionWrote
  <2> QED
    BY <1>3, <2>2 DEF Stepped, Steps
<1>4. CASE /\ p \in Workers /\ NextMission(p) /\ UNCHANGED db
           /\ \/ Flush(p, m, Written(failed, failed))
              \/ Flush(p, m, retried) /\ failed.attempts > 0
  <2>1. Audited(Written(failed, failed)) /\ Written(failed, failed).status = "failed"
    BY <1>2, WrittenAudited
  <2>2. ASSUME failed.attempts > 0
        PROVE  Audited(retried) /\ retried.status = "waiting"
    <3>1. proc[p].time \in Nat
      BY HeldSafe DEF ProcState
    <3>2. /\ AutoRetry(m, failed, proc[p].time) \in SafeRow
          /\ AutoRetry(m, failed, proc[p].time).status = "waiting"
          /\ AutoRetry(m, failed, proc[p].time).attempts = failed.attempts
      BY <1>1, <1>2, <2>2, <3>1, AutoRetrySafe, AutoRetryIs
    <3> QED
      BY <1>2, <3>2, WrittenAudited
  <2>3. PICK row : Flush(p, m, row) /\ Audited(row) /\ row.status \in {"failed", "waiting"}
    BY <1>4, <2>1, <2>2
  <2>4. WorkInv'
    BY <1>1, <1>4, <2>3, WorkerDone
  <2> QED
    BY <1>4, <2>4 DEF Stepped, Steps
<1>5. CASE RollbackTx(p)
  BY <1>5, EndWork
<1> QED
  BY <1>3, <1>4, <1>5 DEF FailRun, failed

LEMMA SearchWork ==
  ASSUME RowInv, RowInv', LockInv, WorkInv, NewVersion, NEW p \in Procs, Search(p)
  PROVE  WorkInv' /\ Stepped
<1> DEFINE row == tx[proc[p].m].row
<1>1. proc[p].pc = "search" /\ row \in SafeRow
  BY Running DEF Search
<1>2. CASE \E retryable \in BOOLEAN : FailRun(p, retryable, row)
  BY <1>1, <1>2, FailRunWork
<1>3. CASE \E retryable \in BOOLEAN : Raise(p, retryable)
  BY <1>1, <1>3, RaiseWork DEF MissionPCs, PCs
<1>4. CASE FinishRun(p, Transition(row, "completed"))
  <2>1. /\ Transition(row, "completed") \in SafeRow
        /\ Transition(row, "completed").status = "completed"
        /\ Transition(row, "completed").attempts = row.attempts
    BY <1>1, TransitionSafe, TransitionIs, StatusFacts
  <2> QED
    BY <1>1, <1>4, <2>1, FinishRunWork
<1> QED
  BY <1>2, <1>3, <1>4 DEF Search

LEMMA ReserveWork ==
  ASSUME RowInv, RowInv', LockInv, WorkInv, NewVersion, NEW p \in Procs, Reserve(p)
  PROVE  WorkInv' /\ Stepped
<1> DEFINE m == proc[p].m
<1> DEFINE row == tx[m].row
<1> DEFINE reserved == [row EXCEPT !.resv = TRUE]
<1>1. /\ proc[p].pc = "search" /\ row \in SafeRow /\ m \in Missions
      /\ View(p, m) = row /\ tx[m].owner = p
  BY Running DEF Reserve
<1>2. reserved \in SafeRow /\ reserved.attempts = row.attempts
  BY <1>1 DEF SafeRow, Row
<1>3. ASSUME NEW t \in {"requires_confirmation", "completed"}
      PROVE  /\ Transition(reserved, t) \in SafeRow /\ Transition(reserved, t).status = t
             /\ Transition(reserved, t).attempts = row.attempts
  <2> HIDE DEF reserved
  <2> QED
    BY <1>2, TransitionSafe, TransitionIs, StatusFacts
<1>4. CASE \E retryable \in BOOLEAN : FailRun(p, retryable, row)
  BY <1>1, <1>4, FailRunWork
<1>5. CASE \E t \in {"requires_confirmation", "completed"} : FinishRun(p, Transition(reserved, t))
  BY <1>1, <1>3, <1>5, FinishRunWork
<1>6. CASE proc' = [proc EXCEPT ![p].pc = "autoconfirm", ![p].snap = reserved]
           /\ UNCHANGED <<db, tx>>
  <2> DEFINE new == [proc[p] EXCEPT !.pc = "autoconfirm", !.snap = reserved]
  <2>1. proc[p] \in ProcState
    BY HeldSafe
  <2> HIDE DEF reserved
  <2>2. /\ new.m = m /\ new.pc = "autoconfirm" /\ new.snap.attempts = row.attempts
        /\ new.todo = proc[p].todo /\ new.cmd = proc[p].cmd
        /\ proc' = [proc EXCEPT ![p] = new]
    BY <1>2, <1>6, <2>1 DEF ProcState, RowInv
  <2> HIDE DEF new
  <2>3. CASE p \in Workers
    <3>1. proc[p].pc \in MissionPCs
      BY <1>1 DEF MissionPCs, PCs
    <3>2. /\ new.pc \in {"mark", "marking", "autoconfirm"}
          /\ new.snap.attempts = View(p, m).attempts /\ new.pc # "marking"
      BY <1>1, <2>2
    <3>3. WorkInv'
      BY <1>6, <2>2, <2>3, <3>1, <3>2, WorkerMoves
    <3> QED
      BY <1>6, <3>3 DEF Stepped, Steps
  <2>4. CASE p \in Sessions
    <3>1. Commanding(p) /\ p \notin Workers
      BY <2>4, ProcessAssumption DEF WorkInv
    <3>2. proc'[p] = new
      BY <2>2 DEF RowInv
    <3>3. Commanding(p)'
      BY <1>1, <1>6, <2>2, <3>1, <3>2 DEF Commanding
    <3>4. WorkInv'
      BY <1>6, <2>2, <3>1, <3>3, MoveWork
    <3> QED
      BY <1>6, <3>4 DEF Stepped, Steps
  <2> QED
    BY <2>3, <2>4 DEF Procs
<1> QED
  BY <1>4, <1>5, <1>6 DEF Reserve

LEMMA AutoConfirmWork ==
  ASSUME RowInv, RowInv', LockInv, WorkInv, NewVersion, NEW p \in Procs, AutoConfirm(p)
  PROVE  WorkInv' /\ Stepped
<1> DEFINE row == proc[p].snap
<1>1. /\ proc[p].pc = "autoconfirm" /\ row \in SafeRow
      /\ row.attempts = tx[proc[p].m].row.attempts
  BY Running, HeldSafe DEF AutoConfirm
<1>2. CASE FinishRun(p, Transition(row, "completed"))
  <2>1. /\ Transition(row, "completed") \in SafeRow
        /\ Transition(row, "completed").status = "completed"
        /\ Transition(row, "completed").attempts = row.attempts
    BY <1>1, TransitionSafe, TransitionIs, StatusFacts
  <2> QED
    BY <1>1, <1>2, <2>1, FinishRunWork
<1>3. CASE \E retryable \in BOOLEAN : FailRun(p, retryable, row)
  BY <1>1, <1>3, FailRunWork
<1> QED
  BY <1>2, <1>3 DEF AutoConfirm

LEMMA RunStepWork ==
  ASSUME RowInv, RowInv', LockInv, WorkInv, NewVersion, NEW p \in Procs, RunStep(p)
  PROVE  WorkInv' /\ Stepped
BY ResolveWork, SearchWork, ReserveWork, AutoConfirmWork DEF RunStep

-----------------------------------------------------------------------------
(* One lemma per action of a worker.                                       *)

\* A batch statement changes rows nobody owns, and a worker takes into its
\* batch only rows that the statement made processing.
LEMMA BatchStep ==
  ASSUME RowInv, RowInv', LockInv, WorkInv, NewVersion, NEW w \in Workers, NEW new,
         proc' = [proc EXCEPT ![w] = new], UNCHANGED tx, new.pc \notin MissionPCs,
         \A m \in Missions : db'[m] # db[m] =>
           /\ Audited(db'[m]) /\ Lockable(m) /\ Steps(db[m].status, db'[m].status)
           /\ \A v \in Workers : ~Owns(v, m),
         \A m \in new.todo : m \in Missions /\ tx[m].owner # w /\
           (m \in proc[w].todo \/ (db[m].status # "processing" /\ db'[m].status = "processing"))
  PROVE  WorkInv' /\ Stepped
<1>1. w \in Procs /\ Cycling(w)
  BY DEF Procs, WorkInv
<1>2. proc'[w] = new /\ \A v \in Workers \ {w} : proc'[v] = proc[v]
  BY <1>1 DEF RowInv
<1>3. \A v \in Workers \ {w}, k \in Missions : Owns(v, k)' => Owns(v, k)
  BY <1>2 DEF Owns
<1>4. ASSUME NEW k \in Missions, Owns(w, k)'
      PROVE  db'[k].status = "processing" /\ \A v \in Workers \ {w} : ~Owns(v, k)'
  <2>1. CASE Owns(w, k)
    BY <1>1, <1>3, <2>1 DEF Cycling
  <2>2. CASE ~Owns(w, k)
    <3>1. k \in new.todo /\ k \notin proc[w].todo
      BY <1>2, <1>4, <2>2 DEF Owns
    <3>2. \A v \in Workers : ~Owns(v, k)
      BY <3>1 DEF WorkInv, Cycling
    <3> QED
      BY <1>3, <3>1, <3>2
  <2> QED
    BY <2>1, <2>2
<1>5. new.pc \notin {"resolve", "autoconfirm", "marking"}
  BY DEF MissionPCs, PCs
<1>6. Cycling(w)'
  BY <1>2, <1>4, <1>5 DEF Cycling
<1>7. WorkInv'
  BY <1>6, BatchWork
<1>8. Stepped
  BY DEF Stepped, Steps
<1> QED
  BY <1>7, <1>8

\* What nobody has locked and is not processing, nobody owns.
LEMMA NotOwned ==
  ASSUME WorkInv, NEW m \in Missions, db[m].status # "processing"
  PROVE  \A v \in Workers : ~Owns(v, m)
BY DEF WorkInv, Cycling

LEMMA RecoverWork ==
  ASSUME RowInv, RowInv', LockInv, WorkInv, NewVersion, Prompt,
         NEW w \in Workers, Recover(w) \/ ProcessDue(w)
  PROVE  WorkInv' /\ Stepped
<1>1. \A m \in Missions : db'[m] # db[m] =>
        db'[m] = Recovered(db[m]) /\ Stale(m) /\ Lockable(m)
  <2>1. CASE Recover(w)
    <3>1. PICK S \in SUBSET {m \in Missions : Stale(m) /\ Lockable(m)} :
            db' = [m \in Missions |-> IF m \in S THEN Recovered(db[m]) ELSE db[m]]
      BY <2>1 DEF Recover, Batches
    <3> QED
      BY <3>1
  <2>2. CASE ProcessDue(w)
    BY <2>2 DEF ProcessDue
  <2> QED
    BY <2>1, <2>2
<1>2. ASSUME NEW m \in Missions, db'[m] # db[m]
      PROVE  /\ Audited(db'[m]) /\ Lockable(m) /\ Steps(db[m].status, db'[m].status)
             /\ \A v \in Workers : ~Owns(v, m)
  <2>1. Stale(m) /\ Lockable(m) /\ db[m].status = "processing" /\ Audited(db[m])
    BY <1>1, <1>2 DEF Stale, WorkInv
  <2>2. Audited(db'[m]) /\ db'[m].status \in {"failed", "waiting"}
    BY <1>1, <1>2, <2>1, CommittedSafe, RecoveredAudited
  <2>3. Steps(db[m].status, db'[m].status)
    BY <2>1, <2>2, StepFacts DEF Steps
  <2>4. \A v \in Workers : m \notin proc[v].todo /\ tx[m].owner # v
    BY <2>1, ProcessAssumption DEF Prompt, Lockable
  <2> QED
    BY <2>1, <2>2, <2>3, <2>4 DEF Owns
<1> DEFINE new == [Idle EXCEPT !.pc = "expire", !.cmd = "cycle", !.time = now]
<1>3. proc' = [proc EXCEPT ![w] = new] /\ new.pc = "expire" /\ new.todo = {} /\ UNCHANGED tx
  BY DEF Recover, ProcessDue, Idle
<1> HIDE DEF new
<1>4. new.pc \notin MissionPCs
  BY <1>3 DEF MissionPCs
<1> QED
  BY <1>2, <1>3, <1>4, BatchStep

LEMMA ExpireWork ==
  ASSUME RowInv, RowInv', LockInv, WorkInv, NewVersion, NEW w \in Workers, Expire(w)
  PROVE  WorkInv' /\ Stepped
<1> DEFINE expired(m) == [Transition(db[m], "expired") EXCEPT !.seq = db[m].seq + 1]
<1>1. w \in Procs /\ proc[w].pc = "expire" /\ Cycling(w) /\ proc[w].todo \subseteq Missions
  BY HeldSafe DEF Procs, Expire, WorkInv, ProcState
<1>2. CASE RollbackTx(w)
  BY <1>1, <1>2, EndWork
<1>3. CASE \E S \in SUBSET {m \in Missions : db[m].status \in ExpirableStatuses /\ Lockable(m)} :
             /\ db' = [m \in Missions |-> IF m \in S THEN expired(m) ELSE db[m]]
             /\ Goto(w, "claim") /\ UNCHANGED tx
  <2>1. \A m \in Missions : /\ expired(m).status = "expired"
                            /\ expired(m).attempts = db[m].attempts
                            /\ expired(m).audit = db[m].audit
    BY CommittedSafe DEF Transition, SafeRow, Row
  <2> HIDE DEF expired
  <2>2. \A m \in Missions : db'[m] # db[m] =>
          db'[m] = expired(m) /\ db[m].status \in ExpirableStatuses /\ Lockable(m)
    BY <1>3
  <2>3. ASSUME NEW m \in Missions, db'[m] # db[m]
        PROVE  /\ Audited(db'[m]) /\ Lockable(m) /\ Steps(db[m].status, db'[m].status)
               /\ \A v \in Workers : ~Owns(v, m)
    <3>1. db[m].status # "processing" /\ db'[m] = expired(m) /\ Lockable(m)
      BY <2>2, <2>3 DEF ExpirableStatuses
    <3>2. Audited(db'[m])
      BY <2>1, <3>1 DEF WorkInv, Audited, OpenAttempts
    <3>3. Steps(db[m].status, db'[m].status)
      BY <2>1, <2>2, <2>3, StepFacts DEF Steps, ExpirableStatuses
    <3> QED
      BY <3>1, <3>2, <3>3, NotOwned
  <2>4. PICK new : /\ proc' = [proc EXCEPT ![w] = new]
                   /\ new.pc = "claim" /\ new.todo = proc[w].todo
    BY <1>1, <1>3, GotoFields
  <2>5. new.pc \notin MissionPCs /\ proc[w].pc \notin MissionPCs
    BY <1>1, <2>4 DEF MissionPCs
  <2>6. \A m \in new.todo : m \in Missions /\ tx[m].owner # w /\ m \in proc[w].todo
    BY <1>1, <2>4, <2>5 DEF Cycling
  <2>7. UNCHANGED tx
    BY <1>3
  <2> QED
    BY <2>3, <2>4, <2>5, <2>6, <2>7, BatchStep
<1> QED
  BY <1>2, <1>3 DEF Expire, Batches

LEMMA ClaimWork ==
  ASSUME RowInv, RowInv', LockInv, WorkInv, NewVersion, NEW w \in Workers, Claim(w)
  PROVE  WorkInv' /\ Stepped
<1> DEFINE t == proc[w].time
<1>1. w \in Procs /\ proc[w] \in ProcState
  BY HeldSafe DEF Procs
<1>2. CASE RollbackTx(w)
  BY <1>1, <1>2, EndWork
<1>3. CASE \E S \in SUBSET {m \in Missions : Due(m, t) /\ Lockable(m)} :
             /\ db' = [m \in Missions |-> IF m \in S THEN Claimed(db[m], t) ELSE db[m]]
             /\ proc' = [proc EXCEPT ![w].pc = "batch", ![w].todo = S]
             /\ UNCHANGED tx
  <2>1. PICK S \in SUBSET {m \in Missions : Due(m, t) /\ Lockable(m)} :
             /\ db' = [m \in Missions |-> IF m \in S THEN Claimed(db[m], t) ELSE db[m]]
             /\ proc' = [proc EXCEPT ![w].pc = "batch", ![w].todo = S]
             /\ UNCHANGED tx
    BY <1>3
  <2>2. ASSUME NEW m \in S
        PROVE  /\ m \in Missions /\ Lockable(m) /\ db[m].status = "waiting"
               /\ db'[m].status = "processing" /\ Audited(db'[m])
               /\ \A v \in Workers : ~Owns(v, m)
    <3>1. m \in Missions /\ Lockable(m) /\ db[m].status = "waiting" /\ ~Exhausted(db[m])
      BY <2>1 DEF Due
    <3>2. Audited(Claimed(db[m], t)) /\ Claimed(db[m], t).status = "processing"
      BY <3>1, CommittedSafe, ClaimedAudited DEF WorkInv
    <3> QED
      BY <2>1, <3>1, <3>2, NotOwned
  <2>3. \A m \in Missions : db'[m] # db[m] => m \in S
    BY <2>1
  <2>4. \A m \in Missions : db'[m] # db[m] =>
          /\ Audited(db'[m]) /\ Lockable(m) /\ Steps(db[m].status, db'[m].status)
          /\ \A v \in Workers : ~Owns(v, m)
    BY <2>2, <2>3, StepFacts DEF Steps
  <2> DEFINE new == [proc[w] EXCEPT !.pc = "batch", !.todo = S]
  <2>5. proc' = [proc EXCEPT ![w] = new] /\ new.pc = "batch" /\ new.todo = S
    BY <1>1, <2>1 DEF RowInv, ProcState
  <2> HIDE DEF new
  <2>6. \A m \in S : tx[m].owner # w
    BY <2>2 DEF Owns
  <2>7. new.pc \notin MissionPCs
    BY <2>5 DEF MissionPCs
  <2>8. \A m \in new.todo : m \in Missions /\ tx[m].owner # w /\
          (m \in proc[w].todo \/ (db[m].status # "processing" /\ db'[m].status = "processing"))
    BY <2>2, <2>5, <2>6
  <2> QED
    BY <2>1, <2>4, <2>5, <2>7, <2>8, BatchStep
<1> QED
  BY <1>2, <1>3 DEF Claim, Batches

\* The worker reads what it has claimed: processing, and of the claimed attempt.
LEMMA PickWork ==
  ASSUME RowInv, RowInv', LockInv, WorkInv, NewVersion, NEW w \in Workers, Pick(w)
  PROVE  WorkInv' /\ Stepped
<1>1. /\ w \in Procs /\ w \notin Sessions /\ proc[w] \in ProcState /\ Cycling(w)
      /\ proc[w].pc = "batch" /\ UNCHANGED <<db, tx>>
  BY HeldSafe, ProcessAssumption DEF Procs, WorkInv, Pick
<1>2. PICK m \in proc[w].todo, pc \in {"resolve", "mark"} :
        proc' = [proc EXCEPT ![w] = [proc[w] EXCEPT !.pc = pc, !.m = m, !.snap = View(w, m)]]
  BY DEF Pick
<1>3. m \in Missions /\ proc[w].todo \subseteq Missions
  BY <1>1, <1>2 DEF ProcState
<1> DEFINE new == [proc[w] EXCEPT !.pc = pc, !.m = m, !.snap = View(w, m)]
<1>4. /\ new.pc = pc /\ new.m = m /\ new.snap = View(w, m) /\ new.todo = proc[w].todo
  BY <1>1 DEF ProcState
<1>5. proc' = [proc EXCEPT ![w] = new]
  BY <1>2
<1> HIDE DEF new
<1>6. proc'[w] = new /\ \A v \in Workers \ {w} : proc'[v] = proc[v]
  BY <1>1, <1>5 DEF RowInv
<1>7. \A k \in proc[w].todo : tx[k].owner # w
  BY <1>1 DEF Cycling, MissionPCs
<1>8. View(w, m).status = "processing"
  BY <1>1, <1>2, <1>3, <1>7 DEF Cycling, Owns, View
<1>9. \A k \in Missions : /\ Owns(w, k)' <=> Owns(w, k)
                          /\ View(w, k)' = View(w, k)
                          /\ \A v \in Workers \ {w} : Owns(v, k)' <=> Owns(v, k)
  BY <1>1, <1>4, <1>6 DEF Owns, View
<1>10. \A k \in Missions : Owns(w, k)' =>
         db'[k].status = "processing" /\ \A v \in Workers \ {w} : ~Owns(v, k)'
  BY <1>1, <1>9 DEF Cycling
<1>11. View(w, m)' = proc'[w].snap
  BY <1>3, <1>4, <1>6, <1>9
<1>12. proc'[w].todo = proc[w].todo /\ proc'[w].m = m /\ proc'[w].pc \in {"resolve", "mark"}
  BY <1>2, <1>4, <1>6
<1>13. Cycling(w)'
  <2>1. \A k \in proc'[w].todo : tx'[k].owner # w
    BY <1>1, <1>7, <1>12
  <2>2. View(w, m)'.status = "processing"
    BY <1>3, <1>8, <1>9
  <2> QED
    BY <1>2, <1>10, <1>11, <1>12, <2>1, <2>2 DEF Cycling
<1>14. WorkInv'
  BY <1>1, <1>4, <1>5, <1>13, MoveWork
<1> QED
  BY <1>1, <1>14 DEF Stepped, Steps

LEMMA MarkWork ==
  ASSUME RowInv, RowInv', LockInv, WorkInv, NewVersion, NEW w \in Workers, Mark(w)
  PROVE  WorkInv' /\ Stepped
<1> DEFINE m == proc[w].m
<1> DEFINE snap == Transition(View(w, m), "failed")
<1>1. w \in Procs /\ proc[w] \in ProcState /\ m \in Missions /\ proc[w].pc \in MissionPCs
  BY HeldSafe DEF Procs, Mark, MissionPCs, PCs
<1>2. CASE RollbackTx(w)
  BY <1>1, <1>2, EndWork
<1>3. CASE /\ proc' = [proc EXCEPT ![w].pc = "marking", ![w].snap = snap]
           /\ UNCHANGED <<db, tx>>
  <2>1. snap.status = "failed" /\ snap.attempts = View(w, m).attempts
    BY <1>1, HeldSafe, TransitionIs
  <2> HIDE DEF snap
  <2> DEFINE new == [proc[w] EXCEPT !.pc = "marking", !.snap = snap]
  <2>2. /\ new.pc = "marking" /\ new.snap = snap /\ new.m = m /\ new.todo = proc[w].todo
        /\ proc' = [proc EXCEPT ![w] = new]
    BY <1>1, <1>3 DEF ProcState, RowInv
  <2> HIDE DEF new
  <2>3. WorkInv'
    BY <1>1, <1>3, <2>1, <2>2, WorkerMoves
  <2> QED
    BY <1>3, <2>3 DEF Stepped, Steps
<1> QED
  BY <1>2, <1>3 DEF Mark

LEMMA MarkFailedWork ==
  ASSUME RowInv, RowInv', LockInv, WorkInv, NewVersion, NEW w \in Workers, MarkFailed(w)
  PROVE  WorkInv' /\ Stepped
<1> DEFINE m == proc[w].m
<1> DEFINE failed == Written(View(w, m), proc[w].snap)
<1> DEFINE retried == Written(failed, AutoRetry(m, failed, proc[w].time))
<1>1. /\ w \in Procs /\ m \in Missions /\ CanLock(w, m) /\ proc[w].time \in Nat
      /\ proc[w].snap \in SafeRow /\ View(w, m) \in SafeRow
      /\ proc[w].pc = "marking" /\ proc[w].pc \in MissionPCs
  BY HeldSafe DEF Procs, MarkFailed, MissionPCs, PCs, ProcState
<1>2. CASE RollbackTx(w)
  BY <1>1, <1>2, EndWork
<1>3. CASE /\ Flush(w, m, failed) \/ (Flush(w, m, retried) /\ failed.attempts # 0)
           /\ NextMission(w) /\ UNCHANGED db
  <2>1. /\ proc[w].snap.status = "failed" /\ proc[w].snap.attempts = View(w, m).attempts
        /\ Audited(View(w, m))
    BY <1>1, AtMission DEF Cycling
  <2>2. failed \in SafeRow
    BY <1>1, WrittenSafe
  <2>3. Audited(failed) /\ failed.status = "failed"
    BY <1>1, <2>1, WrittenAudited
  <2> HIDE DEF failed
  <2>4. ASSUME failed.attempts # 0
        PROVE  Audited(retried) /\ retried.status = "waiting"
    <3>1. failed.attempts > 0
      BY <2>2, <2>4, BoundAssumption DEF SafeRow, Row
    <3>2. /\ AutoRetry(m, failed, proc[w].time) \in SafeRow
          /\ AutoRetry(m, failed, proc[w].time).status = "waiting"
          /\ AutoRetry(m, failed, proc[w].time).attempts = failed.attempts
      BY <1>1, <2>2, <3>1, AutoRetrySafe, AutoRetryIs
    <3> QED
      BY <2>2, <2>3, <3>2, WrittenAudited
  <2>5. PICK row : Flush(w, m, row) /\ Audited(row) /\ row.status \in {"failed", "waiting"}
    BY <1>3, <2>3, <2>4
  <2>6. WorkInv'
    BY <1>1, <1>3, <2>5, WorkerDone
  <2> QED
    BY <1>3, <2>6 DEF Stepped, Steps
<1> QED
  BY <1>2, <1>3 DEF MarkFailed

-----------------------------------------------------------------------------
(* The theorems                                                            *)

LEMMA InitWorkInv == Init => WorkInv
<1> SUFFICES ASSUME Init PROVE WorkInv
  OBVIOUS
<1>1. ASSUME NEW m \in Missions
      PROVE  Audited(db[m])
  <2>1. \A sched, cap : /\ NewRow(sched, cap).status \in {"created", "waiting"}
                        /\ NewRow(sched, cap).attempts = 0
                        /\ \A n \in 1..MaxAttempts : NewRow(sched, cap).audit[n] = "none"
    BY DEF NewRow, BlankRow
  <2>2. \E sched, cap : db[m] = NewRow(sched, cap)
    BY DEF Init
  <2>3. /\ db[m].status \in {"created", "waiting"} /\ db[m].attempts = 0
        /\ \A n \in 1..MaxAttempts : db[m].audit[n] = "none"
    BY <2>1, <2>2
  <2> QED
    BY <2>3 DEF Audited, OpenAttempts
<1>2. \A m \in Missions : tx[m].owner = NoProc
  BY DEF Init, Free
<1>3. \A p \in Procs : proc[p].pc = "idle" /\ proc[p].todo = {} /\ p # NoProc
  BY ProcessAssumption DEF Init, Idle, Procs
<1>4. \A m \in Missions : Writable(m)
  BY <1>2 DEF Writable
<1>5. \A s \in Sessions : Commanding(s)
  BY <1>2, <1>3 DEF Commanding, Procs
<1>6. \A w \in Workers : Cycling(w)
  BY <1>2, <1>3 DEF Cycling, Procs, Owns, MissionPCs
<1> QED
  BY <1>1, <1>4, <1>5, <1>6 DEF WorkInv

LEMMA NextWorkInv ==
  ASSUME RowInv, LockInv, WorkInv, ReceiptsOnly, Prompt, [Next]_vars
  PROVE  WorkInv' /\ Stepped
<1>1. RowInv' /\ NewVersion
  BY NextRowInv, NextLockInv
<1>2. CASE Tick \/ UNCHANGED vars
  <2>1. UNCHANGED <<db, tx, proc>>
    BY <1>2 DEF Tick, vars
  <2>2. \A m \in Missions : Audited(db'[m]) /\ Writable(m)'
    BY <2>1 DEF WorkInv, Writable
  <2>3. \A s \in Sessions : Commanding(s)'
    BY <2>1 DEF WorkInv, Commanding
  <2>4. \A w \in Workers : Cycling(w)'
    BY <2>1 DEF WorkInv, Cycling, Owns, View
  <2>5. Stepped
    BY <2>1 DEF Stepped, Steps
  <2> QED
    BY <2>1, <2>2, <2>3, <2>4, <2>5 DEF WorkInv
<1>3. ASSUME NEW p \in Procs, Crash(p) \/ DeadlockVictim(p) \/ Commit(p) \/ EndCycle(p)
      PROVE  WorkInv' /\ Stepped
  <2>1. CommitTx(p) \/ RollbackTx(p)
    BY <1>3 DEF Crash, DeadlockVictim, Commit, EndCycle
  <2> QED
    BY <1>1, <2>1, EndWork
<1>4. ASSUME NEW s \in Sessions, Request(s) \/ ProviderConfirm(s) \/ ProviderCancel(s)
      PROVE  WorkInv' /\ Stepped
  <2>1. UNCHANGED db
    BY <1>4 DEF Request, Pause, Resume, Cancel, Confirm, Retry, Schedule, Patch, SetProvider,
                Run, Begin, ProviderConfirm, ProviderCancel
  <2> QED
    BY <1>1, <1>4, <2>1, RequestWork, ProviderWork DEF Stepped, Steps
<1>5. ASSUME NEW s \in Sessions, SessionStep(s)
      PROVE  WorkInv' /\ Stepped
  <2>1. s \in Procs
    BY DEF Procs
  <2> QED
    BY <1>1, <1>3, <1>4, <1>5, <2>1, UpdateWork, RunStepWork DEF SessionStep
<1>6. ASSUME NEW w \in Workers, Recover(w) \/ ProcessDue(w) \/ CycleStep(w)
      PROVE  WorkInv' /\ Stepped
  <2>1. w \in Procs
    BY DEF Procs
  <2> QED
    BY <1>1, <1>3, <1>6, <2>1, RecoverWork, ExpireWork, ClaimWork, PickWork, MarkWork,
       MarkFailedWork, RunStepWork DEF CycleStep
<1> QED
  BY <1>2, <1>3, <1>4, <1>5, <1>6 DEF Next

LEMMA WorkHolds ==
  ASSUME ReceiptsOnly
  PROVE  Spec /\ []Prompt => [](RowInv /\ LockInv /\ WorkInv)
<1>1. Init => RowInv /\ LockInv /\ WorkInv
  BY InitRowInv, InitLockInv, InitWorkInv
<1>2. RowInv /\ LockInv /\ WorkInv /\ Prompt /\ [Next]_vars => (RowInv /\ LockInv /\ WorkInv)'
  BY NextRowInv, NextLockInv, NextWorkInv
<1> QED
  BY <1>1, <1>2, PTL DEF Spec

\* Two processes never work on the same Mission at once: while only commands
\* with a receipt are issued and no worker keeps a claim beyond the timeout,
\* whoever crashes, and whatever is recovered from those who did.
THEOREM ClaimsAreExclusive ==
  ReceiptsOnly => (Spec /\ []Prompt => []ExclusiveClaim)
<1>1. RowInv /\ LockInv /\ WorkInv => ExclusiveClaim
  <2> SUFFICES ASSUME RowInv, LockInv, WorkInv, NEW p \in Procs, NEW q \in Procs, p # q,
                      NEW m \in Working(p) \cap Working(q)
               PROVE  FALSE
    BY DEF ExclusiveClaim
  <2>1. \A r \in Procs : m \in Working(r) =>
          /\ m \in Missions
          /\ r \in Sessions => tx[m].owner = r
          /\ r \in Workers => Owns(r, m)
    <3> SUFFICES ASSUME NEW r \in Procs, m \in Working(r)
                 PROVE  /\ m \in Missions
                        /\ r \in Sessions => tx[m].owner = r
                        /\ r \in Workers => Owns(r, m)
      OBVIOUS
    <3>1. CASE m \in proc[r].todo
      <4>1. proc[r].todo \subseteq Missions
        BY HeldSafe DEF ProcState
      <4>2. r \in Sessions => proc[r].todo = {}
        BY DEF WorkInv, Commanding
      <4> QED
        BY <3>1, <4>1, <4>2 DEF Owns
    <3>2. CASE proc[r].pc \in {"search", "autoconfirm"} /\ m = proc[r].m
      BY <3>2, RunLock DEF Owns
    <3> QED
      BY <3>1, <3>2 DEF Working
  <2>2. m \in Working(p) /\ m \in Working(q)
    OBVIOUS
  <2>3. ASSUME NEW s \in Sessions, NEW r \in Procs \ {s}, m \in Working(s), m \in Working(r)
        PROVE  FALSE
    <3>1. s \in Procs
      BY DEF Procs
    <3>2. tx[m].owner = s /\ m \in Missions
      BY <2>1, <2>3, <3>1
    <3>3. r \in Workers => ~Owns(r, m)
      BY <3>1, <3>2, OwnedAlone
    <3> QED
      BY <2>1, <2>3, <3>2, <3>3 DEF Procs
  <2>4. CASE p \in Sessions \/ q \in Sessions
    BY <2>2, <2>3, <2>4
  <2>5. CASE p \in Workers /\ q \in Workers
    BY <2>1, <2>2, <2>5 DEF WorkInv, Cycling
  <2> QED
    BY <2>4, <2>5 DEF Procs
<1>2. ASSUME ReceiptsOnly
      PROVE  Spec /\ []Prompt => []ExclusiveClaim
  BY <1>1, <1>2, WorkHolds, PTL
<1> QED
  BY <1>2

\* The attempts on record are exactly those that were begun, and one of them is
\* open exactly while its Mission is processing, under the same conditions.
THEOREM AuditsMatch ==
  ReceiptsOnly => (Spec /\ []Prompt => []AuditMatchesClaims)
<1>1. WorkInv => AuditMatchesClaims
  BY DEF WorkInv, Audited, AuditMatchesClaims
<1>2. ASSUME ReceiptsOnly
      PROVE  Spec /\ []Prompt => []AuditMatchesClaims
  BY <1>1, <1>2, WorkHolds, PTL
<1> QED
  BY <1>2

\* The table of statuses is all an observer of the missions table ever sees:
\* MissionStore implements MissionLifecycle, under the same conditions.
THEOREM LifecycleIsFollowed ==
  ReceiptsOnly => (Spec /\ []Prompt => FollowsLifecycle)
<1>1. Init => Lifecycle!Init
  <2>1. \A sched, cap : NewRow(sched, cap).status \in {"created", "waiting"}
    BY DEF NewRow, BlankRow
  <2> QED
    BY <2>1 DEF Init, Lifecycle!Init
<1>2. ASSUME ReceiptsOnly, RowInv, LockInv, WorkInv, Prompt, [Next]_vars
      PROVE  [Lifecycle!Next]_([m \in Missions |-> db[m].status])
  <2>1. Stepped
    BY <1>2, NextWorkInv
  <2>2. \A m \in Missions : db'[m].status \in PersistedStatuses
    <3>1. RowInv'
      BY <1>2, NextRowInv
    <3> QED
      BY <3>1 DEF RowInv, SafeRow, Row
  <2>3. Lifecycle!PersistedStatuses = PersistedStatuses
    BY DEF Lifecycle!PersistedStatuses, Lifecycle!Statuses, Lifecycle!TransientStatuses,
           PersistedStatuses, Statuses, TransientStatuses
  <2>4. \A s : Lifecycle!PersistedSteps(s) = PersistedSteps(s)
    BY DEF Lifecycle!PersistedSteps, Lifecycle!AllowedTransitions, Lifecycle!RunOutcomes,
           Lifecycle!CanTransition, Lifecycle!Statuses, Lifecycle!TransientStatuses,
           PersistedSteps, AllowedTransitions, RunOutcomes, CanTransition, Statuses,
           TransientStatuses
  <2> HIDE DEF Lifecycle!PersistedStatuses, Lifecycle!PersistedSteps
  <2>5. Lifecycle!Next
    BY <2>1, <2>2, <2>3, <2>4 DEF Lifecycle!Next, Stepped, Steps
  <2> QED
    BY <2>5
<1>3. ASSUME ReceiptsOnly
      PROVE  Spec /\ []Prompt => Lifecycle!Spec
  <2>1. RowInv /\ LockInv /\ WorkInv /\ Prompt /\ [Next]_vars
          => [Lifecycle!Next]_([m \in Missions |-> db[m].status])
    BY <1>2, <1>3
  <2> QED
    BY <1>1, <1>3, <2>1, WorkHolds, PTL DEF Spec, Lifecycle!Spec
<1> QED
  BY <1>3 DEF FollowsLifecycle

\* The table leaves no terminal status.
LEMMA NoStepFromTerminal == \A s \in TerminalStatuses : PersistedSteps(s) = {}
<1>1. TerminalStatuses \subseteq Statuses
  BY DEF TerminalStatuses, Statuses
<1>2. \A s \in TerminalStatuses : AllowedTransitions[s] = {}
  BY <1>1 DEF TerminalStatuses, AllowedTransitions
<1>3. \A s \in TerminalStatuses :
        /\ s # "processing" /\ s # "failed"
        /\ \A recovery, retry : ~CanTransition(s, "waiting", recovery, retry)
  <2>1. \A s \in TerminalStatuses : s # "processing" /\ s # "failed"
    BY DEF TerminalStatuses
  <2> QED
    BY <1>2, <2>1 DEF CanTransition
<1> QED
  BY <1>2, <1>3 DEF PersistedSteps

\* completed, cancelled and expired are final under the same conditions: the
\* worker that turns a completed Mission into failed is one that came back after
\* its claim had expired.
THEOREM TerminalsAreFinal ==
  ReceiptsOnly => (Spec /\ []Prompt => TerminalIsFinal)
<1>1. ASSUME ReceiptsOnly, RowInv, LockInv, WorkInv, Prompt, [Next]_vars
      PROVE  \A m \in Missions :
               db[m].status \in TerminalStatuses => db'[m].status = db[m].status
  <2>1. Stepped
    BY <1>1, NextWorkInv
  <2> QED
    BY <2>1, NoStepFromTerminal DEF Stepped, Steps
<1>2. ASSUME ReceiptsOnly
      PROVE  Spec /\ []Prompt => TerminalIsFinal
  <2>1. RowInv /\ LockInv /\ WorkInv /\ Prompt /\ [Next]_vars
          => [\A m \in Missions :
                db[m].status \in TerminalStatuses => db'[m].status = db[m].status]_vars
    BY <1>1, <1>2
  <2> QED
    BY <1>2, <2>1, WorkHolds, PTL DEF Spec, TerminalIsFinal
<1> QED
  BY <1>2
=============================================================================
