---------------------------- MODULE MissionStore ----------------------------
(* The missions table of PostgreSQL and the processes that change it: API  *)
(* sessions executing one command each, and worker processes executing     *)
(* recover / expire / claim / run cycles.  Every API request and every     *)
(* worker cycle is a READ COMMITTED transaction: it sees committed rows    *)
(* and its own writes, an UPDATE takes the row's lock until the end of the *)
(* transaction, and is checked against last_event_sequence only.           *)
EXTENDS MissionStateMachine, FiniteSets

CONSTANTS
  Missions,        \* mission identifiers
  Sessions,        \* API requests in flight at one time
  Workers,         \* processes that execute mission cycles
  OneShots,        \* those of them that are process-due commands, not worker loops
  Commands,        \* API commands the sessions may issue
  Modes,           \* execution modes a Mission may be run with
  MaxAttempts,     \* largest max_execution_attempts a user may choose
  ExpiresAt,       \* [Missions -> time or NoTime], fixed at creation
  ClaimTimeout,    \* age at which a claim counts as stale
  RetryDelay,      \* [attempt number -> delay of the automatic retry]
  Limit,           \* batch size of a worker cycle
  Crashable,       \* processes that may lose their transaction at any step
  MaxTime,         \* bound: the clock stops here
  MaxSeq,          \* bound: no API command is issued on a row with MaxSeq writes
  NoProc, NoMission

APICommands == {"pause", "resume", "cancel", "confirm", "retry", "run",
                "schedule", "patch", "provider"}

\* commands routed through _execute_idempotent_mission_command
ReceiptCommands == {"pause", "resume", "cancel", "confirm", "retry", "run"}

ExecutionModes == {"search_only", "require_confirmation", "auto_purchase"}

ASSUME ProcessAssumption ==
  /\ Sessions \cap Workers = {}
  /\ NoProc \notin Sessions \cup Workers
  /\ NoMission \notin Missions
  /\ OneShots \subseteq Workers
  /\ Crashable \subseteq Sessions \cup Workers
ASSUME FiniteAssumption == IsFiniteSet(Missions)
ASSUME CommandAssumption == Commands \subseteq APICommands /\ Modes \subseteq ExecutionModes
ASSUME BoundAssumption ==
  /\ MaxAttempts \in Nat \ {0}
  /\ ExpiresAt \in [Missions -> Nat \cup {NoTime}]
  /\ ClaimTimeout \in Nat \ {0}
  /\ RetryDelay \in [1..MaxAttempts -> Nat \ {0}]
  /\ Limit \in Nat \ {0}
  /\ MaxTime \in Nat
  /\ MaxSeq \in Nat

Procs == Sessions \cup Workers
Times == Nat \cup {NoTime}
AttemptStatuses == {"none", "processing", "requires_confirmation", "completed",
                    "failed", "recovered"}

(* A row of missions with its rows of mission_execution_attempts.  seq     *)
(* counts the event batches written: only its equality and its growth      *)
(* matter.  resv says that reservation_id is set.                          *)
Row == [status : PersistedStatuses, seq : Nat, attempts : 0..MaxAttempts,
        cap : 1..MaxAttempts, sched : Times, claimedAt : Times,
        resv : BOOLEAN, audit : [1..MaxAttempts -> AttemptStatuses]]

BlankRow == [status |-> "created", seq |-> 0, attempts |-> 0, cap |-> 1,
             sched |-> NoTime, claimedAt |-> NoTime, resv |-> FALSE,
             audit |-> [n \in 1..MaxAttempts |-> "none"]]

NewRow(sched, cap) ==
  [BlankRow EXCEPT !.status = IF sched = NoTime THEN "created" ELSE "waiting",
                   !.sched = sched, !.cap = cap]

VARIABLES
  now,       \* the clock
  db,        \* [Missions -> Row], the committed rows
  tx,        \* [Missions -> owner of the row lock and the row it has written]
  proc,      \* [Procs -> the local state of a process]
  provider   \* [Missions -> what the provider holds for the Mission's keys]

vars == <<now, db, tx, proc, provider>>

PCs == {"idle", "update", "provider", "resolve", "search", "autoconfirm",
        "commit", "expire", "claim", "batch", "mark", "marking"}

Idle == [pc |-> "idle", cmd |-> "none", m |-> NoMission,
         snap |-> BlankRow, todo |-> {}, time |-> 0]
Free == [owner |-> NoProc, row |-> BlankRow]

TypeOK ==
  /\ now \in 0..MaxTime
  /\ db \in [Missions -> Row]
  /\ tx \in [Missions -> [owner : Procs \cup {NoProc}, row : Row]]
  /\ proc \in [Procs -> [pc : PCs, cmd : APICommands \cup {"none", "cycle", "retryable"},
                         m : Missions \cup {NoMission}, snap : Row,
                         todo : SUBSET Missions, time : Nat]]
  /\ provider \in [Missions -> [res : {"none", "held", "cancelled"},
                                conf : {"none", "granted", "refused"}]]

-----------------------------------------------------------------------------
(* Rows                                                                    *)

Exhausted(row) == row.attempts >= row.cap

\* Mission.validate_claimed_at_for_status, run whenever a row is loaded: a
\* start time after the expiry makes the row unreadable
Readable(m, row) ==
  row.sched # NoTime /\ ExpiresAt[m] # NoTime => row.sched <= ExpiresAt[m]

Expired(m, t) == ExpiresAt[m] # NoTime /\ ExpiresAt[m] <= t

OpenAttempts(row) == {n \in 1..MaxAttempts : row.audit[n] = "processing"}

CloseOpenAttempt(row, outcome) ==
  [row EXCEPT !.audit = [n \in 1..MaxAttempts |->
     IF row.audit[n] = "processing" THEN outcome ELSE row.audit[n]]]

\* mutant: a failed attempt is left open
MutSyncAttempt(row) ==
  IF row.status \in {"requires_confirmation", "completed"}
  THEN CloseOpenAttempt(row, row.status) ELSE row

\* _synchronize_open_execution_attempt: only these statuses close the attempt
SyncAttempt(row) ==
  IF row.status \in {"requires_confirmation", "completed", "failed"}
  THEN CloseOpenAttempt(row, row.status) ELSE row

\* update: the whole Mission object, with the events it recorded since it was
\* read, overwrites the row; the attempts table is brought in line with its status
Written(row, snap) ==
  SyncAttempt([snap EXCEPT !.seq = snap.seq + 1, !.audit = row.audit])

\* _schedule_automatic_retry on a failed row, at time t
AutoRetry(m, row, t) ==
  LET at == t + RetryDelay[row.attempts]
  IN  [Transition(row, "waiting") EXCEPT
         !.sched = IF ExpiresAt[m] # NoTime /\ ExpiresAt[m] < at THEN ExpiresAt[m] ELSE at,
         !.resv = FALSE]

\* the rows a batch statement takes: at most Limit, smallest key first
Batches(eligible, key) ==
  {S \in SUBSET eligible :
     /\ Cardinality(S) <= Limit
     /\ S = eligible \/ Cardinality(S) = Limit
     /\ \A a \in S, b \in eligible \ S : key[a] <= key[b]}

-----------------------------------------------------------------------------
(* Transactions                                                            *)

\* what process p reads of a row: its own write, or the committed row
View(p, m) == IF tx[m].owner = p THEN tx[m].row ELSE db[m]

CanLock(p, m) == tx[m].owner \in {NoProc, p}

\* mutant: receipts take no share lock on the Mission
MutLockable(m) == tx[m].owner = NoProc

\* FOR UPDATE SKIP LOCKED also skips a row whose foreign-key share lock is
\* held by the uncommitted receipt of a command
Lockable(m) ==
  /\ tx[m].owner = NoProc
  /\ \A s \in Sessions : ~(proc[s].m = m /\ proc[s].cmd \in ReceiptCommands)

Flush(p, m, row) == tx' = [tx EXCEPT ![m] = [owner |-> p, row |-> row]]

Release(p) == tx' = [m \in Missions |-> IF tx[m].owner = p THEN Free ELSE tx[m]]

CommitTx(p) ==
  /\ db' = [m \in Missions |-> IF tx[m].owner = p THEN tx[m].row ELSE db[m]]
  /\ Release(p)
  /\ proc' = [proc EXCEPT ![p] = Idle]

RollbackTx(p) ==
  /\ Release(p)
  /\ proc' = [proc EXCEPT ![p] = Idle]
  /\ UNCHANGED db

Goto(p, pc) == proc' = [proc EXCEPT ![p].pc = pc]

-----------------------------------------------------------------------------
(* API commands: a request reads the row, applies the command to its copy  *)
(* and writes the copy back if the row still has the sequence it read.  A  *)
(* request whose guard fails answers 4xx and rolls back: it changes nothing. *)

Begin(s, cmd, m, pc, snap) ==
  /\ proc[s].pc = "idle"
  /\ cmd \in Commands
  /\ db[m].seq < MaxSeq
  /\ Readable(m, db[m])
  /\ proc' = [proc EXCEPT ![s] = [Idle EXCEPT !.pc = pc, !.cmd = cmd, !.m = m,
                                              !.snap = snap]]
  /\ UNCHANGED <<now, db, tx, provider>>

\* mutant: whatever has not ended can be paused
MutPause(s, m) ==
  /\ db[m].status \notin TerminalStatuses
  /\ Begin(s, "pause", m, "update", Transition(db[m], "paused"))

Pause(s, m) ==
  /\ db[m].status \in {"created", "waiting"}
  /\ Begin(s, "pause", m, "update", Transition(db[m], "paused"))

Resume(s, m) ==
  /\ db[m].status = "paused"
  /\ Begin(s, "resume", m, "update",
           Transition(db[m], IF db[m].sched = NoTime THEN "created" ELSE "waiting"))

\* mutant: the reservation is left to lapse at the provider
MutCancel(s, m) ==
  /\ db[m].status \in ExpirableStatuses \cup {"requires_confirmation"}
  /\ Begin(s, "cancel", m, "update", Transition(db[m], "cancelled"))

\* a Mission waiting for confirmation is first cancelled at its provider
Cancel(s, m) ==
  \/ /\ db[m].status \in ExpirableStatuses
     /\ Begin(s, "cancel", m, "update", Transition(db[m], "cancelled"))
  \/ /\ db[m].status = "requires_confirmation"
     /\ Begin(s, "cancel", m, "provider", db[m])

Confirm(s, m) ==
  /\ db[m].status = "requires_confirmation"
  /\ Begin(s, "confirm", m, "provider", db[m])

\* retry_at is compared with the clock, not with expires_at
Retry(s, m) ==
  /\ db[m].status = "failed"
  /\ ~Exhausted(db[m])
  /\ \E at \in now..MaxTime :
       Begin(s, "retry", m, "update",
             [Transition(db[m], "waiting") EXCEPT !.sched = at, !.resv = FALSE])

Schedule(s, m) ==
  /\ db[m].status \in ExpirableStatuses
  /\ \/ \E at \in (now + 1)..MaxTime :
          /\ at # db[m].sched
          /\ ExpiresAt[m] # NoTime => at <= ExpiresAt[m]
          /\ LET row == [db[m] EXCEPT !.sched = at]
             IN  Begin(s, "schedule", m, "update",
                       IF row.status = "created" THEN Transition(row, "waiting") ELSE row)
     \/ /\ db[m].sched # NoTime
        /\ db[m].status # "created"
        /\ LET row == [db[m] EXCEPT !.sched = NoTime]
           IN  Begin(s, "schedule", m, "update",
                     IF row.status = "waiting" THEN Transition(row, "created") ELSE row)

\* PATCH: the attempt cap, or fields no property here depends on (cap unchanged)
Patch(s, m) ==
  /\ db[m].status \in ExpirableStatuses
  /\ \E cap \in 1..MaxAttempts :
       /\ cap >= db[m].attempts
       /\ Begin(s, "patch", m, "update", [db[m] EXCEPT !.cap = cap])

\* mutant: the provider can still be changed once it holds a reservation
MutSetProvider(s, m) ==
  /\ db[m].status \in ExpirableStatuses \cup {"requires_confirmation"}
  /\ Begin(s, "provider", m, "update", [db[m] EXCEPT !.resv = FALSE])

SetProvider(s, m) ==
  /\ db[m].status \in ExpirableStatuses
  /\ Begin(s, "provider", m, "update", [db[m] EXCEPT !.resv = FALSE])

\* mutant: the transition to running comes before the first update
MutRun(s, m) ==
  /\ db[m].status \in {"created", "waiting"}
  /\ ~Expired(m, now)
  /\ Begin(s, "run", m, "resolve", Transition(db[m], "running"))

Run(s, m) ==
  /\ db[m].status \in {"created", "waiting"}
  /\ ~Expired(m, now)
  /\ ~(db[m].status = "waiting" /\ db[m].sched > now)
  /\ Begin(s, "run", m, "resolve", db[m])

\* mutant: the update does not compare sequences
MutUpdate(s) ==
  LET p == proc[s] IN
  /\ p.pc = "update"
  /\ CanLock(s, p.m)
  /\ Flush(s, p.m, Written(db[p.m], p.snap))
  /\ Goto(s, "commit")
  /\ UNCHANGED <<now, db, provider>>

\* repository.update of a session: compare-and-set, then the row lock is held
Update(s) ==
  LET p == proc[s] IN
  /\ p.pc = "update"
  /\ CanLock(s, p.m)
  /\ IF db[p.m].seq = p.snap.seq
     THEN /\ Flush(s, p.m, Written(db[p.m], p.snap))
          /\ Goto(s, "commit")
          /\ UNCHANGED db
     ELSE RollbackTx(s)
  /\ UNCHANGED <<now, provider>>

Commit(s) ==
  /\ proc[s].pc = "commit"
  /\ CommitTx(s)
  /\ UNCHANGED <<now, provider>>

-----------------------------------------------------------------------------
(* The provider.  Reservation and confirmation keys are derived from the   *)
(* Mission id, so a repeated call is answered from the first one.  An      *)
(* error (ProviderOperationError) leaves it open whether the call took     *)
(* effect; a provider may also decline.                                    *)

ConfirmReplies(m) ==
  LET held == provider[m]
      answers == IF held.conf # "none" THEN {held.conf}
                 ELSE IF held.res = "held" THEN {"granted", "refused"} ELSE {"refused"}
  IN  {[conf |-> c, reply |-> c] : c \in answers}
        \cup {[conf |-> c, reply |-> "error"] : c \in answers \cup {held.conf}}

ReserveReplies(m) ==
  LET res == provider[m].res
      kept == IF res = "none" THEN "held" ELSE res
  IN  {[res |-> kept, reply |-> "granted"], [res |-> res, reply |-> "refused"]}
        \cup {[res |-> r, reply |-> "error"] : r \in {res, kept}}

CancelReplies(m) ==
  LET res == provider[m].res
      gone == IF res = "none" THEN "none" ELSE "cancelled"
  IN  {[res |-> gone, reply |-> IF gone = "cancelled" THEN "granted" ELSE "refused"],
       [res |-> res, reply |-> "refused"]}
        \cup {[res |-> r, reply |-> "error"] : r \in {res, gone}}

\* mutant: a refusal is taken for an answer
MutProviderConfirm(s) ==
  LET p == proc[s] IN
  /\ p.pc = "provider" /\ p.cmd = "confirm"
  /\ \E r \in ConfirmReplies(p.m) :
       /\ provider' = [provider EXCEPT ![p.m].conf = r.conf]
       /\ proc' = [proc EXCEPT ![s].pc = "update", ![s].snap =
            Transition(p.snap, IF r.reply # "error" THEN "completed" ELSE "failed")]
  /\ UNCHANGED <<now, db, tx>>

\* confirm_mission and cancel_mission between their read and their update
ProviderConfirm(s) ==
  LET p == proc[s] IN
  /\ p.pc = "provider" /\ p.cmd = "confirm"
  /\ \E r \in ConfirmReplies(p.m) :
       /\ provider' = [provider EXCEPT ![p.m].conf = r.conf]
       /\ proc' = [proc EXCEPT ![s].pc = "update", ![s].snap =
            Transition(p.snap, IF r.reply = "granted" THEN "completed" ELSE "failed")]
  /\ UNCHANGED <<now, db, tx>>

ProviderCancel(s) ==
  LET p == proc[s] IN
  /\ p.pc = "provider" /\ p.cmd = "cancel"
  /\ \E r \in CancelReplies(p.m) :
       /\ provider' = [provider EXCEPT ![p.m].res = r.res]
       /\ proc' = [proc EXCEPT ![s].pc = "update", ![s].snap =
            Transition(p.snap, IF r.reply = "granted" THEN "cancelled" ELSE "failed")]
  /\ UNCHANGED <<now, db, tx>>

-----------------------------------------------------------------------------
(* run_mission, executed by a session or by a worker.  Its first update    *)
(* (provider_resolved) takes the row lock; everything after it, provider   *)
(* calls included, happens while the lock is held.                         *)

\* the batch of a worker continues without mission m
NextMission(w) ==
  proc' = [proc EXCEPT ![w] = [Idle EXCEPT !.pc = "batch", !.cmd = "cycle",
             !.todo = proc[w].todo \ {proc[w].m}, !.time = proc[w].time]]

\* an exception inside the run: the request rolls back, the worker marks the
\* Mission failed; retryable for ConnectionError and TimeoutError
Raise(p, retryable) ==
  IF p \in Sessions THEN RollbackTx(p)
  ELSE /\ proc' = [proc EXCEPT ![p].pc = "mark",
                               ![p].cmd = IF retryable THEN "retryable" ELSE "cycle"]
       /\ UNCHANGED <<db, tx>>

Resolve(p) ==
  LET m == proc[p].m
      row == View(p, m) IN
  /\ proc[p].pc = "resolve"
  /\ CanLock(p, m)
  /\ \/ /\ row.seq = proc[p].snap.seq
        /\ Flush(p, m, Written(row, proc[p].snap))
        /\ Goto(p, "search")
        /\ UNCHANGED db
     \/ /\ row.seq # proc[p].snap.seq
        /\ Raise(p, FALSE)
  /\ UNCHANGED <<now, provider>>

\* the resolver refuses: provider_resolution_failed is written, then raised
ResolveRefused(p) ==
  LET m == proc[p].m
      row == View(p, m) IN
  /\ proc[p].pc = "resolve"
  /\ CanLock(p, m)
  /\ row.seq = proc[p].snap.seq
  /\ IF p \in Sessions THEN RollbackTx(p)
     ELSE /\ Flush(p, m, Written(row, proc[p].snap))
          /\ Goto(p, "mark")
          /\ UNCHANGED db
  /\ UNCHANGED <<now, provider>>

\* the run ended well: the row is written, a session goes on to its commit
FinishRun(p, row) ==
  /\ Flush(p, proc[p].m, Written(tx[proc[p].m].row, row))
  /\ IF p \in Sessions THEN Goto(p, "commit") ELSE NextMission(p)
  /\ UNCHANGED db

\* the run ended in failed: a worker schedules its automatic retry, or records
\* mission_failed, in the same transaction
FailRun(p, retryable, snap) ==
  LET m == proc[p].m
      failed == Written(tx[m].row, Transition(snap, "failed")) IN
  \/ /\ p \in Sessions
     /\ Flush(p, m, failed)
     /\ Goto(p, "commit")
     /\ UNCHANGED db
  \/ /\ p \in Workers
     /\ retryable /\ ~Exhausted(failed) /\ failed.attempts > 0
     /\ Flush(p, m, Written(failed, AutoRetry(m, failed, proc[p].time)))
     /\ NextMission(p)
     /\ UNCHANGED db
  \/ /\ p \in Workers
     /\ retryable => Exhausted(failed)
     /\ Flush(p, m, Written(failed, failed))
     /\ NextMission(p)
     /\ UNCHANGED db
  \/ /\ p \in Workers          \* delay_after_attempt(0) raises out of the batch
     /\ retryable /\ ~Exhausted(failed) /\ failed.attempts = 0
     /\ RollbackTx(p)

\* participants, search and rules: fails, ends a search-only run, or goes on
Search(p) ==
  LET row == tx[proc[p].m].row IN
  /\ proc[p].pc = "search"
  /\ \/ \E retryable \in BOOLEAN : FailRun(p, retryable, row)
     \/ \E retryable \in BOOLEAN : Raise(p, retryable)
     \/ /\ "search_only" \in Modes
        /\ FinishRun(p, Transition(row, "completed"))
  /\ UNCHANGED <<now, provider>>

\* after the search of the same run: reserve_option and what follows from it
Reserve(p) ==
  LET m == proc[p].m
      row == tx[m].row
      reserved == [row EXCEPT !.resv = TRUE] IN
  /\ proc[p].pc = "search"
  /\ Modes \ {"search_only"} # {}
  /\ \E r \in ReserveReplies(m) :
       /\ provider' = [provider EXCEPT ![m].res = r.res]
       /\ \/ /\ r.reply = "error"
             /\ \E retryable \in BOOLEAN : FailRun(p, retryable, row)
          \/ /\ r.reply = "refused"
             /\ FailRun(p, FALSE, row)
          \/ /\ r.reply = "granted"
             /\ "require_confirmation" \in Modes
             /\ FinishRun(p, Transition(reserved, "requires_confirmation"))
          \/ /\ r.reply = "granted"     \* the provider asks for no confirmation
             /\ "auto_purchase" \in Modes
             /\ FinishRun(p, Transition(reserved, "completed"))
          \/ /\ r.reply = "granted"
             /\ "auto_purchase" \in Modes
             /\ proc' = [proc EXCEPT ![p].pc = "autoconfirm", ![p].snap = reserved]
             /\ UNCHANGED <<db, tx>>
  /\ UNCHANGED now

AutoConfirm(p) ==
  LET m == proc[p].m
      row == proc[p].snap IN
  /\ proc[p].pc = "autoconfirm"
  /\ \E r \in ConfirmReplies(m) :
       /\ provider' = [provider EXCEPT ![m].conf = r.conf]
       /\ \/ /\ r.reply = "granted"
             /\ FinishRun(p, Transition(row, "completed"))
          \/ /\ r.reply = "refused"
             /\ FailRun(p, FALSE, row)
          \/ /\ r.reply = "error"
             /\ \E retryable \in BOOLEAN : FailRun(p, retryable, row)
  /\ UNCHANGED now

-----------------------------------------------------------------------------
(* Worker cycles                                                           *)

\* recover_stale_processing, a transaction of its own, opens a worker cycle
Recovered(row) ==
  LET target == IF Exhausted(row) THEN "failed" ELSE "waiting"
  IN  CloseOpenAttempt([Transition(row, target) EXCEPT !.seq = row.seq + 1],
                       IF target = "failed" THEN "failed" ELSE "recovered")

\* mutant: a Mission without attempts left is not recovered
MutStale(m) ==
  /\ db[m].status = "processing"
  /\ ~Exhausted(db[m])
  /\ db[m].claimedAt + ClaimTimeout <= now

Stale(m) ==
  /\ db[m].status = "processing"
  /\ db[m].claimedAt # NoTime
  /\ db[m].claimedAt + ClaimTimeout <= now

Recover(w) ==
  /\ w \notin OneShots
  /\ proc[w].pc = "idle"
  /\ \E S \in Batches({m \in Missions : Stale(m) /\ Lockable(m)},
                      [m \in Missions |-> db[m].claimedAt]) :
       db' = [m \in Missions |-> IF m \in S THEN Recovered(db[m]) ELSE db[m]]
  /\ proc' = [proc EXCEPT ![w] = [Idle EXCEPT !.pc = "expire", !.cmd = "cycle", !.time = now]]
  /\ UNCHANGED <<now, tx, provider>>

\* the process-due command is a cycle without the recovery
ProcessDue(w) ==
  /\ w \in OneShots
  /\ proc[w].pc = "idle"
  /\ proc' = [proc EXCEPT ![w] = [Idle EXCEPT !.pc = "expire", !.cmd = "cycle", !.time = now]]
  /\ UNCHANGED <<now, db, tx, provider>>

\* expire_due: one unreadable row of the batch fails the whole cycle
Expire(w) ==
  LET due == {m \in Missions : /\ db[m].status \in ExpirableStatuses
                               /\ Expired(m, proc[w].time)
                               /\ Lockable(m)} IN
  /\ proc[w].pc = "expire"
  /\ \E S \in Batches(due, ExpiresAt) :
       \/ /\ \A m \in S : Readable(m, db[m])
          /\ db' = [m \in Missions |->
               IF m \in S THEN [Transition(db[m], "expired") EXCEPT !.seq = db[m].seq + 1]
               ELSE db[m]]
          /\ Goto(w, "claim")
          /\ UNCHANGED tx
       \/ /\ \E m \in S : ~Readable(m, db[m])
          /\ RollbackTx(w)
  /\ UNCHANGED <<now, provider>>

\* claim_due: an attempt row that already exists, or is still open, violates a
\* unique index and fails the whole cycle
Claimed(row, t) ==
  [row EXCEPT !.status = "processing", !.claimedAt = t, !.attempts = row.attempts + 1,
              !.audit = [row.audit EXCEPT ![row.attempts + 1] = "processing"]]

Claimable(row) == OpenAttempts(row) = {} /\ row.audit[row.attempts + 1] = "none"

Due(m, t) ==
  /\ db[m].status = "waiting"
  /\ db[m].sched # NoTime /\ db[m].sched <= t
  /\ ~Expired(m, t)
  /\ ~Exhausted(db[m])

Claim(w) ==
  LET t == proc[w].time IN
  /\ proc[w].pc = "claim"
  /\ \E S \in Batches({m \in Missions : Due(m, t) /\ Lockable(m)},
                      [m \in Missions |-> db[m].sched]) :
       \/ /\ \A m \in S : Claimable(db[m])
          /\ db' = [m \in Missions |-> IF m \in S THEN Claimed(db[m], t) ELSE db[m]]
          /\ proc' = [proc EXCEPT ![w].pc = "batch", ![w].todo = S]
          /\ UNCHANGED tx
       \/ /\ \E m \in S : ~Claimable(db[m])
          /\ RollbackTx(w)
  /\ UNCHANGED <<now, provider>>

\* run_mission's read and guard for the next Mission of the batch.  The claim
\* left out every Mission whose expiry is not after the cycle's time.
Pick(w) ==
  /\ proc[w].pc = "batch"
  /\ \E m \in proc[w].todo :
       LET row == View(w, m)
           runnable == /\ row.status \in {"created", "waiting", "processing"}
                       /\ ~(row.status = "waiting" /\ row.sched > proc[w].time)
                       /\ Readable(m, row)
       IN  proc' = [proc EXCEPT ![w] = [proc[w] EXCEPT
             !.pc = IF runnable THEN "resolve" ELSE "mark",
             !.m = m, !.snap = row]]
  /\ UNCHANGED <<now, db, tx, provider>>

\* _mark_claimed_mission_failed reads the row again, whatever its status is now
Mark(w) ==
  LET m == proc[w].m
      row == View(w, m) IN
  /\ proc[w].pc = "mark"
  /\ \/ /\ Readable(m, row)
        /\ proc' = [proc EXCEPT ![w].pc = "marking",
                                ![w].snap = Transition(row, "failed")]
        /\ UNCHANGED <<db, tx>>
     \/ /\ ~Readable(m, row)
        /\ RollbackTx(w)
  /\ UNCHANGED <<now, provider>>

\* mutant: the failure overwrites whatever was committed since it was read
MutMarkFailed(w) ==
  LET m == proc[w].m IN
  /\ proc[w].pc = "marking"
  /\ CanLock(w, m)
  /\ Flush(w, m, Written(View(w, m), proc[w].snap))
  /\ NextMission(w)
  /\ UNCHANGED <<now, db, provider>>

\* its update, and the automatic retry when the exception allows one; what
\* raises here leaves process_due and rolls the whole batch back
MarkFailed(w) ==
  LET m == proc[w].m
      failed == Written(View(w, m), proc[w].snap)
      retry == proc[w].cmd = "retryable"
      raises == retry /\ (Exhausted(failed) \/ failed.attempts = 0)
      conflict == View(w, m).seq # proc[w].snap.seq IN
  /\ proc[w].pc = "marking"
  /\ CanLock(w, m)
  /\ \/ /\ conflict \/ raises
        /\ RollbackTx(w)
     \/ /\ ~conflict /\ ~raises
        /\ Flush(w, m, IF retry THEN Written(failed, AutoRetry(m, failed, proc[w].time))
                       ELSE failed)
        /\ NextMission(w)
        /\ UNCHANGED db
  /\ UNCHANGED <<now, provider>>

\* the whole batch is one transaction, committed at its end
EndCycle(w) ==
  /\ proc[w].pc = "batch" /\ proc[w].todo = {}
  /\ CommitTx(w)
  /\ UNCHANGED <<now, provider>>

-----------------------------------------------------------------------------
(* Failures, time, and the whole system                                    *)

\* a lost connection or a killed process: PostgreSQL rolls its transaction back
Crash(p) ==
  /\ p \in Crashable
  /\ proc[p].pc # "idle"
  /\ RollbackTx(p)
  /\ UNCHANGED <<now, provider>>

Blocked(p) ==
  /\ proc[p].pc \in {"update", "resolve", "marking"}
  /\ ~CanLock(p, proc[p].m)

\* PostgreSQL breaks a cycle of lock waits by failing one of its transactions
DeadlockVictim(p) ==
  /\ \E S \in SUBSET Procs :
       /\ p \in S
       /\ \A q \in S : Blocked(q) /\ tx[proc[q].m].owner \in S
       /\ \A q \in S : \E r \in S : tx[proc[r].m].owner = q
  /\ RollbackTx(p)
  /\ UNCHANGED <<now, provider>>

Tick ==
  /\ now < MaxTime
  /\ now' = now + 1
  /\ UNCHANGED <<db, tx, proc, provider>>

RunStep(p) ==
  \/ Resolve(p) \/ ResolveRefused(p) \/ Search(p) \/ Reserve(p) \/ AutoConfirm(p)

Request(s) ==
  \E m \in Missions :
    \/ Pause(s, m) \/ Resume(s, m) \/ Cancel(s, m) \/ Confirm(s, m) \/ Retry(s, m)
    \/ Schedule(s, m) \/ Patch(s, m) \/ SetProvider(s, m) \/ Run(s, m)

SessionStep(s) ==
  ProviderConfirm(s) \/ ProviderCancel(s) \/ Update(s) \/ Commit(s) \/ RunStep(s)

CycleStep(w) ==
  \/ Expire(w) \/ Claim(w) \/ Pick(w) \/ Mark(w) \/ MarkFailed(w) \/ EndCycle(w)
  \/ RunStep(w)

Init ==
  /\ now = 0
  /\ db \in [Missions -> {NewRow(sched, cap) : sched \in {NoTime} \cup 0..MaxTime,
                                               cap \in 1..MaxAttempts}]
  /\ \A m \in Missions : Readable(m, db[m])
  /\ tx = [m \in Missions |-> Free]
  /\ proc = [p \in Procs |-> Idle]
  /\ provider = [m \in Missions |-> [res |-> "none", conf |-> "none"]]

Next ==
  \/ Tick
  \/ \E s \in Sessions : Request(s) \/ SessionStep(s)
  \/ \E w \in Workers : Recover(w) \/ ProcessDue(w) \/ CycleStep(w)
  \/ \E p \in Procs : Crash(p) \/ DeadlockVictim(p)

Spec == Init /\ [][Next]_vars

\* The clock advances; a request or a cycle that was begun goes on until it
\* ends or its process is killed; a worker loop that cannot be killed polls for
\* ever.  Nobody has to issue a request or a process-due command.
Fairness ==
  /\ WF_vars(Tick)
  /\ \A s \in Sessions : WF_vars(SessionStep(s) \/ Crash(s) \/ DeadlockVictim(s))
  /\ \A w \in Workers : WF_vars(CycleStep(w) \/ Crash(w) \/ DeadlockVictim(w))
  /\ \A w \in Workers \ Crashable : WF_vars(Recover(w))

FairSpec == Spec /\ Fairness

-----------------------------------------------------------------------------
(* Properties                                                              *)

\* What Mission's validators demand of a row outlives every race: a committed
\* row is stamped with a claim time exactly while it is processing, and its
\* attempts never exceed the cap (mission.py validate_claimed_at_for_status).
ClaimStamp ==
  \A m \in Missions :
    /\ db[m].status = "processing" <=> db[m].claimedAt # NoTime
    /\ db[m].attempts <= db[m].cap

\* last_event_sequence is a version: no transaction, however stale its copy,
\* commits a changed row under a version that was already taken.  Only the
\* claim of a waiting Mission changes a row without a new version.
VersionedWrites ==
  [][\A m \in Missions :
       db'[m] # db[m] =>
         \/ db'[m].seq > db[m].seq
         \/ /\ db[m].status = "waiting" /\ db'[m].status = "processing"
            /\ db'[m] = Claimed(db[m], db'[m].claimedAt)]_vars

\* A Mission asks the user to confirm only what the provider was asked to
\* reserve: requires_confirmation is never committed without a reservation.
ConfirmableIsReserved ==
  \A m \in Missions :
    db[m].status = "requires_confirmation" => db[m].resv /\ provider[m].res # "none"

\* A Mission that is cancelled with a reservation on record has had that
\* reservation cancelled at its provider first (cancel_mission's order).
CancelledIsReleased ==
  \A m \in Missions :
    db[m].status = "cancelled" /\ db[m].resv => provider[m].res = "cancelled"

\* In the mode that asks for confirmation, a Mission completes only after the
\* provider granted the confirmation the user asked for.
CompletedIsConfirmed ==
  Modes = {"require_confirmation"} =>
    \A m \in Missions : db[m].status = "completed" => provider[m].conf = "granted"

\* The audit agrees with the Mission: attempts 1..execution_attempts are on
\* record and no others, and an attempt is open exactly while the Mission is
\* processing, the last one (claim_due, update, recover_stale_processing).
AuditMatchesClaims ==
  \A m \in Missions :
    /\ \A n \in 1..MaxAttempts : db[m].audit[n] = "none" <=> n > db[m].attempts
    /\ OpenAttempts(db[m]) =
         IF db[m].status = "processing" THEN {db[m].attempts} ELSE {}

\* A claim is exclusive: two processes never work on the same Mission at once,
\* be it two workers, or a worker and a user's run that holds the row.
Working(p) ==
  proc[p].todo \cup (IF proc[p].pc \in {"search", "autoconfirm"} THEN {proc[p].m} ELSE {})

ExclusiveClaim ==
  \A p, q \in Procs : p # q => Working(p) \cap Working(q) = {}

\* Every committed change of status is a step of the status table.
Lifecycle == INSTANCE MissionLifecycle WITH status <- [m \in Missions |-> db[m].status]
FollowsLifecycle == Lifecycle!Spec

\* completed, cancelled and expired are never left (README, state machine).
TerminalIsFinal ==
  [][\A m \in Missions :
       db[m].status \in TerminalStatuses => db'[m].status = db[m].status]_vars

\* A reservation cancelled at the provider on the user's request is never sold
\* to the user as a completed Mission.
CompletedIsHeld ==
  \A m \in Missions :
    db[m].status = "completed" /\ db[m].resv => provider[m].res = "held"

\* A claim whose owner is gone does not keep its Mission: once stale it is
\* recovered, while another worker keeps polling.
StaleClaimIsRecovered ==
  \A m \in Missions :
    (db[m].status = "processing" /\ db[m].claimedAt + ClaimTimeout <= MaxTime)
      ~> db[m].status # "processing"

\* A due Mission is eventually taken out of waiting, by a worker or its user.
\* The exception are requests to run it that follow one another for ever: the
\* receipt of such a request holds the row's lock, and a claim skips a locked row.
DueIsClaimed ==
  \A m \in Missions :
    \/ Due(m, now) ~> db[m].status # "waiting"
    \/ []<>(\E s \in Sessions : proc[s].m = m /\ proc[s].cmd = "run")
=============================================================================
