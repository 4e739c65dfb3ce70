--------------------------- MODULE MissionEventLog ---------------------------
(***************************************************************************)
(* The history of a Mission in its four copies: the canonical log in the   *)
(* Mission's row, the rows of mission_events and of                        *)
(* mission_provider_history_events, and the outbox; and those who use the  *)
(* copies: clients that page and poll, the administrator's verification,   *)
(* and the two rebuild commands.                                           *)
(*                                                                         *)
(* Transactions are PostgreSQL's READ COMMITTED ones: each statement sees  *)
(* what was committed when it began and its own transaction's writes.      *)
(***************************************************************************)
EXTENDS Integers, FiniteSets, SequencesExt

CONSTANTS
  Missions,    \* Missions, all created: a Mission is created with an empty log
  Writers,     \* transactions of requests and workers
  Rebuilders,  \* processes of the two rebuild commands
  Readers,     \* clients that follow a Mission's history, administrators that verify it
  Legacy,      \* events that the migrations found in a log, types by position;
               \* what happened before the outbox existed is "plain" to it
  Written,     \* types of the events that requests and workers record
  Batch,       \* most events one update appends
  Limit,       \* page size
  MaxWait,     \* most rereads of a long poll
  MaxEvents,   \* bound on the length of a log
  None         \* no Mission, no writer

ASSUME ConstantsAssumption ==
  /\ Written \subseteq {"plain", "provider", "notify"}
  /\ Batch \in Nat \ {0} /\ Limit \in Nat \ {0} /\ MaxWait \in Nat
  /\ MaxEvents \in Nat /\ None \notin Missions \cup Writers
  /\ \A old \in Legacy : /\ old \in Seq({"plain", "provider", "recovered"})
                         /\ Len(old) <= MaxEvents

VARIABLES
  log,      \* execution_log of each Mission, last_event_sequence is its length
  rows,     \* rows of the two projections
  outbox,   \* rows of notification_outbox, by Mission and sequence
  lock,     \* who holds the row lock of each Mission
  writer, rebuild, reader   \* the processes

vars == <<log, rows, outbox, lock, writer, rebuild, reader>>

Tables == {"events", "provider"}
\* provider: the three types of PROVIDER_HISTORY_EVENT_TYPES; notify: those of
\* NOTIFICATION_EVENT_TYPES; recovered: claim_recovered
Types == {"plain", "provider", "notify", "recovered"}
\* correlation_id and causation_id name an event of the same log by its sequence;
\* the events of schema versions below 3 have neither.
Absent == -1
Raws == [type : Types, corr : Nat \cup {Absent}, cause : Nat \cup {Absent}]
Rows == [m : Missions, seq : Nat, type : Types,
         corr : Nat \cup {Absent}, cause : Nat \cup {Absent}]

-----------------------------------------------------------------------------
(* Events, their stored form and their projections                          *)

\* mutant: an event read from an old schema starts a thread of its own
MutDeserialize(raw) ==
  [i \in DOMAIN raw |->
     [type |-> raw[i].type,
      corr |-> IF raw[i].corr = Absent THEN i ELSE raw[i].corr,
      cause |-> IF raw[i].cause = Absent THEN i - 1 ELSE raw[i].cause]]

\* The upcasters give an event without links the thread of the event before it, so
\* that of the last one before it that names a thread, and that event as its cause.
Thread(raw, i) ==
  LET linked == {j \in 1..i : raw[j].corr # Absent}
  IN IF linked = {} THEN 1 ELSE raw[Max(linked)].corr
Deserialize(raw) ==
  [i \in DOMAIN raw |->
     [type |-> raw[i].type, corr |-> Thread(raw, i),
      cause |-> IF raw[i].cause = Absent THEN i - 1 ELSE raw[i].cause]]

\* record_event, for one event after the other: each continues the thread of the last
Recorded(events, types) ==
  LET n == Len(events) IN
  events \o [i \in DOMAIN types |->
               [type |-> types[i], corr |-> IF n = 0 THEN 1 ELSE events[n].corr,
                cause |-> n + i - 1]]

\* indexed_events_after and the two projections of an event; the provider history
\* has no columns for the links
Row(table, m, i, e) ==
  [m |-> m, seq |-> i, type |-> e.type, corr |-> IF table = "events" THEN e.corr ELSE Absent,
   cause |-> IF table = "events" THEN e.cause ELSE Absent]
RowsAfter(table, m, events, base) ==
  {Row(table, m, i, events[i]) :
     i \in {j \in (base + 1)..Len(events) : table = "events" \/ events[j].type = "provider"}}
NoticesAfter(m, events, base) ==
  {<<m, i>> : i \in {j \in (base + 1)..Len(events) : events[j].type = "notify"}}

\* a row's primary key
Key(r) == <<r.m, r.seq>>
Keys(rs) == {Key(r) : r \in rs}

-----------------------------------------------------------------------------
(* Initial state: a database whose projections were filled by the migrations *)

IdleWriter == [pc |-> "idle", m |-> None, events |-> <<>>, base |-> 0,
               rows |-> [t \in Tables |-> {}], out |-> {}]
IdleRebuild == [pc |-> "idle", table |-> "events", doomed |-> {}, logs |-> <<>>,
                todo |-> {}, new |-> {}]
NewReader(role, m, table) == [role |-> role, pc |-> "idle", m |-> m, table |-> table,
                              after |-> 0, got |-> {}, left |-> 0, canon |-> <<>>]

Init ==
  /\ \E old \in [Missions -> Legacy] :
       log = [m \in Missions |->
                [i \in DOMAIN old[m] |-> [type |-> old[m][i], corr |-> Absent, cause |-> Absent]]]
  /\ rows = [t \in Tables |-> UNION {RowsAfter(t, m, log[m], 0) : m \in Missions}]
  /\ outbox = {}
  /\ lock = [m \in Missions |-> None]
  /\ writer = [w \in Writers |-> IdleWriter]
  /\ rebuild = [r \in Rebuilders |-> IdleRebuild]
  /\ reader \in [Readers -> {NewReader(role, m, t) :
                              role \in {"client", "admin"}, m \in Missions, t \in Tables}]

-----------------------------------------------------------------------------
(* Writers: requests and worker runs                                        *)

\* get
Load(w, m) ==
  /\ writer[w].pc = "idle"
  /\ writer' = [writer EXCEPT ![w] = [IdleWriter EXCEPT !.pc = "loaded", !.m = m,
                                        !.events = Deserialize(log[m]), !.base = Len(log[m])]]
  /\ UNCHANGED <<log, rows, outbox, lock, rebuild, reader>>

\* the transaction ends; its row lock is released
Ended(w) ==
  /\ writer' = [writer EXCEPT ![w] = IdleWriter]
  /\ lock' = [m \in Missions |-> IF lock[m] = w THEN None ELSE lock[m]]

\* mutant: the update compares nothing
MutSeen(w) == TRUE

\* the compare-and-set on last_event_sequence, on the newest committed row or on
\* the row this transaction has written
Seen(w) == lock[writer[w].m] = w \/ Len(log[writer[w].m]) = writer[w].base

\* mutant: the first of the new events is taken for a projected one
MutNewRows(t, w, events) == RowsAfter(t, writer[w].m, events, writer[w].base + 1)
NewRows(t, w, events) == RowsAfter(t, writer[w].m, events, writer[w].base)

\* A command records its events and calls update, which writes the whole log and
\* projects what is new.  It waits for the row lock of another transaction.
Update(w) ==
  /\ writer[w].pc \in {"loaded", "updated"}
  /\ lock[writer[w].m] \in {None, w} /\ Seen(w)
  /\ \E n \in 1..Batch : \E types \in [1..n -> Written] :
       LET x == writer[w]
           m == x.m
           events == Recorded(x.events, types)
       IN
       /\ Len(events) <= MaxEvents
       /\ writer' = [writer EXCEPT ![w] =
            [x EXCEPT !.pc = "updated", !.events = events, !.base = Len(events),
                      !.rows = [t \in Tables |-> x.rows[t] \cup NewRows(t, w, events)],
                      !.out = x.out \cup NoticesAfter(m, events, x.base)]]
       /\ lock' = [lock EXCEPT ![m] = w]
  /\ UNCHANGED <<log, rows, outbox, rebuild, reader>>

\* MissionEventSequenceConflictError: the request answers 409 and rolls back
Conflict(w) ==
  /\ writer[w].pc = "loaded"
  /\ lock[writer[w].m] = None /\ ~Seen(w)
  /\ Ended(w)
  /\ UNCHANGED <<log, rows, outbox, rebuild, reader>>

\* an error after an update, or the end of the process
Rollback(w) ==
  /\ writer[w].pc \in {"loaded", "updated"}
  /\ Ended(w)
  /\ UNCHANGED <<log, rows, outbox, rebuild, reader>>

Commit(w) ==
  /\ writer[w].pc = "updated"
  /\ log' = [log EXCEPT ![writer[w].m] = writer[w].events]
  /\ rows' = [t \in Tables |-> rows[t] \cup writer[w].rows[t]]
  /\ outbox' = outbox \cup writer[w].out
  /\ Ended(w)
  /\ UNCHANGED <<rebuild, reader>>

-----------------------------------------------------------------------------
(* The worker's statements that lock rows themselves                        *)

\* FOR UPDATE SKIP LOCKED skips a Mission that is being updated, and one whose
\* key the inserts of a rebuild refer to
Skipped(m) ==
  \/ lock[m] # None
  \/ \E r \in Rebuilders : \E row \in rebuild[r].new : row.m = m

\* mutant: expire_due projects nothing either
MutExpire(m) ==
  /\ ~Skipped(m) /\ Len(log[m]) < MaxEvents
  /\ log' = [log EXCEPT ![m] = Recorded(Deserialize(log[m]), <<"notify">>)]
  /\ UNCHANGED <<rows, outbox, lock, writer, rebuild, reader>>

\* expire_due
Expire(m) ==
  LET events == Recorded(Deserialize(log[m]), <<"notify">>) IN
  /\ ~Skipped(m) /\ Len(log[m]) < MaxEvents
  /\ log' = [log EXCEPT ![m] = events]
  /\ rows' = [rows EXCEPT !["events"] = @ \cup RowsAfter("events", m, events, Len(log[m]))]
  /\ outbox' = outbox \cup NoticesAfter(m, events, Len(log[m]))
  /\ UNCHANGED <<lock, writer, rebuild, reader>>

\* recover_stale_processing writes the log and projects nothing
Recover(m) ==
  /\ ~Skipped(m) /\ Len(log[m]) < MaxEvents
  /\ log' = [log EXCEPT ![m] = Recorded(Deserialize(log[m]), <<"recovered">>)]
  /\ UNCHANGED <<rows, outbox, lock, writer, rebuild, reader>>

-----------------------------------------------------------------------------
(* Rebuild of a projection: one transaction                                 *)

\* DELETE begins: it will delete the rows committed by now
StartDelete(r, table) ==
  /\ rebuild[r].pc = "idle"
  /\ rebuild' = [rebuild EXCEPT ![r] = [IdleRebuild EXCEPT !.pc = "deleting", !.table = table,
                                          !.doomed = rows[table]]]
  /\ UNCHANGED <<log, rows, outbox, lock, writer, reader>>

\* other rebuilds of the same table that are past their DELETE
Rivals(r) ==
  {q \in Rebuilders \ {r} : /\ rebuild[q].pc \in {"selecting", "inserting"}
                            /\ rebuild[q].table = rebuild[r].table}

\* It waits for the rows another rebuild has deleted.  The SELECT that follows, a
\* server-side cursor, has a snapshot of its own.
Delete(r) ==
  /\ rebuild[r].pc = "deleting"
  /\ \A q \in Rivals(r) : rebuild[q].doomed \cap rebuild[r].doomed = {}
  /\ rebuild' = [rebuild EXCEPT ![r].pc = "selecting"]
  /\ UNCHANGED <<log, rows, outbox, lock, writer, reader>>

Select(r) ==
  /\ rebuild[r].pc = "selecting"
  /\ rebuild' = [rebuild EXCEPT ![r].pc = "inserting", ![r].logs = log, ![r].todo = Missions]
  /\ UNCHANGED <<log, rows, outbox, lock, writer, reader>>

Rebuilt(r, m) == RowsAfter(rebuild[r].table, m, Deserialize(rebuild[r].logs[m]), 0)

\* keys that uncommitted transactions have inserted or deleted
Undecided(r) ==
  LET table == rebuild[r].table IN
  Keys(UNION {writer[w].rows[table] : w \in Writers})
    \cup Keys(UNION {rebuild[q].new \cup rebuild[q].doomed : q \in Rivals(r)})

\* a batch of inserts; a unique key waits for whoever may still take it
Insert(r) ==
  /\ rebuild[r].pc = "inserting"
  /\ \E m \in rebuild[r].todo :
       LET new == Rebuilt(r, m)
           others == rows[rebuild[r].table] \ rebuild[r].doomed
       IN
       /\ Keys(new) \cap Undecided(r) = {}
       /\ rebuild' = IF Keys(new) \cap Keys(others) = {}
                     THEN [rebuild EXCEPT ![r].new = @ \cup new, ![r].todo = @ \ {m}]
                     ELSE [rebuild EXCEPT ![r] = IdleRebuild]
  /\ UNCHANGED <<log, rows, outbox, lock, writer, reader>>

\* mutant: the table is truncated
MutCommitRebuild(r) ==
  /\ rebuild[r].pc = "inserting" /\ rebuild[r].todo = {}
  /\ rows' = [rows EXCEPT ![rebuild[r].table] = rebuild[r].new]
  /\ rebuild' = [rebuild EXCEPT ![r] = IdleRebuild]
  /\ UNCHANGED <<log, outbox, lock, writer, reader>>

\* the command's commit; a DELETE that waits for its rows skips those that are gone,
\* and does not see those that replace them
CommitRebuild(r) ==
  /\ rebuild[r].pc = "inserting" /\ rebuild[r].todo = {}
  /\ rows' = [rows EXCEPT ![rebuild[r].table] = (@ \ rebuild[r].doomed) \cup rebuild[r].new]
  /\ rebuild' = [q \in Rebuilders |->
       IF q = r THEN IdleRebuild
       ELSE IF rebuild[q].table # rebuild[r].table THEN rebuild[q]
       ELSE [rebuild[q] EXCEPT !.doomed = @ \ rebuild[r].doomed]]
  /\ UNCHANGED <<log, outbox, lock, writer, reader>>

-----------------------------------------------------------------------------
(* Readers                                                                  *)

\* mutant: the event right after the cursor is left out
MutPage(table, m, after) ==
  LET later == {r.seq : r \in {x \in rows[table] : x.m = m /\ x.seq > after + 1}}
  IN {s \in later : Cardinality({x \in later : x < s}) < Limit}

\* list_after, list_since: the first rows after a sequence
Page(table, m, after) ==
  LET later == {r.seq : r \in {x \in rows[table] : x.m = m /\ x.seq > after}}
  IN {s \in later : Cardinality({x \in later : x < s}) < Limit}

\* mutant: latest_sequence is the log's last sequence
MutLatest(page, m, after) == Len(log[m])
Latest(page, m, after) == IF page = {} THEN after ELSE CHOOSE s \in page : \A x \in page : x <= s

\* a page is answered, and the client goes on after its latest_sequence
Answered(c, page) ==
  LET x == reader[c]
  IN reader' = [reader EXCEPT ![c] =
                  [x EXCEPT !.pc = "idle", !.left = 0, !.got = x.got \cup page,
                            !.after = Latest(page, x.m, x.after)]]

\* A request reads at once; an empty page is answered when it does not wait.
Poll(c) ==
  /\ reader[c].role = "client" /\ reader[c].pc = "idle"
  /\ LET page == Page(reader[c].table, reader[c].m, reader[c].after) IN
     \E wait \in 0..MaxWait :
       IF page # {} \/ wait = 0 THEN Answered(c, page)
       ELSE reader' = [reader EXCEPT ![c].pc = "waiting", ![c].left = wait]
  /\ UNCHANGED <<log, rows, outbox, lock, writer, rebuild>>

\* mutant: the sleep is not cut at the deadline
MutSpent(c) == {2}
\* the intervals a sleep and its read may use up: one, or several when it is slow
Spent(c) == 1..reader[c].left

\* It sleeps and reads again until there is something or the deadline has come.
Reread(c) ==
  /\ reader[c].pc = "waiting"
  /\ LET page == Page(reader[c].table, reader[c].m, reader[c].after) IN
     \E spent \in Spent(c) :
       IF page # {} \/ spent = reader[c].left THEN Answered(c, page)
       ELSE reader' = [reader EXCEPT ![c].left = @ - spent]
  /\ UNCHANGED <<log, rows, outbox, lock, writer, rebuild>>

\* Verify...Projection: the Mission first, then the projection
Verify(v) ==
  /\ reader[v].role = "admin" /\ reader[v].pc = "idle"
  /\ reader' = [reader EXCEPT ![v].pc = "loaded", ![v].canon = Deserialize(log[reader[v].m])]
  /\ UNCHANGED <<log, rows, outbox, lock, writer, rebuild>>

\* a row read by itself: one of an old schema becomes a thread of its own
ReadAlone(table, r) ==
  IF table = "provider" \/ r.corr # Absent THEN r ELSE [r EXCEPT !.corr = r.seq, !.cause = 0]

Canonical(v) == RowsAfter(reader[v].table, reader[v].m, reader[v].canon, 0)

\* compare_..._projection: the sequences an answer given now would name
Comparison(v) ==
  LET table == reader[v].table
      projected == {ReadAlone(table, r) : r \in {x \in rows[table] : x.m = reader[v].m}}
      seqs(rs) == {r.seq : r \in rs}
  IN [missing |-> seqs(Canonical(v)) \ seqs(projected),
      unexpected |-> seqs(projected) \ seqs(Canonical(v)),
      different |-> (seqs(Canonical(v)) \cap seqs(projected)) \ seqs(Canonical(v) \cap projected)]

Answer(v) ==
  /\ reader[v].pc = "loaded"
  /\ reader' = [reader EXCEPT ![v].pc = "idle", ![v].canon = <<>>]
  /\ UNCHANGED <<log, rows, outbox, lock, writer, rebuild>>

-----------------------------------------------------------------------------
ClientStep(c) == Poll(c) \/ Reread(c)

Next ==
  \/ \E w \in Writers :
       (\E m \in Missions : Load(w, m)) \/ Update(w) \/ Conflict(w) \/ Rollback(w) \/ Commit(w)
  \/ \E m \in Missions : Expire(m) \/ Recover(m)
  \/ \E r \in Rebuilders :
       \/ \E table \in Tables : StartDelete(r, table)
       \/ Delete(r) \/ Select(r) \/ Insert(r) \/ CommitRebuild(r)
  \/ \E c \in Readers : ClientStep(c) \/ Verify(c) \/ Answer(c)

\* A client that follows a Mission asks again after every answer (README.md asks
\* it to), and the event loop resumes its request.
FairSpec == Init /\ [][Next]_vars /\ \A c \in Readers : WF_vars(ClientStep(c))

-----------------------------------------------------------------------------
(* Properties                                                               *)

\* Rows of every age and schema have one form, and no long poll waits longer than
\* its client allowed or skips beyond the bound of the log.
TypeOK ==
  /\ log \in [Missions -> Seq(Raws)] /\ outbox \subseteq Missions \X Nat
  /\ rows \in [Tables -> SUBSET Rows] /\ lock \in [Missions -> Writers \cup {None}]
  /\ \A w \in Writers : /\ writer[w].pc \in {"idle", "loaded", "updated"}
                         /\ writer[w].events \in Seq(Raws) /\ writer[w].base \in Nat
  /\ \A r \in Rebuilders : /\ rebuild[r].pc \in {"idle", "deleting", "selecting", "inserting"}
                            /\ rebuild[r].doomed \cup rebuild[r].new \subseteq Rows
  /\ \A c \in Readers : /\ reader[c].pc \in {"idle", "waiting", "loaded"}
                         /\ reader[c].left \in 0..MaxWait /\ reader[c].after \in 0..MaxEvents

Events(m) == Deserialize(log[m])
\* what a projection is to hold, and what the recording transaction puts there itself:
\* claim_recovered belongs to mission_events and waits for a rebuild
Belongs(table, e) == table = "events" \/ e.type = "provider"
Appended(table, e) == Belongs(table, e) /\ e.type # "recovered"

\* The copies tell the same history, whatever requests, workers and rebuilds were
\* doing: each row is an event of the log under its sequence, each event has its
\* rows and its one notice.  claim_recovered alone has none until a rebuild.
CopiesAgree ==
  /\ \A t \in Tables : \A r \in rows[t] :
       /\ r.seq \in DOMAIN log[r.m]
       /\ r \in {Row(t, r.m, r.seq, Events(r.m)[r.seq]), [Row(t, r.m, r.seq, Events(r.m)[r.seq])
                                                EXCEPT !.corr = Absent, !.cause = Absent]}
       /\ Cardinality({x \in rows[t] : Key(x) = Key(r)}) = 1
  /\ \A m \in Missions : \A i \in DOMAIN log[m] :
       /\ \A t \in Tables : Appended(t, log[m][i]) => <<m, i>> \in Keys(rows[t])
       /\ log[m][i].type = "notify" <=> <<m, i>> \in outbox

\* A Mission's history is one thread from its first event on, each event caused by
\* the one before, through schema changes and competing writers.
OneThread ==
  \A m \in Missions : \A i \in DOMAIN log[m] :
    Events(m)[i].corr = 1 /\ Events(m)[i].cause = i - 1

\* What was read of a history once is read again, although every update writes the
\* whole log anew in the current schema from the copy it was given.
HistoryIsStable ==
  [][\A m \in Missions : \A i \in DOMAIN log[m] :
       i \in DOMAIN log'[m] /\ Events(m)'[i] = Events(m)[i]]_log

\* What a client that goes on from latest_sequence has missed up to there is nothing
\* but claim_recovered, although commits, long polls and rebuilds interleave with its
\* pages.  A rebuild may insert the row of a claim_recovered behind its cursor.
PagesAreComplete ==
  \A c \in Readers : \A i \in 1..reader[c].after :
    LET e == log[reader[c].m][i]
    IN Belongs(reader[c].table, e) => i \in reader[c].got \/ e.type = "recovered"

\* src/README.md:1588 and 1615 say this: every event of the history up to
\* latest_sequence was on a page.  A claim_recovered is not, see recovered_unseen.
EveryEventIsGiven ==
  \A c \in Readers : \A i \in 1..reader[c].after :
    Belongs(reader[c].table, log[reader[c].m][i]) => i \in reader[c].got

\* A verification that races with writers reports as missing only recoveries, as
\* unexpected only what was written after it loaded the Mission, and as different
\* only rows of mission_events in an old schema.
VerificationIsHonest ==
  \A v \in Readers : reader[v].pc = "loaded" =>
    LET canon == reader[v].canon
        events == IF reader[v].table = "events" THEN rows["events"] ELSE {}
        old == {r.seq : r \in {x \in events : x.m = reader[v].m /\ x.corr = Absent}}
    IN
    /\ \A i \in Comparison(v).missing : canon[i].type = "recovered"
    /\ \A i \in Comparison(v).unexpected : i > Len(canon)
    /\ Comparison(v).different \subseteq old

\* A rebuild leaves nothing out that was in the log when it selected the Missions,
\* recoveries included, and takes away nothing that was committed meanwhile.
RebuildRepairs ==
  [][\A r \in Rebuilders :
       rebuild[r].pc = "inserting" /\ rebuild'[r].pc = "idle" /\ rows' # rows =>
         \A m \in Missions : \A i \in DOMAIN log[m] :
           LET t == rebuild[r].table IN
           (i <= Len(rebuild[r].logs[m]) /\ Belongs(t, log[m][i]))
             \/ Appended(t, log[m][i])
           => <<m, i>> \in Keys(rows'[t])]_vars

\* Whoever keeps following a Mission is given each of its events in the end, except
\* claim_recovered, which may never be on a page: a log is bounded here, so to have
\* all the others again and again is to be given each one.
EventsReachClients ==
  []<>(\A c \in Readers : reader[c].role = "client" =>
         \A i \in DOMAIN log[reader[c].m] :
           LET e == log[reader[c].m][i]
           IN Belongs(reader[c].table, e) => i \in reader[c].got \/ e.type = "recovered")
=============================================================================
