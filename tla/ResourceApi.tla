----------------------------- MODULE ResourceApi -----------------------------
(***************************************************************************)
(* The HTTP API for Identities and Missions: the receipts that make        *)
(* creations and commands repeatable, the versions behind ETag, If-Match   *)
(* and If-None-Match, the deletion of an Identity, and the rate limit      *)
(* every call passes.                                                      *)
(*                                                                         *)
(* Both storage backends are modelled.  In "database" a call is one READ   *)
(* COMMITTED transaction: its reads are of committed rows, its writes are  *)
(* applied by Commit, and until then it holds the locks of its receipt and *)
(* of the row it wrote.  In "memory" all calls share the objects of one    *)
(* process and run on one event loop: a handler runs on until it awaits    *)
(* the provider.                                                           *)
(***************************************************************************)
EXTENDS FiniteSets, RateLimit

CONSTANTS
  Clients,          \* clients, each with an API key of its own
  Keys,             \* values of the Idempotency-Key header of creations
  CommandKeys,      \* and of commands
  MaxIdentities,    \* Identities that can exist
  MaxMissions,      \* Missions that can exist
  Ops,              \* operations the clients call
  MaxCalls,         \* bound on the number of calls
  MaxTime,          \* bound on the limiter's clock
  None,             \* no value: no row, no header, no receipt
  Gone              \* a deleted row

ASSUME ApiAssumption ==
  /\ MaxIdentities \in Nat \ {0} /\ MaxMissions \in Nat \ {0}
  /\ MaxCalls \in Nat /\ MaxTime \in Nat
  /\ Ops \subseteq {"get", "change", "delete", "identity", "mission", "command"}

VARIABLES
  backend,    \* STORAGE_BACKEND
  identity,   \* committed Identities, by id
  mission,    \* committed Missions, by id
  receipt,    \* committed receipts of the two receipt tables, by scope and key
  call,       \* the call each client has in flight
  cache,      \* the last answer each client has of each Identity, with its ETag
  limiter,    \* the limiter's table
  now,        \* the limiter's clock
  \* what is only observed:
  asked,      \* the calls sent, in order: client, time, whether let through
  effects,    \* committed executions under each receipt key
  replies,    \* ids answered under each receipt key
  pruned      \* how often retention removed a receipt

vars == <<backend, identity, mission, receipt, call, cache, limiter, now,
          asked, effects, replies, pruned>>

Ids == 1..MaxIdentities
MissionIds == 1..MaxMissions
Commands == {"pause", "resume", "confirm"}
Statuses == {"created", "paused", "requires_confirmation", "completed", "failed"}

\* display name and the like, preferences, documents: the old value 0 or the new 1
Fields == {"name", "prefs", "docs"}
Bodies == [Fields -> {0, 1}]
Plain == [f \in Fields |-> 0]
\* what PATCH /identities (the first two) and PUT .../preferences may send
Changes == {[name |-> 1], [docs |-> 1], [prefs |-> 1]}

Slots == ({"identity", "mission"} \X Keys) \cup ({"command"} \X CommandKeys)
\* result 0: resource_id or result_mission_id is NULL
Receipts(scope) ==
  [print : CASE scope = "identity" -> {0, 1} [] scope = "mission" -> Ids
             [] scope = "command" -> MissionIds \X Commands,
   result : {0} \cup IF scope = "identity" THEN Ids ELSE MissionIds]

IdleCall == [op |-> "none", pc |-> "idle", key |-> None, id |-> 0, body |-> None,
             match |-> None, held |-> FALSE, again |-> FALSE, read |-> None, new |-> None]
Slot(c) == <<call[c].op, call[c].key>>

IdentityRows == [version : Nat, body : Bodies]
\* what a read gives: the documents are none when the row was deleted in between
Copies == [version : Nat, body : [Fields -> {0, 1, None}]]
MissionRows == [who : Ids, status : Statuses, seq : Nat]

\* the model values are no data
ASSUME SentinelAssumption ==
  /\ None # Gone /\ None \notin Keys \cup CommandKeys
  /\ {None, Gone} \cap {0, 1} = {}
  /\ None \notin Copies /\ Gone \notin Copies /\ None \notin MissionRows
  /\ \A scope \in {"identity", "mission", "command"} : None \notin Receipts(scope)

Init ==
  /\ backend \in {"database", "memory"}
  /\ identity = [i \in Ids |-> IF i = 1 THEN [version |-> 0, body |-> Plain] ELSE None]
  /\ \E status \in {"created", "requires_confirmation"} :
       mission = [m \in MissionIds |->
                    IF m = 1 THEN [who |-> 1, status |-> status, seq |-> 0] ELSE None]
  /\ receipt = [s \in Slots |-> None]
  /\ call = [c \in Clients |-> IdleCall]
  /\ cache = [c \in Clients |-> [i \in Ids |-> identity[i]]]
  /\ limiter = <<>> /\ now = 0 /\ asked = <<>>
  /\ effects = [s \in Slots |-> 0]
  /\ replies = [s \in Slots |-> {}]
  /\ pruned = [s \in Slots |-> 0]

-----------------------------------------------------------------------------
(* A call arrives                                                           *)

\* an event loop runs one handler at a time, up to its await of the provider
Runs(c) ==
  backend = "memory" => \A d \in Clients \ {c} : call[d].pc \in {"idle", "provider"}

Request(op, pc, key, id, body, match) ==
  [IdleCall EXCEPT !.op = op, !.pc = pc, !.key = key, !.id = id, !.body = body, !.match = match]

Live(row) == row \notin {None, Gone}

\* The requests a client may send, about what exists or has existed.  A change and a
\* deletion carry the ETag the client has in If-Match, a read has it in
\* If-None-Match; a command may carry the version its Mission had.
Requests(c) ==
  LET ids == {i \in Ids : identity[i] # None}
      cached == {i \in Ids : cache[c][i] # None}
      missions == {m \in MissionIds : mission[m] # None}
  IN
  UNION {{Request("get", "row", None, i, None, cache[c][i]) : i \in ids},
         {Request("change", "row", None, i, b, cache[c][i]) : i \in cached, b \in Changes},
         {Request("delete", "row", None, i, None, cache[c][i]) : i \in cached},
         {Request("identity", "begin", k, 0, name, None) : k \in Keys, name \in {0, 1}},
         {Request("identity", "write", None, 0, 1, None)},
         {Request("mission", "participants", k, 0, i, None) : k \in Keys \cup {None}, i \in ids},
         {Request("command", IF v = None THEN "begin" ELSE "version", k, m, <<m, x>>, v) :
            k \in CommandKeys, m \in missions, x \in Commands, v \in {None, 0}}}

\* RateLimitMiddleware, then the route; 429 ends the call at once.  Only the
\* limiter reads the clock, so time passes here, and starts with the first call.
Send(c) ==
  /\ call[c].pc = "idle" /\ Len(asked) < MaxCalls /\ Runs(c)
  /\ \E t \in now..MaxTime :
       /\ asked = <<>> => t = 0
       /\ now' = t
       /\ limiter' = Asked(limiter, c, t)
       /\ asked' = Append(asked, [client |-> c, at |-> t, ok |-> Admitted(limiter, c, t)])
       /\ \/ /\ Admitted(limiter, c, t)
             /\ \E r \in Requests(c) : r.op \in Ops /\ call' = [call EXCEPT ![c] = r]
          \/ /\ ~Admitted(limiter, c, t)
             /\ UNCHANGED call
  /\ UNCHANGED <<backend, identity, mission, receipt, cache, effects, replies, pruned>>

Goto(c, pc) == [call EXCEPT ![c].pc = pc]
Idle(c) == [call EXCEPT ![c] = IdleCall]
Fixed == <<backend, limiter, now, asked, pruned>>
StoreFixed == <<identity, mission, receipt, cache, effects, replies>>

-----------------------------------------------------------------------------
(* Receipts                                                                 *)

\* an insert of the same key by a transaction that has not ended
MutInserting(c) == FALSE
Inserting(c) ==
  backend = "database" /\
  \E d \in Clients \ {c} : call[d].held /\ Slot(d) = Slot(c)

\* the request fingerprint of a creation; the Mission and command of a command
Fingerprint(c) == call[c].body

\* begin, the insert.  ON CONFLICT DO NOTHING waits for a transaction that is
\* inserting the key; in memory the reservation is there at once.
Begin(c) ==
  /\ call[c].pc = "begin" /\ Runs(c) /\ ~Inserting(c)
  /\ \/ /\ receipt[Slot(c)] = None
        /\ call' = [call EXCEPT ![c].held = TRUE,
                                ![c].pc = IF call[c].op = "command" THEN "load" ELSE "write"]
        /\ receipt' = IF backend = "memory"
                      THEN [receipt EXCEPT ![Slot(c)] = [print |-> Fingerprint(c), result |-> 0]]
                      ELSE receipt
     \/ /\ receipt[Slot(c)] # None
        /\ call' = Goto(c, "receipt")
        /\ UNCHANGED receipt
  /\ UNCHANGED <<identity, mission, cache, effects, replies, Fixed>>

\* begin, the select: the receipt of another request, one still in progress, or
\* one that retention has removed since, end the call; else its answer is repeated
Found(c) ==
  /\ call[c].pc = "receipt" /\ Runs(c)
  /\ LET r == receipt[Slot(c)] IN
     IF r # None /\ r.print = Fingerprint(c) /\ r.result # 0
     THEN call' = [call EXCEPT ![c].pc = "replay", ![c].id = r.result]
     ELSE call' = Idle(c)
  /\ UNCHANGED <<StoreFixed, Fixed>>

\* The repeated answer is the resource as it is now: a Mission is one statement, an
\* Identity the two of get, and 410 if it is gone
Replay(c) ==
  /\ call[c].pc = "replay" /\ Runs(c)
  /\ LET i == call[c].id IN
     IF call[c].op # "identity"
     THEN call' = Idle(c) /\ replies' = [replies EXCEPT ![Slot(c)] = @ \cup {i}]
     ELSE /\ call' = IF Live(identity[i])
                     THEN [call EXCEPT ![c].read = identity[i], ![c].pc = "repeat"] ELSE Idle(c)
          /\ UNCHANGED replies
  /\ UNCHANGED <<identity, mission, receipt, cache, effects, Fixed>>

\* prune_completed_before: the receipt of a creation, at any age here
Prune(s) ==
  /\ backend = "database" /\ s[1] # "command"
  /\ receipt[s] # None /\ receipt[s].result # 0
  /\ receipt' = [receipt EXCEPT ![s] = None]
  /\ pruned' = [pruned EXCEPT ![s] = @ + 1]
  /\ UNCHANGED <<backend, identity, mission, call, cache, limiter, now, asked, effects, replies>>

\* The call ends without an effect: the transaction rolls back; in memory abort
\* deletes the reservation.
\* mutant: abort leaves the reservation
MutReleased(c) == receipt
Released(c) ==
  IF backend = "memory" /\ call[c].held /\ receipt[Slot(c)] = [print |-> Fingerprint(c), result |-> 0]
  THEN [receipt EXCEPT ![Slot(c)] = None] ELSE receipt
Refuse(c) ==
  /\ call' = Idle(c)
  /\ receipt' = Released(c)
  /\ UNCHANGED <<identity, mission, cache, effects, replies>>

-----------------------------------------------------------------------------
(* Identities                                                               *)

\* get, its two statements: the row, then the documents
ReadRow(c) ==
  /\ call[c].pc = "row" /\ Runs(c)
  /\ IF Live(identity[call[c].id])
     THEN call' = [call EXCEPT ![c].read = identity[call[c].id], ![c].pc = "docs"]
     ELSE call' = Idle(c)
  /\ UNCHANGED <<StoreFixed, Fixed>>

\* the documents of a row deleted in between are gone with it
ReadDocs(c) ==
  LET row == identity[call[c].id]
  IN [call[c].read EXCEPT !.body.docs = IF Live(row) THEN row.body.docs ELSE None]

\* the second statement of a repeated answer
Repeat(c) ==
  /\ call[c].pc = "repeat" /\ Runs(c)
  /\ replies' = [replies EXCEPT ![Slot(c)] = @ \cup {call[c].id}]
  /\ cache' = [cache EXCEPT ![c][call[c].id] = ReadDocs(c)]
  /\ call' = Idle(c)
  /\ UNCHANGED <<identity, mission, receipt, effects, Fixed>>

SameTag(c) == call[c].match # None /\ call[c].match.version = call[c].read.version

\* GET: 304 when the client's ETag is current, and its copy stays
Get(c) ==
  /\ call[c].op = "get" /\ call[c].pc = "docs" /\ Runs(c)
  /\ \E delivered \in BOOLEAN :
       cache' = IF SameTag(c) \/ ~delivered THEN cache
                ELSE [cache EXCEPT ![c][call[c].id] = ReadDocs(c)]
  /\ call' = Idle(c)
  /\ UNCHANGED <<identity, mission, receipt, effects, replies, Fixed>>

IsPut(c) == DOMAIN call[c].body = {"prefs"}

\* If-Match, 412 unless it names the version just read; update_preferences reads
\* and compares once more
Match(c) ==
  LET next == IF call[c].op = "delete" THEN "references"
              ELSE IF IsPut(c) /\ ~call[c].again THEN "row" ELSE "write"
  IN
  /\ call[c].op \in {"change", "delete"} /\ call[c].pc = "docs" /\ Runs(c)
  /\ call' = IF SameTag(c)
             THEN [call EXCEPT ![c].read = ReadDocs(c), ![c].pc = next, ![c].again = next = "row"]
             ELSE Idle(c)
  /\ UNCHANGED <<StoreFixed, Fixed>>

\* references_identity, 409
References(c) ==
  /\ call[c].pc = "references" /\ Runs(c)
  /\ IF \E m \in MissionIds : mission[m] # None /\ mission[m].who = call[c].id
     THEN call' = Idle(c) ELSE call' = Goto(c, "write")
  /\ UNCHANGED <<StoreFixed, Fixed>>

Applied(body, changes) ==
  [f \in Fields |-> IF f \in DOMAIN changes THEN changes[f] ELSE body[f]]

\* mutant: the preferences are replaced under the version they had
MutNewVersion(c) == IF IsPut(c) THEN call[c].read.version ELSE call[c].read.version + 1
NewVersion(c) == call[c].read.version + 1

\* The columns an update sets: PATCH all of the profile and the documents, those
\* the request left out as they were read; PUT the preferences
Changed(c) ==
  LET sent == Applied(call[c].read.body, call[c].body)
      set == IF IsPut(c) THEN {"prefs"} ELSE {"name", "docs"}
  IN [version |-> NewVersion(c),
      body |-> [f \in Fields |-> IF f \in set THEN sent[f] ELSE identity[call[c].id].body[f]]]

\* another transaction has written the row and not ended
RowLocked(c, ops) ==
  backend = "database" /\
  \E d \in Clients \ {c} : /\ call[d].pc = "commit" /\ call[d].op \in ops
                           /\ call[d].id = call[c].id

\* mutant: the statement names the row alone
MutSameVersion(c) == Live(identity[call[c].id])
\* the version in the WHERE of the update or deletion, on the newest committed row
SameVersion(c) ==
  /\ Live(identity[call[c].id])
  /\ identity[call[c].id].version = call[c].read.version

WriteIdentity(c) ==
  /\ call[c].op \in {"change", "delete"} /\ call[c].pc = "write" /\ Runs(c)
  /\ ~RowLocked(c, {"change", "delete"})
  /\ IF SameVersion(c)
     THEN call' = [call EXCEPT ![c].pc = "commit",
                               ![c].new = IF call[c].op = "delete" THEN Gone ELSE Changed(c)]
     ELSE call' = Idle(c)
  /\ UNCHANGED <<StoreFixed, Fixed>>

-----------------------------------------------------------------------------
(* Creations                                                                *)

\* create_mission asks for the participants before it looks for a receipt, 422
Participants(c) ==
  /\ call[c].pc = "participants" /\ Runs(c)
  /\ IF Live(identity[call[c].body])
     THEN call' = Goto(c, IF call[c].key = None THEN "write" ELSE "begin")
     ELSE call' = Idle(c)
  /\ UNCHANGED <<StoreFixed, Fixed>>

\* a new UUID: the least id that no row has and no transaction is inserting
FreshIds(table, op) ==
  {i \in DOMAIN table : table[i] = None /\
     \A d \in Clients : ~(call[d].op = op /\ call[d].pc = "commit" /\ call[d].id = i)}

Create(c) ==
  LET op == call[c].op
      fresh == FreshIds(IF op = "identity" THEN identity ELSE mission, op)
  IN
  /\ op \in {"identity", "mission"} /\ call[c].pc = "write" /\ Runs(c)
  /\ fresh # {}
  /\ call' = [call EXCEPT
       ![c].pc = "commit", ![c].id = CHOOSE i \in fresh : \A j \in fresh : i <= j,
       ![c].new = IF op = "identity"
                  THEN [version |-> 0, body |-> Applied(Plain, [name |-> call[c].body])]
                  ELSE [who |-> call[c].body, status |-> "created", seq |-> 0]]
  /\ UNCHANGED <<StoreFixed, Fixed>>

-----------------------------------------------------------------------------
(* Commands                                                                 *)

\* _ensure_mission_version, 404 or 409; the session keeps the row it has read
EnsureVersion(c) ==
  /\ call[c].pc = "version" /\ Runs(c)
  /\ LET row == mission[call[c].id] IN
     IF row # None /\ row.seq = call[c].match
     THEN call' = [call EXCEPT ![c].pc = "begin", ![c].read = row]
     ELSE call' = Idle(c)
  /\ UNCHANGED <<StoreFixed, Fixed>>

Allowed(command, status) ==
  \/ command = "pause" /\ status = "created"
  \/ command = "resume" /\ status = "paused"
  \/ command = "confirm" /\ status = "requires_confirmation"

\* The Mission is read, or is the one the session has; the command is refused, or
\* changes the status, or records confirmation_started and awaits the provider.
\* In memory that event is in the shared Mission at once.
Load(c) ==
  LET row == IF backend = "database" /\ call[c].read # None THEN call[c].read
             ELSE mission[call[c].id]
      command == call[c].body[2]
  IN
  /\ call[c].pc = "load" /\ Runs(c)
  /\ \/ /\ ~(row # None /\ Allowed(command, row.status))
        /\ Refuse(c)
     \/ /\ row # None /\ Allowed(command, row.status)
        /\ IF command = "confirm"
           THEN /\ call' = [call EXCEPT ![c].read = row, ![c].pc = "provider"]
                /\ mission' = IF backend = "memory"
                              THEN [mission EXCEPT ![call[c].id].seq = @ + 1] ELSE mission
           ELSE /\ call' = [call EXCEPT ![c].read = row, ![c].pc = "write",
                              ![c].new = [row EXCEPT !.seq = @ + 1,
                                 !.status = IF command = "pause" THEN "paused" ELSE "created"]]
                /\ UNCHANGED mission
        /\ UNCHANGED <<identity, receipt, cache, effects, replies>>
  /\ UNCHANGED Fixed

\* The provider answers.  In memory the Mission may have another status by now, then
\* the transition raises, after confirmation_succeeded was recorded for a success.
Provider(c) ==
  LET row == IF backend = "memory" THEN mission[call[c].id]
             ELSE [call[c].read EXCEPT !.seq = @ + 1]
  IN
  /\ call[c].pc = "provider" /\ Runs(c)
  /\ \/ /\ ~Allowed("confirm", row.status)
        /\ \/ UNCHANGED mission
           \/ backend = "memory" /\ mission' = [mission EXCEPT ![call[c].id].seq = @ + 1]
        /\ call' = Idle(c) /\ receipt' = Released(c)
        /\ UNCHANGED <<identity, cache, effects, replies>>
     \/ /\ Allowed("confirm", row.status)
        /\ \E ok \in BOOLEAN :
             call' = [call EXCEPT ![c].pc = "write",
                        ![c].new = [row EXCEPT !.status = IF ok THEN "completed" ELSE "failed",
                                               !.seq = @ + IF ok THEN 3 ELSE 1]]
        /\ UNCHANGED StoreFixed
  /\ UNCHANGED Fixed

\* update, with the compare-and-set of the database
WriteMission(c) ==
  /\ call[c].op = "command" /\ call[c].pc = "write" /\ Runs(c)
  /\ ~RowLocked(c, {"command"})
  /\ IF backend = "memory" \/ mission[call[c].id].seq = call[c].read.seq
     THEN call' = Goto(c, "commit") /\ UNCHANGED StoreFixed
     ELSE Refuse(c)
  /\ UNCHANGED Fixed

-----------------------------------------------------------------------------
(* The end of a call                                                        *)

\* what the client is told about the Identity
Answer(c) ==
  IF call[c].op = "change"
  THEN [version |-> NewVersion(c), body |-> Applied(call[c].read.body, call[c].body)]
  ELSE call[c].new

\* complete and the commit; the answer may be lost
Commit(c) ==
  LET i == call[c].id
      keyed == call[c].key # None
      table == IF call[c].op \in {"mission", "command"} THEN "mission" ELSE "identity"
  IN
  /\ call[c].pc = "commit" /\ Runs(c)
  /\ identity' = IF table = "identity" THEN [identity EXCEPT ![i] = call[c].new] ELSE identity
  /\ mission' = IF table = "mission" THEN [mission EXCEPT ![i] = call[c].new] ELSE mission
  /\ receipt' = IF keyed THEN [receipt EXCEPT ![Slot(c)] = [print |-> Fingerprint(c), result |-> i]]
                ELSE receipt
  /\ effects' = IF keyed THEN [effects EXCEPT ![Slot(c)] = @ + 1] ELSE effects
  /\ \E delivered \in BOOLEAN :
       /\ replies' = IF keyed /\ delivered THEN [replies EXCEPT ![Slot(c)] = @ \cup {i}]
                     ELSE replies
       /\ cache' = IF delivered /\ call[c].op \in {"identity", "change"}
                   THEN [cache EXCEPT ![c][i] = Answer(c)] ELSE cache
  /\ call' = Idle(c)
  /\ UNCHANGED Fixed

\* RequestTimeoutMiddleware cancels the handler, or an error ends it: at any await
\* of the database, in memory at that of the provider
Drop(c) ==
  /\ call[c].pc # "idle"
  /\ backend = "memory" => call[c].pc = "provider" /\ Runs(c)
  /\ Refuse(c)
  /\ UNCHANGED Fixed

Next ==
  \/ \E s \in Slots : Prune(s)
  \/ \E c \in Clients :
       \/ Send(c) \/ Begin(c) \/ Found(c) \/ Replay(c) \/ Repeat(c)
       \/ ReadRow(c) \/ Get(c) \/ Match(c) \/ References(c)
       \/ WriteIdentity(c) \/ Participants(c) \/ Create(c)
       \/ EnsureVersion(c) \/ Load(c) \/ Provider(c) \/ WriteMission(c)
       \/ Commit(c) \/ Drop(c)

Spec == Init /\ [][Next]_vars

-----------------------------------------------------------------------------
(* Properties                                                               *)

\* Every variable has its type, and the limiter's table never outgrows its bound.
TypeOK ==
  /\ backend \in {"database", "memory"}
  /\ identity \in [Ids -> IdentityRows \cup {None, Gone}]
  /\ mission \in [MissionIds -> MissionRows \cup {None}]
  /\ DOMAIN receipt = Slots
  /\ \A s \in Slots : receipt[s] = None \/ receipt[s] \in Receipts(s[1])
  /\ cache \in [Clients -> [Ids -> Copies \cup {None}]]
  /\ \A c \in Clients :
       /\ DOMAIN call[c] = DOMAIN IdleCall
       /\ call[c].op \in Ops \cup {"none"} /\ call[c].key \in Keys \cup CommandKeys \cup {None}
       /\ call[c].id \in Nat /\ call[c].held \in BOOLEAN /\ call[c].again \in BOOLEAN
  /\ Len(limiter) <= MaxClients
  /\ \A e \in ToSet(limiter) : e.client \in Clients /\ Len(e.stamps) <= RequestLimit
  /\ now \in 0..MaxTime

\* However often a request is repeated, by whatever clients at once, after lost
\* answers, deadlines and rollbacks, what it asks for is done once under its key and
\* every answer names the same resource; only retention, by removing a receipt,
\* allows it once more (begin, complete and abort of the two receipt stores).
OncePerKey ==
  \A s \in Slots : /\ effects[s] <= 1 + pruned[s]
                   /\ Cardinality(replies[s]) <= 1 + pruned[s]

\* A receipt is never left behind: a pending one belongs to a call that still runs,
\* and only in memory can anyone see it; a completed one names a resource that was
\* stored with it.  A Mission so named is there, an Identity may have been deleted
\* since, and its repetition is answered 410 (abort; the one transaction of receipt
\* and work; the assertion in create_mission's replay; the 410 of create_identity).
ReceiptsAreBacked ==
  \A s \in Slots : receipt[s] # None =>
    IF receipt[s].result = 0
    THEN backend = "memory" /\ \E c \in Clients : call[c].held /\ Slot(c) = s
    ELSE IF s[1] = "identity" THEN identity[receipt[s].result] # None
         ELSE mission[receipt[s].result] # None

\* A client whose ETag is the Identity's current one holds its current content, so
\* that 304 never keeps an outdated copy, although a read takes two statements and
\* an answer is composed from what was read before the write (the version column).
EtagIsHonest ==
  \A c \in Clients, i \in Ids :
    Live(identity[i]) /\ Live(cache[c][i]) /\ cache[c][i].version = identity[i].version
      => cache[c][i].body = identity[i].body

\* Each change of an Identity is its request's fields on top of the version before
\* it: a PATCH that rewrites profile and documents as it read them undoes no other
\* change (the version in the WHERE of update and update_preferences).
NoLostUpdate ==
  [][\A i \in Ids : Live(identity[i]) /\ identity'[i] # identity[i] =>
       \/ identity'[i] = Gone
       \/ \E c \in Clients :
            /\ call[c].op = "change" /\ call[c].id = i
            /\ identity'[i].body = Applied(identity[i].body, call[c].body)]_vars

\* calls of a client that were let through in the window that ends with its last
InWindow(c) ==
  LET mine == {n \in DOMAIN asked : asked[n].client = c /\ asked[n].ok}
  IN {n \in mine : \A k \in mine : asked[k].at < asked[n].at + Window}

\* A client gets more calls through in a window than the limit only if, since the
\* first of them, so many others called that the table had no room to remember it
\* (the eviction in _evict_client_if_full).
WindowIsKept ==
  \A c \in Clients : Cardinality(InWindow(c)) > RequestLimit =>
    \E n \in InWindow(c) :
      Cardinality({asked[k].client : k \in {j \in DOMAIN asked : j > n}} \ {c}) >= MaxClients
=============================================================================
