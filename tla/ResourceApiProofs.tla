-------------------------- MODULE ResourceApiProofs --------------------------
(***************************************************************************)
(* Proofs about ResourceApi: no change of an Identity is lost and an ETag  *)
(* names one content, each key takes effect once, no receipt is left       *)
(* behind, and the rate limit is kept for every client the table has not   *)
(* forgotten, for any number of clients, keys, Identities and Missions.    *)
(***************************************************************************)
EXTENDS ResourceApi, FiniteSetTheorems, SequenceTheorems, TLAPS

-----------------------------------------------------------------------------
(* The calls in flight: what each operation's record can hold, and when     *)

GetCalls ==
  [op : {"get"}, pc : {"row", "docs"}, key : {None}, id : Ids, body : {None},
   match : Copies \cup {None}, held : {FALSE}, again : {FALSE},
   read : Copies \cup {None}, new : {None}]
ChangeCalls ==
  [op : {"change"}, pc : {"row", "docs", "write", "commit"}, key : {None}, id : Ids,
   body : Changes, match : Copies, held : {FALSE}, again : BOOLEAN,
   read : Copies \cup {None}, new : IdentityRows \cup {None}]
DeleteCalls ==
  [op : {"delete"}, pc : {"row", "docs", "references", "write", "commit"}, key : {None},
   id : Ids, body : {None}, match : Copies, held : {FALSE}, again : {FALSE},
   read : Copies \cup {None}, new : {None, Gone}]
IdentityCalls ==
  [op : {"identity"}, pc : {"begin", "receipt", "replay", "repeat", "write", "commit"},
   key : Keys \cup {None}, id : {0} \cup Ids, body : {0, 1}, match : {None},
   held : BOOLEAN, again : {FALSE}, read : Copies \cup {None}, new : IdentityRows \cup {None}]
MissionCalls ==
  [op : {"mission"}, pc : {"participants", "begin", "receipt", "replay", "write", "commit"},
   key : Keys \cup {None}, id : {0} \cup MissionIds, body : Ids, match : {None},
   held : BOOLEAN, again : {FALSE}, read : {None}, new : MissionRows \cup {None}]
CommandCalls ==
  [op : {"command"},
   pc : {"version", "begin", "receipt", "replay", "load", "provider", "write", "commit"},
   key : CommandKeys, id : MissionIds, body : MissionIds \X Commands, match : {None, 0},
   held : BOOLEAN, again : {FALSE}, read : MissionRows \cup {None},
   new : MissionRows \cup {None}]
Calls == {IdleCall} \cup GetCalls \cup ChangeCalls \cup DeleteCalls
           \cup IdentityCalls \cup MissionCalls \cup CommandCalls

Reads == {"get", "change", "delete"}
Keyed == {"identity", "mission", "command"}
Holding == {"load", "provider", "write", "commit"}

\* what a call has by the time it stands where it stands
Stage(x) ==
  /\ x.held = (x.key # None /\ x.pc \in Holding)
  /\ x.pc \in {"begin", "receipt", "replay", "repeat"} => x.key # None
  /\ x.pc = "replay" => x.id # 0
  /\ x.pc = "repeat" => x.id \in Ids /\ x.read \in Copies
  /\ x.op \in Reads /\ x.pc # "row" => x.read \in Copies
  /\ x.op = "command" /\ x.pc \in {"provider", "write", "commit"} => x.read \in MissionRows
  /\ x.op = "command" /\ x.pc \in {"write", "commit"} => x.new \in MissionRows
  /\ x.op = "mission" /\ x.pc = "commit" => x.id \in MissionIds /\ x.new \in MissionRows
  /\ x.op = "identity" /\ x.pc = "commit" => x.id \in Ids /\ x.new \in IdentityRows

TypeInv ==
  /\ backend \in {"database", "memory"}
  /\ identity \in [Ids -> IdentityRows \cup {None, Gone}]
  /\ mission \in [MissionIds -> MissionRows \cup {None}]
  /\ DOMAIN receipt = Slots
  /\ \A s \in Slots : receipt[s] = None \/ receipt[s] \in Receipts(s[1])
  /\ cache \in [Clients -> [Ids -> Copies \cup {None}]]
  /\ call \in [Clients -> Calls]
  /\ \A c \in Clients : Stage(call[c])
  /\ effects \in [Slots -> Nat] /\ pruned \in [Slots -> Nat]
  /\ DOMAIN replies = Slots

\* What a call knows of the Identity it works on: it exists or has existed; what was
\* read is older or current; what will be committed is made from the current row.
HasRead(x) == (x.op \in Reads /\ x.pc \in {"docs", "references", "write"}) \/ x.pc = "repeat"
Current(x) ==
  /\ x.op \in Reads \/ x.pc = "repeat" => identity[x.id] # None
  /\ HasRead(x) /\ Live(identity[x.id]) =>
       /\ x.read.version <= identity[x.id].version
       /\ x.read.version = identity[x.id].version => x.read = identity[x.id]
  /\ x.op = "change" /\ x.pc = "commit" =>
       /\ Live(identity[x.id]) /\ x.read = identity[x.id]
       /\ x.new = [version |-> x.read.version + 1, body |-> Applied(x.read.body, x.body)]
  /\ x.op = "delete" /\ x.pc = "commit" => x.new = Gone
  /\ x.op = "identity" /\ x.pc = "commit" => identity[x.id] = None

\* a Mission that a command is about exists
OnMission(x) == x.op = "command" => mission[x.id] # None

\* two transactions never have the same Identity's row written
Clash(x, y) ==
  /\ x.pc = "commit" /\ y.pc = "commit" /\ x.id = y.id
  /\ \/ x.op \in {"change", "delete"} /\ y.op \in {"change", "delete"}
     \/ x.op = "identity" /\ y.op = "identity"
Apart == \A c, d \in Clients : c # d => ~Clash(call[c], call[d])

\* a copy a client has is of a version that the Identity had, or has
Fits(copy, row) ==
  copy # None =>
    /\ row # None
    /\ Live(row) => /\ copy.version <= row.version
                    /\ copy.version = row.version => copy.body = row.body
CachesFit == \A c \in Clients, i \in Ids : Fits(cache[c][i], identity[i])

\* the event loop: only one handler is not at an await
OneRuns ==
  backend = "memory" =>
    \A c, d \in Clients : c # d => call[c].pc \in {"idle", "provider"}
                                   \/ call[d].pc \in {"idle", "provider"}

IdentityInv ==
  /\ \A c \in Clients : Current(call[c]) /\ OnMission(call[c])
  /\ Apart /\ CachesFit /\ OneRuns

\* The receipts: one that a call holds is its own; a pending one is held; a completed
\* one names what was stored.
Done(s) == receipt[s] # None /\ receipt[s].result # 0
HeldFits ==
  \A c \in Clients : call[c].held =>
    receipt[Slot(c)] = IF backend = "memory" THEN [print |-> call[c].body, result |-> 0] ELSE None
HeldOnce == \A c, d \in Clients : c # d /\ call[c].held /\ call[d].held => Slot(c) # Slot(d)
PendingIsHeld ==
  \A s \in Slots : receipt[s] # None /\ receipt[s].result = 0 =>
    backend = "memory" /\ \E c \in Clients : call[c].held /\ Slot(c) = s
DoneIsStored ==
  \A s \in Slots : Done(s) =>
    IF s[1] = "identity" THEN identity[receipt[s].result] # None
    ELSE mission[receipt[s].result] # None
ReceiptInv == HeldFits /\ HeldOnce /\ PendingIsHeld /\ DoneIsStored

\* The ids that were answered under a key, and those that may still be: what its
\* receipt names, and what repetitions have read from it.
Named(s) == IF Done(s) THEN {receipt[s].result} ELSE {}
Repeated(s) ==
  {call[c].id : c \in {d \in Clients : call[d].pc \in {"replay", "repeat"} /\ Slot(d) = s}}
Known(s) == replies[s] \cup Named(s) \cup Repeated(s)
CountInv ==
  \A s \in Slots :
    /\ effects[s] = pruned[s] + IF Done(s) THEN 1 ELSE 0
    /\ IsFiniteSet(Known(s)) /\ Cardinality(Known(s)) <= effects[s]

-----------------------------------------------------------------------------
(* Facts about the data                                                     *)

LEMMA NoData ==
  /\ \A r \in IdentityRows : r \in Copies /\ r # None /\ r # Gone
  /\ \A r \in Copies : r # None /\ r # Gone
  /\ \A r \in MissionRows : r # None
  /\ None # Gone
BY SentinelAssumption DEF IdentityRows, Copies, Bodies

\* The record of a call is one of its operation.
LEMMA CallTypes ==
  ASSUME NEW x \in Calls
  PROVE  /\ x.op = "get" => x \in GetCalls
         /\ x.op = "change" => x \in ChangeCalls
         /\ x.op = "delete" => x \in DeleteCalls
         /\ x.op = "identity" => x \in IdentityCalls
         /\ x.op = "mission" => x \in MissionCalls
         /\ x.op = "command" => x \in CommandCalls
         /\ x.op \in Reads \cup Keyed \cup {"none"}
         /\ x.op = "none" => x = IdleCall
         /\ x.pc = "idle" => x = IdleCall
<1>1. IdleCall.op = "none" /\ IdleCall.pc = "idle"
    BY DEF IdleCall
<1>2. x \in GetCalls => x.op = "get" /\ x.pc # "idle"
    BY DEF GetCalls
<1>3. x \in ChangeCalls => x.op = "change" /\ x.pc # "idle"
    BY DEF ChangeCalls
<1>4. x \in DeleteCalls => x.op = "delete" /\ x.pc # "idle"
    BY DEF DeleteCalls
<1>5. x \in IdentityCalls => x.op = "identity" /\ x.pc # "idle"
    BY DEF IdentityCalls
<1>6. x \in MissionCalls => x.op = "mission" /\ x.pc # "idle"
    BY DEF MissionCalls
<1>7. x \in CommandCalls => x.op = "command" /\ x.pc # "idle"
    BY DEF CommandCalls
<1> QED BY <1>1, <1>2, <1>3, <1>4, <1>5, <1>6, <1>7 DEF Calls, Reads, Keyed

\* Which operations come to which place.
LEMMA PcTypes ==
  ASSUME NEW x \in Calls
  PROVE  /\ x.pc \in {"row", "docs"} => x.op \in Reads
         /\ x.pc = "references" => x.op = "delete"
         /\ x.pc = "participants" => x.op = "mission"
         /\ x.pc \in {"begin", "receipt", "replay"} => x.op \in Keyed
         /\ x.pc = "repeat" => x.op = "identity"
         /\ x.pc \in {"version", "load", "provider"} => x.op = "command"
         /\ x.pc \in {"write", "commit"} => x.op \in {"change", "delete"} \cup Keyed
         /\ x.op \in Reads => x.id \in Ids /\ x.key = None /\ x.held = FALSE
<1>1. x \in GetCalls => x.pc \in {"row", "docs"} /\ x.id \in Ids /\ x.key = None /\ x.held = FALSE
    BY DEF GetCalls
<1>2. x \in ChangeCalls =>
        x.pc \in {"row", "docs", "write", "commit"} /\ x.id \in Ids /\ x.key = None /\ x.held = FALSE
    BY DEF ChangeCalls
<1>3. x \in DeleteCalls =>
        /\ x.pc \in {"row", "docs", "references", "write", "commit"}
        /\ x.id \in Ids /\ x.key = None /\ x.held = FALSE
    BY DEF DeleteCalls
<1>4. x \in IdentityCalls =>
        x.pc \in {"begin", "receipt", "replay", "repeat", "write", "commit"}
    BY DEF IdentityCalls
<1>5. x \in MissionCalls =>
        x.pc \in {"participants", "begin", "receipt", "replay", "write", "commit"}
    BY DEF MissionCalls
<1>6. x \in CommandCalls =>
        x.pc \in {"version", "begin", "receipt", "replay", "load", "provider", "write", "commit"}
    BY DEF CommandCalls
<1>7. x.op = "none" => x.pc = "idle"
    BY CallTypes DEF IdleCall
<1> QED BY <1>1, <1>2, <1>3, <1>4, <1>5, <1>6, <1>7, CallTypes DEF Reads, Keyed

LEMMA IdleFits == IdleCall \in Calls /\ Stage(IdleCall) /\ Current(IdleCall) /\ OnMission(IdleCall)
BY DEF IdleCall, Calls, Stage, Current, HasRead, OnMission, Reads, Holding

LEMMA AppliedType ==
  ASSUME NEW S, NEW body \in [Fields -> S], NEW changes \in Changes, 1 \in S
  PROVE  Applied(body, changes) \in [Fields -> S]
<1>1. \A f \in DOMAIN changes : changes[f] = 1
    BY DEF Changes
<1> QED BY <1>1 DEF Applied

-----------------------------------------------------------------------------
(* One step of one call                                                     *)

\* What every step of a call shows: only its own record changes, to one that is as
\* a call there must be, and no two transactions have the same row written.
Moved(c) ==
  /\ call' = [call EXCEPT ![c] = call'[c]]
  /\ call'[c] \in Calls /\ Stage(call'[c]) /\ Current(call'[c]) /\ OnMission(call'[c])
  /\ \A d \in Clients \ {c} : ~Clash(call'[c], call[d])
  /\ call'[c].pc = "idle" \/ Runs(c)

\* the call ends
LEMMA Ends ==
  ASSUME TypeInv, NEW c \in Clients, call' = Idle(c)
  PROVE  Moved(c) /\ call'[c] = IdleCall
<1>1. call'[c] = IdleCall /\ call' = [call EXCEPT ![c] = call'[c]]
    BY DEF Idle, TypeInv
<1> QED BY <1>1, IdleFits DEF Moved, Clash, IdleCall

\* the call goes on, and does not come to its commit
LEMMA GoesOn ==
  ASSUME TypeInv, NEW c \in Clients, NEW y, call' = [call EXCEPT ![c] = y], Runs(c),
         y \in Calls, Stage(y), Current(y), OnMission(y), y.pc # "commit"
  PROVE  Moved(c)
BY DEF Moved, Clash, TypeInv

\* how a call may begin
Fine(r) ==
  /\ r \in Calls /\ r.pc \notin {"commit", "replay", "repeat"} /\ r.held = FALSE
  /\ Stage(r) /\ Current(r) /\ OnMission(r)

LEMMA MovedSend ==
  ASSUME TypeInv, IdentityInv, NEW c \in Clients, Send(c), call' # call
  PROVE  Moved(c) /\ call'[c].held = FALSE /\ call'[c].pc \notin {"replay", "repeat"}
<1>1. PICK r \in Requests(c) : call' = [call EXCEPT ![c] = r]
    BY DEF Send
<1>2. Runs(c) /\ call[c] = IdleCall
    BY CallTypes DEF Send, TypeInv
<1> DEFINE ids == {i \in Ids : identity[i] # None}
           cached == {i \in Ids : cache[c][i] # None}
<1>3. cached \subseteq ids
    BY DEF IdentityInv, CachesFit, Fits
<1>4. \A i \in Ids : cache[c][i] \in Copies \cup {None}
    BY DEF TypeInv
<1>goal. SUFFICES Fine(r)
    BY <1>1, <1>2, GoesOn DEF Fine, TypeInv
<1>5. CASE \E i \in ids : r = Request("get", "row", None, i, None, cache[c][i])
  <2>1. PICK i \in ids : r = Request("get", "row", None, i, None, cache[c][i])
      BY <1>5
  <2>2. r = [op |-> "get", pc |-> "row", key |-> None, id |-> i, body |-> None,
             match |-> cache[c][i], held |-> FALSE, again |-> FALSE, read |-> None, new |-> None]
      BY <2>1 DEF Request, IdleCall
  <2>3. r \in GetCalls
      BY <2>2, <1>4 DEF GetCalls
  <2>4. r \in Calls /\ r.pc \notin {"commit", "replay", "repeat"} /\ r.held = FALSE
      BY <2>2, <2>3 DEF Calls
  <2>5. Stage(r) /\ Current(r) /\ OnMission(r)
      BY <2>2, <2>3 DEF Stage, Current, HasRead, OnMission, Holding, Reads
  <2> QED BY <2>4, <2>5 DEF Fine
<1>6. CASE \E i \in cached, b \in Changes : r = Request("change", "row", None, i, b, cache[c][i])
  <2>1. PICK i \in cached, b \in Changes : r = Request("change", "row", None, i, b, cache[c][i])
      BY <1>6
  <2>2. r = [op |-> "change", pc |-> "row", key |-> None, id |-> i, body |-> b,
             match |-> cache[c][i], held |-> FALSE, again |-> FALSE, read |-> None, new |-> None]
      BY <2>1 DEF Request, IdleCall
  <2>3. r \in ChangeCalls /\ identity[i] # None
      BY <2>2, <1>3, <1>4 DEF ChangeCalls
  <2>4. r \in Calls /\ r.pc \notin {"commit", "replay", "repeat"} /\ r.held = FALSE
      BY <2>2, <2>3 DEF Calls
  <2>5. Stage(r) /\ Current(r) /\ OnMission(r)
      BY <2>2, <2>3 DEF Stage, Current, HasRead, OnMission, Holding, Reads
  <2> QED BY <2>4, <2>5 DEF Fine
<1>7. CASE \E i \in cached : r = Request("delete", "row", None, i, None, cache[c][i])
  <2>1. PICK i \in cached : r = Request("delete", "row", None, i, None, cache[c][i])
      BY <1>7
  <2>2. r = [op |-> "delete", pc |-> "row", key |-> None, id |-> i, body |-> None,
             match |-> cache[c][i], held |-> FALSE, again |-> FALSE, read |-> None, new |-> None]
      BY <2>1 DEF Request, IdleCall
  <2>3. r \in DeleteCalls /\ identity[i] # None
      BY <2>2, <1>3, <1>4 DEF DeleteCalls
  <2>4. r \in Calls /\ r.pc \notin {"commit", "replay", "repeat"} /\ r.held = FALSE
      BY <2>2, <2>3 DEF Calls
  <2>5. Stage(r) /\ Current(r) /\ OnMission(r)
      BY <2>2, <2>3 DEF Stage, Current, HasRead, OnMission, Holding, Reads
  <2> QED BY <2>4, <2>5 DEF Fine
<1>8. CASE \E k \in Keys, name \in {0, 1} : r = Request("identity", "begin", k, 0, name, None)
  <2>1. PICK k \in Keys, name \in {0, 1} : r = Request("identity", "begin", k, 0, name, None)
      BY <1>8
  <2>2. r = [op |-> "identity", pc |-> "begin", key |-> k, id |-> 0, body |-> name,
             match |-> None, held |-> FALSE, again |-> FALSE, read |-> None, new |-> None]
      BY <2>1 DEF Request, IdleCall
  <2>3. r \in IdentityCalls /\ k # None
      BY <2>2, SentinelAssumption DEF IdentityCalls
  <2>4. r \in Calls /\ r.pc \notin {"commit", "replay", "repeat"} /\ r.held = FALSE
      BY <2>2, <2>3 DEF Calls
  <2>5. Stage(r) /\ Current(r) /\ OnMission(r)
      BY <2>2, <2>3 DEF Stage, Current, HasRead, OnMission, Holding, Reads
  <2> QED BY <2>4, <2>5 DEF Fine
<1>9. CASE r = Request("identity", "write", None, 0, 1, None)
  <2>2. r = [op |-> "identity", pc |-> "write", key |-> None, id |-> 0, body |-> 1,
             match |-> None, held |-> FALSE, again |-> FALSE, read |-> None, new |-> None]
      BY <1>9 DEF Request, IdleCall
  <2>3. r \in IdentityCalls
      BY <2>2 DEF IdentityCalls
  <2>4. r \in Calls /\ r.pc \notin {"commit", "replay", "repeat"} /\ r.held = FALSE
      BY <2>2, <2>3 DEF Calls
  <2>5. Stage(r) /\ Current(r) /\ OnMission(r)
      BY <2>2, <2>3 DEF Stage, Current, HasRead, OnMission, Holding, Reads
  <2> QED BY <2>4, <2>5 DEF Fine
<1>10. CASE \E k \in Keys \cup {None}, i \in ids :
              r = Request("mission", "participants", k, 0, i, None)
  <2>1. PICK k \in Keys \cup {None}, i \in ids :
               r = Request("mission", "participants", k, 0, i, None)
      BY <1>10
  <2>2. r = [op |-> "mission", pc |-> "participants", key |-> k, id |-> 0, body |-> i,
             match |-> None, held |-> FALSE, again |-> FALSE, read |-> None, new |-> None]
      BY <2>1 DEF Request, IdleCall
  <2>3. r \in MissionCalls
      BY <2>2 DEF MissionCalls
  <2>4. r \in Calls /\ r.pc \notin {"commit", "replay", "repeat"} /\ r.held = FALSE
      BY <2>2, <2>3 DEF Calls
  <2>5. Stage(r) /\ Current(r) /\ OnMission(r)
      BY <2>2, <2>3 DEF Stage, Current, HasRead, OnMission, Holding, Reads
  <2> QED BY <2>4, <2>5 DEF Fine
<1>11. CASE \E k \in CommandKeys, m \in {n \in MissionIds : mission[n] # None}, x \in Commands,
               v \in {None, 0} :
              r = Request("command", IF v = None THEN "begin" ELSE "version", k, m, <<m, x>>, v)
  <2>1. PICK k \in CommandKeys, m \in {n \in MissionIds : mission[n] # None}, x \in Commands,
               v \in {None, 0} :
              r = Request("command", IF v = None THEN "begin" ELSE "version", k, m, <<m, x>>, v)
      BY <1>11
  <2>2. r = [op |-> "command", pc |-> IF v = None THEN "begin" ELSE "version", key |-> k,
             id |-> m, body |-> <<m, x>>, match |-> v, held |-> FALSE, again |-> FALSE,
             read |-> None, new |-> None]
      BY <2>1 DEF Request, IdleCall
  <2>3. r \in CommandCalls /\ k # None /\ mission[m] # None
      BY <2>2, SentinelAssumption DEF CommandCalls
  <2>4. r.pc \in {"begin", "version"} /\ r.op = "command" /\ r.id = m /\ r.key = k /\ r.held = FALSE
      BY <2>2
  <2>5. r \in Calls /\ r.pc \notin {"commit", "replay", "repeat"} /\ r.held = FALSE
      BY <2>3, <2>4 DEF Calls
  <2>6. Stage(r) /\ Current(r) /\ OnMission(r)
      BY <2>3, <2>4 DEF Stage, Current, HasRead, OnMission, Holding, Reads
  <2> QED BY <2>5, <2>6 DEF Fine
<1> DEFINE R1 == {Request("get", "row", None, i, None, cache[c][i]) : i \in ids}
           R2 == {Request("change", "row", None, i, b, cache[c][i]) : i \in cached, b \in Changes}
           R3 == {Request("delete", "row", None, i, None, cache[c][i]) : i \in cached}
           R4 == {Request("identity", "begin", k, 0, name, None) : k \in Keys, name \in {0, 1}}
           R5 == {Request("identity", "write", None, 0, 1, None)}
           R6 == {Request("mission", "participants", k, 0, i, None) : k \in Keys \cup {None}, i \in ids}
           R7 == {Request("command", IF v = None THEN "begin" ELSE "version", k, m, <<m, x>>, v) :
                    k \in CommandKeys, m \in {n \in MissionIds : mission[n] # None}, x \in Commands,
                    v \in {None, 0}}
<1>12. Requests(c) = UNION {R1, R2, R3, R4, R5, R6, R7}
    BY DEF Requests
<1>13. /\ r \in R1 => Fine(r)
       /\ r \in R2 => Fine(r)
       /\ r \in R3 => Fine(r)
       /\ r \in R4 => Fine(r)
       /\ r \in R5 => Fine(r)
       /\ r \in R6 => Fine(r)
       /\ r \in R7 => Fine(r)
    BY <1>5, <1>6, <1>7, <1>8, <1>9, <1>10, <1>11
<1> HIDE DEF R1, R2, R3, R4, R5, R6, R7
<1> QED BY <1>12, <1>13

LEMMA MovedBegin ==
  ASSUME TypeInv, IdentityInv, NEW c \in Clients, Begin(c)
  PROVE  Moved(c)
<1> DEFINE x == call[c]
           y == [x EXCEPT !.held = TRUE, !.pc = IF x.op = "command" THEN "load" ELSE "write"]
           z == [x EXCEPT !.pc = "receipt"]
<1>1. x \in Calls /\ Stage(x) /\ Current(x) /\ OnMission(x) /\ x.pc = "begin" /\ Runs(c)
    BY DEF Begin, TypeInv, IdentityInv
<1>2. x.op \in Keyed /\ x.key # None
    BY <1>1, PcTypes DEF Stage
<1>3. y \in Calls /\ z \in Calls /\ y.pc # "commit" /\ z.pc # "commit"
  <2>1. CASE x.op = "identity"
    <3>1. x \in IdentityCalls
        BY <2>1, <1>1, CallTypes
    <3> QED BY <2>1, <3>1 DEF IdentityCalls, Calls
  <2>2. CASE x.op = "mission"
    <3>1. x \in MissionCalls
        BY <2>2, <1>1, CallTypes
    <3> QED BY <2>2, <3>1 DEF MissionCalls, Calls
  <2>3. CASE x.op = "command"
    <3>1. x \in CommandCalls
        BY <2>3, <1>1, CallTypes
    <3> QED BY <2>3, <3>1 DEF CommandCalls, Calls
  <2> QED BY <1>2, <2>1, <2>2, <2>3 DEF Keyed
<1>4. /\ y.op = x.op /\ y.key = x.key /\ y.id = x.id /\ y.held = TRUE
      /\ y.pc = IF x.op = "command" THEN "load" ELSE "write"
      /\ z.op = x.op /\ z.key = x.key /\ z.id = x.id /\ z.held = x.held /\ z.pc = "receipt"
  <2>1. x.op = "identity" \/ x.op = "mission" \/ x.op = "command"
      BY <1>2 DEF Keyed
  <2> QED BY <2>1, <1>1, CallTypes DEF IdentityCalls, MissionCalls, CommandCalls
<1>5. call' = [call EXCEPT ![c] = y] \/ call' = [call EXCEPT ![c] = z]
    BY DEF Begin, Goto, TypeInv
<1> HIDE DEF y, z
<1>6. Stage(y) /\ Stage(z) /\ Current(y) /\ Current(z) /\ OnMission(y) /\ OnMission(z)
    BY <1>1, <1>2, <1>4 DEF Stage, Current, HasRead, OnMission, Holding, Reads, Keyed
<1> QED BY <1>1, <1>3, <1>5, <1>6, GoesOn

LEMMA MovedFound ==
  ASSUME TypeInv, IdentityInv, ReceiptInv, NEW c \in Clients, Found(c)
  PROVE  Moved(c)
<1> DEFINE x == call[c]
           r == receipt[Slot(c)]
           y == [x EXCEPT !.pc = "replay", !.id = r.result]
<1>1. x \in Calls /\ Stage(x) /\ x.pc = "receipt" /\ Runs(c)
    BY DEF Found, TypeInv
<1>2. x.op \in Keyed /\ x.key # None
    BY <1>1, PcTypes DEF Stage
<1>3. CASE r # None /\ r.print = Fingerprint(c) /\ r.result # 0
  <2>1. call' = [call EXCEPT ![c] = y]
      BY <1>3 DEF Found, TypeInv
  <2>2. Slot(c) \in Slots /\ Slot(c)[1] = x.op
    <3>1. CASE x.op = "command"
        BY <3>1, <1>1, CallTypes DEF CommandCalls, Slot, Slots
    <3>2. CASE x.op = "identity"
        BY <3>2, <1>1, <1>2, CallTypes DEF IdentityCalls, Slot, Slots
    <3>3. CASE x.op = "mission"
        BY <3>3, <1>1, <1>2, CallTypes DEF MissionCalls, Slot, Slots
    <3> QED BY <1>2, <3>1, <3>2, <3>3 DEF Keyed
  <2>3. r \in Receipts(x.op)
      BY <2>2, <1>3 DEF TypeInv
  <2>4. r.result \in IF x.op = "identity" THEN Ids ELSE MissionIds
      BY <2>3, <1>3 DEF Receipts
  <2>5. /\ y \in Calls
        /\ y.pc = "replay" /\ y.id = r.result /\ y.op = x.op /\ y.key = x.key /\ y.held = x.held
    <3>1. CASE x.op = "identity"
      <4>1. x \in IdentityCalls
          BY <3>1, <1>1, CallTypes
      <4> QED BY <3>1, <4>1, <2>4 DEF IdentityCalls, Calls
    <3>2. CASE x.op = "mission"
      <4>1. x \in MissionCalls
          BY <3>2, <1>1, CallTypes
      <4> QED BY <3>2, <4>1, <2>4 DEF MissionCalls, Calls
    <3>3. CASE x.op = "command"
      <4>1. x \in CommandCalls
          BY <3>3, <1>1, CallTypes
      <4> QED BY <3>3, <4>1, <2>4 DEF CommandCalls, Calls
    <3> QED BY <1>2, <3>1, <3>2, <3>3 DEF Keyed
  <2>6. Stage(y) /\ Current(y) /\ OnMission(y)
    <3>1. y.op = "command" => mission[y.id] # None
        BY <1>3, <2>2, <2>5 DEF ReceiptInv, DoneIsStored, Done
    <3>2. Stage(y)
        BY <1>1, <1>2, <1>3, <2>5 DEF Stage, Holding, Reads, Keyed
    <3> QED BY <3>1, <3>2, <1>2, <2>5 DEF Current, HasRead, OnMission, Reads, Keyed
  <2> QED BY <2>1, <2>5, <2>6, <1>1, GoesOn
<1>4. CASE ~(r # None /\ r.print = Fingerprint(c) /\ r.result # 0)
    BY <1>4, Ends DEF Found
<1> QED BY <1>3, <1>4

LEMMA MovedReadRow ==
  ASSUME TypeInv, IdentityInv, NEW c \in Clients, ReadRow(c)
  PROVE  Moved(c)
<1> DEFINE x == call[c]
           y == [x EXCEPT !.read = identity[x.id], !.pc = "docs"]
<1>1. x \in Calls /\ Stage(x) /\ Current(x) /\ x.pc = "row" /\ Runs(c)
    BY DEF ReadRow, TypeInv, IdentityInv
<1>2. x.op \in Reads /\ x.id \in Ids /\ x.key = None /\ x.held = FALSE
    BY <1>1, PcTypes
<1>3. CASE Live(identity[x.id])
  <2>1. identity[x.id] \in IdentityRows /\ identity[x.id] \in Copies
      BY <1>2, <1>3, NoData DEF Live, TypeInv
  <2>2. call' = [call EXCEPT ![c] = y]
      BY <1>3 DEF ReadRow, TypeInv
  <2>3. /\ y \in Calls /\ y.pc = "docs" /\ y.read = identity[x.id] /\ y.op = x.op /\ y.id = x.id
        /\ y.key = x.key /\ y.held = x.held
    <3>1. CASE x.op = "get"
      <4>1. x \in GetCalls
          BY <3>1, <1>1, CallTypes
      <4> QED BY <3>1, <4>1, <2>1 DEF GetCalls, Calls
    <3>2. CASE x.op = "change"
      <4>1. x \in ChangeCalls
          BY <3>2, <1>1, CallTypes
      <4> QED BY <3>2, <4>1, <2>1 DEF ChangeCalls, Calls
    <3>3. CASE x.op = "delete"
      <4>1. x \in DeleteCalls
          BY <3>3, <1>1, CallTypes
      <4> QED BY <3>3, <4>1, <2>1 DEF DeleteCalls, Calls
    <3> QED BY <1>2, <3>1, <3>2, <3>3 DEF Reads
  <2> HIDE DEF y
  <2>4. Stage(y)
      BY <1>2, <2>1, <2>3 DEF Stage, Reads, Holding
  <2>5. identity[x.id].version \in Nat
      BY <2>1 DEF IdentityRows
  <2>6. Current(y) /\ OnMission(y)
      BY <1>1, <1>2, <2>3, <2>5 DEF Current, HasRead, OnMission, Reads
  <2> QED BY <1>1, <2>2, <2>3, <2>4, <2>6, GoesOn
<1>4. CASE ~Live(identity[x.id])
    BY <1>4, Ends DEF ReadRow
<1> QED BY <1>3, <1>4

LEMMA MovedReplay ==
  ASSUME TypeInv, IdentityInv, NEW c \in Clients, Replay(c)
  PROVE  Moved(c)
<1> DEFINE x == call[c]
           y == [x EXCEPT !.read = identity[x.id], !.pc = "repeat"]
<1>1. x \in Calls /\ Stage(x) /\ x.pc = "replay" /\ Runs(c)
    BY DEF Replay, TypeInv
<1>2. CASE x.op = "identity" /\ Live(identity[x.id])
  <2>1. x \in IdentityCalls /\ x.id \in Ids /\ x.key # None /\ x.held = FALSE
      BY <1>1, <1>2, CallTypes DEF IdentityCalls, Stage, Holding
  <2>2. identity[x.id] \in IdentityRows /\ identity[x.id] \in Copies
      BY <1>2, <2>1, NoData DEF Live, TypeInv
  <2>3. call' = [call EXCEPT ![c] = y]
      BY <1>2 DEF Replay, TypeInv
  <2>4. /\ y \in Calls /\ y.pc = "repeat" /\ y.read = identity[x.id] /\ y.op = "identity"
        /\ y.id = x.id /\ y.key = x.key /\ y.held = FALSE
      BY <1>2, <2>1, <2>2 DEF IdentityCalls, Calls
  <2> HIDE DEF y
  <2>5. Stage(y)
      BY <2>1, <2>2, <2>4 DEF Stage, Reads, Holding
  <2>6. identity[x.id].version \in Nat /\ identity[x.id] # None
      BY <1>2, <2>2 DEF IdentityRows, Live
  <2>7. Current(y) /\ OnMission(y)
      BY <2>4, <2>6 DEF Current, HasRead, OnMission, Reads
  <2> QED BY <1>1, <2>3, <2>4, <2>5, <2>7, GoesOn
<1>3. CASE ~(x.op = "identity" /\ Live(identity[x.id]))
    BY <1>3, Ends DEF Replay
<1> QED BY <1>2, <1>3

\* What the second statement of a read gives is a copy; it has the first one's version,
\* and is the row as long as that version is current.
LEMMA DocsFit ==
  ASSUME TypeInv, IdentityInv, NEW c \in Clients, call[c].pc \in {"docs", "repeat"}
  PROVE  LET x == call[c] IN
         /\ ReadDocs(c) \in Copies /\ ReadDocs(c).version = x.read.version
         /\ Fits(ReadDocs(c), identity[x.id])
         /\ Live(identity[x.id]) /\ x.read.version = identity[x.id].version =>
              ReadDocs(c) = identity[x.id]
<1> DEFINE x == call[c]
           row == identity[x.id]
           docs == IF Live(row) THEN row.body.docs ELSE None
<1>1. x \in Calls /\ Stage(x) /\ Current(x)
    BY DEF TypeInv, IdentityInv
<1>2. HasRead(x) /\ x.id \in Ids
    BY <1>1, PcTypes DEF HasRead, Stage
<1>3. x.read \in Copies /\ row # None
    BY <1>1, <1>2, PcTypes DEF Stage, Current, HasRead
<1>4. docs \in {0, 1, None}
  <2>1. Live(row) => row \in IdentityRows
      BY <1>2 DEF Live, TypeInv
  <2> QED BY <2>1 DEF IdentityRows, Bodies, Fields
<1>5. ReadDocs(c) = [x.read EXCEPT !.body.docs = docs]
    BY DEF ReadDocs
<1>6. ReadDocs(c) \in Copies /\ ReadDocs(c).version = x.read.version
    BY <1>3, <1>4, <1>5 DEF Copies, Fields
<1>7. ASSUME Live(row) PROVE x.read.version <= row.version /\ row \in IdentityRows
    BY <1>7, <1>1, <1>2 DEF Current, HasRead, Live, TypeInv
<1>8. ASSUME Live(row), x.read.version = row.version PROVE ReadDocs(c) = row
  <2>1. x.read = row
      BY <1>8, <1>1, <1>2 DEF Current, HasRead
  <2>2. row \in Copies
      BY <1>7, <1>8, NoData
  <2> QED BY <2>1, <2>2, <1>5, <1>8 DEF Copies, Fields
<1> QED BY <1>3, <1>6, <1>7, <1>8 DEF Fits

LEMMA MovedMatch ==
  ASSUME TypeInv, IdentityInv, NEW c \in Clients, Match(c)
  PROVE  Moved(c)
<1> DEFINE x == call[c]
           next == IF x.op = "delete" THEN "references"
                   ELSE IF IsPut(c) /\ ~x.again THEN "row" ELSE "write"
           y == [x EXCEPT !.read = ReadDocs(c), !.pc = next, !.again = next = "row"]
<1>1. x \in Calls /\ Stage(x) /\ Current(x) /\ x.pc = "docs" /\ Runs(c) /\ x.op \in {"change", "delete"}
    BY DEF Match, TypeInv, IdentityInv
<1>2. x.id \in Ids /\ x.key = None /\ x.held = FALSE
    BY <1>1, PcTypes
<1>3. CASE SameTag(c)
  <2>1. call' = [call EXCEPT ![c] = y]
      BY <1>3 DEF Match, TypeInv
  <2>2. /\ y \in Calls /\ y.pc \in {"references", "row", "write"} /\ y.read = ReadDocs(c)
        /\ y.op = x.op /\ y.id = x.id /\ y.key = x.key /\ y.held = x.held
    <3>1. CASE x.op = "change"
      <4>1. x \in ChangeCalls
          BY <3>1, <1>1, CallTypes
      <4> QED BY <3>1, <4>1, <1>1, DocsFit, ZenonT(60) DEF ChangeCalls, Calls
    <3>2. CASE x.op = "delete"
      <4>1. x \in DeleteCalls
          BY <3>2, <1>1, CallTypes
      <4> QED BY <3>2, <4>1, <1>1, DocsFit, ZenonT(60) DEF DeleteCalls, Calls
    <3> QED BY <1>1, <3>1, <3>2
  <2> HIDE DEF y
  <2>3. Stage(y)
      BY <1>1, <1>2, <2>2, DocsFit DEF Stage, Reads, Holding
  <2>4. Current(y) /\ OnMission(y)
    <3>1. Live(identity[x.id]) =>
             /\ y.read.version <= identity[x.id].version
             /\ y.read.version = identity[x.id].version => y.read = identity[x.id]
      <4>1. ReadDocs(c) # None
          BY <1>1, DocsFit, NoData
      <4> QED BY <4>1, <1>1, <2>2, DocsFit DEF Fits
    <3> QED BY <3>1, <1>1, <2>2 DEF Current, HasRead, OnMission, Reads
  <2> QED BY <1>1, <2>1, <2>2, <2>3, <2>4, GoesOn
<1>4. CASE ~SameTag(c)
    BY <1>4, Ends DEF Match
<1> QED BY <1>3, <1>4

LEMMA MovedReferences ==
  ASSUME TypeInv, IdentityInv, NEW c \in Clients, References(c)
  PROVE  Moved(c)
<1> DEFINE x == call[c]
           y == [x EXCEPT !.pc = "write"]
<1>1. x \in Calls /\ Stage(x) /\ Current(x) /\ x.pc = "references" /\ Runs(c)
    BY DEF References, TypeInv, IdentityInv
<1>2. x \in DeleteCalls /\ x.op = "delete"
    BY <1>1, PcTypes, CallTypes
<1>3. /\ y \in Calls /\ y.pc = "write" /\ y.read = x.read
      /\ y.op = x.op /\ y.id = x.id /\ y.key = None /\ y.held = FALSE
    BY <1>2 DEF DeleteCalls, Calls
<1>4. call' = [call EXCEPT ![c] = y] \/ call' = Idle(c)
    BY DEF References, Goto, TypeInv
<1> HIDE DEF y
<1>5. Stage(y) /\ Current(y) /\ OnMission(y)
    BY <1>1, <1>2, <1>3 DEF Stage, Current, HasRead, OnMission, Reads, Holding
<1> QED BY <1>1, <1>3, <1>4, <1>5, GoesOn, Ends

\* Under the version that was read, an update writes what the request asks for on top
\* of the row as it is.
LEMMA ChangedFits ==
  ASSUME TypeInv, IdentityInv, NEW c \in Clients, call[c].op = "change", call[c].pc = "write",
         SameVersion(c)
  PROVE  LET x == call[c] IN
         /\ x.read = identity[x.id] /\ Changed(c) \in IdentityRows
         /\ Changed(c) = [version |-> x.read.version + 1, body |-> Applied(x.read.body, x.body)]
<1> DEFINE x == call[c]
           row == identity[x.id]
           sent == Applied(x.read.body, x.body)
           set == IF IsPut(c) THEN {"prefs"} ELSE {"name", "docs"}
<1>1. x \in ChangeCalls /\ Current(x)
    BY CallTypes DEF TypeInv, IdentityInv
<1>2. x.body \in Changes /\ x.id \in Ids
    BY <1>1 DEF ChangeCalls
<1>3. row \in IdentityRows /\ x.read = row
    BY <1>1, <1>2 DEF TypeInv, SameVersion, Current, HasRead, Live, Reads
<1>4. sent \in Bodies
    BY <1>2, <1>3, AppliedType DEF IdentityRows, Bodies
<1>5. \A f \in Fields : f \notin set => sent[f] = row.body[f]
  <2>1. \A f \in Fields : f \notin set => f \notin DOMAIN x.body
      BY <1>2 DEF IsPut, Changes, Fields
  <2> QED BY <2>1, <1>3 DEF Applied
<1>6. [f \in Fields |-> IF f \in set THEN sent[f] ELSE row.body[f]] = sent
    BY <1>4, <1>5 DEF Bodies
<1>7. Changed(c) = [version |-> x.read.version + 1, body |-> sent]
    BY <1>6 DEF Changed, NewVersion
<1> QED BY <1>3, <1>4, <1>7 DEF IdentityRows

LEMMA MovedWriteIdentity ==
  ASSUME TypeInv, IdentityInv, NEW c \in Clients, WriteIdentity(c)
  PROVE  Moved(c)
<1> DEFINE x == call[c]
           y == [x EXCEPT !.pc = "commit", !.new = IF x.op = "delete" THEN Gone ELSE Changed(c)]
<1>1. /\ x \in Calls /\ Stage(x) /\ Current(x) /\ x.pc = "write" /\ Runs(c)
      /\ x.op \in {"change", "delete"} /\ ~RowLocked(c, {"change", "delete"})
    BY DEF WriteIdentity, TypeInv, IdentityInv
<1>2. x.id \in Ids /\ x.key = None /\ x.held = FALSE
    BY <1>1, PcTypes DEF Reads
<1>3. CASE SameVersion(c)
  <2>1. call' = [call EXCEPT ![c] = y]
      BY <1>3 DEF WriteIdentity, TypeInv
  <2>2. /\ y \in Calls /\ y.pc = "commit" /\ y.read = x.read /\ y.body = x.body
        /\ y.op = x.op /\ y.id = x.id /\ y.key = x.key /\ y.held = x.held
        /\ y.new = IF x.op = "delete" THEN Gone ELSE Changed(c)
    <3>1. CASE x.op = "change"
      <4>1. x \in ChangeCalls /\ Changed(c) \in IdentityRows
          BY <3>1, <1>1, <1>3, CallTypes, ChangedFits
      <4> QED BY <3>1, <4>1 DEF ChangeCalls, Calls
    <3>2. CASE x.op = "delete"
      <4>1. x \in DeleteCalls
          BY <3>2, <1>1, CallTypes
      <4> QED BY <3>2, <4>1 DEF DeleteCalls, Calls
    <3> QED BY <1>1, <3>1, <3>2
  <2> HIDE DEF y
  <2>3. Stage(y)
      BY <1>1, <1>2, <2>2 DEF Stage, Reads, Holding
  <2>4. Current(y) /\ OnMission(y)
      BY <1>1, <1>3, <2>2, ChangedFits DEF Current, HasRead, OnMission, Reads, SameVersion
  <2>5. \A d \in Clients \ {c} : ~Clash(y, call[d])
    <3>1. TAKE d \in Clients \ {c}
    <3>2. CASE backend = "memory"
        BY <3>2, <1>1 DEF Runs, Clash
    <3>3. CASE backend = "database"
        BY <3>3, <1>1, <2>2 DEF RowLocked, Clash
    <3> QED BY <3>2, <3>3 DEF TypeInv
  <2>6. call'[c] = y
      BY <2>1 DEF TypeInv
  <2> QED BY <1>1, <2>1, <2>2, <2>3, <2>4, <2>5, <2>6 DEF Moved
<1>4. CASE ~SameVersion(c)
    BY <1>4, Ends DEF WriteIdentity
<1> QED BY <1>3, <1>4

LEMMA MovedParticipants ==
  ASSUME TypeInv, IdentityInv, NEW c \in Clients, Participants(c)
  PROVE  Moved(c)
<1> DEFINE x == call[c]
           y == [x EXCEPT !.pc = IF x.key = None THEN "write" ELSE "begin"]
<1>1. x \in Calls /\ Stage(x) /\ x.pc = "participants" /\ Runs(c)
    BY DEF Participants, TypeInv
<1>2. x \in MissionCalls /\ x.op = "mission"
    BY <1>1, PcTypes, CallTypes
<1>3. /\ y \in Calls /\ y.pc = IF x.key = None THEN "write" ELSE "begin"
      /\ y.op = "mission" /\ y.key = x.key /\ y.held = x.held
    BY <1>2 DEF MissionCalls, Calls
<1>4. call' = [call EXCEPT ![c] = y] \/ call' = Idle(c)
    BY DEF Participants, Goto, TypeInv
<1> HIDE DEF y
<1>5. Stage(y) /\ Current(y) /\ OnMission(y)
    BY <1>1, <1>2, <1>3 DEF Stage, Current, HasRead, OnMission, Reads, Holding
<1> QED BY <1>1, <1>3, <1>4, <1>5, GoesOn, Ends

LEMMA LeastOf ==
  ASSUME NEW S \in SUBSET Nat, S # {}
  PROVE  \E i \in S : \A j \in S : i <= j
<1>1. PICK i \in S : \A j \in S : <<j, i>> \notin OpToRel(<, Nat)
    BY WFMin, NatLessThanWellFounded, Zenon
<1>2. \A j \in S : ~(j < i)
    BY <1>1, Zenon DEF OpToRel
<1> QED BY <1>2

LEMMA MovedCreate ==
  ASSUME TypeInv, IdentityInv, NEW c \in Clients, Create(c)
  PROVE  Moved(c)
<1> DEFINE x == call[c]
           table == IF x.op = "identity" THEN identity ELSE mission
           fresh == FreshIds(table, x.op)
           i == CHOOSE k \in fresh : \A j \in fresh : k <= j
           row == IF x.op = "identity"
                  THEN [version |-> 0, body |-> Applied(Plain, [name |-> x.body])]
                  ELSE [who |-> x.body, status |-> "created", seq |-> 0]
           y == [x EXCEPT !.pc = "commit", !.id = i, !.new = row]
<1>1. /\ x \in Calls /\ Stage(x) /\ x.pc = "write" /\ Runs(c) /\ x.op \in {"identity", "mission"}
      /\ fresh # {}
    BY DEF Create, TypeInv
<1>2. DOMAIN table = IF x.op = "identity" THEN Ids ELSE MissionIds
    BY DEF TypeInv
<1>3. i \in fresh
  <2>1. fresh \in SUBSET Nat
      BY <1>2, ApiAssumption DEF FreshIds, Ids, MissionIds
  <2> QED BY <2>1, <1>1, LeastOf
<1>4. i \in DOMAIN table /\ table[i] = None
    BY <1>3 DEF FreshIds
<1>5. \A d \in Clients : ~(call[d].op = x.op /\ call[d].pc = "commit" /\ call[d].id = i)
    BY <1>3 DEF FreshIds
<1>6. row \in IF x.op = "identity" THEN IdentityRows ELSE MissionRows
  <2>1. CASE x.op = "identity"
    <3>1. x.body \in {0, 1}
        BY <2>1, <1>1, CallTypes DEF IdentityCalls
    <3>2. Applied(Plain, [name |-> x.body]) \in Bodies
        BY <3>1 DEF Applied, Plain, Bodies, Fields
    <3> QED BY <2>1, <3>2 DEF IdentityRows
  <2>2. CASE x.op = "mission"
    <3>1. x.body \in Ids
        BY <2>2, <1>1, CallTypes DEF MissionCalls
    <3> QED BY <2>2, <3>1 DEF MissionRows, Statuses
  <2> QED BY <1>1, <2>1, <2>2
<1>step. call' = [call EXCEPT ![c].pc = "commit", ![c].id = i, ![c].new = row]
    BY DEF Create
<1> HIDE DEF i, row, fresh
<1>7. call' = [call EXCEPT ![c] = y] /\ call'[c] = y
    BY <1>step DEF TypeInv
<1>8. /\ y \in Calls /\ y.pc = "commit" /\ y.op = x.op /\ y.id = i /\ y.new = row
      /\ y.key = x.key /\ y.held = x.held
  <2>1. CASE x.op = "identity"
    <3>1. x \in IdentityCalls
        BY <2>1, <1>1, CallTypes
    <3> QED BY <2>1, <3>1, <1>2, <1>4, <1>6, ZenonT(60) DEF IdentityCalls, Calls
  <2>2. CASE x.op = "mission"
    <3>1. x \in MissionCalls
        BY <2>2, <1>1, CallTypes
    <3> QED BY <2>2, <3>1, <1>2, <1>4, <1>6, ZenonT(60) DEF MissionCalls, Calls
  <2> QED BY <1>1, <2>1, <2>2
<1> HIDE DEF y
<1>9. Stage(y)
    BY <1>1, <1>2, <1>4, <1>6, <1>8 DEF Stage, Reads, Holding
<1>10. Current(y) /\ OnMission(y)
    BY <1>1, <1>4, <1>8 DEF Current, HasRead, OnMission, Reads
<1>11. \A d \in Clients \ {c} : ~Clash(y, call[d])
    BY <1>1, <1>5, <1>8 DEF Clash
<1> QED BY <1>1, <1>7, <1>8, <1>9, <1>10, <1>11 DEF Moved

LEMMA MovedEnsureVersion ==
  ASSUME TypeInv, IdentityInv, NEW c \in Clients, EnsureVersion(c)
  PROVE  Moved(c)
<1> DEFINE x == call[c]
           row == mission[x.id]
           y == [x EXCEPT !.pc = "begin", !.read = row]
<1>1. x \in Calls /\ Stage(x) /\ OnMission(x) /\ x.pc = "version" /\ Runs(c)
    BY DEF EnsureVersion, TypeInv, IdentityInv
<1>2. x \in CommandCalls /\ x.op = "command"
    BY <1>1, PcTypes, CallTypes
<1>3. row \in MissionRows \cup {None}
    BY <1>2 DEF CommandCalls, TypeInv
<1>4. /\ y \in Calls /\ y.pc = "begin" /\ y.op = "command" /\ y.key = x.key /\ y.held = x.held
      /\ y.key # None /\ y.id = x.id
    BY <1>2, <1>3, SentinelAssumption DEF CommandCalls, Calls
<1>5. call' = [call EXCEPT ![c] = y] \/ call' = Idle(c)
    BY DEF EnsureVersion, TypeInv
<1> HIDE DEF y
<1>6. Stage(y) /\ Current(y) /\ OnMission(y)
    BY <1>1, <1>2, <1>4 DEF Stage, Current, HasRead, OnMission, Reads, Holding
<1> QED BY <1>1, <1>4, <1>5, <1>6, GoesOn, Ends

LEMMA MissionRowType ==
  ASSUME NEW row \in MissionRows, NEW status \in Statuses, NEW n \in Nat
  PROVE  /\ [row EXCEPT !.seq = n, !.status = status] \in MissionRows
         /\ [row EXCEPT !.status = status, !.seq = n] \in MissionRows
BY DEF MissionRows

\* the row a command works on: the one its session has, or the Mission's
LoadedRow(c) ==
  IF backend = "database" /\ call[c].read # None THEN call[c].read ELSE mission[call[c].id]

LEMMA MovedLoad ==
  ASSUME TypeInv, IdentityInv, NEW c \in Clients, Load(c)
  PROVE  Moved(c)
<1> DEFINE x == call[c]
           row == LoadedRow(c)
           y == [x EXCEPT !.read = row, !.pc = "provider"]
           new == [row EXCEPT !.seq = @ + 1,
                      !.status = IF x.body[2] = "pause" THEN "paused" ELSE "created"]
           z == [x EXCEPT !.read = row, !.pc = "write", !.new = new]
<1>1. x \in Calls /\ Stage(x) /\ OnMission(x) /\ x.pc = "load" /\ Runs(c)
    BY DEF Load, TypeInv, IdentityInv
<1>2. x \in CommandCalls /\ x.op = "command"
    BY <1>1, PcTypes, CallTypes
<1>3. CASE call' = Idle(c)
    BY <1>3, Ends
<1>4. CASE row # None /\ (call' = [call EXCEPT ![c] = y] \/ call' = [call EXCEPT ![c] = z])
  <2>1. row \in MissionRows
    <3>1. x.read \in MissionRows \cup {None} /\ mission[x.id] \in MissionRows \cup {None}
        BY <1>2 DEF CommandCalls, TypeInv
    <3> QED BY <3>1, <1>4 DEF LoadedRow
  <2> HIDE DEF row
  <2>2. new \in MissionRows
    <3>1. row.seq + 1 \in Nat
        BY <2>1 DEF MissionRows
    <3>2. (IF x.body[2] = "pause" THEN "paused" ELSE "created") \in Statuses
        BY DEF Statuses
    <3> QED BY <2>1, <3>1, <3>2, MissionRowType
  <2> HIDE DEF new
  <2>3. y \in Calls /\ z \in Calls
      BY <1>2, <2>1, <2>2 DEF CommandCalls, Calls
  <2>4. /\ y.pc = "provider" /\ y.op = "command" /\ y.key = x.key /\ y.held = x.held
        /\ y.id = x.id /\ y.read = row
        /\ z.pc = "write" /\ z.op = "command" /\ z.key = x.key /\ z.held = x.held
        /\ z.id = x.id /\ z.read = row /\ z.new = new
      BY <1>2 DEF CommandCalls
  <2> HIDE DEF y, z
  <2>5. Stage(y) /\ Stage(z)
      BY <1>1, <1>2, <2>1, <2>2, <2>4 DEF Stage, Reads, Holding
  <2>6. Current(y) /\ OnMission(y) /\ Current(z) /\ OnMission(z)
      BY <1>1, <1>2, <2>4 DEF Current, HasRead, OnMission, Reads
  <2> QED BY <1>1, <1>4, <2>3, <2>4, <2>5, <2>6, GoesOn
<1>5. call' = Idle(c) \/ (row # None /\ (call' = [call EXCEPT ![c] = y] \/ call' = [call EXCEPT ![c] = z]))
    BY DEF Load, Refuse, LoadedRow, TypeInv
<1> QED BY <1>3, <1>4, <1>5

LEMMA MovedProvider ==
  ASSUME TypeInv, IdentityInv, NEW c \in Clients, Provider(c)
  PROVE  Moved(c)
<1> DEFINE x == call[c]
           row == IF backend = "memory" THEN mission[x.id] ELSE [x.read EXCEPT !.seq = @ + 1]
           new(ok) == [row EXCEPT !.status = IF ok THEN "completed" ELSE "failed",
                                  !.seq = @ + IF ok THEN 3 ELSE 1]
<1>1. x \in Calls /\ Stage(x) /\ OnMission(x) /\ x.pc = "provider" /\ Runs(c)
    BY DEF Provider, TypeInv, IdentityInv
<1>2. x \in CommandCalls /\ x.op = "command" /\ x.read \in MissionRows /\ mission[x.id] # None
    BY <1>1, PcTypes, CallTypes DEF Stage, OnMission
<1>3. row \in MissionRows
  <2>1. mission[x.id] \in MissionRows
      BY <1>2 DEF CommandCalls, TypeInv
  <2> QED BY <2>1, <1>2 DEF MissionRows
<1>4. CASE call' = Idle(c)
    BY <1>4, Ends
<1>5. CASE \E ok \in BOOLEAN : call' = [call EXCEPT ![c] = [x EXCEPT !.pc = "write", !.new = new(ok)]]
  <2>1. PICK ok \in BOOLEAN : call' = [call EXCEPT ![c] = [x EXCEPT !.pc = "write", !.new = new(ok)]]
      BY <1>5
  <2>2. new(ok) \in MissionRows
    <3> HIDE DEF row
    <3>1. row.seq + (IF ok THEN 3 ELSE 1) \in Nat
        BY <1>3 DEF MissionRows
    <3>2. (IF ok THEN "completed" ELSE "failed") \in Statuses
        BY DEF Statuses
    <3> QED BY <1>3, <3>1, <3>2, MissionRowType
  <2> DEFINE n == new(ok)
             y == [x EXCEPT !.pc = "write", !.new = n]
  <2> HIDE DEF n
  <2>3. call' = [call EXCEPT ![c] = y] /\ n \in MissionRows
      BY <2>1, <2>2 DEF n
  <2>4. /\ y \in Calls /\ y.pc = "write" /\ y.op = "command" /\ y.key = x.key /\ y.held = x.held
        /\ y.id = x.id /\ y.read = x.read /\ y.new = n
      BY <1>2, <2>3 DEF CommandCalls, Calls
  <2> HIDE DEF y
  <2>5. Stage(y) /\ Current(y) /\ OnMission(y)
      BY <1>1, <1>2, <2>3, <2>4 DEF Stage, Current, HasRead, OnMission, Reads, Holding
  <2> QED BY <1>1, <2>3, <2>4, <2>5, GoesOn
<1>6. \/ call' = Idle(c)
      \/ \E ok \in BOOLEAN : call' = [call EXCEPT ![c] = [x EXCEPT !.pc = "write", !.new = new(ok)]]
    BY ZenonT(60) DEF Provider, Refuse, TypeInv
<1> QED BY <1>4, <1>5, <1>6

LEMMA MovedWriteMission ==
  ASSUME TypeInv, IdentityInv, NEW c \in Clients, WriteMission(c)
  PROVE  Moved(c)
<1> DEFINE x == call[c]
           y == [x EXCEPT !.pc = "commit"]
<1>1. x \in Calls /\ Stage(x) /\ OnMission(x) /\ x.pc = "write" /\ Runs(c) /\ x.op = "command"
    BY DEF WriteMission, TypeInv, IdentityInv
<1>2. x \in CommandCalls
    BY <1>1, CallTypes
<1>3. /\ y \in Calls /\ y.pc = "commit" /\ y.op = "command" /\ y.key = x.key /\ y.held = x.held
      /\ y.id = x.id /\ y.read = x.read /\ y.new = x.new
    BY <1>2 DEF CommandCalls, Calls
<1>4. call' = [call EXCEPT ![c] = y] \/ call' = Idle(c)
    BY DEF WriteMission, Goto, Refuse, TypeInv
<1>5. call' = [call EXCEPT ![c] = y] => call'[c] = y
    BY DEF TypeInv
<1> HIDE DEF y
<1>6. Stage(y) /\ Current(y) /\ OnMission(y) /\ (\A d \in Clients : ~Clash(y, call[d]))
    BY <1>1, <1>3 DEF Stage, Current, HasRead, OnMission, Reads, Holding, Clash
<1> QED BY <1>1, <1>3, <1>4, <1>5, <1>6, Ends DEF Moved

\* Whatever a call does, it is seen on its own record alone.
LEMMA StepMoves ==
  ASSUME TypeInv, IdentityInv, ReceiptInv, NEW c \in Clients,
         \/ Send(c) /\ call' # call
         \/ Begin(c) \/ Found(c) \/ Replay(c) \/ Repeat(c) \/ ReadRow(c) \/ Get(c) \/ Match(c)
         \/ References(c) \/ WriteIdentity(c) \/ Participants(c) \/ Create(c) \/ EnsureVersion(c) \/ Load(c)
         \/ Provider(c) \/ WriteMission(c) \/ Commit(c) \/ Drop(c)
  PROVE  Moved(c)
<1>1. Repeat(c) \/ Get(c) \/ Commit(c) \/ Drop(c) => Moved(c)
    BY Ends DEF Repeat, Get, Commit, Drop, Refuse
<1> QED BY <1>1, MovedSend, MovedBegin, MovedFound, MovedReplay, MovedReadRow, MovedMatch, MovedReferences,
           MovedWriteIdentity, MovedParticipants, MovedCreate, MovedEnsureVersion, MovedLoad,
           MovedProvider, MovedWriteMission

-----------------------------------------------------------------------------
(* The Identities                                                           *)

\* a step of a call
StepOf(c) ==
  \/ Send(c) \/ Begin(c) \/ Found(c) \/ Replay(c) \/ Repeat(c) \/ ReadRow(c) \/ Get(c)
  \/ Match(c) \/ References(c) \/ WriteIdentity(c) \/ Participants(c) \/ Create(c) \/ EnsureVersion(c)
  \/ Load(c) \/ Provider(c) \/ WriteMission(c) \/ Commit(c) \/ Drop(c)

\* What a call at its commit is about to store of an Identity.
LEMMA AtCommit ==
  ASSUME TypeInv, IdentityInv, NEW c \in Clients, call[c].pc = "commit",
         call[c].op \notin {"mission", "command"}
  PROVE  LET x == call[c] IN
         /\ x.op \in {"change", "delete", "identity"} /\ x.id \in Ids
         /\ x.op = "identity" => identity[x.id] = None /\ x.new \in IdentityRows
         /\ x.op = "change" =>
              /\ Live(identity[x.id]) /\ identity[x.id] \in IdentityRows
              /\ x.new \in IdentityRows /\ x.new.version = identity[x.id].version + 1
              /\ x.new.body = Applied(identity[x.id].body, x.body)
              /\ Answer(c) = x.new
         /\ x.op = "delete" => identity[x.id] # None /\ x.new = Gone
<1> DEFINE x == call[c]
<1>1. x \in Calls /\ Stage(x) /\ Current(x)
    BY DEF TypeInv, IdentityInv
<1>2. x.op \in {"change", "delete", "identity"}
    BY <1>1, PcTypes DEF Keyed
<1>3. CASE x.op = "change"
  <2>1. x \in ChangeCalls /\ x.id \in Ids /\ x.body \in Changes
      BY <1>1, <1>3, CallTypes DEF ChangeCalls
  <2>2. Live(identity[x.id]) /\ x.read = identity[x.id]
        /\ x.new = [version |-> x.read.version + 1, body |-> Applied(x.read.body, x.body)]
      BY <1>1, <1>3 DEF Current, HasRead
  <2>3. identity[x.id] \in IdentityRows
      BY <2>1, <2>2 DEF TypeInv, Live
  <2>4. Applied(x.read.body, x.body) \in Bodies
      BY <2>1, <2>2, <2>3, AppliedType DEF IdentityRows, Bodies
  <2>5. x.new \in IdentityRows
      BY <2>2, <2>3, <2>4 DEF IdentityRows
  <2>6. Answer(c) = x.new
      BY <1>3, <2>2 DEF Answer, NewVersion
  <2> QED BY <1>3, <2>1, <2>2, <2>3, <2>5, <2>6
<1>4. CASE x.op = "delete"
    BY <1>1, <1>4, CallTypes DEF DeleteCalls, Current, HasRead, Reads
<1>5. CASE x.op = "identity"
    BY <1>1, <1>5 DEF Current, HasRead, Stage
<1> QED BY <1>2, <1>3, <1>4, <1>5

\* Only a commit of a change, a deletion or a creation changes an Identity.
LEMMA WhoStores ==
  ASSUME NEW c \in Clients, StepOf(c)
  PROVE  \/ identity' = identity
         \/ /\ Commit(c) /\ call[c].pc = "commit" /\ call[c].op \notin {"mission", "command"}
            /\ identity' = [identity EXCEPT ![call[c].id] = call[c].new]
<1>1. CASE Commit(c)
    BY <1>1 DEF Commit
<1>2. CASE ~Commit(c)
    BY <1>2 DEF StepOf, Send, Begin, Found, Replay, Repeat, ReadRow, Get, Match, References, WriteIdentity,
                Participants, Create, EnsureVersion, Load, Provider, WriteMission, Drop, Refuse,
                StoreFixed
<1> QED BY <1>1, <1>2

\* An Identity stays what it is, or gets the next version, or is deleted for good.
Successor(old, new) ==
  \/ new = old
  \/ old = None /\ new \in IdentityRows
  \/ old \in IdentityRows /\ new \in IdentityRows /\ new.version = old.version + 1
  \/ old # None /\ new = Gone

LEMMA IdentitySteps ==
  ASSUME TypeInv, IdentityInv, NEW c \in Clients, StepOf(c)
  PROVE  /\ identity' \in [Ids -> IdentityRows \cup {None, Gone}]
         /\ \A i \in Ids : Successor(identity[i], identity'[i])
<1>1. CASE identity' = identity
    BY <1>1 DEF TypeInv, Successor
<1>2. CASE /\ call[c].pc = "commit" /\ call[c].op \notin {"mission", "command"}
           /\ identity' = [identity EXCEPT ![call[c].id] = call[c].new]
    BY <1>2, AtCommit DEF TypeInv, Successor
<1> QED BY <1>1, <1>2, WhoStores

LEMMA SuccessorFits ==
  ASSUME NEW old \in IdentityRows \cup {None, Gone}, NEW new, Successor(old, new)
  PROVE  /\ old # None => new # None
         /\ Live(old) => old \in IdentityRows
         /\ old # None /\ Live(new) =>
              new = old \/ (old \in IdentityRows /\ new.version = old.version + 1)
BY NoData DEF Successor, Live

\* What a call knows stays true when others store.
LEMMA CurrentStays ==
  ASSUME TypeInv, IdentityInv, NEW c \in Clients, StepOf(c), NEW d \in Clients, d # c,
         call'[d] = call[d]
  PROVE  Current(call[d])'
<1> DEFINE x == call[d]
<1>1. CASE identity' = identity
    BY <1>1 DEF IdentityInv, Current, HasRead, Live
<1>2. CASE /\ call[c].pc = "commit" /\ call[c].op \notin {"mission", "command"}
           /\ identity' = [identity EXCEPT ![call[c].id] = call[c].new]
  <2>1. x \in Calls /\ Stage(x) /\ Current(x)
      BY DEF TypeInv, IdentityInv
  <2>2. call[c].op \in {"change", "delete", "identity"} /\ call[c].id \in Ids
      BY <1>2, AtCommit
  <2>3. ASSUME x.op \in Reads \/ x.pc = "repeat" PROVE identity'[x.id] # None
    <3>1. x.id \in Ids /\ identity[x.id] # None
        BY <2>1, <2>3, PcTypes DEF Current, Stage
    <3> QED BY <3>1, IdentitySteps, SuccessorFits DEF TypeInv
  <2>4. ASSUME HasRead(x), Live(identity'[x.id])
        PROVE  /\ x.read.version <= identity'[x.id].version
               /\ x.read.version = identity'[x.id].version => x.read = identity'[x.id]
    <3>1. x.id \in Ids /\ identity[x.id] # None /\ x.read \in Copies
        BY <2>1, <2>4, PcTypes DEF Current, HasRead, Stage
    <3>2. CASE identity'[x.id] = identity[x.id]
        BY <3>2, <2>1, <2>4 DEF Current, HasRead, Live
    <3>3. CASE identity[x.id] \in IdentityRows /\ identity'[x.id].version = identity[x.id].version + 1
      <4>1. Live(identity[x.id])
          BY <3>3, NoData DEF Live
      <4>2. x.read.version <= identity[x.id].version
          BY <4>1, <2>1, <2>4 DEF Current, HasRead
      <4>3. x.read.version \in Nat /\ identity[x.id].version \in Nat
          BY <3>1, <3>3 DEF Copies, IdentityRows
      <4> QED BY <3>3, <4>2, <4>3
    <3> QED BY <3>1, <3>2, <3>3, <2>4, IdentitySteps, SuccessorFits DEF TypeInv
  <2>5. ASSUME x.op \in {"change", "delete", "identity"}, x.pc = "commit"
        PROVE  identity'[x.id] = identity[x.id]
    <3>1. ~Clash(call[c], x)
        BY DEF IdentityInv, Apart
    <3>2. CASE x.id = call[c].id
      <4>1. x.op = "identity" => identity[x.id] = None
          BY <2>5, <2>1 DEF Current, HasRead
      <4>2. x.op # "identity" => identity[x.id] # None
          BY <2>5, <2>1 DEF Current, HasRead, Reads
      <4>3. call[c].op = "identity" => identity[call[c].id] = None
          BY <1>2, AtCommit
      <4>4. call[c].op # "identity" => identity[call[c].id] # None
          BY <1>2, <2>2, AtCommit, NoData DEF Live
      <4> QED BY <1>2, <2>2, <2>5, <3>1, <3>2, <4>1, <4>2, <4>3, <4>4 DEF Clash
    <3>3. CASE x.id # call[c].id
        BY <1>2, <3>3
    <3> QED BY <3>2, <3>3
  <2>6. x.op \in Reads \/ x.pc = "repeat" => identity'[x.id] # None
      BY <2>3
  <2>7. x.op \in {"change", "delete", "identity"} /\ x.pc = "commit" => identity'[x.id] = identity[x.id]
      BY <2>5
  <2> QED BY <2>1, <2>4, <2>6, <2>7 DEF Current, HasRead, Live
<1> QED BY <1>1, <1>2, WhoStores

\* Missions do not vanish.
LEMMA MissionSteps ==
  ASSUME TypeInv, IdentityInv, NEW c \in Clients, StepOf(c)
  PROVE  /\ mission' \in [MissionIds -> MissionRows \cup {None}]
         /\ \A m \in MissionIds : mission[m] # None => mission'[m] # None
<1> DEFINE x == call[c]
<1>1. x \in Calls /\ Stage(x) /\ OnMission(x)
    BY DEF TypeInv, IdentityInv
<1>2. CASE Load(c) \/ Provider(c)
  <2>1. x.op = "command" /\ x.id \in MissionIds /\ mission[x.id] # None
      BY <1>1, <1>2, PcTypes, CallTypes DEF Load, Provider, CommandCalls, OnMission
  <2>2. mission[x.id] \in MissionRows
      BY <2>1 DEF TypeInv
  <2>3. mission' = mission \/ mission' = [mission EXCEPT ![x.id].seq = @ + 1]
      BY <1>2 DEF Load, Provider, Refuse, StoreFixed
  <2>4. [mission[x.id] EXCEPT !.seq = @ + 1] \in MissionRows
      BY <2>2 DEF MissionRows
  <2> QED BY <2>1, <2>3, <2>4, NoData DEF TypeInv
<1>3. CASE Commit(c) /\ x.op \in {"mission", "command"}
  <2>1. x.new \in MissionRows /\ x.id \in MissionIds /\ mission' = [mission EXCEPT ![x.id] = x.new]
      BY <1>1, <1>3, CallTypes DEF Commit, Stage, CommandCalls
  <2> QED BY <2>1, NoData DEF TypeInv
<1>4. CASE Commit(c) /\ x.op \notin {"mission", "command"}
    BY <1>4 DEF Commit, TypeInv
<1>5. CASE ~Commit(c) /\ ~Load(c) /\ ~Provider(c)
  <2>1. mission' = mission
      BY <1>5 DEF StepOf, Send, Begin, Found, Replay, Repeat, ReadRow, Get, Match, References, WriteIdentity,
                  Participants, Create, EnsureVersion, WriteMission, Drop, Refuse, StoreFixed
  <2> QED BY <2>1 DEF TypeInv
<1> QED BY <1>2, <1>3, <1>4, <1>5

\* What a client is given of an Identity fits the row.
LEMMA CacheSteps ==
  ASSUME TypeInv, IdentityInv, NEW c \in Clients, StepOf(c)
  PROVE  \/ cache' = cache
         \/ \E i \in Ids, v \in Copies :
              cache' = [cache EXCEPT ![c][i] = v] /\ Fits(v, identity'[i])
<1> DEFINE x == call[c]
           i == x.id
<1>1. x \in Calls /\ Stage(x) /\ Current(x)
    BY DEF TypeInv, IdentityInv
<1>2. CASE Repeat(c)
  <2>1. x.pc = "repeat" /\ i \in Ids /\ identity' = identity
      BY <1>1, <1>2 DEF Repeat, Stage
  <2>2. cache' = [cache EXCEPT ![c][i] = ReadDocs(c)]
      BY <1>2 DEF Repeat
  <2> QED BY <2>1, <2>2, DocsFit
<1>3. CASE Get(c)
  <2>1. x.pc = "docs" /\ x.op = "get" /\ i \in Ids /\ identity' = identity
      BY <1>1, <1>3, PcTypes DEF Get, Reads
  <2>2. cache' = cache \/ cache' = [cache EXCEPT ![c][i] = ReadDocs(c)]
      BY <1>3 DEF Get
  <2> QED BY <2>1, <2>2, DocsFit
<1>4. CASE Commit(c)
  <2>1. CASE x.op \in {"identity", "change"}
    <3>1. /\ i \in Ids /\ x.new \in IdentityRows /\ Answer(c) = x.new
          /\ identity' = [identity EXCEPT ![i] = x.new]
        BY <1>4, <2>1, AtCommit DEF Commit, Answer
    <3>2. identity'[i] = x.new /\ x.new \in Copies /\ x.new.version \in Nat
        BY <3>1, NoData DEF TypeInv, IdentityRows
    <3>3. Fits(x.new, identity'[i])
        BY <3>2, NoData DEF Fits
    <3>4. cache' = cache \/ cache' = [cache EXCEPT ![c][i] = x.new]
        BY <1>4, <3>1 DEF Commit
    <3> QED BY <3>1, <3>2, <3>3, <3>4
  <2>2. CASE x.op \notin {"identity", "change"}
      BY <1>4, <2>2 DEF Commit
  <2> QED BY <2>1, <2>2
<1>5. CASE ~Repeat(c) /\ ~Get(c) /\ ~Commit(c)
    BY <1>5 DEF StepOf, Send, Begin, Found, Replay, ReadRow, Match, References, WriteIdentity, Participants,
                Create, EnsureVersion, Load, Provider, WriteMission, Drop, Refuse, StoreFixed
<1> QED BY <1>2, <1>3, <1>4, <1>5

LEMMA FitsStays ==
  ASSUME NEW copy \in Copies \cup {None}, NEW old \in IdentityRows \cup {None, Gone}, NEW new,
         Fits(copy, old), Successor(old, new)
  PROVE  Fits(copy, new)
<1> SUFFICES ASSUME copy # None PROVE Fits(copy, new)
    BY DEF Fits
<1>1. old # None /\ copy.version \in Nat
    BY DEF Fits, Copies
<1>2. CASE new = old
    BY <1>2
<1>3. CASE old \in IdentityRows /\ new \in IdentityRows /\ new.version = old.version + 1
  <2>1. Live(old) /\ old.version \in Nat
      BY <1>3, NoData DEF Live, IdentityRows
  <2> QED BY <1>1, <1>3, <2>1, NoData DEF Fits
<1>4. CASE new = Gone
    BY <1>4, NoData DEF Fits, Live
<1> QED BY <1>1, <1>2, <1>3, <1>4 DEF Successor

LEMMA CachesStay ==
  ASSUME TypeInv, IdentityInv, NEW c \in Clients, StepOf(c)
  PROVE  cache' \in [Clients -> [Ids -> Copies \cup {None}]] /\ CachesFit'
<1>1. \A d \in Clients, i \in Ids : Fits(cache[d][i], identity'[i])
  <2>1. TAKE d \in Clients, i \in Ids
  <2>2. /\ cache[d][i] \in Copies \cup {None} /\ identity[i] \in IdentityRows \cup {None, Gone}
        /\ Fits(cache[d][i], identity[i])
      BY DEF TypeInv, IdentityInv, CachesFit
  <2> QED BY <2>2, IdentitySteps, FitsStays
<1>2. CASE cache' = cache
    BY <1>1, <1>2 DEF CachesFit, TypeInv
<1>3. CASE \E i \in Ids, v \in Copies :
             cache' = [cache EXCEPT ![c][i] = v] /\ Fits(v, identity'[i])
    BY <1>1, <1>3 DEF CachesFit, TypeInv
<1> QED BY <1>2, <1>3, CacheSteps

LEMMA Refused ==
  ASSUME NEW c \in Clients, Send(c), call' = call
  PROVE  UNCHANGED <<backend, identity, mission, receipt, call, cache, effects, replies, pruned>>
BY DEF Send

LEMMA FixedSteps ==
  ASSUME NEW c \in Clients, StepOf(c)
  PROVE  backend' = backend /\ pruned' = pruned
BY DEF StepOf, Send, Begin, Found, Replay, Repeat, ReadRow, Get, Match, References, WriteIdentity, Participants,
       Create, EnsureVersion, Load, Provider, WriteMission, Commit, Drop, Fixed

LEMMA NextIdentity ==
  ASSUME TypeInv, IdentityInv, ReceiptInv, NEW c \in Clients, StepOf(c)
  PROVE  /\ call' \in [Clients -> Calls] /\ \A d \in Clients : Stage(call'[d])
         /\ IdentityInv'
<1>1. CASE Send(c) /\ call' = call
    BY <1>1, Refused DEF IdentityInv, TypeInv, Current, HasRead, OnMission, Apart, Clash, CachesFit, Fits, Live,
                         OneRuns
<1>2. CASE Moved(c)
  <2>1. \A d \in Clients : d # c => call'[d] = call[d]
      BY <1>2 DEF Moved, TypeInv
  <2>2. call' \in [Clients -> Calls]
      BY <1>2 DEF Moved, TypeInv
  <2>3. \A d \in Clients : Stage(call'[d])
      BY <1>2, <2>1 DEF Moved, TypeInv
  <2>4. ASSUME NEW d \in Clients PROVE Current(call[d])'
    <3>1. CASE d = c
      <4>1. CASE identity' = identity
          BY <1>2, <3>1, <4>1 DEF Moved, Current, HasRead, Live
      <4>2. CASE Commit(c)
        <5>1. call'[c] = IdleCall
            BY <4>2, Ends DEF Commit
        <5> QED BY <3>1, <5>1 DEF Current, HasRead, IdleCall, Reads
      <4> QED BY <4>1, <4>2, WhoStores
    <3>2. CASE d # c
        BY <2>1, <3>2, CurrentStays
    <3> QED BY <3>1, <3>2
  <2>5. ASSUME NEW d \in Clients PROVE OnMission(call[d])'
    <3>1. call'[d].op = "command" => mission[call'[d].id] # None
        BY <1>2, <2>1 DEF Moved, OnMission, IdentityInv
    <3>2. call'[d].op = "command" => call'[d].id \in MissionIds
        BY <2>2, CallTypes DEF CommandCalls
    <3> QED BY <3>1, <3>2, MissionSteps DEF OnMission
  <2>6. Apart'
    <3>1. \A x, y : Clash(x, y) => Clash(y, x)
        BY DEF Clash
    <3>2. ASSUME NEW d \in Clients, NEW e \in Clients, d # e PROVE ~Clash(call'[d], call'[e])
      <4>1. CASE d = c
          BY <1>2, <2>1, <3>2, <4>1 DEF Moved
      <4>2. CASE e = c
          BY <1>2, <2>1, <3>1, <3>2, <4>2 DEF Moved
      <4>3. CASE d # c /\ e # c
          BY <2>1, <3>2, <4>3 DEF IdentityInv, Apart
      <4> QED BY <4>1, <4>2, <4>3
    <3> QED BY <3>2 DEF Apart
  <2>7. OneRuns'
    <3>1. ASSUME backend = "memory", NEW d \in Clients, NEW e \in Clients, d # e
          PROVE  call'[d].pc \in {"idle", "provider"} \/ call'[e].pc \in {"idle", "provider"}
      <4>1. CASE call'[c].pc = "idle" \/ (d # c /\ e # c)
          BY <2>1, <3>1, <4>1 DEF IdentityInv, OneRuns
      <4>2. CASE Runs(c) /\ (d = c \/ e = c)
          BY <2>1, <3>1, <4>2 DEF Runs
      <4> QED BY <1>2, <4>1, <4>2 DEF Moved
    <3> QED BY <3>1, FixedSteps DEF OneRuns
  <2> QED BY <2>2, <2>3, <2>4, <2>5, <2>6, <2>7, CachesStay DEF IdentityInv
<1> QED BY <1>1, <1>2, StepMoves DEF StepOf

-----------------------------------------------------------------------------
(* The receipts                                                             *)

\* the slot of a call that may hold a receipt
LEMMA SlotTypes ==
  ASSUME TypeInv, NEW c \in Clients, call[c].op \in Keyed, call[c].key # None
  PROVE  /\ Slot(c) \in Slots /\ Slot(c)[1] = call[c].op
         /\ [print |-> call[c].body, result |-> 0] \in Receipts(call[c].op)
<1>1. call[c] \in Calls
    BY DEF TypeInv
<1>2. CASE call[c].op = "command"
    BY <1>1, <1>2, CallTypes DEF CommandCalls, Slot, Slots, Receipts
<1>3. CASE call[c].op = "identity"
    BY <1>1, <1>3, CallTypes DEF IdentityCalls, Slot, Slots, Receipts
<1>4. CASE call[c].op = "mission"
    BY <1>1, <1>4, CallTypes DEF MissionCalls, Slot, Slots, Receipts
<1> QED BY <1>2, <1>3, <1>4 DEF Keyed

LEMMA HeldTypes ==
  ASSUME TypeInv, NEW c \in Clients, call[c].held
  PROVE  call[c].op \in Keyed /\ call[c].key # None /\ call[c].pc \in Holding
<1>1. call[c] \in Calls /\ Stage(call[c])
    BY DEF TypeInv
<1> QED BY <1>1, CallTypes, PcTypes DEF Stage, Holding, IdleCall

LEMMA ReceiptValue ==
  ASSUME TypeInv, NEW s \in Slots, receipt[s] # None
  PROVE  /\ receipt[s] \in Receipts(s[1])
         /\ receipt[s].result \in {0} \cup IF s[1] = "identity" THEN Ids ELSE MissionIds
BY DEF TypeInv, Receipts

\* How a step may treat the receipts: a call takes its own, gives it back, or
\* completes it; or the receipts stay, and who holds one goes on holding it.
Takes(c) ==
  /\ call[c].pc = "begin" /\ ~call[c].held /\ call'[c].held
  /\ call'[c].op = call[c].op /\ call'[c].key = call[c].key /\ call'[c].body = call[c].body
  /\ ~Inserting(c) /\ receipt[Slot(c)] = None
  /\ receipt' = IF backend = "memory"
                THEN [receipt EXCEPT ![Slot(c)] = [print |-> call[c].body, result |-> 0]] ELSE receipt
Returns(c) == call'[c] = IdleCall /\ receipt' = Released(c)
Completes(c) ==
  /\ Commit(c) /\ call[c].key # None /\ call'[c] = IdleCall
  /\ receipt' = [receipt EXCEPT ![Slot(c)] = [print |-> call[c].body, result |-> call[c].id]]
Keeps(c) ==
  /\ receipt' = receipt /\ call'[c].held = call[c].held
  /\ call[c].held => /\ call'[c].op = call[c].op /\ call'[c].key = call[c].key
                     /\ call'[c].body = call[c].body

LEMMA RecordOf ==
  ASSUME NEW x \in Calls
  PROVE  DOMAIN x = {"op", "pc", "key", "id", "body", "match", "held", "again", "read", "new"}
BY DEF Calls, IdleCall, GetCalls, ChangeCalls, DeleteCalls, IdentityCalls, MissionCalls, CommandCalls

LEMMA ReceiptSteps ==
  ASSUME TypeInv, IdentityInv, NEW c \in Clients, StepOf(c)
  PROVE  Takes(c) \/ Returns(c) \/ Completes(c) \/ Keeps(c)
<1> DEFINE x == call[c]
<1>1. x \in Calls /\ Stage(x) /\ c \in DOMAIN call
    BY DEF TypeInv
<1>2. DOMAIN x = {"op", "pc", "key", "id", "body", "match", "held", "again", "read", "new"}
    BY <1>1, RecordOf
<1>3. call' = Idle(c) => call'[c] = IdleCall
    BY <1>1 DEF Idle
<1>4. IdleCall.held = FALSE
    BY DEF IdleCall
<1>5. CASE Send(c)
  <2>1. x = IdleCall /\ receipt' = receipt
      BY <1>1, <1>5, CallTypes DEF Send
  <2>2. call'[c].held = FALSE
      BY <1>4, <1>5, <2>1, MovedSend
  <2> QED BY <1>4, <2>1, <2>2 DEF Keeps
<1>6. CASE Begin(c)
  <2>1. CASE receipt[Slot(c)] = None
    <3>1. x.pc = "begin" /\ ~x.held /\ ~Inserting(c)
        BY <1>1, <1>6 DEF Begin, Stage, Holding
    <3>2. call' = [call EXCEPT ![c].held = TRUE,
                               ![c].pc = IF x.op = "command" THEN "load" ELSE "write"]
        BY <1>6, <2>1 DEF Begin
    <3>3. call'[c].held = TRUE /\ call'[c].op = x.op /\ call'[c].key = x.key /\ call'[c].body = x.body
        BY <1>1, <1>2, <3>2
    <3> QED BY <1>6, <2>1, <3>1, <3>3 DEF Begin, Takes, Fingerprint
  <2>2. CASE receipt[Slot(c)] # None
      BY <1>1, <1>2, <1>6, <2>2 DEF Begin, Keeps, Goto
  <2> QED BY <2>1, <2>2
<1>7. CASE Found(c) \/ Replay(c) \/ Repeat(c)
  <2>1. x.held = FALSE /\ receipt' = receipt
      BY <1>1, <1>7 DEF Found, Replay, Repeat, Stage, Holding, StoreFixed
  <2>2. call'[c].held = FALSE
      BY <1>1, <1>2, <1>3, <1>4, <1>7, <2>1 DEF Found, Replay, Repeat
  <2> QED BY <2>1, <2>2 DEF Keeps
<1>8. CASE ReadRow(c) \/ Get(c) \/ Match(c) \/ References(c) \/ WriteIdentity(c)
  <2>1. x.held = FALSE
    <3>1. x.op \in Reads
        BY <1>1, <1>8, PcTypes DEF ReadRow, Get, Match, References, WriteIdentity, Reads
    <3> QED BY <1>1, <3>1, PcTypes
  <2>2. receipt' = receipt
      BY <1>8 DEF ReadRow, Get, Match, References, WriteIdentity, StoreFixed
  <2>3. call'[c].held = FALSE
      BY <1>1, <1>2, <1>3, <1>4, <1>8, <2>1 DEF ReadRow, Get, Match, References, WriteIdentity, Goto
  <2> QED BY <2>1, <2>2, <2>3 DEF Keeps
<1>9. CASE Participants(c) \/ EnsureVersion(c)
  <2>1. x.held = FALSE /\ receipt' = receipt
      BY <1>1, <1>9 DEF Participants, EnsureVersion, Stage, Holding, StoreFixed
  <2>2. call'[c].held = FALSE
      BY <1>1, <1>2, <1>3, <1>4, <1>9, <2>1 DEF Participants, EnsureVersion, Goto
  <2> QED BY <2>1, <2>2 DEF Keeps
<1>10. CASE Create(c)
  <2>1. receipt' = receipt
      BY <1>10 DEF Create, StoreFixed
  <2>2. /\ call'[c].held = x.held /\ call'[c].op = x.op /\ call'[c].key = x.key
        /\ call'[c].body = x.body
      BY <1>1, <1>2, <1>10 DEF Create
  <2> QED BY <2>1, <2>2 DEF Keeps
<1>11. CASE Load(c) \/ Provider(c) \/ WriteMission(c)
  <2> DEFINE GaveUp == call' = Idle(c) /\ receipt' = Released(c)
  <2>1. CASE GaveUp
      BY <1>3, <2>1 DEF Returns
  <2>2. CASE ~GaveUp
    <3>1. receipt' = receipt
        BY <1>11, <2>2 DEF Load, Provider, WriteMission, Refuse, StoreFixed
    <3>2. /\ call'[c].held = x.held /\ call'[c].op = x.op /\ call'[c].key = x.key
          /\ call'[c].body = x.body
      <4>1. CASE Load(c)
        <5> DEFINE row == LoadedRow(c)
                   new == [row EXCEPT !.seq = @ + 1,
                             !.status = IF x.body[2] = "pause" THEN "paused" ELSE "created"]
        <5>1. \/ call'[c] = [x EXCEPT !.read = row, !.pc = "provider"]
              \/ call'[c] = [x EXCEPT !.read = row, !.pc = "write", !.new = new]
            BY <1>1, <2>2, <4>1 DEF Load, LoadedRow, Refuse
        <5> HIDE DEF row, new
        <5> QED BY <1>2, <5>1
      <4>2. CASE Provider(c)
        <5>1. \E n : call'[c] = [x EXCEPT !.pc = "write", !.new = n]
            BY <1>1, <2>2, <4>2 DEF Provider
        <5> QED BY <1>2, <5>1
      <4>3. CASE WriteMission(c)
          BY <1>1, <1>2, <2>2, <4>3 DEF WriteMission, Goto, Refuse
      <4> QED BY <1>11, <4>1, <4>2, <4>3
    <3> QED BY <3>1, <3>2 DEF Keeps
  <2> QED BY <2>1, <2>2
<1>12. CASE Commit(c)
  <2>1. CASE x.key # None
      BY <1>3, <1>12, <2>1 DEF Commit, Completes, Fingerprint
  <2>2. CASE x.key = None
      BY <1>1, <1>3, <1>4, <1>12, <2>2 DEF Commit, Keeps, Stage
  <2> QED BY <2>1, <2>2
<1>13. CASE Drop(c)
    BY <1>3, <1>13 DEF Drop, Refuse, Returns
<1> QED BY <1>5, <1>6, <1>7, <1>8, <1>9, <1>10, <1>11, <1>12, <1>13 DEF StepOf

\* the calls of others, and their slots, stay
LEMMA OthersStay ==
  ASSUME TypeInv, IdentityInv, ReceiptInv, NEW c \in Clients, StepOf(c), NEW d \in Clients, d # c
  PROVE  call'[d] = call[d] /\ Slot(d)' = Slot(d)
<1>1. call'[d] = call[d]
    BY StepMoves DEF StepOf, Moved, TypeInv
<1> QED BY <1>1 DEF Slot

LEMMA PendingValue ==
  ASSUME TypeInv, NEW c \in Clients, call[c].op \in Keyed, call[c].key # None
  PROVE  [print |-> call[c].body, result |-> 0] # None
BY SlotTypes, SentinelAssumption DEF Keyed

\* A held receipt is not completed.
LEMMA HeldIsNotDone ==
  ASSUME TypeInv, ReceiptInv, NEW c \in Clients, call[c].held
  PROVE  /\ Slot(c) \in Slots /\ ~Done(Slot(c))
         /\ backend = "memory" => receipt[Slot(c)] # None
         /\ Released(c) = IF backend = "memory" THEN [receipt EXCEPT ![Slot(c)] = None] ELSE receipt
<1>1. Slot(c) \in Slots /\ [print |-> call[c].body, result |-> 0] # None
    BY HeldTypes, SlotTypes, PendingValue
<1>2. receipt[Slot(c)] = IF backend = "memory" THEN [print |-> call[c].body, result |-> 0] ELSE None
    BY DEF ReceiptInv, HeldFits
<1> QED BY <1>1, <1>2 DEF Done, Released, Fingerprint

\* What each kind of step does to the receipts and to who holds them.
LEMMA TakesKeeps ==
  ASSUME TypeInv, IdentityInv, ReceiptInv, NEW c \in Clients, StepOf(c), Takes(c)
  PROVE  /\ HeldFits' /\ HeldOnce' /\ PendingIsHeld' /\ DOMAIN receipt' = Slots
         /\ \A s \in Slots : receipt'[s] = None \/ receipt'[s] \in Receipts(s[1])
         /\ \A s \in Slots : Done(s)' = Done(s) /\ (Done(s) => receipt'[s] = receipt[s])
<1> DEFINE s0 == Slot(c)
           own == [print |-> call[c].body, result |-> 0]
<1>1. call[c] \in Calls /\ call[c].op \in Keyed /\ call[c].key # None
    BY PcTypes DEF Takes, TypeInv, Stage
<1>2. s0 \in Slots /\ own \in Receipts(s0[1]) /\ own # None /\ Slot(c)' = s0 /\ call'[c].body = call[c].body
    BY <1>1, SlotTypes, PendingValue DEF Takes, Slot
<1>3. receipt[s0] = None /\ ~call[c].held /\ call'[c].held
    BY DEF Takes
<1>4. receipt' = IF backend = "memory" THEN [receipt EXCEPT ![s0] = own] ELSE receipt
    BY DEF Takes
<1>5. backend' = backend /\ DOMAIN receipt = Slots
    BY FixedSteps DEF TypeInv
<1>6. ASSUME NEW d \in Clients, d # c, call[d].held PROVE Slot(d) # s0
  <2>1. CASE backend = "memory"
      BY <1>3, <1>6, <2>1, HeldIsNotDone
  <2>2. CASE backend = "database"
      BY <1>6, <2>2 DEF Takes, Inserting
  <2> QED BY <2>1, <2>2 DEF TypeInv
<1>7. HeldFits'
  <2>1. ASSUME NEW d \in Clients, call'[d].held
        PROVE  receipt'[Slot(d)'] =
                 IF backend' = "memory" THEN [print |-> call'[d].body, result |-> 0] ELSE None
    <3>1. CASE d = c
        BY <1>2, <1>3, <1>4, <1>5, <3>1
    <3>2. CASE d # c
      <4>1. call'[d] = call[d] /\ Slot(d)' = Slot(d) /\ Slot(d) # s0
          BY <1>6, <2>1, <3>2, OthersStay
      <4>2. Slot(d) \in Slots
          BY <2>1, <4>1, HeldIsNotDone
      <4> QED BY <1>4, <1>5, <2>1, <4>1, <4>2 DEF ReceiptInv, HeldFits
    <3> QED BY <3>1, <3>2
  <2> QED BY <2>1 DEF HeldFits
<1>8. HeldOnce'
  <2>1. ASSUME NEW d \in Clients, NEW e \in Clients, d # e, call'[d].held, call'[e].held
        PROVE  Slot(d)' # Slot(e)'
      BY <1>2, <1>6, <2>1, OthersStay DEF ReceiptInv, HeldOnce
  <2> QED BY <2>1 DEF HeldOnce
<1>9. PendingIsHeld'
  <2>1. ASSUME NEW s \in Slots, receipt'[s] # None, receipt'[s].result = 0
        PROVE  backend' = "memory" /\ \E d \in Clients : call'[d].held /\ Slot(d)' = s
    <3>1. CASE s = s0
        BY <1>2, <1>3, <1>4, <1>5, <2>1, <3>1 DEF TypeInv
    <3>2. CASE s # s0
      <4>1. receipt[s] # None /\ receipt[s].result = 0
          BY <1>4, <1>5, <2>1, <3>2
      <4>2. PICK d \in Clients : call[d].held /\ Slot(d) = s
          BY <2>1, <4>1 DEF ReceiptInv, PendingIsHeld
      <4> QED BY <1>3, <1>5, <2>1, <4>1, <4>2, OthersStay DEF ReceiptInv, PendingIsHeld
    <3> QED BY <3>1, <3>2
  <2> QED BY <2>1 DEF PendingIsHeld
<1>10. \A s \in Slots : receipt'[s] = None \/ receipt'[s] \in Receipts(s[1])
    BY <1>2, <1>4, <1>5 DEF TypeInv
<1>11. \A s \in Slots : Done(s)' = Done(s) /\ (Done(s) => receipt'[s] = receipt[s])
    BY <1>2, <1>3, <1>4, <1>5 DEF Done
<1> QED BY <1>4, <1>5, <1>7, <1>8, <1>9, <1>10, <1>11

\* when a call no longer holds a receipt, the others hold theirs
LEMMA Dropped ==
  ASSUME TypeInv, IdentityInv, ReceiptInv, NEW c \in Clients, StepOf(c), call'[c] = IdleCall,
         \A s \in Slots : (call[c].held /\ s = Slot(c)) \/ receipt'[s] = receipt[s]
  PROVE  /\ HeldFits' /\ HeldOnce'
         /\ \A s \in Slots : receipt'[s] # None /\ receipt'[s].result = 0
                              /\ ~(call[c].held /\ s = Slot(c)) =>
              backend' = "memory" /\ \E d \in Clients : call'[d].held /\ Slot(d)' = s
<1>1. ~call'[c].held /\ backend' = backend
    BY FixedSteps DEF IdleCall
<1>2. ASSUME NEW d \in Clients, call'[d].held
      PROVE  /\ d # c /\ call'[d] = call[d] /\ Slot(d)' = Slot(d) /\ Slot(d) \in Slots
             /\ receipt'[Slot(d)] = receipt[Slot(d)]
  <2>1. d # c /\ call'[d] = call[d] /\ Slot(d)' = Slot(d)
      BY <1>1, <1>2, OthersStay
  <2>2. Slot(d) \in Slots
      BY <1>2, <2>1, HeldIsNotDone
  <2>3. ~(call[c].held /\ Slot(d) = Slot(c))
      BY <1>2, <2>1 DEF ReceiptInv, HeldOnce
  <2> QED BY <2>1, <2>2, <2>3
<1>3. HeldFits'
    BY <1>1, <1>2 DEF ReceiptInv, HeldFits
<1>4. HeldOnce'
    BY <1>2 DEF ReceiptInv, HeldOnce
<1>5. ASSUME NEW s \in Slots, receipt'[s] # None, receipt'[s].result = 0,
             ~(call[c].held /\ s = Slot(c))
      PROVE  backend' = "memory" /\ \E d \in Clients : call'[d].held /\ Slot(d)' = s
  <2>1. PICK d \in Clients : call[d].held /\ Slot(d) = s /\ backend = "memory"
      BY <1>5 DEF ReceiptInv, PendingIsHeld
  <2> QED BY <1>1, <1>5, <2>1, OthersStay
<1> QED BY <1>3, <1>4, <1>5

LEMMA ReturnsKeeps ==
  ASSUME TypeInv, IdentityInv, ReceiptInv, NEW c \in Clients, StepOf(c), Returns(c)
  PROVE  /\ HeldFits' /\ HeldOnce' /\ PendingIsHeld' /\ DOMAIN receipt' = Slots
         /\ \A s \in Slots : receipt'[s] = None \/ receipt'[s] \in Receipts(s[1])
         /\ \A s \in Slots : Done(s)' = Done(s) /\ (Done(s) => receipt'[s] = receipt[s])
<1>1. CASE ~call[c].held
  <2>1. receipt' = receipt
      BY <1>1 DEF Returns, Released
  <2> QED BY <1>1, <2>1, Dropped DEF Returns, PendingIsHeld, TypeInv, Done
<1>2. CASE call[c].held
  <2>1. /\ Slot(c) \in Slots /\ ~Done(Slot(c)) /\ DOMAIN receipt = Slots
        /\ receipt' = IF backend = "memory" THEN [receipt EXCEPT ![Slot(c)] = None] ELSE receipt
        /\ call'[c] = IdleCall
      BY <1>2, HeldIsNotDone DEF Returns, TypeInv
  <2>2. receipt'[Slot(c)] = None
      BY <1>2, <2>1 DEF ReceiptInv, HeldFits
  <2>3. \A s \in Slots : s = Slot(c) \/ receipt'[s] = receipt[s]
      BY <2>1
  <2>4. HeldFits' /\ HeldOnce' /\ PendingIsHeld'
      BY <1>2, <2>1, <2>2, <2>3, Dropped DEF PendingIsHeld
  <2>5. \A s \in Slots : receipt'[s] = None \/ receipt'[s] \in Receipts(s[1])
      BY <2>2, <2>3 DEF TypeInv
  <2>6. \A s \in Slots : Done(s)' = Done(s) /\ (Done(s) => receipt'[s] = receipt[s])
      BY <2>1, <2>2, <2>3 DEF Done
  <2> QED BY <2>1, <2>4, <2>5, <2>6
<1> QED BY <1>1, <1>2

LEMMA CompletesKeeps ==
  ASSUME TypeInv, IdentityInv, ReceiptInv, NEW c \in Clients, StepOf(c), Completes(c)
  PROVE  /\ HeldFits' /\ HeldOnce' /\ PendingIsHeld' /\ DOMAIN receipt' = Slots
         /\ \A s \in Slots : receipt'[s] = None \/ receipt'[s] \in Receipts(s[1])
         /\ \A s \in Slots : s # Slot(c) => receipt'[s] = receipt[s]
         /\ Slot(c) \in Slots /\ ~Done(Slot(c))
         /\ receipt'[Slot(c)] # None /\ receipt'[Slot(c)].result # 0
         /\ receipt'[Slot(c)].result = call[c].id /\ Slot(c)[1] = call[c].op
         /\ IF call[c].op = "identity" THEN call[c].id \in Ids /\ identity'[call[c].id] # None
            ELSE call[c].id \in MissionIds /\ mission'[call[c].id] # None
<1> DEFINE x == call[c]
           own == [print |-> x.body, result |-> x.id]
<1>1. x \in Calls /\ Stage(x) /\ x.key # None /\ x.pc = "commit" /\ Commit(c)
    BY DEF Completes, Commit, TypeInv
<1>2. x.held
    BY <1>1 DEF Stage, Holding
<1>3. x.op \in Keyed /\ Slot(c) \in Slots /\ Slot(c)[1] = x.op /\ ~Done(Slot(c))
    BY <1>1, <1>2, HeldTypes, SlotTypes, HeldIsNotDone
<1>4. IF x.op = "identity" THEN x.id \in Ids /\ identity'[x.id] # None
      ELSE x.id \in MissionIds /\ mission'[x.id] # None
  <2>1. CASE x.op = "identity"
    <3>1. x.id \in Ids /\ x.new \in IdentityRows /\ identity' = [identity EXCEPT ![x.id] = x.new]
        BY <1>1, <2>1 DEF Stage, Commit
    <3> QED BY <2>1, <3>1, NoData DEF TypeInv
  <2>2. CASE x.op # "identity"
    <3>1. x.op \in {"mission", "command"}
        BY <1>3, <2>2 DEF Keyed
    <3>2. x.id \in MissionIds /\ x.new \in MissionRows /\ mission' = [mission EXCEPT ![x.id] = x.new]
        BY <1>1, <3>1, CallTypes DEF Stage, Commit, CommandCalls
    <3> QED BY <2>2, <3>2, NoData DEF TypeInv
  <2> QED BY <2>1, <2>2
<1>5. own \in Receipts(x.op) /\ own # None /\ x.id # 0
  <2>1. [print |-> x.body, result |-> 0] \in Receipts(x.op) /\ x.id # 0
      BY <1>1, <1>3, <1>4, SlotTypes, ApiAssumption DEF Ids, MissionIds
  <2>2. own \in Receipts(x.op)
      BY <1>4, <2>1 DEF Receipts
  <2> QED BY <1>3, <2>1, <2>2, SentinelAssumption DEF Keyed
<1>6. DOMAIN receipt = Slots /\ receipt' = [receipt EXCEPT ![Slot(c)] = own] /\ call'[c] = IdleCall
    BY DEF Completes, TypeInv
<1>7. receipt'[Slot(c)] = own /\ \A s \in Slots : s # Slot(c) => receipt'[s] = receipt[s]
    BY <1>3, <1>6
<1>8. HeldFits' /\ HeldOnce' /\ PendingIsHeld'
    BY <1>2, <1>5, <1>6, <1>7, Dropped DEF PendingIsHeld
<1>9. \A s \in Slots : receipt'[s] = None \/ receipt'[s] \in Receipts(s[1])
    BY <1>3, <1>5, <1>7 DEF TypeInv
<1> QED BY <1>3, <1>4, <1>5, <1>6, <1>7, <1>8, <1>9

LEMMA KeepsKeeps ==
  ASSUME TypeInv, IdentityInv, ReceiptInv, NEW c \in Clients, StepOf(c), Keeps(c)
  PROVE  HeldFits' /\ HeldOnce' /\ PendingIsHeld'
<1>1. receipt' = receipt /\ backend' = backend /\ call'[c].held = call[c].held
    BY FixedSteps DEF Keeps
<1>2. ASSUME NEW d \in Clients
      PROVE  /\ call'[d].held = call[d].held
             /\ call[d].held => Slot(d)' = Slot(d) /\ call'[d].body = call[d].body
  <2>1. CASE d = c
      BY <1>1, <2>1 DEF Keeps, Slot
  <2>2. CASE d # c
      BY <2>2, OthersStay
  <2> QED BY <2>1, <2>2
<1>3. HeldFits' /\ HeldOnce'
    BY <1>1, <1>2 DEF ReceiptInv, HeldFits, HeldOnce
<1>4. PendingIsHeld'
    BY <1>1, <1>2 DEF ReceiptInv, PendingIsHeld
<1> QED BY <1>3, <1>4

\* the call is at its commit, under a key
CommitsKey(c) == Commit(c) /\ call[c].key # None

\* What the receipts are after a step: the completed ones stay, and the call that
\* commits under a key completes its own.
LEMMA NextReceipts ==
  ASSUME TypeInv, IdentityInv, ReceiptInv, NEW c \in Clients, StepOf(c)
  PROVE  /\ HeldFits' /\ HeldOnce' /\ PendingIsHeld' /\ DOMAIN receipt' = Slots
         /\ \A s \in Slots : receipt'[s] = None \/ receipt'[s] \in Receipts(s[1])
         /\ \A s \in Slots : ~(CommitsKey(c) /\ s = Slot(c)) =>
              Done(s)' = Done(s) /\ (Done(s) => receipt'[s] = receipt[s])
         /\ CommitsKey(c) =>
              /\ Slot(c) \in Slots /\ ~Done(Slot(c)) /\ Slot(c)[1] = call[c].op
              /\ receipt'[Slot(c)] # None /\ receipt'[Slot(c)].result # 0
              /\ receipt'[Slot(c)].result = call[c].id
              /\ IF call[c].op = "identity" THEN identity'[call[c].id] # None
                 ELSE mission'[call[c].id] # None
<1>1. CASE CommitsKey(c)
  <2>1. Completes(c)
      BY <1>1, Ends DEF CommitsKey, Commit, Completes, Fingerprint
  <2> QED BY <1>1, <2>1, CompletesKeeps DEF Done
<1>2. CASE ~CommitsKey(c)
  <2>1. ~Completes(c)
      BY <1>2 DEF Completes, CommitsKey
  <2>2. CASE Takes(c)
      BY <1>2, <2>2, TakesKeeps
  <2>3. CASE Returns(c)
      BY <1>2, <2>3, ReturnsKeeps
  <2>4. CASE Keeps(c)
      BY <1>2, <2>4, KeepsKeeps DEF Keeps, TypeInv, Done
  <2> QED BY <2>1, <2>2, <2>3, <2>4, ReceiptSteps
<1> QED BY <1>1, <1>2

LEMMA NextStored ==
  ASSUME TypeInv, IdentityInv, ReceiptInv, NEW c \in Clients, StepOf(c)
  PROVE  DoneIsStored'
<1>1. ASSUME NEW s \in Slots, Done(s)'
      PROVE  IF s[1] = "identity" THEN identity'[receipt'[s].result] # None
             ELSE mission'[receipt'[s].result] # None
  <2>1. CASE CommitsKey(c) /\ s = Slot(c)
      BY <2>1, NextReceipts
  <2>2. CASE ~(CommitsKey(c) /\ s = Slot(c))
    <3>1. Done(s) /\ receipt'[s] = receipt[s]
        BY <1>1, <2>2, NextReceipts
    <3>2. receipt[s].result \in IF s[1] = "identity" THEN Ids ELSE MissionIds
        BY <3>1, ReceiptValue DEF Done
    <3>3. IF s[1] = "identity" THEN identity[receipt[s].result] # None
          ELSE mission[receipt[s].result] # None
        BY <3>1 DEF ReceiptInv, DoneIsStored
    <3>4. \A i \in Ids : identity[i] # None => identity'[i] # None
        BY IdentitySteps, SuccessorFits DEF TypeInv
    <3> QED BY <3>1, <3>2, <3>3, <3>4, MissionSteps
  <2> QED BY <2>1, <2>2
<1> QED BY <1>1 DEF DoneIsStored

-----------------------------------------------------------------------------
(* Executions and answers under a key                                       *)

\* what a step adds to the executions and the answers
LEMMA CountSteps ==
  ASSUME NEW c \in Clients, StepOf(c)
  PROVE  /\ effects' = IF CommitsKey(c) THEN [effects EXCEPT ![Slot(c)] = @ + 1] ELSE effects
         /\ \/ replies' = replies
            \/ /\ CommitsKey(c) \/ call[c].pc \in {"replay", "repeat"}
               /\ replies' = [replies EXCEPT ![Slot(c)] = @ \cup {call[c].id}]
<1>1. CASE Commit(c)
    BY <1>1 DEF Commit, CommitsKey
<1>2. CASE Replay(c) \/ Repeat(c)
  <2>1. ~Commit(c)
      BY <1>2 DEF Commit, Replay, Repeat
  <2> QED BY <1>2, <2>1 DEF Replay, Repeat, CommitsKey
<1>3. CASE ~Commit(c) /\ ~Replay(c) /\ ~Repeat(c)
    BY <1>3 DEF CommitsKey, StepOf, Send, Begin, Found, ReadRow, Get, Match, References, WriteIdentity,
                Participants, Create, EnsureVersion, Load, Provider, WriteMission, Drop, Refuse,
                StoreFixed
<1> QED BY <1>1, <1>2, <1>3

\* Only a call that has found its receipt comes to repeat an answer, in one step or two.
LEMMA WhoRepeats ==
  ASSUME TypeInv, IdentityInv, NEW c \in Clients, StepOf(c),
         call'[c].pc \in {"replay", "repeat"}
  PROVE  /\ Slot(c)' = Slot(c)
         /\ \/ Done(Slot(c)) /\ call'[c].id = receipt[Slot(c)].result
            \/ call[c].pc = "replay" /\ call'[c].id = call[c].id
<1> DEFINE x == call[c]
<1>1. x \in Calls /\ Stage(x) /\ c \in DOMAIN call
    BY DEF TypeInv
<1>2. DOMAIN x = {"op", "pc", "key", "id", "body", "match", "held", "again", "read", "new"}
    BY <1>1, RecordOf
<1>3. call' # Idle(c)
    BY <1>1 DEF Idle, IdleCall
<1>4. Found(c) \/ Replay(c)
  <2>1. ~Send(c)
      BY MovedSend DEF Send
  <2>2. ~Begin(c)
      BY <1>1, <1>2 DEF Begin, Goto
  <2>3. ~ReadRow(c) /\ ~Match(c) /\ ~References(c) /\ ~WriteIdentity(c)
      BY <1>1, <1>2, <1>3 DEF ReadRow, Match, References, WriteIdentity, Goto
  <2>4. ~Participants(c) /\ ~Create(c) /\ ~EnsureVersion(c)
      BY <1>1, <1>2, <1>3 DEF Participants, Create, EnsureVersion, Goto
  <2>5. ~Load(c)
    <3> DEFINE row == LoadedRow(c)
               new == [row EXCEPT !.seq = @ + 1,
                         !.status = IF x.body[2] = "pause" THEN "paused" ELSE "created"]
    <3>1. Load(c) => \/ call'[c] = [x EXCEPT !.read = row, !.pc = "provider"]
                     \/ call'[c] = [x EXCEPT !.read = row, !.pc = "write", !.new = new]
        BY <1>1, <1>3 DEF Load, LoadedRow, Refuse
    <3> HIDE DEF row, new
    <3> QED BY <1>2, <3>1
  <2>6. ~Provider(c)
    <3>1. Provider(c) => \E n : call'[c] = [x EXCEPT !.pc = "write", !.new = n]
        BY <1>1, <1>3, ZenonT(60) DEF Provider
    <3> QED BY <1>2, <3>1
  <2>7. ~WriteMission(c)
      BY <1>1, <1>2, <1>3 DEF WriteMission, Refuse, Goto
  <2>8. ~Repeat(c) /\ ~Get(c) /\ ~Commit(c) /\ ~Drop(c)
      BY <1>3 DEF Repeat, Get, Commit, Drop, Refuse
  <2> QED BY <2>1, <2>2, <2>3, <2>4, <2>5, <2>6, <2>7, <2>8 DEF StepOf
<1>5. CASE Found(c)
    BY <1>1, <1>2, <1>3, <1>5, ZenonT(60) DEF Found, Slot, Done
<1>6. CASE Replay(c)
  <2>1. x.pc = "replay" /\ call'[c] = [x EXCEPT !.read = identity[x.id], !.pc = "repeat"]
      BY <1>1, <1>3, <1>6 DEF Replay
  <2> QED BY <1>2, <2>1 DEF Slot
<1> QED BY <1>4, <1>5, <1>6

\* A step answers, names and repeats no other id than before, but for the one that a
\* commit stores.
LEMMA KnownSteps ==
  ASSUME TypeInv, IdentityInv, ReceiptInv, NEW c \in Clients, StepOf(c), NEW s \in Slots
  PROVE  Known(s)' \subseteq Known(s) \cup IF CommitsKey(c) /\ s = Slot(c) THEN {call[c].id} ELSE {}
<1> SUFFICES ASSUME NEW x \in Known(s)', x \notin Known(s) PROVE CommitsKey(c) /\ s = Slot(c) /\ x = call[c].id
    OBVIOUS
<1>1. CASE x \in replies'[s]
  <2>1. x \notin replies[s] /\ x \notin Repeated(s)
      BY DEF Known
  <2>2. /\ CommitsKey(c) \/ call[c].pc \in {"replay", "repeat"}
        /\ replies' = [replies EXCEPT ![Slot(c)] = @ \cup {call[c].id}]
      BY <1>1, <2>1, CountSteps
  <2>3. s = Slot(c) /\ x = call[c].id
      BY <1>1, <2>1, <2>2 DEF TypeInv
  <2>4. call[c].pc \notin {"replay", "repeat"}
      BY <2>1, <2>3 DEF Repeated
  <2> QED BY <2>2, <2>3, <2>4
<1>2. CASE x \in Named(s)'
  <2>1. Done(s)' /\ x = receipt'[s].result /\ x \notin Named(s)
      BY <1>2 DEF Named, Known
  <2>2. CASE ~(CommitsKey(c) /\ s = Slot(c))
      BY <2>1, <2>2, NextReceipts DEF Named
  <2> QED BY <2>1, <2>2, NextReceipts
<1>3. CASE x \in Repeated(s)'
  <2>1. PICK d \in Clients :
               call'[d].pc \in {"replay", "repeat"} /\ Slot(d)' = s /\ x = call'[d].id
      BY <1>3 DEF Repeated
  <2>2. CASE d = c
      BY <2>1, <2>2, WhoRepeats DEF Known, Named, Repeated
  <2>3. CASE d # c
      BY <2>1, <2>3, OthersStay DEF Known, Repeated
  <2> QED BY <2>2, <2>3
<1> QED BY <1>1, <1>2, <1>3 DEF Known

LEMMA OneMore ==
  ASSUME NEW S, NEW x, IsFiniteSet(S)
  PROVE  IsFiniteSet(S \cup {x}) /\ Cardinality(S \cup {x}) <= Cardinality(S) + 1
<1>1. Cardinality(S) \in Nat
    BY FS_CardinalityType
<1> QED BY <1>1, FS_AddElement

LEMMA NextCounts ==
  ASSUME TypeInv, IdentityInv, ReceiptInv, CountInv, NEW c \in Clients, StepOf(c)
  PROVE  effects' \in [Slots -> Nat] /\ DOMAIN replies' = Slots /\ CountInv'
<1>1. effects' \in [Slots -> Nat] /\ DOMAIN replies' = Slots /\ pruned' = pruned
    BY CountSteps, FixedSteps DEF TypeInv
<1>2. ASSUME NEW s \in Slots
      PROVE  /\ effects'[s] = pruned'[s] + IF Done(s)' THEN 1 ELSE 0
             /\ IsFiniteSet(Known(s)') /\ Cardinality(Known(s)') <= effects'[s]
  <2>1. /\ effects[s] \in Nat /\ pruned[s] \in Nat
        /\ effects[s] = pruned[s] + IF Done(s) THEN 1 ELSE 0
        /\ IsFiniteSet(Known(s)) /\ Cardinality(Known(s)) <= effects[s]
      BY DEF TypeInv, CountInv
  <2>2. Cardinality(Known(s)) \in Nat
      BY <2>1, FS_CardinalityType
  <2>3. CASE CommitsKey(c) /\ s = Slot(c)
    <3>1. effects'[s] = effects[s] + 1
        BY <2>3, CountSteps DEF TypeInv
    <3>2. ~Done(s) /\ Done(s)'
        BY <2>3, NextReceipts DEF Done
    <3>3. Known(s)' \subseteq Known(s) \cup {call[c].id}
        BY <2>3, KnownSteps
    <3>4. /\ IsFiniteSet(Known(s) \cup {call[c].id})
          /\ Cardinality(Known(s) \cup {call[c].id}) <= Cardinality(Known(s)) + 1
        BY <2>1, OneMore
    <3>5. /\ IsFiniteSet(Known(s)') /\ Cardinality(Known(s)') \in Nat
          /\ Cardinality(Known(s)') <= Cardinality(Known(s) \cup {call[c].id})
        BY <3>3, <3>4, FS_Subset, FS_CardinalityType
    <3>6. Cardinality(Known(s) \cup {call[c].id}) \in Nat
        BY <3>4, FS_CardinalityType
    <3> QED BY <1>1, <2>1, <2>2, <3>1, <3>2, <3>4, <3>5, <3>6
  <2>4. CASE ~(CommitsKey(c) /\ s = Slot(c))
    <3>1. effects'[s] = effects[s]
        BY <2>4, CountSteps DEF TypeInv
    <3>2. Done(s)' = Done(s)
        BY <2>4, NextReceipts
    <3>3. Known(s)' \subseteq Known(s)
        BY <2>4, KnownSteps
    <3>4. /\ IsFiniteSet(Known(s)') /\ Cardinality(Known(s)') \in Nat
          /\ Cardinality(Known(s)') <= Cardinality(Known(s))
        BY <2>1, <3>3, FS_Subset, FS_CardinalityType
    <3> QED BY <1>1, <2>1, <2>2, <3>1, <3>2, <3>4
  <2> QED BY <2>3, <2>4
<1> QED BY <1>1, <1>2 DEF CountInv

-----------------------------------------------------------------------------
(* The theorems                                                             *)

ApiInv == TypeInv /\ IdentityInv /\ ReceiptInv /\ CountInv

LEMMA PruneKeeps ==
  ASSUME ApiInv, NEW s \in Slots, Prune(s)
  PROVE  ApiInv'
<1>1. /\ backend = "database" /\ Done(s) /\ receipt' = [receipt EXCEPT ![s] = None]
      /\ pruned' = [pruned EXCEPT ![s] = @ + 1]
      /\ UNCHANGED <<backend, identity, mission, call, cache, effects, replies>>
    BY DEF Prune, Done
<1>2. /\ receipt'[s] = None /\ \A t \in Slots : t # s => receipt'[t] = receipt[t]
      /\ DOMAIN receipt' = Slots
    BY <1>1 DEF ApiInv, TypeInv
<1>3. TypeInv'
    BY <1>1, <1>2 DEF ApiInv, TypeInv
<1>4. IdentityInv'
    BY <1>1 DEF ApiInv, IdentityInv, Current, HasRead, OnMission, Apart, Clash, CachesFit, Fits, Live, OneRuns
<1>5. \A t \in Slots : IF t = s THEN Done(t) /\ ~Done(t)' ELSE Done(t)' = Done(t) /\ receipt'[t] = receipt[t]
    BY <1>1, <1>2 DEF Done
<1>6. ReceiptInv'
  <2>1. HeldFits'
    <3>1. ASSUME NEW c \in Clients, call[c].held PROVE receipt'[Slot(c)] = None
      <4>1. receipt[Slot(c)] = None /\ Slot(c) \in Slots
          BY <1>1, <3>1, HeldIsNotDone DEF ApiInv, ReceiptInv, HeldFits
      <4> QED BY <1>2, <4>1
    <3> QED BY <1>1, <3>1 DEF HeldFits, Slot
  <2>2. HeldOnce'
      BY <1>1 DEF ApiInv, ReceiptInv, HeldOnce, Slot
  <2>3. PendingIsHeld'
    <3>1. \A t \in Slots : ~(receipt[t] # None /\ receipt[t].result = 0)
        BY <1>1 DEF ApiInv, ReceiptInv, PendingIsHeld
    <3> QED BY <1>2, <3>1 DEF PendingIsHeld
  <2>4. DoneIsStored'
      BY <1>1, <1>5 DEF ApiInv, ReceiptInv, DoneIsStored
  <2> QED BY <2>1, <2>2, <2>3, <2>4 DEF ReceiptInv
<1>7. CountInv'
  <2>1. ASSUME NEW t \in Slots
        PROVE  /\ effects'[t] = pruned'[t] + IF Done(t)' THEN 1 ELSE 0
               /\ IsFiniteSet(Known(t)') /\ Cardinality(Known(t)') <= effects'[t]
    <3>1. /\ effects[t] \in Nat /\ pruned[t] \in Nat
          /\ effects[t] = pruned[t] + IF Done(t) THEN 1 ELSE 0
          /\ IsFiniteSet(Known(t)) /\ Cardinality(Known(t)) <= effects[t]
        BY DEF ApiInv, TypeInv, CountInv
    <3>2. Known(t)' \subseteq Known(t)
        BY <1>1, <1>5 DEF Known, Named, Repeated, Slot
    <3>3. /\ IsFiniteSet(Known(t)') /\ Cardinality(Known(t)') \in Nat /\ Cardinality(Known(t)) \in Nat
          /\ Cardinality(Known(t)') <= Cardinality(Known(t))
        BY <3>1, <3>2, FS_Subset, FS_CardinalityType
    <3>4. effects'[t] = pruned'[t] + IF Done(t)' THEN 1 ELSE 0
      <4>1. pruned'[t] = IF t = s THEN pruned[t] + 1 ELSE pruned[t]
          BY <1>1 DEF ApiInv, TypeInv
      <4> QED BY <1>1, <1>5, <3>1, <4>1
    <3> QED BY <1>1, <3>1, <3>3, <3>4
  <2> QED BY <2>1 DEF CountInv
<1> QED BY <1>3, <1>4, <1>6, <1>7 DEF ApiInv

LEMMA StepKeeps ==
  ASSUME ApiInv, NEW c \in Clients, StepOf(c)
  PROVE  ApiInv'
<1>1. TypeInv'
  <2>1. backend' \in {"database", "memory"} /\ pruned' \in [Slots -> Nat]
      BY FixedSteps DEF ApiInv, TypeInv
  <2> QED BY <2>1, IdentitySteps, MissionSteps, NextReceipts, CachesStay, NextIdentity, NextCounts
          DEF ApiInv, TypeInv
<1>2. ReceiptInv'
    BY NextReceipts, NextStored DEF ApiInv, ReceiptInv
<1> QED BY <1>1, <1>2, NextIdentity, NextCounts DEF ApiInv

LEMMA InitKeeps == Init => ApiInv
<1> SUFFICES ASSUME Init PROVE ApiInv
    OBVIOUS
<1>1. identity \in [Ids -> IdentityRows \cup {None, Gone}] /\ \A i \in Ids : identity[i] # Gone
  <2>1. [version |-> 0, body |-> Plain] \in IdentityRows
      BY DEF IdentityRows, Bodies, Plain
  <2> QED BY <2>1, NoData DEF Init
<1>2. mission \in [MissionIds -> MissionRows \cup {None}]
  <2>1. \A status \in {"created", "requires_confirmation"} :
          [who |-> 1, status |-> status, seq |-> 0] \in MissionRows
      BY ApiAssumption DEF MissionRows, Statuses, Ids
  <2> QED BY <2>1 DEF Init
<1>3. \A c \in Clients, i \in Ids : cache[c][i] = identity[i] /\ cache[c][i] \in Copies \cup {None}
    BY <1>1, NoData DEF Init
<1>4. cache \in [Clients -> [Ids -> Copies \cup {None}]]
    BY <1>3 DEF Init
<1>5. call \in [Clients -> Calls] /\ \A c \in Clients : call[c] = IdleCall
    BY IdleFits DEF Init
<1>6. TypeInv
    BY <1>1, <1>2, <1>4, <1>5, IdleFits DEF Init, TypeInv
<1>7. CachesFit
  <2>1. \A r \in IdentityRows : r.version \in Nat
      BY DEF IdentityRows
  <2> QED BY <1>1, <1>3, <2>1 DEF CachesFit, Fits, Live
<1>8. IdentityInv
  <2>1. \A c \in Clients : Current(call[c]) /\ OnMission(call[c])
      BY <1>5, IdleFits
  <2>2. \A c \in Clients : call[c].pc = "idle"
      BY <1>5 DEF IdleCall
  <2>3. Apart /\ OneRuns
      BY <2>2 DEF Apart, Clash, OneRuns
  <2> QED BY <1>7, <2>1, <2>3 DEF IdentityInv
<1>9. ReceiptInv
    BY <1>5 DEF Init, ReceiptInv, HeldFits, HeldOnce, PendingIsHeld, DoneIsStored, Done, IdleCall
<1>10. CountInv
  <2>1. \A s \in Slots : Known(s) = {} /\ ~Done(s)
      BY <1>5 DEF Init, Known, Named, Repeated, Done, IdleCall
  <2>2. \A s \in Slots : effects[s] = 0 /\ pruned[s] = 0
      BY DEF Init
  <2>3. IsFiniteSet({}) /\ Cardinality({}) = 0
      BY FS_EmptySet
  <2>4. ASSUME NEW s \in Slots
        PROVE  /\ effects[s] = pruned[s] + IF Done(s) THEN 1 ELSE 0
               /\ IsFiniteSet(Known(s)) /\ Cardinality(Known(s)) <= effects[s]
    <3>1. Known(s) = {} /\ ~Done(s) /\ effects[s] = 0 /\ pruned[s] = 0
        BY <2>1, <2>2
    <3> QED BY <2>3, <3>1
  <2> QED BY <2>4 DEF CountInv
<1> QED BY <1>6, <1>8, <1>9, <1>10 DEF ApiInv

LEMMA NextKeeps == ApiInv /\ [Next]_vars => ApiInv'
<1> SUFFICES ASSUME ApiInv, [Next]_vars PROVE ApiInv'
    OBVIOUS
<1>1. CASE UNCHANGED vars
  <2>1. TypeInv'
      BY <1>1 DEF vars, ApiInv, TypeInv
  <2>2. IdentityInv'
      BY <1>1 DEF vars, ApiInv, IdentityInv, Current, HasRead, OnMission, Apart, Clash, CachesFit, Fits, Live, OneRuns
  <2>3. ReceiptInv'
      BY <1>1 DEF vars, ApiInv, ReceiptInv, HeldFits, HeldOnce, PendingIsHeld, DoneIsStored, Done, Slot
  <2>4. CountInv'
    <3>1. \A s \in Slots : Known(s)' = Known(s) /\ Done(s)' = Done(s)
        BY <1>1 DEF vars, Known, Named, Repeated, Done, Slot
    <3> QED BY <1>1, <3>1 DEF vars, ApiInv, CountInv
  <2> QED BY <2>1, <2>2, <2>3, <2>4 DEF ApiInv
<1>2. CASE \E s \in Slots : Prune(s)
    BY <1>2, PruneKeeps
<1>3. CASE \E c \in Clients : StepOf(c)
    BY <1>3, StepKeeps
<1> QED BY <1>1, <1>2, <1>3 DEF Next, StepOf

\* For any number of clients, in both backends: each change of an Identity is its
\* request's fields on top of the version before it (the version in the WHERE).
THEOREM NothingLost == Spec => NoLostUpdate
<1>1. ASSUME ApiInv, [Next]_vars
      PROVE  [\A i \in Ids : Live(identity[i]) /\ identity'[i] # identity[i] =>
                \/ identity'[i] = Gone
                \/ \E c \in Clients :
                     /\ call[c].op = "change" /\ call[c].id = i
                     /\ identity'[i].body = Applied(identity[i].body, call[c].body)]_vars
  <2> SUFFICES ASSUME NEW i \in Ids, Live(identity[i]), identity'[i] # identity[i], identity'[i] # Gone
               PROVE  \E c \in Clients :
                        /\ call[c].op = "change" /\ call[c].id = i
                        /\ identity'[i].body = Applied(identity[i].body, call[c].body)
      OBVIOUS
  <2>1. PICK c \in Clients : StepOf(c)
      BY <1>1 DEF Next, StepOf, Prune, vars
  <2>2. /\ call[c].pc = "commit" /\ call[c].op \notin {"mission", "command"}
        /\ identity' = [identity EXCEPT ![call[c].id] = call[c].new]
      BY <2>1, WhoStores
  <2>3. call[c].id = i /\ identity'[i] = call[c].new
      BY <1>1, <2>2 DEF ApiInv, TypeInv
  <2>4. call[c].op = "change"
      BY <1>1, <2>2, <2>3, AtCommit, NoData DEF ApiInv, Live
  <2>5. identity'[i].body = Applied(identity[i].body, call[c].body)
      BY <1>1, <2>2, <2>3, <2>4, AtCommit DEF ApiInv
  <2> QED BY <2>3, <2>4, <2>5
<1> QED BY <1>1, InitKeeps, NextKeeps, PTL DEF Spec, NoLostUpdate

\* For any number of clients: who has an Identity's current ETag has its current
\* content (the version column; a read in two statements).
THEOREM HonestTags == Spec => []EtagIsHonest
<1>1. ApiInv => EtagIsHonest
    BY NoData DEF ApiInv, IdentityInv, CachesFit, Fits, EtagIsHonest, Live
<1> QED BY <1>1, InitKeeps, NextKeeps, PTL DEF Spec

\* For any number of clients and keys: what is asked for under a key is done once, and
\* answered with one id, but for what retention removed (begin, complete, abort).
THEOREM DoneOncePerKey == Spec => []OncePerKey
<1>1. ASSUME ApiInv PROVE OncePerKey
  <2>1. ASSUME NEW s \in Slots
        PROVE  effects[s] <= 1 + pruned[s] /\ Cardinality(replies[s]) <= 1 + pruned[s]
    <3>1. /\ effects[s] \in Nat /\ pruned[s] \in Nat
          /\ effects[s] = pruned[s] + IF Done(s) THEN 1 ELSE 0
          /\ IsFiniteSet(Known(s)) /\ Cardinality(Known(s)) <= effects[s]
        BY <1>1 DEF ApiInv, TypeInv, CountInv
    <3>2. replies[s] \subseteq Known(s)
        BY DEF Known
    <3>3. /\ Cardinality(replies[s]) \in Nat /\ Cardinality(Known(s)) \in Nat
          /\ Cardinality(replies[s]) <= Cardinality(Known(s))
        BY <3>1, <3>2, FS_Subset, FS_CardinalityType
    <3>4. effects[s] <= 1 + pruned[s]
        BY <3>1
    <3> QED BY <3>1, <3>3, <3>4
  <2> QED BY <2>1 DEF OncePerKey
<1> QED BY <1>1, InitKeeps, NextKeeps, PTL DEF Spec

\* For any number of clients: no receipt is left behind by a call that ended without
\* effect, and a completed one names what was stored with it: a Mission that is there,
\* or an Identity that is there or was deleted (a repetition is then answered 410).
THEOREM NothingLeftBehind == Spec => []ReceiptsAreBacked
<1>1. ApiInv => ReceiptsAreBacked
    BY DEF ApiInv, ReceiptInv, PendingIsHeld, DoneIsStored, Done, ReceiptsAreBacked
<1> QED BY <1>1, InitKeeps, NextKeeps, PTL DEF Spec

-----------------------------------------------------------------------------
(* The rate limit: what its table holds of the calls sent                   *)

\* a call and what the limiter said, an entry of its table
Asks == [client : Clients, at : Nat, ok : BOOLEAN]
TableEntries == [client : Clients, stamps : Seq(Nat)]

\* the calls of c in A that were let through, and how many those from n on are
Through(A, c) == {n \in 1..Len(A) : A[n].client = c /\ A[n].ok}
Rank(A, c, n) == Cardinality({k \in Through(A, c) : k >= n})

\* the last r times of c are in the table, if it is to remember the call n
Remembered(A, T, c, n) ==
  LET S == StampsOf(T, c) IN
  Rank(A, c, n) <= Len(S) /\ S[Len(S) - Rank(A, c, n) + 1] = A[n].at
After(A, n) == {A[k].client : k \in {j \in DOMAIN A : j > n}}
Forgotten(A, c, n) == Cardinality(After(A, n) \ {c}) >= MaxClients

\* the table is in the order of its clients' last calls
Ordered(A, T) ==
  \A i, j \in 1..Len(T) : i < j =>
    /\ T[i].client # T[j].client
    /\ \E k \in 1..Len(A) :
         A[k].client = T[j].client /\ \A n \in 1..Len(A) : A[n].client = T[i].client => n < k

TableType(T) ==
  /\ T \in Seq(TableEntries) /\ Len(T) <= MaxClients
  /\ \A i \in 1..Len(T) : Len(T[i].stamps) <= RequestLimit
AsksType(A, t) ==
  A \in Seq(Asks) /\ \A n \in 1..Len(A) : A[n].at <= t

\* what was let through is in the table, out of the window, or forgotten
Tracked(A, T, t) ==
  \A c \in Clients : \A n \in Through(A, c) :
    A[n].at <= t - Window \/ Forgotten(A, c, n) \/ Remembered(A, T, c, n)

\* the calls of c let through in the window that ends with its last: too many only if
\* one of them was forgotten
Windowed(A, c) == {n \in Through(A, c) : \A k \in Through(A, c) : A[k].at < A[n].at + Window}
Bounded(A) ==
  \A c \in Clients :
    Cardinality(Windowed(A, c)) > RequestLimit => \E n \in Windowed(A, c) : Forgotten(A, c, n)
LimiterInv ==
  /\ now \in 0..MaxTime
  /\ TableType(limiter) /\ AsksType(asked, now)
  /\ Ordered(asked, limiter) /\ Tracked(asked, limiter, now) /\ Bounded(asked)

-----------------------------------------------------------------------------
(* The limiter's table                                                      *)

\* The times still in the window are the last ones, and none of them is missing.
LEMMA RecentIsSuffix ==
  ASSUME NEW S \in Seq(Nat), NEW t \in Nat
  PROVE  /\ Recent(S, t) \in Seq(Nat) /\ Len(Recent(S, t)) <= Len(S)
         /\ \A r \in 1..Len(S) : S[Len(S) - r + 1] > t - Window =>
              r <= Len(Recent(S, t)) /\ Recent(S, t)[Len(Recent(S, t)) - r + 1] = S[Len(S) - r + 1]
<1> DEFINE kept == {i \in DOMAIN S : S[i] > t - Window}
           m == Min(kept)
<1>1. /\ Len(S) \in Nat /\ DOMAIN S = 1..Len(S) /\ \A i \in 1..Len(S) : S[i] \in Nat
    OBVIOUS
<1>2. CASE kept = {}
  <2>1. Recent(S, t) = <<>>
      BY <1>2 DEF Recent
  <2>2. \A r \in 1..Len(S) : ~(S[Len(S) - r + 1] > t - Window)
    <3>1. \A r \in 1..Len(S) : Len(S) - r + 1 \in 1..Len(S)
        BY <1>1
    <3> QED BY <1>1, <1>2, <3>1
  <2> QED BY <1>1, <2>1, <2>2
<1>3. CASE kept # {}
  <2>1. kept \in SUBSET Nat
      BY <1>1
  <2>2. m \in kept /\ \A i \in kept : m <= i
      BY <1>3, <2>1, LeastOf DEF Min
  <2>3. m \in 1..Len(S) /\ Recent(S, t) = SubSeq(S, m, Len(S))
      BY <1>1, <1>3, <2>2 DEF Recent
  <2> HIDE DEF m
  <2>4. /\ SubSeq(S, m, Len(S)) \in Seq(Nat) /\ Len(SubSeq(S, m, Len(S))) = Len(S) - m + 1
        /\ \A i \in 1..Len(S) - m + 1 : SubSeq(S, m, Len(S))[i] = S[m + i - 1]
      BY <1>1, <2>3, SubSeqProperties
  <2>5. ASSUME NEW r \in 1..Len(S), S[Len(S) - r + 1] > t - Window
        PROVE  /\ r <= Len(S) - m + 1
               /\ SubSeq(S, m, Len(S))[Len(S) - m + 1 - r + 1] = S[Len(S) - r + 1]
    <3>1. Len(S) - r + 1 \in kept
        BY <1>1, <2>5
    <3>2. m <= Len(S) - r + 1
        BY <2>2, <3>1
    <3> DEFINE i == Len(S) - m + 1 - r + 1
    <3>3. i >= 1 /\ i <= Len(S) - m + 1 /\ i \in Int /\ r <= Len(S) - m + 1
        BY <1>1, <2>3, <3>2
    <3>4. m + i - 1 = Len(S) - r + 1
        BY <1>1, <2>3
    <3> HIDE DEF i
    <3>5. i \in 1..Len(S) - m + 1
        BY <3>3
    <3>6. SubSeq(S, m, Len(S))[i] = S[m + i - 1]
        BY <2>4, <3>5
    <3>7. SubSeq(S, m, Len(S))[i] = S[Len(S) - r + 1]
        BY <3>4, <3>6
    <3> QED BY <3>3, <3>7 DEF i
  <2> QED BY <1>1, <2>3, <2>4, <2>5, SMTT(60)
<1> QED BY <1>2, <1>3

\* no client has two entries
OneEach(T) == \A i, j \in 1..Len(T) : i # j => T[i].client # T[j].client

LEMMA StampsAt ==
  ASSUME NEW T, TableType(T), OneEach(T), NEW c
  PROVE  /\ \A i \in 1..Len(T) : T[i].client = c => Places(T, c) # {} /\ StampsOf(T, c) = T[i].stamps
         /\ (\A i \in 1..Len(T) : T[i].client # c) => StampsOf(T, c) = <<>>
         /\ Places(T, c) # {} => Place(T, c) \in 1..Len(T) /\ T[Place(T, c)].client = c
         /\ StampsOf(T, c) \in Seq(Nat) /\ Len(StampsOf(T, c)) <= RequestLimit
<1>1. /\ Len(T) \in Nat /\ DOMAIN T = 1..Len(T) /\ \A i \in 1..Len(T) : T[i] \in TableEntries
    BY DEF TableType
<1>2. Places(T, c) # {} => Place(T, c) \in 1..Len(T) /\ T[Place(T, c)].client = c
    BY <1>1 DEF Places, Place
<1>3. \A i \in 1..Len(T) : T[i].client = c => Places(T, c) # {} /\ StampsOf(T, c) = T[i].stamps
    BY <1>1, <1>2 DEF Places, StampsOf, OneEach
<1>4. (\A i \in 1..Len(T) : T[i].client # c) => StampsOf(T, c) = <<>>
    BY <1>1 DEF Places, StampsOf
<1>5. StampsOf(T, c) \in Seq(Nat) /\ Len(StampsOf(T, c)) <= RequestLimit
  <2>1. CASE Places(T, c) = {}
      BY <2>1, LimitAssumption DEF StampsOf
  <2>2. CASE Places(T, c) # {}
      BY <1>1, <1>2, <2>2 DEF StampsOf, TableType, TableEntries
  <2> QED BY <2>1, <2>2
<1> QED BY <1>2, <1>3, <1>4, <1>5

\* The first m entries of N are those of T in their order, but for the one at e: the
\* entry of c, or the first of a full table that c is not in.
LeavesOut(T, N, m, c, e) ==
  /\ m = IF e <= Len(T) THEN Len(T) - 1 ELSE Len(T)
  /\ \A i \in 1..m : N[i] = T[IF i < e THEN i ELSE i + 1]
  /\ e <= Len(T) => \/ T[e].client = c
                    \/ e = 1 /\ Len(T) = MaxClients /\ \A i \in 1..Len(T) : T[i].client # c

\* Room is made by leaving out one entry at most: the client's own, or the first of a
\* full table that the client is not in.
LEMMA MakeRoomLeavesOut ==
  ASSUME NEW T, TableType(T), OneEach(T), NEW c
  PROVE  LET M == MakeRoom(T, c) IN
         /\ M \in Seq(TableEntries) /\ Len(M) < MaxClients
         /\ \A i \in 1..Len(M) : M[i].client # c
         /\ \E e \in 1..Len(T) + 1 : LeavesOut(T, M, Len(M), c, e)
<1> DEFINE M == MakeRoom(T, c)
<1>1. /\ T \in Seq(TableEntries) /\ Len(T) \in Nat /\ DOMAIN T = 1..Len(T) /\ Len(T) <= MaxClients
      /\ \A i \in 1..Len(T) : T[i] \in TableEntries
    BY DEF TableType
<1>2. CASE Places(T, c) # {}
  <2> DEFINE e == Place(T, c)
             A == SubSeq(T, 1, e - 1)
             B == SubSeq(T, e + 1, Len(T))
  <2>1. e \in 1..Len(T) /\ T[e].client = c
      BY <1>2, StampsAt
  <2>2. M = A \o B
      BY <1>2 DEF MakeRoom, RemoveAt
  <2> HIDE DEF e
  <2>3. /\ A \in Seq(TableEntries) /\ Len(A) = e - 1
        /\ \A i \in 1..e - 1 : A[i] = T[i]
    <3>1. \A i \in 1..e - 1 : T[i] \in TableEntries
        BY <1>1, <2>1
    <3>2. /\ A \in Seq(TableEntries) /\ Len(A) = IF 1 <= e - 1 THEN e - 1 - 1 + 1 ELSE 0
          /\ \A i \in 1..e - 1 - 1 + 1 : A[i] = T[1 + i - 1]
        BY <1>1, <2>1, <3>1, SubSeqProperties
    <3> QED BY <2>1, <3>2
  <2>4. /\ B \in Seq(TableEntries) /\ Len(B) = Len(T) - e
        /\ \A i \in 1..Len(T) - e : B[i] = T[e + i]
    <3>1. \A i \in e + 1..Len(T) : T[i] \in TableEntries
        BY <1>1, <2>1
    <3>2. /\ B \in Seq(TableEntries)
          /\ Len(B) = IF e + 1 <= Len(T) THEN Len(T) - (e + 1) + 1 ELSE 0
          /\ \A i \in 1..Len(T) - (e + 1) + 1 : B[i] = T[e + 1 + i - 1]
        BY <1>1, <2>1, <3>1, SubSeqProperties
    <3> HIDE DEF B
    <3>3. e \in Nat /\ e <= Len(T)
        BY <1>1, <2>1
    <3>4. Len(T) - (e + 1) + 1 = Len(T) - e
        BY <1>1, <3>3
    <3>5. \A i \in 1..Len(T) - e : e + 1 + i - 1 = e + i
        BY <1>1, <3>3
    <3>6. CASE e = Len(T)
      <4>1. ~(e + 1 <= Len(T)) /\ Len(T) - e = 0
          BY <1>1, <3>6
      <4> QED BY <3>2, <3>4, <3>5, <4>1
    <3>7. CASE e < Len(T)
      <4>1. e + 1 <= Len(T)
          BY <1>1, <3>3, <3>7
      <4> QED BY <3>2, <3>4, <3>5, <4>1
    <3>8. Len(T) \in Nat
        BY <1>1
    <3>9. e = Len(T) \/ e < Len(T)
        BY <3>3, <3>8
    <3> QED BY <3>6, <3>7, <3>9
  <2> HIDE DEF A, B
  <2>5. /\ M \in Seq(TableEntries) /\ Len(M) = Len(T) - 1
        /\ \A i \in 1..Len(T) - 1 : M[i] = IF i <= e - 1 THEN A[i] ELSE B[i - (e - 1)]
    <3>1. /\ A \o B \in Seq(TableEntries) /\ Len(A \o B) = Len(A) + Len(B)
          /\ \A i \in 1..Len(A) + Len(B) : (A \o B)[i] = IF i <= Len(A) THEN A[i] ELSE B[i - Len(A)]
        BY <2>3, <2>4, ConcatProperties
    <3>2. Len(A) + Len(B) = Len(T) - 1
        BY <1>1, <2>1, <2>3, <2>4
    <3> QED BY <2>2, <2>3, <3>1, <3>2
  <2>6. ASSUME NEW i \in 1..Len(M)
        PROVE  /\ M[i] = T[IF i < e THEN i ELSE i + 1] /\ M[i].client # c
    <3>1. i \in 1..Len(T) - 1
        BY <2>5
    <3>2. M[i] = T[IF i < e THEN i ELSE i + 1]
      <4>1. CASE i < e
          BY <1>1, <2>1, <2>3, <2>5, <3>1, <4>1
      <4>2. CASE ~(i < e)
        <5>1. i - (e - 1) \in 1..Len(T) - e /\ e + (i - (e - 1)) = i + 1
            BY <1>1, <2>1, <3>1, <4>2
        <5>2. B[i - (e - 1)] = T[i + 1]
            BY <2>4, <5>1
        <5>3. ~(i <= e - 1)
            BY <1>1, <2>1, <3>1, <4>2
        <5> QED BY <2>5, <3>1, <4>2, <5>2, <5>3
      <4> QED BY <4>1, <4>2
    <3>3. (IF i < e THEN i ELSE i + 1) \in 1..Len(T) /\ (IF i < e THEN i ELSE i + 1) # e
        BY <1>1, <2>1, <3>1
    <3> QED BY <2>1, <3>2, <3>3 DEF OneEach
  <2> HIDE DEF M
  <2>7. Len(M) < MaxClients /\ e \in 1..Len(T) + 1 /\ e <= Len(T)
      BY <1>1, <2>1, <2>5, LimitAssumption
  <2>8. LeavesOut(T, M, Len(M), c, e)
      BY <2>1, <2>5, <2>6, <2>7 DEF LeavesOut
  <2> QED BY <2>5, <2>6, <2>7, <2>8 DEF M
<1>3. CASE Places(T, c) = {} /\ Len(T) >= MaxClients
  <2>1. M = Tail(T) /\ T # <<>> /\ Len(T) = MaxClients
      BY <1>1, <1>3, LimitAssumption DEF MakeRoom
  <2>2. M \in Seq(TableEntries) /\ Len(M) = Len(T) - 1 /\ \A i \in 1..Len(M) : M[i] = T[i + 1]
      BY <1>1, <2>1, HeadTailProperties
  <2>3. \A i \in 1..Len(T) : T[i].client # c
      BY <1>1, <1>3 DEF Places
  <2> HIDE DEF M
  <2>4. \A i \in 1..Len(M) : i + 1 \in 1..Len(T) /\ ~(i < 1)
      BY <1>1, <2>2
  <2>5. Len(M) < MaxClients /\ 1 \in 1..Len(T) + 1 /\ 1 <= Len(T)
      BY <1>1, <2>1, <2>2, LimitAssumption
  <2>6. LeavesOut(T, M, Len(M), c, 1)
      BY <2>1, <2>2, <2>3, <2>4, <2>5 DEF LeavesOut
  <2>7. \A i \in 1..Len(M) : M[i].client # c
      BY <2>2, <2>3, <2>4
  <2> QED BY <2>2, <2>5, <2>6, <2>7 DEF M
<1>4. CASE Places(T, c) = {} /\ ~(Len(T) >= MaxClients)
  <2>1. M = T
      BY <1>4 DEF MakeRoom
  <2>2. \A i \in 1..Len(T) : T[i].client # c
      BY <1>1, <1>4 DEF Places
  <2>3. /\ Len(T) + 1 \in 1..Len(T) + 1 /\ ~(Len(T) + 1 <= Len(T))
        /\ Len(T) < MaxClients /\ \A i \in 1..Len(T) : i < Len(T) + 1
      BY <1>1, <1>4, LimitAssumption
  <2>4. LeavesOut(T, T, Len(T), c, Len(T) + 1)
      BY <1>1, <2>3 DEF LeavesOut
  <2> QED BY <1>1, <2>1, <2>2, <2>3, <2>4
<1> QED BY <1>2, <1>3, <1>4

\* What a call does to the table: its client's times, those still in the window and
\* perhaps the new one, go to the end; the others stay in their order.
Kept(T, c, t) ==
  LET recent == Recent(StampsOf(T, c), t)
  IN IF Len(recent) < RequestLimit THEN Append(recent, t) ELSE recent

LEMMA AskedTable ==
  ASSUME NEW T, TableType(T), OneEach(T), NEW c \in Clients, NEW t \in Nat
  PROVE  LET N == Asked(T, c, t) IN
         /\ TableType(N) /\ Len(N) \in 1..MaxClients
         /\ N[Len(N)] = [client |-> c, stamps |-> Kept(T, c, t)]
         /\ \A i \in 1..Len(N) - 1 : N[i].client # c
         /\ \E e \in 1..Len(T) + 1 : LeavesOut(T, N, Len(N) - 1, c, e)
<1> DEFINE N == Asked(T, c, t)
           M == MakeRoom(T, c)
           R == Recent(StampsOf(T, c), t)
           new == [client |-> c, stamps |-> Kept(T, c, t)]
<1>1. Kept(T, c, t) \in Seq(Nat) /\ Len(Kept(T, c, t)) <= RequestLimit
  <2>1. R \in Seq(Nat) /\ Len(R) <= RequestLimit /\ Len(R) \in Nat
    <3>1. StampsOf(T, c) \in Seq(Nat) /\ Len(StampsOf(T, c)) <= RequestLimit
        BY StampsAt
    <3>2. R \in Seq(Nat) /\ Len(R) <= Len(StampsOf(T, c))
        BY <3>1, RecentIsSuffix
    <3>3. Len(R) \in Nat /\ Len(StampsOf(T, c)) \in Nat
        BY <3>1, <3>2
    <3> QED BY <3>1, <3>2, <3>3, LimitAssumption
  <2> HIDE DEF R
  <2>2. Append(R, t) \in Seq(Nat) /\ Len(Append(R, t)) = Len(R) + 1
      BY <2>1, AppendProperties
  <2>3. Kept(T, c, t) = IF Len(R) < RequestLimit THEN Append(R, t) ELSE R
      BY DEF Kept, R
  <2> QED BY <2>1, <2>2, <2>3, LimitAssumption
<1>2. N = Append(M, new)
    BY DEF Asked, Kept
<1>3. M \in Seq(TableEntries) /\ new \in TableEntries /\ Len(M) < MaxClients /\ Len(M) \in Nat
  <2>1. M \in Seq(TableEntries) /\ Len(M) < MaxClients
      BY MakeRoomLeavesOut
  <2>2. Len(M) \in Nat
      BY <2>1
  <2>3. new \in TableEntries
      BY <1>1 DEF TableEntries
  <2> QED BY <2>1, <2>2, <2>3
<1>4. PICK e \in 1..Len(T) + 1 : LeavesOut(T, M, Len(M), c, e)
    BY MakeRoomLeavesOut
<1>5. \A i \in 1..Len(M) : M[i].client # c
    BY MakeRoomLeavesOut
<1> HIDE DEF M, N, new
<1>6. /\ N \in Seq(TableEntries) /\ Len(N) = Len(M) + 1
      /\ \A i \in 1..Len(M) : N[i] = M[i]
      /\ N[Len(M) + 1] = new
    BY <1>2, <1>3, AppendProperties
<1>7. Len(N) - 1 = Len(M) /\ Len(N) \in 1..MaxClients /\ N[Len(N)] = new
    BY <1>3, <1>6, LimitAssumption
<1>8. \A i \in 1..Len(N) : Len(N[i].stamps) <= RequestLimit
  <2> SUFFICES ASSUME NEW i \in 1..Len(N) PROVE Len(N[i].stamps) <= RequestLimit
      OBVIOUS
  <2>1. CASE i \in 1..Len(M)
    <3>1. (IF i < e THEN i ELSE i + 1) \in 1..Len(T)
        BY <1>3, <1>4, <2>1 DEF TableType, LeavesOut
    <3> QED BY <1>4, <1>6, <2>1, <3>1 DEF TableType, LeavesOut
  <2>2. CASE i = Len(M) + 1
      BY <1>1, <1>6, <2>2 DEF new
  <2> QED BY <1>3, <1>6, <2>1, <2>2
<1>9. TableType(N)
    BY <1>6, <1>7, <1>8 DEF TableType
<1>10. \A i \in 1..Len(N) - 1 : N[i].client # c
    BY <1>5, <1>6, <1>7
<1>11. LeavesOut(T, N, Len(N) - 1, c, e)
    BY <1>4, <1>6, <1>7 DEF LeavesOut
<1> QED BY <1>7, <1>9, <1>10, <1>11 DEF N, new

-----------------------------------------------------------------------------
(* The calls sent                                                           *)

LEMMA AppendAsks ==
  ASSUME NEW A, NEW t, AsksType(A, t), NEW a \in Asks
  PROVE  /\ A \in Seq(Asks) /\ Len(A) \in Nat /\ DOMAIN A = 1..Len(A)
         /\ Append(A, a) \in Seq(Asks) /\ Len(Append(A, a)) = Len(A) + 1
         /\ DOMAIN Append(A, a) = 1..Len(A) + 1
         /\ \A n \in 1..Len(A) : A[n] \in Asks /\ Append(A, a)[n] = A[n]
         /\ Append(A, a)[Len(A) + 1] = a
<1>1. A \in Seq(Asks) /\ Len(A) \in Nat /\ DOMAIN A = 1..Len(A) /\ \A n \in 1..Len(A) : A[n] \in Asks
    BY DEF AsksType
<1>2. /\ Append(A, a) \in Seq(Asks) /\ Len(Append(A, a)) = Len(A) + 1
      /\ \A n \in 1..Len(A) : Append(A, a)[n] = A[n]
      /\ Append(A, a)[Len(A) + 1] = a
    BY <1>1, AppendProperties
<1> QED BY <1>1, <1>2

LEMMA NextAsksType ==
  ASSUME NEW A, NEW t \in Nat, AsksType(A, t), NEW a \in Asks, a.at >= t
  PROVE  AsksType(Append(A, a), a.at)
<1>1. a.at \in Nat /\ \A n \in 1..Len(A) : A[n].at \in Nat /\ A[n].at <= t
    BY AppendAsks DEF Asks, AsksType
<1>2. \A n \in 1..Len(A) : A[n].at <= a.at
    BY <1>1
<1>3. \A n \in 1..Len(A) + 1 : n \in 1..Len(A) \/ n = Len(A) + 1
    BY AppendAsks
<1> QED BY <1>1, <1>2, <1>3, AppendAsks DEF AsksType

LEMMA NextThrough ==
  ASSUME NEW A, NEW t, AsksType(A, t), NEW a \in Asks, NEW d
  PROVE  Through(Append(A, a), d) =
           Through(A, d) \cup IF a.client = d /\ a.ok THEN {Len(A) + 1} ELSE {}
<1>1. \A n \in 1..Len(A) + 1 : n \in 1..Len(A) \/ n = Len(A) + 1
    BY AppendAsks
<1>2. Len(A) + 1 \in 1..Len(A) + 1 /\ \A n \in 1..Len(A) : n \in 1..Len(A) + 1
    BY AppendAsks
<1> QED BY <1>1, <1>2, AppendAsks DEF Through

LEMMA RankType ==
  ASSUME NEW A, NEW t, AsksType(A, t), NEW c, NEW n
  PROVE  /\ IsFiniteSet({k \in Through(A, c) : k >= n}) /\ Rank(A, c, n) \in Nat
         /\ n \in Through(A, c) => Rank(A, c, n) >= 1
<1> DEFINE K == {k \in Through(A, c) : k >= n}
<1>1. Len(A) \in Nat /\ K \subseteq 1..Len(A)
    BY DEF AsksType, Through
<1>2. IsFiniteSet(1..Len(A))
    BY <1>1, FS_Interval
<1>3. IsFiniteSet(K) /\ Cardinality(K) \in Nat
    BY <1>1, <1>2, FS_Subset, FS_CardinalityType
<1>4. n \in Through(A, c) => Cardinality(K) # 0
  <2>1. n \in Through(A, c) => n \in K
      BY <1>1 DEF Through
  <2> QED BY <1>3, <2>1, FS_EmptySet
<1> QED BY <1>3, <1>4 DEF Rank

\* A call let through pushes those before it one place back.
LEMMA NextRank ==
  ASSUME NEW A, NEW t, AsksType(A, t), NEW a \in Asks, NEW d, NEW n \in 1..Len(A) + 1
  PROVE  /\ n <= Len(A) =>
              Rank(Append(A, a), d, n) =
                Rank(A, d, n) + IF a.client = d /\ a.ok THEN 1 ELSE 0
         /\ n = Len(A) + 1 /\ a.client = d /\ a.ok => Rank(Append(A, a), d, n) = 1
<1> DEFINE K == {k \in Through(A, d) : k >= n}
           L == {k \in Through(Append(A, a), d) : k >= n}
<1>1. Len(A) \in Nat /\ Through(A, d) \subseteq 1..Len(A)
    BY DEF AsksType, Through
<1>2. IsFiniteSet(K) /\ Cardinality(K) \in Nat
    BY RankType, FS_CardinalityType
<1>3. Rank(A, d, n) = Cardinality(K) /\ Rank(Append(A, a), d, n) = Cardinality(L)
    BY DEF Rank
<1>4. CASE n <= Len(A) /\ a.client = d /\ a.ok
  <2>1. L = K \cup {Len(A) + 1} /\ Len(A) + 1 \notin K
      BY <1>1, <1>4, NextThrough
  <2> HIDE DEF K, L
  <2>2. Cardinality(L) = Cardinality(K) + 1
      BY <1>2, <2>1, FS_AddElement
  <2> QED BY <1>1, <1>3, <1>4, <2>2
<1>5. CASE n <= Len(A) /\ ~(a.client = d /\ a.ok)
  <2>1. L = K
      BY <1>5, NextThrough
  <2> HIDE DEF K, L
  <2> QED BY <1>1, <1>2, <1>3, <1>5, <2>1
<1>6. CASE n = Len(A) + 1 /\ a.client = d /\ a.ok
  <2>1. L = {Len(A) + 1}
      BY <1>1, <1>6, NextThrough
  <2> HIDE DEF K, L
  <2>2. Cardinality(L) = 1
      BY <2>1, FS_Singleton
  <2> QED BY <1>1, <1>3, <1>6, <2>2
<1>7. CASE n = Len(A) + 1 /\ ~(a.client = d /\ a.ok)
    BY <1>1, <1>7
<1> QED BY <1>1, <1>4, <1>5, <1>6, <1>7

\* The clients that called since are finitely many, and do not become fewer.
LEMMA AfterGrows ==
  ASSUME NEW A, NEW t, AsksType(A, t), NEW a \in Asks, NEW n \in 1..Len(A)
  PROVE  /\ IsFiniteSet(After(A, n)) /\ IsFiniteSet(After(Append(A, a), n))
         /\ After(A, n) \subseteq After(Append(A, a), n) /\ a.client \in After(Append(A, a), n)
         /\ \A k \in 1..Len(A) : k > n => A[k].client \in After(Append(A, a), n)
<1> DEFINE B == Append(A, a)
<1>1. ASSUME NEW S \in Seq(Asks) PROVE IsFiniteSet(After(S, n))
  <2> DEFINE J == {j \in DOMAIN S : j > n}
             f == [j \in J |-> S[j].client]
  <2>1. J \subseteq 1..Len(S) /\ Len(S) \in Nat
      BY <1>1
  <2>2. IsFiniteSet(J)
    <3>1. IsFiniteSet(1..Len(S))
        BY <2>1, FS_Interval
    <3> HIDE DEF J
    <3> QED BY <2>1, <3>1, FS_Subset
  <2>3. f \in Surjection(J, After(S, n))
      BY DEF Surjection, After
  <2> HIDE DEF f, J
  <2> QED BY <2>2, <2>3, FS_Surjection
<1>2. IsFiniteSet(After(A, n)) /\ IsFiniteSet(After(B, n))
    BY <1>1, AppendAsks
<1>3. \A k \in 1..Len(A) : k > n => A[k].client \in After(B, n)
  <2>1. \A k \in 1..Len(A) : k \in DOMAIN B /\ B[k] = A[k]
      BY AppendAsks
  <2> HIDE DEF B
  <2> QED BY <2>1 DEF After
<1>4. After(A, n) \subseteq After(B, n)
  <2>1. DOMAIN A = 1..Len(A)
      BY AppendAsks
  <2> QED BY <1>3, <2>1 DEF After
<1>5. a.client \in After(B, n)
  <2>1. Len(A) + 1 \in DOMAIN B /\ B[Len(A) + 1] = a /\ Len(A) + 1 > n
      BY AppendAsks
  <2> HIDE DEF B
  <2> QED BY <2>1 DEF After
<1> QED BY <1>2, <1>3, <1>4, <1>5

\* What is forgotten stays forgotten.
LEMMA ForgottenStays ==
  ASSUME NEW A, NEW t, AsksType(A, t), NEW a \in Asks, NEW n \in 1..Len(A), NEW c, Forgotten(A, c, n)
  PROVE  Forgotten(Append(A, a), c, n)
<1> DEFINE S == After(A, n) \ {c}
           U == After(Append(A, a), n) \ {c}
<1>1. IsFiniteSet(U) /\ S \subseteq U
    BY AfterGrows, FS_Difference
<1> HIDE DEF S, U
<1>2. IsFiniteSet(S) /\ Cardinality(S) <= Cardinality(U)
    BY <1>1, FS_Subset
<1>3. Cardinality(S) \in Nat /\ Cardinality(U) \in Nat
    BY <1>1, <1>2, FS_CardinalityType
<1>4. Cardinality(S) >= MaxClients
    BY DEF Forgotten, S
<1>5. Cardinality(U) >= MaxClients
    BY <1>2, <1>3, <1>4, LimitAssumption
<1> QED BY <1>5 DEF Forgotten, U

\* The calls of a client that the table drops have all of the table's other clients,
\* and the new one, after them.
LEMMA DroppedIsForgotten ==
  ASSUME NEW A, NEW T, NEW t, AsksType(A, t), TableType(T), Ordered(A, T), NEW a \in Asks,
         Len(T) = MaxClients, \A i \in 1..Len(T) : T[i].client # a.client,
         NEW n \in 1..Len(A), A[n].client = T[1].client
  PROVE  Forgotten(Append(A, a), T[1].client, n)
<1> DEFINE f == [i \in 1..MaxClients |-> IF i = 1 THEN a.client ELSE T[i].client]
           U == After(Append(A, a), n) \ {T[1].client}
<1>1. MaxClients \in Nat /\ MaxClients >= 1 /\ 1 \in 1..Len(T) /\ Len(A) \in Nat
    BY LimitAssumption DEF AsksType
<1>2. IsFiniteSet(U) /\ a.client \in U
    BY <1>1, AfterGrows, FS_Difference
<1>3. ASSUME NEW i \in 1..MaxClients, i # 1 PROVE T[i].client \in U
  <2>1. 1 < i /\ i \in 1..Len(T)
      BY <1>1, <1>3
  <2>2. PICK k \in 1..Len(A) : A[k].client = T[i].client /\ n < k
      BY <1>1, <2>1 DEF Ordered
  <2>3. A[k].client \in After(Append(A, a), n)
      BY <1>1, <2>2, AfterGrows
  <2>4. T[i].client # T[1].client
      BY <1>1, <2>1 DEF Ordered
  <2> QED BY <2>2, <2>3, <2>4
<1>4. f \in [1..MaxClients -> U]
    BY <1>2, <1>3
<1>5. ASSUME NEW i \in 1..MaxClients, NEW j \in 1..MaxClients, i # j PROVE f[i] # f[j]
  <2>1. i \in 1..Len(T) /\ j \in 1..Len(T) /\ (i < j \/ j < i)
      BY <1>1, <1>5
  <2>2. T[i].client # T[j].client
      BY <2>1 DEF Ordered
  <2> QED BY <1>5, <2>1, <2>2
<1>6. f \in Injection(1..MaxClients, U)
  <2> HIDE DEF f, U
  <2>1. DOMAIN f = 1..MaxClients
      BY <1>4
  <2>2. IsInjective(f)
      BY <1>5, <2>1 DEF IsInjective
  <2> QED BY <1>4, <2>2 DEF Injection
<1>7. Cardinality(1..MaxClients) = MaxClients
    BY <1>1, FS_Interval
<1> HIDE DEF f, U
<1>8. Cardinality(1..MaxClients) <= Cardinality(U) /\ Cardinality(U) \in Nat
    BY <1>2, <1>6, FS_Injection, FS_CardinalityType
<1>9. Cardinality(U) >= MaxClients
    BY <1>1, <1>7, <1>8
<1> QED BY <1>9 DEF Forgotten, U

-----------------------------------------------------------------------------
(* A call sent                                                              *)

LEMMA OrderedIsOneEach == ASSUME NEW A, NEW T, TableType(T), Ordered(A, T) PROVE OneEach(T)
<1>1. \A i, j \in 1..Len(T) : i # j => i < j \/ j < i
    BY DEF TableType
<1> QED BY <1>1 DEF Ordered, OneEach

LEMMA NextOrdered ==
  ASSUME NEW A, NEW T, NEW t \in Nat, AsksType(A, t), TableType(T), Ordered(A, T),
         NEW c \in Clients, NEW u \in Nat, NEW a \in Asks, a.client = c
  PROVE  Ordered(Append(A, a), Asked(T, c, u))
<1> DEFINE B == Append(A, a)
           N == Asked(T, c, u)
<1>1. OneEach(T)
    BY OrderedIsOneEach
<1>2. /\ Len(N) \in 1..MaxClients /\ N[Len(N)] = [client |-> c, stamps |-> Kept(T, c, u)]
      /\ \A i \in 1..Len(N) - 1 : N[i].client # c
    BY <1>1, AskedTable
<1>3. PICK e \in 1..Len(T) + 1 : LeavesOut(T, N, Len(N) - 1, c, e)
    BY <1>1, AskedTable
<1>4. /\ Len(A) \in Nat /\ Len(B) = Len(A) + 1 /\ B[Len(A) + 1] = a
      /\ \A n \in 1..Len(A) : B[n] = A[n]
    BY AppendAsks
<1>5. \A n \in 1..Len(B) : B[n].client # c => n \in 1..Len(A)
    BY <1>4
<1> HIDE DEF B, N
<1>6. ASSUME NEW i \in 1..Len(N), NEW j \in 1..Len(N), i < j
      PROVE  /\ N[i].client # N[j].client
             /\ \E k \in 1..Len(B) :
                  /\ B[k].client = N[j].client
                  /\ \A n \in 1..Len(B) : B[n].client = N[i].client => n < k
  <2>1. i \in 1..Len(N) - 1 /\ N[i].client # c
      BY <1>2, <1>6
  <2>2. CASE j = Len(N)
    <3>1. Len(A) + 1 \in 1..Len(B) /\ \A n \in 1..Len(A) : n < Len(A) + 1
        BY <1>4
    <3>2. N[j].client = c
        BY <1>2, <2>2
    <3>3. B[Len(A) + 1].client = N[j].client
        BY <1>4, <3>2
    <3>4. \A n \in 1..Len(B) : B[n].client = N[i].client => n < Len(A) + 1
        BY <1>5, <2>1, <3>1
    <3> QED BY <2>1, <3>1, <3>2, <3>3, <3>4
  <2>3. CASE j # Len(N)
    <3> DEFINE p == IF i < e THEN i ELSE i + 1
               q == IF j < e THEN j ELSE j + 1
    <3>1. j \in 1..Len(N) - 1
        BY <1>2, <2>3
    <3>2. Len(T) \in Nat
        BY DEF TableType
    <3>3. p \in 1..Len(T) /\ q \in 1..Len(T) /\ p < q
        BY <1>2, <1>3, <1>6, <2>1, <3>1, <3>2 DEF LeavesOut
    <3>4. N[i] = T[p] /\ N[j] = T[q]
        BY <1>3, <2>1, <3>1 DEF LeavesOut
    <3> HIDE DEF p, q
    <3>5. PICK k \in 1..Len(A) : A[k].client = T[q].client
                                 /\ \A n \in 1..Len(A) : A[n].client = T[p].client => n < k
        BY <3>3 DEF Ordered
    <3>6. k \in 1..Len(B) /\ B[k].client = N[j].client
        BY <1>4, <3>4, <3>5
    <3>7. \A n \in 1..Len(B) : B[n].client = N[i].client => n < k
        BY <1>4, <1>5, <2>1, <3>4, <3>5
    <3>8. N[i].client # N[j].client
        BY <3>3, <3>4 DEF Ordered
    <3> QED BY <3>6, <3>7, <3>8
  <2> QED BY <2>2, <2>3
<1> QED BY <1>6 DEF Ordered, B, N

\* A client that stays in the table keeps its times.
LEMMA OthersKeep ==
  ASSUME NEW T, TableType(T), OneEach(T), NEW c \in Clients, NEW u \in Nat,
         OneEach(Asked(T, c, u)), NEW i \in 1..Len(T), T[i].client # c
  PROVE  \/ StampsOf(Asked(T, c, u), T[i].client) = T[i].stamps
         \/ i = 1 /\ Len(T) = MaxClients /\ \A j \in 1..Len(T) : T[j].client # c
<1> DEFINE N == Asked(T, c, u)
<1>1. TableType(N) /\ Len(N) \in 1..MaxClients
    BY AskedTable
<1>2. PICK e \in 1..Len(T) + 1 : LeavesOut(T, N, Len(N) - 1, c, e)
    BY AskedTable
<1>3. OneEach(N) /\ Len(T) \in Nat
    BY DEF TableType
<1> HIDE DEF N
<1>4. CASE i = e
    BY <1>2, <1>4 DEF LeavesOut
<1>5. CASE i # e
  <2> DEFINE j == IF i < e THEN i ELSE i - 1
  <2>1. j \in 1..Len(N) - 1
      BY <1>2, <1>3, <1>5 DEF LeavesOut
  <2>2. (IF j < e THEN j ELSE j + 1) = i
      BY <1>2, <1>3, <1>5
  <2> HIDE DEF j
  <2>3. N[j] = T[i] /\ j \in 1..Len(N)
      BY <1>1, <1>2, <2>1, <2>2 DEF LeavesOut
  <2>4. StampsOf(N, T[i].client) = N[j].stamps
      BY <1>1, <1>3, <2>3, StampsAt
  <2> QED BY <2>3, <2>4 DEF N
<1> QED BY <1>4, <1>5

LEMMA OwnStamps ==
  ASSUME NEW T, TableType(T), OneEach(T), NEW c \in Clients, NEW u \in Nat, OneEach(Asked(T, c, u))
  PROVE  StampsOf(Asked(T, c, u), c) = Kept(T, c, u)
<1> DEFINE N == Asked(T, c, u)
           l == Len(N)
<1>1. TableType(N) /\ l \in 1..MaxClients /\ N[l] = [client |-> c, stamps |-> Kept(T, c, u)]
    BY AskedTable
<1>2. l \in 1..Len(N)
    BY <1>1, LimitAssumption
<1> HIDE DEF N, l
<1>3. OneEach(N)
    BY DEF N
<1>4. N[l].client = c /\ N[l].stamps = Kept(T, c, u)
    BY <1>1
<1>5. StampsOf(N, c) = N[l].stamps
    BY <1>1, <1>2, <1>3, <1>4, StampsAt
<1> QED BY <1>4, <1>5 DEF N

\* What a call that was let through left in the table, and is not out of the window,
\* is among the times the limiter counts.
LEMMA RememberedIsRecent ==
  ASSUME NEW A, NEW T, NEW t, AsksType(A, t), TableType(T), OneEach(T), NEW c \in Clients, NEW u \in Nat,
         NEW n \in Through(A, c), Remembered(A, T, c, n), A[n].at > u - Window
  PROVE  LET R == Recent(StampsOf(T, c), u) IN
         /\ R \in Seq(Nat) /\ Rank(A, c, n) \in 1..Len(R)
         /\ R[Len(R) - Rank(A, c, n) + 1] = A[n].at
<1> DEFINE S == StampsOf(T, c)
           r == Rank(A, c, n)
<1>1. S \in Seq(Nat)
    BY StampsAt
<1>2. r \in Nat /\ r >= 1
    BY RankType
<1>3. r <= Len(S) /\ S[Len(S) - r + 1] = A[n].at
    BY DEF Remembered
<1> HIDE DEF S, r
<1>4. r \in 1..Len(S) /\ S[Len(S) - r + 1] > u - Window
    BY <1>1, <1>2, <1>3
<1>5. /\ Recent(S, u) \in Seq(Nat) /\ r <= Len(Recent(S, u))
      /\ Recent(S, u)[Len(Recent(S, u)) - r + 1] = S[Len(S) - r + 1]
    BY <1>1, <1>4, RecentIsSuffix
<1>6. r \in 1..Len(Recent(S, u))
    BY <1>2, <1>5
<1> QED BY <1>3, <1>5, <1>6 DEF S, r

LEMMA NextTracked ==
  ASSUME NEW A, NEW T, NEW t \in Nat, AsksType(A, t), TableType(T), Ordered(A, T), Tracked(A, T, t),
         NEW c \in Clients, NEW u \in Nat, u >= t,
         NEW a \in Asks, a.client = c, a.at = u, a.ok = Admitted(T, c, u)
  PROVE  Tracked(Append(A, a), Asked(T, c, u), u)
<1> DEFINE B == Append(A, a)
           N == Asked(T, c, u)
           R == Recent(StampsOf(T, c), u)
<1>1. OneEach(T) /\ OneEach(N)
  <2>1. TableType(N)
      BY OrderedIsOneEach, AskedTable
  <2> QED BY <2>1, OrderedIsOneEach, NextOrdered
<1>2. /\ Len(A) \in Nat /\ B[Len(A) + 1] = a
      /\ \A n \in 1..Len(A) : B[n] = A[n] /\ A[n] \in Asks
    BY AppendAsks
<1>3. Kept(T, c, u) = IF a.ok THEN Append(R, u) ELSE R
    BY DEF Kept, Admitted
<1>4. StampsOf(N, c) = Kept(T, c, u)
    BY <1>1, OwnStamps
<1> SUFFICES ASSUME NEW d \in Clients, NEW n \in Through(B, d)
             PROVE  \/ B[n].at <= u - Window \/ Forgotten(B, d, n)
                    \/ Remembered(B, N, d, n)
    BY DEF Tracked
<1>5. CASE n = Len(A) + 1
  <2>1. d = c /\ a.ok
    <3>1. n \notin Through(A, d)
        BY <1>2, <1>5 DEF Through
    <3> QED BY <3>1, NextThrough
  <2>2. Rank(B, d, n) = 1
    <3>1. n \in 1..Len(A) + 1
        BY <1>2, <1>5
    <3> QED BY <1>5, <2>1, <3>1, NextRank
  <2>3. R \in Seq(Nat)
    <3>1. StampsOf(T, c) \in Seq(Nat)
        BY <1>1, StampsAt
    <3> QED BY <3>1, RecentIsSuffix
  <2> HIDE DEF R, B, N
  <2>4. Append(R, u) \in Seq(Nat) /\ Len(Append(R, u)) = Len(R) + 1 /\ Append(R, u)[Len(R) + 1] = u
        /\ Len(R) \in Nat
      BY <2>3, AppendProperties
  <2>5. 1 <= Len(Append(R, u)) /\ Len(Append(R, u)) - 1 + 1 = Len(R) + 1
      BY <2>4
  <2>6. StampsOf(N, d) = Append(R, u)
      BY <1>3, <1>4, <2>1
  <2>7. Remembered(B, N, d, n)
      BY <1>2, <1>5, <2>2, <2>4, <2>5, <2>6 DEF Remembered
  <2> QED BY <2>7
<1>6. CASE n # Len(A) + 1
  <2>1. n \in Through(A, d) /\ n \in 1..Len(A)
    <3>1. n \in Through(A, d)
        BY <1>6, NextThrough
    <3> QED BY <3>1 DEF Through
  <2>2. B[n].at = A[n].at /\ A[n].at \in Nat
      BY <1>2, <2>1 DEF Asks
  <2>3. CASE A[n].at <= t - Window
      BY <2>2, <2>3, LimitAssumption
  <2>4. CASE Forgotten(A, d, n)
      BY <2>1, <2>4, ForgottenStays
  <2>5. CASE Remembered(A, T, d, n) /\ d # c
    <3>1. Rank(B, d, n) = Rank(A, d, n)
      <4>1. n \in 1..Len(A) + 1 /\ n <= Len(A)
          BY <1>2, <2>1
      <4>r. Rank(A, d, n) \in Nat
          BY RankType
      <4>2. ~(a.client = d /\ a.ok)
          BY <2>5
      <4>3. Rank(B, d, n) = Rank(A, d, n) + IF a.client = d /\ a.ok THEN 1 ELSE 0
          BY <4>1, NextRank
      <4> HIDE DEF B
      <4> QED BY <4>r, <4>1, <4>2, <4>3
    <3>2. PICK i \in 1..Len(T) : T[i].client = d
      <4>1. Rank(A, d, n) >= 1 /\ Rank(A, d, n) <= Len(StampsOf(T, d)) /\ Rank(A, d, n) \in Nat
          BY <2>1, <2>5, RankType DEF Remembered
      <4>2. StampsOf(T, d) # <<>>
          BY <4>1
      <4> QED BY <1>1, <4>2, StampsAt
    <3>3. CASE StampsOf(N, d) = T[i].stamps
      <4>1. StampsOf(N, d) = StampsOf(T, d)
          BY <1>1, <3>2, <3>3, StampsAt
      <4>2. Remembered(B, N, d, n)
          BY <2>2, <2>5, <3>1, <4>1 DEF Remembered
      <4> QED BY <4>2
    <3>4. CASE i = 1 /\ Len(T) = MaxClients /\ \A j \in 1..Len(T) : T[j].client # c
      <4>1. A[n].client = T[1].client
          BY <2>1, <3>2, <3>4 DEF Through
      <4>2. Forgotten(B, T[1].client, n)
          BY <2>1, <3>4, <4>1, DroppedIsForgotten
      <4> QED BY <3>2, <3>4, <4>2
    <3> QED BY <1>1, <2>5, <3>2, <3>3, <3>4, OthersKeep, ZenonT(60)
  <2>6. CASE Remembered(A, T, d, n) /\ d = c /\ A[n].at > u - Window
    <3> DEFINE r == Rank(A, c, n)
    <3>1. R \in Seq(Nat) /\ r \in 1..Len(R) /\ R[Len(R) - r + 1] = A[n].at
        BY <1>1, <2>1, <2>6, RememberedIsRecent
    <3>2. Rank(B, c, n) = r + IF a.ok THEN 1 ELSE 0
      <4>1. n \in 1..Len(A) + 1 /\ n <= Len(A)
          BY <1>2, <2>1
      <4> QED BY <4>1, NextRank
    <3> HIDE DEF R, r, B, N
    <3>3. CASE a.ok
      <4>1. /\ Append(R, u) \in Seq(Nat) /\ Len(Append(R, u)) = Len(R) + 1 /\ Len(R) \in Nat
            /\ \A i \in 1..Len(R) : Append(R, u)[i] = R[i]
          BY <3>1, AppendProperties
      <4>2. /\ r + 1 <= Len(R) + 1 /\ Len(R) - r + 1 \in 1..Len(R)
            /\ Len(R) + 1 - (r + 1) + 1 = Len(R) - r + 1
          BY <3>1, <4>1
      <4>3. StampsOf(N, c) = Append(R, u) /\ Rank(B, c, n) = r + 1
          BY <1>3, <1>4, <3>2, <3>3
      <4>4. Remembered(B, N, c, n)
          BY <2>2, <3>1, <4>1, <4>2, <4>3 DEF Remembered
      <4> QED BY <2>6, <4>4
    <3>4. CASE ~a.ok
      <4>1. StampsOf(N, c) = R /\ Rank(B, c, n) = r /\ r <= Len(R)
          BY <1>3, <1>4, <3>1, <3>2, <3>4
      <4>2. Remembered(B, N, c, n)
          BY <2>2, <3>1, <4>1 DEF Remembered
      <4> QED BY <2>6, <4>2
    <3> QED BY <3>3, <3>4
  <2>7. CASE ~(A[n].at > u - Window)
      BY <2>2, <2>7, LimitAssumption
  <2>8. A[n].at <= t - Window \/ Forgotten(A, d, n) \/ Remembered(A, T, d, n)
      BY <2>1 DEF Tracked
  <2> QED BY <2>3, <2>4, <2>5, <2>6, <2>7, <2>8
<1> QED BY <1>5, <1>6

\* A call is let through only if those of its client that are still in the window, and
\* not forgotten, leave room for one more.
LEMMA RoomForOneMore ==
  ASSUME NEW A, NEW T, NEW t \in Nat, AsksType(A, t), TableType(T), Ordered(A, T), Tracked(A, T, t),
         NEW c \in Clients, NEW u \in Nat, u >= t, Admitted(T, c, u),
         NEW V \in SUBSET Through(A, c),
         \A n \in V : A[n].at > u - Window /\ ~Forgotten(A, c, n)
  PROVE  IsFiniteSet(V) /\ Cardinality(V) \in Nat /\ Cardinality(V) < RequestLimit
<1>1. V \in SUBSET Nat /\ \A n \in V : A[n].at \in Nat
  <2>1. A \in Seq(Asks) /\ Len(A) \in Nat
      BY DEF AsksType
  <2>2. \A n \in V : n \in 1..Len(A)
      BY DEF Through
  <2>3. \A n \in V : A[n] \in Asks
      BY <2>1, <2>2
  <2> QED BY <2>1, <2>2, <2>3 DEF Asks
<1>2. CASE V = {}
    BY <1>2, FS_EmptySet, LimitAssumption
<1>3. CASE V # {}
  <2>1. PICK n \in V : \A k \in V : n <= k
      BY <1>1, <1>3, LeastOf
  <2>2. /\ n \in Through(A, c) /\ A[n].at > u - Window /\ A[n].at \in Nat
        /\ ~Forgotten(A, c, n)
      BY <1>1, <2>1
  <2>3. ~(A[n].at <= t - Window)
      BY <2>2, LimitAssumption
  <2>4. Remembered(A, T, c, n)
      BY <2>2, <2>3 DEF Tracked
  <2>5. OneEach(T)
      BY OrderedIsOneEach
  <2> DEFINE R == Recent(StampsOf(T, c), u)
             K == {k \in Through(A, c) : k >= n}
  <2>6. R \in Seq(Nat) /\ Rank(A, c, n) \in 1..Len(R)
      BY <2>2, <2>4, <2>5, RememberedIsRecent
  <2>7. Len(R) < RequestLimit
      BY DEF Admitted
  <2>8. V \subseteq K /\ IsFiniteSet(K) /\ Cardinality(K) = Rank(A, c, n)
      BY <1>1, <2>1, RankType DEF Rank
  <2> HIDE DEF K, R
  <2>9. IsFiniteSet(V) /\ Cardinality(V) <= Cardinality(K) /\ Cardinality(V) \in Nat
      BY <2>8, FS_Subset, FS_CardinalityType
  <2>10. Len(R) \in Nat /\ Rank(A, c, n) \in Nat /\ Rank(A, c, n) <= Len(R)
      BY <2>6
  <2> QED BY <2>7, <2>8, <2>9, <2>10, LimitAssumption
<1> QED BY <1>2, <1>3

LEMMA NextBounded ==
  ASSUME NEW A, NEW T, NEW t \in Nat, AsksType(A, t), TableType(T), Ordered(A, T), Tracked(A, T, t),
         Bounded(A), NEW c \in Clients, NEW u \in Nat, u >= t,
         NEW a \in Asks, a.client = c, a.at = u, a.ok = Admitted(T, c, u)
  PROVE  Bounded(Append(A, a))
<1> DEFINE B == Append(A, a)
<1>1. /\ Len(A) \in Nat /\ B[Len(A) + 1] = a
      /\ \A n \in 1..Len(A) : B[n] = A[n] /\ A[n] \in Asks
    BY AppendAsks
<1> SUFFICES ASSUME NEW d \in Clients, Cardinality(Windowed(B, d)) > RequestLimit
             PROVE  \E n \in Windowed(B, d) : Forgotten(B, d, n)
    BY DEF Bounded
<1>2. \A n \in Through(A, d) : n \in 1..Len(A) /\ B[n] = A[n]
    BY <1>1 DEF Through
<1>3. CASE ~(d = c /\ a.ok)
  <2>0. Through(B, d) = Through(A, d) \cup IF a.client = d /\ a.ok THEN {Len(A) + 1} ELSE {}
      BY NextThrough
  <2>1. Through(B, d) = Through(A, d)
    <3>1. ~(a.client = d /\ a.ok)
        BY <1>3
    <3> HIDE DEF B
    <3> QED BY <2>0, <3>1
  <2> HIDE DEF B
  <2>2. Windowed(B, d) = Windowed(A, d)
      BY <1>2, <2>1 DEF Windowed
  <2>3. PICK n \in Windowed(A, d) : Forgotten(A, d, n)
      BY <2>2 DEF Bounded
  <2>4. n \in 1..Len(A)
      BY <1>2 DEF Windowed
  <2> QED BY <2>2, <2>3, <2>4, ForgottenStays DEF B
<1>4. CASE d = c /\ a.ok
  <2> SUFFICES ASSUME \A n \in Windowed(B, d) : ~Forgotten(B, d, n) PROVE FALSE
      OBVIOUS
  <2> DEFINE new == Len(A) + 1
             V == Windowed(B, d) \ {new}
  <2>1. Through(B, d) = Through(A, d) \cup {new}
      BY <1>4, NextThrough
  <2>2. V \subseteq Through(A, d)
      BY <2>1 DEF Windowed
  <2>3. ASSUME NEW n \in V PROVE A[n].at > u - Window /\ ~Forgotten(A, d, n)
    <3>1. n \in Through(A, d) /\ n \in 1..Len(A) /\ B[n] = A[n] /\ A[n].at \in Nat
        BY <1>1, <1>2, <2>2, <2>3 DEF Asks
    <3>2. B[new].at < B[n].at + Window /\ B[new].at = u
        BY <1>1, <2>1, <2>3 DEF Windowed
    <3> HIDE DEF new, B
    <3>3. A[n].at > u - Window
        BY <3>1, <3>2, LimitAssumption
    <3>4. ~Forgotten(A, d, n)
        BY <2>3, <3>1, ForgottenStays DEF B
    <3> QED BY <3>3, <3>4
  <2> HIDE DEF V, new, B
  <2>4. IsFiniteSet(V) /\ Cardinality(V) \in Nat /\ Cardinality(V) < RequestLimit
      BY <1>4, <2>2, <2>3, RoomForOneMore
  <2>5. IsFiniteSet(V \cup {new}) /\ Cardinality(V \cup {new}) <= Cardinality(V) + 1
      BY <2>4, OneMore
  <2>6. Windowed(B, d) \subseteq V \cup {new}
      BY DEF V
  <2>7. Cardinality(Windowed(B, d)) <= Cardinality(V \cup {new})
        /\ Cardinality(Windowed(B, d)) \in Nat /\ Cardinality(V \cup {new}) \in Nat
      BY <2>5, <2>6, FS_Subset, FS_CardinalityType
  <2> QED BY <2>4, <2>5, <2>7, LimitAssumption
<1> QED BY <1>3, <1>4

-----------------------------------------------------------------------------
(* The limiter and the API                                                  *)

LEMMA LimiterInit == Init => LimiterInv
<1> SUFFICES ASSUME Init PROVE LimiterInv
    OBVIOUS
<1>1. limiter = <<>> /\ asked = <<>> /\ now = 0
    BY DEF Init
<1>2. now \in 0..MaxTime
    BY <1>1, ApiAssumption
<1>3. TableType(limiter) /\ AsksType(asked, now)
    BY <1>1, LimitAssumption DEF TableType, AsksType
<1>4. Ordered(asked, limiter)
    BY <1>1 DEF Ordered
<1>5. \A c : Through(asked, c) = {}
    BY <1>1 DEF Through
<1>6. Tracked(asked, limiter, now)
    BY <1>5 DEF Tracked
<1>7. Bounded(asked)
  <2> SUFFICES ASSUME NEW c \in Clients PROVE ~(Cardinality(Windowed(asked, c)) > RequestLimit)
      BY DEF Bounded
  <2>1. Windowed(asked, c) = {}
      BY <1>5 DEF Windowed
  <2> QED BY <2>1, FS_EmptySet, LimitAssumption
<1> QED BY <1>2, <1>3, <1>4, <1>6, <1>7 DEF LimiterInv

LEMMA SendKeepsLimiter ==
  ASSUME LimiterInv, NEW c \in Clients, Send(c)
  PROVE  LimiterInv'
<1>1. PICK u \in now..MaxTime :
        /\ now' = u /\ limiter' = Asked(limiter, c, u)
        /\ asked' = Append(asked, [client |-> c, at |-> u, ok |-> Admitted(limiter, c, u)])
    BY DEF Send
<1> DEFINE a == [client |-> c, at |-> u, ok |-> Admitted(limiter, c, u)]
<1>2. /\ now \in 0..MaxTime /\ TableType(limiter) /\ AsksType(asked, now)
      /\ Ordered(asked, limiter) /\ Tracked(asked, limiter, now) /\ Bounded(asked)
    BY DEF LimiterInv
<1>3. u \in Nat /\ now \in Nat /\ u >= now /\ u \in 0..MaxTime
    BY <1>1, <1>2, ApiAssumption
<1>4. a \in Asks /\ a.client = c /\ a.at = u /\ a.ok = Admitted(limiter, c, u)
    BY <1>3 DEF Asks, Admitted
<1> HIDE DEF a
<1>5. asked' = Append(asked, a)
    BY <1>1 DEF a
<1>6. AsksType(asked', now')
    BY <1>1, <1>2, <1>3, <1>4, <1>5, NextAsksType
<1>7. TableType(limiter')
    BY <1>1, <1>2, <1>3, OrderedIsOneEach, AskedTable
<1>8. Ordered(asked', limiter')
    BY <1>1, <1>2, <1>3, <1>4, <1>5, NextOrdered
<1>9. Tracked(asked', limiter', now')
    BY <1>1, <1>2, <1>3, <1>4, <1>5, NextTracked
<1>10. Bounded(asked')
    BY <1>1, <1>2, <1>3, <1>4, <1>5, NextBounded
<1> QED BY <1>1, <1>3, <1>6, <1>7, <1>8, <1>9, <1>10 DEF LimiterInv

\* only a call that is sent changes the limiter
LEMMA LimiterFixed ==
  /\ \A s \in Slots : Prune(s) => UNCHANGED <<limiter, now, asked>>
  /\ \A c \in Clients : StepOf(c) /\ ~Send(c) => UNCHANGED <<limiter, now, asked>>
<1>1. \A s \in Slots : Prune(s) => UNCHANGED <<limiter, now, asked>>
    BY DEF Prune
<1>2. ASSUME NEW c \in Clients, StepOf(c), ~Send(c)
      PROVE  UNCHANGED <<limiter, now, asked>>
  <2>1. Begin(c) \/ Found(c) \/ Replay(c) \/ Repeat(c) \/ Commit(c) \/ Drop(c) => UNCHANGED Fixed
      BY DEF Begin, Found, Replay, Repeat, Commit, Drop
  <2>2. ReadRow(c) \/ Get(c) \/ Match(c) \/ References(c) \/ WriteIdentity(c) => UNCHANGED Fixed
      BY DEF ReadRow, Get, Match, References, WriteIdentity
  <2>3. Participants(c) \/ Create(c) \/ EnsureVersion(c) => UNCHANGED Fixed
      BY DEF Participants, Create, EnsureVersion
  <2>4. Load(c) \/ Provider(c) \/ WriteMission(c) => UNCHANGED Fixed
      BY DEF Load, Provider, WriteMission
  <2>5. UNCHANGED Fixed
      BY <1>2, <2>1, <2>2, <2>3, <2>4 DEF StepOf
  <2> QED BY <2>5 DEF Fixed
<1> QED BY <1>1, <1>2

LEMMA LimiterNext == LimiterInv /\ [Next]_vars => LimiterInv'
<1> SUFFICES ASSUME LimiterInv, [Next]_vars PROVE LimiterInv'
    OBVIOUS
<1>1. CASE UNCHANGED <<limiter, now, asked>>
    BY <1>1 DEF LimiterInv
<1>2. CASE \E c \in Clients : Send(c)
    BY <1>2, SendKeepsLimiter
<1>3. UNCHANGED vars => UNCHANGED <<limiter, now, asked>>
    BY DEF vars
<1> QED BY <1>1, <1>2, <1>3, LimiterFixed DEF Next, StepOf

\* a call is of an operation that the clients call
OpsInv == \A c \in Clients : call[c].op \in Ops \cup {"none"}

LEMMA OpsStep ==
  ASSUME TypeInv, NEW c \in Clients, StepOf(c)
  PROVE  call'[c].op \in {call[c].op, "none"} \cup Ops
<1> DEFINE x == call[c]
<1>1. x \in Calls /\ c \in DOMAIN call
    BY DEF TypeInv
<1>2. DOMAIN x = {"op", "pc", "key", "id", "body", "match", "held", "again", "read", "new"}
    BY <1>1, RecordOf
<1>3. call' = Idle(c) => call'[c].op = "none"
    BY <1>1 DEF Idle, IdleCall
<1>4. Send(c) => call'[c].op \in Ops \cup {x.op}
    BY <1>1 DEF Send
<1>5. Begin(c) => call'[c].op = x.op
    BY <1>1, <1>2 DEF Begin, Goto
<1>6. Found(c) \/ Replay(c) \/ ReadRow(c) \/ Match(c) \/ References(c) \/ WriteIdentity(c)
        => call'[c].op \in {x.op, "none"}
    BY <1>1, <1>2, <1>3 DEF Found, Replay, ReadRow, Match, References, WriteIdentity, Goto
<1>7. Participants(c) \/ Create(c) \/ EnsureVersion(c) => call'[c].op \in {x.op, "none"}
    BY <1>1, <1>2, <1>3 DEF Participants, Create, EnsureVersion, Goto
<1>8. Load(c) => call'[c].op \in {x.op, "none"}
  <2> DEFINE row == LoadedRow(c)
             new == [row EXCEPT !.seq = @ + 1,
                       !.status = IF x.body[2] = "pause" THEN "paused" ELSE "created"]
  <2>1. Load(c) => \/ call' = Idle(c)
                   \/ call'[c] = [x EXCEPT !.read = row, !.pc = "provider"]
                   \/ call'[c] = [x EXCEPT !.read = row, !.pc = "write", !.new = new]
      BY <1>1 DEF Load, LoadedRow, Refuse
  <2> HIDE DEF row, new
  <2> QED BY <1>2, <1>3, <2>1
<1>9. Provider(c) => call'[c].op \in {x.op, "none"}
  <2>1. Provider(c) => call' = Idle(c) \/ \E n : call'[c] = [x EXCEPT !.pc = "write", !.new = n]
      BY <1>1 DEF Provider
  <2> QED BY <1>2, <1>3, <2>1
<1>10. WriteMission(c) => call'[c].op \in {x.op, "none"}
    BY <1>1, <1>2, <1>3 DEF WriteMission, Refuse, Goto
<1>11. Repeat(c) \/ Get(c) \/ Commit(c) \/ Drop(c) => call'[c].op = "none"
    BY <1>3 DEF Repeat, Get, Commit, Drop, Refuse
<1> QED BY <1>4, <1>5, <1>6, <1>7, <1>8, <1>9, <1>10, <1>11 DEF StepOf

LEMMA OpsInit == Init => OpsInv
BY DEF Init, OpsInv, IdleCall

LEMMA OpsNext == ApiInv /\ OpsInv /\ [Next]_vars => OpsInv'
<1> SUFFICES ASSUME ApiInv, OpsInv, [Next]_vars PROVE OpsInv'
    OBVIOUS
<1>1. CASE call' = call
    BY <1>1 DEF OpsInv
<1>2. CASE \E c \in Clients : StepOf(c)
  <2>1. PICK c \in Clients : StepOf(c)
      BY <1>2
  <2>2. call'[c].op \in Ops \cup {"none"}
      BY <2>1, OpsStep DEF ApiInv, OpsInv
  <2>3. \A d \in Clients : d # c => call'[d] = call[d]
      BY <2>1, OthersStay DEF ApiInv
  <2> QED BY <2>2, <2>3 DEF OpsInv
<1>3. UNCHANGED vars => call' = call
    BY DEF vars
<1>4. \A s \in Slots : Prune(s) => call' = call
    BY DEF Prune
<1> QED BY <1>1, <1>2, <1>3, <1>4 DEF Next, StepOf

LEMMA FieldTypes ==
  ASSUME NEW x \in Calls
  PROVE  /\ x.key \in Keys \cup CommandKeys \cup {None} /\ x.id \in Nat
         /\ x.held \in BOOLEAN /\ x.again \in BOOLEAN
<1>1. Ids \subseteq Nat /\ MissionIds \subseteq Nat
    BY ApiAssumption DEF Ids, MissionIds
<1>2. CASE x = IdleCall
    BY <1>2 DEF IdleCall
<1>3. x \in GetCalls => x.key = None /\ x.id \in Ids /\ x.held = FALSE /\ x.again = FALSE
    BY DEF GetCalls
<1>4. x \in ChangeCalls => x.key = None /\ x.id \in Ids /\ x.held = FALSE /\ x.again \in BOOLEAN
    BY DEF ChangeCalls
<1>5. x \in DeleteCalls => x.key = None /\ x.id \in Ids /\ x.held = FALSE /\ x.again = FALSE
    BY DEF DeleteCalls
<1>6. x \in IdentityCalls =>
        x.key \in Keys \cup {None} /\ x.id \in {0} \cup Ids /\ x.held \in BOOLEAN /\ x.again = FALSE
    BY DEF IdentityCalls
<1>7. x \in MissionCalls =>
        x.key \in Keys \cup {None} /\ x.id \in {0} \cup MissionIds /\ x.held \in BOOLEAN /\ x.again = FALSE
    BY DEF MissionCalls
<1>8. x \in CommandCalls =>
        x.key \in CommandKeys /\ x.id \in MissionIds /\ x.held \in BOOLEAN /\ x.again = FALSE
    BY DEF CommandCalls
<1>9. x = IdleCall \/ x \in GetCalls \/ x \in ChangeCalls \/ x \in DeleteCalls
      \/ x \in IdentityCalls \/ x \in MissionCalls \/ x \in CommandCalls
    BY DEF Calls
<1>10. 0 \in Nat
    OBVIOUS
<1> QED BY <1>1, <1>2, <1>3, <1>4, <1>5, <1>6, <1>7, <1>8, <1>9, <1>10

\* For any number of clients, keys, Identities and Missions: the state has its type,
\* and the limiter's table keeps to its bounds (MakeRoom, Recent).
THEOREM ApiTypeCorrect == Spec => []TypeOK
<1>1. ASSUME ApiInv, LimiterInv, OpsInv PROVE TypeOK
  <2>1. ASSUME NEW c \in Clients
        PROVE  /\ DOMAIN call[c] = DOMAIN IdleCall
               /\ call[c].op \in Ops \cup {"none"} /\ call[c].key \in Keys \cup CommandKeys \cup {None}
               /\ call[c].id \in Nat /\ call[c].held \in BOOLEAN /\ call[c].again \in BOOLEAN
    <3> DEFINE x == call[c]
    <3>1. x \in Calls
        BY <1>1 DEF ApiInv, TypeInv
    <3>2. DOMAIN x = DOMAIN IdleCall
        BY <3>1, RecordOf, IdleFits
    <3>3. /\ x.key \in Keys \cup CommandKeys \cup {None} /\ x.id \in Nat
          /\ x.held \in BOOLEAN /\ x.again \in BOOLEAN
        BY <3>1, FieldTypes
    <3> QED BY <1>1, <3>2, <3>3 DEF OpsInv
  <2>2. /\ Len(limiter) <= MaxClients /\ now \in 0..MaxTime
        /\ \A e \in ToSet(limiter) : e.client \in Clients /\ Len(e.stamps) <= RequestLimit
    <3>1. /\ Len(limiter) <= MaxClients /\ now \in 0..MaxTime
          /\ DOMAIN limiter = 1..Len(limiter) /\ limiter \in Seq(TableEntries)
          /\ \A i \in 1..Len(limiter) : Len(limiter[i].stamps) <= RequestLimit
        BY <1>1 DEF LimiterInv, TableType
    <3>2. \A i \in 1..Len(limiter) : limiter[i] \in TableEntries
        BY <3>1
    <3>3. \A i \in 1..Len(limiter) : limiter[i].client \in Clients
        BY <3>2 DEF TableEntries
    <3> QED BY <3>1, <3>3, Zenon DEF ToSet
  <2> QED BY <1>1, <2>1, <2>2 DEF ApiInv, TypeInv, TypeOK
<1> QED BY <1>1, InitKeeps, NextKeeps, LimiterInit, LimiterNext, OpsInit, OpsNext, PTL DEF Spec

\* For any number of clients and any limit, window and size of the table: a client that
\* got more calls through in a window than the limit was forgotten in between, when as
\* many others called as the table can hold (_evict_client_if_full).
THEOREM LimitIsKept == Spec => []WindowIsKept
<1>1. ASSUME LimiterInv PROVE WindowIsKept
  <2>1. DOMAIN asked = 1..Len(asked)
      BY <1>1 DEF LimiterInv, AsksType
  <2>2. \A c \in Clients : InWindow(c) = Windowed(asked, c)
      BY <2>1 DEF InWindow, Windowed, Through
  <2>3. \A c \in Clients : Cardinality(Windowed(asked, c)) > RequestLimit =>
          \E n \in Windowed(asked, c) : Forgotten(asked, c, n)
      BY <1>1 DEF LimiterInv, Bounded
  <2> QED BY <2>2, <2>3 DEF WindowIsKept, Forgotten, After
<1> QED BY <1>1, LimiterInit, LimiterNext, PTL DEF Spec
=============================================================================
