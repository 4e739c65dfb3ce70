------------------------ MODULE MissionEventLogProofs ------------------------
(***************************************************************************)
(* Proofs about MissionEventLog: the copies of a history agree, whatever   *)
(* writers, workers and rebuilds interleave, and what clients and          *)
(* administrators conclude from them is right; for any number of Missions, *)
(* processes and readers and any log the migrations found.                 *)
(***************************************************************************)
EXTENDS MissionEventLog, FiniteSetTheorems, TLAPS

-----------------------------------------------------------------------------
(* The inductive invariant                                                  *)

\* a log written in an old schema, one written in the current schema
Bare(raw) == \A i \in DOMAIN raw : raw[i].corr = Absent /\ raw[i].cause = Absent
Chain(events) == \A i \in DOMAIN events : events[i].corr = 1 /\ events[i].cause = i - 1
Uniform(raw) == Bare(raw) \/ Chain(raw)

\* one history is the beginning of another
Before(a, b) == Len(a) <= Len(b) /\ \A i \in DOMAIN a : a[i].type = b[i].type

\* the links of a row that was projected from an event
Links(t, y) ==
  IF t = "events" THEN y.corr = 1 /\ y.cause = y.seq - 1
  ELSE y.type = "provider" /\ y.corr = Absent /\ y.cause = Absent

\* a committed row is an event of the log, in the present form or as the
\* migrations found it
Fits(t, y) ==
  /\ y.seq \in DOMAIN log[y.m] /\ y.type = log[y.m][y.seq].type
  /\ Links(t, y) \/ (t = "events" /\ y.corr = Absent /\ y.cause = Absent)

LogInv ==
  /\ log \in [Missions -> Seq(Raws)]
  /\ \A m \in Missions : Uniform(log[m]) /\ Len(log[m]) <= MaxEvents

CopyInv ==
  /\ rows \in [Tables -> SUBSET Rows]
  /\ \A t \in Tables : \A y \in rows[t] : Fits(t, y)
  /\ \A t \in Tables : \A y, z \in rows[t] : y.m = z.m /\ y.seq = z.seq => y = z
  /\ \A t \in Tables : \A m \in Missions : \A i \in DOMAIN log[m] :
       Appended(t, log[m][i]) => \E y \in rows[t] : y.m = m /\ y.seq = i
  /\ outbox \subseteq Missions \X Nat
  /\ \A m \in Missions, i \in Nat :
       <<m, i>> \in outbox <=> i \in DOMAIN log[m] /\ log[m][i].type = "notify"

\* A writer holds the beginning of a log, or, under the row lock, what the log is
\* going to be and the rows and notices of the events it adds.
WriterRecords ==
  [pc : {"idle", "loaded", "updated"}, m : Missions \cup {None}, events : Seq(Raws),
   base : Nat, rows : [Tables -> SUBSET Rows], out : SUBSET (Missions \X Nat)]
Writing(w) ==
  LET x == writer[w] IN
  /\ x.pc # "idle" => /\ x.m \in Missions /\ Chain(x.events) /\ Len(x.events) <= MaxEvents
                      /\ x.base = Len(x.events)
  /\ x.pc = "loaded" => /\ Before(x.events, log[x.m])
                        /\ x.rows = [t \in Tables |-> {}] /\ x.out = {} /\ lock[x.m] # w
  /\ x.pc = "updated" => /\ lock[x.m] = w /\ Before(log[x.m], x.events)
                         /\ x.rows = [t \in Tables |->
                                        RowsAfter(t, x.m, x.events, Len(log[x.m]))]
                         /\ x.out = NoticesAfter(x.m, x.events, Len(log[x.m]))
WriterInv ==
  /\ writer \in [Writers -> WriterRecords]
  /\ \A w \in Writers : Writing(w)
  /\ lock \in [Missions -> Writers \cup {None}]
  /\ \A m \in Missions : lock[m] # None => writer[lock[m]].pc = "updated" /\ writer[lock[m]].m = m

\* A rebuild deletes committed rows of the events it is going to select, and what it
\* inserts are the events it selected, under keys no row has that it leaves.
RebuildRecords ==
  [pc : {"idle", "deleting", "selecting", "inserting"}, table : Tables, doomed : SUBSET Rows,
   logs : {<<>>} \cup [Missions -> Seq(Raws)], todo : SUBSET Missions, new : SUBSET Rows]
Inserts(x) ==
  /\ x.logs \in [Missions -> Seq(Raws)]
  /\ \A m \in Missions : Uniform(x.logs[m]) /\ Before(x.logs[m], log[m])
  /\ \A y \in x.doomed : y.seq <= Len(x.logs[y.m])
  /\ \A y \in x.new : /\ y.seq \in DOMAIN x.logs[y.m] /\ y.type = x.logs[y.m][y.seq].type
                      /\ Links(x.table, y)
  /\ \A m \in Missions \ x.todo : \A i \in DOMAIN x.logs[m] :
       x.table = "events" \/ x.logs[m][i].type = "provider"
         => \E y \in x.new : y.m = m /\ y.seq = i
  /\ \A y \in x.new, z \in rows[x.table] \ x.doomed : ~(y.m = z.m /\ y.seq = z.seq)
Rebuilding(x) ==
  /\ x.doomed \subseteq rows[x.table]
  /\ IF x.pc = "inserting" THEN Inserts(x) ELSE x.new = {}
Apart(x, y) ==
  /\ x.doomed \cap y.doomed = {}
  /\ \A i \in x.new, j \in y.new : ~(i.m = j.m /\ i.seq = j.seq)
Past(x) == x.pc \in {"selecting", "inserting"}
RebuildInv ==
  /\ rebuild \in [Rebuilders -> RebuildRecords]
  /\ \A r \in Rebuilders : Rebuilding(rebuild[r])
  /\ \A r, q \in Rebuilders :
       r # q /\ Past(rebuild[r]) /\ Past(rebuild[q]) /\ rebuild[r].table = rebuild[q].table
         => Apart(rebuild[r], rebuild[q])

\* A reader's cursor is in the log, and all before it was given; what an
\* administrator has loaded is the beginning of the log.
ReaderRecords ==
  [role : {"client", "admin"}, pc : {"idle", "waiting", "loaded"}, m : Missions, table : Tables,
   after : Nat, got : SUBSET Nat, left : 0..MaxWait, canon : Seq(Raws)]
Reading(x) ==
  /\ x.after <= Len(log[x.m])
  /\ \A i \in 1..x.after : Appended(x.table, log[x.m][i]) => i \in x.got
  /\ x.pc = "loaded" => Chain(x.canon) /\ Before(x.canon, log[x.m])
ReaderInv ==
  /\ reader \in [Readers -> ReaderRecords]
  /\ \A c \in Readers : Reading(reader[c])

Inv == LogInv /\ CopyInv /\ WriterInv /\ RebuildInv /\ ReaderInv

-----------------------------------------------------------------------------
(* The operators                                                            *)

\* Read from either form, a log is one chain of the same events (the upcasters).
LEMMA Upcast ==
  ASSUME NEW raw \in Seq(Raws), Uniform(raw)
  PROVE  LET up == Deserialize(raw) IN
         /\ up \in Seq(Raws) /\ Len(up) = Len(raw) /\ Chain(up)
         /\ Before(raw, up) /\ Before(up, raw)
         /\ \A i \in DOMAIN raw :
              up[i] = [type |-> raw[i].type, corr |-> 1, cause |-> i - 1]
<1>1. ASSUME NEW i \in DOMAIN raw PROVE Thread(raw, i) = 1
  <2> DEFINE linked == {j \in 1..i : raw[j].corr # Absent}
  <2>1. i \in Nat /\ i >= 1 /\ 1..i \subseteq DOMAIN raw
      OBVIOUS
  <2>2. CASE Bare(raw)
    <3>1. linked = {}
        BY <2>1, <2>2 DEF Bare
    <3> QED BY <3>1 DEF Thread
  <2>3. CASE Chain(raw)
    <3>1. \A j \in linked : raw[j].corr = 1
        BY <2>1, <2>3 DEF Chain
    <3>2. i \in linked /\ \A j \in linked : i >= j
        BY <2>1, <2>3 DEF Chain, Absent
    <3>3. Max(linked) \in linked
        BY <3>2 DEF Max
    <3> QED BY <3>1, <3>2, <3>3 DEF Thread
  <2> QED BY <2>2, <2>3 DEF Uniform
<1>2. ASSUME NEW i \in DOMAIN raw
      PROVE  Deserialize(raw)[i] = [type |-> raw[i].type, corr |-> 1, cause |-> i - 1]
    BY <1>1 DEF Deserialize, Uniform, Bare, Chain, Absent
<1>3. ASSUME NEW i \in DOMAIN raw
      PROVE  /\ Deserialize(raw)[i] \in Raws /\ Deserialize(raw)[i].type = raw[i].type
             /\ Deserialize(raw)[i].corr = 1 /\ Deserialize(raw)[i].cause = i - 1
  <2> DEFINE e == Deserialize(raw)[i]
  <2>1. raw[i] \in Raws /\ i \in Nat /\ i >= 1
      OBVIOUS
  <2>2. raw[i].type \in Types /\ i - 1 \in Nat
      BY <2>1 DEF Raws
  <2>3. e = [type |-> raw[i].type, corr |-> 1, cause |-> i - 1]
      BY <1>2
  <2> HIDE DEF e
  <2>4. e \in Raws /\ e.type = raw[i].type /\ e.corr = 1 /\ e.cause = i - 1
      BY <2>2, <2>3 DEF Raws
  <2> QED BY <2>4 DEF e
<1>4. Deserialize(raw) \in [1..Len(raw) -> Raws]
    BY <1>3 DEF Deserialize
<1>5. /\ Deserialize(raw) \in Seq(Raws) /\ Len(Deserialize(raw)) = Len(raw)
      /\ DOMAIN Deserialize(raw) = DOMAIN raw /\ Len(raw) \in Nat
    BY <1>4
<1>6. Chain(Deserialize(raw)) /\ Before(raw, Deserialize(raw)) /\ Before(Deserialize(raw), raw)
    BY <1>3, <1>5 DEF Chain, Before
<1> QED BY <1>2, <1>5, <1>6

\* Recorded events continue the chain (record_event).
LEMMA Extended ==
  ASSUME NEW events \in Seq(Raws), Chain(events), NEW n \in Nat, NEW types \in [1..n -> Types]
  PROVE  LET longer == Recorded(events, types) IN
         /\ longer \in Seq(Raws) /\ Chain(longer) /\ Len(longer) = Len(events) + n
         /\ Before(events, longer) /\ \A i \in DOMAIN events : longer[i] = events[i]
         /\ \A i \in 1..n : longer[Len(events) + i].type = types[i]
<1> DEFINE thread == IF Len(events) = 0 THEN 1 ELSE events[Len(events)].corr
           new == [i \in DOMAIN types |->
                     [type |-> types[i], corr |-> thread, cause |-> Len(events) + i - 1]]
<1>1. thread = 1
    BY DEF Chain
<1>2. ASSUME NEW i \in 1..n
      PROVE  /\ new[i] \in Raws /\ new[i].type = types[i]
             /\ new[i].corr = 1 /\ new[i].cause = Len(events) + i - 1
    BY <1>1 DEF Raws
<1>3. new \in [1..n -> Raws]
    BY <1>2
<1>4. new \in Seq(Raws) /\ Len(new) = n
    BY <1>3
<1>5. Recorded(events, types) = events \o new
    BY DEF Recorded
<1> HIDE DEF new
<1> DEFINE all == events \o new
<1>6. /\ all \in Seq(Raws) /\ Len(all) = Len(events) + n
      /\ \A i \in 1..Len(events) : all[i] = events[i]
      /\ \A i \in 1..n : all[Len(events) + i] = new[i]
      /\ DOMAIN all = 1..(Len(events) + n) /\ DOMAIN events = 1..Len(events)
    BY <1>4
<1> HIDE DEF all
<1>7. ASSUME NEW i \in 1..(Len(events) + n)
      PROVE  all[i].corr = 1 /\ all[i].cause = i - 1
  <2>1. CASE i <= Len(events)
      BY <2>1, <1>6 DEF Chain
  <2>2. CASE i > Len(events)
    <3> DEFINE j == i - Len(events)
    <3>1. j \in 1..n /\ i = Len(events) + j /\ Len(events) + j - 1 = i - 1
        BY <2>2
    <3>2. all[i] = new[j]
        BY <3>1, <1>6
    <3>3. new[j].corr = 1 /\ new[j].cause = i - 1
        BY <3>1, <1>2
    <3> QED BY <3>2, <3>3
  <2>3. i \in Nat /\ Len(events) \in Nat
      OBVIOUS
  <2> QED BY <2>1, <2>2, <2>3
<1>8. Chain(all)
    BY <1>6, <1>7 DEF Chain
<1>9. Before(events, all)
    BY <1>6 DEF Before
<1>10. \A i \in 1..n : all[Len(events) + i].type = types[i]
    BY <1>2, <1>6
<1> QED BY <1>5, <1>6, <1>8, <1>9, <1>10 DEF all

LEMMA OneMore ==
  ASSUME NEW events \in Seq(Raws), Chain(events), NEW type \in Types
  PROVE  LET longer == Recorded(events, <<type>>) IN
         /\ longer \in Seq(Raws) /\ Chain(longer) /\ Len(longer) = Len(events) + 1
         /\ Before(events, longer) /\ longer[Len(events) + 1].type = type
<1> DEFINE types == <<type>>
<1>1. types \in [1..1 -> Types] /\ types[1] = type /\ 1 \in 1..1 /\ 1 \in Nat
    OBVIOUS
<1> HIDE DEF types
<1>2. /\ Recorded(events, types) \in Seq(Raws) /\ Chain(Recorded(events, types))
      /\ Len(Recorded(events, types)) = Len(events) + 1
      /\ Before(events, Recorded(events, types))
      /\ \A i \in 1..1 : Recorded(events, types)[Len(events) + i].type = types[i]
    BY <1>1, Extended, Zenon
<1> QED BY <1>1, <1>2 DEF types

\* what the projections of a chain are
LEMMA RowsAre ==
  ASSUME NEW t \in Tables, NEW m \in Missions, NEW events \in Seq(Raws), Chain(events),
         NEW base \in Nat
  PROVE  /\ \A y \in RowsAfter(t, m, events, base) :
              /\ y \in Rows /\ y.m = m /\ y.seq \in (base + 1)..Len(events)
              /\ y.type = events[y.seq].type /\ Links(t, y)
         /\ \A i \in (base + 1)..Len(events) :
              t = "events" \/ events[i].type = "provider"
                => \E y \in RowsAfter(t, m, events, base) : y.m = m /\ y.seq = i
<1>1. ASSUME NEW i \in (base + 1)..Len(events), t = "events" \/ events[i].type = "provider"
      PROVE  LET y == Row(t, m, i, events[i]) IN
             /\ y \in Rows /\ y.m = m /\ y.seq = i /\ y.type = events[i].type /\ Links(t, y)
             /\ y \in RowsAfter(t, m, events, base)
  <2>1. i \in DOMAIN events /\ i \in Nat /\ events[i] \in Raws
      OBVIOUS
  <2>2. events[i].corr = 1 /\ events[i].cause = i - 1 /\ events[i].type \in Types
      BY <2>1 DEF Chain, Raws
  <2>3. t = "events" \/ t = "provider"
      BY DEF Tables
  <2> QED BY <1>1, <2>1, <2>2, <2>3 DEF Row, Rows, RowsAfter, Links
<1>2. ASSUME NEW y \in RowsAfter(t, m, events, base)
      PROVE  \E i \in (base + 1)..Len(events) :
               /\ t = "events" \/ events[i].type = "provider"
               /\ y = Row(t, m, i, events[i])
    BY DEF RowsAfter
<1> QED BY <1>1, <1>2

LEMMA NoticesAre ==
  ASSUME NEW m \in Missions, NEW events \in Seq(Raws), NEW base \in Nat
  PROVE  /\ NoticesAfter(m, events, base) \subseteq Missions \X Nat
         /\ \A k \in Missions, i \in Nat :
              <<k, i>> \in NoticesAfter(m, events, base)
                <=> k = m /\ i \in (base + 1)..Len(events) /\ events[i].type = "notify"
BY DEF NoticesAfter

-----------------------------------------------------------------------------
(* A log grows by the events of one update, of an expiry or of a recovery    *)

Added(t, m, events, y) ==
  /\ y \in Rows /\ y.m = m /\ y.seq \in (Len(log[m]) + 1)..Len(events)
  /\ y.type = events[y.seq].type /\ Links(t, y)
Extends(m, events) ==
  /\ events \in Seq(Raws) /\ Chain(events) /\ Len(events) <= MaxEvents /\ Before(log[m], events)
  /\ log' = [log EXCEPT ![m] = events]
  /\ \A t \in Tables :
       /\ rows[t] \subseteq rows'[t] /\ \A y \in rows'[t] \ rows[t] : Added(t, m, events, y)
       /\ \A i \in (Len(log[m]) + 1)..Len(events) :
            Appended(t, events[i]) => \E y \in rows'[t] : y.m = m /\ y.seq = i
  /\ rows' \in [Tables -> SUBSET Rows]
  /\ outbox' = outbox \cup NoticesAfter(m, events, Len(log[m]))
Grown == \A m \in Missions : Before(log[m], log'[m])

LEMMA BeforeAgain ==
  ASSUME NEW a, NEW b \in Seq(Raws), NEW c \in Seq(Raws), a \in Seq(Raws), Before(a, b), Before(b, c)
  PROVE  Before(a, c)
BY DEF Before

LEMMA Grows ==
  ASSUME LogInv, NEW m \in Missions, NEW events, Extends(m, events)
  PROVE  LogInv' /\ Grown /\ log'[m] = events /\ \A k \in Missions \ {m} : log'[k] = log[k]
<1>1. log'[m] = events /\ \A k \in Missions \ {m} : log'[k] = log[k]
    BY DEF LogInv, Extends
<1>2. log' \in [Missions -> Seq(Raws)]
    BY DEF LogInv, Extends
<1>3. Uniform(events) /\ Len(events) <= MaxEvents
    BY DEF Extends, Uniform
<1>4. LogInv'
  <2>1. \A k \in Missions : Uniform(log'[k]) /\ Len(log'[k]) <= MaxEvents
      BY <1>1, <1>3 DEF LogInv
  <2> QED BY <1>2, <2>1 DEF LogInv, Uniform, Bare, Chain
<1>5. Grown
  <2>1. ASSUME NEW k \in Missions PROVE Before(log[k], log'[k])
    <3>1. log[k] \in Seq(Raws)
        BY DEF LogInv
    <3>2. CASE k = m
        BY <3>2, <1>1 DEF Extends
    <3>3. CASE k # m
        BY <3>1, <3>3, <1>1 DEF Before
    <3> QED BY <3>2, <3>3
  <2> QED BY <2>1 DEF Grown
<1> QED BY <1>1, <1>4, <1>5

LEMMA OneRow ==
  ASSUME NEW t \in Tables, NEW y \in Rows, NEW z \in Rows, y.m = z.m, y.seq = z.seq,
         y.type = z.type, Links(t, y), Links(t, z)
  PROVE  y = z
<1>1. y.corr = z.corr /\ y.cause = z.cause
    BY DEF Links
<1> QED BY <1>1 DEF Rows

\* what was a row of the log stays one
LEMMA StillFits ==
  ASSUME LogInv, Grown, log' \in [Missions -> Seq(Raws)],
         NEW t \in Tables, NEW y \in Rows, Fits(t, y)
  PROVE  Fits(t, y)'
<1>1. y.m \in Missions
    BY DEF Rows
<1>2. log[y.m] \in Seq(Raws) /\ log'[y.m] \in Seq(Raws)
    BY <1>1 DEF LogInv
<1>3. y.seq \in DOMAIN log[y.m] /\ Before(log[y.m], log'[y.m])
    BY <1>1 DEF Fits, Grown
<1>4. y.seq \in DOMAIN log'[y.m] /\ log'[y.m][y.seq].type = log[y.m][y.seq].type
    BY <1>2, <1>3 DEF Before
<1> QED BY <1>4 DEF Fits, Links

LEMMA GrowsCopy ==
  ASSUME LogInv, CopyInv, NEW m \in Missions, NEW events, Extends(m, events)
  PROVE  CopyInv'
<1>1. /\ LogInv' /\ Grown /\ log'[m] = events /\ \A k \in Missions \ {m} : log'[k] = log[k]
      /\ log \in [Missions -> Seq(Raws)] /\ log' \in [Missions -> Seq(Raws)]
    BY Grows DEF LogInv
<1>2. /\ events \in Seq(Raws) /\ log[m] \in Seq(Raws) /\ Len(log[m]) <= Len(events)
      /\ \A i \in DOMAIN log[m] : log[m][i].type = events[i].type
    BY <1>1 DEF Extends, Before
<1>3. rows' \in [Tables -> SUBSET Rows]
    BY DEF Extends
<1>4. ASSUME NEW t \in Tables, NEW y \in rows'[t] PROVE Fits(t, y)'
  <2>1. CASE y \in rows[t]
    <3>1. y \in Rows /\ Fits(t, y)
        BY <2>1 DEF CopyInv
    <3> QED BY <3>1, <1>1, StillFits
  <2>2. CASE y \notin rows[t]
    <3>1. Added(t, m, events, y)
        BY <2>2 DEF Extends
    <3>2. y.m = m /\ y.seq \in DOMAIN events /\ y.type = events[y.seq].type /\ Links(t, y)
        BY <3>1, <1>2 DEF Added
    <3> QED BY <3>2, <1>1 DEF Fits, Links
  <2> QED BY <2>1, <2>2
<1>5. ASSUME NEW t \in Tables, NEW y \in rows'[t], NEW z \in rows'[t], y.m = z.m, y.seq = z.seq
      PROVE  y = z
  <2>1. y \in rows[t] => Fits(t, y)
      BY DEF CopyInv
  <2>2. z \in rows[t] => Fits(t, z)
      BY DEF CopyInv
  <2>3. y \notin rows[t] => Added(t, m, events, y)
      BY DEF Extends
  <2>4. z \notin rows[t] => Added(t, m, events, z)
      BY DEF Extends
  <2>5. ASSUME NEW x \in Rows, Fits(t, x), x.m = m PROVE ~(x.seq \in (Len(log[m]) + 1)..Len(events))
      BY <2>5, <1>2 DEF Fits
  <2>6. y \in Rows /\ z \in Rows
      BY <1>3
  <2>7. CASE y \in rows[t] /\ z \in rows[t]
      BY <2>7, <1>5 DEF CopyInv
  <2>8. CASE y \notin rows[t] /\ z \notin rows[t]
      BY <2>8, <2>3, <2>4, <2>6, <1>5, OneRow DEF Added
  <2>9. CASE (y \in rows[t] /\ z \notin rows[t]) \/ (y \notin rows[t] /\ z \in rows[t])
      BY <2>9, <2>1, <2>2, <2>3, <2>4, <2>5, <2>6, <1>5 DEF Added
  <2> QED BY <2>7, <2>8, <2>9
<1>6. ASSUME NEW t \in Tables, NEW k \in Missions, NEW i \in DOMAIN log'[k], Appended(t, log'[k][i])
      PROVE  \E y \in rows'[t] : y.m = k /\ y.seq = i
  <2>1. rows[t] \subseteq rows'[t]
      BY DEF Extends
  <2>2. CASE i \in DOMAIN log[k]
    <3>1. log[k][i].type = log'[k][i].type
        BY <2>2, <1>1, <1>2
    <3>2. Appended(t, log[k][i])
        BY <3>1, <1>6 DEF Appended, Belongs
    <3>3. \E y \in rows[t] : y.m = k /\ y.seq = i
        BY <2>2, <3>2 DEF CopyInv
    <3> QED BY <3>3, <2>1
  <2>3. CASE i \notin DOMAIN log[k]
    <3>1. k = m /\ i \in (Len(log[m]) + 1)..Len(events)
        BY <2>3, <1>1, <1>2
    <3> QED BY <3>1, <1>1, <1>6 DEF Extends
  <2> QED BY <2>2, <2>3
<1>7. outbox' \subseteq Missions \X Nat
  <2>1. NoticesAfter(m, events, Len(log[m])) \subseteq Missions \X Nat
      BY <1>2, NoticesAre
  <2> QED BY <2>1 DEF Extends, CopyInv
<1>8. ASSUME NEW k \in Missions, NEW i \in Nat
      PROVE  <<k, i>> \in outbox' <=> i \in DOMAIN log'[k] /\ log'[k][i].type = "notify"
  <2>1. <<k, i>> \in outbox <=> i \in DOMAIN log[k] /\ log[k][i].type = "notify"
      BY DEF CopyInv
  <2>2. <<k, i>> \in NoticesAfter(m, events, Len(log[m]))
          <=> k = m /\ i \in (Len(log[m]) + 1)..Len(events) /\ events[i].type = "notify"
      BY <1>2, NoticesAre
  <2>3. <<k, i>> \in outbox'
          <=> <<k, i>> \in outbox \/ <<k, i>> \in NoticesAfter(m, events, Len(log[m]))
      BY DEF Extends
  <2>4. CASE k = m
      BY <2>1, <2>2, <2>3, <2>4, <1>1, <1>2
  <2>5. CASE k # m
      BY <2>1, <2>2, <2>3, <2>5, <1>1
  <2> QED BY <2>4, <2>5
<1> QED BY <1>3, <1>4, <1>5, <1>6, <1>7, <1>8 DEF CopyInv, Appended, Belongs

\* what a reader was given, and what it has loaded, stays the beginning of the log
LEMMA GrowsReader ==
  ASSUME LogInv, LogInv', Grown, ReaderInv, UNCHANGED reader
  PROVE  ReaderInv'
<1>1. ASSUME NEW c \in Readers PROVE Reading(reader[c])'
  <2> DEFINE x == reader[c]
  <2>1. x \in ReaderRecords /\ Reading(x)
      BY DEF ReaderInv
  <2>2. x.m \in Missions /\ x.canon \in Seq(Raws) /\ x.after \in Nat
      BY <2>1 DEF ReaderRecords
  <2>3. log[x.m] \in Seq(Raws) /\ log'[x.m] \in Seq(Raws) /\ Before(log[x.m], log'[x.m])
      BY <2>2 DEF LogInv, Grown
  <2> HIDE DEF x
  <2>4. x.after <= Len(log'[x.m])
      BY <2>1, <2>2, <2>3 DEF Reading, Before
  <2>5. \A i \in 1..x.after : Appended(x.table, log'[x.m][i]) => i \in x.got
    <3>1. ASSUME NEW i \in 1..x.after PROVE log[x.m][i].type = log'[x.m][i].type
      <4>1. i \in DOMAIN log[x.m]
          BY <2>1, <2>2, <2>3 DEF Reading
      <4> QED BY <4>1, <2>3 DEF Before
    <3> QED BY <3>1, <2>1 DEF Reading, Appended, Belongs
  <2>6. x.pc = "loaded" => Before(x.canon, log'[x.m])
      BY <2>1, <2>2, <2>3, BeforeAgain DEF Reading
  <2>7. x' = x
      BY DEF x
  <2> QED BY <2>1, <2>4, <2>5, <2>6, <2>7 DEF Reading, x, Appended, Belongs
<1> QED BY <1>1 DEF ReaderInv, ReaderRecords

\* a rebuild goes on with the logs it selected
LEMMA GrowsRebuild ==
  ASSUME LogInv, CopyInv, RebuildInv, NEW m \in Missions, NEW events, Extends(m, events),
         UNCHANGED rebuild
  PROVE  RebuildInv'
<1>1. /\ LogInv' /\ Grown /\ log \in [Missions -> Seq(Raws)] /\ log' \in [Missions -> Seq(Raws)]
    BY Grows DEF LogInv
<1>2. ASSUME NEW r \in Rebuilders PROVE Rebuilding(rebuild[r])'
  <2> DEFINE x == rebuild[r]
  <2>1. x \in RebuildRecords /\ Rebuilding(x) /\ x' = x
      BY DEF RebuildInv
  <2>2. x.table \in Tables /\ x.doomed \subseteq Rows /\ x.new \subseteq Rows
      BY <2>1 DEF RebuildRecords
  <2> HIDE DEF x
  <2>3. rows[x.table] \subseteq rows'[x.table]
      BY <2>2 DEF Extends
  <2>4. ASSUME x.pc = "inserting" PROVE Inserts(x)'
    <3>1. Inserts(x)
        BY <2>1, <2>4 DEF Rebuilding
    <3>2. \A k \in Missions : Before(x.logs[k], log'[k])
      <4>1. ASSUME NEW k \in Missions PROVE Before(x.logs[k], log'[k])
        <5>1. /\ x.logs[k] \in Seq(Raws) /\ log[k] \in Seq(Raws) /\ log'[k] \in Seq(Raws)
              /\ Before(x.logs[k], log[k]) /\ Before(log[k], log'[k])
            BY <1>1, <3>1 DEF Inserts, Grown
        <5> QED BY <5>1, BeforeAgain
      <4> QED BY <4>1
    <3>3. ASSUME NEW y \in x.new, NEW z \in rows'[x.table] \ x.doomed
          PROVE  ~(y.m = z.m /\ y.seq = z.seq)
      <4>1. CASE z \in rows[x.table]
          BY <4>1, <3>1 DEF Inserts
      <4>2. CASE z \notin rows[x.table]
        <5>1. Added(x.table, m, events, z)
            BY <4>2, <2>2 DEF Extends
        <5>2. y \in Rows /\ y.m \in Missions
            BY <2>2 DEF Rows
        <5>3. /\ y.seq \in DOMAIN x.logs[y.m] /\ x.logs[y.m] \in Seq(Raws)
              /\ Len(x.logs[y.m]) <= Len(log[y.m]) /\ log[y.m] \in Seq(Raws)
            BY <5>2, <3>1, <1>1 DEF Inserts, Before
        <5>4. z.seq \in (Len(log[m]) + 1)..Len(events) /\ z.m = m
            BY <5>1 DEF Added
        <5> QED BY <5>3, <5>4
      <4> QED BY <4>1, <4>2
    <3> QED BY <2>1, <3>1, <3>2, <3>3 DEF Inserts, Links, Uniform, Bare, Chain
  <2> QED BY <2>1, <2>3, <2>4 DEF Rebuilding, x
<1> QED BY <1>2 DEF RebuildInv, RebuildRecords, Past, Apart

\* and a writer, who has the beginning of a log, or holds its lock
LEMMA GrowsWriter ==
  ASSUME LogInv, LogInv', Grown, WriterInv, NEW w \in Writers, UNCHANGED writer[w],
         \A m \in Missions : lock[m] = w => log'[m] = log[m] /\ lock'[m] = w,
         \A m \in Missions : lock[m] # w => lock'[m] # w
  PROVE  Writing(w)'
<1> DEFINE x == writer[w]
<1>1. x \in WriterRecords /\ Writing(w) /\ writer'[w] = x
    BY DEF WriterInv
<1>2. x.events \in Seq(Raws)
    BY <1>1 DEF WriterRecords
<1>3. CASE x.pc = "loaded"
  <2>1. x.m \in Missions /\ Before(x.events, log[x.m]) /\ lock[x.m] # w
      BY <1>1, <1>3 DEF Writing
  <2>2. log[x.m] \in Seq(Raws) /\ log'[x.m] \in Seq(Raws) /\ Before(log[x.m], log'[x.m])
      BY <2>1 DEF LogInv, Grown
  <2>3. Before(x.events, log'[x.m]) /\ lock'[x.m] # w
      BY <2>1, <2>2, <1>2, BeforeAgain
  <2> QED BY <1>1, <1>3, <2>3 DEF Writing
<1>4. CASE x.pc = "updated"
  <2>1. x.m \in Missions /\ lock[x.m] = w
      BY <1>1, <1>4 DEF Writing
  <2>2. log'[x.m] = log[x.m] /\ lock'[x.m] = w
      BY <2>1
  <2> QED BY <1>1, <1>4, <2>2 DEF Writing
<1>5. CASE x.pc = "idle"
    BY <1>1, <1>5 DEF Writing
<1> QED BY <1>1, <1>3, <1>4, <1>5 DEF WriterRecords

-----------------------------------------------------------------------------
(* Writers                                                                   *)

LEMMA RowsSplit ==
  ASSUME NEW t \in Tables, NEW m \in Missions, NEW events \in Seq(Raws), NEW longer \in Seq(Raws),
         Before(events, longer), \A i \in DOMAIN events : longer[i] = events[i],
         NEW base \in Nat, base <= Len(events)
  PROVE  /\ RowsAfter(t, m, events, base) \cup RowsAfter(t, m, longer, Len(events))
              = RowsAfter(t, m, longer, base)
         /\ NoticesAfter(m, events, base) \cup NoticesAfter(m, longer, Len(events))
              = NoticesAfter(m, longer, base)
<1>1. /\ Len(events) \in Nat /\ Len(longer) \in Nat /\ Len(events) <= Len(longer)
      /\ \A i \in 1..Len(events) : longer[i] = events[i]
    BY DEF Before
<1>2. (base + 1)..Len(longer) = ((base + 1)..Len(events)) \cup ((Len(events) + 1)..Len(longer))
    BY <1>1
<1>3. \A i \in (base + 1)..Len(events) : i \in 1..Len(events)
    BY <1>1
<1> QED BY <1>1, <1>2, <1>3 DEF RowsAfter, NoticesAfter

LEMMA IdleWriterTypes == IdleWriter \in WriterRecords /\ IdleWriter.pc = "idle"
<1>1. <<>> \in Seq(Raws)
    OBVIOUS
<1> QED BY <1>1 DEF IdleWriter, WriterRecords

\* the end of a transaction, with or without what it wrote
LEMMA EndedKeeps ==
  ASSUME LogInv, LogInv', Grown, WriterInv, NEW w \in Writers, Ended(w),
         \A m \in Missions : lock[m] # w => log'[m] = log[m]
  PROVE  WriterInv'
<1>1. writer' = [writer EXCEPT ![w] = IdleWriter] /\ writer \in [Writers -> WriterRecords]
    BY DEF Ended, WriterInv
<1>2. writer'[w] = IdleWriter /\ \A v \in Writers \ {w} : writer'[v] = writer[v]
    BY <1>1
<1>3. writer' \in [Writers -> WriterRecords]
    BY <1>1, IdleWriterTypes
<1>4. lock \in [Missions -> Writers \cup {None}] /\ None \notin Writers
    BY ConstantsAssumption DEF WriterInv
<1>5. \A m \in Missions : lock'[m] = IF lock[m] = w THEN None ELSE lock[m]
    BY DEF Ended
<1>6. lock' \in [Missions -> Writers \cup {None}]
    BY <1>4 DEF Ended
<1>7. ASSUME NEW v \in Writers PROVE Writing(v)'
  <2>1. CASE v = w
      BY <2>1, <1>2, IdleWriterTypes DEF Writing
  <2>2. CASE v # w
    <3>1. writer'[v] = writer[v]
        BY <2>2, <1>2
    <3>2. \A m \in Missions : lock[m] = v => log'[m] = log[m] /\ lock'[m] = v
        BY <2>2, <1>5
    <3>3. \A m \in Missions : lock[m] # v => lock'[m] # v
        BY <2>2, <1>4, <1>5
    <3> QED BY <3>1, <3>2, <3>3, GrowsWriter
  <2> QED BY <2>1, <2>2
<1>8. ASSUME NEW m \in Missions, lock'[m] # None
      PROVE  writer'[lock'[m]].pc = "updated" /\ writer'[lock'[m]].m = m
  <2>1. lock'[m] = lock[m] /\ lock[m] # w /\ lock[m] # None /\ lock[m] \in Writers
      BY <1>4, <1>5, <1>8
  <2> QED BY <2>1, <1>2 DEF WriterInv
<1> QED BY <1>3, <1>6, <1>7, <1>8 DEF WriterInv

\* a writer's record with some of its fields replaced
Loading(x, m, events, base) ==
  [x EXCEPT !.pc = "loaded", !.m = m, !.events = events, !.base = base]
Updating(x, events, base, rs, out) ==
  [x EXCEPT !.pc = "updated", !.events = events, !.base = base, !.rows = rs, !.out = out]

LEMMA Loads ==
  ASSUME NEW x \in WriterRecords, NEW m \in Missions \cup {None}, NEW events \in Seq(Raws),
         NEW base \in Nat
  PROVE  LET y == Loading(x, m, events, base) IN
         /\ y \in WriterRecords /\ y.pc = "loaded" /\ y.m = m /\ y.events = events
         /\ y.base = base /\ y.rows = x.rows /\ y.out = x.out
<1> DEFINE R1 == {"idle", "loaded", "updated"}
           R2 == Missions \cup {None}
           R3 == Seq(Raws)
           R4 == [Tables -> SUBSET Rows]
           R5 == SUBSET (Missions \X Nat)
<1>1. WriterRecords = [pc : R1, m : R2, events : R3, base : Nat, rows : R4, out : R5]
    BY DEF WriterRecords
<1>2. "loaded" \in R1 /\ m \in R2 /\ events \in R3
    BY <1>1
<1> HIDE DEF R1, R2, R3, R4, R5
<1> QED BY <1>1, <1>2 DEF Loading

LEMMA Updates ==
  ASSUME NEW x \in WriterRecords, NEW events \in Seq(Raws), NEW base \in Nat,
         NEW rs \in [Tables -> SUBSET Rows], NEW out \in SUBSET (Missions \X Nat)
  PROVE  LET y == Updating(x, events, base, rs, out) IN
         /\ y \in WriterRecords /\ y.pc = "updated" /\ y.m = x.m /\ y.events = events
         /\ y.base = base /\ y.rows = rs /\ y.out = out
<1> DEFINE R1 == {"idle", "loaded", "updated"}
           R2 == Missions \cup {None}
           R3 == Seq(Raws)
           R4 == [Tables -> SUBSET Rows]
           R5 == SUBSET (Missions \X Nat)
<1>1. WriterRecords = [pc : R1, m : R2, events : R3, base : Nat, rows : R4, out : R5]
    BY DEF WriterRecords
<1>2. "updated" \in R1 /\ events \in R3 /\ rs \in R4 /\ out \in R5
    BY <1>1
<1> HIDE DEF R1, R2, R3, R4, R5
<1> QED BY <1>1, <1>2 DEF Updating

LEMMA LoadKeeps ==
  ASSUME LogInv, WriterInv, NEW w \in Writers, NEW m \in Missions, Load(w, m)
  PROVE  WriterInv'
<1> DEFINE x == Loading(IdleWriter, m, Deserialize(log[m]), Len(log[m]))
<1>1. log[m] \in Seq(Raws) /\ Uniform(log[m]) /\ Len(log[m]) <= MaxEvents /\ Len(log[m]) \in Nat
    BY DEF LogInv
<1>2. /\ Deserialize(log[m]) \in Seq(Raws) /\ Chain(Deserialize(log[m]))
      /\ Len(Deserialize(log[m])) = Len(log[m]) /\ Before(Deserialize(log[m]), log[m])
    BY <1>1, Upcast
<1>3. writer' = [writer EXCEPT ![w] = x] /\ writer[w].pc = "idle"
    BY Zenon DEF Load, Loading
<1>4. /\ x \in WriterRecords /\ x.pc = "loaded" /\ x.m = m /\ x.events = Deserialize(log[m])
      /\ x.base = Len(log[m]) /\ x.rows = [t \in Tables |-> {}] /\ x.out = {}
  <2>1. x \in WriterRecords /\ x.pc = "loaded" /\ x.m = m /\ x.events = Deserialize(log[m])
        /\ x.base = Len(log[m]) /\ x.rows = IdleWriter.rows /\ x.out = IdleWriter.out
      BY <1>1, <1>2, IdleWriterTypes, Loads
  <2>2. IdleWriter.rows = [t \in Tables |-> {}] /\ IdleWriter.out = {}
      BY DEF IdleWriter
  <2> QED BY <2>1, <2>2
<1> HIDE DEF x
<1>5. writer'[w] = x /\ \A v \in Writers \ {w} : writer'[v] = writer[v]
    BY <1>3 DEF WriterInv
<1>6. writer' \in [Writers -> WriterRecords]
    BY <1>3, <1>4 DEF WriterInv
<1>7. UNCHANGED <<log, lock>> /\ LogInv' /\ Grown
    BY DEF Load, LogInv, Grown, Before, Uniform, Bare, Chain
<1>8. lock[m] # w
    BY <1>3, ConstantsAssumption DEF WriterInv
<1>9. ASSUME NEW v \in Writers PROVE Writing(v)'
  <2>1. CASE v = w
      BY <2>1, <1>1, <1>2, <1>4, <1>5, <1>7, <1>8 DEF Writing
  <2>2. CASE v # w
      BY <2>2, <1>5, <1>7, GrowsWriter
  <2> QED BY <2>1, <2>2
<1>10. ASSUME NEW k \in Missions, lock'[k] # None
       PROVE  writer'[lock'[k]].pc = "updated" /\ writer'[lock'[k]].m = k
  <2>1. lock[k] # None /\ lock'[k] = lock[k] /\ lock[k] \in Writers
      BY <1>7, <1>10 DEF WriterInv
  <2>2. writer[lock[k]].pc = "updated" /\ writer[lock[k]].m = k
      BY <2>1 DEF WriterInv
  <2>3. lock[k] # w
      BY <2>2, <1>3
  <2> QED BY <2>1, <2>2, <2>3, <1>5
<1> QED BY <1>6, <1>7, <1>9, <1>10 DEF WriterInv

LEMMA UpdateKeeps ==
  ASSUME LogInv, WriterInv, NEW w \in Writers, Update(w)
  PROVE  WriterInv'
<1> DEFINE x == writer[w]
           m == x.m
           short == Len(log[m])
<1>1. /\ x \in WriterRecords /\ Writing(w) /\ x.pc \in {"loaded", "updated"}
      /\ lock[m] \in {None, w} /\ Seen(w)
    BY DEF Update, WriterInv
<1>2. /\ m \in Missions /\ Chain(x.events) /\ x.base = Len(x.events) /\ x.events \in Seq(Raws)
      /\ Len(x.events) \in Nat
    BY <1>1 DEF Writing, WriterRecords
<1>3. log[m] \in Seq(Raws) /\ short \in Nat
    BY <1>2 DEF LogInv
<1> DEFINE Writes(types) ==
        LET events == Recorded(x.events, types) IN
        /\ Len(events) <= MaxEvents
        /\ writer' = [writer EXCEPT ![w] =
             [x EXCEPT !.pc = "updated", !.events = events, !.base = Len(events),
                       !.rows = [t \in Tables |-> x.rows[t] \cup NewRows(t, w, events)],
                       !.out = x.out \cup NoticesAfter(m, events, x.base)]]
        /\ lock' = [lock EXCEPT ![m] = w]
<1>pick. PICK n \in 1..Batch : \E types \in [1..n -> Written] : Writes(types)
    BY DEF Update
<1>4. PICK types \in [1..n -> Written] : Writes(types)
    BY <1>pick
<1> DEFINE events == Recorded(x.events, types)
           rs == [t \in Tables |-> RowsAfter(t, m, events, short)]
           ns == NoticesAfter(m, events, short)
           y == Updating(x, events, Len(events), rs, ns)
<1>5. n \in Nat /\ types \in [1..n -> Types]
  <2>1. Written \subseteq Types /\ n \in Nat
      BY ConstantsAssumption DEF Types
  <2> QED BY <2>1
<1>6. /\ events \in Seq(Raws) /\ Chain(events) /\ Len(events) = Len(x.events) + n
      /\ Before(x.events, events) /\ \A i \in DOMAIN x.events : events[i] = x.events[i]
    BY <1>2, <1>5, Extended
<1>7. lock' = [lock EXCEPT ![m] = w] /\ Len(events) <= MaxEvents
    BY <1>4
<1>8. writer' = [writer EXCEPT ![w] =
        [x EXCEPT !.pc = "updated", !.events = events, !.base = Len(events),
                  !.rows = [t \in Tables |-> x.rows[t] \cup RowsAfter(t, m, events, x.base)],
                  !.out = x.out \cup NoticesAfter(m, events, x.base)]]
    BY <1>4 DEF NewRows
<1> HIDE DEF events
<1>9. /\ Before(log[m], events) /\ short <= Len(x.events)
      /\ [t \in Tables |-> x.rows[t] \cup RowsAfter(t, m, events, x.base)]
           = [t \in Tables |-> RowsAfter(t, m, events, short)]
      /\ x.out \cup NoticesAfter(m, events, x.base) = NoticesAfter(m, events, short)
  <2>1. CASE x.pc = "loaded"
    <3>1. Before(x.events, log[m]) /\ x.rows = [t \in Tables |-> {}] /\ x.out = {} /\ lock[m] # w
        BY <2>1, <1>1 DEF Writing
    <3>2. short = x.base
        BY <3>1, <1>1 DEF Seen
    <3>3. Before(log[m], x.events)
        BY <3>1, <3>2, <1>2, <1>3 DEF Before
    <3>4. Before(log[m], events)
        BY <3>3, <1>2, <1>3, <1>6, BeforeAgain
    <3> QED BY <3>1, <3>2, <3>4, <1>2
  <2>2. CASE x.pc = "updated"
    <3>1. /\ Before(log[m], x.events)
          /\ x.rows = [t \in Tables |-> RowsAfter(t, m, x.events, short)]
          /\ x.out = NoticesAfter(m, x.events, short)
        BY <2>2, <1>1 DEF Writing
    <3>2. Before(log[m], events)
        BY <3>1, <1>2, <1>3, <1>6, BeforeAgain
    <3>3. short <= Len(x.events)
        BY <3>1 DEF Before
    <3>4. \A t \in Tables :
            /\ RowsAfter(t, m, x.events, short) \cup RowsAfter(t, m, events, Len(x.events))
                 = RowsAfter(t, m, events, short)
            /\ NoticesAfter(m, x.events, short) \cup NoticesAfter(m, events, Len(x.events))
                 = NoticesAfter(m, events, short)
      <4> DEFINE a == x.events
      <4>1. /\ events \in Seq(Raws) /\ a \in Seq(Raws) /\ m \in Missions /\ short \in Nat
            /\ short <= Len(a) /\ Before(a, events) /\ \A i \in DOMAIN a : events[i] = a[i]
          BY <3>3, <1>2, <1>3, <1>6
      <4> HIDE DEF a, m, short
      <4>2. \A t \in Tables :
              /\ RowsAfter(t, m, a, short) \cup RowsAfter(t, m, events, Len(a))
                   = RowsAfter(t, m, events, short)
              /\ NoticesAfter(m, a, short) \cup NoticesAfter(m, events, Len(a))
                   = NoticesAfter(m, events, short)
          BY <4>1, RowsSplit
      <4> QED BY <4>2, Zenon DEF a, m, short
    <3>5. "events" \in Tables
        BY DEF Tables
    <3> QED BY <3>1, <3>2, <3>3, <3>4, <3>5, <1>2
  <2> QED BY <1>1, <2>1, <2>2
<1>10. writer' = [writer EXCEPT ![w] = y]
    BY <1>8, <1>9, Zenon DEF Updating
<1>11. rs \in [Tables -> SUBSET Rows] /\ ns \in SUBSET (Missions \X Nat) /\ Len(events) \in Nat
  <2>1. rs \in [Tables -> SUBSET Rows]
      BY <1>2, <1>3, <1>6, RowsAre
  <2>2. ns \in SUBSET (Missions \X Nat)
      BY <1>2, <1>3, <1>6, NoticesAre
  <2>3. Len(events) \in Nat
      BY <1>6
  <2> QED BY <2>1, <2>2, <2>3
<1>12. /\ y \in WriterRecords /\ y.pc = "updated" /\ y.m = m /\ y.events = events
       /\ y.base = Len(events) /\ y.rows = rs /\ y.out = ns
    BY <1>1, <1>6, <1>11, Updates
<1> HIDE DEF y
<1>13. writer'[w] = y /\ \A v \in Writers \ {w} : writer'[v] = writer[v]
    BY <1>10 DEF WriterInv
<1>14. writer' \in [Writers -> WriterRecords]
    BY <1>10, <1>12 DEF WriterInv
<1>15. UNCHANGED log /\ LogInv' /\ Grown
    BY DEF Update, LogInv, Grown, Before, Uniform, Bare, Chain
<1>16. /\ lock' \in [Missions -> Writers \cup {None}] /\ lock'[m] = w
       /\ \A k \in Missions \ {m} : lock'[k] = lock[k]
    BY <1>2, <1>7 DEF WriterInv
<1>17. None \notin Writers
    BY ConstantsAssumption
<1>18. ASSUME NEW v \in Writers PROVE Writing(v)'
  <2>1. CASE v = w
    <3>1. writer'[w] = y /\ y.m \in Missions /\ y.m = m /\ lock'[y.m] = w /\ log'[m] = log[m]
        BY <1>2, <1>12, <1>13, <1>15, <1>16
    <3> QED BY <2>1, <3>1, <1>6, <1>7, <1>9, <1>12 DEF Writing
  <2>2. CASE v # w
    <3>1. \A k \in Missions : (lock[k] = v <=> lock'[k] = v)
        BY <2>2, <1>1, <1>16, <1>17
    <3> QED BY <2>2, <3>1, <1>13, <1>15, GrowsWriter
  <2> QED BY <2>1, <2>2
<1>19. ASSUME NEW k \in Missions, lock'[k] # None
       PROVE  writer'[lock'[k]].pc = "updated" /\ writer'[lock'[k]].m = k
  <2>1. CASE k = m
      BY <2>1, <1>12, <1>13, <1>16
  <2>2. CASE k # m
    <3>1. lock'[k] = lock[k] /\ lock[k] \in Writers /\ writer[lock[k]].pc = "updated"
          /\ writer[lock[k]].m = k
        BY <2>2, <1>16, <1>19 DEF WriterInv
    <3>2. lock[k] # w
        BY <3>1, <2>2
    <3> QED BY <3>1, <3>2, <1>13
  <2> QED BY <2>1, <2>2
<1> QED BY <1>14, <1>16, <1>18, <1>19 DEF WriterInv

LEMMA ExtendsKeeps ==
  ASSUME LogInv, CopyInv, RebuildInv, ReaderInv, NEW m \in Missions, NEW events,
         Extends(m, events), UNCHANGED <<rebuild, reader>>
  PROVE  LogInv' /\ CopyInv' /\ RebuildInv' /\ ReaderInv' /\ Grown
<1>1. LogInv' /\ Grown
    BY Grows
<1>2. CopyInv'
    BY GrowsCopy
<1>3. RebuildInv'
    BY GrowsRebuild
<1>4. ReaderInv'
    BY <1>1, GrowsReader
<1> QED BY <1>1, <1>2, <1>3, <1>4

\* the rows an update projects are those its events add
LEMMA ProjectsAdded ==
  ASSUME LogInv, NEW m \in Missions, NEW events \in Seq(Raws), Chain(events), NEW t \in Tables
  PROVE  /\ \A y \in RowsAfter(t, m, events, Len(log[m])) : Added(t, m, events, y)
         /\ \A i \in (Len(log[m]) + 1)..Len(events) :
              Appended(t, events[i])
                => \E y \in RowsAfter(t, m, events, Len(log[m])) : y.m = m /\ y.seq = i
<1>1. Len(log[m]) \in Nat
    BY DEF LogInv
<1> QED BY <1>1, RowsAre DEF Added, Appended, Belongs

LEMMA CommitKeeps ==
  ASSUME Inv, NEW w \in Writers, Commit(w)
  PROVE  Inv' /\ Grown
<1> DEFINE x == writer[w]
           m == x.m
           events == x.events
<1>1. x \in WriterRecords /\ Writing(w) /\ x.pc = "updated"
    BY DEF Commit, Inv, WriterInv
<1>2. /\ m \in Missions /\ Chain(events) /\ Len(events) <= MaxEvents /\ events \in Seq(Raws)
      /\ lock[m] = w /\ Before(log[m], events)
      /\ x.rows = [t \in Tables |-> RowsAfter(t, m, events, Len(log[m]))]
      /\ x.out = NoticesAfter(m, events, Len(log[m]))
    BY <1>1 DEF Writing, WriterRecords
<1>3. /\ log' = [log EXCEPT ![m] = events]
      /\ rows' = [t \in Tables |-> rows[t] \cup RowsAfter(t, m, events, Len(log[m]))]
      /\ outbox' = outbox \cup NoticesAfter(m, events, Len(log[m]))
      /\ UNCHANGED <<rebuild, reader>> /\ Ended(w)
    BY <1>2 DEF Commit
<1> HIDE DEF m, events
<1>4. Extends(m, events)
  <2>1. ASSUME NEW t \in Tables
        PROVE  /\ rows[t] \subseteq rows'[t] /\ rows'[t] \subseteq Rows
               /\ \A y \in rows'[t] \ rows[t] : Added(t, m, events, y)
               /\ \A i \in (Len(log[m]) + 1)..Len(events) :
                    Appended(t, events[i]) => \E y \in rows'[t] : y.m = m /\ y.seq = i
    <3>1. rows'[t] = rows[t] \cup RowsAfter(t, m, events, Len(log[m]))
        BY <1>3
    <3>2. \A y \in RowsAfter(t, m, events, Len(log[m])) : Added(t, m, events, y)
        BY <1>2, ProjectsAdded DEF Inv
    <3>3. \A i \in (Len(log[m]) + 1)..Len(events) : Appended(t, events[i])
            => \E y \in RowsAfter(t, m, events, Len(log[m])) : y.m = m /\ y.seq = i
        BY <1>2, ProjectsAdded DEF Inv
    <3>4. rows[t] \subseteq Rows
        BY DEF Inv, CopyInv
    <3> QED BY <3>1, <3>2, <3>3, <3>4 DEF Added
  <2>2. rows' \in [Tables -> SUBSET Rows]
      BY <2>1, <1>3
  <2> QED BY <2>1, <2>2, <1>2, <1>3 DEF Extends
<1>5. LogInv' /\ CopyInv' /\ RebuildInv' /\ ReaderInv' /\ Grown
    BY <1>2, <1>3, <1>4, ExtendsKeeps DEF Inv
<1>6. \A k \in Missions : lock[k] # w => log'[k] = log[k]
    BY <1>2, <1>3 DEF Inv, LogInv
<1>7. WriterInv'
    BY <1>3, <1>5, <1>6, EndedKeeps DEF Inv
<1> QED BY <1>5, <1>7 DEF Inv

\* expire_due and recover_stale_processing: one event more, under no lock
Gains(m, type) ==
  /\ lock[m] = None /\ Len(log[m]) < MaxEvents
  /\ log' = [log EXCEPT ![m] = Recorded(Deserialize(log[m]), <<type>>)]
  /\ LET added == RowsAfter("events", m, Recorded(Deserialize(log[m]), <<type>>), Len(log[m])) IN
     rows' = IF type = "notify" THEN [rows EXCEPT !["events"] = @ \cup added] ELSE rows
  /\ outbox' = outbox \cup NoticesAfter(m, Recorded(Deserialize(log[m]), <<type>>), Len(log[m]))
  /\ UNCHANGED <<lock, writer, rebuild, reader>>

LEMMA GainsKeeps ==
  ASSUME Inv, NEW m \in Missions, NEW type \in {"notify", "recovered"}, Gains(m, type)
  PROVE  Inv' /\ Grown
<1> DEFINE raw == Deserialize(log[m])
           events == Recorded(raw, <<type>>)
           n == Len(log[m])
<1>1. log[m] \in Seq(Raws) /\ Uniform(log[m]) /\ n \in Nat /\ n < MaxEvents
    BY DEF Inv, LogInv, Gains
<1>2. raw \in Seq(Raws) /\ Chain(raw) /\ Len(raw) = n /\ Before(log[m], raw)
    BY <1>1, Upcast
<1>3. /\ events \in Seq(Raws) /\ Chain(events) /\ Len(events) = n + 1
      /\ Before(raw, events) /\ events[n + 1].type = type
  <2>1. type \in Types
      BY DEF Types
  <2> QED BY <2>1, <1>2, OneMore
<1>4. Before(log[m], events)
    BY <1>1, <1>2, <1>3, BeforeAgain
<1>5. /\ log' = [log EXCEPT ![m] = events]
      /\ rows' = IF type = "notify"
                 THEN [rows EXCEPT !["events"] = @ \cup RowsAfter("events", m, events, n)] ELSE rows
      /\ outbox' = outbox \cup NoticesAfter(m, events, n)
      /\ lock[m] = None /\ UNCHANGED <<lock, writer, rebuild, reader>>
    BY DEF Gains
<1> HIDE DEF events, raw
<1>6. Len(events) <= MaxEvents /\ (n + 1)..Len(events) = {n + 1}
    BY <1>1, <1>3, ConstantsAssumption
<1>7. rows \in [Tables -> SUBSET Rows]
    BY DEF Inv, CopyInv
<1>8. Extends(m, events)
  <2>1. ASSUME NEW t \in Tables
        PROVE  /\ rows[t] \subseteq rows'[t] /\ rows'[t] \subseteq Rows
               /\ \A y \in rows'[t] \ rows[t] : Added(t, m, events, y)
               /\ \A i \in (n + 1)..Len(events) :
                    Appended(t, events[i]) => \E y \in rows'[t] : y.m = m /\ y.seq = i
    <3>1. CASE type = "notify" /\ t = "events"
      <4>1. rows'[t] = rows[t] \cup RowsAfter(t, m, events, n)
          BY <3>1, <1>5, <1>7
      <4>2. \A y \in RowsAfter(t, m, events, n) : Added(t, m, events, y)
          BY <1>3, ProjectsAdded DEF Inv
      <4>3. \A i \in (n + 1)..Len(events) : Appended(t, events[i])
              => \E y \in RowsAfter(t, m, events, n) : y.m = m /\ y.seq = i
          BY <1>3, ProjectsAdded DEF Inv
      <4> QED BY <4>1, <4>2, <4>3, <1>7 DEF Added
    <3>2. CASE ~(type = "notify" /\ t = "events")
      <4>1. rows'[t] = rows[t]
          BY <3>2, <1>5, <1>7
      <4>2. \A i \in (n + 1)..Len(events) : ~Appended(t, events[i])
          BY <3>2, <1>3, <1>6 DEF Appended, Belongs, Tables
      <4> QED BY <4>1, <4>2, <1>7
    <3> QED BY <3>1, <3>2
  <2>2. rows' \in [Tables -> SUBSET Rows]
    <3>1. rows' \in [Tables -> SUBSET Rows] \/ type = "notify"
        BY <1>5, <1>7
    <3>2. DOMAIN rows' = Tables /\ rows' = [t \in Tables |-> rows'[t]]
        BY <1>5, <1>7
    <3> QED BY <2>1, <3>2
  <2> QED BY <2>1, <2>2, <1>3, <1>4, <1>5, <1>6 DEF Extends
<1>9. LogInv' /\ CopyInv' /\ RebuildInv' /\ ReaderInv' /\ Grown
    BY <1>5, <1>8, ExtendsKeeps DEF Inv
<1>10. WriterInv'
  <2>1. \A k \in Missions \ {m} : log'[k] = log[k]
      BY <1>5 DEF Inv, LogInv
  <2>2. None \notin Writers
      BY ConstantsAssumption
  <2>3. ASSUME NEW v \in Writers PROVE Writing(v)'
      BY <2>1, <2>2, <1>5, <1>9, GrowsWriter DEF Inv
  <2> QED BY <2>3, <1>5 DEF Inv, WriterInv
<1> QED BY <1>9, <1>10 DEF Inv

LEMMA WorkerKeeps ==
  ASSUME Inv, NEW m \in Missions, Expire(m) \/ Recover(m)
  PROVE  Inv' /\ Grown
<1>1. CASE Expire(m)
  <2>1. Gains(m, "notify")
      BY <1>1 DEF Expire, Gains, Skipped
  <2> QED BY <2>1, GainsKeeps
<1>2. CASE Recover(m)
  <2> DEFINE events == Recorded(Deserialize(log[m]), <<"recovered">>)
             n == Len(log[m])
  <2>1. log[m] \in Seq(Raws) /\ Uniform(log[m]) /\ n \in Nat
      BY DEF Inv, LogInv
  <2>2. Deserialize(log[m]) \in Seq(Raws) /\ Chain(Deserialize(log[m])) /\ Len(Deserialize(log[m])) = n
      BY <2>1, Upcast
  <2>3. events \in Seq(Raws) /\ Len(events) = n + 1 /\ events[n + 1].type = "recovered"
    <3>1. "recovered" \in Types
        BY DEF Types
    <3> QED BY <3>1, <2>2, OneMore
  <2> HIDE DEF events
  <2>4. NoticesAfter(m, events, n) = {}
      BY <2>1, <2>3 DEF NoticesAfter
  <2>5. Gains(m, "recovered")
      BY <2>4, <1>2 DEF Recover, Gains, Skipped, events
  <2> QED BY <2>5, GainsKeeps
<1> QED BY <1>1, <1>2

-----------------------------------------------------------------------------
(* Rebuilds                                                                  *)

LEMMA KeysApart ==
  ASSUME NEW A, NEW B, Keys(A) \cap Keys(B) = {}, NEW a \in A, NEW b \in B
  PROVE  ~(a.m = b.m /\ a.seq = b.seq)
<1>1. Key(a) \in Keys(A) /\ Key(b) \in Keys(B)
    BY DEF Keys
<1> QED BY <1>1 DEF Key

LEMMA IdleRebuildTypes ==
  IdleRebuild \in RebuildRecords /\ IdleRebuild.pc = "idle" /\ Rebuilding(IdleRebuild)
BY DEF IdleRebuild, RebuildRecords, Rebuilding, Tables

\* one rebuild goes on, the copies are as they were
LEMMA GoesOn ==
  ASSUME RebuildInv, NEW r \in Rebuilders, NEW y \in RebuildRecords, Rebuilding(y),
         rebuild' = [rebuild EXCEPT ![r] = y], UNCHANGED <<log, rows>>,
         Past(y) => \A q \in Rebuilders \ {r} :
                      Past(rebuild[q]) /\ rebuild[q].table = y.table => Apart(y, rebuild[q])
  PROVE  RebuildInv'
<1>1. /\ rebuild' \in [Rebuilders -> RebuildRecords]
      /\ rebuild'[r] = y /\ \A q \in Rebuilders \ {r} : rebuild'[q] = rebuild[q]
    BY DEF RebuildInv
<1>2. ASSUME NEW q \in Rebuilders PROVE Rebuilding(rebuild[q])'
  <2>1. Rebuilding(rebuild'[q])
      BY <1>1 DEF RebuildInv
  <2> QED BY <2>1 DEF Rebuilding, Inserts
<1>3. ASSUME NEW p \in Rebuilders, NEW q \in Rebuilders, p # q, Past(rebuild'[p]),
             Past(rebuild'[q]), rebuild'[p].table = rebuild'[q].table
      PROVE  Apart(rebuild'[p], rebuild'[q])
  <2>1. CASE p # r /\ q # r
      BY <2>1, <1>1, <1>3 DEF RebuildInv
  <2>2. CASE p = r
      BY <2>2, <1>1, <1>3
  <2>3. CASE q = r
    <3>1. Apart(rebuild'[q], rebuild'[p])
        BY <2>3, <1>1, <1>3
    <3> QED BY <3>1 DEF Apart
  <2> QED BY <2>1, <2>2, <2>3
<1> QED BY <1>1, <1>2, <1>3 DEF RebuildInv, Past, Apart

LEMMA StartDeleteKeeps ==
  ASSUME LogInv, CopyInv, RebuildInv, NEW r \in Rebuilders, NEW table \in Tables,
         StartDelete(r, table)
  PROVE  RebuildInv'
<1> DEFINE y == [IdleRebuild EXCEPT !.pc = "deleting", !.table = table, !.doomed = rows[table]]
<1>1. rebuild' = [rebuild EXCEPT ![r] = y] /\ UNCHANGED <<log, rows>>
    BY DEF StartDelete
<1>2. y \in RebuildRecords /\ y.pc = "deleting" /\ y.doomed = rows[y.table] /\ y.new = {}
  <2>1. rows[table] \subseteq Rows
      BY DEF CopyInv
  <2>2. IdleRebuild.new = {}
      BY DEF IdleRebuild
  <2> QED BY <2>1, <2>2, IdleRebuildTypes DEF RebuildRecords
<1> HIDE DEF y
<1>3. Rebuilding(y) /\ ~Past(y)
    BY <1>2 DEF Rebuilding, Past
<1> QED BY <1>1, <1>2, <1>3, GoesOn

LEMMA DeleteKeeps ==
  ASSUME LogInv, CopyInv, RebuildInv, NEW r \in Rebuilders, Delete(r)
  PROVE  RebuildInv'
<1> DEFINE x == rebuild[r]
           y == [x EXCEPT !.pc = "selecting"]
<1>1. x \in RebuildRecords /\ Rebuilding(x) /\ x.pc = "deleting"
    BY DEF RebuildInv, Delete
<1>2. rebuild' = [rebuild EXCEPT ![r] = y] /\ UNCHANGED <<log, rows>>
    BY DEF Delete
<1>3. /\ y \in RebuildRecords /\ y.pc = "selecting" /\ y.table = x.table /\ y.doomed = x.doomed
      /\ y.new = x.new
    BY <1>1 DEF RebuildRecords
<1> HIDE DEF y
<1>4. Rebuilding(y) /\ y.new = {}
    BY <1>1, <1>3 DEF Rebuilding
<1>5. ASSUME NEW q \in Rebuilders \ {r}, Past(rebuild[q]), rebuild[q].table = y.table
      PROVE  Apart(y, rebuild[q])
  <2>1. q \in Rivals(r)
      BY <1>3, <1>5 DEF Rivals, Past
  <2>2. rebuild[q].doomed \cap x.doomed = {}
      BY <2>1 DEF Delete
  <2> QED BY <2>2, <1>3, <1>4 DEF Apart
<1> QED BY <1>2, <1>3, <1>4, <1>5, GoesOn

LEMMA SelectKeeps ==
  ASSUME LogInv, CopyInv, RebuildInv, NEW r \in Rebuilders, Select(r)
  PROVE  RebuildInv'
<1> DEFINE x == rebuild[r]
           y == [x EXCEPT !.pc = "inserting", !.logs = log, !.todo = Missions]
<1>1. x \in RebuildRecords /\ Rebuilding(x) /\ x.pc = "selecting"
    BY DEF RebuildInv, Select
<1>2. rebuild' = [rebuild EXCEPT ![r] = y] /\ UNCHANGED <<log, rows>>
    BY DEF Select
<1>3. /\ y \in RebuildRecords /\ y.pc = "inserting" /\ y.table = x.table /\ y.doomed = x.doomed
      /\ y.new = x.new /\ y.logs = log /\ y.todo = Missions
    BY <1>1 DEF RebuildRecords, LogInv
<1>4. x.new = {} /\ x.doomed \subseteq rows[x.table] /\ x.table \in Tables
    BY <1>1 DEF Rebuilding, RebuildRecords
<1> HIDE DEF x, y
<1>5. Rebuilding(y)
  <2>1. \A k \in Missions : Uniform(log[k]) /\ Before(log[k], log[k])
      BY DEF LogInv, Before
  <2>2. ASSUME NEW z \in y.doomed PROVE z.seq <= Len(log[z.m])
    <3>1. z \in rows[x.table] /\ z \in Rows /\ Fits(x.table, z)
        BY <1>3, <1>4 DEF CopyInv
    <3> QED BY <3>1 DEF Fits, LogInv, Rows
  <2> QED BY <2>1, <2>2, <1>3, <1>4 DEF Rebuilding, Inserts, LogInv
<1>6. ASSUME NEW q \in Rebuilders \ {r}, Past(rebuild[q]), rebuild[q].table = y.table
      PROVE  Apart(y, rebuild[q])
  <2>1. Apart(x, rebuild[q])
      BY <1>1, <1>3, <1>6 DEF RebuildInv, Past, x
  <2> QED BY <2>1, <1>3 DEF Apart
<1> QED BY <1>2, <1>3, <1>5, <1>6, GoesOn

LEMMA InsertKeeps ==
  ASSUME LogInv, CopyInv, RebuildInv, NEW r \in Rebuilders, Insert(r)
  PROVE  RebuildInv'
<1> DEFINE x == rebuild[r]
           others == rows[x.table] \ x.doomed
<1>1. x \in RebuildRecords /\ Rebuilding(x) /\ x.pc = "inserting" /\ UNCHANGED <<log, rows>>
    BY DEF RebuildInv, Insert
<1>2. PICK m \in x.todo :
        LET new == Rebuilt(r, m) IN
        /\ Keys(new) \cap Undecided(r) = {}
        /\ rebuild' = IF Keys(new) \cap Keys(others) = {}
                      THEN [rebuild EXCEPT ![r].new = @ \cup new, ![r].todo = @ \ {m}]
                      ELSE [rebuild EXCEPT ![r] = IdleRebuild]
    BY DEF Insert
<1>3. x.table \in Tables /\ x.doomed \subseteq Rows /\ x.new \subseteq Rows /\ x.todo \subseteq Missions
    BY <1>1 DEF RebuildRecords
<1> DEFINE new == Rebuilt(r, m)
<1>4. Inserts(x) /\ m \in Missions
    BY <1>1, <1>2, <1>3 DEF Rebuilding
<1>5. /\ \A y \in new : /\ y \in Rows /\ y.m = m /\ y.seq \in DOMAIN x.logs[m]
                        /\ y.type = x.logs[m][y.seq].type /\ Links(x.table, y)
      /\ \A i \in DOMAIN x.logs[m] :
           x.table = "events" \/ x.logs[m][i].type = "provider"
             => \E y \in new : y.m = m /\ y.seq = i
  <2> DEFINE raw == x.logs[m]
             up == Deserialize(raw)
  <2>1. raw \in Seq(Raws) /\ Uniform(raw)
      BY <1>4 DEF Inserts
  <2>2. up \in Seq(Raws) /\ Len(up) = Len(raw) /\ Chain(up) /\ Before(raw, up)
      BY <2>1, Upcast
  <2>3. new = RowsAfter(x.table, m, up, 0)
      BY DEF Rebuilt
  <2> HIDE DEF up, raw, new
  <2>4. DOMAIN raw = 1..Len(raw) /\ (0 + 1)..Len(up) = 1..Len(raw)
        /\ \A i \in DOMAIN raw : raw[i].type = up[i].type
      BY <2>1, <2>2 DEF Before
  <2>5. \A y \in RowsAfter(x.table, m, up, 0) :
          /\ y \in Rows /\ y.m = m /\ y.seq \in (0 + 1)..Len(up)
          /\ y.type = up[y.seq].type /\ Links(x.table, y)
      BY <1>3, <1>4, <2>2, RowsAre
  <2>6. \A i \in (0 + 1)..Len(up) :
          x.table = "events" \/ up[i].type = "provider"
            => \E y \in RowsAfter(x.table, m, up, 0) : y.m = m /\ y.seq = i
      BY <1>3, <1>4, <2>2, RowsAre
  <2> QED BY <2>3, <2>4, <2>5, <2>6 DEF raw
<1>6. CASE Keys(new) \cap Keys(others) = {}
  <2> DEFINE y == [x EXCEPT !.new = x.new \cup new, !.todo = x.todo \ {m}]
  <2>1. rebuild' = [rebuild EXCEPT ![r] = y]
      BY <1>2, <1>6 DEF RebuildInv
  <2>2. new \subseteq Rows
      BY <1>5
  <2> HIDE DEF new
  <2>3. /\ y \in RebuildRecords /\ y.pc = "inserting" /\ y.table = x.table /\ y.doomed = x.doomed
        /\ y.new = x.new \cup new /\ y.logs = x.logs /\ y.todo = x.todo \ {m}
      BY <1>1, <1>3, <2>2 DEF RebuildRecords
  <2> HIDE DEF y
  <2>4. \A z \in new, o \in others : ~(z.m = o.m /\ z.seq = o.seq)
      BY <1>6, KeysApart
  <2>5. Inserts(y)
    <3>1. ASSUME NEW z \in y.new
          PROVE  /\ z.seq \in DOMAIN x.logs[z.m] /\ z.type = x.logs[z.m][z.seq].type
                 /\ Links(x.table, z)
        BY <1>4, <1>5, <2>3 DEF Inserts
    <3>2. ASSUME NEW k \in Missions \ y.todo, NEW i \in DOMAIN x.logs[k],
                 x.table = "events" \/ x.logs[k][i].type = "provider"
          PROVE  \E z \in y.new : z.m = k /\ z.seq = i
      <4>1. CASE k = m
          BY <4>1, <3>2, <1>5, <2>3
      <4>2. CASE k # m
        <5>1. k \in Missions \ x.todo
            BY <4>2, <3>2, <2>3
        <5>2. \E z \in x.new : z.m = k /\ z.seq = i
            BY <5>1, <3>2, <1>4, <2>3 DEF Inserts
        <5> QED BY <5>2, <2>3
      <4> QED BY <4>1, <4>2
    <3>3. \A z \in y.new, o \in rows[x.table] \ x.doomed : ~(z.m = o.m /\ z.seq = o.seq)
        BY <1>4, <2>3, <2>4 DEF Inserts
    <3> QED BY <1>4, <2>3, <3>1, <3>2, <3>3 DEF Inserts
  <2>6. Rebuilding(y)
      BY <1>1, <2>3, <2>5 DEF Rebuilding
  <2>7. ASSUME NEW q \in Rebuilders \ {r}, Past(rebuild[q]), rebuild[q].table = y.table
        PROVE  Apart(y, rebuild[q])
    <3>1. Apart(x, rebuild[q])
        BY <1>1, <2>3, <2>7 DEF RebuildInv, Past
    <3>2. q \in Rivals(r)
        BY <2>3, <2>7 DEF Rivals, Past
    <3> DEFINE theirs == UNION {rebuild[p].new \cup rebuild[p].doomed : p \in Rivals(r)}
    <3>3. rebuild[q].new \subseteq theirs
        BY <3>2
    <3>4. Keys(new) \cap Keys(theirs) = {}
        BY <1>2 DEF Undecided, new
    <3> HIDE DEF theirs
    <3>5. \A z \in new, o \in rebuild[q].new : ~(z.m = o.m /\ z.seq = o.seq)
        BY <3>3, <3>4, KeysApart
    <3> QED BY <3>1, <3>5, <2>3 DEF Apart
  <2> QED BY <1>1, <2>1, <2>3, <2>6, <2>7, GoesOn
<1>7. CASE Keys(new) \cap Keys(others) # {}
  <2>1. rebuild' = [rebuild EXCEPT ![r] = IdleRebuild]
      BY <1>2, <1>7
  <2>2. ~Past(IdleRebuild)
      BY IdleRebuildTypes DEF Past
  <2> QED BY <1>1, <2>1, <2>2, IdleRebuildTypes, GoesOn
<1> QED BY <1>6, <1>7

LEMMA CommitRebuildKeeps ==
  ASSUME LogInv, CopyInv, RebuildInv, NEW r \in Rebuilders, CommitRebuild(r)
  PROVE  CopyInv' /\ RebuildInv'
<1> DEFINE x == rebuild[r]
           T == x.table
<1>1. /\ x \in RebuildRecords /\ Inserts(x) /\ x.doomed \subseteq rows[T] /\ Past(x) /\ x.todo = {}
      /\ UNCHANGED <<log, outbox>> /\ rows \in [Tables -> SUBSET Rows]
  <2>1. x \in RebuildRecords /\ Rebuilding(x)
      BY DEF RebuildInv
  <2>2. x.pc = "inserting" /\ x.todo = {} /\ UNCHANGED <<log, outbox>>
      BY DEF CommitRebuild
  <2>3. rows \in [Tables -> SUBSET Rows]
      BY DEF CopyInv
  <2> QED BY <2>1, <2>2, <2>3 DEF Rebuilding, Past
<1>2. T \in Tables /\ x.new \subseteq Rows
    BY <1>1 DEF RebuildRecords
<1>3. rows' = [rows EXCEPT ![T] = (rows[T] \ x.doomed) \cup x.new]
    BY DEF CommitRebuild
<1>4. /\ rebuild' \in [Rebuilders -> RebuildRecords] /\ rebuild'[r] = IdleRebuild
      /\ \A q \in Rebuilders \ {r} :
           /\ rebuild'[q].pc = rebuild[q].pc /\ rebuild'[q].table = rebuild[q].table
           /\ rebuild'[q].logs = rebuild[q].logs /\ rebuild'[q].todo = rebuild[q].todo
           /\ rebuild'[q].new = rebuild[q].new
           /\ rebuild'[q].doomed = IF rebuild[q].table # T THEN rebuild[q].doomed
                                   ELSE rebuild[q].doomed \ x.doomed
  <2>1. rebuild' = [q \in Rebuilders |->
          IF q = r THEN IdleRebuild
          ELSE IF rebuild[q].table # T THEN rebuild[q]
          ELSE [rebuild[q] EXCEPT !.doomed = rebuild[q].doomed \ x.doomed]]
      BY DEF CommitRebuild
  <2> HIDE DEF x
  <2>2. ASSUME NEW q \in Rebuilders \ {r}
        PROVE  /\ rebuild'[q] \in RebuildRecords
               /\ rebuild'[q].pc = rebuild[q].pc /\ rebuild'[q].table = rebuild[q].table
               /\ rebuild'[q].logs = rebuild[q].logs /\ rebuild'[q].todo = rebuild[q].todo
               /\ rebuild'[q].new = rebuild[q].new
               /\ rebuild'[q].doomed = IF rebuild[q].table # T THEN rebuild[q].doomed
                                       ELSE rebuild[q].doomed \ x.doomed
    <3> DEFINE z == rebuild[q]
    <3>1. z \in RebuildRecords
        BY DEF RebuildInv
    <3>2. CASE z.table # T
        BY <2>1, <3>1, <3>2
    <3>3. CASE z.table = T
      <4>1. rebuild'[q] = [z EXCEPT !.doomed = z.doomed \ x.doomed]
          BY <2>1, <3>3
      <4> HIDE DEF z
      <4>2. z.doomed \ x.doomed \subseteq Rows
          BY <3>1 DEF RebuildRecords
      <4> QED BY <3>1, <3>3, <4>1, <4>2 DEF RebuildRecords, z
    <3> QED BY <3>2, <3>3
  <2>3. rebuild'[r] = IdleRebuild
      BY <2>1
  <2> QED BY <2>1, <2>2, <2>3, IdleRebuildTypes
<1> HIDE DEF x, T
<1>5. /\ rows'[T] = (rows[T] \ x.doomed) \cup x.new
      /\ \A t \in Tables \ {T} : rows'[t] = rows[t]
      /\ rows' \in [Tables -> SUBSET Rows]
    BY <1>1, <1>2, <1>3
<1>6. ASSUME NEW y \in x.new
      PROVE  /\ y \in Rows /\ y.m \in Missions /\ y.seq \in DOMAIN log[y.m]
             /\ y.type = log[y.m][y.seq].type /\ Links(T, y)
  <2>1. y \in Rows /\ y.m \in Missions
      BY <1>2 DEF Rows
  <2>2. y.seq \in DOMAIN x.logs[y.m] /\ y.type = x.logs[y.m][y.seq].type /\ Links(T, y)
      BY <1>1 DEF Inserts, T
  <2>3. Before(x.logs[y.m], log[y.m]) /\ x.logs[y.m] \in Seq(Raws) /\ log[y.m] \in Seq(Raws)
      BY <2>1, <1>1 DEF Inserts, LogInv
  <2> QED BY <2>1, <2>2, <2>3 DEF Before
<1>7. CopyInv'
  <2>1. ASSUME NEW t \in Tables, NEW y \in rows'[t] PROVE Fits(t, y)'
    <3>1. CASE y \in rows[t]
      <4>1. Fits(t, y)
          BY <3>1 DEF CopyInv
      <4> QED BY <4>1, <1>1 DEF Fits
    <3>2. CASE y \notin rows[t]
      <4>1. t = T /\ y \in x.new
          BY <3>2, <1>5
      <4> QED BY <4>1, <1>1, <1>6 DEF Fits
    <3> QED BY <3>1, <3>2
  <2>2. ASSUME NEW t \in Tables, NEW y \in rows'[t], NEW z \in rows'[t], y.m = z.m, y.seq = z.seq
        PROVE  y = z
    <3>1. CASE y \in rows[t] /\ z \in rows[t]
        BY <3>1, <2>2 DEF CopyInv
    <3>2. CASE t = T /\ y \in x.new /\ z \in x.new
        BY <3>2, <2>2, <1>2, <1>6, OneRow
    <3>3. CASE t = T /\ ((y \in x.new /\ z \in rows[T] \ x.doomed)
                           \/ (z \in x.new /\ y \in rows[T] \ x.doomed))
        BY <3>3, <2>2, <1>1 DEF Inserts, T
    <3> QED BY <3>1, <3>2, <3>3, <1>5
  <2>3. ASSUME NEW t \in Tables, NEW m \in Missions, NEW i \in DOMAIN log'[m],
               Appended(t, log'[m][i])
        PROVE  \E y \in rows'[t] : y.m = m /\ y.seq = i
    <3>1. \E y \in rows[t] : y.m = m /\ y.seq = i
        BY <2>3, <1>1 DEF CopyInv
    <3>2. CASE t # T
        BY <3>1, <3>2, <1>5
    <3>3. CASE t = T /\ i \in DOMAIN x.logs[m]
      <4>1. x.logs[m][i].type = log[m][i].type
        <5>1. Before(x.logs[m], log[m])
            BY <1>1 DEF Inserts
        <5> QED BY <5>1, <3>3 DEF Before
      <4>2. x.table = "events" \/ x.logs[m][i].type = "provider"
          BY <4>1, <3>3, <2>3, <1>1, <1>2 DEF Appended, Belongs, Tables, T
      <4>3. \E y \in x.new : y.m = m /\ y.seq = i
          BY <4>2, <3>3, <1>1 DEF Inserts
      <4> QED BY <4>3, <3>3, <1>5
    <3>4. CASE t = T /\ i \notin DOMAIN x.logs[m]
      <4>1. PICK y \in rows[T] : y.m = m /\ y.seq = i
          BY <3>1, <3>4
      <4>2. x.logs[m] \in Seq(Raws) /\ i \in Nat /\ i >= 1
          BY <1>1, <2>3 DEF Inserts, LogInv
      <4>3. y \notin x.doomed
          BY <4>1, <4>2, <3>4, <1>1 DEF Inserts
      <4> QED BY <4>1, <4>3, <3>4, <1>5
    <3> QED BY <3>2, <3>3, <3>4
  <2> QED BY <2>1, <2>2, <2>3, <1>1, <1>5 DEF CopyInv, Appended, Belongs
<1>8. RebuildInv'
  <2>1. ASSUME NEW q \in Rebuilders \ {r} PROVE Rebuilding(rebuild[q])'
    <3> DEFINE y == rebuild[q]
               z == rebuild'[q]
    <3>1. y \in RebuildRecords /\ Rebuilding(y) /\ y.table \in Tables
        BY DEF RebuildInv, RebuildRecords
    <3>2. /\ z.pc = y.pc /\ z.table = y.table /\ z.logs = y.logs /\ z.todo = y.todo /\ z.new = y.new
          /\ z.doomed = IF y.table # T THEN y.doomed ELSE y.doomed \ x.doomed
        BY <1>4
    <3> HIDE DEF y, z
    <3>3. z.doomed \subseteq rows'[z.table]
        BY <3>1, <3>2, <1>5 DEF Rebuilding
    <3>4. z.pc # "inserting" => z.new = {}
        BY <3>1, <3>2 DEF Rebuilding
    <3>5. ASSUME z.pc = "inserting"
          PROVE  /\ z.logs \in [Missions -> Seq(Raws)]
                 /\ \A m \in Missions : Uniform(z.logs[m]) /\ Before(z.logs[m], log'[m])
                 /\ \A i \in z.doomed : i.seq <= Len(z.logs[i.m])
                 /\ \A i \in z.new : /\ i.seq \in DOMAIN z.logs[i.m]
                                     /\ i.type = z.logs[i.m][i.seq].type /\ Links(z.table, i)
                 /\ \A m \in Missions \ z.todo : \A i \in DOMAIN z.logs[m] :
                      z.table = "events" \/ z.logs[m][i].type = "provider"
                        => \E j \in z.new : j.m = m /\ j.seq = i
                 /\ \A i \in z.new, j \in rows'[z.table] \ z.doomed : ~(i.m = j.m /\ i.seq = j.seq)
      <4>1. Inserts(y) /\ Past(y)
          BY <3>1, <3>2, <3>5 DEF Rebuilding, Past
      <4>2. ASSUME NEW i \in z.new, NEW j \in rows'[z.table] \ z.doomed
            PROVE  ~(i.m = j.m /\ i.seq = j.seq)
        <5>1. CASE y.table # T
            BY <5>1, <4>1, <3>1, <3>2, <1>5 DEF Inserts
        <5>2. CASE y.table = T
          <6>1. Apart(y, x)
              BY <5>2, <4>1, <1>1 DEF RebuildInv, x, y, T
          <6>2. CASE j \in x.new
              BY <6>1, <6>2, <3>2 DEF Apart
          <6>3. CASE j \notin x.new
            <7>1. j \in rows[y.table] \ y.doomed
                BY <6>3, <5>2, <3>2, <1>5
            <7> QED BY <7>1, <4>1, <3>2 DEF Inserts
          <6> QED BY <6>2, <6>3
        <5> QED BY <5>1, <5>2
      <4>3. \A i \in z.doomed : i.seq <= Len(z.logs[i.m])
          BY <4>1, <3>2 DEF Inserts
      <4> QED BY <4>1, <4>2, <4>3, <3>2, <1>1 DEF Inserts
    <3> QED BY <3>3, <3>4, <3>5 DEF Rebuilding, Inserts, z
  <2>2. Rebuilding(rebuild[r])'
      BY <1>4 DEF Rebuilding, IdleRebuild
  <2>3. ASSUME NEW p \in Rebuilders, NEW q \in Rebuilders, p # q, Past(rebuild'[p]),
               Past(rebuild'[q]), rebuild'[p].table = rebuild'[q].table
        PROVE  Apart(rebuild'[p], rebuild'[q])
    <3>1. p # r /\ q # r
        BY <2>3, <1>4, IdleRebuildTypes DEF Past
    <3>2. Past(rebuild[p]) /\ Past(rebuild[q]) /\ rebuild[p].table = rebuild[q].table
        BY <3>1, <2>3, <1>4 DEF Past
    <3>3. Apart(rebuild[p], rebuild[q])
        BY <3>2, <2>3 DEF RebuildInv
    <3>4. /\ rebuild'[p].new = rebuild[p].new /\ rebuild'[q].new = rebuild[q].new
          /\ rebuild'[p].doomed \subseteq rebuild[p].doomed
          /\ rebuild'[q].doomed \subseteq rebuild[q].doomed
        BY <3>1, <1>4
    <3> QED BY <3>3, <3>4 DEF Apart
  <2> QED BY <2>1, <2>2, <2>3, <1>4 DEF RebuildInv, Past, Apart
<1> QED BY <1>7, <1>8

-----------------------------------------------------------------------------
(* Readers                                                                   *)

LEMMA GreatestOf ==
  ASSUME NEW S \in SUBSET Nat, S # {}, NEW top \in Nat, \A i \in S : i <= top
  PROVE  \E i \in S : \A j \in S : j <= i
<1> DEFINE gaps == {top - i : i \in S}
<1>1. \A i \in S : top - i \in Nat
    OBVIOUS
<1>2. gaps \subseteq Nat /\ gaps # {}
    BY <1>1, Zenon
<1> HIDE DEF gaps
<1>3. PICK g \in gaps : \A h \in gaps : <<h, g>> \notin OpToRel(<, Nat)
    BY <1>2, WFMin, NatLessThanWellFounded, Zenon
<1>4. \A h \in gaps : ~(h < g)
    BY <1>2, <1>3, Zenon DEF OpToRel
<1>5. PICK i \in S : g = top - i
    BY <1>3 DEF gaps
<1>6. ASSUME NEW j \in S PROVE j <= i
  <2>1. top - j \in gaps
      BY DEF gaps
  <2> QED BY <2>1, <1>4, <1>5
<1> QED BY <1>6

\* A page has every event of its projection up to the sequence it ends with.
LEMMA PageIs ==
  ASSUME LogInv, CopyInv, NEW t \in Tables, NEW m \in Missions, NEW after \in Nat,
         after <= Len(log[m])
  PROVE  LET page == Page(t, m, after)
             last == Latest(page, m, after)
         IN
         /\ page \subseteq Nat /\ last \in Nat /\ last <= Len(log[m])
         /\ \A i \in (after + 1)..last : Appended(t, log[m][i]) => i \in page
<1> DEFINE later == {y.seq : y \in {z \in rows[t] : z.m = m /\ z.seq > after}}
           page == Page(t, m, after)
           last == Latest(page, m, after)
<1>1. log[m] \in Seq(Raws) /\ Len(log[m]) \in Nat /\ rows[t] \subseteq Rows
    BY DEF LogInv, CopyInv
<1>2. later \subseteq 1..Len(log[m])
  <2>1. ASSUME NEW y \in rows[t], y.m = m PROVE y.seq \in 1..Len(log[m])
      BY <2>1, <1>1 DEF CopyInv, Fits
  <2> QED BY <2>1
<1>3. page = {s \in later : Cardinality({x \in later : x < s}) < Limit}
    BY DEF Page
<1>4. page \subseteq Nat
    BY <1>2, <1>3
<1>5. CASE page = {}
  <2>1. last = after
      BY <1>5 DEF Latest
  <2> QED BY <2>1, <1>4
<1>6. CASE page # {}
  <2>1. \E s \in page : \A x \in page : x <= s
    <3>1. \A i \in page : i <= Len(log[m])
        BY <1>1, <1>2, <1>3
    <3> QED BY <3>1, <1>1, <1>4, <1>6, GreatestOf
  <2>2. last = CHOOSE s \in page : \A x \in page : x <= s
      BY <1>6 DEF Latest
  <2> HIDE DEF page, last, later
  <2>3. last \in page /\ last \in later
      BY <2>1, <2>2, <1>3
  <2>4. last \in Nat /\ last <= Len(log[m])
      BY <2>3, <1>1, <1>2
  <2>5. ASSUME NEW i \in (after + 1)..last, Appended(t, log[m][i]) PROVE i \in page
    <3>1. i \in DOMAIN log[m] /\ i \in Nat /\ i > after /\ i <= last
        BY <2>4, <1>1
    <3>2. PICK y \in rows[t] : y.m = m /\ y.seq = i
        BY <3>1, <2>5 DEF CopyInv
    <3>3. i \in later
        BY <3>1, <3>2 DEF later
    <3> DEFINE A == {x \in later : x < i}
               B == {x \in later : x < last}
    <3>4. A \subseteq B
      <4>1. ASSUME NEW x \in later, x < i PROVE x < last
        <5>1. x \in Nat
            BY <1>1, <1>2
        <5> QED BY <5>1, <4>1, <3>1, <2>4
      <4> QED BY <4>1
    <3>5. IsFiniteSet(B)
      <4>1. IsFiniteSet(1..Len(log[m]))
          BY <1>1, FS_Interval
      <4> QED BY <4>1, <1>2, FS_Subset
    <3>6. /\ Cardinality(A) <= Cardinality(B)
          /\ Cardinality(A) \in Nat /\ Cardinality(B) \in Nat
        BY <3>4, <3>5, FS_Subset, FS_CardinalityType
    <3>7. Cardinality(B) < Limit
        BY <2>3, <1>3
    <3>8. Cardinality(A) < Limit
        BY <3>6, <3>7, ConstantsAssumption
    <3> QED BY <3>3, <3>8, <1>3
  <2> QED BY <2>4, <2>5, <1>4 DEF last, page
<1> QED BY <1>5, <1>6

\* a reader's record with some of its fields replaced
Answering(x, page, last) ==
  [x EXCEPT !.pc = "idle", !.left = 0, !.got = x.got \cup page, !.after = last]

LEMMA Answers ==
  ASSUME NEW x \in ReaderRecords, NEW page \in SUBSET Nat, NEW last \in Nat
  PROVE  LET y == Answering(x, page, last) IN
         /\ y \in ReaderRecords /\ y.pc = "idle" /\ y.m = x.m /\ y.table = x.table
         /\ y.after = last /\ y.got = x.got \cup page
<1> DEFINE R1 == {"client", "admin"}
           R2 == {"idle", "waiting", "loaded"}
           R3 == SUBSET Nat
           R4 == 0..MaxWait
           R5 == Seq(Raws)
<1>1. ReaderRecords = [role : R1, pc : R2, m : Missions, table : Tables, after : Nat,
                       got : R3, left : R4, canon : R5]
    BY DEF ReaderRecords
<1>2. x.got \in R3
    BY <1>1
<1>3. "idle" \in R2 /\ 0 \in R4 /\ x.got \cup page \in R3
  <2>1. 0 \in R4
      BY ConstantsAssumption
  <2> QED BY <2>1, <1>2
<1> HIDE DEF R1, R2, R3, R4, R5
<1> QED BY <1>1, <1>3 DEF Answering

\* what is left to do when one reader's record changes
LEMMA ReadsOn ==
  ASSUME ReaderInv, UNCHANGED log, NEW c \in Readers, NEW y \in ReaderRecords,
         reader' = [reader EXCEPT ![c] = y], Reading(y)
  PROVE  ReaderInv'
<1>1. reader' \in [Readers -> ReaderRecords]
    BY DEF ReaderInv
<1>2. ASSUME NEW d \in Readers PROVE Reading(reader[d])'
  <2>1. reader'[d] = IF d = c THEN y ELSE reader[d]
      BY DEF ReaderInv
  <2>2. Reading(reader'[d])
      BY <2>1 DEF ReaderInv
  <2> QED BY <2>2 DEF Reading, Appended, Belongs
<1> QED BY <1>1, <1>2 DEF ReaderInv, ReaderRecords

LEMMA AnsweredKeeps ==
  ASSUME LogInv, CopyInv, ReaderInv, UNCHANGED log, NEW c \in Readers,
         Answered(c, Page(reader[c].table, reader[c].m, reader[c].after))
  PROVE  ReaderInv'
<1> DEFINE x == reader[c]
           page == Page(x.table, x.m, x.after)
           last == Latest(page, x.m, x.after)
           y == Answering(x, page, last)
<1>1. x \in ReaderRecords /\ Reading(x)
    BY DEF ReaderInv
<1>2. x.m \in Missions /\ x.table \in Tables /\ x.after \in Nat /\ x.got \subseteq Nat
    BY <1>1 DEF ReaderRecords
<1>3. reader' = [reader EXCEPT ![c] = y]
    BY Zenon DEF Answered, Answering
<1>4. x.after <= Len(log[x.m])
    BY <1>1 DEF Reading
<1>5. /\ page \subseteq Nat /\ last \in Nat /\ last <= Len(log[x.m])
      /\ \A i \in (x.after + 1)..last : Appended(x.table, log[x.m][i]) => i \in page
  <2> HIDE DEF x
  <2> QED BY <1>2, <1>4, PageIs
<1> HIDE DEF x, page, last
<1>6. /\ y \in ReaderRecords /\ y.pc = "idle" /\ y.m = x.m /\ y.table = x.table
      /\ y.after = last /\ y.got = x.got \cup page
  <2>1. page \in SUBSET Nat /\ last \in Nat /\ x \in ReaderRecords
      BY <1>1, <1>5
  <2> QED BY <2>1, Answers
<1> HIDE DEF y
<1>7. ASSUME NEW i \in 1..last, Appended(x.table, log[x.m][i]) PROVE i \in x.got \cup page
  <2>1. CASE i <= x.after
      BY <2>1, <1>1, <1>2, <1>7 DEF Reading
  <2>2. CASE i > x.after
      BY <2>2, <1>2, <1>5, <1>7
  <2> QED BY <2>1, <2>2, <1>2, <1>5
<1>8. Reading(y)
    BY <1>5, <1>6, <1>7 DEF Reading
<1> QED BY <1>3, <1>6, <1>8, ReadsOn

LEMMA PollKeeps ==
  ASSUME LogInv, CopyInv, ReaderInv, NEW c \in Readers, Poll(c) \/ Reread(c)
  PROVE  ReaderInv'
<1> DEFINE x == reader[c]
           page == Page(x.table, x.m, x.after)
           Waits(left) == [x EXCEPT !.pc = "waiting", !.left = left]
<1>1. x \in ReaderRecords /\ Reading(x) /\ x.left \in 0..MaxWait /\ UNCHANGED log
    BY DEF ReaderInv, ReaderRecords, Poll, Reread
<1>2. CASE Answered(c, page)
    BY <1>1, <1>2, AnsweredKeeps
<1>3. ASSUME NEW left \in 0..MaxWait, reader' = [reader EXCEPT ![c] = Waits(left)]
      PROVE  ReaderInv'
  <2> DEFINE y == Waits(left)
  <2> HIDE DEF x
  <2>1. /\ y \in ReaderRecords /\ y.pc = "waiting" /\ y.m = x.m /\ y.table = x.table
        /\ y.after = x.after /\ y.got = x.got
      BY <1>1 DEF ReaderRecords
  <2> HIDE DEF y
  <2>2. Reading(y)
      BY <1>1, <2>1 DEF Reading
  <2> QED BY <1>1, <1>3, <2>1, <2>2, ReadsOn DEF y
<1>4. Answered(c, page) \/ \E left \in 0..MaxWait : reader' = [reader EXCEPT ![c] = Waits(left)]
  <2>1. CASE Poll(c)
    <3>1. PICK wait \in 0..MaxWait :
            IF page # {} \/ wait = 0 THEN Answered(c, page)
            ELSE reader' = [reader EXCEPT ![c].pc = "waiting", ![c].left = wait]
        BY <2>1 DEF Poll
    <3>2. [reader EXCEPT ![c].pc = "waiting", ![c].left = wait] = [reader EXCEPT ![c] = Waits(wait)]
        BY DEF ReaderInv
    <3> QED BY <3>1, <3>2
  <2>2. CASE Reread(c)
    <3>1. x.pc = "waiting"
        BY <2>2 DEF Reread
    <3>2. PICK spent \in Spent(c) :
            IF page # {} \/ spent = x.left THEN Answered(c, page)
            ELSE reader' = [reader EXCEPT ![c].left = x.left - spent]
        BY <2>2 DEF Reread
    <3>3. x.left - spent \in 0..MaxWait
        BY <1>1, ConstantsAssumption DEF Spent
    <3>4. [reader EXCEPT ![c].left = x.left - spent] = [reader EXCEPT ![c] = Waits(x.left - spent)]
      <4>1. [x EXCEPT !.left = x.left - spent] = Waits(x.left - spent)
          BY <1>1, <3>1 DEF ReaderRecords
      <4> QED BY <4>1
    <3> QED BY <3>2, <3>3, <3>4
  <2> QED BY <2>1, <2>2
<1> QED BY <1>2, <1>3, <1>4

LEMMA VerifyKeeps ==
  ASSUME LogInv, ReaderInv, NEW v \in Readers, Verify(v) \/ Answer(v)
  PROVE  ReaderInv'
<1> DEFINE x == reader[v]
           Holds(pc, canon) == [x EXCEPT !.pc = pc, !.canon = canon]
<1>1. x \in ReaderRecords /\ Reading(x) /\ UNCHANGED log
    BY DEF ReaderInv, Verify, Answer
<1>2. x.m \in Missions
    BY <1>1 DEF ReaderRecords
<1>3. ASSUME NEW pc \in {"idle", "loaded"}, NEW canon \in Seq(Raws),
             reader' = [reader EXCEPT ![v] = Holds(pc, canon)],
             pc = "loaded" => Chain(canon) /\ Before(canon, log[x.m])
      PROVE  ReaderInv'
  <2> DEFINE y == Holds(pc, canon)
             R5 == Seq(Raws)
  <2>1. ReaderRecords = [role : {"client", "admin"}, pc : {"idle", "waiting", "loaded"},
                         m : Missions, table : Tables, after : Nat, got : SUBSET Nat,
                         left : 0..MaxWait, canon : R5] /\ canon \in R5
      BY DEF ReaderRecords
  <2> HIDE DEF x, R5
  <2>2. /\ y \in ReaderRecords /\ y.pc = pc /\ y.m = x.m /\ y.table = x.table
        /\ y.after = x.after /\ y.got = x.got /\ y.canon = canon
      BY <1>1, <2>1
  <2> HIDE DEF y
  <2>3. Reading(y)
      BY <1>1, <1>3, <2>2 DEF Reading
  <2> QED BY <1>1, <1>3, <2>2, <2>3, ReadsOn DEF y
<1>4. CASE Verify(v)
  <2>1. reader' = [reader EXCEPT ![v] = Holds("loaded", Deserialize(log[x.m]))]
      BY <1>4 DEF Verify, ReaderInv
  <2>2. log[x.m] \in Seq(Raws) /\ Uniform(log[x.m])
      BY <1>2 DEF LogInv
  <2>3. /\ Deserialize(log[x.m]) \in Seq(Raws) /\ Chain(Deserialize(log[x.m]))
        /\ Before(Deserialize(log[x.m]), log[x.m])
      BY <2>2, Upcast
  <2> QED BY <2>1, <2>3, <1>3
<1>5. CASE Answer(v)
  <2>1. reader' = [reader EXCEPT ![v] = Holds("idle", <<>>)]
      BY <1>5 DEF Answer, ReaderInv
  <2>2. <<>> \in Seq(Raws)
      OBVIOUS
  <2> QED BY <2>1, <2>2, <1>3
<1> QED BY <1>4, <1>5

-----------------------------------------------------------------------------
(* The invariant is inductive                                                *)

LEMMA Initially == Init => Inv
<1> SUFFICES ASSUME Init PROVE Inv
    OBVIOUS
<1>1. PICK old \in [Missions -> Legacy] :
        log = [m \in Missions |->
                 [i \in DOMAIN old[m] |-> [type |-> old[m][i], corr |-> Absent, cause |-> Absent]]]
    BY DEF Init
<1>2. ASSUME NEW m \in Missions
      PROVE  /\ log[m] \in Seq(Raws) /\ Bare(log[m]) /\ Len(log[m]) <= MaxEvents
             /\ \A i \in DOMAIN log[m] : log[m][i].type # "notify"
  <2> DEFINE o == old[m]
  <2>1. o \in Seq({"plain", "provider", "recovered"}) /\ Len(o) <= MaxEvents
      BY ConstantsAssumption
  <2>2. log[m] = [i \in DOMAIN o |-> [type |-> o[i], corr |-> Absent, cause |-> Absent]]
      BY <1>1
  <2> HIDE DEF o
  <2>3. ASSUME NEW i \in DOMAIN o
        PROVE  /\ log[m][i] \in Raws /\ log[m][i].corr = Absent /\ log[m][i].cause = Absent
               /\ log[m][i].type # "notify"
    <3>1. o[i] \in {"plain", "provider", "recovered"}
        BY <2>1
    <3> QED BY <3>1, <2>2 DEF Raws, Types
  <2>4. log[m] \in [1..Len(o) -> Raws] /\ DOMAIN log[m] = DOMAIN o
      BY <2>1, <2>2, <2>3
  <2>5. log[m] \in Seq(Raws) /\ Len(log[m]) = Len(o)
      BY <2>1, <2>4
  <2> QED BY <2>1, <2>3, <2>4, <2>5 DEF Bare
<1>3. LogInv
    BY <1>1, <1>2 DEF LogInv, Uniform
<1>4. rows = [t \in Tables |-> UNION {RowsAfter(t, m, log[m], 0) : m \in Missions}]
    BY DEF Init
<1>5. ASSUME NEW t \in Tables, NEW m \in Missions, NEW i \in DOMAIN log[m],
             t = "events" \/ log[m][i].type = "provider"
      PROVE  LET y == Row(t, m, i, log[m][i]) IN
             /\ y \in Rows /\ y.m = m /\ y.seq = i /\ y.type = log[m][i].type
             /\ y.corr = Absent /\ y.cause = Absent /\ y \in rows[t]
  <2>1. log[m][i] \in Raws /\ i \in Nat /\ i \in (0 + 1)..Len(log[m])
      BY <1>2
  <2>2. log[m][i].corr = Absent /\ log[m][i].cause = Absent /\ log[m][i].type \in Types
      BY <1>2, <2>1 DEF Bare, Raws
  <2>3. Row(t, m, i, log[m][i]) \in RowsAfter(t, m, log[m], 0)
      BY <1>5, <2>1 DEF RowsAfter
  <2> QED BY <2>1, <2>2, <2>3, <1>4 DEF Row, Rows
<1>6. ASSUME NEW t \in Tables, NEW y \in rows[t]
      PROVE  \E m \in Missions : \E i \in DOMAIN log[m] :
               /\ t = "events" \/ log[m][i].type = "provider"
               /\ y = Row(t, m, i, log[m][i])
  <2>1. PICK m \in Missions : y \in RowsAfter(t, m, log[m], 0)
      BY <1>4
  <2>2. PICK i \in (0 + 1)..Len(log[m]) : /\ t = "events" \/ log[m][i].type = "provider"
                                        /\ y = Row(t, m, i, log[m][i])
      BY <2>1 DEF RowsAfter
  <2>3. i \in DOMAIN log[m]
      BY <1>2
  <2> QED BY <2>2, <2>3
<1>7. CopyInv
  <2>1. rows \in [Tables -> SUBSET Rows]
    <3>1. \A t \in Tables : rows[t] \subseteq Rows
        BY <1>5, <1>6
    <3> QED BY <3>1, <1>4
  <2>2. ASSUME NEW t \in Tables, NEW y \in rows[t] PROVE Fits(t, y)
    <3>1. PICK m \in Missions : \E i \in DOMAIN log[m] :
            /\ t = "events" \/ log[m][i].type = "provider"
            /\ y = Row(t, m, i, log[m][i])
        BY <1>6
    <3>2. PICK i \in DOMAIN log[m] : /\ t = "events" \/ log[m][i].type = "provider"
                                     /\ y = Row(t, m, i, log[m][i])
        BY <3>1
    <3>3. /\ y.m = m /\ y.seq = i /\ y.type = log[m][i].type
          /\ y.corr = Absent /\ y.cause = Absent
        BY <3>2, <1>5
    <3> QED BY <3>2, <3>3 DEF Fits, Links
  <2>3. ASSUME NEW t \in Tables, NEW y \in rows[t], NEW z \in rows[t], y.m = z.m, y.seq = z.seq
        PROVE  y = z
    <3>1. PICK m \in Missions : \E i \in DOMAIN log[m] :
            /\ t = "events" \/ log[m][i].type = "provider"
            /\ y = Row(t, m, i, log[m][i])
        BY <1>6
    <3>2. PICK k \in Missions : \E i \in DOMAIN log[k] :
            /\ t = "events" \/ log[k][i].type = "provider"
            /\ z = Row(t, k, i, log[k][i])
        BY <1>6
    <3> QED BY <3>1, <3>2, <2>3 DEF Row
  <2>4. ASSUME NEW t \in Tables, NEW m \in Missions, NEW i \in DOMAIN log[m],
               Appended(t, log[m][i])
        PROVE  \E y \in rows[t] : y.m = m /\ y.seq = i
    <3>1. t = "events" \/ log[m][i].type = "provider"
        BY <2>4 DEF Appended, Belongs
    <3> QED BY <3>1, <1>5
  <2>5. outbox = {}
      BY DEF Init
  <2> QED BY <2>1, <2>2, <2>3, <2>4, <2>5, <1>2 DEF CopyInv
<1>8. WriterInv
  <2>1. writer = [w \in Writers |-> IdleWriter] /\ lock = [m \in Missions |-> None]
      BY DEF Init
  <2>2. \A w \in Writers : Writing(w)
      BY <2>1, IdleWriterTypes DEF Writing
  <2> QED BY <2>1, <2>2, IdleWriterTypes DEF WriterInv
<1>9. RebuildInv
  <2>1. rebuild = [r \in Rebuilders |-> IdleRebuild]
      BY DEF Init
  <2>2. Rebuilding(IdleRebuild) /\ ~Past(IdleRebuild)
      BY IdleRebuildTypes DEF Rebuilding, Past
  <2> QED BY <2>1, <2>2, IdleRebuildTypes DEF RebuildInv
<1>10. ReaderInv
  <2>1. ASSUME NEW c \in Readers PROVE reader[c] \in ReaderRecords /\ Reading(reader[c])
    <3>1. PICK role \in {"client", "admin"}, m \in Missions, t \in Tables :
            reader[c] = NewReader(role, m, t)
        BY DEF Init
    <3>2. <<>> \in Seq(Raws) /\ 0 \in 0..MaxWait
        BY ConstantsAssumption
    <3>3. /\ NewReader(role, m, t) \in ReaderRecords /\ NewReader(role, m, t).after = 0
          /\ NewReader(role, m, t).m = m /\ NewReader(role, m, t).pc = "idle"
        BY <3>2 DEF NewReader, ReaderRecords
    <3>4. log[m] \in Seq(Raws)
        BY <1>2
    <3> QED BY <3>1, <3>3, <3>4 DEF Reading
  <2>2. reader \in [Readers -> ReaderRecords]
      BY <2>1 DEF Init
  <2> QED BY <2>1, <2>2 DEF ReaderInv
<1> QED BY <1>3, <1>7, <1>8, <1>9, <1>10 DEF Inv

\* the parts of the invariant that a step does not touch
LEMMA LogStays == ASSUME LogInv, UNCHANGED log PROVE LogInv' /\ Grown
BY DEF LogInv, Uniform, Bare, Chain, Grown, Before

LEMMA CopyStays == ASSUME CopyInv, UNCHANGED <<log, rows, outbox>> PROVE CopyInv'
BY DEF CopyInv, Fits, Links, Appended, Belongs

LEMMA WriterStays ==
  ASSUME LogInv, WriterInv, UNCHANGED <<log, lock, writer>>
  PROVE  WriterInv'
<1>1. LogInv' /\ Grown
    BY LogStays
<1>2. \A w \in Writers : Writing(w)'
    BY <1>1, GrowsWriter
<1> QED BY <1>2 DEF WriterInv, WriterRecords

LEMMA RebuildStays == ASSUME RebuildInv, UNCHANGED <<log, rows, rebuild>> PROVE RebuildInv'
BY DEF RebuildInv, Rebuilding, Inserts, Past, Apart

LEMMA ReaderStays == ASSUME ReaderInv, UNCHANGED <<log, reader>> PROVE ReaderInv'
BY DEF ReaderInv, Reading, Appended, Belongs

\* No step breaks it, and each history only grows.
LEMMA Inductive == Inv /\ [Next]_vars => Inv' /\ Grown
<1> SUFFICES ASSUME Inv, [Next]_vars PROVE Inv' /\ Grown
    OBVIOUS
<1>1. LogInv /\ CopyInv /\ WriterInv /\ RebuildInv /\ ReaderInv
    BY DEF Inv
<1>2. ASSUME NEW w \in Writers, NEW m \in Missions, Load(w, m) PROVE Inv' /\ Grown
  <2>1. WriterInv'
      BY <1>1, <1>2, LoadKeeps
  <2>2. UNCHANGED <<log, rows, outbox, rebuild, reader>>
      BY <1>2 DEF Load
  <2> QED BY <2>1, <2>2, <1>1, LogStays, CopyStays, RebuildStays, ReaderStays DEF Inv
<1>3. ASSUME NEW w \in Writers, Update(w) PROVE Inv' /\ Grown
  <2>1. WriterInv'
      BY <1>1, <1>3, UpdateKeeps
  <2>2. UNCHANGED <<log, rows, outbox, rebuild, reader>>
      BY <1>3 DEF Update
  <2> QED BY <2>1, <2>2, <1>1, LogStays, CopyStays, RebuildStays, ReaderStays DEF Inv
<1>4. ASSUME NEW w \in Writers, Conflict(w) \/ Rollback(w) PROVE Inv' /\ Grown
  <2>1. UNCHANGED <<log, rows, outbox, rebuild, reader>> /\ Ended(w)
      BY <1>4 DEF Conflict, Rollback
  <2>2. LogInv' /\ Grown
      BY <2>1, <1>1, LogStays
  <2>3. WriterInv'
      BY <2>1, <2>2, <1>1, EndedKeeps
  <2> QED BY <2>1, <2>2, <2>3, <1>1, CopyStays, RebuildStays, ReaderStays DEF Inv
<1>5. ASSUME NEW w \in Writers, Commit(w) PROVE Inv' /\ Grown
    BY <1>5, CommitKeeps
<1>6. ASSUME NEW m \in Missions, Expire(m) \/ Recover(m) PROVE Inv' /\ Grown
    BY <1>6, WorkerKeeps
<1>7. ASSUME NEW r \in Rebuilders,
             (\E table \in Tables : StartDelete(r, table)) \/ Delete(r) \/ Select(r) \/ Insert(r)
      PROVE  Inv' /\ Grown
  <2>1. RebuildInv'
      BY <1>1, <1>7, StartDeleteKeeps, DeleteKeeps, SelectKeeps, InsertKeeps
  <2>2. UNCHANGED <<log, rows, outbox, lock, writer, reader>>
      BY <1>7 DEF StartDelete, Delete, Select, Insert
  <2> QED BY <2>1, <2>2, <1>1, LogStays, CopyStays, WriterStays, ReaderStays DEF Inv
<1>8. ASSUME NEW r \in Rebuilders, CommitRebuild(r) PROVE Inv' /\ Grown
  <2>1. CopyInv' /\ RebuildInv'
      BY <1>1, <1>8, CommitRebuildKeeps
  <2>2. UNCHANGED <<log, lock, writer, reader>>
      BY <1>8 DEF CommitRebuild
  <2> QED BY <2>1, <2>2, <1>1, LogStays, WriterStays, ReaderStays DEF Inv
<1>9. ASSUME NEW c \in Readers, ClientStep(c) \/ Verify(c) \/ Answer(c) PROVE Inv' /\ Grown
  <2>1. ReaderInv'
      BY <1>1, <1>9, PollKeeps, VerifyKeeps DEF ClientStep
  <2>2. UNCHANGED <<log, rows, outbox, lock, writer, rebuild>>
      BY <1>9 DEF ClientStep, Poll, Reread, Verify, Answer
  <2> QED BY <2>1, <2>2, <1>1, LogStays, CopyStays, WriterStays, RebuildStays DEF Inv
<1>10. CASE UNCHANGED vars
  <2>1. UNCHANGED <<log, rows, outbox, lock, writer, rebuild, reader>>
      BY <1>10 DEF vars
  <2> QED BY <2>1, <1>1, LogStays, CopyStays, WriterStays, RebuildStays, ReaderStays DEF Inv
<1> QED
    BY <1>2, <1>3, <1>4, <1>5, <1>6, <1>7, <1>8, <1>9, <1>10 DEF Next

LEMMA Always == FairSpec => []Inv
BY Initially, Inductive, PTL DEF FairSpec

-----------------------------------------------------------------------------
(* The theorems                                                              *)

\* Every state of the model is well typed: rows of both schemas, logs read back and
\* written anew, cursors and waits of clients within their bounds.
THEOREM TypeCorrect == FairSpec => []TypeOK
<1>1. Inv => TypeOK
  <2> SUFFICES ASSUME Inv PROVE TypeOK
      OBVIOUS
  <2>1. /\ log \in [Missions -> Seq(Raws)] /\ outbox \subseteq Missions \X Nat
        /\ rows \in [Tables -> SUBSET Rows] /\ lock \in [Missions -> Writers \cup {None}]
      BY DEF Inv, LogInv, CopyInv, WriterInv
  <2>2. ASSUME NEW w \in Writers
        PROVE  /\ writer[w].pc \in {"idle", "loaded", "updated"}
               /\ writer[w].events \in Seq(Raws) /\ writer[w].base \in Nat
      BY DEF Inv, WriterInv, WriterRecords
  <2>3. ASSUME NEW r \in Rebuilders
        PROVE  /\ rebuild[r].pc \in {"idle", "deleting", "selecting", "inserting"}
               /\ rebuild[r].doomed \cup rebuild[r].new \subseteq Rows
      BY DEF Inv, RebuildInv, RebuildRecords
  <2>4. ASSUME NEW c \in Readers
        PROVE  /\ reader[c].pc \in {"idle", "waiting", "loaded"}
               /\ reader[c].left \in 0..MaxWait /\ reader[c].after \in 0..MaxEvents
    <3> DEFINE x == reader[c]
    <3>1. x \in ReaderRecords /\ x.after <= Len(log[x.m])
        BY DEF Inv, ReaderInv, Reading
    <3>2. x.m \in Missions /\ x.after \in Nat /\ x.pc \in {"idle", "waiting", "loaded"}
          /\ x.left \in 0..MaxWait
        BY <3>1 DEF ReaderRecords
    <3>3. Len(log[x.m]) <= MaxEvents /\ Len(log[x.m]) \in Nat
        BY <3>2 DEF Inv, LogInv
    <3> QED BY <3>1, <3>2, <3>3, ConstantsAssumption
  <2> QED BY <2>1, <2>2, <2>3, <2>4 DEF TypeOK
<1> QED BY <1>1, Always, PTL

\* what a log says when it is read, and what a committed row says of it
LEMMA Reads ==
  ASSUME LogInv, NEW m \in Missions, NEW i \in DOMAIN log[m]
  PROVE  /\ Events(m)[i].type = log[m][i].type /\ Events(m)[i].corr = 1
         /\ Events(m)[i].cause = i - 1
<1>1. log[m] \in Seq(Raws) /\ Uniform(log[m])
    BY DEF LogInv
<1>2. Events(m)[i] = [type |-> log[m][i].type, corr |-> 1, cause |-> i - 1]
    BY <1>1, Upcast DEF Events
<1> QED BY <1>2

LEMMA RowSays ==
  ASSUME LogInv, CopyInv, NEW t \in Tables, NEW r \in rows[t]
  PROVE  LET as == Row(t, r.m, r.seq, Events(r.m)[r.seq]) IN
         r.seq \in DOMAIN log[r.m] /\ r \in {as, [as EXCEPT !.corr = Absent, !.cause = Absent]}
<1> DEFINE e == Events(r.m)[r.seq]
           as == Row(t, r.m, r.seq, e)
<1>1. r \in Rows /\ r.m \in Missions /\ r.seq \in DOMAIN log[r.m] /\ Fits(t, r)
    BY DEF CopyInv, Fits, Rows
<1>2. e.type = r.type /\ e.corr = 1 /\ e.cause = r.seq - 1
    BY <1>1, Reads DEF Fits
<1> HIDE DEF e
<1>3. as = [m |-> r.m, seq |-> r.seq, type |-> r.type,
            corr |-> IF t = "events" THEN 1 ELSE Absent,
            cause |-> IF t = "events" THEN r.seq - 1 ELSE Absent]
    BY <1>2 DEF Row
<1>4. r = [m |-> r.m, seq |-> r.seq, type |-> r.type, corr |-> r.corr, cause |-> r.cause]
    BY <1>1 DEF Rows
<1>5. CASE Links(t, r)
  <2>1. r = as
      BY <1>3, <1>4, <1>5 DEF Links
  <2> QED BY <2>1, <1>1 DEF e
<1>6. CASE r.corr = Absent /\ r.cause = Absent
  <2> DEFINE bare == [as EXCEPT !.corr = Absent, !.cause = Absent]
  <2>1. as \in Rows /\ as.m = r.m /\ as.seq = r.seq /\ as.type = r.type
    <3>1. r.seq - 1 \in Nat /\ 1 \in Nat
        BY <1>1 DEF LogInv
    <3> HIDE DEF as
    <3> QED BY <1>1, <1>3, <3>1 DEF Rows
  <2> HIDE DEF as
  <2>2. /\ bare \in Rows /\ bare.m = r.m /\ bare.seq = r.seq /\ bare.type = r.type
        /\ bare.corr = Absent /\ bare.cause = Absent
      BY <2>1 DEF Rows
  <2> HIDE DEF bare
  <2>3. r = bare
      BY <1>1, <1>6, <2>2 DEF Rows
  <2> QED BY <2>3, <1>1 DEF bare, as, e
<1> QED BY <1>1, <1>5, <1>6 DEF Fits

\* The log of a Mission, the rows of both projections and the notices tell the same
\* history in every state, for any interleaving of requests, workers and rebuilds
\* (SqlAlchemyMissionRepository.update, expire_due, recover_stale_processing, the
\* rebuild commands).
THEOREM CopiesOfOneHistory == FairSpec => []CopiesAgree
<1>1. Inv => CopiesAgree
  <2> SUFFICES ASSUME Inv PROVE CopiesAgree
      OBVIOUS
  <2>1. LogInv /\ CopyInv
      BY DEF Inv
  <2>2. ASSUME NEW t \in Tables, NEW r \in rows[t]
        PROVE  Cardinality({x \in rows[t] : Key(x) = Key(r)}) = 1
    <3>1. {x \in rows[t] : Key(x) = Key(r)} = {r}
        BY <2>1 DEF CopyInv, Key
    <3> QED BY <3>1, FS_Singleton
  <2>3. ASSUME NEW m \in Missions, NEW i \in DOMAIN log[m]
        PROVE  /\ \A t \in Tables : Appended(t, log[m][i]) => <<m, i>> \in Keys(rows[t])
               /\ log[m][i].type = "notify" <=> <<m, i>> \in outbox
    <3>1. i \in Nat
        BY <2>1 DEF LogInv
    <3> QED BY <3>1, <2>1 DEF CopyInv, Keys, Key
  <2>4. ASSUME NEW t \in Tables, NEW r \in rows[t]
        PROVE  /\ r.seq \in DOMAIN log[r.m]
               /\ r \in {Row(t, r.m, r.seq, Events(r.m)[r.seq]),
                         [Row(t, r.m, r.seq, Events(r.m)[r.seq]) EXCEPT !.corr = Absent,
                                                                       !.cause = Absent]}
      BY <2>1, RowSays
  <2> QED BY <2>2, <2>3, <2>4 DEF CopiesAgree
<1> QED BY <1>1, Always, PTL

\* A history read back is one chain, whichever schema it was written in and whoever
\* appended to it (the upcasters, record_event).
THEOREM OneThreadEver == FairSpec => []OneThread
<1>1. Inv => OneThread
    BY Reads DEF Inv, OneThread
<1> QED BY <1>1, Always, PTL

\* No step changes or takes away an event that could be read before it.
THEOREM HistoryIsNeverRewritten == FairSpec => HistoryIsStable
<1>1. ASSUME Inv, [Next]_vars
      PROVE  \A m \in Missions : \A i \in DOMAIN log[m] :
               i \in DOMAIN log'[m] /\ Events(m)'[i] = Events(m)[i]
  <2> SUFFICES ASSUME NEW m \in Missions, NEW i \in DOMAIN log[m]
               PROVE  i \in DOMAIN log'[m] /\ Events(m)'[i] = Events(m)[i]
      OBVIOUS
  <2>1. LogInv /\ LogInv' /\ Grown
      BY <1>1, Inductive DEF Inv
  <2> DEFINE a == log[m]
             b == log'[m]
  <2>2. /\ a \in Seq(Raws) /\ Uniform(a) /\ b \in Seq(Raws) /\ Before(a, b) /\ i \in DOMAIN a
      BY <2>1 DEF LogInv, Grown
  <2>3. Uniform(b)
      BY <2>1 DEF LogInv, Uniform, Bare, Chain
  <2>4. Events(m) = Deserialize(a) /\ Events(m)' = Deserialize(b)
      BY DEF Events, Deserialize, Thread
  <2> HIDE DEF a, b
  <2>5. i \in DOMAIN b /\ a[i].type = b[i].type
      BY <2>2 DEF Before
  <2>6. Deserialize(a)[i] = [type |-> a[i].type, corr |-> 1, cause |-> i - 1]
      BY <2>2, Upcast
  <2>7. Deserialize(b)[i] = [type |-> b[i].type, corr |-> 1, cause |-> i - 1]
      BY <2>2, <2>3, <2>5, Upcast
  <2> QED BY <2>4, <2>5, <2>6, <2>7 DEF b
<1>2. Inv /\ [Next]_vars =>
        [\A m \in Missions : \A i \in DOMAIN log[m] :
           i \in DOMAIN log'[m] /\ Events(m)'[i] = Events(m)[i]]_log
    BY <1>1
<1> QED BY <1>2, Always, PTL DEF FairSpec, HistoryIsStable

\* A client that pages or polls from latest_sequence misses nothing but claim_recovered
\* (list_after, list_since, the long poll's rereads).
THEOREM NothingSkipped == FairSpec => []PagesAreComplete
<1>1. Inv => PagesAreComplete
    BY DEF Inv, ReaderInv, Reading, PagesAreComplete, Appended
<1> QED BY <1>1, Always, PTL

\* What an administrator is told of a projection is so, although writers commit
\* between the read of the Mission and the read of its rows.
THEOREM VerificationsAreHonest == FairSpec => []VerificationIsHonest
<1>1. ASSUME Inv, NEW v \in Readers, reader[v].pc = "loaded"
      PROVE  LET canon == reader[v].canon
                 events == IF reader[v].table = "events" THEN rows["events"] ELSE {}
                 old == {r.seq : r \in {x \in events : x.m = reader[v].m /\ x.corr = Absent}}
             IN
             /\ \A i \in Comparison(v).missing : canon[i].type = "recovered"
             /\ \A i \in Comparison(v).unexpected : i > Len(canon)
             /\ Comparison(v).different \subseteq old
  <2> DEFINE t == reader[v].table
             m == reader[v].m
             canon == reader[v].canon
             mine == {x \in rows[t] : x.m = m}
             projected == {ReadAlone(t, r) : r \in mine}
             expected == Canonical(v)
             Seqs(rs) == {r.seq : r \in rs}
             events == IF t = "events" THEN rows["events"] ELSE {}
             old == {r.seq : r \in {x \in events : x.m = m /\ x.corr = Absent}}
  <2>1. /\ t \in Tables /\ m \in Missions /\ canon \in Seq(Raws)
        /\ Chain(canon) /\ Before(canon, log[m]) /\ log[m] \in Seq(Raws)
    <3>1. reader[v] \in ReaderRecords /\ Reading(reader[v])
        BY <1>1 DEF Inv, ReaderInv
    <3>2. t \in Tables /\ m \in Missions /\ canon \in Seq(Raws)
        BY <3>1 DEF ReaderRecords
    <3>3. Chain(canon) /\ Before(canon, log[m])
        BY <3>1, <1>1 DEF Reading
    <3>4. log[m] \in Seq(Raws)
        BY <3>2, <1>1 DEF Inv, LogInv
    <3> QED BY <3>2, <3>3, <3>4
  <2>2. expected = RowsAfter(t, m, canon, 0)
      BY DEF Canonical
  <2>3. /\ Comparison(v).missing = Seqs(expected) \ Seqs(projected)
        /\ Comparison(v).unexpected = Seqs(projected) \ Seqs(expected)
        /\ Comparison(v).different
             = (Seqs(expected) \cap Seqs(projected)) \ Seqs(expected \cap projected)
      BY Zenon DEF Comparison
  <2> HIDE DEF t, m, canon, expected
  <2>4. /\ \A y \in expected : /\ y \in Rows /\ y.m = m /\ y.seq \in 1..Len(canon)
                               /\ y.type = canon[y.seq].type /\ Links(t, y)
        /\ \A i \in 1..Len(canon) : t = "events" \/ canon[i].type = "provider"
             => \E y \in expected : y.m = m /\ y.seq = i
    <3>1. \A y \in RowsAfter(t, m, canon, 0) :
            /\ y \in Rows /\ y.m = m /\ y.seq \in (0 + 1)..Len(canon)
            /\ y.type = canon[y.seq].type /\ Links(t, y)
        BY <2>1, RowsAre
    <3>2. \A i \in (0 + 1)..Len(canon) : t = "events" \/ canon[i].type = "provider"
            => \E y \in RowsAfter(t, m, canon, 0) : y.m = m /\ y.seq = i
        BY <2>1, RowsAre
    <3> QED BY <3>1, <3>2, <2>2
  <2>5. ASSUME NEW y \in mine
        PROVE  /\ y \in Rows /\ y.seq \in DOMAIN log[m] /\ y.type = log[m][y.seq].type
               /\ t = "provider" => y.type = "provider"
               /\ y.corr = Absent \/ Links(t, y)
    <3>1. y \in Rows /\ y.m = m /\ Fits(t, y)
        BY <1>1, <2>1 DEF Inv, CopyInv
    <3> QED BY <3>1, <2>1 DEF Fits, Links, Tables
  <2>6. ASSUME NEW y \in mine PROVE ReadAlone(t, y).seq = y.seq
      BY <2>5 DEF ReadAlone, Rows
  <2>7. Seqs(projected) = {y.seq : y \in mine}
    <3>1. ASSUME NEW i \in Seqs(projected) PROVE \E y \in mine : i = y.seq
        BY <3>1, <2>6
    <3>2. ASSUME NEW y \in mine PROVE y.seq \in Seqs(projected)
        BY <3>2, <2>6
    <3> QED BY <3>1, <3>2
  <2> HIDE DEF projected
  <2>8. ASSUME NEW i \in Seqs(expected) \ Seqs(projected) PROVE canon[i].type = "recovered"
    <3>1. PICK y \in expected : y.seq = i
        BY <2>8
    <3>2. i \in 1..Len(canon) /\ i \in DOMAIN log[m] /\ log[m][i].type = canon[i].type
          /\ (t = "provider" => canon[i].type = "provider")
        BY <3>1, <2>1, <2>4 DEF Before, Links
    <3>3. ~Appended(t, log[m][i])
      <4>1. ASSUME Appended(t, log[m][i]) PROVE FALSE
        <5>1. \E z \in rows[t] : z.m = m /\ z.seq = i
            BY <4>1, <3>2, <2>1, <1>1 DEF Inv, CopyInv
        <5> QED BY <5>1, <2>7, <2>8
      <4> QED BY <4>1
    <3> QED BY <3>2, <3>3, <2>1 DEF Appended, Belongs, Tables
  <2>9. ASSUME NEW i \in Seqs(projected) \ Seqs(expected) PROVE i > Len(canon)
    <3>1. PICK y \in mine : y.seq = i
        BY <2>7, <2>9
    <3>2. i \in Nat /\ i >= 1 /\ Len(canon) \in Nat
        BY <3>1, <2>1, <2>5
    <3>3. ~(i <= Len(canon))
      <4>1. ASSUME i <= Len(canon) PROVE FALSE
        <5>1. i \in 1..Len(canon) /\ canon[i].type = y.type
            BY <4>1, <3>1, <3>2, <2>1, <2>5 DEF Before
        <5>2. t = "events" \/ canon[i].type = "provider"
            BY <5>1, <2>1, <2>5 DEF Tables
        <5> QED BY <5>1, <5>2, <2>4, <2>9
      <4> QED BY <4>1
    <3> QED BY <3>2, <3>3
  <2>10. ASSUME NEW i \in (Seqs(expected) \cap Seqs(projected)) \ Seqs(expected \cap projected)
         PROVE  i \in old
    <3>1. PICK y \in mine : y.seq = i
        BY <2>7, <2>10
    <3>2. PICK z \in expected : z.seq = i
        BY <2>10
    <3>3. /\ y \in Rows /\ z \in Rows /\ y.m = z.m /\ y.seq = z.seq /\ y.type = z.type
          /\ Links(t, z)
      <4>1. y.type = log[m][i].type /\ z.type = canon[i].type /\ i \in 1..Len(canon)
            /\ y \in Rows /\ z \in Rows /\ z.m = m /\ y.m = m /\ Links(t, z)
          BY <3>1, <3>2, <2>4, <2>5
      <4> QED BY <4>1, <3>1, <3>2, <2>1 DEF Before
    <3>4. ~Links(t, y)
      <4>1. ASSUME Links(t, y) PROVE FALSE
        <5>1. y = z
            BY <4>1, <3>3, <2>1, OneRow
        <5>2. ReadAlone(t, y) = y
            BY <4>1, <2>1 DEF Links, ReadAlone, Absent, Tables
        <5>3. y \in projected
            BY <5>2, <3>1 DEF projected
        <5> QED BY <5>1, <5>3, <3>1, <2>10
      <4> QED BY <4>1
    <3>5. t = "events" /\ y.corr = Absent
      <4>1. Fits(t, y)
          BY <1>1, <2>1 DEF Inv, CopyInv
      <4> QED BY <4>1, <3>4 DEF Fits
    <3> QED BY <3>1, <3>5
  <2> QED BY <2>3, <2>8, <2>9, <2>10 DEF t, m, canon
<1>2. Inv => VerificationIsHonest
    BY <1>1, Zenon DEF VerificationIsHonest
<1> QED BY <1>2, Always, PTL

\* A rebuild that commits leaves no event without its row: those in the logs it
\* selected, and those that requests and workers have projected meanwhile.
THEOREM RebuildsRepair == FairSpec => RebuildRepairs
<1> DEFINE Repairs ==
        \A r \in Rebuilders :
          rebuild[r].pc = "inserting" /\ rebuild'[r].pc = "idle" /\ rows' # rows =>
            \A m \in Missions : \A i \in DOMAIN log[m] :
              LET t == rebuild[r].table IN
              (i <= Len(rebuild[r].logs[m]) /\ Belongs(t, log[m][i]))
                \/ Appended(t, log[m][i])
              => <<m, i>> \in Keys(rows'[t])
<1>1. ASSUME Inv, Next, NEW r \in Rebuilders, rebuild[r].pc = "inserting",
             rebuild'[r].pc = "idle", rows' # rows
      PROVE  CommitRebuild(r)
  <2>1. rebuild \in [Rebuilders -> RebuildRecords] /\ rebuild' # rebuild
      BY <1>1 DEF Inv, RebuildInv
  <2>2. PICK q \in Rebuilders : CommitRebuild(q)
    <3>1. ASSUME NEW q \in Rebuilders,
                 (\E table \in Tables : StartDelete(q, table)) \/ Delete(q) \/ Select(q) \/ Insert(q)
          PROVE  FALSE
        BY <3>1, <1>1 DEF StartDelete, Delete, Select, Insert
    <3>2. ASSUME NEW w \in Writers,
                 (\E m \in Missions : Load(w, m)) \/ Update(w) \/ Conflict(w) \/ Rollback(w)
                   \/ Commit(w)
          PROVE  FALSE
        BY <3>2, <2>1 DEF Load, Update, Conflict, Rollback, Commit
    <3>3. ASSUME NEW m \in Missions, Expire(m) \/ Recover(m) PROVE FALSE
        BY <3>3, <2>1 DEF Expire, Recover
    <3>4. ASSUME NEW c \in Readers, ClientStep(c) \/ Verify(c) \/ Answer(c) PROVE FALSE
        BY <3>4, <2>1 DEF ClientStep, Poll, Reread, Verify, Answer
    <3> QED BY <3>1, <3>2, <3>3, <3>4, <1>1 DEF Next
  <2>3. CASE q # r
    <3>1. rebuild'[r].pc = rebuild[r].pc
        BY <2>2, <2>3, <2>1 DEF CommitRebuild, RebuildRecords
    <3> QED BY <3>1, <1>1
  <2> QED BY <2>2, <2>3
<1>2. ASSUME Inv, NEW r \in Rebuilders, CommitRebuild(r), NEW m \in Missions, NEW i \in DOMAIN log[m]
      PROVE  LET t == rebuild[r].table IN
             (i <= Len(rebuild[r].logs[m]) /\ Belongs(t, log[m][i]))
               \/ Appended(t, log[m][i])
             => <<m, i>> \in Keys(rows'[t])
  <2> DEFINE x == rebuild[r]
             t == x.table
  <2>1. /\ x \in RebuildRecords /\ Inserts(x) /\ x.todo = {}
        /\ rows' = [rows EXCEPT ![t] = (rows[t] \ x.doomed) \cup x.new]
        /\ rows \in [Tables -> SUBSET Rows] /\ log \in [Missions -> Seq(Raws)] /\ UNCHANGED log
      BY <1>2 DEF CommitRebuild, Inv, LogInv, CopyInv, RebuildInv, Rebuilding
  <2>2. t \in Tables /\ rows'[t] = (rows[t] \ x.doomed) \cup x.new
    <3>1. t \in Tables
        BY <2>1 DEF RebuildRecords
    <3> QED BY <3>1, <2>1
  <2>3. CopyInv'
      BY <1>2, CommitRebuildKeeps DEF Inv
  <2> HIDE DEF x
  <2>4. CASE Appended(t, log[m][i])
    <3>1. \E y \in rows'[t] : y.m = m /\ y.seq = i
      <4>1. i \in DOMAIN log'[m] /\ log'[m][i] = log[m][i]
          BY <2>1, <1>2
      <4> QED BY <4>1, <2>2, <2>3, <2>4 DEF CopyInv, Appended, Belongs
    <3> QED BY <3>1, <2>4 DEF Keys, Key, x
  <2>5. CASE i <= Len(x.logs[m]) /\ Belongs(t, log[m][i])
    <3>1. x.logs[m] \in Seq(Raws) /\ Before(x.logs[m], log[m]) /\ i \in Nat /\ i >= 1
        BY <2>1, <1>2 DEF Inserts
    <3>2. i \in DOMAIN x.logs[m] /\ x.logs[m][i].type = log[m][i].type
        BY <3>1, <2>5 DEF Before
    <3>3. \E y \in x.new : y.m = m /\ y.seq = i
        BY <3>2, <2>1, <2>5 DEF Inserts, Belongs
    <3> QED BY <3>3, <2>2 DEF Keys, Key, x
  <2> QED BY <2>4, <2>5 DEF x
<1>3. ASSUME Inv, [Next]_vars PROVE Repairs
  <2> SUFFICES ASSUME NEW r \in Rebuilders, rebuild[r].pc = "inserting",
                      rebuild'[r].pc = "idle", rows' # rows
               PROVE  \A m \in Missions : \A i \in DOMAIN log[m] :
                        LET t == rebuild[r].table IN
                        (i <= Len(rebuild[r].logs[m])
                           /\ Belongs(t, log[m][i]))
                          \/ Appended(t, log[m][i])
                        => <<m, i>> \in Keys(rows'[t])
      BY Zenon
  <2>1. Next
      BY <1>3 DEF vars
  <2>2. CommitRebuild(r)
      BY <2>1, <1>1, <1>3
  <2> QED BY <2>2, <1>2, <1>3
<1>4. Inv /\ [Next]_vars => [Repairs]_vars
    BY <1>3
<1> QED BY <1>4, Always, PTL DEF FairSpec, RebuildRepairs
=============================================================================
