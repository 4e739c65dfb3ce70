----------------------- MODULE NotificationOutboxProofs -----------------------
(* The outbox implements NotificationDelivery, for any number of messages   *)
(* and dispatchers, however they crash, lose claims or wait for locks.      *)
EXTENDS NotificationOutbox, FiniteSetTheorems, TLAPS

RowType == [status : Statuses, attempts : Nat, ripe : BOOLEAN]
DispType == [pc : {"idle", "claim", "deliver", "delivered", "failed", "refused", "done"},
             todo : SUBSET (Messages \X Nat),
             m : Messages \cup {NoMessage}, tries : Nat]

Settling == {"delivered", "failed", "refused"}

\* What makes mark_delivered right although it asks for no claim: a dispatcher
\* that is about to settle a message has one, and is about to settle it as
\* delivered only after it was handed over or waived.  Facts are never lost.
HandedOver ==
  \A d \in Dispatchers :
    /\ disp[d].pc \in Settling => disp[d].m \in Messages
    /\ disp[d].pc = "delivered" => known[disp[d].m] \cap {"sent", "waived"} # {}

\* Only published messages are ever claimed, and none is unpublished.
ClaimedArePublished ==
  \A d \in Dispatchers : \A t \in disp[d].todo : row[t[1]].status # "none"

OutboxInv == TypeOK /\ HandedOver

-----------------------------------------------------------------------------
\* A batch statement takes rows of the status it asks for (repository queries).
LEMMA BatchRows ==
  ASSUME NEW s, NEW S \in Batches(s)
  PROVE  S \subseteq Messages /\ \A m \in S : row[m].status = s
BY DEF Batches

\* Off and Done are local states.
LEMMA OffType == Off \in DispType /\ Done \in DispType
BY DEF Off, Done, DispType

\* A cycle that ends leaves its dispatcher at rest.
LEMMA StopKeeps ==
  ASSUME OutboxInv, NEW d \in Dispatchers, Stop(d)
  PROVE  /\ disp' \in [Dispatchers -> DispType]
         /\ held' \in [Dispatchers -> SUBSET Messages]
         /\ \A e \in Dispatchers : disp'[e] = disp[e] \/ disp'[e].pc \notin Settling
BY OffType DEF OutboxInv, TypeOK, Stop, Commit, Off, Done, DispType, Settling

\* A dispatcher that goes on to its next message settles nothing.
LEMMA ContinueKeeps ==
  ASSUME OutboxInv, NEW d \in Dispatchers, Continue(d)
  PROVE  /\ disp' \in [Dispatchers -> DispType]
         /\ \A e \in Dispatchers : disp'[e] = disp[e] \/ disp'[e].pc \notin Settling
BY DEF OutboxInv, TypeOK, Continue, Off, DispType, Settling

\* A step that settles nothing new and forgets no fact keeps HandedOver.
LEMMA HandedOverKept ==
  ASSUME OutboxInv, known' = known,
         \A e \in Dispatchers : disp'[e] = disp[e] \/ disp'[e].pc \notin Settling
  PROVE  HandedOver'
BY DEF OutboxInv, HandedOver, Settling

\* A statement on one row writes a row.
LEMMA PutType ==
  ASSUME TypeOK, NEW m \in Messages, NEW s \in Statuses, NEW n \in Nat, NEW r \in BOOLEAN,
         Put(m, s, n, r)
  PROVE  row' \in [Messages -> RowType]
BY DEF TypeOK, Put, RowType

-----------------------------------------------------------------------------
\* The invariant holds at the start.
LEMMA InitInv == Init => OutboxInv
BY DEF Init, OutboxInv, TypeOK, HandedOver, Off, Statuses, Facts, Settling

\* Every step keeps the invariant.
LEMMA NextInv == OutboxInv /\ [Next]_vars => OutboxInv'
<1> SUFFICES ASSUME OutboxInv, [Next]_vars PROVE OutboxInv'
    OBVIOUS
<1> USE DEF RowType, DispType
<1>1. ASSUME NEW m \in Messages, Publish(m) PROVE OutboxInv'
  <2>1. row' \in [Messages -> RowType]
      BY <1>1, PutType DEF Publish, OutboxInv, Statuses
  <2> QED BY <1>1, <2>1, HandedOverKept DEF Publish, OutboxInv, TypeOK
<1>2. ASSUME NEW m \in Messages, Requeue(m) PROVE OutboxInv'
  <2>1. row' \in [Messages -> RowType]
      BY <1>2, PutType DEF Requeue, OutboxInv, Statuses
  <2> QED BY <1>2, <2>1, HandedOverKept DEF Requeue, OutboxInv, TypeOK
<1>3. ASSUME NEW m \in Messages, TimePasses(m) PROVE OutboxInv'
  <2>1. row' \in [Messages -> RowType]
      BY <1>3, ZenonT(60) DEF TimePasses, OutboxInv, TypeOK
  <2> QED BY <1>3, <2>1, HandedOverKept DEF TimePasses, OutboxInv, TypeOK
<1>4. ASSUME NEW S, S \subseteq Messages, Returned(S)
      PROVE  row' \in [Messages -> RowType]
    BY <1>4, ZenonT(60) DEF Returned, OutboxInv, TypeOK, Statuses
<1>5. CASE AdminRecover
  <2>1. row' \in [Messages -> RowType]
      BY <1>4, <1>5, BatchRows DEF AdminRecover
  <2> QED BY <1>5, <2>1, HandedOverKept DEF AdminRecover, OutboxInv, TypeOK
<1>6. CASE Prune
  <2>1. PICK S : row' = [m \in Messages |->
            IF m \in S THEN [row[m] EXCEPT !.status = "pruned", !.ripe = FALSE] ELSE row[m]]
      BY <1>6 DEF Prune
  <2>2. \A m \in Messages : row[m] \in RowType
      BY DEF OutboxInv, TypeOK
  <2>3. \A m \in Messages :
          [row[m] EXCEPT !.status = "pruned", !.ripe = FALSE] \in RowType
      BY <2>2 DEF Statuses
  <2>4. row' \in [Messages -> RowType]
      BY <2>1, <2>2, <2>3, Zenon
  <2> QED BY <1>6, <2>4, HandedOverKept DEF Prune, OutboxInv, TypeOK
<1>7. ASSUME NEW d \in Dispatchers, Recover(d) PROVE OutboxInv'
  <2>1. row' \in [Messages -> RowType]
      BY <1>4, <1>7, BatchRows DEF Recover
  <2>2. disp' \in [Dispatchers -> DispType]
      BY <1>7, OffType DEF Recover, OutboxInv, TypeOK, Off
  <2>3. \A e \in Dispatchers : disp'[e] = disp[e] \/ disp'[e].pc \notin Settling
      BY <1>7 DEF Recover, OutboxInv, TypeOK, Off, Settling
  <2> QED BY <1>7, <2>1, <2>2, <2>3, HandedOverKept DEF Recover, OutboxInv, TypeOK
<1>8. ASSUME NEW d \in Dispatchers, Dispatch(d) PROVE OutboxInv'
  <2>2. disp' \in [Dispatchers -> DispType]
      BY <1>8, OffType DEF Dispatch, OutboxInv, TypeOK, Off
  <2>3. \A e \in Dispatchers : disp'[e] = disp[e] \/ disp'[e].pc \notin Settling
      BY <1>8 DEF Dispatch, OutboxInv, TypeOK, Off, Settling
  <2> QED BY <1>8, <2>2, <2>3, HandedOverKept DEF Dispatch, OutboxInv, TypeOK
<1>9. ASSUME NEW d \in Dispatchers, Claim(d) PROVE OutboxInv'
  <2>1. PICK S \in Batches("pending") :
          /\ row' = [m \in Messages |->
               IF m \in S THEN [status |-> "processing", attempts |-> row[m].attempts + 1,
                                ripe |-> FALSE]
               ELSE row[m]]
          /\ disp' = [disp EXCEPT ![d] = [Off EXCEPT !.pc = "deliver",
               !.todo = {<<m, row[m].attempts + 1>> : m \in S}]]
      BY <1>9 DEF Claim
  <2>2. S \subseteq Messages
      BY BatchRows
  <2>3. \A m \in Messages : row[m].attempts + 1 \in Nat
      BY DEF OutboxInv, TypeOK
  <2>4. row' \in [Messages -> RowType]
      BY <2>1, <2>3 DEF OutboxInv, TypeOK, Statuses
  <2>5. {<<m, row[m].attempts + 1>> : m \in S} \in SUBSET (Messages \X Nat)
      BY <2>2, <2>3
  <2>6. disp' \in [Dispatchers -> DispType]
      BY <2>1, <2>5 DEF OutboxInv, TypeOK, Off
  <2>7. \A e \in Dispatchers : disp'[e] = disp[e] \/ disp'[e].pc \notin Settling
      BY <2>1 DEF OutboxInv, TypeOK, Off, Settling
  <2> QED BY <1>9, <2>4, <2>6, <2>7, HandedOverKept DEF Claim, OutboxInv, TypeOK
<1>10. ASSUME NEW d \in Dispatchers, Deliver(d) PROVE OutboxInv'
  <2>1. PICK t \in disp[d].todo, o \in Outcomes :
          /\ known' = [known EXCEPT ![t[1]] = known[t[1]] \cup o.fact]
          /\ disp' = [disp EXCEPT ![d] = [pc |-> o.pc, todo |-> disp[d].todo \ {t},
                                          m |-> t[1], tries |-> t[2]]]
      BY <1>10 DEF Deliver
  <2>2. t \in Messages \X Nat /\ t[1] \in Messages /\ t[2] \in Nat
      BY DEF OutboxInv, TypeOK
  <2>3. /\ o.pc \in Settling
        /\ o.fact \subseteq Facts
        /\ o.pc = "delivered" => o.fact \cap {"sent", "waived"} # {}
      BY DEF Outcomes, Settling, Facts
  <2>4. known' \in [Messages -> SUBSET Facts]
      BY <2>1, <2>2, <2>3 DEF OutboxInv, TypeOK
  <2>5. disp' \in [Dispatchers -> DispType]
      BY <2>1, <2>2, <2>3 DEF OutboxInv, TypeOK, Settling
  <2>6. \A m \in Messages : known[m] \subseteq known'[m]
      BY <2>1, <2>2 DEF OutboxInv, TypeOK
  <2>7. HandedOver'
    <3> SUFFICES ASSUME NEW e \in Dispatchers
                 PROVE  /\ disp'[e].pc \in Settling => disp'[e].m \in Messages
                        /\ disp'[e].pc = "delivered" =>
                             known'[disp'[e].m] \cap {"sent", "waived"} # {}
        BY DEF HandedOver
    <3>1. CASE e = d
        BY <3>1, <2>1, <2>2, <2>3 DEF OutboxInv, TypeOK
    <3>2. CASE e # d
      <4>1. disp'[e] = disp[e]
          BY <3>2, <2>1 DEF OutboxInv, TypeOK
      <4> QED BY <4>1, <2>6 DEF OutboxInv, HandedOver, Settling
    <3> QED BY <3>1, <3>2
  <2> QED BY <1>10, <2>4, <2>5, <2>7 DEF Deliver, OutboxInv, TypeOK
<1>11. ASSUME NEW d \in Dispatchers, MarkDelivered(d) PROVE OutboxInv'
  <2>1. disp[d].m \in Messages
      BY <1>11 DEF MarkDelivered, OutboxInv, HandedOver, Settling
  <2>2. row' \in [Messages -> RowType]
      BY <1>11, <2>1, PutType DEF MarkDelivered, OutboxInv, TypeOK, Statuses
  <2>3. held' \in [Dispatchers -> SUBSET Messages]
      BY <1>11 DEF MarkDelivered, Commit, OutboxInv, TypeOK
  <2> QED BY <1>11, <2>2, <2>3, ContinueKeeps, HandedOverKept
          DEF MarkDelivered, OutboxInv, TypeOK
<1>12. ASSUME NEW d \in Dispatchers, MarkDeliveryFailed(d) PROVE OutboxInv'
  <2>1. disp[d].m \in Messages
      BY <1>12 DEF MarkDeliveryFailed, OutboxInv, HandedOver, Settling
  <2>2. row' \in [Messages -> RowType]
      BY <1>12, <2>1, PutType DEF MarkDeliveryFailed, OutboxInv, TypeOK, Statuses
  <2>3. held' \in [Dispatchers -> SUBSET Messages]
    <3>1. held[d] \cup ({disp[d].m} \ {r \in Messages : row[r].status = "pruned"})
            \in SUBSET Messages
        BY <2>1 DEF OutboxInv, TypeOK
    <3> QED BY <1>12, <3>1 DEF MarkDeliveryFailed, Commit, OutboxInv, TypeOK
  <2> QED BY <1>12, <2>2, <2>3, ContinueKeeps, HandedOverKept
          DEF MarkDeliveryFailed, OutboxInv, TypeOK
<1>13. ASSUME NEW d \in Dispatchers, Stop(d), UNCHANGED <<row, known>> PROVE OutboxInv'
    BY <1>13, StopKeeps, HandedOverKept DEF OutboxInv, TypeOK
<1>14. CASE UNCHANGED vars
    BY <1>14 DEF vars, OutboxInv, TypeOK, HandedOver
<1> QED
    BY <1>1, <1>2, <1>3, <1>5, <1>6, <1>7, <1>8, <1>9, <1>10, <1>11, <1>12, <1>13, <1>14
    DEF Next, CycleStep, EndCycle, Crash, DeadlockVictim

\* No step unpublishes a message (rows are only ever written with another status).
LEMMA StaysPublished ==
  ASSUME OutboxInv, [Next]_vars, NEW m \in Messages, row[m].status # "none"
  PROVE  row'[m].status # "none"
<1> USE DEF OutboxInv, TypeOK
<1>1. ASSUME NEW x \in Messages, Publish(x) \/ Requeue(x) \/ TimePasses(x)
      PROVE  row'[m].status # "none"
  <2>1. CASE Publish(x) \/ Requeue(x)
    <3>1. PICK n, r : Put(x, "pending", n, r)
        BY <2>1 DEF Publish, Requeue
    <3> QED BY <3>1 DEF Put
  <2>2. CASE TimePasses(x)
      BY <2>2 DEF TimePasses
  <2> QED BY <1>1, <2>1, <2>2
<1>2. ASSUME NEW S, Returned(S) PROVE row'[m].status # "none"
    BY <1>2, ZenonT(60) DEF Returned
<1>3. CASE Prune
  <2>1. PICK S : row' = [x \in Messages |->
            IF x \in S THEN [row[x] EXCEPT !.status = "pruned", !.ripe = FALSE] ELSE row[x]]
      BY <1>3 DEF Prune
  <2>2. row'[m] = IF m \in S THEN [row[m] EXCEPT !.status = "pruned", !.ripe = FALSE] ELSE row[m]
      BY <2>1
  <2> QED BY <2>2
<1>4. ASSUME NEW d \in Dispatchers, Claim(d) PROVE row'[m].status # "none"
    BY <1>4 DEF Claim
<1>5. ASSUME NEW d \in Dispatchers, MarkDelivered(d) \/ MarkDeliveryFailed(d)
      PROVE  row'[m].status # "none"
    BY <1>5 DEF MarkDelivered, MarkDeliveryFailed, Put
<1>6. CASE UNCHANGED row
    BY <1>6
<1> QED
    BY <1>1, <1>2, <1>3, <1>4, <1>5, <1>6
    DEF Next, CycleStep, AdminRecover, Recover, Dispatch, Deliver, EndCycle, Crash,
        DeadlockVictim, vars

\* A dispatcher only gains messages by claiming them.
LEMMA TodoGrowsByClaim ==
  ASSUME OutboxInv, [Next]_vars, NEW d \in Dispatchers, NEW t \in disp'[d].todo
  PROVE  t \in disp[d].todo \/ (t[1] \in Messages /\ row'[t[1]].status # "none")
<1> USE DEF OutboxInv, TypeOK
<1>1. ASSUME NEW e \in Dispatchers, Recover(e) \/ Dispatch(e) \/ Stop(e) \/ Continue(e)
      PROVE  t \in disp[d].todo
  <2>1. CASE d # e
      BY <1>1, <2>1 DEF Recover, Dispatch, Stop, Continue
  <2>2. CASE d = e
    <3>1. disp'[d].todo = {} \/ disp'[d].todo = disp[d].todo
      <4>1. CASE Recover(e) \/ Dispatch(e)
          BY <2>2, <4>1 DEF Recover, Dispatch, Off
      <4>2. CASE Stop(e)
          BY <2>2, <4>2 DEF Stop, Off, Done
      <4>3. CASE Continue(e)
          BY <2>2, <4>3 DEF Continue, Off
      <4> QED BY <1>1, <4>1, <4>2, <4>3
    <3> QED BY <3>1
  <2> QED BY <2>1, <2>2
<1>2. ASSUME NEW e \in Dispatchers, Deliver(e) PROVE t \in disp[d].todo
    BY <1>2 DEF Deliver
<1>3. ASSUME NEW e \in Dispatchers, Claim(e)
      PROVE  t \in disp[d].todo \/ (t[1] \in Messages /\ row'[t[1]].status # "none")
  <2>1. PICK S \in Batches("pending") :
          /\ row' = [m \in Messages |->
               IF m \in S THEN [status |-> "processing", attempts |-> row[m].attempts + 1,
                                ripe |-> FALSE]
               ELSE row[m]]
          /\ disp' = [disp EXCEPT ![e] = [Off EXCEPT !.pc = "deliver",
               !.todo = {<<m, row[m].attempts + 1>> : m \in S}]]
      BY <1>3 DEF Claim
  <2>2. CASE d # e
      BY <2>1, <2>2
  <2>3. CASE d = e
    <3>1. disp'[d].todo = {<<m, row[m].attempts + 1>> : m \in S}
        BY <2>1, <2>3 DEF Off
    <3>2. PICK m \in S : t = <<m, row[m].attempts + 1>>
        BY <3>1
    <3>3. m \in Messages /\ t[1] = m
        BY <3>2, BatchRows
    <3> QED BY <2>1, <3>2, <3>3
  <2> QED BY <2>2, <2>3
<1>4. CASE UNCHANGED disp
    BY <1>4
<1> QED
    BY <1>1, <1>2, <1>3, <1>4
    DEF Next, CycleStep, Publish, Requeue, TimePasses, AdminRecover, Prune,
        MarkDelivered, MarkDeliveryFailed, EndCycle, Crash, DeadlockVictim, vars

\* What is claimed was published.
LEMMA NextPublished ==
  OutboxInv /\ ClaimedArePublished /\ [Next]_vars => ClaimedArePublished'
<1> SUFFICES ASSUME OutboxInv, ClaimedArePublished, [Next]_vars,
                    NEW d \in Dispatchers, NEW t \in disp'[d].todo
             PROVE  row'[t[1]].status # "none"
    BY DEF ClaimedArePublished
<1>1. CASE t \in disp[d].todo
  <2>1. t[1] \in Messages /\ row[t[1]].status # "none"
      BY <1>1 DEF OutboxInv, TypeOK, ClaimedArePublished
  <2> QED BY <2>1, StaysPublished
<1> QED BY <1>1, TodoGrowsByClaim

LEMMA InitPublished == Init => ClaimedArePublished
BY DEF Init, ClaimedArePublished, Off

\* Every variable of the outbox keeps its type, for any messages, dispatchers
\* and limits: in particular a row only ever has a status of the enumeration.
THEOREM OutboxTypeCorrect == Spec => []TypeOK
<1>1. OutboxInv => TypeOK
    BY DEF OutboxInv
<1> QED BY InitInv, NextInv, <1>1, PTL DEF Spec

-----------------------------------------------------------------------------
(* Refinement                                                               *)

\* The outbox starts as an empty mailbox.
LEMMA InitDelivery == Init => Delivery!Init
BY DEF Init, Delivery!Init, Phase, PhaseOf

\* A statement on one row changes the phase of that message only.
LEMMA PutPhase ==
  ASSUME TypeOK, NEW m \in Messages, NEW s, NEW n, NEW r, Put(m, s, n, r)
  PROVE  Phase' = [Phase EXCEPT ![m] = PhaseOf([status |-> s, attempts |-> n, ripe |-> r])]
<1>1. row' = [x \in Messages |-> IF x = m THEN [status |-> s, attempts |-> n, ripe |-> r]
                                ELSE row[x]]
    BY DEF TypeOK, Put
<1> QED BY <1>1 DEF Phase

\* A step that keeps the phase of every row and what is known is a stutter.
LEMMA SamePhase ==
  ASSUME \A m \in Messages : PhaseOf(row'[m]) = PhaseOf(row[m]), known' = known
  PROVE  UNCHANGED <<Phase, known>>
BY DEF Phase

\* Every step of the outbox is a step of NotificationDelivery or a stutter.
LEMMA StepDelivery ==
  OutboxInv /\ ClaimedArePublished /\ [Next]_vars => [Delivery!Next]_<<Phase, known>>
<1> SUFFICES ASSUME OutboxInv, ClaimedArePublished, [Next]_vars
             PROVE  Delivery!Next \/ UNCHANGED <<Phase, known>>
    OBVIOUS
<1>0. /\ TypeOK
      /\ \A m \in Messages : Phase[m] = PhaseOf(row[m])
    BY DEF OutboxInv, Phase
<1>1. ASSUME NEW m \in Messages, Publish(m) PROVE Delivery!Next
  <2>1. Delivery!Publish(m)
      BY <1>0, <1>1, PutPhase DEF Publish, Delivery!Publish, PhaseOf
  <2> QED BY <2>1 DEF Delivery!Next
<1>2. ASSUME NEW m \in Messages, Requeue(m) PROVE Delivery!Next
  <2>1. Delivery!Requeue(m)
      BY <1>0, <1>2, PutPhase DEF Requeue, Delivery!Requeue, PhaseOf
  <2> QED BY <2>1 DEF Delivery!Next
<1>3. ASSUME NEW m \in Messages, TimePasses(m) PROVE UNCHANGED <<Phase, known>>
    BY <1>0, <1>3, SamePhase DEF TimePasses, TypeOK, PhaseOf
<1>4. ASSUME NEW S \in Batches("processing"), Returned(S), known' = known
      PROVE  UNCHANGED <<Phase, known>>
  <2>1. \A m \in Messages : row'[m] =
          IF m \in S THEN [row[m] EXCEPT !.status = "pending", !.ripe = TRUE] ELSE row[m]
      BY <1>4 DEF Returned
  <2>2. \A m \in S : row[m].status = "processing"
      BY BatchRows
  <2>3. \A m \in Messages : row'[m].status = IF m \in S THEN "pending" ELSE row[m].status
      BY <1>0, <2>1, ZenonT(60) DEF TypeOK
  <2>4. \A m \in Messages : PhaseOf(row'[m]) = PhaseOf(row[m])
      BY <2>2, <2>3 DEF PhaseOf
  <2> QED BY <1>4, <2>4, SamePhase
<1>5. CASE AdminRecover
    BY <1>4, <1>5 DEF AdminRecover
<1>6. ASSUME NEW d \in Dispatchers, Recover(d) PROVE UNCHANGED <<Phase, known>>
    BY <1>4, <1>6 DEF Recover
<1>7. CASE Prune
  <2>1. PICK S \in Batches("delivered") : row' = [m \in Messages |->
            IF m \in S THEN [row[m] EXCEPT !.status = "pruned", !.ripe = FALSE] ELSE row[m]]
      BY <1>7 DEF Prune
  <2>2. S \in SUBSET Messages /\ \A m \in S : row[m].status = "delivered"
      BY BatchRows
  <2>3. \A m \in Messages : PhaseOf(row'[m]) = IF m \in S THEN "pruned" ELSE Phase[m]
    <3> SUFFICES ASSUME NEW m \in Messages
                 PROVE  PhaseOf(row'[m]) = IF m \in S THEN "pruned" ELSE Phase[m]
        OBVIOUS
    <3>1. CASE m \in S
      <4>1. row'[m].status = "pruned"
          BY <1>0, <2>1, <3>1 DEF TypeOK
      <4> QED BY <3>1, <4>1 DEF PhaseOf
    <3>2. CASE m \notin S
      <4>1. row'[m] = row[m]
          BY <2>1, <3>2
      <4> QED BY <1>0, <3>2, <4>1
    <3> QED BY <3>1, <3>2
  <2>4. Phase' = [m \in Messages |-> IF m \in S THEN "pruned" ELSE Phase[m]]
    <3>1. Phase' = [m \in Messages |-> PhaseOf(row'[m])]
        BY DEF Phase
    <3>2. [m \in Messages |-> PhaseOf(row'[m])]
            = [m \in Messages |-> IF m \in S THEN "pruned" ELSE Phase[m]]
        BY <2>3, Zenon
    <3> QED BY <3>1, <3>2
  <2>5. \A m \in S : Phase[m] = "delivered"
      BY <1>0, <2>2 DEF PhaseOf
  <2>6. Delivery!Prune(S)
      BY <1>7, <2>4, <2>5 DEF Prune, Delivery!Prune
  <2> QED BY <2>2, <2>6 DEF Delivery!Next
<1>8. ASSUME NEW d \in Dispatchers, Claim(d) PROVE UNCHANGED <<Phase, known>>
  <2>1. PICK S \in Batches("pending") : row' = [m \in Messages |->
            IF m \in S THEN [status |-> "processing", attempts |-> row[m].attempts + 1,
                             ripe |-> FALSE]
            ELSE row[m]]
      BY <1>8 DEF Claim
  <2>2. \A m \in S : row[m].status = "pending"
      BY BatchRows
  <2>3. \A m \in Messages : PhaseOf(row'[m]) = PhaseOf(row[m])
      BY <2>1, <2>2 DEF PhaseOf
  <2> QED BY <1>8, <2>3, SamePhase DEF Claim
<1>9. ASSUME NEW d \in Dispatchers, Deliver(d)
      PROVE  Delivery!Next \/ UNCHANGED <<Phase, known>>
  <2>1. PICK t \in disp[d].todo, o \in Outcomes :
          known' = [known EXCEPT ![t[1]] = known[t[1]] \cup o.fact]
      BY <1>9 DEF Deliver
  <2>2. t[1] \in Messages /\ row[t[1]].status # "none"
      BY <1>0 DEF TypeOK, ClaimedArePublished
  <2>3. Phase[t[1]] # "none"
      BY <1>0, <2>2 DEF PhaseOf
  <2>4. Phase' = Phase
      BY <1>9 DEF Deliver, Phase
  <2>5. CASE o.fact = {}
      BY <1>0, <2>1, <2>2, <2>4, <2>5 DEF TypeOK
  <2>6. CASE o.fact # {}
    <3>1. PICK f \in Delivery!Facts : o.fact = {f}
        BY <2>6 DEF Outcomes, Delivery!Facts
    <3>2. Delivery!Attempt(t[1])
        BY <2>1, <2>3, <2>4, <3>1 DEF Delivery!Attempt
    <3> QED BY <2>2, <3>2 DEF Delivery!Next
  <2> QED BY <2>5, <2>6
<1>10. ASSUME NEW d \in Dispatchers, MarkDelivered(d)
       PROVE  Delivery!Next \/ UNCHANGED <<Phase, known>>
  <2> DEFINE m == disp[d].m
  <2>0. disp[d].pc = "delivered"
      BY <1>10 DEF MarkDelivered
  <2>1. m \in Messages /\ known[m] \cap {"sent", "waived"} # {}
      BY <2>0 DEF OutboxInv, HandedOver, Settling
  <2>2. CASE row[m].status = "processing"
    <3>1. Put(m, "delivered", row[m].attempts, FALSE) /\ known' = known
        BY <1>10, <2>2 DEF MarkDelivered
    <3>2. Phase[m] = "queued" /\ Phase' = [Phase EXCEPT ![m] = "delivered"]
      <4>1. Phase[m] = "queued"
          BY <1>0, <2>1, <2>2 DEF PhaseOf
      <4>2. PhaseOf([status |-> "delivered", attempts |-> row[m].attempts, ripe |-> FALSE]) = "delivered"
          BY DEF PhaseOf
      <4>3. Phase' = [Phase EXCEPT ![m] =
              PhaseOf([status |-> "delivered", attempts |-> row[m].attempts, ripe |-> FALSE])]
        <5>1. TypeOK
            BY DEF OutboxInv
        <5> HIDE DEF m
        <5> QED BY <2>1, <3>1, <5>1, PutPhase
      <4> QED BY <4>1, <4>2, <4>3
    <3>3. Delivery!Settle(m)
        BY <2>1, <3>1, <3>2 DEF Delivery!Settle
    <3> QED BY <2>1, <3>3 DEF Delivery!Next
  <2>3. CASE row[m].status # "processing"
    <3>1. row' = row /\ known' = known
        BY <1>10, <2>3 DEF MarkDelivered
    <3> QED BY <3>1, SamePhase
  <2> QED BY <2>2, <2>3
<1>11. ASSUME NEW d \in Dispatchers, MarkDeliveryFailed(d)
       PROVE  Delivery!Next \/ UNCHANGED <<Phase, known>>
  <2> DEFINE m == disp[d].m
  <2>0. disp[d].pc \in {"failed", "refused"} /\ known' = known
      BY <1>11 DEF MarkDeliveryFailed
  <2>1. m \in Messages /\ known' = known
      BY <2>0 DEF OutboxInv, HandedOver, Settling
  <2>2. CASE row[m].status = "processing" /\ Exhausted(d)
    <3>1. Put(m, "failed", row[m].attempts, FALSE)
        BY <1>11, <2>2 DEF MarkDeliveryFailed
    <3>2. Phase[m] = "queued" /\ Phase' = [Phase EXCEPT ![m] = "failed"]
      <4>1. Phase[m] = "queued"
          BY <1>0, <2>1, <2>2 DEF PhaseOf
      <4>2. PhaseOf([status |-> "failed", attempts |-> row[m].attempts, ripe |-> FALSE]) = "failed"
          BY DEF PhaseOf
      <4>3. Phase' = [Phase EXCEPT ![m] =
              PhaseOf([status |-> "failed", attempts |-> row[m].attempts, ripe |-> FALSE])]
        <5>1. TypeOK
            BY DEF OutboxInv
        <5> HIDE DEF m
        <5> QED BY <2>1, <3>1, <5>1, PutPhase
      <4> QED BY <4>1, <4>2, <4>3
    <3>3. Delivery!GiveUp(m)
        BY <2>1, <3>2 DEF Delivery!GiveUp
    <3> QED BY <2>1, <3>3 DEF Delivery!Next
  <2>3. CASE row[m].status = "processing" /\ ~Exhausted(d)
    <3>1. Put(m, "pending", row[m].attempts, FALSE)
        BY <1>11, <2>3 DEF MarkDeliveryFailed
    <3>2. \A x \in Messages : PhaseOf(row'[x]) = PhaseOf(row[x])
        BY <1>0, <2>1, <2>3, <3>1 DEF Put, TypeOK, PhaseOf
    <3> QED BY <2>1, <3>2, SamePhase
  <2>4. CASE row[m].status # "processing"
    <3>1. row' = row
        BY <1>11, <2>4 DEF MarkDeliveryFailed
    <3> QED BY <2>1, <3>1, SamePhase
  <2> QED BY <2>2, <2>3, <2>4
<1>12. ASSUME UNCHANGED <<row, known>> PROVE UNCHANGED <<Phase, known>>
    BY <1>12, SamePhase
<1>13. CASE UNCHANGED vars
    BY <1>12, <1>13 DEF vars
<1> QED
    BY <1>1, <1>2, <1>3, <1>5, <1>6, <1>7, <1>8, <1>9, <1>10, <1>11, <1>12, <1>13
    DEF Next, CycleStep, Dispatch, EndCycle, Crash, DeadlockVictim

\* The outbox implements the mailbox: nothing counts as delivered that was not
\* handed over or waived, and no late dispatcher unsettles a settled message.
THEOREM ImplementsDelivery == Spec => IsDelivery
BY InitInv, NextInv, InitPublished, NextPublished, InitDelivery, StepDelivery, PTL
   DEF Spec, IsDelivery, Delivery!Spec
-----------------------------------------------------------------------------
(* Why a message is given up                                                *)

\* What a dispatcher was told is remembered until it settles the message.
RefusalIsKnown ==
  \A d \in Dispatchers : disp[d].pc = "refused" => "refused" \in known[disp[d].m]

\* Nothing a delivery has shown is ever forgotten.
LEMMA KnownGrows ==
  ASSUME OutboxInv, [Next]_vars, NEW m \in Messages
  PROVE  known[m] \subseteq known'[m]
<1>1. ASSUME NEW d \in Dispatchers, Deliver(d) PROVE known[m] \subseteq known'[m]
    BY <1>1 DEF Deliver, OutboxInv, TypeOK
<1>2. CASE UNCHANGED known
    BY <1>2
<1> QED
    BY <1>1, <1>2
    DEF Next, CycleStep, Publish, Requeue, TimePasses, AdminRecover, Prune, Recover, Dispatch,
        Claim, MarkDelivered, MarkDeliveryFailed, EndCycle, Crash, DeadlockVictim, vars

\* Only a delivery that ends in a refusal makes a dispatcher settle one.
LEMMA RefusalIsTold ==
  ASSUME OutboxInv, [Next]_vars, NEW d \in Dispatchers, disp'[d].pc = "refused"
  PROVE  \/ disp'[d] = disp[d]
         \/ disp'[d].m \in Messages /\ "refused" \in known'[disp'[d].m]
<1> USE DEF OutboxInv, TypeOK
<1>1. ASSUME NEW e \in Dispatchers, Recover(e) \/ Dispatch(e) \/ Stop(e) \/ Continue(e) \/ Claim(e)
      PROVE  disp'[d] = disp[d]
  <2>1. CASE Recover(e) \/ Dispatch(e)
      BY <2>1 DEF Recover, Dispatch, Off
  <2>2. CASE Stop(e)
      BY <2>2, StopKeeps DEF Settling
  <2>3. CASE Continue(e)
      BY <2>3, ContinueKeeps DEF Settling
  <2>4. CASE Claim(e)
      BY <2>4 DEF Claim, Off
  <2> QED BY <1>1, <2>1, <2>2, <2>3, <2>4
<1>2. ASSUME NEW e \in Dispatchers, Deliver(e)
      PROVE  \/ disp'[d] = disp[d]
             \/ disp'[d].m \in Messages /\ "refused" \in known'[disp'[d].m]
  <2>1. PICK t \in disp[e].todo, o \in Outcomes :
          /\ known' = [known EXCEPT ![t[1]] = known[t[1]] \cup o.fact]
          /\ disp' = [disp EXCEPT ![e] = [pc |-> o.pc, todo |-> disp[e].todo \ {t},
                                          m |-> t[1], tries |-> t[2]]]
      BY <1>2 DEF Deliver
  <2>2. t[1] \in Messages
      OBVIOUS
  <2>3. o.pc = "refused" => "refused" \in o.fact
      BY DEF Outcomes
  <2> QED BY <2>1, <2>2, <2>3
<1>3. CASE UNCHANGED disp
    BY <1>3
<1> QED
    BY <1>1, <1>2, <1>3
    DEF Next, CycleStep, Publish, Requeue, TimePasses, AdminRecover, Prune,
        MarkDelivered, MarkDeliveryFailed, EndCycle, Crash, DeadlockVictim, vars

\* A row becomes failed only under a dispatcher that has exhausted it.
LEMMA FailedByDispatcher ==
  ASSUME OutboxInv, [Next]_vars, NEW m \in Messages, row'[m].status = "failed"
  PROVE  \/ row'[m] = row[m]
         \/ /\ row'[m].attempts = row[m].attempts
            /\ \E d \in Dispatchers : /\ disp[d].pc \in {"failed", "refused"}
                                      /\ disp[d].m = m /\ Exhausted(d)
<1> USE DEF OutboxInv, TypeOK
<1>1. ASSUME NEW x \in Messages, Publish(x) \/ Requeue(x) \/ TimePasses(x)
      PROVE  row'[m] = row[m]
  <2>1. CASE Publish(x) \/ Requeue(x)
      BY <2>1 DEF Publish, Requeue, Put
  <2>2. CASE TimePasses(x)
      BY <2>2 DEF TimePasses
  <2> QED BY <1>1, <2>1, <2>2
<1>2. ASSUME NEW S, Returned(S) PROVE row'[m] = row[m]
    BY <1>2 DEF Returned
<1>3. CASE Prune
  <2>1. PICK S : row' = [x \in Messages |->
            IF x \in S THEN [row[x] EXCEPT !.status = "pruned", !.ripe = FALSE] ELSE row[x]]
      BY <1>3 DEF Prune
  <2>2. row'[m] = IF m \in S THEN [row[m] EXCEPT !.status = "pruned", !.ripe = FALSE] ELSE row[m]
      BY <2>1
  <2>3. m \notin S
      BY <2>2
  <2> QED BY <2>2, <2>3
<1>4. ASSUME NEW d \in Dispatchers, Claim(d) PROVE row'[m] = row[m]
    BY <1>4 DEF Claim
<1>5. ASSUME NEW d \in Dispatchers, MarkDelivered(d) PROVE row'[m] = row[m]
    BY <1>5 DEF MarkDelivered, Put
<1>6. ASSUME NEW d \in Dispatchers, MarkDeliveryFailed(d)
      PROVE  \/ row'[m] = row[m]
             \/ /\ row'[m].attempts = row[m].attempts
                /\ disp[d].pc \in {"failed", "refused"} /\ disp[d].m = m /\ Exhausted(d)
  <2>1. disp[d].pc \in {"failed", "refused"}
      BY <1>6 DEF MarkDeliveryFailed
  <2>2. CASE row' = row
      BY <2>2
  <2>3. CASE Put(disp[d].m, IF Exhausted(d) THEN "failed" ELSE "pending",
                 row[disp[d].m].attempts, FALSE)
      BY <2>1, <2>3 DEF Put
  <2> QED BY <1>6, <2>2, <2>3 DEF MarkDeliveryFailed
<1>7. CASE UNCHANGED row
    BY <1>7
<1> QED
    BY <1>1, <1>2, <1>3, <1>4, <1>5, <1>6, <1>7
    DEF Next, CycleStep, AdminRecover, Recover, Dispatch, Deliver, EndCycle, Crash,
        DeadlockVictim, vars

LEMMA NextReason ==
  OutboxInv /\ RefusalIsKnown /\ FailedHasReason /\ [Next]_vars
    => RefusalIsKnown' /\ FailedHasReason'
<1> SUFFICES ASSUME OutboxInv, RefusalIsKnown, FailedHasReason, [Next]_vars
             PROVE  RefusalIsKnown' /\ FailedHasReason'
    OBVIOUS
<1>1. RefusalIsKnown'
  <2> SUFFICES ASSUME NEW d \in Dispatchers, disp'[d].pc = "refused"
               PROVE  "refused" \in known'[disp'[d].m]
      BY DEF RefusalIsKnown
  <2>1. CASE disp'[d] = disp[d]
    <3>1. disp[d].m \in Messages /\ "refused" \in known[disp[d].m]
        BY <2>1 DEF OutboxInv, HandedOver, Settling, RefusalIsKnown
    <3> QED BY <2>1, <3>1, KnownGrows
  <2> QED BY <2>1, RefusalIsTold
<1>2. FailedHasReason'
  <2> SUFFICES ASSUME NEW m \in Messages, row'[m].status = "failed"
               PROVE  row'[m].attempts >= MaxAttempts \/ "refused" \in known'[m]
      BY DEF FailedHasReason
  <2>1. CASE row'[m] = row[m]
      BY <2>1, KnownGrows DEF FailedHasReason
  <2>2. ASSUME NEW d \in Dispatchers, disp[d].pc \in {"failed", "refused"}, disp[d].m = m,
               Exhausted(d), row'[m].attempts = row[m].attempts
        PROVE  row'[m].attempts >= MaxAttempts \/ "refused" \in known'[m]
    <3>1. CASE disp[d].pc = "refused"
        BY <2>2, <3>1, KnownGrows DEF RefusalIsKnown
    <3>2. CASE disp[d].pc = "failed"
        BY <2>2, <3>2 DEF Exhausted
    <3> QED BY <2>2, <3>1, <3>2
  <2> QED BY <2>1, <2>2, FailedByDispatcher
<1> QED BY <1>1, <1>2

LEMMA InitReason == Init => RefusalIsKnown /\ FailedHasReason
BY DEF Init, RefusalIsKnown, FailedHasReason, Off

\* For any number of dispatchers, and however claims are lost between them: a message
\* is given up only at its last attempt or after a refusal (mark_delivery_failed).
THEOREM GivenUpForAReason == Spec => []FailedHasReason
BY InitInv, NextInv, InitReason, NextReason, PTL DEF Spec

-----------------------------------------------------------------------------
(* Rows kept locked between statements                                      *)

\* Whose locks a step leaves as they are, ends or adds to.
LEMMA LockSteps ==
  ASSUME OutboxInv, [Next]_vars, NEW d \in Dispatchers, NEW m \in held'[d]
  PROVE  \/ m \in held[d]
         \/ /\ m \in Messages /\ row[m].status # "processing" /\ row' = row
            /\ \A e \in Dispatchers \ {d} : m \notin held[e] /\ held'[e] = held[e]
<1> USE DEF OutboxInv, TypeOK
<1>1. ASSUME NEW x \in Dispatchers, held' = [held EXCEPT ![x] = {}] PROVE m \in held[d]
    BY <1>1
<1>2. ASSUME NEW x \in Dispatchers, MarkDeliveryFailed(x), ~Commit(x)
      PROVE  \/ m \in held[d]
             \/ /\ m \in Messages /\ row[m].status # "processing" /\ row' = row
                /\ \A e \in Dispatchers \ {d} : m \notin held[e] /\ held'[e] = held[e]
  <2>1. /\ ~Waiting(x) /\ disp[x].pc \in {"failed", "refused"} /\ row' = row
        /\ row[disp[x].m].status # "processing"
        /\ held' = [held EXCEPT ![x] =
             held[x] \cup ({disp[x].m} \ {r \in Messages : row[r].status = "pruned"})]
      BY <1>2 DEF MarkDeliveryFailed
  <2>2. disp[x].m \in Messages
      BY <2>1 DEF HandedOver, Settling
  <2>3. CASE d # x
      BY <2>1, <2>3
  <2>4. CASE d = x /\ m \notin held[d]
    <3>1. m = disp[x].m
        BY <2>1, <2>4
    <3>2. \A e \in Dispatchers \ {x} : m \notin held[e]
        BY <2>1, <3>1 DEF Waiting
    <3> QED BY <2>1, <2>2, <2>4, <3>1, <3>2
  <2> QED BY <2>3, <2>4
<1>3. CASE UNCHANGED held
    BY <1>3
<1> QED
    BY <1>1, <1>2, <1>3
    DEF Next, CycleStep, Publish, Requeue, TimePasses, AdminRecover, Prune, Recover, Dispatch,
        Claim, Deliver, MarkDelivered, MarkDeliveryFailed, EndCycle, Crash, DeadlockVictim,
        Stop, Commit, vars

\* A row becomes claimed only by a statement that skips locked rows.
LEMMA ClaimedIsUnlocked ==
  ASSUME OutboxInv, [Next]_vars, NEW m \in Messages, row'[m].status = "processing"
  PROVE  \/ row[m].status = "processing"
         \/ Unlocked(m) /\ held' = held
<1> USE DEF OutboxInv, TypeOK
<1>1. ASSUME NEW x \in Messages, Publish(x) \/ Requeue(x) \/ TimePasses(x)
      PROVE  row[m].status = "processing"
  <2>1. CASE Publish(x) \/ Requeue(x)
      BY <2>1 DEF Publish, Requeue, Put
  <2>2. CASE TimePasses(x)
      BY <2>2 DEF TimePasses
  <2> QED BY <1>1, <2>1, <2>2
<1>2. ASSUME NEW S, Returned(S) PROVE row[m].status = "processing"
    BY <1>2 DEF Returned
<1>3. CASE Prune
  <2>1. PICK S : row' = [x \in Messages |->
            IF x \in S THEN [row[x] EXCEPT !.status = "pruned", !.ripe = FALSE] ELSE row[x]]
      BY <1>3 DEF Prune
  <2>2. row'[m] = IF m \in S THEN [row[m] EXCEPT !.status = "pruned", !.ripe = FALSE] ELSE row[m]
      BY <2>1
  <2> QED BY <2>2
<1>4. ASSUME NEW d \in Dispatchers, Claim(d)
      PROVE  row[m].status = "processing" \/ (Unlocked(m) /\ held' = held)
    BY <1>4 DEF Claim, Batches
<1>5. ASSUME NEW d \in Dispatchers, MarkDelivered(d) \/ MarkDeliveryFailed(d)
      PROVE  row[m].status = "processing"
    BY <1>5 DEF MarkDelivered, MarkDeliveryFailed, Put
<1>6. CASE UNCHANGED row
    BY <1>6
<1> QED
    BY <1>1, <1>2, <1>3, <1>4, <1>5, <1>6
    DEF Next, CycleStep, AdminRecover, Recover, Dispatch, Deliver, EndCycle, Crash,
        DeadlockVictim, vars

LEMMA NextLocked == OutboxInv /\ LockedIsIdle /\ [Next]_vars => LockedIsIdle'
<1> SUFFICES ASSUME OutboxInv, LockedIsIdle, [Next]_vars,
                    NEW d \in Dispatchers, NEW m \in held'[d]
             PROVE  /\ \A e \in Dispatchers \ {d} : m \notin held'[e]
                    /\ row'[m].status # "processing"
    BY DEF LockedIsIdle
<1>1. CASE m \in held[d]
  <2>1. m \in Messages /\ row[m].status # "processing" /\ ~Unlocked(m)
        /\ \A e \in Dispatchers \ {d} : m \notin held[e]
      BY <1>1 DEF LockedIsIdle, Unlocked, OutboxInv, TypeOK
  <2>2. \A e \in Dispatchers \ {d} : m \notin held'[e]
      BY <1>1, <2>1, LockSteps
  <2> QED BY <2>1, <2>2, ClaimedIsUnlocked
<1> QED BY <1>1, LockSteps

LEMMA InitLocked == Init => LockedIsIdle
BY DEF Init, LockedIsIdle

\* For any number of dispatchers: the transactions that mark_delivery_failed leaves
\* open never keep the same row twice, nor a row that somebody has claimed.
THEOREM LocksAreIdle == Spec => []LockedIsIdle
BY InitInv, NextInv, InitLocked, NextLocked, PTL DEF Spec
-----------------------------------------------------------------------------
(* Attempts beyond the maximum                                              *)

\* what the bound depends on: batches hold one message, and only commands die or
\* are late
BatchOfOne == Limit = 1 \/ \E a : Messages = {a}
OnlyCommandsFail == Crashable \cup Slow \subseteq OneShots

\* A batch statement takes no more than one row then.
LEMMA OneRow ==
  ASSUME BatchOfOne, NEW s, NEW S \in Batches(s), NEW x \in S, NEW y \in S
  PROVE  x = y
<1>1. CASE \E a : Messages = {a}
    BY <1>1, BatchRows
<1>2. CASE Limit = 1
  <2> DEFINE found == {m \in Messages : row[m].status = s /\ row[m].ripe /\ Unlocked(m)}
  <2>1. /\ S \subseteq found
        /\ Cardinality(S) = IF Cardinality(found) < 1 THEN Cardinality(found) ELSE 1
      BY <1>2 DEF Batches
  <2>2. IsFiniteSet(found) /\ IsFiniteSet(S) /\ Cardinality(found) \in Nat
    <3>1. found \subseteq Messages
        OBVIOUS
    <3>2. IsFiniteSet(found)
        BY <3>1, MessageAssumption, FS_Subset
    <3> QED BY <2>1, <3>2, FS_Subset, FS_CardinalityType
  <2> HIDE DEF found
  <2>3. CASE Cardinality(found) = 0
      BY <2>1, <2>2, <2>3, FS_EmptySet
  <2>4. CASE Cardinality(found) # 0
    <3>1. Cardinality(S) = 1
        BY <2>1, <2>2, <2>4
    <3>2. PICK z : S = {z}
        BY <2>2, <3>1, FS_Singleton
    <3> QED BY <3>2
  <2> QED BY <2>3, <2>4
<1> QED BY <1>1, <1>2 DEF BatchOfOne

\* With batches of one, a dispatcher holds a lock only when it has nothing left to
\* settle, so none waits for another that waits.
Alone(d) ==
  /\ disp[d].pc \notin Settling => disp[d].m = NoMessage
  /\ disp[d].pc # "deliver" => disp[d].todo = {} /\ held[d] = {}
  /\ \A t, u \in disp[d].todo : t = u
  /\ disp[d].todo # {} => held[d] = {}

NobodyWaitsTwice == \A d \in Dispatchers : Alone(d)

LEMMA NoVictim ==
  ASSUME NobodyWaitsTwice, NEW d \in Dispatchers
  PROVE  ~DeadlockVictim(d)
BY DEF NobodyWaitsTwice, Alone, DeadlockVictim, Waiting

LEMMA NextAlone ==
  ASSUME BatchOfOne, OutboxInv, NobodyWaitsTwice, [Next]_vars
  PROVE  NobodyWaitsTwice'
<1> SUFFICES ASSUME NEW d \in Dispatchers PROVE Alone(d)'
    BY DEF NobodyWaitsTwice
<1> USE DEF OutboxInv, TypeOK
<1>0. Alone(d)
    BY DEF NobodyWaitsTwice
<1>1. ASSUME disp'[d] = disp[d], held'[d] = held[d] PROVE Alone(d)'
    BY <1>0, <1>1 DEF Alone
<1>2. ASSUME NEW e \in Dispatchers, Stop(e) PROVE Alone(d)'
    BY <1>0, <1>2 DEF Alone, Stop, Commit, Off, Done, Settling
<1>3. ASSUME NEW e \in Dispatchers, Recover(e) \/ Dispatch(e) PROVE Alone(d)'
  <2>1. held' = held
      BY <1>3 DEF Recover, Dispatch
  <2>2. CASE e = d
    <3>1. disp'[d].m = NoMessage /\ disp'[d].todo = {} /\ held[d] = {}
      <4>1. CASE Recover(d)
          BY <1>0, <4>1 DEF Alone, Recover, Off
      <4>2. CASE Dispatch(d)
          BY <1>0, <4>2 DEF Alone, Dispatch, Off
      <4> QED BY <1>3, <2>2, <4>1, <4>2
    <3> QED BY <2>1, <3>1 DEF Alone
  <2>3. CASE e # d
    <3>1. disp'[d] = disp[d]
        BY <1>3, <2>3 DEF Recover, Dispatch
    <3> QED BY <1>1, <2>1, <3>1
  <2> QED BY <2>2, <2>3
<1>4. ASSUME NEW e \in Dispatchers, Claim(e) PROVE Alone(d)'
  <2>1. PICK S \in Batches("pending") :
          disp' = [disp EXCEPT ![e] = [Off EXCEPT !.pc = "deliver",
                     !.todo = {<<m, row[m].attempts + 1>> : m \in S}]]
      BY <1>4 DEF Claim
  <2>2. CASE e = d
    <3>1. /\ disp'[d].pc = "deliver" /\ disp'[d].m = NoMessage
          /\ disp'[d].todo = {<<m, row[m].attempts + 1>> : m \in S}
        BY <2>1, <2>2 DEF Off
    <3>2. \A t, u \in disp'[d].todo : t = u
        BY <3>1, OneRow
    <3>3. disp[d].pc = "claim" /\ held' = held
        BY <1>4, <2>2 DEF Claim
    <3> QED BY <1>0, <3>1, <3>2, <3>3 DEF Alone
  <2> QED BY <1>1, <1>4, <2>1, <2>2 DEF Claim
<1>5. ASSUME NEW e \in Dispatchers, Deliver(e) PROVE Alone(d)'
  <2>1. PICK t \in disp[e].todo, o \in Outcomes :
          disp' = [disp EXCEPT ![e] = [pc |-> o.pc, todo |-> disp[e].todo \ {t},
                                       m |-> t[1], tries |-> t[2]]]
      BY <1>5 DEF Deliver
  <2>2. o.pc \in Settling
      BY DEF Outcomes, Settling
  <2>3. CASE e = d
    <3>1. disp'[d].pc \in Settling /\ disp'[d].todo = {}
        BY <1>0, <2>1, <2>2, <2>3 DEF Alone
    <3>2. held' = held /\ held[d] = {}
        BY <1>0, <1>5, <2>1, <2>3 DEF Alone, Deliver
    <3> QED BY <3>1, <3>2 DEF Alone, Settling
  <2> QED BY <1>1, <1>5, <2>1, <2>3 DEF Deliver
<1>6. ASSUME NEW e \in Dispatchers, MarkDelivered(e) \/ MarkDeliveryFailed(e) PROVE Alone(d)'
  <2>1. /\ Continue(e) /\ disp[e].pc \in Settling
        /\ \A x \in Dispatchers \ {e} : held'[x] = held[x]
      BY <1>6 DEF MarkDelivered, MarkDeliveryFailed, Commit, Settling
  <2>2. CASE e = d
    <3>1. disp[d].todo = {}
        BY <1>0, <2>1, <2>2 DEF Alone, Settling
    <3>2. disp'[d].pc = "deliver" /\ disp'[d].todo = {} /\ disp'[d].m = NoMessage
        BY <2>1, <2>2, <3>1 DEF Continue, Off
    <3> QED BY <3>2 DEF Alone, Settling
  <2> QED BY <1>1, <2>1, <2>2 DEF Continue
<1>7. CASE UNCHANGED <<disp, held>>
    BY <1>1, <1>7
<1> QED
    BY <1>2, <1>3, <1>4, <1>5, <1>6, <1>7
    DEF Next, CycleStep, Publish, Requeue, TimePasses, AdminRecover, Prune, EndCycle, Crash,
        DeadlockVictim, vars

\* A message that a worker has taken up, and commands that have claimed: what the
\* attempts beyond the maximum are charged to.
Works(d, m) == disp[d].m = m \/ \E t \in disp[d].todo : t[1] = m
Owned(m) == \E d \in Dispatchers \ OneShots : Works(d, m)
Begun == {d \in OneShots : disp[d].pc \notin {"idle", "claim"}}
Budget == MaxAttempts + Cardinality(Begun)

\* A claim that may still be lost to the outside has not used up the budget: neither
\* one that waits, nor one whose time is over or that no worker keeps.
MayBeLost(m) ==
  \/ row[m].status = "pending"
  \/ row[m].status = "processing" /\ (row[m].ripe \/ ~Owned(m))

WithinBudget ==
  /\ \A m \in Messages : /\ row[m].attempts <= Budget
                         /\ MayBeLost(m) => row[m].attempts < Budget
  /\ \A d \in Dispatchers : /\ disp[d].tries <= Budget
                            /\ \A t \in disp[d].todo : t[2] <= Budget

LEMMA BudgetType == Budget \in Nat /\ Budget >= MaxAttempts /\ IsFiniteSet(Begun)
<1>1. IsFiniteSet(OneShots)
    BY DispatcherAssumption, FS_Subset
<1>2. IsFiniteSet(Begun)
    BY <1>1, FS_Subset DEF Begun
<1> QED BY <1>2, FS_CardinalityType, LimitAssumption DEF Budget

\* A command claims once: whoever has claimed stays among those that have.
LEMMA BegunStays ==
  ASSUME OutboxInv, [Next]_vars, NEW d \in Begun
  PROVE  d \in Begun'
<1> USE DEF OutboxInv, TypeOK
<1>1. d \in OneShots /\ d \in Dispatchers /\ disp[d].pc \notin {"idle", "claim"}
    BY DispatcherAssumption DEF Begun
<1>2. ASSUME NEW e \in Dispatchers, Recover(e) \/ Dispatch(e) \/ Claim(e)
      PROVE  disp'[d] = disp[d]
    BY <1>1, <1>2 DEF Recover, Dispatch, Claim
<1>3. ASSUME NEW e \in Dispatchers, Stop(e) PROVE disp'[d] = disp[d] \/ disp'[d].pc = "done"
    BY <1>1, <1>3 DEF Stop, Off, Done
<1>4. ASSUME NEW e \in Dispatchers, Continue(e) PROVE disp'[d] = disp[d] \/ disp'[d].pc = "deliver"
    BY <1>1, <1>4 DEF Continue, Off
<1>5. ASSUME NEW e \in Dispatchers, Deliver(e) PROVE disp'[d].pc \notin {"idle", "claim"}
  <2>1. PICK t \in disp[e].todo, o \in Outcomes :
          disp' = [disp EXCEPT ![e] = [pc |-> o.pc, todo |-> disp[e].todo \ {t},
                                       m |-> t[1], tries |-> t[2]]]
      BY <1>5 DEF Deliver
  <2>2. o.pc \in Settling
      BY DEF Outcomes, Settling
  <2> QED BY <1>1, <2>1, <2>2 DEF Settling
<1>6. ASSUME UNCHANGED disp PROVE disp'[d] = disp[d]
    BY <1>6
<1>7. disp'[d].pc \notin {"idle", "claim"}
    BY <1>1, <1>2, <1>3, <1>4, <1>5, <1>6
    DEF Next, CycleStep, Publish, Requeue, TimePasses, AdminRecover, Prune,
        MarkDelivered, MarkDeliveryFailed, EndCycle, Crash, DeadlockVictim, vars
<1> QED BY <1>1, <1>7 DEF Begun

LEMMA BudgetGrows ==
  ASSUME OutboxInv, [Next]_vars
  PROVE  /\ Budget' \in Nat /\ Budget' >= Budget /\ Budget \in Nat /\ Budget >= MaxAttempts
         /\ \A d \in OneShots : d \notin Begun /\ d \in Begun' => Budget' > Budget
<1>1. Begun \subseteq Begun'
    BY BegunStays
<1>2. IsFiniteSet(Begun')
  <2>1. IsFiniteSet(OneShots) /\ Begun' \subseteq OneShots
      BY DispatcherAssumption, FS_Subset DEF Begun
  <2> QED BY <2>1, FS_Subset
<1>3. /\ Cardinality(Begun) \in Nat /\ Cardinality(Begun') \in Nat
      /\ Cardinality(Begun) <= Cardinality(Begun')
      /\ Cardinality(Begun) = Cardinality(Begun') => Begun = Begun'
    BY <1>1, <1>2, FS_Subset, FS_CardinalityType
<1>4. Budget' = MaxAttempts + Cardinality(Begun')
    BY DEF Budget
<1> QED BY <1>3, <1>4, LimitAssumption DEF Budget

\* A worker keeps what it has taken up until the row is settled.
LEMMA OwnedStays ==
  ASSUME OnlyCommandsFail, OutboxInv, NobodyWaitsTwice, [Next]_vars,
         NEW m \in Messages, Owned(m), row'[m].status = "processing"
  PROVE  Owned(m)'
<1> USE DEF OutboxInv, TypeOK
<1>1. PICK d \in Dispatchers \ OneShots : Works(d, m)
    BY DEF Owned
<1>2. SUFFICES Works(d, m)'
    BY DEF Owned
<1>3. Alone(d)
    BY DEF NobodyWaitsTwice
<1>4. CASE disp'[d] = disp[d]
    BY <1>1, <1>4 DEF Works
<1>5. ASSUME NEW e \in Dispatchers, Recover(e) \/ Dispatch(e) \/ Claim(e)
      PROVE  disp'[d] = disp[d]
  <2>1. disp[d].pc \notin {"idle", "claim"}
      BY <1>1, <1>3, MessageAssumption DEF Works, Alone, Settling
  <2> QED BY <1>5, <2>1 DEF Recover, Dispatch, Claim
<1>6. ASSUME NEW e \in Dispatchers, EndCycle(e) \/ Crash(e) PROVE disp'[d] = disp[d]
  <2>1. ~EndCycle(d)
      BY <1>1, <1>3, MessageAssumption DEF EndCycle, Works, Alone, Settling
  <2>2. ~Crash(d)
      BY <1>1 DEF Crash, OnlyCommandsFail
  <2> QED BY <1>6, <2>1, <2>2 DEF EndCycle, Crash, Stop
<1>7. ASSUME NEW e \in Dispatchers, Deliver(e) PROVE Works(d, m)'
  <2>1. PICK t \in disp[e].todo, o \in Outcomes :
          disp' = [disp EXCEPT ![e] = [pc |-> o.pc, todo |-> disp[e].todo \ {t},
                                       m |-> t[1], tries |-> t[2]]]
      BY <1>7 DEF Deliver
  <2>2. CASE e = d
    <3>1. disp[d].pc = "deliver" /\ disp[d].m # m
        BY <1>3, <1>7, <2>2, MessageAssumption DEF Deliver, Alone, Settling
    <3>2. t[1] = m
        BY <1>1, <1>3, <2>1, <2>2, <3>1 DEF Works, Alone
    <3> QED BY <2>1, <2>2, <3>2 DEF Works
  <2> QED BY <1>4, <2>1, <2>2
<1>8. ASSUME NEW e \in Dispatchers, MarkDelivered(e) \/ MarkDeliveryFailed(e)
      PROVE  disp'[d] = disp[d]
  <2>1. CASE e # d
      BY <1>8, <2>1 DEF MarkDelivered, MarkDeliveryFailed, Continue
  <2>2. CASE e = d
    <3>1. disp[d].m = m
        BY <1>1, <1>3, <1>8, <2>2 DEF MarkDelivered, MarkDeliveryFailed, Works, Alone
    <3>2. row'[m].status # "processing"
        BY <1>8, <2>2, <3>1 DEF MarkDelivered, MarkDeliveryFailed, Put
    <3> QED BY <3>2
  <2> QED BY <2>1, <2>2
<1>9. CASE UNCHANGED disp
    BY <1>4, <1>9
<1> QED
    BY <1>4, <1>5, <1>6, <1>7, <1>8, <1>9, NoVictim
    DEF Next, CycleStep, Publish, Requeue, TimePasses, AdminRecover, Prune, vars

\* A statement that leaves a row's attempts alone, and makes it claimable or a
\* claim that may be lost only out of one that could be, keeps it in the budget.
LEMMA RowKeptInBudget ==
  ASSUME OnlyCommandsFail, OutboxInv, NobodyWaitsTwice, WithinBudget, [Next]_vars,
         NEW m \in Messages, row'[m].attempts = row[m].attempts,
         \/ row'[m].status \notin {"pending", "processing"}
         \/ row[m].attempts < Budget
         \/ row'[m].status = row[m].status /\ (row'[m].ripe => row[m].ripe)
         \/ MayBeLost(m)
  PROVE  /\ row'[m].attempts <= Budget'
         /\ MayBeLost(m)' => row'[m].attempts < Budget'
<1>1. /\ row[m].attempts \in Nat /\ row[m].attempts <= Budget
      /\ MayBeLost(m) => row[m].attempts < Budget
    BY DEF OutboxInv, TypeOK, WithinBudget
<1>2. ASSUME MayBeLost(m)', row'[m].status = row[m].status, row'[m].ripe => row[m].ripe
      PROVE  MayBeLost(m)
    BY <1>2, OwnedStays DEF MayBeLost
<1>3. MayBeLost(m)' => row[m].attempts < Budget
    BY <1>1, <1>2 DEF MayBeLost
<1> QED BY <1>1, <1>3, BudgetGrows
LEMMA NextBudget ==
  ASSUME BatchOfOne, OnlyCommandsFail, OutboxInv, NobodyWaitsTwice, WithinBudget, [Next]_vars
  PROVE  WithinBudget'
<1> USE DEF OutboxInv, TypeOK
<1>b. /\ Budget \in Nat /\ Budget' \in Nat /\ Budget' >= Budget /\ Budget >= MaxAttempts
      /\ MaxAttempts \in Nat \ {0}
    BY BudgetGrows, LimitAssumption
<1>1. ASSUME NEW m \in Messages
      PROVE  /\ row'[m].attempts <= Budget'
             /\ MayBeLost(m)' => row'[m].attempts < Budget'
  <2>0. row[m].attempts \in Nat /\ row[m].attempts <= Budget
      BY DEF WithinBudget
  <2>1. ASSUME row'[m] = row[m] PROVE row'[m].attempts = row[m].attempts
                                      /\ row'[m].status = row[m].status
                                      /\ (row'[m].ripe => row[m].ripe)
      BY <2>1
  <2>2. ASSUME NEW x \in Messages, Publish(x) \/ Requeue(x)
        PROVE  row'[m] = row[m] \/ row'[m].attempts = 0
      BY <2>2 DEF Publish, Requeue, Put
  <2>3. ASSUME NEW x \in Messages, TimePasses(x)
        PROVE  /\ row'[m].attempts = row[m].attempts
               /\ \/ row'[m] = row[m] \/ MayBeLost(m)
                  \/ row'[m].status \notin {"pending", "processing"}
    <3>1. CASE x = m /\ row[m].status = "processing"
      <4>1. ~Owned(m)
          BY <2>3, <3>1, DispatcherAssumption
             DEF TimePasses, InTime, Owned, Works, OnlyCommandsFail
      <4> QED BY <2>3, <3>1, <4>1 DEF TimePasses, MayBeLost
    <3> QED BY <2>3, <3>1 DEF TimePasses, MayBeLost
  <2>4. ASSUME NEW S \in Batches("processing"), Returned(S)
        PROVE  row'[m].attempts = row[m].attempts /\ (row'[m] = row[m] \/ MayBeLost(m))
    <3>1. m \in S => row[m].status = "processing" /\ row[m].ripe
        BY DEF Batches
    <3> QED BY <2>4, <3>1 DEF Returned, MayBeLost
  <2>5. ASSUME Prune
        PROVE  /\ row'[m].attempts = row[m].attempts
               /\ row'[m] = row[m] \/ row'[m].status = "pruned"
    <3>1. PICK S : row' = [x \in Messages |->
            IF x \in S THEN [row[x] EXCEPT !.status = "pruned", !.ripe = FALSE] ELSE row[x]]
        BY <2>5 DEF Prune
    <3>2. row'[m] = IF m \in S THEN [row[m] EXCEPT !.status = "pruned", !.ripe = FALSE] ELSE row[m]
        BY <3>1
    <3> QED BY <3>2
  <2>6. ASSUME NEW d \in Dispatchers, Claim(d), row'[m] # row[m]
        PROVE  /\ row'[m].attempts <= Budget'
               /\ MayBeLost(m)' => row'[m].attempts < Budget'
    <3>1. PICK S \in Batches("pending") :
            /\ row' = [x \in Messages |->
                 IF x \in S THEN [status |-> "processing", attempts |-> row[x].attempts + 1,
                                  ripe |-> FALSE]
                 ELSE row[x]]
            /\ disp' = [disp EXCEPT ![d] = [Off EXCEPT !.pc = "deliver",
                 !.todo = {<<x, row[x].attempts + 1>> : x \in S}]]
        BY <2>6 DEF Claim
    <3>2. m \in S /\ row[m].status = "pending"
        BY <2>6, <3>1 DEF Batches
    <3>3. row[m].attempts < Budget
        BY <3>2 DEF WithinBudget, MayBeLost
    <3>4. /\ row'[m].attempts = row[m].attempts + 1 /\ row'[m].status = "processing"
          /\ ~row'[m].ripe /\ <<m, row[m].attempts + 1>> \in disp'[d].todo
          /\ disp'[d].pc = "deliver" /\ disp[d].pc = "claim"
        BY <2>6, <3>1, <3>2 DEF Claim, Off
    <3>5. CASE d \in OneShots
      <4>1. d \notin Begun /\ d \in Begun'
          BY <3>4, <3>5 DEF Begun
      <4> QED BY <1>b, <2>0, <3>3, <3>4, <3>5, <4>1, BudgetGrows
    <3>6. CASE d \notin OneShots
      <4>1. Owned(m)'
          BY <3>4, <3>6 DEF Owned, Works
      <4> QED BY <1>b, <2>0, <3>3, <3>4, <4>1 DEF MayBeLost
    <3> QED BY <3>5, <3>6
  <2>7. ASSUME NEW d \in Dispatchers, MarkDelivered(d)
        PROVE  /\ row'[m].attempts = row[m].attempts
               /\ row'[m] = row[m] \/ row'[m].status = "delivered"
      BY <2>7 DEF MarkDelivered, Put
  <2>8. ASSUME NEW d \in Dispatchers, MarkDeliveryFailed(d)
        PROVE  /\ row'[m].attempts = row[m].attempts
               /\ \/ row'[m] = row[m] \/ row[m].attempts < Budget
                  \/ row'[m].status \notin {"pending", "processing"}
    <3>1. CASE row' = row
        BY <3>1
    <3>2. CASE Put(disp[d].m, IF Exhausted(d) THEN "failed" ELSE "pending",
                   row[disp[d].m].attempts, FALSE)
      <4>1. ~Exhausted(d) /\ disp[d].m = m => row[m].attempts < Budget
        <5>1. disp[d].tries \in Nat /\ disp[d].tries <= Budget
            BY DEF WithinBudget
        <5> QED BY <1>b, <2>0, <5>1 DEF Exhausted
      <4> QED BY <3>2, <4>1 DEF Put
    <3> QED BY <2>8, <3>1, <3>2 DEF MarkDeliveryFailed
  <2>9. CASE row'[m].attempts = 0
      BY <1>b, <2>9
  <2>10. CASE UNCHANGED row
      BY <2>1, <2>10, RowKeptInBudget
  <2> QED
      BY <2>1, <2>2, <2>3, <2>4, <2>5, <2>6, <2>7, <2>8, <2>9, <2>10, RowKeptInBudget
      DEF Next, CycleStep, AdminRecover, Recover, Dispatch, Deliver, EndCycle, Crash,
          DeadlockVictim, vars
<1>2. ASSUME NEW d \in Dispatchers
      PROVE  disp'[d].tries <= Budget' /\ \A t \in disp'[d].todo : t[2] <= Budget'
  <2>0. /\ disp[d].tries \in Nat /\ disp[d].tries <= Budget
        /\ \A t \in disp[d].todo : t[2] \in Nat /\ t[2] <= Budget
      BY DEF WithinBudget
  <2>1. CASE disp'[d].tries \in {0, disp[d].tries} /\ disp'[d].todo \subseteq disp[d].todo
      BY <1>b, <2>0, <2>1
  <2>2. ASSUME NEW e \in Dispatchers, Recover(e) \/ Dispatch(e) \/ Stop(e) \/ Continue(e)
        PROVE  disp'[d].tries \in {0, disp[d].tries} /\ disp'[d].todo \subseteq disp[d].todo
    <3>1. CASE Recover(e)
        BY <3>1 DEF Recover, Off
    <3>2. CASE Dispatch(e)
        BY <3>2 DEF Dispatch, Off
    <3>3. CASE Stop(e)
        BY <3>3 DEF Stop, Off, Done
    <3>4. CASE Continue(e)
        BY <3>4 DEF Continue, Off
    <3> QED BY <2>2, <3>1, <3>2, <3>3, <3>4
  <2>3. ASSUME NEW e \in Dispatchers, Deliver(e)
        PROVE  disp'[d].tries <= Budget' /\ \A t \in disp'[d].todo : t[2] <= Budget'
    <3>1. PICK t \in disp[e].todo, o \in Outcomes :
            disp' = [disp EXCEPT ![e] = [pc |-> o.pc, todo |-> disp[e].todo \ {t},
                                         m |-> t[1], tries |-> t[2]]]
        BY <2>3 DEF Deliver
    <3> QED BY <1>b, <2>0, <3>1
  <2>4. ASSUME NEW e \in Dispatchers, Claim(e)
        PROVE  disp'[d].tries <= Budget' /\ \A t \in disp'[d].todo : t[2] <= Budget'
    <3>1. PICK S \in Batches("pending") :
            /\ row' = [x \in Messages |->
                 IF x \in S THEN [status |-> "processing", attempts |-> row[x].attempts + 1,
                                  ripe |-> FALSE]
                 ELSE row[x]]
            /\ disp' = [disp EXCEPT ![e] = [Off EXCEPT !.pc = "deliver",
                 !.todo = {<<x, row[x].attempts + 1>> : x \in S}]]
        BY <2>4 DEF Claim
    <3>2. ASSUME NEW x \in S PROVE row[x].attempts + 1 <= Budget'
      <4>1. x \in Messages /\ row'[x].attempts = row[x].attempts + 1
          BY <3>1, BatchRows
      <4> QED BY <1>1, <4>1
    <3>3. CASE e = d
      <4>1. disp'[d].tries = 0 /\ disp'[d].todo = {<<x, row[x].attempts + 1>> : x \in S}
          BY <3>1, <3>3 DEF Off
      <4> QED BY <1>b, <3>2, <4>1
    <3> QED BY <2>1, <3>1, <3>3
  <2>5. CASE UNCHANGED disp
      BY <2>1, <2>5
  <2> QED
      BY <2>1, <2>2, <2>3, <2>4, <2>5
      DEF Next, CycleStep, Publish, Requeue, TimePasses, AdminRecover, Prune,
          MarkDelivered, MarkDeliveryFailed, EndCycle, Crash, DeadlockVictim, vars
<1> QED BY <1>1, <1>2 DEF WithinBudget

LEMMA InitBudget == Init => NobodyWaitsTwice /\ WithinBudget
<1> SUFFICES ASSUME Init PROVE NobodyWaitsTwice /\ WithinBudget
    OBVIOUS
<1>1. NobodyWaitsTwice
    BY DEF Init, NobodyWaitsTwice, Alone, Off, Settling
<1>2. Budget \in Nat /\ Budget > 0
    BY BudgetType, LimitAssumption
<1>3. WithinBudget
    BY <1>2 DEF Init, WithinBudget, Off
<1> QED BY <1>1, <1>3

LEMMA BudgetBounds == OutboxInv /\ WithinBudget => OverrunIsBounded
<1> SUFFICES ASSUME OutboxInv, WithinBudget, NEW m \in Messages
             PROVE  row[m].attempts <= MaxAttempts + Cardinality(OneShots)
    BY DEF OverrunIsBounded
<1>1. IsFiniteSet(OneShots)
    BY DispatcherAssumption, FS_Subset
<1>2. /\ Cardinality(Begun) \in Nat /\ Cardinality(OneShots) \in Nat
      /\ Cardinality(Begun) <= Cardinality(OneShots)
    BY <1>1, BudgetType, FS_Subset, FS_CardinalityType DEF Begun
<1>3. row[m].attempts \in Nat /\ row[m].attempts <= Budget
    BY DEF OutboxInv, TypeOK, WithinBudget
<1> QED BY <1>2, <1>3, LimitAssumption DEF Budget

\* For any number of workers and commands: while batches hold one message and only
\* commands die or are late, recovery gives a message no more attempts beyond the
\* maximum than there were commands (recover_stale_claims keeps the attempts).
THEOREM OverrunBounded ==
  BatchOfOne /\ OnlyCommandsFail => (Spec => []OverrunIsBounded)
<1> SUFFICES ASSUME BatchOfOne, OnlyCommandsFail PROVE Spec => []OverrunIsBounded
    OBVIOUS
<1>1. OutboxInv /\ NobodyWaitsTwice /\ WithinBudget /\ [Next]_vars
        => NobodyWaitsTwice' /\ WithinBudget'
    BY NextAlone, NextBudget
<1> QED BY <1>1, InitInv, NextInv, InitBudget, BudgetBounds, PTL DEF Spec
=============================================================================
