------------------------- MODULE NotificationOutbox -------------------------
(* The notification_outbox table, the processes that deliver its messages   *)
(* (notification workers and dispatch-notifications commands) and the       *)
(* operators who recover, requeue and prune them.  Each of their statements *)
(* commits by itself, so a message is known only by its status: nothing     *)
(* says which dispatcher a claim belongs to.                                *)
EXTENDS Integers, FiniteSets

CONSTANTS
  Messages,       \* events that will be published
  Dispatchers,    \* processes that deliver
  OneShots,       \* those that are one dispatch-notifications command
  Crashable,      \* dispatchers that may die at any step
  Slow,           \* dispatchers whose batch may outlast the claim timeout
  MaxAttempts,    \* notification_max_delivery_attempts
  Limit,          \* batch size of every statement
  Requeues,       \* bound: what an operator requeues
  NoMessage

ASSUME DispatcherAssumption ==
  /\ IsFiniteSet(Dispatchers)
  /\ OneShots \subseteq Dispatchers
  /\ Crashable \subseteq Dispatchers
  /\ Slow \subseteq Dispatchers
ASSUME MessageAssumption ==
  /\ IsFiniteSet(Messages)
  /\ NoMessage \notin Messages
  /\ Requeues \subseteq Messages
ASSUME LimitAssumption == MaxAttempts \in Nat \ {0} /\ Limit \in Nat \ {0}

Statuses == {"none", "pending", "processing", "delivered", "failed", "pruned"}

\* what delivering a message has shown: the receiver took it, nobody wanted it
\* when it was tried, the receiver refused it for good
Facts == {"sent", "waived", "refused"}

VARIABLES
  row,    \* [Messages -> status, delivery_attempts, and whether the time the
          \*   row waits for has come: available_at, the end of its claim, or
          \*   the end of its retention]
  disp,   \* [Dispatchers -> local state; todo holds the claimed messages with
          \*   the attempts they had when they were claimed]
  held,   \* [Dispatchers -> rows whose lock its open transaction keeps]
  known   \* [Messages -> SUBSET Facts]

vars == <<row, disp, held, known>>

Off == [pc |-> "idle", todo |-> {}, m |-> NoMessage, tries |-> 0]
Done == [Off EXCEPT !.pc = "done"]

TypeOK ==
  /\ row \in [Messages -> [status : Statuses, attempts : Nat, ripe : BOOLEAN]]
  /\ disp \in [Dispatchers -> [pc : {"idle", "claim", "deliver", "delivered",
                                     "failed", "refused", "done"},
                               todo : SUBSET (Messages \X Nat),
                               m : Messages \cup {NoMessage}, tries : Nat]]
  /\ held \in [Dispatchers -> SUBSET Messages]
  /\ known \in [Messages -> SUBSET Facts]

Init ==
  /\ row = [m \in Messages |-> [status |-> "none", attempts |-> 0, ripe |-> FALSE]]
  /\ disp = [d \in Dispatchers |-> Off]
  /\ held = [d \in Dispatchers |-> {}]
  /\ known = [m \in Messages |-> {}]

-----------------------------------------------------------------------------
(* Rows and locks                                                           *)

Unlocked(m) == \A d \in Dispatchers : m \notin held[d]

\* mutant: the statement does not look for locks
MutBatches(status) ==
  LET found == {m \in Messages : row[m].status = status /\ row[m].ripe}
  IN  {S \in SUBSET found :
         Cardinality(S) = IF Cardinality(found) < Limit THEN Cardinality(found) ELSE Limit}

\* the rows a SKIP LOCKED statement takes; their order is left open
Batches(status) ==
  LET found == {m \in Messages : row[m].status = status /\ row[m].ripe /\ Unlocked(m)}
  IN  {S \in SUBSET found :
         Cardinality(S) = IF Cardinality(found) < Limit THEN Cardinality(found) ELSE Limit}

\* m is being worked on by a dispatcher that keeps its claim in time
InTime(m) ==
  \E d \in Dispatchers \ Slow : disp[d].m = m \/ \E t \in disp[d].todo : t[1] = m

Put(m, status, attempts, ripe) ==
  row' = [row EXCEPT ![m] = [status |-> status, attempts |-> attempts, ripe |-> ripe]]

Commit(d) == held' = [held EXCEPT ![d] = {}]

\* the next message of d's batch
Continue(d) ==
  disp' = [disp EXCEPT ![d] = [Off EXCEPT !.pc = "deliver", !.todo = disp[d].todo]]

Stop(d) ==
  /\ disp' = [disp EXCEPT ![d] = IF d \in OneShots THEN Done ELSE Off]
  /\ Commit(d)

-----------------------------------------------------------------------------
(* The store and its operators                                              *)

\* mutant: a status the enumeration does not have
MutPublish(m) ==
  /\ row[m].status = "none"
  /\ Put(m, "queued", 0, FALSE)
  /\ UNCHANGED <<disp, held, known>>

\* _append_mission_events, in the transaction that writes the event
Publish(m) ==
  /\ row[m].status = "none"
  /\ Put(m, "pending", 0, FALSE)
  /\ UNCHANGED <<disp, held, known>>

\* mutant: a message without attempts left is not recovered
MutReturned(S) ==
  row' = [m \in Messages |->
    IF m \in S /\ row[m].attempts < MaxAttempts
    THEN [row[m] EXCEPT !.status = "pending", !.ripe = TRUE] ELSE row[m]]

\* recover_stale_claims: available at once, the attempts are kept
Returned(S) ==
  row' = [m \in Messages |->
    IF m \in S THEN [row[m] EXCEPT !.status = "pending", !.ripe = TRUE] ELSE row[m]]

AdminRecover ==
  /\ \E S \in Batches("processing") : S # {} /\ Returned(S)
  /\ UNCHANGED <<disp, held, known>>

\* requeue_failed: a new budget of attempts
Requeue(m) ==
  /\ m \in Requeues
  /\ row[m].status = "failed"
  /\ Unlocked(m)
  /\ Put(m, "pending", 0, TRUE)
  /\ UNCHANGED <<disp, held, known>>

Prune ==
  /\ \E S \in Batches("delivered") :
       /\ S # {}
       /\ row' = [m \in Messages |->
            IF m \in S THEN [row[m] EXCEPT !.status = "pruned", !.ripe = FALSE] ELSE row[m]]
  /\ UNCHANGED <<disp, held, known>>

\* a claim ends only under a dispatcher that does not keep it in time
TimePasses(m) ==
  /\ row[m].status \in {"pending", "processing", "delivered"}
  /\ ~row[m].ripe
  /\ row[m].status = "processing" => ~InTime(m)
  /\ row' = [row EXCEPT ![m].ripe = TRUE]
  /\ UNCHANGED <<disp, held, known>>

-----------------------------------------------------------------------------
(* Dispatchers                                                              *)

\* a worker's cycle opens with the recovery, a command goes on to its claim
Recover(d) ==
  /\ disp[d].pc = "idle"
  /\ d \notin OneShots
  /\ \E S \in Batches("processing") : Returned(S)
  /\ disp' = [disp EXCEPT ![d] = [Off EXCEPT !.pc = "claim"]]
  /\ UNCHANGED <<held, known>>

Dispatch(d) ==
  /\ disp[d].pc = "idle"
  /\ d \in OneShots
  /\ disp' = [disp EXCEPT ![d] = [Off EXCEPT !.pc = "claim"]]
  /\ UNCHANGED <<row, held, known>>

Claim(d) ==
  /\ disp[d].pc = "claim"
  /\ \E S \in Batches("pending") :
       /\ row' = [m \in Messages |->
            IF m \in S THEN [status |-> "processing", attempts |-> row[m].attempts + 1,
                             ripe |-> FALSE]
            ELSE row[m]]
       /\ disp' = [disp EXCEPT ![d] = [Off EXCEPT !.pc = "deliver",
            !.todo = {<<m, row[m].attempts + 1>> : m \in S}]]
  /\ UNCHANGED <<held, known>>

\* mutant: a refusal counts as an answer
MutOutcomes ==
  {[pc |-> "delivered", fact |-> f] : f \in {{"sent"}, {"waived"}, {"refused"}}}
    \cup {[pc |-> "failed", fact |-> f] : f \in {{}, {"sent"}}}

\* adapter.deliver: accepted, no active recipient, an error that leaves open
\* whether the receiver has it, a refusal that is not worth a retry
Outcomes ==
  {[pc |-> "delivered", fact |-> {"sent"}], [pc |-> "delivered", fact |-> {"waived"}],
   [pc |-> "refused", fact |-> {"refused"}]}
    \cup {[pc |-> "failed", fact |-> f] : f \in {{}, {"sent"}}}

Deliver(d) ==
  /\ disp[d].pc = "deliver"
  /\ \E t \in disp[d].todo, o \in Outcomes :
       /\ known' = [known EXCEPT ![t[1]] = known[t[1]] \cup o.fact]
       /\ disp' = [disp EXCEPT ![d] = [pc |-> o.pc, todo |-> disp[d].todo \ {t},
                                       m |-> t[1], tries |-> t[2]]]
  /\ UNCHANGED <<row, held>>

\* mutant: the update does not ask for the status
MutMarkDelivered(d) ==
  LET m == disp[d].m IN
  /\ disp[d].pc = "delivered"
  /\ Unlocked(m)
  /\ Put(m, "delivered", row[m].attempts, FALSE)
  /\ Continue(d)
  /\ Commit(d)
  /\ UNCHANGED known

\* mark_delivered: whoever claimed it.  A row locked by another dispatcher is
\* not processing, so the update never waits.
MarkDelivered(d) ==
  LET m == disp[d].m IN
  /\ disp[d].pc = "delivered"
  /\ IF row[m].status = "processing" THEN Put(m, "delivered", row[m].attempts, FALSE)
     ELSE UNCHANGED row
  /\ Continue(d)
  /\ Commit(d)
  /\ UNCHANGED known

\* mutant: the attempts that were made before this one are compared
MutExhausted(d) ==
  row[disp[d].m].attempts + 1 >= (IF disp[d].pc = "refused" THEN disp[d].tries ELSE MaxAttempts)

\* mutant: one attempt more than the maximum is allowed
MutLastAttempt(d) ==
  row[disp[d].m].attempts > (IF disp[d].pc = "refused" THEN disp[d].tries ELSE MaxAttempts)

\* a refused message is given up at the attempts it was claimed with
Exhausted(d) ==
  row[disp[d].m].attempts >= (IF disp[d].pc = "refused" THEN disp[d].tries ELSE MaxAttempts)

Waiting(d) ==
  /\ disp[d].pc \in {"failed", "refused"}
  /\ \E e \in Dispatchers \ {d} : disp[d].m \in held[e]

\* mark_delivery_failed: SELECT FOR UPDATE, then the status is looked at.  The
\* early return leaves the transaction open, and the row locked.
MarkDeliveryFailed(d) ==
  LET m == disp[d].m IN
  /\ disp[d].pc \in {"failed", "refused"}
  /\ ~Waiting(d)
  /\ \/ /\ row[m].status = "processing"
        /\ Put(m, IF Exhausted(d) THEN "failed" ELSE "pending", row[m].attempts, FALSE)
        /\ Commit(d)
     \/ /\ row[m].status # "processing"
        /\ held' = [held EXCEPT ![d] = held[d] \cup ({m} \ {r \in Messages : row[r].status = "pruned"})]
        /\ UNCHANGED row
  /\ Continue(d)
  /\ UNCHANGED known

EndCycle(d) ==
  /\ disp[d].pc = "deliver" /\ disp[d].todo = {}
  /\ Stop(d)
  /\ UNCHANGED <<row, known>>

Crash(d) ==
  /\ d \in Crashable
  /\ disp[d].pc \notin {"idle", "done"}
  /\ Stop(d)
  /\ UNCHANGED <<row, known>>

\* PostgreSQL fails one of two transactions that wait for each other
DeadlockVictim(d) ==
  /\ Waiting(d)
  /\ \E e \in Dispatchers \ {d} :
       Waiting(e) /\ disp[d].m \in held[e] /\ disp[e].m \in held[d]
  /\ Stop(d)
  /\ UNCHANGED <<row, known>>

-----------------------------------------------------------------------------
CycleStep(d) ==
  \/ Claim(d) \/ Deliver(d) \/ MarkDelivered(d) \/ MarkDeliveryFailed(d)
  \/ EndCycle(d) \/ Crash(d) \/ DeadlockVictim(d)

Next ==
  \/ \E m \in Messages : Publish(m) \/ Requeue(m) \/ TimePasses(m)
  \/ AdminRecover \/ Prune
  \/ \E d \in Dispatchers : Recover(d) \/ Dispatch(d) \/ CycleStep(d)

Spec == Init /\ [][Next]_vars

\* Time passes; a cycle goes on until it ends or its process dies; a worker
\* loop that cannot die polls for ever.  Operators and commands owe nothing.
Fairness ==
  /\ \A m \in Messages : WF_vars(TimePasses(m))
  /\ \A d \in Dispatchers : WF_vars(CycleStep(d))
  /\ \A d \in Dispatchers \ (OneShots \cup Crashable) : WF_vars(Recover(d))

FairSpec == Spec /\ Fairness

-----------------------------------------------------------------------------
(* Properties                                                               *)

\* A message is given up only for a reason: its attempts are used up or the
\* receiver refused it, however many dispatchers had it (mark_delivery_failed).
FailedHasReason ==
  \A m \in Messages :
    row[m].status = "failed" => row[m].attempts >= MaxAttempts \/ "refused" \in known[m]

\* Seen from outside, the table is the mailbox NotificationDelivery describes:
\* nothing is delivered that was not handed over or waived, a settled message
\* is not unsettled by a late dispatcher.
PhaseOf(r) == IF r.status \in {"pending", "processing"} THEN "queued" ELSE r.status
Phase == [m \in Messages |-> PhaseOf(row[m])]
Delivery == INSTANCE NotificationDelivery WITH phase <- Phase
IsDelivery == Delivery!Spec

\* Recovery gives a message attempts beyond the maximum, but no more than one
\* for each command that died, was late, or took the claim from its owner: as
\* long as batches hold one message, for the victim of a deadlock loses the rest
\* of its batch.
OverrunIsBounded ==
  \A m \in Messages : row[m].attempts <= MaxAttempts + Cardinality(OneShots)

\* Two transactions never keep the same row, and only rows nobody is due to
\* deliver are kept locked between statements.
LockedIsIdle ==
  \A d \in Dispatchers : \A m \in held[d] :
    /\ \A e \in Dispatchers \ {d} : m \notin held[e]
    /\ row[m].status # "processing"

\* At-least-once: a published message does not stay queued for ever, while one
\* worker keeps polling, although commands die or are late.
PublishedIsSettled ==
  \A m \in Messages :
    row[m].status \in {"pending", "processing"} ~> row[m].status \in {"delivered", "failed"}
=============================================================================
