------------------------ MODULE NotificationDelivery ------------------------
(* What the outbox promises of a message, whoever dispatches it: it is      *)
(* handed over at least once before it counts as delivered, a delivered     *)
(* message is only ever removed, and one that was given up comes back only  *)
(* when an operator asks for it.                                            *)
CONSTANT Messages

VARIABLES
  phase,   \* [Messages -> Phases]
  known    \* [Messages -> what the receiver has let the dispatchers know]

Phases == {"none", "queued", "delivered", "failed", "pruned"}
Facts == {"sent", "waived", "refused"}

Init ==
  /\ phase = [m \in Messages |-> "none"]
  /\ known = [m \in Messages |-> {}]

Publish(m) == phase[m] = "none" /\ phase' = [phase EXCEPT ![m] = "queued"] /\ UNCHANGED known

\* an attempt may reach the receiver at any time, even after the message was
\* settled by somebody else
Attempt(m) ==
  /\ phase[m] # "none"
  /\ \E f \in Facts : known' = [known EXCEPT ![m] = known[m] \cup {f}]
  /\ UNCHANGED phase

Settle(m) ==
  /\ phase[m] = "queued"
  /\ known[m] \cap {"sent", "waived"} # {}
  /\ phase' = [phase EXCEPT ![m] = "delivered"]
  /\ UNCHANGED known

GiveUp(m) == phase[m] = "queued" /\ phase' = [phase EXCEPT ![m] = "failed"] /\ UNCHANGED known

Requeue(m) == phase[m] = "failed" /\ phase' = [phase EXCEPT ![m] = "queued"] /\ UNCHANGED known

Prune(S) ==
  /\ \A m \in S : phase[m] = "delivered"
  /\ phase' = [m \in Messages |-> IF m \in S THEN "pruned" ELSE phase[m]]
  /\ UNCHANGED known

Next ==
  \/ \E m \in Messages : Publish(m) \/ Attempt(m) \/ Settle(m) \/ GiveUp(m) \/ Requeue(m)
  \/ \E S \in SUBSET Messages : Prune(S)

Spec == Init /\ [][Next]_<<phase, known>>
=============================================================================
