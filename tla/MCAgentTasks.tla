----------------------------- MODULE MCAgentTasks -----------------------------
(* Values of AgentTasks's constants for TLC. *)
EXTENDS AgentTasks, TLC

CONSTANTS s1, s2

\* the default policy, one that preapproves documents, one that refuses options
PoliciesTried ==
  {DefaultPolicy, DefaultPolicy \ {"ask_sensitive"}, DefaultPolicy \ {"option"}}

SessionSymmetry == Permutations(Sessions)
=============================================================================
