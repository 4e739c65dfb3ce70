------------------------------ MODULE RateLimit ------------------------------
(***************************************************************************)
(* RateLimitMiddleware: a table of request times per client, the least     *)
(* recently used client first, of bounded size.                            *)
(***************************************************************************)
EXTENDS Integers, SequencesExt

CONSTANTS
  RequestLimit,    \* requests a client may send in a window
  Window,          \* window_seconds
  MaxClients       \* clients the table can hold

ASSUME LimitAssumption ==
  RequestLimit \in Nat \ {0} /\ Window \in Nat \ {0} /\ MaxClients \in Nat \ {0}

\* mutant: the window is not subtracted from the cutoff
MutRecent(stamps, now) ==
  LET kept == {i \in DOMAIN stamps : stamps[i] > now}
  IN IF kept = {} THEN <<>> ELSE SubSeq(stamps, Min(kept), Len(stamps))

\* the times of a client from the first on that is still in the window
Recent(stamps, now) ==
  LET kept == {i \in DOMAIN stamps : stamps[i] > now - Window}
  IN IF kept = {} THEN <<>> ELSE SubSeq(stamps, Min(kept), Len(stamps))

\* where a client is in the table: nowhere, or in one place
Places(table, client) == {i \in DOMAIN table : table[i].client = client}
Place(table, client) == CHOOSE i \in Places(table, client) : TRUE

StampsOf(table, client) ==
  IF Places(table, client) = {} THEN <<>> ELSE table[Place(table, client)].stamps

\* mutant: a full table grows
MutMakeRoom(table, client) ==
  IF Places(table, client) = {} THEN table ELSE RemoveAt(table, Place(table, client))

\* a known client leaves its place in the order; a new one evicts the first entry
\* of a full table
MakeRoom(table, client) ==
  CASE Places(table, client) # {} -> RemoveAt(table, Place(table, client))
    [] Places(table, client) = {} /\ Len(table) >= MaxClients -> Tail(table)
    [] OTHER -> table

\* __call__: whether the request is let through, and the table after it
Admitted(table, client, now) ==
  Len(Recent(StampsOf(table, client), now)) < RequestLimit
Asked(table, client, now) ==
  LET recent == Recent(StampsOf(table, client), now) IN
  Append(MakeRoom(table, client),
         [client |-> client,
          stamps |-> IF Len(recent) < RequestLimit THEN Append(recent, now) ELSE recent])
=============================================================================
