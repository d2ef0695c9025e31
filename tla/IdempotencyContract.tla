-------------------------- MODULE IdempotencyContract --------------------------
(***************************************************************************)
(* What the idempotency middleware promises about one key, without its     *)
(* table, clock or lookups: at any time at most one request holds a key,   *)
(* a key is granted only while nobody holds it and no response is stored   *)
(* for it, and the stored response is the one its holder produced.         *)
(* Idempotency.tla is shown to implement this.                             *)
(***************************************************************************)
CONSTANTS Requests,
          Scopes,
          None     \* nobody; no request is None

VARIABLES holder,   \* scope -> the request executing under the key, or None
          stored    \* scope -> the request whose response is replayed, or None

contractVars == <<holder, stored>>

ContractInit ==
    /\ holder = [s \in Scopes |-> None]
    /\ stored = [s \in Scopes |-> None]

\* The key is free: r becomes its only holder.
Grant(s, r) ==
    /\ holder[s] = None
    /\ stored[s] = None
    /\ \A t \in Scopes : holder[t] # r
    /\ holder' = [holder EXCEPT ![s] = r]
    /\ UNCHANGED stored

\* The holder finished and its response is kept for repeats.
Keep(s) ==
    /\ holder[s] # None
    /\ holder' = [holder EXCEPT ![s] = None]
    /\ stored' = [stored EXCEPT ![s] = holder[s]]

\* The holder failed, crashed or could not record its outcome.
Drop(s) ==
    /\ holder[s] # None
    /\ holder' = [holder EXCEPT ![s] = None]
    /\ UNCHANGED stored

\* Stored responses reach their TTL.
Forget(S) ==
    /\ stored' = [s \in Scopes |-> IF s \in S THEN None ELSE stored[s]]
    /\ UNCHANGED holder

ContractNext ==
    \/ \E s \in Scopes : (\E r \in Requests : Grant(s, r)) \/ Keep(s) \/ Drop(s)
    \/ \E S \in SUBSET Scopes : Forget(S)

ContractSpec == ContractInit /\ [][ContractNext]_contractVars
================================================================================
