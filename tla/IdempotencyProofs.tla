--------------------------- MODULE IdempotencyProofs ---------------------------
(***************************************************************************)
(* Theorems about Idempotency, for any number of requests, keys, bodies,   *)
(* faults and any TTL. All but the first assume ~MayOutlive: a request is  *)
(* served before its TTL is over. IInv, the inductive invariant, is        *)
(* defined (and model-checked) beside the specification.                   *)
(***************************************************************************)
EXTENDS Idempotency, TLAPS

\* What the operators that write a row or an answer return.
LEMMA ClaimType ==
    ASSUME TypeOK, NEW r \in Requests, NEW id \in Nat, NEW old \in Row
    PROVE  Claim(r, id, old) \in Row
  BY IdempotencyAssumption DEF TypeOK, Claim, Row

\* The absent row is a row.
LEMMA NoRowType == NoRow \in Row
  BY DEF NoRow, Row

\* A keyed request names a key: without this the types are not inductive.
Scoped == \A r \in Requests : Keyed(r) => req[r].scope \in Scopes

\* Requests enter with a key of Scopes and keep it.
LEMMA ScopedStep == TypeOK /\ Scoped /\ [Next]_vars => Scoped'
<1> SUFFICES ASSUME TypeOK, Scoped, [Next]_vars PROVE Scoped'
  OBVIOUS
<1>1. ASSUME NEW r \in Requests, NEW s \in Scopes, NEW b \in Bodies, Arrive(r, s, b) PROVE Scoped'
  BY <1>1 DEF TypeOK, Scoped, Keyed, Arrive, GoTo
<1>2. ASSUME NEW r \in Requests,
             \/ ServeUnkeyed(r) \/ Reject(r) \/ Serve(r)
             \/ InsertFails(r) \/ OutcomeLost(r) \/ Crash(r)
      PROVE  Scoped'
  BY <1>2 DEF TypeOK, Scoped, Keyed, GoTo, ServeUnkeyed, Reject, Serve, Insert, InsertFails,
     LookupMissing, LookupExpired, LookupLive, Reclaim, ReclaimLost, HandlerReturns,
     BareReturns, Commit, Release, OutcomeLost, Crash
<1>3. ASSUME Tick \/ (\E cutoff \in 0..now : Purge(cutoff)) \/ UNCHANGED vars PROVE Scoped'
  BY <1>3 DEF Scoped, Keyed, Tick, Purge, vars
<1> QED
  BY <1>1, <1>2, <1>3 DEF Next

\* Every step keeps the types.
LEMMA TypeStep == TypeOK /\ Scoped /\ [Next]_vars => TypeOK'
<1> SUFFICES ASSUME TypeOK, Scoped, [Next]_vars PROVE TypeOK'
  OBVIOUS
<1> USE IdempotencyAssumption
<1>1. ASSUME NEW r \in Requests, ServeUnkeyed(r) PROVE TypeOK'
  BY <1>1 DEF TypeOK, ServeUnkeyed, GoTo, Places
<1>2. ASSUME NEW r \in Requests, Reject(r) PROVE TypeOK'
  BY <1>2 DEF TypeOK, Reject, GoTo, Reply, Places, Kinds
<1>3. ASSUME NEW r \in Requests, NEW s \in Scopes, NEW b \in Bodies, Arrive(r, s, b) PROVE TypeOK'
  BY <1>3 DEF TypeOK, Arrive, GoTo, Places
<1>4. ASSUME NEW r \in Requests, Insert(r) PROVE TypeOK'
  <2>1. Claim(r, nextId, NoRow) \in Row
    BY ClaimType, NoRowType DEF TypeOK
  <2>2. rows' \in [Scopes -> Row] /\ nextId' \in Nat \ {0}
    BY <1>4, <2>1 DEF TypeOK, Insert
  <2>3. hold' \in [Requests -> [id : Nat, exp : Nat]]
    BY <1>4 DEF TypeOK, Insert
  <2> QED
    BY <1>4, <2>2, <2>3 DEF TypeOK, Insert, GoTo, Places
<1>5. ASSUME NEW r \in Requests, InsertFails(r) PROVE TypeOK'
  <2>1. Claim(r, nextId, NoRow) \in Row
    BY ClaimType, NoRowType DEF TypeOK
  <2> QED
    BY <1>5, <2>1 DEF TypeOK, InsertFails, GoTo, Fault, Places
<1>6. ASSUME NEW r \in Requests, LookupMissing(r) PROVE TypeOK'
  BY <1>6 DEF TypeOK, LookupMissing, GoTo, Fault, Places
<1>7. ASSUME NEW r \in Requests, LookupExpired(r) PROVE TypeOK'
  <2>1. rows[req[r].scope] \in Row
    BY <1>7 DEF TypeOK, Scoped, Keyed, LookupExpired
  <2> QED
    BY <1>7, <2>1 DEF TypeOK, LookupExpired, GoTo, Places, Row
<1>8. ASSUME NEW r \in Requests, LookupLive(r) PROVE TypeOK'
  <2>1. rows[req[r].scope] \in Row
    BY <1>8 DEF TypeOK, Scoped, Keyed, LookupLive
  <2>2. answer' \in [Requests -> [kind : Kinds, of : Requests \cup {None}]]
    BY <1>8, <2>1 DEF TypeOK, LookupLive, Reply, Kinds, Row
  <2> QED
    BY <1>8, <2>2 DEF TypeOK, LookupLive, GoTo, Places
<1>9. ASSUME NEW r \in Requests, Reclaim(r) PROVE TypeOK'
  <2>1. Claim(r, hold[r].id, rows[req[r].scope]) \in Row
    BY <1>9, ClaimType DEF TypeOK, Scoped, Keyed, Reclaim
  <2> QED
    BY <1>9, <2>1 DEF TypeOK, Reclaim, GoTo, Places
<1>10. ASSUME NEW r \in Requests, ReclaimLost(r) PROVE TypeOK'
  <2>1. Claim(r, hold[r].id, rows[req[r].scope]) \in Row
    BY <1>10, ClaimType DEF TypeOK, Scoped, Keyed, ReclaimLost
  <2> QED
    BY <1>10, <2>1 DEF TypeOK, ReclaimLost, GoTo, Fault, Places
<1>11. ASSUME NEW r \in Requests, HandlerReturns(r) PROVE TypeOK'
  <2>1. pc' \in [Requests -> Places]
    BY <1>11 DEF TypeOK, HandlerReturns, GoTo, Places
  <2>2. answer' \in [Requests -> [kind : Kinds, of : Requests \cup {None}]]
    BY <1>11 DEF TypeOK, HandlerReturns, Reply, Kinds
  <2> QED
    BY <1>11, <2>1, <2>2 DEF TypeOK, HandlerReturns
<1>12. ASSUME NEW r \in Requests, BareReturns(r) PROVE TypeOK'
  BY <1>12 DEF TypeOK, BareReturns, GoTo, Reply, Places, Kinds
<1>13. ASSUME NEW r \in Requests, NEW c \in BOOLEAN, Commit(r, c) PROVE TypeOK'
  <2> DEFINE row == rows[req[r].scope]
             kept == [id |-> row.id, hash |-> row.hash, state |-> "done", stored |-> c,
                      by |-> r, expires |-> req[r].start + TTL]
  <2>1. kept \in Row
    BY <1>13 DEF TypeOK, Scoped, Keyed, Commit, Row
  <2>2. rows' = rows \/ rows' = [rows EXCEPT ![req[r].scope] = kept]
    BY <1>13 DEF Commit
  <2>3. rows' \in [Scopes -> Row]
    BY <2>1, <2>2 DEF TypeOK
  <2> QED
    BY <1>13, <2>3 DEF TypeOK, Commit, GoTo, Places
<1>14. ASSUME NEW r \in Requests, Release(r) PROVE TypeOK'
  <2>1. rows' = rows \/ rows' = [rows EXCEPT ![req[r].scope] = NoRow]
    BY <1>14 DEF Release
  <2>2. rows' \in [Scopes -> Row]
    BY <2>1, NoRowType DEF TypeOK
  <2> QED
    BY <1>14, <2>2 DEF TypeOK, Release, GoTo, Places
<1>15. ASSUME NEW r \in Requests, OutcomeLost(r) PROVE TypeOK'
  BY <1>15 DEF TypeOK, OutcomeLost, GoTo, Fault, Places
<1>16. ASSUME NEW r \in Requests, Crash(r) PROVE TypeOK'
  BY <1>16 DEF TypeOK, Crash, GoTo, Fault, Places
<1>17. ASSUME NEW cutoff \in 0..now, Purge(cutoff) PROVE TypeOK'
  BY <1>17, NoRowType DEF TypeOK, Purge
<1>18. ASSUME Tick PROVE TypeOK'
  BY <1>18 DEF TypeOK, Tick
<1>19. ASSUME UNCHANGED vars PROVE TypeOK'
  BY <1>19 DEF TypeOK, vars
<1> QED
  BY <1>1, <1>2, <1>3, <1>4, <1>5, <1>6, <1>7, <1>8, <1>9, <1>10, <1>11, <1>12, <1>13,
     <1>14, <1>15, <1>16, <1>17, <1>18, <1>19 DEF Next, Serve

\* The initial state is typed.
LEMMA TypeInit == Init => TypeOK /\ Scoped
  BY IdempotencyAssumption, NoRowType DEF Init, TypeOK, Silent, Places, Kinds, Scoped, Keyed

\* Every variable of the middleware keeps its type.
THEOREM TypeCorrect == Spec => []TypeOK
  BY TypeInit, TypeStep, ScopedStep, PTL DEF Spec

--------------------------------------------------------------------------------
\* The inductive invariant, one lemma per conjunct. The steps that touch
\* neither the table nor the pc of a keyed request are taken together.

\* Requests enter with the clock they read and leave before their TTL.
LEMMA KeyedStep == ~MayOutlive /\ IInv /\ [Next]_vars => KeyedInTime'
<1> SUFFICES ASSUME ~MayOutlive, TypeOK, KeyedInTime, [Next]_vars PROVE KeyedInTime'
  BY DEF IInv
<1> USE IdempotencyAssumption
<1>1. ASSUME NEW r \in Requests, NEW s \in Scopes, NEW b \in Bodies, Arrive(r, s, b)
      PROVE  KeyedInTime'
  BY <1>1 DEF TypeOK, KeyedInTime, Keyed, Arrive, GoTo
<1>2. ASSUME NEW r \in Requests,
             \/ ServeUnkeyed(r) \/ Reject(r) \/ Serve(r)
             \/ InsertFails(r) \/ OutcomeLost(r) \/ Crash(r)
      PROVE  KeyedInTime'
  <2>1. req' = req /\ now' = now
    BY <1>2 DEF ServeUnkeyed, Reject, Serve, Insert, InsertFails, LookupMissing, LookupExpired,
       LookupLive, Reclaim, ReclaimLost, HandlerReturns, BareReturns, Commit, Release,
       OutcomeLost, Crash
  <2>2. \A q \in Requests : Keyed(q)' => Keyed(q)
    BY <1>2 DEF TypeOK, Keyed, GoTo, ServeUnkeyed, Reject, Serve, Insert, InsertFails,
       LookupMissing, LookupExpired, LookupLive, Reclaim, ReclaimLost, HandlerReturns,
       BareReturns, Commit, Release, OutcomeLost, Crash
  <2> QED
    BY <2>1, <2>2 DEF KeyedInTime
<1>3. ASSUME Tick PROVE KeyedInTime'
  BY <1>3 DEF TypeOK, KeyedInTime, Keyed, Tick
<1>4. ASSUME (\E cutoff \in 0..now : Purge(cutoff)) \/ UNCHANGED vars PROVE KeyedInTime'
  BY <1>4 DEF KeyedInTime, Keyed, Purge, vars
<1> QED
  BY <1>1, <1>2, <1>3, <1>4 DEF Next

\* Whoever may write the row of a key by INSERT or by reclaiming finds no owner.
LEMMA NoOwnerWhenAbsent ==
    ASSUME IInv, NEW s \in Scopes, ~Present(rows[s]),
           NEW q \in Requests, Owner(q)
    PROVE  req[q].scope # s
  BY DEF IInv, OwnerHoldsRow, Owner, Mine, Present

\* The row a reclaimer matches has expired; an owner's row has not.
LEMMA NoOwnerWhenExpired ==
    ASSUME IInv, NEW r \in Requests, pc[r] = "reclaim", ReclaimMatches(r),
           NEW q \in Requests, Owner(q)
    PROVE  req[q].scope # req[r].scope
<1> SUFFICES ASSUME req[q].scope = req[r].scope PROVE FALSE
  OBVIOUS
<1>1. rows[req[q].scope].expires = req[q].start + TTL
  BY DEF IInv, OwnerHoldsRow, Owner
<1>2. now < req[q].start + TTL
  BY DEF IInv, KeyedInTime, Keyed, Owner
<1>3. hold[r].exp <= req[r].start /\ req[r].start <= now
  BY DEF IInv, ReclaimsExpired, KeyedInTime, Keyed
<1>4. rows[req[r].scope].expires = hold[r].exp
  BY DEF ReclaimMatches
<1>5. now \in Nat /\ req[r].start \in Nat /\ req[q].start \in Nat /\ hold[r].exp \in Nat /\ TTL \in Nat
  BY IdempotencyAssumption DEF IInv, TypeOK
<1> QED
  BY <1>1, <1>2, <1>3, <1>4, <1>5

\* A second owner of a key never appears.
LEMMA ExclusiveStep == IInv /\ [Next]_vars => ExclusiveClaim'
<1> SUFFICES ASSUME IInv, [Next]_vars PROVE ExclusiveClaim'
  OBVIOUS
<1> USE DEF IInv
<1>1. ASSUME NEW r \in Requests, Insert(r) PROVE ExclusiveClaim'
  <2>1. CASE Present(rows[req[r].scope])
    BY <1>1, <2>1 DEF TypeOK, ExclusiveClaim, Owner, Insert, GoTo
  <2>2. CASE ~Present(rows[req[r].scope])
    <3>1. req[r].scope \in Scopes
      BY <1>1 DEF KeyedInTime, Keyed, Insert
    <3>2. \A q \in Requests : Owner(q) => req[q].scope # req[r].scope
      BY <2>2, <3>1, NoOwnerWhenAbsent
    <3> QED
      BY <1>1, <3>2 DEF TypeOK, ExclusiveClaim, Owner, Insert, GoTo
  <2> QED
    BY <2>1, <2>2
<1>2. ASSUME NEW r \in Requests, Reclaim(r) PROVE ExclusiveClaim'
  <2>1. \A q \in Requests : Owner(q) => req[q].scope # req[r].scope
    BY <1>2, NoOwnerWhenExpired DEF Reclaim
  <2> QED
    BY <1>2, <2>1 DEF TypeOK, ExclusiveClaim, Owner, Reclaim, GoTo
<1>3. ASSUME NEW r \in Requests, NEW s \in Scopes, NEW b \in Bodies, Arrive(r, s, b)
      PROVE  ExclusiveClaim'
  BY <1>3 DEF TypeOK, ExclusiveClaim, Owner, Arrive, GoTo
<1>4. ASSUME NEW r \in Requests,
             \/ ServeUnkeyed(r) \/ Reject(r) \/ LookupMissing(r) \/ LookupExpired(r)
             \/ LookupLive(r) \/ ReclaimLost(r) \/ HandlerReturns(r) \/ BareReturns(r)
             \/ (\E c \in BOOLEAN : Commit(r, c)) \/ Release(r)
             \/ InsertFails(r) \/ OutcomeLost(r) \/ Crash(r)
      PROVE  ExclusiveClaim'
  <2>1. req' = req
    BY <1>4 DEF ServeUnkeyed, Reject, InsertFails, LookupMissing, LookupExpired, LookupLive,
       ReclaimLost, HandlerReturns, BareReturns, Commit, Release, OutcomeLost, Crash
  <2>2. \A q \in Requests : Owner(q)' => Owner(q)
    BY <1>4 DEF TypeOK, Owner, GoTo, ServeUnkeyed, Reject, InsertFails, LookupMissing,
       LookupExpired, LookupLive, ReclaimLost, HandlerReturns, BareReturns, Commit, Release,
       OutcomeLost, Crash
  <2> QED
    BY <2>1, <2>2 DEF ExclusiveClaim
<1>5. ASSUME Tick \/ (\E cutoff \in 0..now : Purge(cutoff)) \/ UNCHANGED vars PROVE ExclusiveClaim'
  BY <1>5 DEF ExclusiveClaim, Owner, Tick, Purge, vars
<1> QED
  BY <1>1, <1>2, <1>3, <1>4, <1>5 DEF Next, Serve

\* A lookup sends only an expired row to be reclaimed.
LEMMA ReclaimStep == IInv /\ [Next]_vars => ReclaimsExpired'
<1> SUFFICES ASSUME TypeOK, ReclaimsExpired, [Next]_vars PROVE ReclaimsExpired'
  BY DEF IInv
<1>1. ASSUME NEW r \in Requests, LookupExpired(r) PROVE ReclaimsExpired'
  BY <1>1 DEF TypeOK, ReclaimsExpired, LookupExpired, GoTo
<1>2. ASSUME NEW r \in Requests, Insert(r) PROVE ReclaimsExpired'
  BY <1>2 DEF TypeOK, ReclaimsExpired, Insert, GoTo
<1>3. ASSUME NEW r \in Requests, NEW s \in Scopes, NEW b \in Bodies, Arrive(r, s, b)
      PROVE  ReclaimsExpired'
  BY <1>3 DEF TypeOK, ReclaimsExpired, Arrive, GoTo
<1>4. ASSUME NEW r \in Requests,
             \/ ServeUnkeyed(r) \/ Reject(r) \/ LookupMissing(r) \/ LookupLive(r)
             \/ Reclaim(r) \/ ReclaimLost(r) \/ HandlerReturns(r) \/ BareReturns(r)
             \/ (\E c \in BOOLEAN : Commit(r, c)) \/ Release(r)
             \/ InsertFails(r) \/ OutcomeLost(r) \/ Crash(r)
      PROVE  ReclaimsExpired'
  <2>1. req' = req /\ hold' = hold
    BY <1>4 DEF ServeUnkeyed, Reject, InsertFails, LookupMissing, LookupLive, Reclaim,
       ReclaimLost, HandlerReturns, BareReturns, Commit, Release, OutcomeLost, Crash
  <2>2. \A q \in Requests : pc'[q] = "reclaim" => pc[q] = "reclaim"
    BY <1>4 DEF TypeOK, GoTo, ServeUnkeyed, Reject, InsertFails, LookupMissing, LookupLive,
       Reclaim, ReclaimLost, HandlerReturns, BareReturns, Commit, Release, OutcomeLost, Crash
  <2> QED
    BY <2>1, <2>2 DEF ReclaimsExpired
<1>5. ASSUME Tick \/ (\E cutoff \in 0..now : Purge(cutoff)) \/ UNCHANGED vars PROVE ReclaimsExpired'
  BY <1>5 DEF ReclaimsExpired, Tick, Purge, vars
<1> QED
  BY <1>1, <1>2, <1>3, <1>4, <1>5 DEF Next, Serve

\* An owner keeps its row when nobody but itself writes the row of its key.
LEMMA OwnerFrame ==
    ASSUME IInv, NEW q \in Requests, Owner(q),
           rows'[req[q].scope] = rows[req[q].scope], req' = req, hold'[q] = hold[q]
    PROVE  LET row == rows'[req'[q].scope] IN
           /\ row.id = hold'[q].id /\ hold'[q].id # 0
           /\ row.state = "in_flight"
           /\ row.hash = req'[q].body
           /\ row.expires = req'[q].start + TTL
  BY DEF IInv, OwnerHoldsRow, Mine

\* Nobody else writes, deletes or purges the row of a running owner.
LEMMA OwnerStep == ~MayOutlive /\ IInv /\ [Next]_vars => OwnerHoldsRow'
<1> SUFFICES ASSUME ~MayOutlive, IInv, [Next]_vars, NEW q \in Requests, Owner(q)'
             PROVE  LET row == rows'[req'[q].scope] IN
                    /\ row.id = hold'[q].id /\ hold'[q].id # 0
                    /\ row.state = "in_flight"
                    /\ row.hash = req'[q].body
                    /\ row.expires = req'[q].start + TTL
  BY DEF OwnerHoldsRow, Mine
<1> DEFINE Fits == LET row == rows'[req'[q].scope] IN
                   /\ row.id = hold'[q].id /\ hold'[q].id # 0
                   /\ row.state = "in_flight"
                   /\ row.hash = req'[q].body
                   /\ row.expires = req'[q].start + TTL
<1>0. TypeOK /\ KeyedInTime /\ OwnerHoldsRow /\ ExclusiveClaim
  BY DEF IInv
<1>1. ASSUME NEW r \in Requests, Insert(r) PROVE Fits
  <2>1. req[r].scope \in Scopes /\ req' = req
    BY <1>0, <1>1 DEF KeyedInTime, Keyed, Insert
  <2>2. CASE Present(rows[req[r].scope])
    <3>1. Owner(q) /\ rows' = rows /\ hold' = hold
      BY <1>0, <1>1, <2>2 DEF TypeOK, Owner, Insert, GoTo
    <3> QED
      BY <2>1, <3>1, OwnerFrame
  <2>3. CASE ~Present(rows[req[r].scope])
    <3>1. rows' = [rows EXCEPT ![req[r].scope] = Claim(r, nextId, NoRow)]
      BY <1>1, <2>3 DEF Insert
    <3>2. hold' = [hold EXCEPT ![r] = [id |-> nextId, exp |-> req[r].start + TTL]]
      BY <1>1, <2>3 DEF Insert
    <3>3. CASE q = r
      BY <1>0, <2>1, <3>1, <3>2, <3>3 DEF TypeOK, Claim
    <3>4. CASE q # r
      <4>1. Owner(q)
        BY <1>0, <1>1, <2>3, <3>4 DEF TypeOK, Owner, Insert, GoTo
      <4>2. req[q].scope # req[r].scope
        BY <2>1, <2>3, <4>1, NoOwnerWhenAbsent
      <4>3. req[q].scope \in Scopes
        BY <1>0, <4>1 DEF KeyedInTime, Keyed, Owner
      <4>4. rows'[req[q].scope] = rows[req[q].scope] /\ hold'[q] = hold[q]
        BY <1>0, <3>1, <3>2, <3>4, <4>2, <4>3 DEF TypeOK
      <4> QED
        BY <2>1, <4>1, <4>4, OwnerFrame
    <3> QED
      BY <3>3, <3>4
  <2> QED
    BY <2>2, <2>3
<1>2. ASSUME NEW r \in Requests, Reclaim(r) PROVE Fits
  <2>1. /\ req[r].scope \in Scopes /\ req' = req /\ hold' = hold
        /\ rows' = [rows EXCEPT ![req[r].scope] = Claim(r, hold[r].id, rows[req[r].scope])]
    BY <1>0, <1>2 DEF KeyedInTime, Keyed, Reclaim
  <2>2. CASE q = r
    BY <1>0, <1>2, <2>1, <2>2 DEF TypeOK, Claim, Reclaim, ReclaimMatches, Mine
  <2>3. CASE q # r
    <3>1. Owner(q)
      BY <1>0, <1>2, <2>3 DEF TypeOK, Owner, Reclaim, GoTo
    <3>2. req[q].scope # req[r].scope /\ req[q].scope \in Scopes
      BY <1>0, <1>2, <3>1, NoOwnerWhenExpired DEF Reclaim, KeyedInTime, Keyed, Owner
    <3>3. rows'[req[q].scope] = rows[req[q].scope]
      BY <1>0, <2>1, <3>2 DEF TypeOK
    <3> QED
      BY <2>1, <3>1, <3>3, OwnerFrame
  <2> QED
    BY <2>2, <2>3
<1>3. ASSUME NEW r \in Requests, InsertFails(r) PROVE Fits
  <2>1. Owner(q) /\ req' = req /\ hold' = hold
    BY <1>0, <1>3 DEF TypeOK, Owner, InsertFails, GoTo
  <2>2. req[q].scope # req[r].scope
    BY <1>0, <1>3, <2>1, NoOwnerWhenAbsent DEF InsertFails, KeyedInTime, Keyed
  <2>3. rows'[req[q].scope] = rows[req[q].scope]
    BY <1>0, <1>3, <2>1, <2>2 DEF TypeOK, InsertFails, KeyedInTime, Keyed, Owner
  <2> QED
    BY <2>1, <2>3, OwnerFrame
<1>4. ASSUME NEW r \in Requests, ReclaimLost(r) PROVE Fits
  <2>1. Owner(q) /\ req' = req /\ hold' = hold /\ pc[r] = "reclaim"
    BY <1>0, <1>4 DEF TypeOK, Owner, ReclaimLost, GoTo
  <2>2. CASE rows' = rows
    BY <2>1, <2>2, OwnerFrame
  <2>3. CASE ReclaimMatches(r) /\ rows' = [rows EXCEPT ![req[r].scope] = Claim(r, hold[r].id, rows[req[r].scope])]
    <3>1. req[q].scope # req[r].scope
      BY <2>1, <2>3, NoOwnerWhenExpired
    <3>2. rows'[req[q].scope] = rows[req[q].scope]
      BY <1>0, <2>1, <2>3, <3>1 DEF TypeOK, KeyedInTime, Keyed, Owner
    <3> QED
      BY <2>1, <3>2, OwnerFrame
  <2> QED
    BY <1>4, <2>2, <2>3 DEF ReclaimLost
<1>5. ASSUME NEW r \in Requests, (\E c \in BOOLEAN : Commit(r, c)) \/ Release(r) PROVE Fits
  <2>1. Owner(r) /\ pc'[r] = "done" /\ req' = req /\ hold' = hold
    BY <1>0, <1>5 DEF TypeOK, Owner, Commit, Release, GoTo
  <2>2. q # r /\ Owner(q)
    BY <1>0, <1>5, <2>1 DEF TypeOK, Owner, Commit, Release, GoTo
  <2>3. req[q].scope # req[r].scope
    BY <1>0, <2>1, <2>2 DEF ExclusiveClaim
  <2>4. rows'[req[q].scope] = rows[req[q].scope]
    BY <1>0, <1>5, <2>2, <2>3 DEF TypeOK, Commit, Release, KeyedInTime, Keyed, Owner
  <2> QED
    BY <2>1, <2>2, <2>4, OwnerFrame
<1>6. ASSUME NEW r \in Requests, LookupExpired(r) PROVE Fits
  <2>1. Owner(q) /\ req' = req /\ rows' = rows /\ hold'[q] = hold[q]
    BY <1>0, <1>6 DEF TypeOK, Owner, LookupExpired, GoTo
  <2> QED
    BY <2>1, OwnerFrame
<1>7. ASSUME NEW r \in Requests, NEW s \in Scopes, NEW b \in Bodies, Arrive(r, s, b) PROVE Fits
  <2>1. Owner(q) /\ req'[q] = req[q] /\ rows' = rows /\ hold' = hold
    BY <1>0, <1>7 DEF TypeOK, Owner, Arrive, GoTo
  <2> QED
    BY <1>0, <2>1 DEF OwnerHoldsRow, Mine
<1>8. ASSUME NEW r \in Requests,
             \/ ServeUnkeyed(r) \/ Reject(r) \/ LookupMissing(r) \/ LookupLive(r)
             \/ HandlerReturns(r) \/ BareReturns(r) \/ OutcomeLost(r) \/ Crash(r)
      PROVE  Fits
  <2>1. req' = req /\ rows' = rows /\ hold' = hold
    BY <1>8 DEF ServeUnkeyed, Reject, LookupMissing, LookupLive, HandlerReturns, BareReturns,
       OutcomeLost, Crash
  <2>2. Owner(q)
    BY <1>0, <1>8 DEF TypeOK, Owner, GoTo, ServeUnkeyed, Reject, LookupMissing, LookupLive,
       HandlerReturns, BareReturns, OutcomeLost, Crash
  <2> QED
    BY <2>1, <2>2, OwnerFrame
<1>9. ASSUME NEW cutoff \in 0..now, Purge(cutoff) PROVE Fits
  <2>1. Owner(q) /\ req' = req /\ hold' = hold
    BY <1>9 DEF Purge, Owner
  <2>2. rows[req[q].scope].expires = req[q].start + TTL
    BY <1>0, <2>1 DEF OwnerHoldsRow
  <2>3. now < req[q].start + TTL /\ req[q].scope \in Scopes
    BY <1>0, <2>1 DEF KeyedInTime, Keyed, Owner
  <2>4. ~(rows[req[q].scope].expires <= cutoff)
    BY <1>0, <2>2, <2>3, IdempotencyAssumption DEF TypeOK
  <2>5. rows'[req[q].scope] = rows[req[q].scope]
    BY <1>9, <2>3, <2>4 DEF Purge
  <2> QED
    BY <2>1, <2>5, OwnerFrame
<1>10. ASSUME Tick \/ UNCHANGED vars PROVE Fits
  <2>1. Owner(q) /\ req' = req /\ rows' = rows /\ hold' = hold
    BY <1>10 DEF Tick, vars, Owner
  <2> QED
    BY <2>1, OwnerFrame
<1> QED
  BY <1>1, <1>2, <1>3, <1>4, <1>5, <1>6, <1>7, <1>8, <1>9, <1>10 DEF Next, Serve

\* A request that is done is over: its answer and what it asked stay.
LEMMA DoneStays ==
    ASSUME TypeOK, [Next]_vars, NEW q \in Requests, pc[q] = "done"
    PROVE  pc'[q] = "done" /\ req'[q] = req[q] /\ answer'[q] = answer[q]
<1>1. ASSUME NEW r \in Requests,
             \/ ServeUnkeyed(r) \/ Reject(r)
             \/ (\E s \in Scopes, b \in Bodies : Arrive(r, s, b))
             \/ Serve(r) \/ InsertFails(r) \/ OutcomeLost(r) \/ Crash(r)
      PROVE  pc'[q] = "done" /\ req'[q] = req[q] /\ answer'[q] = answer[q]
  <2>1. pc[r] # "done"
    BY <1>1 DEF Keyed, ServeUnkeyed, Reject, Arrive, Serve, Insert, InsertFails, LookupMissing,
       LookupExpired, LookupLive, Reclaim, ReclaimLost, HandlerReturns, BareReturns, Commit,
       Release, OutcomeLost, Crash
  <2>2. q # r
    BY <2>1
  <2>3. pc'[q] = pc[q]
    BY <1>1, <2>2 DEF TypeOK, GoTo, ServeUnkeyed, Reject, Arrive, Serve, Insert, InsertFails,
       LookupMissing, LookupExpired, LookupLive, Reclaim, ReclaimLost, HandlerReturns,
       BareReturns, Commit, Release, OutcomeLost, Crash
  <2>4. req'[q] = req[q]
    BY <1>1, <2>2 DEF TypeOK, ServeUnkeyed, Reject, Arrive, Serve, Insert, InsertFails,
       LookupMissing, LookupExpired, LookupLive, Reclaim, ReclaimLost, HandlerReturns,
       BareReturns, Commit, Release, OutcomeLost, Crash
  <2>5. answer'[q] = answer[q]
    BY <1>1, <2>2 DEF TypeOK, Reply, ServeUnkeyed, Reject, Arrive, Serve, Insert, InsertFails,
       LookupMissing, LookupExpired, LookupLive, Reclaim, ReclaimLost, HandlerReturns,
       BareReturns, Commit, Release, OutcomeLost, Crash
  <2> QED
    BY <2>3, <2>4, <2>5
<1>2. ASSUME Tick \/ (\E cutoff \in 0..now : Purge(cutoff)) \/ UNCHANGED vars
      PROVE  pc'[q] = "done" /\ req'[q] = req[q] /\ answer'[q] = answer[q]
  BY <1>2 DEF Tick, Purge, vars
<1> QED
  BY <1>1, <1>2 DEF Next

\* A row that is finished after a step was finished before it, or is the row
\* a request has just committed.
LEMMA DoneRows ==
    ASSUME IInv, [Next]_vars, NEW s \in Scopes, rows'[s].state = "done"
    PROVE  \/ rows[s] = rows'[s]
           \/ \E r \in Requests, c \in BOOLEAN :
                 Commit(r, c) /\ req[r].scope = s /\ Mine(r) /\ rows'[s].by = r
                 /\ rows'[s].id = rows[s].id /\ rows'[s].hash = rows[s].hash
<1>0. TypeOK /\ KeyedInTime
  BY DEF IInv
<1> DEFINE Wanted == \/ rows[s] = rows'[s]
                     \/ \E r \in Requests, c \in BOOLEAN :
                           Commit(r, c) /\ req[r].scope = s /\ Mine(r) /\ rows'[s].by = r
                           /\ rows'[s].id = rows[s].id /\ rows'[s].hash = rows[s].hash
<1>1. ASSUME NEW r \in Requests, Insert(r) \/ InsertFails(r) \/ Reclaim(r) \/ ReclaimLost(r)
      PROVE  Wanted
  <2>1. \/ rows' = rows
        \/ \E id, old : rows' = [rows EXCEPT ![req[r].scope] = Claim(r, id, old)]
    BY <1>1 DEF Insert, InsertFails, Reclaim, ReclaimLost
  <2>2. \A id, old : Claim(r, id, old).state = "in_flight"
    BY DEF Claim
  <2>3. rows'[s] = rows[s] \/ rows'[s].state = "in_flight"
    BY <1>0, <2>1, <2>2 DEF TypeOK
  <2> QED
    BY <2>3
<1>2. ASSUME NEW r \in Requests, NEW c \in BOOLEAN, Commit(r, c) PROVE Wanted
  <2>1. CASE rows' = rows
    BY <2>1
  <2>2. CASE Mine(r) /\ rows' # rows
    <3> DEFINE row == rows[req[r].scope]
               kept == [id |-> row.id, hash |-> row.hash, state |-> "done", stored |-> c,
                        by |-> r, expires |-> req[r].start + TTL]
    <3>1. rows' = [rows EXCEPT ![req[r].scope] = kept]
      BY <1>2, <2>2 DEF Commit
    <3>2. CASE req[r].scope = s
      <4>1. rows'[s] = kept
        BY <1>0, <3>1, <3>2 DEF TypeOK
      <4> QED
        BY <1>2, <2>2, <3>2, <4>1
    <3>3. CASE req[r].scope # s
      BY <1>0, <3>1, <3>3 DEF TypeOK
    <3> QED
      BY <3>2, <3>3
  <2> QED
    BY <1>2, <2>1, <2>2 DEF Commit
<1>3. ASSUME NEW r \in Requests, Release(r) PROVE Wanted
  BY <1>0, <1>3 DEF TypeOK, Release, NoRow
<1>4. ASSUME NEW cutoff \in 0..now, Purge(cutoff) PROVE Wanted
  BY <1>4 DEF Purge, NoRow
<1>5. ASSUME NEW r \in Requests,
             \/ ServeUnkeyed(r) \/ Reject(r)
             \/ (\E k \in Scopes, b \in Bodies : Arrive(r, k, b))
             \/ LookupMissing(r) \/ LookupExpired(r) \/ LookupLive(r)
             \/ HandlerReturns(r) \/ BareReturns(r) \/ OutcomeLost(r) \/ Crash(r)
      PROVE  Wanted
  BY <1>5 DEF ServeUnkeyed, Reject, Arrive, LookupMissing, LookupExpired, LookupLive,
     HandlerReturns, BareReturns, OutcomeLost, Crash
<1>6. ASSUME Tick \/ UNCHANGED vars PROVE Wanted
  BY <1>6 DEF Tick, vars
<1> QED
  BY <1>1, <1>2, <1>3, <1>4, <1>5, <1>6 DEF Next, Serve

\* A finished row goes on naming a success of its key and body.
LEMMA DoneStep == IInv /\ [Next]_vars => DoneBySuccess'
<1> SUFFICES ASSUME IInv, [Next]_vars, NEW s \in Scopes, rows'[s].state = "done"
             PROVE  /\ rows'[s].id # 0
                    /\ rows'[s].by \in Requests
                    /\ pc'[rows'[s].by] = "done"
                    /\ answer'[rows'[s].by].kind = "ok"
                    /\ req'[rows'[s].by].scope = s
                    /\ req'[rows'[s].by].body = rows'[s].hash
  BY DEF DoneBySuccess, Present
<1>0. TypeOK /\ OwnerHoldsRow /\ DoneBySuccess /\ AnswersFit
  BY DEF IInv
<1>1. CASE rows[s] = rows'[s]
  <2>1. rows[s].by \in Requests /\ pc[rows[s].by] = "done"
    BY <1>0, <1>1 DEF DoneBySuccess
  <2> QED
    BY <1>0, <1>1, <2>1, DoneStays DEF DoneBySuccess, Present
<1>2. ASSUME NEW r \in Requests, NEW c \in BOOLEAN,
             Commit(r, c), req[r].scope = s, Mine(r), rows'[s].by = r,
             rows'[s].id = rows[s].id, rows'[s].hash = rows[s].hash
      PROVE  /\ rows'[s].id # 0
             /\ rows'[s].by \in Requests
             /\ pc'[rows'[s].by] = "done"
             /\ answer'[rows'[s].by].kind = "ok"
             /\ req'[rows'[s].by].scope = s
             /\ req'[rows'[s].by].body = rows'[s].hash
  <2>1. pc[r] = "commit" /\ pc'[r] = "done" /\ req' = req /\ answer' = answer
    BY <1>0, <1>2 DEF TypeOK, Commit, GoTo
  <2>2. answer[r].kind = "ok"
    BY <1>0, <2>1 DEF AnswersFit
  <2>3. rows[s].hash = req[r].body
    BY <1>0, <1>2, <2>1 DEF OwnerHoldsRow, Owner
  <2>4. rows[s].id # 0
    BY <1>2 DEF Mine
  <2> QED
    BY <1>2, <2>1, <2>2, <2>3, <2>4
<1> QED
  BY <1>1, <1>2, DoneRows

\* A new replay answers from a finished row of the same key and body.
LEMMA ReplayAnswers ==
    ASSUME IInv, [Next]_vars, NEW r \in Requests,
           answer'[r].kind \in {"replay", "uncaptured"}
    PROVE  \/ answer'[r] = answer[r] /\ pc[r] = "done"
           \/ LET row == rows[req[r].scope] IN
              /\ pc[r] = "lookup" /\ pc'[r] = "done" /\ req' = req
              /\ row.state = "done" /\ row.hash = req[r].body
              /\ answer'[r].of = row.by
<1>0. TypeOK /\ AnswersFit
  BY DEF IInv
<1> DEFINE Wanted == \/ answer'[r] = answer[r] /\ pc[r] = "done"
                     \/ LET row == rows[req[r].scope] IN
                        /\ pc[r] = "lookup" /\ pc'[r] = "done" /\ req' = req
                        /\ row.state = "done" /\ row.hash = req[r].body
                        /\ answer'[r].of = row.by
<1>1. CASE answer'[r] = answer[r]
  BY <1>0, <1>1 DEF AnswersFit
<1>2. ASSUME NEW q \in Requests, LookupLive(q), answer'[r] # answer[r] PROVE Wanted
  <2>1. q = r
    BY <1>0, <1>2 DEF TypeOK, LookupLive, Reply
  <2>2. pc[r] = "lookup" /\ pc'[r] = "done" /\ req' = req
    BY <1>0, <1>2, <2>1 DEF TypeOK, LookupLive, GoTo
  <2>3. ~Reply(r, "mismatch") /\ ~Reply(r, "conflict")
    BY <1>0 DEF TypeOK, Reply
  <2>4. LET row == rows[req[r].scope] IN
        /\ row.hash = req[r].body
        /\ row.state = "done"
        /\ answer' = [answer EXCEPT ![r] =
               [kind |-> IF row.stored THEN "replay" ELSE "uncaptured", of |-> row.by]]
    BY <1>2, <2>1, <2>3 DEF LookupLive
  <2> QED
    BY <1>0, <2>2, <2>4 DEF TypeOK
<1>3. ASSUME NEW q \in Requests, Reject(q) \/ HandlerReturns(q) \/ BareReturns(q),
             answer'[r] # answer[r]
      PROVE  Wanted
  BY <1>0, <1>3 DEF TypeOK, Reject, HandlerReturns, BareReturns, Reply
<1>4. ASSUME answer'[r] # answer[r],
             \A q \in Requests : ~(LookupLive(q) \/ Reject(q) \/ HandlerReturns(q) \/ BareReturns(q))
      PROVE  FALSE
  <2>1. ASSUME NEW q \in Requests,
               \/ ServeUnkeyed(q) \/ (\E s \in Scopes, b \in Bodies : Arrive(q, s, b))
               \/ Insert(q) \/ LookupMissing(q) \/ LookupExpired(q) \/ Reclaim(q) \/ ReclaimLost(q)
               \/ (\E c \in BOOLEAN : Commit(q, c)) \/ Release(q)
               \/ InsertFails(q) \/ OutcomeLost(q) \/ Crash(q)
        PROVE  answer' = answer
    BY <2>1 DEF ServeUnkeyed, Arrive, Insert, InsertFails, LookupMissing, LookupExpired, Reclaim,
       ReclaimLost, Commit, Release, OutcomeLost, Crash
  <2>2. ASSUME Tick \/ (\E cutoff \in 0..now : Purge(cutoff)) \/ UNCHANGED vars
        PROVE  answer' = answer
    BY <2>2 DEF Tick, Purge, vars
  <2> QED
    BY <1>4, <2>1, <2>2 DEF Next, Serve
<1> QED
  BY <1>1, <1>2, <1>3, <1>4

\* Answers come when AnswersFit says.
LEMMA AnswersStep == IInv /\ [Next]_vars => AnswersFit'
<1> SUFFICES ASSUME IInv, [Next]_vars, NEW r \in Requests
             PROVE  /\ pc'[r] = "commit" => answer'[r].kind = "ok"
                    /\ answer'[r].kind \in {"replay", "uncaptured"} =>
                           pc'[r] = "done" /\ answer'[r].of \in Requests /\ pc'[answer'[r].of] = "done"
  BY DEF AnswersFit
<1>0. TypeOK /\ KeyedInTime /\ DoneBySuccess /\ AnswersFit
  BY DEF IInv
<1>1. ASSUME pc'[r] = "commit" PROVE answer'[r].kind = "ok"
  <2>1. CASE HandlerReturns(r)
    BY <1>0, <1>1, <2>1 DEF TypeOK, HandlerReturns, GoTo, Reply
  <2>2. ASSUME NEW q \in Requests, q # r,
               \/ ServeUnkeyed(q) \/ Reject(q) \/ (\E s \in Scopes, b \in Bodies : Arrive(q, s, b))
               \/ Serve(q) \/ InsertFails(q) \/ OutcomeLost(q) \/ Crash(q)
        PROVE  pc'[r] = pc[r] /\ answer'[r] = answer[r]
    BY <1>0, <2>2 DEF TypeOK, GoTo, Reply, ServeUnkeyed, Reject, Arrive, Serve, Insert, InsertFails,
       LookupMissing, LookupExpired, LookupLive, Reclaim, ReclaimLost, HandlerReturns,
       BareReturns, Commit, Release, OutcomeLost, Crash
  <2>3. ASSUME \/ ServeUnkeyed(r) \/ Reject(r) \/ (\E s \in Scopes, b \in Bodies : Arrive(r, s, b))
               \/ Insert(r) \/ LookupMissing(r) \/ LookupExpired(r) \/ LookupLive(r)
               \/ Reclaim(r) \/ ReclaimLost(r) \/ BareReturns(r)
               \/ (\E c \in BOOLEAN : Commit(r, c)) \/ Release(r)
               \/ InsertFails(r) \/ OutcomeLost(r) \/ Crash(r)
        PROVE  FALSE
    BY <1>0, <1>1, <2>3 DEF TypeOK, GoTo, ServeUnkeyed, Reject, Arrive, Insert, InsertFails,
       LookupMissing, LookupExpired, LookupLive, Reclaim, ReclaimLost, BareReturns, Commit,
       Release, OutcomeLost, Crash
  <2>4. ASSUME Tick \/ (\E cutoff \in 0..now : Purge(cutoff)) \/ UNCHANGED vars
        PROVE  pc'[r] = pc[r] /\ answer'[r] = answer[r]
    BY <2>4 DEF Tick, Purge, vars
  <2>5. pc[r] = "commit" => answer[r].kind = "ok"
    BY <1>0 DEF AnswersFit
  <2> QED
    BY <1>1, <2>1, <2>2, <2>3, <2>4, <2>5 DEF Next, Serve
<1>2. ASSUME answer'[r].kind \in {"replay", "uncaptured"}
      PROVE  pc'[r] = "done" /\ answer'[r].of \in Requests /\ pc'[answer'[r].of] = "done"
  <2>1. CASE answer'[r] = answer[r] /\ pc[r] = "done"
    <3>1. answer[r].of \in Requests /\ pc[answer[r].of] = "done"
      BY <1>0, <1>2, <2>1 DEF AnswersFit
    <3> QED
      BY <1>0, <2>1, <3>1, DoneStays
  <2>2. CASE LET row == rows[req[r].scope] IN
             /\ pc[r] = "lookup" /\ pc'[r] = "done" /\ req' = req
             /\ row.state = "done" /\ row.hash = req[r].body
             /\ answer'[r].of = row.by
    <3>1. req[r].scope \in Scopes
      BY <1>0, <2>2 DEF KeyedInTime, Keyed
    <3>2. answer'[r].of \in Requests /\ pc[answer'[r].of] = "done"
      BY <1>0, <2>2, <3>1 DEF DoneBySuccess
    <3> QED
      BY <1>0, <2>2, <3>2, DoneStays
  <2> QED
    BY <1>2, <2>1, <2>2, ReplayAnswers
<1> QED
  BY <1>1, <1>2

\* A replay, old or new, is the answer of a success of its key and body.
LEMMA ReplayStep == IInv /\ [Next]_vars => ReplayFaithful'
<1> SUFFICES ASSUME IInv, [Next]_vars, NEW r \in Requests,
                    answer'[r].kind \in {"replay", "uncaptured"}
             PROVE  LET q == answer'[r].of IN
                    /\ q \in Requests /\ q # r
                    /\ req'[q].scope = req'[r].scope
                    /\ req'[q].body = req'[r].body
                    /\ answer'[q].kind = "ok"
  BY DEF ReplayFaithful
<1>0. TypeOK /\ KeyedInTime /\ DoneBySuccess /\ AnswersFit /\ ReplayFaithful
  BY DEF IInv
<1>1. CASE answer'[r] = answer[r] /\ pc[r] = "done"
  <2> DEFINE q == answer[r].of
  <2>1. /\ q \in Requests /\ q # r /\ pc[q] = "done"
        /\ req[q].scope = req[r].scope /\ req[q].body = req[r].body
        /\ answer[q].kind = "ok"
    BY <1>0, <1>1 DEF AnswersFit, ReplayFaithful
  <2>2. req'[q] = req[q] /\ answer'[q] = answer[q] /\ req'[r] = req[r]
    BY <1>0, <1>1, <2>1, DoneStays
  <2> QED
    BY <1>1, <2>1, <2>2
<1>2. CASE LET row == rows[req[r].scope] IN
           /\ pc[r] = "lookup" /\ pc'[r] = "done" /\ req' = req
           /\ row.state = "done" /\ row.hash = req[r].body
           /\ answer'[r].of = row.by
  <2> DEFINE q == rows[req[r].scope].by
  <2>1. req[r].scope \in Scopes
    BY <1>0, <1>2 DEF KeyedInTime, Keyed
  <2>2. /\ q \in Requests /\ pc[q] = "done" /\ answer[q].kind = "ok"
        /\ req[q].scope = req[r].scope /\ req[q].body = req[r].body
    BY <1>0, <1>2, <2>1 DEF DoneBySuccess
  <2>3. answer'[q] = answer[q] /\ q # r
    BY <1>0, <1>2, <2>2, DoneStays
  <2> QED
    BY <1>2, <2>2, <2>3
<1> QED
  BY <1>1, <1>2, ReplayAnswers

\* The invariant holds at the start.
LEMMA IInvInit == Init => IInv
<1> SUFFICES ASSUME Init PROVE IInv
  OBVIOUS
<1>1. TypeOK
  BY TypeInit
<1>2. /\ \A s \in Scopes : rows[s].state = "in_flight"
      /\ \A r \in Requests : pc[r] = "idle" /\ answer[r].kind = "none"
  BY DEF Init, NoRow, Silent
<1> QED
  BY <1>1, <1>2 DEF IInv, KeyedInTime, OwnerHoldsRow, ReclaimsExpired, DoneBySuccess, AnswersFit,
     ExclusiveClaim, ReplayFaithful, Keyed, Owner

\* Every step keeps the invariant.
LEMMA IInvStep == ~MayOutlive /\ IInv /\ [Next]_vars => IInv'
<1> SUFFICES ASSUME ~MayOutlive, IInv, [Next]_vars PROVE IInv'
  OBVIOUS
<1>1. TypeOK'
  BY TypeStep DEF IInv, KeyedInTime, Scoped
<1> QED
  BY <1>1, KeyedStep, OwnerStep, ReclaimStep, DoneStep, AnswersStep, ExclusiveStep, ReplayStep DEF IInv

\* The invariant every safety theorem below is read off.
THEOREM Inductive == ASSUME ~MayOutlive PROVE Spec => []IInv
  BY IInvInit, IInvStep, PTL DEF Spec

--------------------------------------------------------------------------------
\* Whatever inserts, lookups, reclaims, releases, purges, crashes and failed
\* statements interleave, one key never has two holders of its claim.
THEOREM ClaimsExclusive == ASSUME ~MayOutlive PROVE Spec => []ExclusiveClaim
<1>1. IInv => ExclusiveClaim
  BY DEF IInv
<1> QED
  BY <1>1, Inductive, PTL

\* A replay always is the answer of a successful request of the same key and
\* the same body.
THEOREM ReplaysFaithful == ASSUME ~MayOutlive PROVE Spec => []ReplayFaithful
<1>1. IInv => ReplayFaithful
  BY DEF IInv
<1> QED
  BY <1>1, Inductive, PTL

\* No step touches a stored response before its TTL is over.
LEMMA SticksStep ==
    ASSUME IInv, [Next]_vars, NEW s \in Scopes, rows[s].state = "done", now < rows[s].expires
    PROVE  rows'[s] = rows[s]
<1>0. TypeOK /\ KeyedInTime /\ OwnerHoldsRow /\ ReclaimsExpired /\ Present(rows[s])
  BY DEF IInv, DoneBySuccess
<1> USE IdempotencyAssumption
<1>1. ASSUME NEW r \in Requests, Insert(r) \/ InsertFails(r) PROVE rows'[s] = rows[s]
  <2>1. CASE req[r].scope = s
    BY <1>0, <1>1, <2>1 DEF Insert, InsertFails
  <2>2. CASE req[r].scope # s
    BY <1>0, <1>1, <2>2 DEF TypeOK, Insert, InsertFails
  <2> QED
    BY <2>1, <2>2
<1>2. ASSUME NEW r \in Requests, Reclaim(r) \/ ReclaimLost(r) PROVE rows'[s] = rows[s]
  <2>1. CASE req[r].scope = s
    <3>1. hold[r].exp <= req[r].start /\ req[r].start <= now
      BY <1>0, <1>2 DEF Reclaim, ReclaimLost, ReclaimsExpired, KeyedInTime, Keyed
    <3>2. rows[s].expires # hold[r].exp
      BY <1>0, <3>1 DEF TypeOK, Row
    <3> QED
      BY <1>2, <2>1, <3>2 DEF Reclaim, ReclaimLost, ReclaimMatches
  <2>2. CASE req[r].scope # s
    BY <1>0, <1>2, <2>2 DEF TypeOK, Reclaim, ReclaimLost
  <2> QED
    BY <2>1, <2>2
<1>3. ASSUME NEW r \in Requests, (\E c \in BOOLEAN : Commit(r, c)) \/ Release(r)
      PROVE  rows'[s] = rows[s]
  <2>1. rows[req[r].scope].state = "in_flight"
    BY <1>0, <1>3 DEF Commit, Release, OwnerHoldsRow, Owner
  <2>2. req[r].scope # s
    BY <2>1
  <2> QED
    BY <1>0, <1>3, <2>2 DEF TypeOK, Commit, Release
<1>4. ASSUME NEW cutoff \in 0..now, Purge(cutoff) PROVE rows'[s] = rows[s]
  <2>1. ~(rows[s].expires <= cutoff)
    BY <1>0 DEF TypeOK, Row
  <2> QED
    BY <1>4, <2>1 DEF Purge
<1>5. ASSUME NEW r \in Requests,
             \/ ServeUnkeyed(r) \/ Reject(r)
             \/ (\E k \in Scopes, b \in Bodies : Arrive(r, k, b))
             \/ LookupMissing(r) \/ LookupExpired(r) \/ LookupLive(r)
             \/ HandlerReturns(r) \/ BareReturns(r) \/ OutcomeLost(r) \/ Crash(r)
      PROVE  rows'[s] = rows[s]
  BY <1>5 DEF ServeUnkeyed, Reject, Arrive, LookupMissing, LookupExpired, LookupLive,
     HandlerReturns, BareReturns, OutcomeLost, Crash
<1>6. ASSUME Tick \/ UNCHANGED vars PROVE rows'[s] = rows[s]
  BY <1>6 DEF Tick, vars
<1> QED
  BY <1>1, <1>2, <1>3, <1>4, <1>5, <1>6 DEF Next, Serve

\* Until its TTL a stored response survives every interleaving unchanged.
THEOREM StoredSticks == ASSUME ~MayOutlive PROVE Spec => StoredResponseSticks
<1>1. IInv /\ [Next]_vars =>
         [\A s \in Scopes : rows[s].state = "done" /\ now < rows[s].expires => rows'[s] = rows[s]]_vars
  BY SticksStep
<1> QED
  BY <1>1, Inductive, PTL DEF Spec, StoredResponseSticks

--------------------------------------------------------------------------------
\* A key refused as "still in progress" has a running owner, while nothing
\* failed. An owner of the key is enough: its row is its own by OwnerHoldsRow.
LEMMA HeldStep == ~MayOutlive /\ IInv /\ InFlightHeld /\ [Next]_vars => InFlightHeld'
<1> SUFFICES ASSUME ~MayOutlive, IInv, InFlightHeld, [Next]_vars,
                    NEW s \in Scopes, rows'[s].id # 0, rows'[s].state = "in_flight", faults' = 0
             PROVE  \E q \in Requests : Owner(q)' /\ req'[q].scope = s /\ Mine(q)'
  BY DEF InFlightHeld, Present
<1>0. TypeOK /\ KeyedInTime /\ OwnerHoldsRow /\ IInv' /\ OwnerHoldsRow'
  BY IInvStep DEF IInv
<1>1. SUFFICES \E q \in Requests : Owner(q)' /\ req'[q].scope = s
  BY <1>0 DEF OwnerHoldsRow
<1> DEFINE Goal == \E q \in Requests : Owner(q)' /\ req'[q].scope = s
<1>2. ASSUME rows[s].id # 0, rows[s].state = "in_flight", faults = 0
      PROVE  \E q \in Requests : Owner(q) /\ req[q].scope = s
  BY <1>2 DEF InFlightHeld, Present
<1>3. ASSUME NEW r \in Requests, InsertFails(r) \/ OutcomeLost(r) \/ Crash(r) PROVE Goal
  BY <1>0, <1>3 DEF TypeOK, InsertFails, OutcomeLost, Crash, Fault
<1>4. ASSUME NEW r \in Requests, Insert(r) PROVE Goal
  <2>1. CASE req[r].scope = s /\ ~Present(rows[s])
    BY <1>0, <1>4, <2>1 DEF TypeOK, Insert, GoTo, Owner
  <2>2. CASE ~(req[r].scope = s /\ ~Present(rows[s]))
    <3>1. rows'[s] = rows[s] /\ faults' = faults /\ req' = req
      BY <1>0, <1>4, <2>2 DEF TypeOK, Insert
    <3>2. \A q \in Requests : Owner(q) => Owner(q)'
      BY <1>0, <1>4 DEF TypeOK, Insert, GoTo, Owner
    <3> QED
      BY <1>2, <3>1, <3>2
  <2> QED
    BY <2>1, <2>2
<1>5. ASSUME NEW r \in Requests, Reclaim(r) PROVE Goal
  <2>1. CASE req[r].scope = s
    BY <1>0, <1>5, <2>1 DEF TypeOK, Reclaim, GoTo, Owner
  <2>2. CASE req[r].scope # s
    <3>1. rows'[s] = rows[s] /\ faults' = faults /\ req' = req
      BY <1>0, <1>5, <2>2 DEF TypeOK, Reclaim
    <3>2. \A q \in Requests : Owner(q) => Owner(q)'
      BY <1>0, <1>5 DEF TypeOK, Reclaim, GoTo, Owner
    <3> QED
      BY <1>2, <3>1, <3>2
  <2> QED
    BY <2>1, <2>2
<1>6. ASSUME NEW r \in Requests, (\E c \in BOOLEAN : Commit(r, c)) \/ Release(r) PROVE Goal
  <2>1. Mine(r) /\ req[r].scope \in Scopes
    BY <1>0, <1>6 DEF Commit, Release, OwnerHoldsRow, KeyedInTime, Keyed, Owner
  <2>2. req[r].scope # s
    <3>1. ASSUME NEW c \in BOOLEAN, Commit(r, c), req[r].scope = s PROVE rows'[s].state = "done"
      BY <1>0, <2>1, <3>1 DEF TypeOK, Commit
    <3>2. ASSUME Release(r), req[r].scope = s PROVE rows'[s].id = 0
      BY <1>0, <2>1, <3>2 DEF TypeOK, Release, NoRow
    <3> QED
      BY <1>6, <3>1, <3>2
  <2>3. rows'[s] = rows[s] /\ faults' = faults /\ req' = req
    BY <1>0, <1>6, <2>2 DEF TypeOK, Commit, Release
  <2>4. \A q \in Requests : Owner(q) /\ q # r => Owner(q)'
    BY <1>0, <1>6 DEF TypeOK, Commit, Release, GoTo, Owner
  <2> QED
    BY <1>2, <2>2, <2>3, <2>4
<1>7. ASSUME NEW r \in Requests,
             \/ ServeUnkeyed(r) \/ Reject(r)
             \/ LookupMissing(r) \/ LookupExpired(r) \/ LookupLive(r) \/ ReclaimLost(r)
             \/ HandlerReturns(r) \/ BareReturns(r)
      PROVE  Goal
  <2>1. ~Fault
    BY <1>0 DEF TypeOK, Fault
  <2>2. rows' = rows /\ faults' = faults /\ req' = req
    BY <1>7, <2>1 DEF ServeUnkeyed, Reject, LookupMissing, LookupExpired, LookupLive, ReclaimLost,
       HandlerReturns, BareReturns
  <2>3. \A q \in Requests : Owner(q) => Owner(q)'
    BY <1>0, <1>7 DEF TypeOK, GoTo, Owner, ServeUnkeyed, Reject, LookupMissing, LookupExpired,
       LookupLive, ReclaimLost, HandlerReturns, BareReturns
  <2> QED
    BY <1>2, <2>2, <2>3
<1>8. ASSUME NEW r \in Requests, NEW k \in Scopes, NEW b \in Bodies, Arrive(r, k, b) PROVE Goal
  <2>1. rows' = rows /\ faults' = faults
    BY <1>8 DEF Arrive
  <2>2. \A q \in Requests : Owner(q) => Owner(q)' /\ req'[q] = req[q]
    BY <1>0, <1>8 DEF TypeOK, GoTo, Owner, Arrive
  <2> QED
    BY <1>2, <2>1, <2>2
<1>9. ASSUME NEW cutoff \in 0..now, Purge(cutoff) PROVE Goal
  <2>1. rows'[s] = rows[s] /\ faults' = faults /\ req' = req /\ pc' = pc
    BY <1>9 DEF Purge, NoRow
  <2> QED
    BY <1>2, <2>1 DEF Owner
<1>10. ASSUME Tick \/ UNCHANGED vars PROVE Goal
  <2>1. rows' = rows /\ faults' = faults /\ req' = req /\ pc' = pc
    BY <1>10 DEF Tick, vars
  <2> QED
    BY <1>2, <2>1 DEF Owner
<1> QED
  BY <1>3, <1>4, <1>5, <1>6, <1>7, <1>8, <1>9, <1>10 DEF Next, Serve

\* While no statement fails and no process dies, a key that answers 409
\* "still in progress" has a running owner.
THEOREM HeldInFlight == ASSUME ~MayOutlive PROVE Spec => []InFlightHeld
<1>1. Init => InFlightHeld
  BY DEF Init, InFlightHeld, Present, NoRow
<1> QED
  BY <1>1, HeldStep, Inductive, PTL DEF Spec

--------------------------------------------------------------------------------
\* The middleware implements IdempotencyContract. The abstract holder of a key
\* is picked by CHOOSE; exclusivity makes it the one owner there is.
HolderIsOwner ==
    \A s \in Scopes :
        /\ \A r \in Requests : Owner(r) /\ req[r].scope = s => Holder(s) = r
        /\ (\A r \in Requests : Owner(r) => req[r].scope # s) => Holder(s) = None

\* The holder is the owner of the key, when it has one.
LEMMA HolderLemma == ExclusiveClaim => HolderIsOwner
<1> SUFFICES ASSUME ExclusiveClaim, NEW s \in Scopes
             PROVE  /\ \A r \in Requests : Owner(r) /\ req[r].scope = s => Holder(s) = r
                    /\ (\A r \in Requests : Owner(r) => req[r].scope # s) => Holder(s) = None
  BY DEF HolderIsOwner
<1>1. CASE \E r \in Requests : Owner(r) /\ req[r].scope = s
  <2> DEFINE h == CHOOSE r \in Requests : Owner(r) /\ req[r].scope = s
  <2>1. Holder(s) = h
    BY <1>1 DEF Holder
  <2>2. h \in Requests /\ Owner(h) /\ req[h].scope = s
    BY <1>1
  <2>3. \A r \in Requests : Owner(r) /\ req[r].scope = s => r = h
    BY <2>2 DEF ExclusiveClaim
  <2> QED
    BY <1>1, <2>1, <2>3
<1>2. CASE ~\E r \in Requests : Owner(r) /\ req[r].scope = s
  BY <1>2 DEF Holder
<1> QED
  BY <1>1, <1>2

\* The abstract state is made of these two functions.
Holders == [s \in Scopes |-> Holder(s)]
Stored == [s \in Scopes |-> StoredBy(s)]

\* Holders stay while owners and their keys do.
LEMMA HoldersKept ==
    ASSUME IInv, IInv',
           \A q \in Requests : Owner(q)' <=> Owner(q),
           \A q \in Requests : Owner(q) => req'[q].scope = req[q].scope
    PROVE  Holders' = Holders
<1>1. HolderIsOwner
  BY HolderLemma DEF IInv
<1>2. (ExclusiveClaim => HolderIsOwner)'
  BY HolderLemma, PTL
<1>3. HolderIsOwner'
  BY <1>2 DEF IInv
<1>4. ASSUME NEW s \in Scopes PROVE Holder(s)' = Holder(s)
  <2>1. ASSUME NEW r \in Requests, Owner(r), req[r].scope = s PROVE Holder(s)' = Holder(s)
    <3>1. Holder(s) = r
      BY <1>1, <2>1 DEF HolderIsOwner
    <3>2. Holder(s)' = r
      BY <1>3, <2>1 DEF HolderIsOwner
    <3> QED
      BY <3>1, <3>2
  <2>2. ASSUME \A r \in Requests : Owner(r) => req[r].scope # s PROVE Holder(s)' = Holder(s)
    <3>1. Holder(s) = None
      BY <1>1, <2>2 DEF HolderIsOwner
    <3>2. \A r \in Requests : Owner(r)' => req'[r].scope # s
      BY <2>2
    <3>3. Holder(s)' = None
      BY <1>3, <3>2 DEF HolderIsOwner
    <3> QED
      BY <3>1, <3>3
  <2> QED
    BY <2>1, <2>2
<1> QED
  BY <1>4 DEF Holders

\* A request that becomes the only owner of its key becomes its holder.
LEMMA HoldersGain ==
    ASSUME IInv, IInv', NEW r \in Requests, ~Owner(r), Owner(r)', req' = req,
           \A q \in Requests \ {r} : Owner(q)' <=> Owner(q),
           \A q \in Requests : Owner(q) => req[q].scope # req[r].scope
    PROVE  /\ Holders[req[r].scope] = None
           /\ \A t \in Scopes : Holders[t] # r
           /\ Holders' = [Holders EXCEPT ![req[r].scope] = r]
<1>1. HolderIsOwner
  BY HolderLemma DEF IInv
<1>2. (ExclusiveClaim => HolderIsOwner)'
  BY HolderLemma, PTL
<1>3. HolderIsOwner'
  BY <1>2 DEF IInv
<1>4. req[r].scope \in Scopes
  <2>1. Owner(r)' => req'[r].scope \in Scopes
    BY DEF IInv, KeyedInTime, Keyed, Owner
  <2> QED
    BY <2>1
<1>5. Holder(req[r].scope) = None
  BY <1>1, <1>4 DEF HolderIsOwner
<1>6. Holder(req[r].scope)' = r
  BY <1>3, <1>4 DEF HolderIsOwner
<1>7. ASSUME NEW t \in Scopes, t # req[r].scope PROVE Holder(t)' = Holder(t) /\ Holder(t) # r
  <2>1. ASSUME NEW q \in Requests, Owner(q), req[q].scope = t
        PROVE  Holder(t)' = Holder(t) /\ Holder(t) # r
    <3>1. Holder(t) = q
      BY <1>1, <2>1 DEF HolderIsOwner
    <3>2. Owner(q)' /\ q # r
      BY <2>1
    <3>3. Holder(t)' = q
      BY <1>3, <2>1, <3>2 DEF HolderIsOwner
    <3> QED
      BY <3>1, <3>2, <3>3
  <2>2. ASSUME \A q \in Requests : Owner(q) => req[q].scope # t
        PROVE  Holder(t)' = Holder(t) /\ Holder(t) # r
    <3>1. Holder(t) = None
      BY <1>1, <2>2 DEF HolderIsOwner
    <3>2. \A q \in Requests : Owner(q)' => req'[q].scope # t
      BY <1>7, <2>2
    <3>3. Holder(t)' = None
      BY <1>3, <3>2 DEF HolderIsOwner
    <3> QED
      BY <3>1, <3>3, IdempotencyAssumption
  <2> QED
    BY <2>1, <2>2
<1> QED
  BY <1>4, <1>5, <1>6, <1>7, IdempotencyAssumption DEF Holders

\* A request that stops owning its key leaves it without a holder.
LEMMA HoldersLose ==
    ASSUME IInv, IInv', NEW r \in Requests, Owner(r), ~Owner(r)', req' = req,
           \A q \in Requests \ {r} : Owner(q)' <=> Owner(q)
    PROVE  /\ req[r].scope \in Scopes
           /\ Holders[req[r].scope] = r
           /\ Holders' = [Holders EXCEPT ![req[r].scope] = None]
<1>1. HolderIsOwner
  BY HolderLemma DEF IInv
<1>2. (ExclusiveClaim => HolderIsOwner)'
  BY HolderLemma, PTL
<1>3. HolderIsOwner'
  BY <1>2 DEF IInv
<1>4. req[r].scope \in Scopes
  BY DEF IInv, KeyedInTime, Keyed, Owner
<1>5. Holder(req[r].scope) = r
  BY <1>1, <1>4 DEF HolderIsOwner
<1>6. \A q \in Requests : Owner(q)' => req'[q].scope # req[r].scope
  BY DEF IInv, ExclusiveClaim
<1>7. Holder(req[r].scope)' = None
  BY <1>3, <1>4, <1>6 DEF HolderIsOwner
<1>8. ASSUME NEW t \in Scopes, t # req[r].scope PROVE Holder(t)' = Holder(t)
  <2>1. ASSUME NEW q \in Requests, Owner(q), req[q].scope = t PROVE Holder(t)' = Holder(t)
    <3>1. Owner(q)' /\ Holder(t) = q
      BY <1>1, <1>8, <2>1 DEF HolderIsOwner
    <3>2. Holder(t)' = q
      BY <1>3, <2>1, <3>1 DEF HolderIsOwner
    <3> QED
      BY <3>1, <3>2
  <2>2. ASSUME \A q \in Requests : Owner(q) => req[q].scope # t PROVE Holder(t)' = Holder(t)
    <3>1. Holder(t) = None
      BY <1>1, <2>2 DEF HolderIsOwner
    <3>2. \A q \in Requests : Owner(q)' => req'[q].scope # t
      BY <2>2
    <3>3. Holder(t)' = None
      BY <1>3, <3>2 DEF HolderIsOwner
    <3> QED
      BY <3>1, <3>3
  <2> QED
    BY <2>1, <2>2
<1> QED
  BY <1>4, <1>5, <1>7, <1>8 DEF Holders

\* The stored responses change neither with a row that is not finished nor
\* with the removal of one that has expired.
LEMMA StoredKept ==
    ASSUME IInv, now' = now,
           \A s \in Scopes : \/ rows'[s] = rows[s]
                             \/ /\ rows'[s].state = "in_flight"
                                /\ rows[s].state = "done" => rows[s].expires <= now
    PROVE  Stored' = Stored
<1>1. ASSUME NEW s \in Scopes PROVE StoredBy(s)' = StoredBy(s)
  <2>1. CASE rows'[s] = rows[s]
    BY <2>1 DEF StoredBy
  <2>2. CASE rows'[s].state = "in_flight" /\ (rows[s].state = "done" => rows[s].expires <= now)
    <3>1. rows[s].expires \in Nat /\ now \in Nat
      BY DEF IInv, TypeOK, Row
    <3> QED
      BY <2>2, <3>1 DEF StoredBy
  <2> QED
    BY <2>1, <2>2
<1> QED
  BY <1>1 DEF Stored

\* A step of the middleware is a step of the contract, or none.
LEMMA ContractStep == ~MayOutlive /\ IInv /\ [Next]_vars => [Contract!ContractNext]_(Contract!contractVars)
<1> SUFFICES ASSUME ~MayOutlive, IInv, [Next]_vars
             PROVE  \/ Contract!ContractNext
                    \/ Holders' = Holders /\ Stored' = Stored
  BY DEF Contract!contractVars, Holders, Stored
<1> DEFINE Goal == Contract!ContractNext \/ (Holders' = Holders /\ Stored' = Stored)
<1>0. IInv' /\ TypeOK /\ KeyedInTime /\ OwnerHoldsRow /\ ReclaimsExpired /\ DoneBySuccess
  BY IInvStep DEF IInv
<1> USE IdempotencyAssumption
\* Claiming a key, by INSERT or by reclaiming its expired row, is Grant.
<1>1. ASSUME NEW r \in Requests, req[r].scope \in Scopes, ~Owner(r), Owner(r)', req' = req, now' = now,
             \A q \in Requests \ {r} : Owner(q)' <=> Owner(q),
             \A q \in Requests : Owner(q) => req[q].scope # req[r].scope,
             rows[req[r].scope].state = "done" => rows[req[r].scope].expires <= now,
             \E id, old : rows' = [rows EXCEPT ![req[r].scope] = Claim(r, id, old)]
      PROVE  Goal
  <2> DEFINE s == req[r].scope
  <2>1. /\ Holders[s] = None
        /\ \A t \in Scopes : Holders[t] # r
        /\ Holders' = [Holders EXCEPT ![s] = r]
    BY <1>0, <1>1, HoldersGain
  <2>2. \A id, old : Claim(r, id, old).state = "in_flight"
    BY DEF Claim
  <2>3. \A t \in Scopes : \/ rows'[t] = rows[t]
                          \/ /\ rows'[t].state = "in_flight"
                             /\ rows[t].state = "done" => rows[t].expires <= now
    BY <1>0, <1>1, <2>2 DEF TypeOK
  <2>4. Stored' = Stored
    BY <1>1, <2>3, StoredKept
  <2>5. Stored[s] = None
    <3>1. rows[s].expires \in Nat /\ now \in Nat
      BY <1>0, <1>1 DEF TypeOK, Row
    <3> QED
      BY <1>1, <3>1 DEF Stored, StoredBy
  <2>6. Contract!Grant(s, r)
    BY <2>1, <2>4, <2>5 DEF Contract!Grant, Holders, Stored
  <2> QED
    BY <1>1, <2>6 DEF Contract!ContractNext
<1>2. ASSUME NEW r \in Requests, Insert(r), ~Present(rows[req[r].scope]) PROVE Goal
  <2>1. /\ req[r].scope \in Scopes /\ ~Owner(r) /\ Owner(r)' /\ req' = req /\ now' = now
        /\ \A q \in Requests \ {r} : Owner(q)' <=> Owner(q)
    BY <1>0, <1>2 DEF TypeOK, Insert, GoTo, Owner, KeyedInTime, Keyed
  <2>2. \A q \in Requests : Owner(q) => req[q].scope # req[r].scope
    BY <1>2, <2>1, NoOwnerWhenAbsent
  <2>3. rows[req[r].scope].state # "done"
    BY <1>0, <1>2, <2>1 DEF DoneBySuccess
  <2>4. rows' = [rows EXCEPT ![req[r].scope] = Claim(r, nextId, NoRow)]
    BY <1>2 DEF Insert
  <2> QED
    BY <1>1, <2>1, <2>2, <2>3, <2>4
<1>3. ASSUME NEW r \in Requests, Reclaim(r) PROVE Goal
  <2>1. /\ req[r].scope \in Scopes /\ ~Owner(r) /\ Owner(r)' /\ req' = req /\ now' = now
        /\ \A q \in Requests \ {r} : Owner(q)' <=> Owner(q)
    BY <1>0, <1>3 DEF TypeOK, Reclaim, GoTo, Owner, KeyedInTime, Keyed
  <2>2. \A q \in Requests : Owner(q) => req[q].scope # req[r].scope
    BY <1>3, NoOwnerWhenExpired DEF Reclaim
  <2>3. rows[req[r].scope].expires = hold[r].exp /\ hold[r].exp <= req[r].start /\ req[r].start <= now
    BY <1>0, <1>3 DEF Reclaim, ReclaimMatches, ReclaimsExpired, KeyedInTime, Keyed
  <2>4. rows[req[r].scope].expires <= now
    BY <1>0, <2>3 DEF TypeOK
  <2>5. rows' = [rows EXCEPT ![req[r].scope] = Claim(r, hold[r].id, rows[req[r].scope])]
    BY <1>3 DEF Reclaim
  <2> QED
    BY <1>1, <2>1, <2>2, <2>4, <2>5
\* Writing the outcome is Keep; giving up the claim in any way is Drop.
<1>4. ASSUME NEW r \in Requests, Owner(r), ~Owner(r)', req' = req, Stored' = Stored,
             \A q \in Requests \ {r} : Owner(q)' <=> Owner(q)
      PROVE  Goal
  <2>1. /\ req[r].scope \in Scopes
        /\ Holders[req[r].scope] = r
        /\ Holders' = [Holders EXCEPT ![req[r].scope] = None]
    BY <1>0, <1>4, HoldersLose
  <2>2. Contract!Drop(req[r].scope)
    BY <1>4, <2>1 DEF Contract!Drop, Holders, Stored
  <2> QED
    BY <2>1, <2>2 DEF Contract!ContractNext
<1>5. ASSUME NEW r \in Requests, NEW c \in BOOLEAN, Commit(r, c) PROVE Goal
  <2>1. Owner(r) /\ ~Owner(r)' /\ req' = req /\ now' = now
        /\ \A q \in Requests \ {r} : Owner(q)' <=> Owner(q)
    BY <1>0, <1>5 DEF TypeOK, Commit, GoTo, Owner
  <2>2. PICK s \in Scopes : s = req[r].scope
    BY <1>0, <2>1 DEF KeyedInTime, Keyed, Owner
  <2> DEFINE kept == [id |-> rows[s].id, hash |-> rows[s].hash, state |-> "done", stored |-> c,
                      by |-> r, expires |-> req[r].start + TTL]
  <2>3. Mine(r) /\ now < req[r].start + TTL
    BY <1>0, <2>1 DEF OwnerHoldsRow, KeyedInTime, Keyed, Owner
  <2>4. rows' = [rows EXCEPT ![s] = kept]
    BY <1>5, <2>2, <2>3 DEF Commit
  <2>5. Holders[s] = r /\ Holders' = [Holders EXCEPT ![s] = None]
    BY <1>0, <2>1, <2>2, HoldersLose
  <2>6. rows'[s] = kept /\ \A t \in Scopes \ {s} : rows'[t] = rows[t]
    BY <1>0, <2>4 DEF TypeOK
  <2>7. \A t \in Scopes : StoredBy(t)' = IF t = s THEN r ELSE StoredBy(t)
    BY <2>1, <2>3, <2>6 DEF StoredBy
  <2>8. Stored' = [Stored EXCEPT ![s] = r]
    BY <2>7 DEF Stored
  <2>9. Contract!Keep(s)
    BY <2>5, <2>8, IdempotencyAssumption DEF Contract!Keep, Holders, Stored
  <2> QED
    BY <2>9 DEF Contract!ContractNext
<1>6. ASSUME NEW r \in Requests, Release(r) PROVE Goal
  <2>1. Owner(r) /\ ~Owner(r)' /\ req' = req /\ now' = now
        /\ \A q \in Requests \ {r} : Owner(q)' <=> Owner(q)
    BY <1>0, <1>6 DEF TypeOK, Release, GoTo, Owner
  <2>2. Mine(r) /\ req[r].scope \in Scopes /\ rows[req[r].scope].state = "in_flight"
    BY <1>0, <2>1 DEF OwnerHoldsRow, KeyedInTime, Keyed, Owner
  <2>3. rows' = [rows EXCEPT ![req[r].scope] = NoRow]
    BY <1>6, <2>2 DEF Release
  <2>4. \A t \in Scopes : \/ rows'[t] = rows[t]
                          \/ /\ rows'[t].state = "in_flight"
                             /\ rows[t].state = "done" => rows[t].expires <= now
    BY <1>0, <2>2, <2>3 DEF TypeOK, NoRow
  <2>5. Stored' = Stored
    BY <2>1, <2>4, StoredKept
  <2> QED
    BY <1>4, <2>1, <2>5
<1>7. ASSUME NEW r \in Requests, OutcomeLost(r) \/ Crash(r) PROVE Goal
  <2>1. /\ ~Owner(r)' /\ req' = req /\ now' = now /\ rows' = rows
        /\ \A q \in Requests \ {r} : Owner(q)' <=> Owner(q)
    BY <1>0, <1>7 DEF TypeOK, OutcomeLost, Crash, GoTo, Owner
  <2>2. Stored' = Stored
    BY <2>1, StoredKept
  <2>3. CASE Owner(r)
    BY <1>4, <2>1, <2>2, <2>3
  <2>4. CASE ~Owner(r)
    BY <1>0, <2>1, <2>2, <2>4, HoldersKept
  <2> QED
    BY <2>3, <2>4
\* Everything else leaves the abstract state alone, but for the clock.
<1>8. ASSUME NEW r \in Requests, InsertFails(r) \/ ReclaimLost(r) PROVE Goal
  <2>1. req' = req /\ now' = now /\ \A q \in Requests : Owner(q)' <=> Owner(q)
    BY <1>0, <1>8 DEF TypeOK, InsertFails, ReclaimLost, GoTo, Owner
  <2>2. req[r].scope \in Scopes
    BY <1>0, <1>8 DEF InsertFails, ReclaimLost, KeyedInTime, Keyed
  <2>3. \/ rows' = rows
        \/ /\ \E id, old : rows' = [rows EXCEPT ![req[r].scope] = Claim(r, id, old)]
           /\ rows[req[r].scope].state = "done" => rows[req[r].scope].expires <= now
    <3>1. CASE InsertFails(r)
      BY <1>0, <2>2, <3>1 DEF InsertFails, DoneBySuccess
    <3>2. CASE ReclaimLost(r)
      <4>1. hold[r].exp <= req[r].start /\ req[r].start <= now
        BY <1>0, <3>2 DEF ReclaimLost, ReclaimsExpired, KeyedInTime, Keyed
      <4>2. hold[r].exp <= now
        BY <1>0, <4>1 DEF TypeOK
      <4> QED
        BY <3>2, <4>2 DEF ReclaimLost, ReclaimMatches
    <3> QED
      BY <1>8, <3>1, <3>2
  <2>4. \A id, old : Claim(r, id, old).state = "in_flight"
    BY DEF Claim
  <2>5. \A t \in Scopes : \/ rows'[t] = rows[t]
                          \/ /\ rows'[t].state = "in_flight"
                             /\ rows[t].state = "done" => rows[t].expires <= now
    BY <1>0, <2>2, <2>3, <2>4 DEF TypeOK
  <2> QED
    BY <1>0, <2>1, <2>5, HoldersKept, StoredKept
<1>9. ASSUME NEW r \in Requests,
             \/ ServeUnkeyed(r) \/ Reject(r) \/ LookupMissing(r) \/ LookupExpired(r)
             \/ LookupLive(r) \/ HandlerReturns(r) \/ BareReturns(r)
             \/ Insert(r) /\ Present(rows[req[r].scope])
      PROVE  Goal
  <2>1. req' = req /\ now' = now /\ rows' = rows
    BY <1>9 DEF ServeUnkeyed, Reject, LookupMissing, LookupExpired, LookupLive, HandlerReturns,
       BareReturns, Insert
  <2>2. \A q \in Requests : Owner(q)' <=> Owner(q)
    BY <1>0, <1>9 DEF TypeOK, GoTo, Owner, ServeUnkeyed, Reject, LookupMissing, LookupExpired,
       LookupLive, HandlerReturns, BareReturns, Insert
  <2> QED
    BY <1>0, <2>1, <2>2, HoldersKept, StoredKept
<1>10. ASSUME NEW r \in Requests, NEW s \in Scopes, NEW b \in Bodies, Arrive(r, s, b) PROVE Goal
  <2>1. now' = now /\ rows' = rows /\ \A q \in Requests : Owner(q)' <=> Owner(q)
    BY <1>0, <1>10 DEF TypeOK, GoTo, Owner, Arrive
  <2>2. \A q \in Requests : Owner(q) => req'[q].scope = req[q].scope
    BY <1>0, <1>10 DEF TypeOK, Owner, Arrive
  <2> QED
    BY <1>0, <2>1, <2>2, HoldersKept, StoredKept
<1>11. ASSUME NEW cutoff \in 0..now, Purge(cutoff) PROVE Goal
  <2>1. now' = now /\ req' = req /\ \A q \in Requests : Owner(q)' <=> Owner(q)
    BY <1>11 DEF Purge, Owner
  <2>2. \A t \in Scopes : \/ rows'[t] = rows[t]
                          \/ /\ rows'[t].state = "in_flight"
                             /\ rows[t].state = "done" => rows[t].expires <= now
    BY <1>0, <1>11 DEF Purge, NoRow, TypeOK, Row
  <2> QED
    BY <1>0, <2>1, <2>2, HoldersKept, StoredKept
<1>12. ASSUME Tick PROVE Goal
  <2>1. req' = req /\ rows' = rows /\ \A q \in Requests : Owner(q)' <=> Owner(q)
    BY <1>12 DEF Tick, Owner
  <2>2. Holders' = Holders
    BY <1>0, <2>1, HoldersKept
  <2> DEFINE S == {s \in Scopes : rows[s].expires <= now'}
  <2>3. ASSUME NEW s \in Scopes
        PROVE  StoredBy(s)' = IF s \in S THEN None ELSE StoredBy(s)
    BY <1>0, <1>12, <2>1 DEF Tick, StoredBy, TypeOK, Row
  <2>4. Contract!Forget(S)
    BY <2>2, <2>3 DEF Contract!Forget, Holders, Stored
  <2> QED
    BY <2>4 DEF Contract!ContractNext
<1>13. ASSUME UNCHANGED vars PROVE Goal
  <2>1. now' = now /\ req' = req /\ rows' = rows /\ \A q \in Requests : Owner(q)' <=> Owner(q)
    BY <1>13 DEF vars, Owner
  <2> QED
    BY <1>0, <2>1, HoldersKept, StoredKept
<1> QED
  BY <1>2, <1>3, <1>5, <1>6, <1>7, <1>8, <1>9, <1>10, <1>11, <1>12, <1>13 DEF Next, Serve

\* The middleware is an implementation of its contract: at most one holder
\* per key, and only a holder's response is ever stored.
THEOREM Implements == ASSUME ~MayOutlive PROVE Spec => ImplementsContract
<1>1. Init => Contract!ContractInit
  BY DEF Init, NoRow, Contract!ContractInit, Holder, StoredBy, Owner
<1> QED
  BY <1>1, ContractStep, Inductive, PTL DEF Spec, ImplementsContract, Contract!ContractSpec
================================================================================
