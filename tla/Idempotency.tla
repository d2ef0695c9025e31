------------------------------ MODULE Idempotency ------------------------------
(***************************************************************************)
(* server/idempotency/idempotency.go: the Idempotency-Key middleware.      *)
(*                                                                         *)
(* Requests race on one table whose unique index on (owner, endpoint, key) *)
(* admits one row per scope. Every database statement is a step of its     *)
(* own, so requests of one instance, and of several, interleave between    *)
(* the INSERT, the lookup, the conditional UPDATE and the final write.     *)
(* The table may fail a statement and a process may die at any step; both  *)
(* draw on the budget MaxFaults.                                           *)
(***************************************************************************)
EXTENDS Naturals

CONSTANTS Requests,    \* HTTP requests, each served once
          Scopes,      \* (org, endpoint, key) triples
          Bodies,      \* request bodies, told apart by their hash
          None,        \* absent body, request or scope
          TTL,         \* Store.ttl in clock units
          MaxTime,     \* bound on the clock
          MaxFaults,   \* bound on failed statements and crashes
          MayOutlive   \* may a keyed request still run when its TTL is over?

ASSUME IdempotencyAssumption ==
    /\ None \notin Requests \cup Scopes \cup Bodies
    /\ TTL \in Nat \ {0}
    /\ MaxTime \in Nat
    /\ MaxFaults \in Nat
    /\ MayOutlive \in BOOLEAN

VARIABLES rows,     \* scope -> idempotency_records row (id 0: no row)
          nextId,   \* next primary key
          now,      \* wall clock
          faults,   \* statements failed and requests crashed so far
          pc,       \* request -> where serve() stands
          req,      \* request -> scope, body and the clock read at entry
          hold,     \* request -> id and expires_at of the row it works on
          answer    \* request -> what the client was told

vars == <<rows, nextId, now, faults, pc, req, hold, answer>>

Row == [id : Nat, hash : Bodies \cup {None}, state : {"in_flight", "done"},
        stored : BOOLEAN, by : Requests \cup {None}, expires : Nat]

NoRow == [id |-> 0, hash |-> None, state |-> "in_flight",
          stored |-> FALSE, by |-> None, expires |-> 0]

Silent == [kind |-> "none", of |-> None]

Kinds == {"none", "ok", "failed", "replay", "uncaptured", "conflict",
          "mismatch", "rejected"}

Places == {"idle", "create", "lookup", "reclaim", "handler", "commit",
           "release", "bare", "unkeyed", "done", "crashed"}

TypeOK ==
    /\ rows \in [Scopes -> Row]
    /\ nextId \in Nat \ {0}
    /\ now \in Nat
    /\ faults \in Nat
    /\ pc \in [Requests -> Places]
    /\ req \in [Requests -> [scope : Scopes \cup {None}, body : Bodies \cup {None},
                             start : Nat]]
    /\ hold \in [Requests -> [id : Nat, exp : Nat]]
    /\ answer \in [Requests -> [kind : Kinds, of : Requests \cup {None}]]

Init ==
    /\ rows = [s \in Scopes |-> NoRow]
    /\ nextId = 1
    /\ now = 0
    /\ faults = 0
    /\ pc = [r \in Requests |-> "idle"]
    /\ req = [r \in Requests |-> [scope |-> None, body |-> None, start |-> 0]]
    /\ hold = [r \in Requests |-> [id |-> 0, exp |-> 0]]
    /\ answer = [r \in Requests |-> Silent]

--------------------------------------------------------------------------------
\* Requests that entered claim() and have not left serve().
Keyed(r) == pc[r] \in {"create", "lookup", "reclaim", "handler", "commit", "release"}

\* Requests that were told claimOwned and have not written their outcome.
Owner(r) == pc[r] \in {"handler", "commit", "release"}

GoTo(r, place) == pc' = [pc EXCEPT ![r] = place]

Reply(r, kind) == answer' = [answer EXCEPT ![r] = [kind |-> kind, of |-> None]]

Fault == faults < MaxFaults /\ faults' = faults + 1

Present(row) == row.id # 0

\* Mutant of Claim: the deadline is in the wrong unit, beyond the clock.
ClaimForever(r, id, old) ==
    [id |-> id, hash |-> req[r].body, state |-> "in_flight",
     stored |-> old.stored, by |-> None, expires |-> req[r].start + TTL + MaxTime]

\* The in-flight row claim() writes for r, under primary key id. A reclaim
\* leaves body_stored as it was.
Claim(r, id, old) ==
    [id |-> id, hash |-> req[r].body, state |-> "in_flight",
     stored |-> old.stored, by |-> None, expires |-> req[r].start + TTL]

\* The scope's row is the one r works on (WHERE id = ?).
Mine(r) == rows[req[r].scope].id = hold[r].id /\ hold[r].id # 0
--------------------------------------------------------------------------------
\* A request without a key, with a safe method or outside any workspace.
ServeUnkeyed(r) ==
    /\ pc[r] = "idle"
    /\ GoTo(r, "unkeyed")
    /\ UNCHANGED <<rows, nextId, now, faults, req, hold, answer>>

\* Key too long, body unreadable or larger than maxBody.
Reject(r) ==
    /\ pc[r] = "idle"
    /\ GoTo(r, "done")
    /\ Reply(r, "rejected")
    /\ UNCHANGED <<rows, nextId, now, faults, req, hold>>

\* A keyed request reads the clock once; claim and commit both use that value.
\* Arrivals stop TTL before the clock's bound, so that every claim can expire.
Arrive(r, s, b) ==
    /\ pc[r] = "idle"
    /\ now + TTL <= MaxTime
    /\ GoTo(r, "create")
    /\ req' = [req EXCEPT ![r] = [scope |-> s, body |-> b, start |-> now]]
    /\ UNCHANGED <<rows, nextId, now, faults, hold, answer>>

\* The INSERT: the unique index lets it through only when the scope is empty.
Insert(r) ==
    LET s == req[r].scope IN
    /\ pc[r] = "create"
    /\ IF Present(rows[s])
       THEN /\ GoTo(r, "lookup")
            /\ UNCHANGED <<rows, nextId, hold>>
       ELSE /\ rows' = [rows EXCEPT ![s] = Claim(r, nextId, NoRow)]
            /\ nextId' = nextId + 1
            /\ hold' = [hold EXCEPT ![r] = [id |-> nextId, exp |-> req[r].start + TTL]]
            /\ GoTo(r, "handler")
    /\ UNCHANGED <<now, faults, req, answer>>

\* The INSERT reports an error although the scope was empty; it may have
\* been applied all the same.
InsertFails(r) ==
    LET s == req[r].scope IN
    /\ pc[r] = "create"
    /\ ~Present(rows[s])
    /\ Fault
    /\ GoTo(r, "lookup")
    /\ \/ UNCHANGED <<rows, nextId>>
       \/ /\ rows' = [rows EXCEPT ![s] = Claim(r, nextId, NoRow)]
          /\ nextId' = nextId + 1
    /\ UNCHANGED <<now, req, hold, answer>>

\* The existing row decides; no row (its owner released it meanwhile) is
\* claimError, and so is a failed SELECT.
LookupMissing(r) ==
    /\ pc[r] = "lookup"
    /\ \/ ~Present(rows[req[r].scope]) /\ UNCHANGED faults
       \/ Fault
    /\ GoTo(r, "bare")
    /\ UNCHANGED <<rows, nextId, now, req, hold, answer>>

\* Mutant of LookupExpired: the expiry of the row is not looked at.
LookupTaken(r) ==
    LET row == rows[req[r].scope] IN
    /\ pc[r] = "lookup"
    /\ Present(row)
    /\ hold' = [hold EXCEPT ![r] = [id |-> row.id, exp |-> row.expires]]
    /\ GoTo(r, "reclaim")
    /\ UNCHANGED <<rows, nextId, now, faults, req, answer>>

LookupExpired(r) ==
    LET row == rows[req[r].scope] IN
    /\ pc[r] = "lookup"
    /\ Present(row)
    /\ row.expires <= req[r].start
    /\ hold' = [hold EXCEPT ![r] = [id |-> row.id, exp |-> row.expires]]
    /\ GoTo(r, "reclaim")
    /\ UNCHANGED <<rows, nextId, now, faults, req, answer>>

\* Mutant of LookupLive: the request hash is not compared.
LookupAnyBody(r) ==
    LET row == rows[req[r].scope] IN
    /\ pc[r] = "lookup"
    /\ Present(row)
    /\ row.expires > req[r].start
    /\ \/ row.state = "in_flight" /\ Reply(r, "conflict")
       \/ /\ row.state = "done"
          /\ answer' = [answer EXCEPT ![r] =
                 [kind |-> IF row.stored THEN "replay" ELSE "uncaptured", of |-> row.by]]
    /\ GoTo(r, "done")
    /\ UNCHANGED <<rows, nextId, now, faults, req, hold>>

LookupLive(r) ==
    LET row == rows[req[r].scope] IN
    /\ pc[r] = "lookup"
    /\ Present(row)
    /\ row.expires > req[r].start
    /\ \/ row.hash # req[r].body /\ Reply(r, "mismatch")
       \/ /\ row.hash = req[r].body
          /\ row.state = "in_flight"
          /\ Reply(r, "conflict")
       \/ /\ row.hash = req[r].body
          /\ row.state = "done"
          /\ answer' = [answer EXCEPT ![r] =
                 [kind |-> IF row.stored THEN "replay" ELSE "uncaptured", of |-> row.by]]
    /\ GoTo(r, "done")
    /\ UNCHANGED <<rows, nextId, now, faults, req, hold>>

\* Mutant of ReclaimMatches: the UPDATE is conditional on the id alone.
ReclaimById(r) == Mine(r)

\* UPDATE ... WHERE id = ? AND expires_at = ?: one of several reclaimers wins.
ReclaimMatches(r) == Mine(r) /\ rows[req[r].scope].expires = hold[r].exp

Reclaim(r) ==
    LET s == req[r].scope IN
    /\ pc[r] = "reclaim"
    /\ ReclaimMatches(r)
    /\ rows' = [rows EXCEPT ![s] = Claim(r, hold[r].id, rows[s])]
    /\ GoTo(r, "handler")
    /\ UNCHANGED <<nextId, now, faults, req, hold, answer>>

\* No row matched, or the UPDATE failed (and may still have been applied).
ReclaimLost(r) ==
    LET s == req[r].scope IN
    /\ pc[r] = "reclaim"
    /\ \/ ~ReclaimMatches(r) /\ UNCHANGED <<rows, faults>>
       \/ Fault /\ UNCHANGED rows
       \/ /\ ReclaimMatches(r)
          /\ Fault
          /\ rows' = [rows EXCEPT ![s] = Claim(r, hold[r].id, rows[s])]
    /\ GoTo(r, "bare")
    /\ UNCHANGED <<nextId, now, req, hold, answer>>

\* The handler answers the client. A 5xx, a 429 or a panic is a failure.
HandlerReturns(r) ==
    /\ pc[r] = "handler"
    /\ \/ GoTo(r, "commit") /\ Reply(r, "ok")
       \/ GoTo(r, "release") /\ Reply(r, "failed")
    /\ UNCHANGED <<rows, nextId, now, faults, req, hold>>

\* The same, for a request served without de-duplication.
BareReturns(r) ==
    /\ pc[r] \in {"bare", "unkeyed"}
    /\ GoTo(r, "done")
    /\ Reply(r, "ok") \/ Reply(r, "failed")
    /\ UNCHANGED <<rows, nextId, now, faults, req, hold>>

\* Mutant of Commit: the row is filed under a state nothing looks for.
CommitComplete(r, captured) ==
    LET s == req[r].scope IN
    /\ pc[r] = "commit"
    /\ rows' = IF Mine(r)
               THEN [rows EXCEPT ![s] = [id |-> @.id, hash |-> @.hash, state |-> "complete",
                        stored |-> captured, by |-> r, expires |-> req[r].start + TTL]]
               ELSE rows
    /\ GoTo(r, "done")
    /\ UNCHANGED <<nextId, now, faults, req, hold, answer>>

\* commit(): UPDATE ... WHERE id = ?. captured says whether the body was kept.
Commit(r, captured) ==
    LET s == req[r].scope IN
    /\ pc[r] = "commit"
    /\ rows' = IF Mine(r)
               THEN [rows EXCEPT ![s] = [id |-> @.id, hash |-> @.hash, state |-> "done",
                        stored |-> captured, by |-> r, expires |-> req[r].start + TTL]]
               ELSE rows
    /\ GoTo(r, "done")
    /\ UNCHANGED <<nextId, now, faults, req, hold, answer>>

\* Mutant of Release: a failed request leaves its row in place.
ReleaseForgotten(r) ==
    /\ pc[r] = "release"
    /\ GoTo(r, "done")
    /\ UNCHANGED <<rows, nextId, now, faults, req, hold, answer>>

\* release(): DELETE ... WHERE id = ?.
Release(r) ==
    LET s == req[r].scope IN
    /\ pc[r] = "release"
    /\ rows' = IF Mine(r) THEN [rows EXCEPT ![s] = NoRow] ELSE rows
    /\ GoTo(r, "done")
    /\ UNCHANGED <<nextId, now, faults, req, hold, answer>>

\* commit() and release() only log a failed statement: the row stays in flight.
OutcomeLost(r) ==
    /\ pc[r] \in {"commit", "release"}
    /\ Fault
    /\ GoTo(r, "done")
    /\ UNCHANGED <<rows, nextId, now, req, hold, answer>>

\* The process serving r dies; its row is left as it is.
Crash(r) ==
    /\ Keyed(r) \/ pc[r] = "bare"
    /\ Fault
    /\ GoTo(r, "crashed")
    /\ UNCHANGED <<rows, nextId, now, req, hold, answer>>

\* Mutant of Purge: rows are deleted one unit before their deadline.
PurgeEarly(cutoff) ==
    /\ rows' = [s \in Scopes |-> IF rows[s].expires <= cutoff + 1 THEN NoRow ELSE rows[s]]
    /\ UNCHANGED <<nextId, now, faults, pc, req, hold, answer>>

\* Purge(): DELETE ... WHERE expires_at <= the clock it read a moment before.
Purge(cutoff) ==
    /\ rows' = [s \in Scopes |-> IF rows[s].expires <= cutoff THEN NoRow ELSE rows[s]]
    /\ UNCHANGED <<nextId, now, faults, pc, req, hold, answer>>

\* The clock. Unless MayOutlive, a request is served before its TTL is over
\* (the default TTL is 24 hours).
Tick ==
    /\ now < MaxTime
    /\ MayOutlive \/ \A r \in Requests : Keyed(r) => now + 1 < req[r].start + TTL
    /\ now' = now + 1
    /\ UNCHANGED <<rows, nextId, faults, pc, req, hold, answer>>

\* One statement of serve() for r.
Serve(r) ==
    \/ Insert(r) \/ LookupMissing(r) \/ LookupExpired(r) \/ LookupLive(r)
    \/ Reclaim(r) \/ ReclaimLost(r) \/ HandlerReturns(r) \/ BareReturns(r)
    \/ (\E captured \in BOOLEAN : Commit(r, captured)) \/ Release(r)

Next ==
    \/ \E r \in Requests :
          \/ ServeUnkeyed(r) \/ Reject(r)
          \/ \E s \in Scopes, b \in Bodies : Arrive(r, s, b)
          \/ Serve(r) \/ InsertFails(r) \/ OutcomeLost(r) \/ Crash(r)
    \/ \E cutoff \in 0..now : Purge(cutoff)
    \/ Tick

Spec == Init /\ [][Next]_vars

\* Goroutines are scheduled and handlers return; arrivals, faults, crashes and
\* Purge need not happen. Time passes.
FairSpec == Spec /\ WF_vars(Tick) /\ \A r \in Requests : WF_vars(Serve(r))
--------------------------------------------------------------------------------
\* Two requests never hold the claim of one key at the same time, although
\* the claim is taken by an INSERT or by a conditional UPDATE of a row read
\* earlier, and given up by id, in separate statements.
ExclusiveClaim ==
    \A r, q \in Requests :
        Owner(r) /\ Owner(q) /\ req[r].scope = req[q].scope => r = q

\* A replayed answer was produced under the same key, for the same body, by a
\* request whose handler succeeded: never an unrelated or a failed response.
ReplayFaithful ==
    \A r \in Requests :
        answer[r].kind \in {"replay", "uncaptured"} =>
            LET q == answer[r].of IN
            /\ q \in Requests /\ q # r
            /\ req[q].scope = req[r].scope
            /\ req[q].body = req[r].body
            /\ answer[q].kind = "ok"

\* A key that answers 409 "still in progress" is held by a running request,
\* unless a crash or a failed statement left its row behind: a handler that
\* fails never locks its client out.
InFlightHeld ==
    \A s \in Scopes :
        Present(rows[s]) /\ rows[s].state = "in_flight" /\ faults = 0 =>
            \E r \in Requests : Owner(r) /\ req[r].scope = s /\ Mine(r)

\* Until its TTL is over, a stored response is not reclaimed, overwritten,
\* released or purged, whatever the other requests are in the middle of.
StoredResponseSticks ==
    [][\A s \in Scopes :
          rows[s].state = "done" /\ now < rows[s].expires => rows'[s] = rows[s]]_vars

\* A key left in flight, by a crash or a lost outcome too, stops being
\* refused no later than its TTL.
KeyNeverStuck ==
    \A s \in Scopes :
        Present(rows[s]) /\ rows[s].state = "in_flight" ~>
            ~(Present(rows[s]) /\ rows[s].state = "in_flight" /\ now < rows[s].expires)

\* The package comment's "A repeat that arrives while the first is still in
\* flight gets 409 with Retry-After, not a second execution": two handlers of
\* one key never run side by side when the table never failed.
NoSecondExecution ==
    faults = 0 =>
        \A r, q \in Requests :
            /\ pc[r] \in {"handler", "bare"} /\ pc[q] \in {"handler", "bare"}
            /\ req[r].scope = req[q].scope
            => r = q
--------------------------------------------------------------------------------
\* The inductive invariant behind the properties above: how the clock, a
\* request's own copy of its deadline and the shared row hang together.

\* A keyed request was admitted at most TTL ago.
KeyedInTime ==
    \A r \in Requests : Keyed(r) =>
        /\ req[r].scope \in Scopes
        /\ req[r].body \in Bodies
        /\ req[r].start <= now
        /\ now < req[r].start + TTL

\* An owner's row is still its own claim.
OwnerHoldsRow ==
    \A r \in Requests : Owner(r) =>
        LET row == rows[req[r].scope] IN
        /\ Mine(r)
        /\ row.state = "in_flight"
        /\ row.hash = req[r].body
        /\ row.expires = req[r].start + TTL

\* What a reclaimer is about to match has expired.
ReclaimsExpired ==
    \A r \in Requests : pc[r] = "reclaim" => hold[r].exp <= req[r].start

\* A finished row names the request whose success it stores.
DoneBySuccess ==
    \A s \in Scopes : rows[s].state = "done" =>
        /\ Present(rows[s])
        /\ rows[s].by \in Requests
        /\ pc[rows[s].by] = "done"
        /\ answer[rows[s].by].kind = "ok"
        /\ req[rows[s].by].scope = s
        /\ req[rows[s].by].body = rows[s].hash

\* Answers come with the end of a request, or with its handler's return.
AnswersFit ==
    \A r \in Requests :
        /\ pc[r] = "commit" => answer[r].kind = "ok"
        /\ answer[r].kind \in {"replay", "uncaptured"} =>
               pc[r] = "done" /\ answer[r].of \in Requests /\ pc[answer[r].of] = "done"

IInv == /\ TypeOK /\ KeyedInTime /\ OwnerHoldsRow /\ ReclaimsExpired
        /\ DoneBySuccess /\ AnswersFit /\ ExclusiveClaim /\ ReplayFaithful
--------------------------------------------------------------------------------
\* Refinement mapping to IdempotencyContract.
Holder(s) ==
    IF \E r \in Requests : Owner(r) /\ req[r].scope = s
    THEN CHOOSE r \in Requests : Owner(r) /\ req[r].scope = s
    ELSE None

StoredBy(s) ==
    IF rows[s].state = "done" /\ now < rows[s].expires THEN rows[s].by ELSE None

Contract == INSTANCE IdempotencyContract
    WITH holder <- [s \in Scopes |-> Holder(s)], stored <- [s \in Scopes |-> StoredBy(s)]

\* The middleware implements its contract.
ImplementsContract == Contract!ContractSpec
================================================================================
