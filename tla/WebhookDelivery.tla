--------------------------- MODULE WebhookDelivery ---------------------------
(***************************************************************************)
(* server/internal/eventbus/delivery.go and Publish in eventbus.go: each   *)
(* (event, hook) pair is a delivery with a persisted row and a loop of     *)
(* HTTP attempts; an operator may replay a row meanwhile or later; a       *)
(* server that dies takes its loops along and leaves the rows.             *)
(***************************************************************************)
EXTENDS Naturals, Sequences, FiniteSets

CONSTANTS Events,
          Deliveries,
          Fanout,       \* event -> its deliveries in order of its hooks
          Replays,      \* replay requests
          None,         \* no delivery
          maxAttempts,
          Slots,        \* maxConcurrentDeliveries
          MaxFaults     \* bound on failed writes and on crashes

ASSUME DeliveryAssumption ==
    /\ Fanout \in [Events -> Seq(Deliveries)]
    /\ maxAttempts \in Nat \ {0} /\ Slots \in Nat \ {0} /\ MaxFaults \in Nat
    /\ None \notin Deliveries /\ IsFiniteSet(Deliveries)
    \* Every (event, hook) pair has a delivery id of its own.
    /\ \A e, f \in Events : \A i \in DOMAIN Fanout[e], j \in DOMAIN Fanout[f] :
          Fanout[e][i] = Fanout[f][j] => e = f /\ i = j

VARIABLES row,       \* delivery -> its webhook_deliveries row
          todo,      \* event -> what its publishing goroutine has yet to start
          loop,      \* delivery -> where deliverWithRetry is
          sem,       \* taken slots of deliverySem
          replay,    \* request -> where Replay is
          accepted,  \* deliveries whose receiver has answered 2xx
          tried,     \* history: deliveries that have left for their receiver
          faults

vars == <<row, todo, loop, sem, replay, accepted, tried, faults>>

Statuses == {"none", "pending", "delivered", "failed"}
Results == {"none", "ok", "permanent", "transient"}

NoRow == [status |-> "none", attempts |-> 0]

\* log: whether the row was inserted, or could not be; budget: deliveryBudget.
Loop == [at : {"idle", "record", "attempt", "note", "after", "bury", "gone"},
         n : Nat, log : {"none", "row", "lost"}, budget : {"left", "over"}, res : Results]
NoLoop == [at |-> "idle", n |-> 0, log |-> "none", budget |-> "left", res |-> "none"]

Replay == [at : {"idle", "attempt", "note", "gone"}, d : Deliveries \cup {None}, n : Nat, res : Results]
NoReplay == [at |-> "idle", d |-> None, n |-> 0, res |-> "none"]

Running(d) == loop[d].at \notin {"idle", "gone"}

TypeOK ==
    /\ row \in [Deliveries -> [status : Statuses, attempts : Nat]]
    /\ todo \in [Events -> Seq(Deliveries)]
    /\ loop \in [Deliveries -> Loop] /\ \A d \in Deliveries : loop[d].n <= maxAttempts
    /\ sem \in 0..Slots
    /\ replay \in [Replays -> Replay]
    /\ accepted \subseteq Deliveries /\ tried \subseteq Deliveries
    /\ faults \in 0..MaxFaults

Init ==
    /\ row = [d \in Deliveries |-> NoRow]
    /\ todo = [e \in Events |-> <<>>]
    /\ loop = [d \in Deliveries |-> NoLoop]
    /\ sem = 0
    /\ replay = [r \in Replays |-> NoReplay]
    /\ accepted = {} /\ tried = {}
    /\ faults = 0

--------------------------------------------------------------------------------
\* Publish reads the subscribed hooks (once for each event here).
Publish(e) ==
    /\ todo[e] = <<>>
    /\ \A i \in DOMAIN Fanout[e] : loop[Fanout[e][i]].at = "idle"
    /\ todo' = [todo EXCEPT ![e] = Fanout[e]]
    /\ UNCHANGED <<row, loop, sem, replay, accepted, tried, faults>>

\* The publishing goroutine takes a slot, or waits for one, hook by hook.
Acquire(e) ==
    /\ todo[e] # <<>>
    /\ sem < Slots
    /\ sem' = sem + 1
    /\ loop' = [loop EXCEPT ![Head(todo[e])].at = "record"]
    /\ todo' = [todo EXCEPT ![e] = Tail(@)]
    /\ UNCHANGED <<row, replay, accepted, tried, faults>>

\* Mutant of RecordPending: the row is left to the first result.
RecordNothing(d) ==
    /\ loop[d].at = "record"
    /\ loop' = [loop EXCEPT ![d] = [@ EXCEPT !.at = "attempt", !.n = 1, !.log = "row"]]
    /\ UNCHANGED <<row, todo, sem, replay, accepted, tried, faults>>

\* recordPending: a row that cannot be inserted (or whose insertion is not
\* acknowledged) does not stop the send.
RecordPending(d) ==
    /\ loop[d].at = "record"
    /\ \E saved \in BOOLEAN :
          /\ saved \/ faults < MaxFaults
          /\ faults' = IF saved THEN faults ELSE faults + 1
          /\ \/ row' = [row EXCEPT ![d].status = "pending"]
             \/ ~saved /\ UNCHANGED row
          /\ loop' = [loop EXCEPT ![d] = [@ EXCEPT !.at = "attempt", !.n = 1,
                                                      !.log = IF saved THEN "row" ELSE "lost"]]
    /\ UNCHANGED <<todo, sem, replay, accepted, tried>>

\* Mutant of Post: any response counts as success.
PostAnyAnswer(d, late, res) ==
    IF res = "permanent" \/ late THEN UNCHANGED <<accepted, tried>>
    ELSE /\ tried' = tried \cup {d}
         /\ accepted' \in {accepted, accepted \cup {d}}

\* attempt: a 2xx is a success; without one the receiver may have accepted all
\* the same. Nothing is sent for a permanent failure or after the budget.
Post(d, late, res) ==
    IF res = "permanent" \/ late
    THEN res # "ok" /\ UNCHANGED <<accepted, tried>>
    ELSE /\ tried' = tried \cup {d}
         /\ accepted' \in IF res = "ok" THEN {accepted \cup {d}} ELSE {accepted, accepted \cup {d}}

Attempt(d) ==
    /\ loop[d].at = "attempt"
    /\ \E res \in {"ok", "permanent", "transient"} :
          /\ Post(d, loop[d].budget = "over", res)
          /\ loop' = [loop EXCEPT ![d] = [@ EXCEPT !.at = "note", !.res = res]]
    /\ UNCHANGED <<row, todo, sem, replay, faults>>

\* recordResult: one UPDATE by id, skipped without a row; its failure is logged.
Write(d, saved, status, attempts) ==
    \/ /\ row' = IF saved THEN [row EXCEPT ![d] = [status |-> status, attempts |-> attempts]] ELSE row
       /\ UNCHANGED faults
    \/ /\ saved /\ faults < MaxFaults
       /\ faults' = faults + 1
       /\ UNCHANGED row

\* deliverWithRetry returns; the goroutine gives its slot back.
Return(d) ==
    /\ loop' = [loop EXCEPT ![d] = [NoLoop EXCEPT !.at = "gone", !.log = loop[d].log]]
    /\ sem' = sem - 1

\* Success and permanent failure end the loop; anything else may be retried.
Note(d) ==
    /\ loop[d].at = "note"
    /\ LET res == loop[d].res
           status == CASE res = "ok" -> "delivered" [] res = "permanent" -> "failed" [] OTHER -> "pending"
       IN  /\ Write(d, loop[d].log = "row", status, loop[d].n)
           /\ IF res = "transient" THEN loop' = [loop EXCEPT ![d].at = "after"] /\ UNCHANGED sem
              ELSE Return(d)
    /\ UNCHANGED <<todo, replay, accepted, tried>>

\* Mutant of After: retries until the receiver answers.
AfterForever(d) ==
    /\ loop[d].at = "after"
    /\ loop' = [loop EXCEPT ![d].at = "attempt"]
    /\ UNCHANGED <<row, todo, sem, replay, accepted, tried, faults>>

\* Mutant of After: one attempt too many.
AfterBeyond(d) ==
    /\ loop[d].at = "after"
    /\ IF loop[d].n > maxAttempts \/ loop[d].budget = "over"
       THEN loop' = [loop EXCEPT ![d].at = "bury"]
       ELSE loop' = [loop EXCEPT ![d] = [@ EXCEPT !.at = "attempt", !.n = loop[d].n + 1]]
    /\ UNCHANGED <<row, todo, sem, replay, accepted, tried, faults>>

\* Used up or over the budget: dead letter. Else, after a nap, once more.
After(d) ==
    /\ loop[d].at = "after"
    /\ IF loop[d].n = maxAttempts \/ loop[d].budget = "over"
       THEN loop' = [loop EXCEPT ![d].at = "bury"]
       ELSE loop' = [loop EXCEPT ![d] = [@ EXCEPT !.at = "attempt", !.n = loop[d].n + 1]]
    /\ UNCHANGED <<row, todo, sem, replay, accepted, tried, faults>>

Bury(d) ==
    /\ loop[d].at = "bury"
    /\ Write(d, loop[d].log = "row", "failed", loop[d].n)
    /\ Return(d)
    /\ UNCHANGED <<todo, replay, accepted, tried>>

\* The fifteen minutes are over.
BudgetEnds(d) ==
    /\ loop[d].at \in {"record", "attempt", "note", "after"} /\ loop[d].budget = "left"
    /\ loop' = [loop EXCEPT ![d].budget = "over"]
    /\ UNCHANGED <<row, todo, sem, replay, accepted, tried, faults>>
--------------------------------------------------------------------------------
\* Replay of a logged delivery, whatever its status.
ReplayRead(r, d) ==
    /\ replay[r].at = "idle"
    /\ row[d].status # "none"
    /\ replay' = [replay EXCEPT ![r] = [at |-> "attempt", d |-> d, n |-> row[d].attempts + 1, res |-> "none"]]
    /\ UNCHANGED <<row, todo, loop, sem, accepted, tried, faults>>

\* The hook or its secret is gone.
ReplayRefused(r) ==
    /\ replay[r].at = "attempt"
    /\ replay' = [replay EXCEPT ![r] = [NoReplay EXCEPT !.at = "gone"]]
    /\ UNCHANGED <<row, todo, loop, sem, accepted, tried, faults>>

ReplayAttempt(r) ==
    /\ replay[r].at = "attempt"
    /\ \E res \in {"ok", "permanent", "transient"} :
          /\ Post(replay[r].d, FALSE, res)
          /\ replay' = [replay EXCEPT ![r] = [@ EXCEPT !.at = "note", !.res = res]]
    /\ UNCHANGED <<row, todo, loop, sem, faults>>

ReplayNote(r) ==
    /\ replay[r].at = "note"
    /\ Write(replay[r].d, TRUE, IF replay[r].res = "ok" THEN "delivered" ELSE "failed", replay[r].n)
    /\ replay' = [replay EXCEPT ![r] = [NoReplay EXCEPT !.at = "gone"]]
    /\ UNCHANGED <<todo, loop, sem, accepted, tried>>

\* The server dies; nothing takes its loops up again.
Crash ==
    /\ faults < MaxFaults
    /\ faults' = faults + 1
    /\ todo' = [e \in Events |-> <<>>]
    /\ loop' = [d \in Deliveries |-> IF Running(d) THEN [NoLoop EXCEPT !.at = "gone", !.log = loop[d].log]
                                     ELSE loop[d]]
    /\ sem' = 0
    /\ replay' = [r \in Replays |-> IF replay[r].at = "idle" THEN NoReplay ELSE [NoReplay EXCEPT !.at = "gone"]]
    /\ UNCHANGED <<row, accepted, tried>>

Deliver(d) == RecordPending(d) \/ Attempt(d) \/ Note(d) \/ After(d) \/ Bury(d)

Next ==
    \/ \E e \in Events : Publish(e) \/ Acquire(e)
    \/ \E d \in Deliveries : Deliver(d) \/ BudgetEnds(d)
    \/ \E r \in Replays : \/ \E d \in Deliveries : ReplayRead(r, d)
                          \/ ReplayRefused(r) \/ ReplayAttempt(r) \/ ReplayNote(r)
    \/ Crash

Spec == Init /\ [][Next]_vars

\* Attempts have timeouts, statements return, and a channel send that waits is
\* served in turn. Receivers need never answer, servers may die.
FairSpec ==
    /\ Spec
    /\ \A d \in Deliveries : WF_vars(Deliver(d))
    /\ \A e \in Events : SF_vars(Acquire(e))
--------------------------------------------------------------------------------
\* "delivered" is never said of a delivery its receiver has not accepted, be
\* it by the loop or by a replay.
DeliveredIsTrue == \A d \in Deliveries : row[d].status = "delivered" => d \in accepted

\* "the row is created BEFORE the first HTTP attempt so a crash mid-flight
\* leaves evidence": what has been sent is in the log, unless its insert failed.
SentHasEvidence ==
    \A d \in tried : row[d].status # "none" \/ loop[d].log = "lost"

\* Receivers that never answer delay other deliveries but do not block them:
\* every hook of a published event gets its slot and its loop ends.
EachSettles ==
    /\ \A d \in Deliveries : Running(d) ~> ~Running(d)
    /\ \A e \in Events : todo[e] # <<>> ~> todo[e] = <<>>
================================================================================
