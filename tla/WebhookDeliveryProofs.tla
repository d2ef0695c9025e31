------------------------- MODULE WebhookDeliveryProofs -------------------------
(***************************************************************************)
(* What WebhookDelivery guarantees for any number of events, hooks,        *)
(* replays, attempts, slots and faults.                                    *)
(***************************************************************************)
EXTENDS WebhookDelivery, FiniteSetTheorems, TLAPS

\* The loops that run, each on a slot of deliverySem.
RunningSet == {d \in Deliveries : Running(d)}

\* What a publishing goroutine has yet to start are hooks of its own event,
\* each once, and none has been started.
Waiting ==
    \A e \in Events : \A i \in DOMAIN todo[e] :
        /\ loop[todo[e][i]].at = "idle"
        /\ \E k \in DOMAIN Fanout[e] : todo[e][i] = Fanout[e][k]
        /\ \A j \in DOMAIN todo[e] : todo[e][i] = todo[e][j] => i = j

\* Every slot is held by one running loop: none leaks, none is taken twice.
SlotsHeld == sem = Cardinality(RunningSet)

\* A success that is still to be written was answered by the receiver.
OkIsAccepted ==
    /\ \A d \in Deliveries : loop[d].at = "note" /\ loop[d].res = "ok" => d \in accepted
    /\ \A r \in Replays : replay[r].at = "note" /\ replay[r].res = "ok" => replay[r].d \in accepted

\* A row that was inserted stays; nothing is sent before the insertion was
\* tried; a replay works on a row.
RowsExist ==
    /\ \A d \in Deliveries : loop[d].log = "row" => row[d].status # "none"
    /\ \A d \in Deliveries : loop[d].at \in {"attempt", "note", "after", "bury"} => loop[d].log # "none"
    /\ \A r \in Replays : replay[r].at \in {"attempt", "note"} =>
          replay[r].d \in Deliveries /\ row[replay[r].d].status # "none"

IInv == TypeOK /\ Waiting /\ SlotsHeld /\ OkIsAccepted /\ RowsExist /\ DeliveredIsTrue /\ SentHasEvidence
--------------------------------------------------------------------------------
\* Nothing has been published.
LEMMA InitIInv == Init => IInv
<1> SUFFICES ASSUME Init PROVE IInv
  OBVIOUS
<1> USE DeliveryAssumption
<1>1. TypeOK
  BY DEF Init, TypeOK, NoRow, Statuses, NoLoop, Loop, Results, NoReplay, Replay
<1>2. RunningSet = {}
  BY DEF Init, RunningSet, Running, NoLoop
<1>3. SlotsHeld
  BY <1>2, FS_EmptySet DEF SlotsHeld, Init
<1>4. Waiting /\ OkIsAccepted /\ RowsExist /\ DeliveredIsTrue /\ SentHasEvidence
  BY DEF Init, Waiting, OkIsAccepted, RowsExist, DeliveredIsTrue, SentHasEvidence, NoRow, NoLoop, NoReplay
<1> QED
  BY <1>1, <1>3, <1>4 DEF IInv

\* What starting or ending one loop does to the number of those that run.
LEMMA Counted ==
    ASSUME TypeOK, SlotsHeld, NEW d \in Deliveries
    PROVE  /\ IsFiniteSet(RunningSet)
           /\ Running(d) => /\ sem \in 1..Slots
                            /\ sem - 1 = Cardinality(RunningSet \ {d})
           /\ ~Running(d) => sem + 1 = Cardinality(RunningSet \cup {d})
<1> USE DeliveryAssumption
<1>1. IsFiniteSet(RunningSet)
  BY FS_Subset DEF RunningSet
<1>2. Cardinality(RunningSet) \in Nat /\ (Cardinality(RunningSet) = 0 <=> RunningSet = {})
  BY <1>1, FS_CardinalityType, FS_EmptySet
<1>3. Running(d) <=> d \in RunningSet
  BY DEF RunningSet
<1>4. Cardinality(RunningSet \ {d}) = IF d \in RunningSet THEN Cardinality(RunningSet) - 1 ELSE Cardinality(RunningSet)
  BY <1>1, FS_RemoveElement
<1>5. Cardinality(RunningSet \cup {d}) = IF d \in RunningSet THEN Cardinality(RunningSet) ELSE Cardinality(RunningSet) + 1
  BY <1>1, FS_AddElement
<1>6. sem \in 0..Slots /\ sem = Cardinality(RunningSet)
  BY DEF TypeOK, SlotsHeld
<1>7. Running(d) => sem # 0
  BY <1>2, <1>3, <1>6
<1> QED
  BY <1>1, <1>2, <1>3, <1>4, <1>5, <1>6, <1>7

\* Every step but a crash starts, ends or moves at most one loop.
LEMMA SlotsStep ==
    ASSUME TypeOK, SlotsHeld, Waiting, Next
    PROVE  SlotsHeld' /\ sem' \in 0..Slots
<1> USE DEF SlotsHeld
<1>1. ASSUME NEW e \in Events, Acquire(e) PROVE SlotsHeld' /\ sem' \in 0..Slots
  <2> DEFINE d == Head(todo[e])
  <2>1. d \in Deliveries /\ ~Running(d)
    BY <1>1 DEF Acquire, TypeOK, Waiting, Running
  <2>2. RunningSet' = RunningSet \cup {d}
    BY <1>1, <2>1 DEF Acquire, TypeOK, RunningSet, Running, Loop
  <2>3. sem + 1 = Cardinality(RunningSet \cup {d})
    BY <2>1, Counted
  <2> QED
    BY <1>1, <2>2, <2>3, DeliveryAssumption DEF Acquire, TypeOK
<1>2. ASSUME NEW d \in Deliveries, Running(d), Return(d) PROVE SlotsHeld' /\ sem' \in 0..Slots
  <2>1. RunningSet' = RunningSet \ {d}
    BY <1>2 DEF Return, TypeOK, RunningSet, Running, Loop, NoLoop
  <2>2. sem \in 1..Slots /\ sem - 1 = Cardinality(RunningSet \ {d})
    BY <1>2, Counted
  <2> QED
    BY <1>2, <2>1, <2>2, DeliveryAssumption DEF Return
<1>3. ASSUME Crash PROVE SlotsHeld' /\ sem' \in 0..Slots
  <2>1. RunningSet' = {}
    BY <1>3 DEF Crash, TypeOK, RunningSet, Running, NoLoop, Loop
  <2>2. Cardinality(RunningSet') = 0
    BY <2>1, FS_EmptySet
  <2>3. sem' = 0
    BY <1>3 DEF Crash
  <2> QED
    BY <2>2, <2>3, DeliveryAssumption
<1>4. ASSUME sem' = sem, RunningSet' = RunningSet PROVE SlotsHeld' /\ sem' \in 0..Slots
  BY <1>4 DEF TypeOK
<1>5. ASSUME NEW e \in Events, Publish(e) PROVE SlotsHeld' /\ sem' \in 0..Slots
  BY <1>4, <1>5 DEF Publish, RunningSet, Running
<1>6. ASSUME NEW d \in Deliveries, Deliver(d) \/ BudgetEnds(d) PROVE SlotsHeld' /\ sem' \in 0..Slots
  <2>1. ASSUME RecordPending(d) \/ Attempt(d) \/ After(d) \/ BudgetEnds(d)
        PROVE  sem' = sem /\ RunningSet' = RunningSet
    <3>1. CASE RecordPending(d)
      BY <3>1 DEF RecordPending, TypeOK, RunningSet, Running, Loop
    <3>2. CASE Attempt(d)
      BY <3>2 DEF Attempt, TypeOK, RunningSet, Running, Loop
    <3>3. CASE After(d)
      <4>1. /\ sem' = sem /\ Running(d)
            /\ loop'[d].at \in {"bury", "attempt"}
            /\ \A x \in Deliveries \ {d} : loop'[x] = loop[x]
        BY <3>3 DEF After, TypeOK, Running, Loop
      <4> QED
        BY <4>1 DEF RunningSet, Running
    <3>4. CASE BudgetEnds(d)
      BY <3>4 DEF BudgetEnds, TypeOK, RunningSet, Running, Loop
    <3> QED
      BY <2>1, <3>1, <3>2, <3>3, <3>4
  <2>2. ASSUME Note(d) PROVE Return(d) \/ (sem' = sem /\ RunningSet' = RunningSet)
    <3>1. CASE loop' = [loop EXCEPT ![d].at = "after"] /\ sem' = sem /\ loop[d].at = "note"
      BY <3>1 DEF TypeOK, RunningSet, Running, Loop
    <3> QED
      BY <2>2, <3>1 DEF Note
  <2>3. ASSUME Bury(d) PROVE Return(d)
    BY <2>3 DEF Bury
  <2>4. Note(d) \/ Bury(d) => Running(d)
    BY DEF Note, Bury, Running
  <2> QED
    BY <1>2, <1>4, <1>6, <2>1, <2>2, <2>3, <2>4 DEF Deliver
<1>7. ASSUME NEW r \in Replays, NEW d \in Deliveries,
             ReplayRead(r, d) \/ ReplayRefused(r) \/ ReplayAttempt(r) \/ ReplayNote(r)
      PROVE  SlotsHeld' /\ sem' \in 0..Slots
  BY <1>4, <1>7 DEF ReplayRead, ReplayRefused, ReplayAttempt, ReplayNote, RunningSet, Running
<1>8. ASSUME NEW r \in Replays, ReplayRefused(r) \/ ReplayAttempt(r) \/ ReplayNote(r)
      PROVE  SlotsHeld' /\ sem' \in 0..Slots
  BY <1>4, <1>8 DEF ReplayRefused, ReplayAttempt, ReplayNote, RunningSet, Running
<1> QED
  BY <1>1, <1>3, <1>5, <1>6, <1>7, <1>8 DEF Next
--------------------------------------------------------------------------------
\* recordResult leaves rows, as they were or with the result.
LEMMA WriteEffect ==
    ASSUME TypeOK, NEW d \in Deliveries, NEW saved \in BOOLEAN, NEW status \in Statuses, NEW n \in Nat,
           Write(d, saved, status, n)
    PROVE  /\ row' \in [Deliveries -> [status : Statuses, attempts : Nat]]
           /\ faults' \in 0..MaxFaults
<1>1. CASE row' = IF saved THEN [row EXCEPT ![d] = [status |-> status, attempts |-> n]] ELSE row
  BY <1>1, DeliveryAssumption DEF TypeOK, Write
<1>2. CASE UNCHANGED row
  BY <1>2, DeliveryAssumption DEF TypeOK, Write
<1> QED
  BY <1>1, <1>2 DEF Write

\* What deliverWithRetry writes after an attempt.
Outcome(res) == CASE res = "ok" -> "delivered" [] res = "permanent" -> "failed" [] OTHER -> "pending"

LEMMA OutcomeStatus ==
    ASSUME NEW res
    PROVE  /\ Outcome(res) \in Statuses \ {"none"}
           /\ Outcome(res) = "delivered" <=> res = "ok"
BY DEF Outcome, Statuses

\* What the steps make of a loop is a loop.
LEMMA LoopValues ==
    ASSUME NEW l \in Loop
    PROVE  /\ \A res \in Results : [l EXCEPT !.at = "note", !.res = res] \in Loop
           /\ \A log \in {"row", "lost"} : [l EXCEPT !.at = "attempt", !.n = 1, !.log = log] \in Loop
           /\ [l EXCEPT !.at = "attempt", !.n = l.n + 1] \in Loop
           /\ \A at \in {"record", "after", "bury"} : [l EXCEPT !.at = at] \in Loop
           /\ [l EXCEPT !.budget = "over"] \in Loop
           /\ [NoLoop EXCEPT !.at = "gone", !.log = l.log] \in Loop
<1>1. ASSUME NEW res \in Results PROVE [l EXCEPT !.at = "note", !.res = res] \in Loop
  BY DEF Loop
<1>2. ASSUME NEW log \in {"row", "lost"} PROVE [l EXCEPT !.at = "attempt", !.n = 1, !.log = log] \in Loop
  BY DEF Loop
<1>3. [l EXCEPT !.at = "attempt", !.n = l.n + 1] \in Loop
  <2>1. [l EXCEPT !.at = "attempt"] \in Loop
    BY DEF Loop
  <2>2. ASSUME NEW k \in Loop PROVE [k EXCEPT !.n = k.n + 1] \in Loop
    BY DEF Loop
  <2>3. [l EXCEPT !.at = "attempt"].n = l.n
    BY DEF Loop
  <2> QED
    BY <2>1, <2>2, <2>3
<1>4. ASSUME NEW at \in {"record", "after", "bury"} PROVE [l EXCEPT !.at = at] \in Loop
  BY DEF Loop
<1>5. [l EXCEPT !.budget = "over"] \in Loop
  BY DEF Loop
<1>6. [NoLoop EXCEPT !.at = "gone", !.log = l.log] \in Loop
  BY DEF Loop, NoLoop, Results
<1> QED
  BY <1>1, <1>2, <1>3, <1>4, <1>5, <1>6

\* Every step moves loops to loops.
LEMMA LoopStep ==
    ASSUME TypeOK, Next
    PROVE  loop' \in [Deliveries -> Loop]
<1>0. loop \in [Deliveries -> Loop]
  BY DEF TypeOK
<1>1. ASSUME NEW d \in Deliveries, NEW l \in Loop, loop' = [loop EXCEPT ![d] = l]
      PROVE  loop' \in [Deliveries -> Loop]
  BY <1>0, <1>1
<1>2. CASE loop' = loop
  BY <1>0, <1>2
<1>3. ASSUME NEW e \in Events, Acquire(e) PROVE loop' \in [Deliveries -> Loop]
  <2>1. Head(todo[e]) \in Deliveries
    BY <1>3 DEF Acquire, TypeOK
  <2> QED
    BY <1>0, <1>1, <1>3, <2>1, LoopValues DEF Acquire
<1>4. ASSUME NEW d \in Deliveries, RecordPending(d) PROVE loop' \in [Deliveries -> Loop]
  <2>1. PICK log \in {"row", "lost"} :
           loop' = [loop EXCEPT ![d] = [loop[d] EXCEPT !.at = "attempt", !.n = 1, !.log = log]]
    BY <1>4 DEF RecordPending
  <2> QED
    BY <1>0, <1>1, <2>1, LoopValues
<1>5. ASSUME NEW d \in Deliveries, Attempt(d) PROVE loop' \in [Deliveries -> Loop]
  <2>1. PICK res \in Results : loop' = [loop EXCEPT ![d] = [loop[d] EXCEPT !.at = "note", !.res = res]]
    BY <1>5 DEF Attempt, Results
  <2> QED
    BY <1>0, <1>1, <2>1, LoopValues
<1>6. ASSUME NEW d \in Deliveries, Return(d) PROVE loop' \in [Deliveries -> Loop]
  BY <1>0, <1>1, <1>6, LoopValues DEF Return
<1>7. ASSUME NEW d \in Deliveries, NEW at \in {"after", "bury"}, loop' = [loop EXCEPT ![d].at = at]
      PROVE  loop' \in [Deliveries -> Loop]
  BY <1>0, <1>1, <1>7, LoopValues
<1>8. ASSUME NEW d \in Deliveries, After(d) PROVE loop' \in [Deliveries -> Loop]
  <2>1. CASE loop' = [loop EXCEPT ![d] = [loop[d] EXCEPT !.at = "attempt", !.n = loop[d].n + 1]]
    BY <1>0, <1>1, <2>1, LoopValues
  <2> QED
    BY <1>7, <1>8, <2>1 DEF After
<1>9. ASSUME NEW d \in Deliveries, BudgetEnds(d) PROVE loop' \in [Deliveries -> Loop]
  BY <1>0, <1>1, <1>9, LoopValues DEF BudgetEnds
<1>10. CASE Crash
  <2>1. \A d \in Deliveries : loop[d] \in Loop /\ [NoLoop EXCEPT !.at = "gone", !.log = loop[d].log] \in Loop
    BY <1>0, LoopValues
  <2> QED
    BY <1>10, <2>1 DEF Crash
<1> QED
  <2>1. ASSUME NEW d \in Deliveries, Deliver(d) PROVE loop' \in [Deliveries -> Loop]
    BY <1>4, <1>5, <1>6, <1>7, <1>8, <2>1 DEF Deliver, Note, Bury
  <2> QED
    BY <1>2, <1>3, <1>9, <1>10, <2>1 DEF Next, Publish, ReplayRead, ReplayRefused, ReplayAttempt, ReplayNote

\* The attempts of a loop: it starts with none, goes from one to the next
\* while some are left, and forgets them when it ends.
LEMMA LoopNumber ==
    ASSUME TypeOK, Next, NEW x \in Deliveries
    PROVE  \/ loop'[x].n \in {loop[x].n, 0, 1}
           \/ loop[x].n # maxAttempts /\ loop'[x].n = loop[x].n + 1
<1> DEFINE Goal == \/ loop'[x].n \in {loop[x].n, 0, 1}
                   \/ loop[x].n # maxAttempts /\ loop'[x].n = loop[x].n + 1
<1>0. loop \in [Deliveries -> Loop]
  BY DEF TypeOK
<1>1. ASSUME NEW d \in Deliveries, NEW l, loop' = [loop EXCEPT ![d] = l], l.n \in {loop[d].n, 0, 1} PROVE Goal
  BY <1>0, <1>1
<1>2. ASSUME NEW e \in Events, Acquire(e) PROVE Goal
  BY <1>0, <1>2 DEF Acquire, Loop
<1>3. ASSUME NEW d \in Deliveries, RecordPending(d) PROVE Goal
  BY <1>0, <1>3 DEF RecordPending, Loop
<1>4. ASSUME NEW d \in Deliveries, Attempt(d) PROVE Goal
  BY <1>0, <1>4 DEF Attempt, Loop
<1>5. ASSUME NEW d \in Deliveries, Return(d) PROVE Goal
  BY <1>0, <1>5 DEF Return, NoLoop, Loop
<1>6. ASSUME NEW d \in Deliveries, NEW at, loop' = [loop EXCEPT ![d].at = at] PROVE Goal
  BY <1>0, <1>6 DEF Loop
<1>7. ASSUME NEW d \in Deliveries, After(d) PROVE Goal
  <2>1. CASE loop' = [loop EXCEPT ![d].at = "bury"]
    BY <1>6, <2>1
  <2>2. CASE loop[d].n # maxAttempts
             /\ loop' = [loop EXCEPT ![d] = [loop[d] EXCEPT !.at = "attempt", !.n = loop[d].n + 1]]
    <3>1. [loop[d] EXCEPT !.at = "attempt", !.n = loop[d].n + 1].n = loop[d].n + 1
      BY <1>0 DEF Loop
    <3> QED
      BY <1>0, <2>2, <3>1
  <2> QED
    BY <1>7, <2>1, <2>2 DEF After
<1>8. ASSUME NEW d \in Deliveries, BudgetEnds(d) PROVE Goal
  BY <1>0, <1>8 DEF BudgetEnds, Loop
<1>9. CASE Crash
  BY <1>0, <1>9 DEF Crash, NoLoop, Loop
<1>10. CASE loop' = loop
  BY <1>10
<1> QED
  <2>1. ASSUME NEW d \in Deliveries, Deliver(d) PROVE Goal
    BY <1>3, <1>4, <1>5, <1>6, <1>7, <2>1 DEF Deliver, Note, Bury
  <2> QED
    BY <1>2, <1>8, <1>9, <1>10, <2>1 DEF Next, Publish, ReplayRead, ReplayRefused, ReplayAttempt, ReplayNote

\* Every step keeps the types.
LEMMA TypeStep ==
    ASSUME TypeOK, SlotsHeld, Waiting, RowsExist, Next
    PROVE  TypeOK'
<1> DEFINE Rows == [Deliveries -> [status : Statuses, attempts : Nat]]
<1>0. sem' \in 0..Slots /\ loop' \in [Deliveries -> Loop]
  BY SlotsStep, LoopStep
<1>1. todo' \in [Events -> Seq(Deliveries)]
  <2>0. todo \in [Events -> Seq(Deliveries)]
    BY DEF TypeOK
  <2>1. ASSUME NEW e \in Events, Publish(e) PROVE todo' \in [Events -> Seq(Deliveries)]
    BY <2>0, <2>1, DeliveryAssumption DEF Publish
  <2>2. ASSUME NEW e \in Events, Acquire(e) PROVE todo' \in [Events -> Seq(Deliveries)]
    <3>1. Tail(todo[e]) \in Seq(Deliveries)
      BY <2>0, <2>2 DEF Acquire
    <3> QED
      BY <2>0, <2>2, <3>1 DEF Acquire
  <2>3. CASE Crash
    <3>1. <<>> \in Seq(Deliveries)
      OBVIOUS
    <3> QED
      BY <2>3, <3>1 DEF Crash
  <2>4. CASE UNCHANGED todo
    BY <2>0, <2>4
  <2> QED
    BY <2>1, <2>2, <2>3, <2>4 DEF Next, Deliver, RecordPending, Attempt, Note, After, Bury,
       BudgetEnds, ReplayRead, ReplayRefused, ReplayAttempt, ReplayNote
<1>2. \A d \in Deliveries : loop'[d].n <= maxAttempts
  <2>0. \A d \in Deliveries : loop[d] \in Loop /\ loop[d].n \in Nat /\ loop[d].n <= maxAttempts
    BY DEF TypeOK, Loop
  <2> SUFFICES ASSUME NEW x \in Deliveries PROVE loop'[x].n <= maxAttempts
    OBVIOUS
  <2>1. loop'[x].n \in {loop[x].n, 0, 1} \/ (loop[x].n # maxAttempts /\ loop'[x].n = loop[x].n + 1)
    BY LoopNumber
  <2> QED
    BY <2>0, <2>1, DeliveryAssumption
<1>3. row' \in Rows /\ faults' \in 0..MaxFaults
  <2>0. row \in Rows /\ faults \in 0..MaxFaults /\ {"pending", "failed", "delivered"} \subseteq Statuses
    BY DEF TypeOK, Statuses
  <2>1. ASSUME NEW d \in Deliveries, RecordPending(d) PROVE row' \in Rows /\ faults' \in 0..MaxFaults
    <3>1. faults' \in 0..MaxFaults
      BY <2>0, <2>1, DeliveryAssumption DEF RecordPending
    <3>2. row' = [row EXCEPT ![d].status = "pending"] \/ row' = row
      BY <2>1 DEF RecordPending
    <3> QED
      BY <2>0, <3>1, <3>2
  <2>2. ASSUME NEW d \in Deliveries, Note(d) PROVE row' \in Rows /\ faults' \in 0..MaxFaults
    <3>1. Write(d, loop[d].log = "row", Outcome(loop[d].res), loop[d].n) /\ loop[d].n \in Nat
      BY <2>2 DEF Note, Outcome, TypeOK, Loop
    <3> QED
      BY <3>1, WriteEffect, OutcomeStatus
  <2>3. ASSUME NEW d \in Deliveries, Bury(d) PROVE row' \in Rows /\ faults' \in 0..MaxFaults
    <3>1. Write(d, loop[d].log = "row", "failed", loop[d].n) /\ loop[d].n \in Nat
      BY <2>3 DEF Bury, TypeOK, Loop
    <3> QED
      BY <2>0, <3>1, WriteEffect
  <2>4. ASSUME NEW r \in Replays, ReplayNote(r) PROVE row' \in Rows /\ faults' \in 0..MaxFaults
    <3>1. /\ replay[r].d \in Deliveries /\ replay[r].n \in Nat
          /\ Write(replay[r].d, TRUE, IF replay[r].res = "ok" THEN "delivered" ELSE "failed", replay[r].n)
      BY <2>4 DEF ReplayNote, TypeOK, Replay, RowsExist
    <3> QED
      BY <2>0, <3>1, WriteEffect
  <2>5. ASSUME Crash PROVE row' \in Rows /\ faults' \in 0..MaxFaults
    <3>1. row' = row /\ faults < MaxFaults /\ faults' = faults + 1
      BY <2>5 DEF Crash
    <3> QED
      BY <2>0, <3>1, DeliveryAssumption
  <2>6. ASSUME UNCHANGED <<row, faults>> PROVE row' \in Rows /\ faults' \in 0..MaxFaults
    BY <2>0, <2>6
  <2> QED
    BY <2>1, <2>2, <2>3, <2>4, <2>5, <2>6 DEF Next, Publish, Acquire, Deliver, Attempt, After, BudgetEnds,
       ReplayRead, ReplayRefused, ReplayAttempt
<1>4. replay' \in [Replays -> Replay]
  <2>0. replay \in [Replays -> Replay] /\ row \in Rows
    BY DEF TypeOK
  <2>1. ASSUME NEW r \in Replays, NEW x \in Replay, replay' = [replay EXCEPT ![r] = x] PROVE replay' \in [Replays -> Replay]
    BY <2>0, <2>1
  <2>2. ASSUME NEW r \in Replays, NEW d \in Deliveries, ReplayRead(r, d) PROVE replay' \in [Replays -> Replay]
    <3>1. [at |-> "attempt", d |-> d, n |-> row[d].attempts + 1, res |-> "none"] \in Replay
      BY <2>0 DEF Replay, Results
    <3> QED
      BY <2>1, <2>2, <3>1 DEF ReplayRead
  <2>3. ASSUME NEW r \in Replays, ReplayAttempt(r) PROVE replay' \in [Replays -> Replay]
    <3>1. PICK res \in Results : replay' = [replay EXCEPT ![r] = [replay[r] EXCEPT !.at = "note", !.res = res]]
      BY <2>3 DEF ReplayAttempt, Results
    <3>2. [replay[r] EXCEPT !.at = "note", !.res = res] \in Replay
      BY <2>0 DEF Replay
    <3> QED
      BY <2>1, <3>1, <3>2
  <2>4. [NoReplay EXCEPT !.at = "gone"] \in Replay /\ NoReplay \in Replay
    BY DEF Replay, NoReplay, Results
  <2>5. ASSUME NEW r \in Replays, ReplayRefused(r) \/ ReplayNote(r) PROVE replay' \in [Replays -> Replay]
    BY <2>1, <2>4, <2>5 DEF ReplayRefused, ReplayNote
  <2>6. CASE Crash
    BY <2>4, <2>6 DEF Crash
  <2>7. CASE UNCHANGED replay
    BY <2>0, <2>7
  <2> QED
    BY <2>2, <2>3, <2>5, <2>6, <2>7 DEF Next, Publish, Acquire, Deliver, RecordPending, Attempt, Note, After, Bury, BudgetEnds
<1>5. accepted' \subseteq Deliveries /\ tried' \subseteq Deliveries
  <2>0. accepted \subseteq Deliveries /\ tried \subseteq Deliveries
    BY DEF TypeOK
  <2>1. ASSUME NEW d \in Deliveries, NEW late, NEW res, Post(d, late, res)
        PROVE  accepted' \subseteq Deliveries /\ tried' \subseteq Deliveries
    BY <2>0, <2>1 DEF Post
  <2>2. ASSUME NEW r \in Replays, ReplayAttempt(r) PROVE replay[r].d \in Deliveries
    BY <2>2 DEF ReplayAttempt, RowsExist
  <2> QED
    BY <2>0, <2>1, <2>2 DEF Next, Publish, Acquire, Deliver, RecordPending, Attempt, Note, After, Bury, BudgetEnds,
       ReplayRead, ReplayRefused, ReplayAttempt, ReplayNote, Crash
<1> QED
  BY <1>0, <1>1, <1>2, <1>3, <1>4, <1>5 DEF TypeOK
--------------------------------------------------------------------------------
\* What the publishing goroutines have yet to start stays theirs, and idle.
LEMMA WaitingStep ==
    ASSUME TypeOK, Waiting, Next
    PROVE  Waiting'
<1>0. todo \in [Events -> Seq(Deliveries)] /\ loop \in [Deliveries -> Loop]
  BY DEF TypeOK
<1>1. ASSUME NEW e \in Events, Publish(e) PROVE Waiting'
  <2>1. /\ \A f \in Events : todo'[f] = IF f = e THEN Fanout[e] ELSE todo[f]
        /\ loop' = loop /\ \A i \in DOMAIN Fanout[e] : loop[Fanout[e][i]].at = "idle"
    BY <1>0, <1>1 DEF Publish
  <2> QED
    BY <2>1, DeliveryAssumption DEF Waiting
<1>2. ASSUME NEW e \in Events, Acquire(e) PROVE Waiting'
  <2> DEFINE s == todo[e]
  <2>1. s \in Seq(Deliveries) /\ s # <<>> /\ Head(s) = s[1] /\ 1 \in DOMAIN s
    BY <1>0, <1>2 DEF Acquire
  <2>2. \A i \in DOMAIN Tail(s) : i + 1 \in DOMAIN s /\ i + 1 # 1 /\ i \in Nat /\ Tail(s)[i] = s[i + 1]
    BY <2>1
  <2>3. \A f \in Events : todo'[f] = IF f = e THEN Tail(s) ELSE todo[f]
    BY <1>0, <1>2 DEF Acquire
  <2>4. \A x \in Deliveries : x # Head(s) => loop'[x] = loop[x]
    BY <1>0, <1>2 DEF Acquire
  <2>5. ASSUME NEW f \in Events, NEW i \in DOMAIN todo'[f]
        PROVE  /\ loop'[todo'[f][i]].at = "idle"
               /\ \E k \in DOMAIN Fanout[f] : todo'[f][i] = Fanout[f][k]
               /\ \A j \in DOMAIN todo'[f] : todo'[f][i] = todo'[f][j] => i = j
    <3>1. CASE f = e
      <4>0. todo'[f] = Tail(s) /\ i \in DOMAIN Tail(s) /\ i + 1 \in DOMAIN s /\ i + 1 # 1
        BY <2>2, <2>3, <3>1
      <4>1. s[i + 1] # s[1] /\ s[i + 1] \in Deliveries
        <5>1. s[i + 1] = s[1] => i + 1 = 1
          BY <2>1, <4>0 DEF Waiting
        <5> QED
          BY <2>1, <4>0, <5>1
      <4>2. loop'[s[i + 1]] = loop[s[i + 1]]
        BY <2>1, <2>4, <4>1
      <4>3. /\ loop[s[i + 1]].at = "idle"
            /\ \E k \in DOMAIN Fanout[e] : s[i + 1] = Fanout[e][k]
            /\ \A j \in DOMAIN s : s[i + 1] = s[j] => i + 1 = j
        BY <4>0 DEF Waiting
      <4>4. \A j \in DOMAIN Tail(s) : Tail(s)[i] = Tail(s)[j] => i = j
        BY <2>2, <4>0, <4>3
      <4> QED
        BY <2>2, <3>1, <4>0, <4>2, <4>3, <4>4
    <3>2. CASE f # e
      <4>1. todo'[f] = todo[f] /\ todo[f][i] \in Deliveries
        BY <1>0, <2>3, <3>2
      <4>2. todo[f][i] # Head(s)
        <5>1. \E k \in DOMAIN Fanout[f] : todo[f][i] = Fanout[f][k]
          BY <4>1 DEF Waiting
        <5>2. \E k \in DOMAIN Fanout[e] : Head(s) = Fanout[e][k]
          BY <2>1 DEF Waiting
        <5> QED
          BY <3>2, <5>1, <5>2, DeliveryAssumption
      <4> QED
        BY <2>4, <4>1, <4>2 DEF Waiting
    <3> QED
      BY <3>1, <3>2
  <2> QED
    BY <2>5 DEF Waiting
<1>3. CASE Crash
  <2>1. \A e \in Events : todo'[e] = <<>>
    BY <1>3 DEF Crash
  <2>2. DOMAIN <<>> = {}
    OBVIOUS
  <2> QED
    BY <2>1, <2>2 DEF Waiting
<1>4. ASSUME todo' = todo, \A x \in Deliveries : loop[x].at = "idle" => loop'[x].at = "idle" PROVE Waiting'
  <2>1. \A e \in Events : \A i \in DOMAIN todo[e] : todo[e][i] \in Deliveries
    BY <1>0
  <2> QED
    BY <1>4, <2>1 DEF Waiting
<1>5. ASSUME NEW d \in Deliveries, loop[d].at # "idle", \A x \in Deliveries \ {d} : loop'[x] = loop[x], todo' = todo
      PROVE  Waiting'
  BY <1>4, <1>5
<1>6. ASSUME NEW d \in Deliveries, NEW l, loop' = [loop EXCEPT ![d] = l]
      PROVE  \A x \in Deliveries \ {d} : loop'[x] = loop[x]
  BY <1>0, <1>6
<1>7. ASSUME NEW d \in Deliveries, Deliver(d) \/ BudgetEnds(d) PROVE Waiting'
  <2>1. todo' = todo /\ loop[d].at # "idle"
    BY <1>7 DEF Deliver, RecordPending, Attempt, Note, After, Bury, BudgetEnds
  <2>2. \E l : loop' = [loop EXCEPT ![d] = l]
    BY <1>7 DEF Deliver, RecordPending, Attempt, Note, After, Bury, BudgetEnds, Return
  <2> QED
    BY <1>5, <1>6, <2>1, <2>2
<1>8. CASE UNCHANGED <<todo, loop>>
  BY <1>4, <1>8
<1> QED
  BY <1>1, <1>2, <1>3, <1>7, <1>8 DEF Next, ReplayRead, ReplayRefused, ReplayAttempt, ReplayNote

\* A row, once there, stays; "delivered" is written for a result that was one.
LEMMA RowMove ==
    ASSUME TypeOK, RowsExist, Next, NEW x \in Deliveries
    PROVE  /\ row[x].status # "none" => row'[x].status # "none"
           /\ row'[x].status = "delivered" =>
                 \/ row[x].status = "delivered"
                 \/ loop[x].at = "note" /\ loop[x].res = "ok"
                 \/ \E r \in Replays : replay[r].at = "note" /\ replay[r].res = "ok" /\ replay[r].d = x
<1> DEFINE Goal ==
       /\ row[x].status # "none" => row'[x].status # "none"
       /\ row'[x].status = "delivered" =>
             \/ row[x].status = "delivered"
             \/ loop[x].at = "note" /\ loop[x].res = "ok"
             \/ \E r \in Replays : replay[r].at = "note" /\ replay[r].res = "ok" /\ replay[r].d = x
<1>0. {"delivered", "failed", "pending"} \subseteq Statuses \ {"none"}
  BY DEF Statuses
<1>1. ASSUME NEW d \in Deliveries, RecordPending(d) PROVE Goal
  <2>1. row' = row \/ row' = [row EXCEPT ![d].status = "pending"]
    BY <1>1 DEF RecordPending
  <2> QED
    BY <2>1 DEF TypeOK
<1>2. ASSUME NEW d \in Deliveries, Note(d) PROVE Goal
  <2>1. Write(d, loop[d].log = "row", Outcome(loop[d].res), loop[d].n) /\ loop[d].n \in Nat /\ loop[d].at = "note"
    BY <1>2 DEF Note, Outcome, TypeOK, Loop
  <2>2. row'[x].status # row[x].status => x = d /\ row'[x].status = Outcome(loop[d].res)
    BY <2>1 DEF Write, TypeOK
  <2> QED
    BY <2>1, <2>2, OutcomeStatus
<1>3. ASSUME NEW d \in Deliveries, Bury(d) PROVE Goal
  <2>1. Write(d, loop[d].log = "row", "failed", loop[d].n) /\ loop[d].n \in Nat
    BY <1>3 DEF Bury, TypeOK, Loop
  <2>2. row'[x].status # row[x].status => row'[x].status = "failed"
    BY <2>1 DEF Write, TypeOK
  <2> QED
    BY <2>2
<1>4. ASSUME NEW r \in Replays, ReplayNote(r) PROVE Goal
  <2> DEFINE status == IF replay[r].res = "ok" THEN "delivered" ELSE "failed"
  <2>1. Write(replay[r].d, TRUE, status, replay[r].n) /\ replay[r].at = "note"
    BY <1>4 DEF ReplayNote
  <2>2. replay[r].d \in Deliveries /\ replay[r].n \in Nat
    BY <2>1 DEF TypeOK, Replay, RowsExist
  <2>3. row'[x].status # row[x].status => x = replay[r].d /\ row'[x].status = status
    BY <2>1, <2>2 DEF Write, TypeOK
  <2> QED
    BY <2>1, <2>3
<1>5. CASE row' = row
  BY <1>5
<1> QED
  BY <1>1, <1>2, <1>3, <1>4, <1>5 DEF Next, Publish, Acquire, Deliver, Attempt, After, BudgetEnds,
     ReplayRead, ReplayRefused, ReplayAttempt, Crash

\* A loop logs its row, or that it could not, before it sends; what it notes as
\* a success its receiver has answered.
LEMMA LoopMove ==
    ASSUME TypeOK, Next, NEW x \in Deliveries
    PROVE  /\ \/ loop'[x].log \in {loop[x].log, "lost"}
              \/ loop'[x].log = "row" /\ row'[x].status # "none"
           /\ loop'[x].at \in {"attempt", "note", "after", "bury"} =>
                 loop'[x].log # "none" \/ loop[x].at \in {"attempt", "note", "after", "bury"}
           /\ loop'[x].at = "note" /\ loop'[x].res = "ok" =>
                 x \in accepted' \/ (loop[x].at = "note" /\ loop[x].res = "ok")
<1> DEFINE Goal ==
       /\ \/ loop'[x].log \in {loop[x].log, "lost"}
          \/ loop'[x].log = "row" /\ row'[x].status # "none"
       /\ loop'[x].at \in {"attempt", "note", "after", "bury"} =>
             loop'[x].log # "none" \/ loop[x].at \in {"attempt", "note", "after", "bury"}
       /\ loop'[x].at = "note" /\ loop'[x].res = "ok" =>
             x \in accepted' \/ (loop[x].at = "note" /\ loop[x].res = "ok")
<1>0. loop \in [Deliveries -> Loop] /\ row \in [Deliveries -> [status : Statuses, attempts : Nat]]
  BY DEF TypeOK
<1>1. ASSUME NEW e \in Events, Acquire(e) PROVE Goal
  BY <1>0, <1>1 DEF Acquire, Loop
<1>2. ASSUME NEW d \in Deliveries, RecordPending(d) PROVE Goal
  <2>1. PICK log \in {"row", "lost"} :
           /\ loop' = [loop EXCEPT ![d] = [loop[d] EXCEPT !.at = "attempt", !.n = 1, !.log = log]]
           /\ log = "row" => row' = [row EXCEPT ![d].status = "pending"]
    BY <1>2 DEF RecordPending
  <2>2. log = "row" => row'[d].status = "pending"
    BY <1>0, <2>1
  <2> QED
    BY <1>0, <2>1, <2>2 DEF Loop
<1>3. ASSUME NEW d \in Deliveries, Attempt(d) PROVE Goal
  <2>1. PICK res \in Results :
           /\ loop' = [loop EXCEPT ![d] = [loop[d] EXCEPT !.at = "note", !.res = res]]
           /\ Post(d, loop[d].budget = "over", res) /\ loop[d].at = "attempt"
    BY <1>3 DEF Attempt, Results
  <2>2. res = "ok" => d \in accepted'
    BY <2>1 DEF Post
  <2> QED
    BY <1>0, <2>1, <2>2 DEF Loop
<1>4. ASSUME NEW d \in Deliveries, Return(d) PROVE Goal
  BY <1>0, <1>4 DEF Return, NoLoop, Loop
<1>5. ASSUME NEW d \in Deliveries, NEW at \in {"after", "bury"}, loop' = [loop EXCEPT ![d].at = at],
             loop[d].at \in {"note", "after"}
      PROVE  Goal
  BY <1>0, <1>5 DEF Loop
<1>6. ASSUME NEW d \in Deliveries, After(d) PROVE Goal
  <2>1. CASE loop' = [loop EXCEPT ![d].at = "bury"]
    BY <1>5, <1>6, <2>1 DEF After
  <2>2. CASE loop' = [loop EXCEPT ![d] = [loop[d] EXCEPT !.at = "attempt", !.n = loop[d].n + 1]]
    <3>1. /\ [loop[d] EXCEPT !.at = "attempt", !.n = loop[d].n + 1].log = loop[d].log
          /\ [loop[d] EXCEPT !.at = "attempt", !.n = loop[d].n + 1].at = "attempt"
      BY <1>0 DEF Loop
    <3> QED
      BY <1>0, <1>6, <2>2, <3>1 DEF After
  <2> QED
    BY <1>6, <2>1, <2>2 DEF After
<1>7. ASSUME NEW d \in Deliveries, BudgetEnds(d) PROVE Goal
  BY <1>0, <1>7 DEF BudgetEnds, Loop
<1>8. CASE Crash
  BY <1>0, <1>8 DEF Crash, Running, NoLoop, Loop
<1>9. CASE loop' = loop
  BY <1>9
<1> QED
  <2>1. ASSUME NEW d \in Deliveries, Deliver(d) PROVE Goal
    BY <1>2, <1>3, <1>4, <1>5, <1>6, <2>1 DEF Deliver, Note, Bury
  <2> QED
    BY <1>1, <1>7, <1>8, <1>9, <2>1 DEF Next, Publish, ReplayRead, ReplayRefused, ReplayAttempt, ReplayNote

\* A replay works on the row it read; its success, too, was answered.
LEMMA ReplayMove ==
    ASSUME TypeOK, Next, NEW r \in Replays
    PROVE  /\ replay'[r].at \in {"attempt", "note"} =>
                 \/ replay[r].at \in {"attempt", "note"} /\ replay'[r].d = replay[r].d
                 \/ replay'[r].d \in Deliveries /\ row[replay'[r].d].status # "none"
           /\ replay'[r].at = "note" /\ replay'[r].res = "ok" =>
                 \/ replay'[r].d \in accepted'
                 \/ replay[r].at = "note" /\ replay[r].res = "ok" /\ replay'[r].d = replay[r].d
<1> DEFINE Goal ==
       /\ replay'[r].at \in {"attempt", "note"} =>
             \/ replay[r].at \in {"attempt", "note"} /\ replay'[r].d = replay[r].d
             \/ replay'[r].d \in Deliveries /\ row[replay'[r].d].status # "none"
       /\ replay'[r].at = "note" /\ replay'[r].res = "ok" =>
             \/ replay'[r].d \in accepted'
             \/ replay[r].at = "note" /\ replay[r].res = "ok" /\ replay'[r].d = replay[r].d
<1>0. replay \in [Replays -> Replay]
  BY DEF TypeOK
<1>1. ASSUME NEW q \in Replays, NEW d \in Deliveries, ReplayRead(q, d) PROVE Goal
  BY <1>0, <1>1 DEF ReplayRead
<1>2. ASSUME NEW q \in Replays, ReplayAttempt(q) PROVE Goal
  <2>1. PICK res \in Results :
           /\ replay' = [replay EXCEPT ![q] = [replay[q] EXCEPT !.at = "note", !.res = res]]
           /\ Post(replay[q].d, FALSE, res) /\ replay[q].at = "attempt"
    BY <1>2 DEF ReplayAttempt, Results
  <2>2. res = "ok" => replay[q].d \in accepted'
    BY <2>1 DEF Post
  <2> QED
    BY <1>0, <2>1, <2>2 DEF Replay
<1>3. ASSUME NEW q \in Replays, ReplayRefused(q) \/ ReplayNote(q) PROVE Goal
  BY <1>0, <1>3 DEF ReplayRefused, ReplayNote, NoReplay
<1>4. CASE Crash
  BY <1>4 DEF Crash, NoReplay
<1>5. CASE replay' = replay
  BY <1>5
<1> QED
  BY <1>1, <1>2, <1>3, <1>4, <1>5 DEF Next, Publish, Acquire, Deliver, RecordPending, Attempt, Note, After, Bury, BudgetEnds

\* What an attempt adds: an acceptance stays, and only loops and replays that
\* are at their attempt send.
LEMMA AttemptMove ==
    ASSUME TypeOK, Next
    PROVE  /\ accepted \subseteq accepted'
           /\ \A x \in tried' \ tried : \/ loop[x].at = "attempt"
                                        \/ \E r \in Replays : replay[r].at = "attempt" /\ replay[r].d = x
<1>1. ASSUME NEW d, NEW late, NEW res, Post(d, late, res) PROVE accepted \subseteq accepted' /\ tried' \subseteq tried \cup {d}
  BY <1>1 DEF Post
<1>2. ASSUME NEW d \in Deliveries, Attempt(d)
      PROVE  accepted \subseteq accepted' /\ \A x \in tried' \ tried : loop[x].at = "attempt"
  BY <1>1, <1>2 DEF Attempt
<1>3. ASSUME NEW r \in Replays, ReplayAttempt(r)
      PROVE  accepted \subseteq accepted' /\ \A x \in tried' \ tried : replay[r].at = "attempt" /\ replay[r].d = x
  BY <1>1, <1>3 DEF ReplayAttempt
<1>4. CASE UNCHANGED <<accepted, tried>>
  BY <1>4
<1> QED
  BY <1>2, <1>3, <1>4 DEF Next, Publish, Acquire, Deliver, RecordPending, Note, After, Bury, BudgetEnds,
     ReplayRead, ReplayRefused, ReplayNote, Crash

\* Every step keeps the inductive invariant.
LEMMA IInvStep == IInv /\ [Next]_vars => IInv'
<1> SUFFICES ASSUME IInv, [Next]_vars PROVE IInv'
  OBVIOUS
<1> USE DEF IInv
<1>1. CASE Next
  <2>1. TypeOK' /\ Waiting' /\ SlotsHeld'
    BY <1>1, TypeStep, WaitingStep, SlotsStep
  <2>2. OkIsAccepted'
    BY <1>1, LoopMove, ReplayMove, AttemptMove DEF OkIsAccepted
  <2>3. RowsExist'
    <3>1. ASSUME NEW d \in Deliveries
          PROVE  /\ loop'[d].log = "row" => row'[d].status # "none"
                 /\ loop'[d].at \in {"attempt", "note", "after", "bury"} => loop'[d].log # "none"
      BY <1>1, LoopMove, RowMove DEF RowsExist
    <3>2. ASSUME NEW r \in Replays, replay'[r].at \in {"attempt", "note"}
          PROVE  replay'[r].d \in Deliveries /\ row'[replay'[r].d].status # "none"
      <4>1. replay'[r].d \in Deliveries /\ row[replay'[r].d].status # "none"
        BY <1>1, <3>2, ReplayMove DEF RowsExist
      <4> QED
        BY <1>1, <4>1, RowMove
    <3> QED
      BY <3>1, <3>2 DEF RowsExist
  <2>4. DeliveredIsTrue'
    BY <1>1, RowMove, AttemptMove DEF DeliveredIsTrue, OkIsAccepted
  <2>5. SentHasEvidence'
    <3>1. ASSUME NEW d \in tried' PROVE row'[d].status # "none" \/ loop'[d].log = "lost"
      <4>1. d \in Deliveries
        BY <2>1 DEF TypeOK
      <4>2. row[d].status # "none" \/ loop[d].log = "lost"
        <5>1. CASE d \in tried
          BY <5>1 DEF SentHasEvidence
        <5>2. CASE loop[d].at = "attempt"
          BY <4>1, <5>2 DEF RowsExist, TypeOK, Loop
        <5>3. CASE \E r \in Replays : replay[r].at = "attempt" /\ replay[r].d = d
          BY <5>3 DEF RowsExist
        <5> QED
          BY <1>1, <3>1, <5>1, <5>2, <5>3, AttemptMove
      <4> QED
        BY <1>1, <4>1, <4>2, LoopMove, RowMove
    <3> QED
      BY <3>1 DEF SentHasEvidence
  <2> QED
    BY <2>1, <2>2, <2>3, <2>4, <2>5
<1>2. CASE UNCHANGED vars
  BY <1>2 DEF vars, TypeOK, Waiting, SlotsHeld, RunningSet, Running, OkIsAccepted, RowsExist,
     DeliveredIsTrue, SentHasEvidence
<1> QED
  BY <1>1, <1>2

\* The inductive invariant holds throughout.
THEOREM Invariant == Spec => []IInv
<1>1. Init => IInv
  BY InitIInv
<1>2. IInv /\ [Next]_vars => IInv'
  BY IInvStep
<1> QED
  BY <1>1, <1>2, PTL DEF Spec

\* Types; in particular deliverWithRetry never goes beyond maxAttempts and the
\* semaphore never beyond its slots.
THEOREM TypeCorrect == Spec => []TypeOK
<1>1. IInv => TypeOK
  BY DEF IInv
<1> QED
  BY <1>1, Invariant, PTL

\* "delivered" is only ever written for a delivery its receiver has accepted,
\* whatever loops, replays, lost statements and crashes do to each other.
THEOREM DeliveredTrue == Spec => []DeliveredIsTrue
<1>1. IInv => DeliveredIsTrue
  BY DEF IInv
<1> QED
  BY <1>1, Invariant, PTL

\* What has left for a receiver is in the log, unless its insert failed.
THEOREM SentEvidence == Spec => []SentHasEvidence
<1>1. IInv => SentHasEvidence
  BY DEF IInv
<1> QED
  BY <1>1, Invariant, PTL

\* deliverySem leaks no slot and bounds the loops that run.
THEOREM SlotsBound == Spec => [](SlotsHeld /\ Cardinality(RunningSet) <= Slots)
<1>1. IInv => SlotsHeld /\ Cardinality(RunningSet) <= Slots
  BY DeliveryAssumption DEF IInv, SlotsHeld, TypeOK
<1> QED
  BY <1>1, Invariant, PTL
================================================================================
