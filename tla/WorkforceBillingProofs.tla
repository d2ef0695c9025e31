----------------------- MODULE WorkforceBillingProofs -----------------------
(***************************************************************************)
(* Proofs about WorkforceBilling, for any number of turns, identifiers,    *)
(* prices, limits and faults: answers tell the truth about the ledger, and *)
(* an exhausted agent is paused and runs nothing.                          *)
(***************************************************************************)
EXTENDS WorkforceBilling, FiniteSetTheorems, WellFoundedInduction, TLAPS

InRecordSpend == {"find", "lookup", "cost", "insert", "accrue", "commit"}

\* A chat turn that is asking whether it may run, or runs.
Asking == {"agent", "price", "halt", "run"}

\* A row whose budget for this month is spent.
Spent(row) == row.period = month /\ row.used >= row.limit

\* r asked after the budget was spent, and nothing has intervened.
StillLate(r) == r.at \in Asking /\ r.late /\ r.since = ops /\ r.in = month

Named(r) == r.at # "idle" => r.id \in TurnIds
Dated(r) == r.at \in InRecordSpend => r.charge.month \in 1..month /\ (~Straddle => r.charge.month = month)
Halting(r) == ops = 0 /\ r.at \in InRecordSpend => r.halted
Timed(r) == r.since <= ops /\ r.in <= month
Answered(r) == r.answer \in {"charged", "replayed"} => r.id \in TurnIds /\ Charged(r.id)

\* What a transaction will commit is the accrual to the row as it stands.
Accruing(r) == r.at = "commit" => r.row = Accrued(agent, agent, r.charge, r.halted)

\* A late turn finds the budget spent, in the row and in what it read of it.
FindsSpent(r) ==
    ~Straddle /\ StillLate(r) =>
        halt /\ Spent(agent) /\ r.at # "run" /\ (r.at \in {"price", "halt"} => Spent(r.row))

TurnOK(r) ==
    Named(r) /\ Dated(r) /\ Halting(r) /\ Timed(r) /\ Answered(r) /\ Accruing(r) /\ FindsSpent(r)

\* The agent row is locked once.
OneCommit ==
    \A t, u \in Turns : turn[t].at = "commit" /\ turn[u].at = "commit" => t = u

IInv ==
    /\ TypeOK /\ OneCommit /\ PausedWhenSpent
    /\ ops = 0 => halt
    /\ \A t \in Turns : TurnOK(turn[t])

USE DEF InRecordSpend, Asking
-----------------------------------------------------------------------------
\* A step that only moves turn t, to r.
LEMMA TurnMoves ==
    ASSUME IInv, NEW t \in Turns, NEW r \in Turn, TurnOK(r),
           r.at = "commit" => AgentFree(t),
           turn' = [turn EXCEPT ![t] = r],
           UNCHANGED <<agent, ledger, setup>>, faults' \in Nat
    PROVE  IInv'
<1>1. turn \in [Turns -> Turn] BY DEF IInv, TypeOK
<1>2. turn' \in [Turns -> Turn] BY <1>1
<1>3. turn'[t] = r /\ \A u \in Turns \ {t} : turn'[u] = turn[u] BY <1>1
<1>4. UNCHANGED <<agent, ledger, price, halt, month, ops>> BY DEF setup
<1>5. TypeOK' BY <1>2, <1>4 DEF IInv, TypeOK
<1>6. OneCommit' BY <1>3 DEF IInv, OneCommit, AgentFree
<1>7. PausedWhenSpent' /\ (ops' = 0 => halt') BY <1>4 DEF IInv, PausedWhenSpent
<1>8. ASSUME NEW u \in Turns PROVE TurnOK(turn[u])'
  <2>1. TurnOK(turn'[u]) BY <1>3 DEF IInv
  <2> QED BY <1>4, <2>1 DEF TurnOK, Named, Dated, Halting, Timed, Answered, Accruing, FindsSpent, StillLate,
                    Spent, Charged, Accrued
<1> QED BY <1>5, <1>6, <1>7, <1>8 DEF IInv

LEMMA NoTurnTyped == NoTurn \in Turn
<1>1. 0 \in 0..MaxMonth BY BillingAssumption
<1>2. NoAgent \in Agent BY <1>1 DEF NoAgent, Agent
<1>3. NoCharge \in Charge BY <1>1 DEF NoCharge, Charge
<1> QED BY <1>1, <1>2, <1>3 DEF NoTurn, Turn, Places, Answers

\* The turn is over: r is what End leaves of it.
LEMMA EndKeeps ==
    ASSUME IInv, NEW t \in Turns, NEW answer \in Answers, turn[t].at # "idle",
           answer \in {"charged", "replayed"} => Charged(turn[t].id),
           End(t, answer), UNCHANGED <<agent, ledger, setup>>, faults' \in Nat
    PROVE  IInv'
<1> DEFINE r == [NoTurn EXCEPT !.kind = turn[t].kind, !.id = turn[t].id,
                               !.at = "done", !.answer = answer]
<1>1. turn[t] \in Turn /\ TurnOK(turn[t]) BY DEF IInv, TypeOK
<1>2. turn[t].id \in TurnIds BY <1>1 DEF TurnOK, Named
<1>3. NoTurn \in Turn BY NoTurnTyped
<1>4. r \in Turn BY <1>1, <1>3 DEF Turn, Places
<1>5. /\ r.at = "done" /\ r.id = turn[t].id /\ r.answer = answer
      /\ r.since = 0 /\ r.in = 0
  BY DEF NoTurn
<1>6. turn' = [turn EXCEPT ![t] = r] BY DEF End
<1> HIDE DEF r
<1>7. ops \in Nat /\ month \in 1..MaxMonth BY DEF IInv, TypeOK
<1>8. Timed(r) BY <1>5, <1>7 DEF Timed
<1>9. TurnOK(r)
  BY <1>2, <1>5, <1>8 DEF TurnOK, Named, Dated, Halting, Answered, Accruing, FindsSpent, StillLate
<1> QED BY <1>4, <1>5, <1>6, <1>9, TurnMoves

\* The turn goes on at place, whatever else it notes: its start stays.
Goes(t, r) ==
    /\ r \in Turn
    /\ r.id = turn[t].id /\ r.answer = turn[t].answer
    /\ r.late = turn[t].late /\ r.since = turn[t].since /\ r.in = turn[t].in

\* A move of a turn that asks, or that has yet to reach its transaction: it
\* reads, and notes what TurnOK asks of its new place.
LEMMA GoesKeeps ==
    ASSUME IInv, NEW t \in Turns, turn[t].at # "idle",
           NEW r, Goes(t, r), turn' = [turn EXCEPT ![t] = r],
           Dated(r), Halting(r), Accruing(r), FindsSpent(r),
           r.at = "commit" => AgentFree(t),
           UNCHANGED <<agent, ledger, setup, faults>>
    PROVE  IInv'
<1>1. turn[t] \in Turn /\ TurnOK(turn[t]) /\ faults \in Nat BY DEF IInv, TypeOK
<1>2. Named(r) /\ Timed(r) /\ Answered(r)
  BY <1>1 DEF Goes, TurnOK, Named, Timed, Answered
<1>3. r \in Turn /\ TurnOK(r) BY <1>2 DEF Goes, TurnOK
<1> QED BY <1>1, <1>3, TurnMoves
-----------------------------------------------------------------------------
LEMMA StartKeeps ==
    ASSUME IInv, NEW t \in Turns, NEW kind \in {"chat", "runtime"}, NEW i \in TurnIds,
           Start(t, kind, i)
    PROVE  IInv'
<1> DEFINE place == IF kind = "chat" THEN "agent" ELSE "report"
           late == halt /\ agent.period = month /\ agent.used >= agent.limit
           r == [NoTurn EXCEPT !.kind = kind, !.id = i, !.at = place, !.late = late,
                               !.since = ops, !.in = month]
<1>1. ops \in Nat /\ month \in 0..MaxMonth /\ faults \in Nat BY BillingAssumption DEF IInv, TypeOK
<1>2. place \in {"agent", "report"} /\ late \in BOOLEAN OBVIOUS
<1>3. r \in Turn BY <1>1, <1>2, NoTurnTyped DEF Turn, Places
<1>4. /\ r.at \in {"agent", "report"} /\ r.id = i /\ r.answer = "none"
      /\ r.late = late /\ r.since = ops /\ r.in = month
  BY <1>2 DEF NoTurn
<1>5. turn' = [turn EXCEPT ![t] = r] BY DEF Start
<1>6. UNCHANGED <<agent, ledger, setup, faults>> BY DEF Start
<1>7. late => halt /\ Spent(agent) BY DEF Spent
<1> HIDE DEF r, late, place
<1>8. Timed(r) BY <1>1, <1>4 DEF Timed
<1>9. FindsSpent(r) BY <1>4, <1>7 DEF FindsSpent, StillLate
<1>10. TurnOK(r) BY <1>4, <1>8, <1>9 DEF TurnOK, Named, Dated, Halting, Answered, Accruing
<1> QED BY <1>1, <1>3, <1>4, <1>5, <1>6, <1>10, TurnMoves

\* AuthorizeTurn and the run.
LEMMA AskKeeps ==
    ASSUME IInv, NEW t \in Turns,
           AuthorizeAgent(t) \/ AuthorizePrice(t) \/ AuthorizeHalt(t)
    PROVE  IInv'
<1>1. /\ turn[t] \in Turn /\ TurnOK(turn[t]) /\ faults \in Nat /\ agent \in Agent
      /\ turn \in [Turns -> Turn]
  BY DEF IInv, TypeOK
<1>2. ASSUME NEW answer \in Answers, answer = "refused", End(t, answer), turn[t].at # "idle",
             UNCHANGED <<agent, ledger, setup, faults>>
      PROVE  IInv'
  BY <1>1, <1>2, EndKeeps
<1>3. "refused" \in Answers BY DEF Answers
<1>4. CASE AuthorizeAgent(t)
  <2>1. CASE agent.here /\ ~agent.paused
    <3> DEFINE r == [turn[t] EXCEPT !.at = "price", !.row = agent]
    <3>1. turn' = [turn EXCEPT ![t] = r] BY <1>1, <1>4, <2>1 DEF AuthorizeAgent
    <3>2. r \in Turn BY <1>1 DEF Turn, Places
    <3>3. Goes(t, r) /\ r.at = "price" /\ r.row = agent BY <1>1, <3>2 DEF Goes, Turn
    <3> HIDE DEF r
    <3>5. turn[t].at = "agent" BY <1>4 DEF AuthorizeAgent
    <3>6. FindsSpent(r) BY <1>1, <3>3, <3>5 DEF TurnOK, FindsSpent, StillLate, Goes
    <3>7. Dated(r) /\ Halting(r) /\ Accruing(r) BY <3>3 DEF Dated, Halting, Accruing
    <3> QED BY <1>4, <3>1, <3>3, <3>5, <3>6, <3>7, GoesKeeps DEF AuthorizeAgent
  <2>2. CASE ~(agent.here /\ ~agent.paused) BY <1>2, <1>3, <1>4, <2>2 DEF AuthorizeAgent
  <2> QED BY <2>1, <2>2
<1>5. ASSUME NEW place \in Places, Move(t, place), place \in {"halt", "run"},
             turn[t].at \in {"price", "halt"},
             place = "run" => turn[t].at = "halt" /\ ~(halt /\ Exhausted(turn[t].row, month)),
             UNCHANGED <<agent, ledger, setup, faults>>
      PROVE  IInv'
  <2> DEFINE r == [turn[t] EXCEPT !.at = place]
  <2>1. turn' = [turn EXCEPT ![t] = r] BY <1>1, <1>5 DEF Move
  <2>2. r \in Turn BY <1>1 DEF Turn
  <2>3. Goes(t, r) /\ r.at = place /\ r.row = turn[t].row BY <1>1, <2>2 DEF Goes, Turn
  <2>4. turn[t].row \in Agent BY <1>1 DEF Turn
  <2> HIDE DEF r
  <2>5. Spent(turn[t].row) => Exhausted(turn[t].row, month)
    <3>1. turn[t].row.period \in Int /\ month \in Int BY <2>4 DEF IInv, TypeOK, Agent
    <3> QED BY <3>1 DEF Spent, Exhausted, Stale
  <2>6. FindsSpent(r)
    BY <1>1, <1>5, <2>3, <2>5 DEF TurnOK, FindsSpent, StillLate, Goes
  <2>7. Dated(r) /\ Halting(r) /\ Accruing(r) BY <1>5, <2>3 DEF Dated, Halting, Accruing
  <2> QED BY <1>5, <2>1, <2>3, <2>6, <2>7, GoesKeeps
<1>6. "halt" \in Places /\ "run" \in Places BY DEF Places
<1>7. CASE AuthorizePrice(t)
  <2>1. CASE price # None BY <1>5, <1>6, <1>7, <2>1 DEF AuthorizePrice
  <2>2. CASE price = None BY <1>2, <1>3, <1>7, <2>2 DEF AuthorizePrice
  <2> QED BY <2>1, <2>2
<1>8. CASE AuthorizeHalt(t)
  <2>1. CASE halt /\ Exhausted(turn[t].row, month)
    BY <1>2, <1>3, <1>8, <2>1 DEF AuthorizeHalt
  <2>2. CASE ~(halt /\ Exhausted(turn[t].row, month))
    BY <1>5, <1>6, <1>8, <2>2 DEF AuthorizeHalt
  <2> QED BY <2>1, <2>2
<1> QED BY <1>4, <1>7, <1>8

\* The turn has run: the report is a turn of its own, or the client is gone.
LEMMA RunKeeps ==
    ASSUME IInv, NEW t \in Turns, RunTurn(t) \/ ClientGone(t)
    PROVE  IInv'
<1>1. turn[t] \in Turn /\ TurnOK(turn[t]) /\ faults \in Nat BY DEF IInv, TypeOK
<1>2. CASE RunTurn(t)
  <2> DEFINE r == [NoTurn EXCEPT !.kind = "chat", !.id = turn[t].id, !.at = "report"]
  <2>1. turn[t].id \in TurnIds BY <1>1, <1>2 DEF RunTurn, TurnOK, Named
  <2>2. r \in Turn BY <2>1, NoTurnTyped DEF Turn, Places
  <2>3. /\ r.at = "report" /\ r.id = turn[t].id /\ r.answer = "none" /\ r.late = FALSE
        /\ r.since = 0 /\ r.in = 0
    BY DEF NoTurn
  <2> HIDE DEF r
  <2>4. Timed(r) BY <2>3 DEF Timed, IInv, TypeOK
  <2>5. TurnOK(r)
    BY <2>1, <2>3, <2>4 DEF TurnOK, Named, Dated, Halting, Answered, Accruing, FindsSpent, StillLate
  <2>6. turn' = [turn EXCEPT ![t] = r] /\ UNCHANGED <<agent, ledger, setup, faults>>
    BY <1>2 DEF RunTurn, r
  <2> QED BY <1>1, <2>2, <2>3, <2>5, <2>6, TurnMoves
<1>3. CASE ClientGone(t)
  <2>1. "gone" \in Answers BY DEF Answers
  <2> QED BY <1>1, <1>3, <2>1, EndKeeps DEF ClientGone
<1> QED BY <1>2, <1>3
-----------------------------------------------------------------------------
\* RecordSpend's reads and its insert: the period and the halt switch it read
\* first stay what they were.
LEMMA RecordMoves ==
    ASSUME IInv, NEW t \in Turns, turn[t].at \in InRecordSpend,
           NEW r, Goes(t, r), turn' = [turn EXCEPT ![t] = r],
           r.at \in {"lookup", "cost", "insert", "accrue"},
           r.charge.month = turn[t].charge.month, r.halted = turn[t].halted,
           UNCHANGED <<agent, ledger, setup, faults>>
    PROVE  IInv'
<1>1. TurnOK(turn[t]) BY DEF IInv
<1>2. Dated(r) /\ Halting(r) BY <1>1 DEF TurnOK, Dated, Halting
<1>3. Accruing(r) /\ FindsSpent(r) BY DEF Accruing, FindsSpent, StillLate
<1> QED BY <1>2, <1>3, GoesKeeps

LEMMA ReadClockKeeps ==
    ASSUME IInv, NEW t \in Turns, ReadClock(t)
    PROVE  IInv'
<1> DEFINE charge == [month |-> month, cost |-> 0]
           r == [turn[t] EXCEPT !.at = "find", !.halted = halt, !.charge = charge]
<1>1. /\ turn[t] \in Turn /\ TurnOK(turn[t]) /\ halt \in BOOLEAN /\ month \in 1..MaxMonth
      /\ turn \in [Turns -> Turn] /\ (ops = 0 => halt)
  BY DEF IInv, TypeOK
<1>2. charge \in Charge /\ charge.month = month BY <1>1, BillingAssumption DEF Charge
<1> HIDE DEF charge
<1>3. r \in Turn BY <1>1, <1>2 DEF Turn, Places
<1>4. Goes(t, r) /\ r.at = "find" /\ r.halted = halt /\ r.charge = charge
  BY <1>1, <1>3 DEF Goes, Turn
<1>5. turn' = [turn EXCEPT ![t] = r] BY <1>1 DEF ReadClock, charge
<1> HIDE DEF r
<1>6. Dated(r) BY <1>1, <1>2, <1>4 DEF Dated
<1>7. Halting(r) /\ Accruing(r) /\ FindsSpent(r)
  BY <1>1, <1>4 DEF Halting, Accruing, FindsSpent, StillLate
<1>8. turn[t].at # "idle" /\ UNCHANGED <<agent, ledger, setup, faults>> BY DEF ReadClock
<1> QED BY <1>4, <1>5, <1>6, <1>7, <1>8, GoesKeeps

\* A turn of RecordSpend ends without a charge of its own.
LEMMA RecordEnds ==
    ASSUME IInv, NEW t \in Turns, turn[t].at \in InRecordSpend,
           \/ End(t, "failed")
           \/ Charged(turn[t].id) /\ End(t, "replayed"),
           UNCHANGED <<agent, ledger, setup>>, faults' \in Nat
    PROVE  IInv'
<1>1. "failed" \in Answers /\ "replayed" \in Answers BY DEF Answers
<1> QED BY <1>1, EndKeeps

LEMMA ReadsKeep ==
    ASSUME IInv, NEW t \in Turns,
           FindAgent(t) \/ LookupTurn(t) \/ PriceTurn(t) \/ InsertEvent(t)
    PROVE  IInv'
<1>1. /\ turn[t] \in Turn /\ agent \in Agent /\ faults \in Nat /\ turn \in [Turns -> Turn]
      /\ price \in Costs \cup {None}
  BY DEF IInv, TypeOK
<1>2. CASE FindAgent(t)
  <2>1. CASE agent.here
    <3> DEFINE r == [turn[t] EXCEPT !.at = "lookup", !.row = agent]
    <3>1. r \in Turn BY <1>1 DEF Turn, Places
    <3>2. /\ Goes(t, r) /\ r.at = "lookup" /\ r.charge = turn[t].charge
          /\ r.halted = turn[t].halted
      BY <1>1, <3>1 DEF Goes, Turn
    <3>3. turn' = [turn EXCEPT ![t] = r] BY <1>1, <1>2, <2>1 DEF FindAgent
    <3> HIDE DEF r
    <3> QED BY <1>2, <3>2, <3>3, RecordMoves DEF FindAgent
  <2>2. CASE ~agent.here BY <1>1, <1>2, <2>2, RecordEnds DEF FindAgent
  <2> QED BY <2>1, <2>2
<1>3. ASSUME NEW place \in {"cost", "accrue"}, Move(t, place), turn[t].at \in InRecordSpend,
             UNCHANGED <<agent, ledger, setup, faults>>
      PROVE  IInv'
  <2> DEFINE r == [turn[t] EXCEPT !.at = place]
  <2>1. r \in Turn BY <1>1 DEF Turn, Places
  <2>2. /\ Goes(t, r) /\ r.at = place /\ r.charge = turn[t].charge
        /\ r.halted = turn[t].halted
    BY <1>1, <2>1 DEF Goes, Turn
  <2>3. turn' = [turn EXCEPT ![t] = r] BY <1>1, <1>3 DEF Move
  <2> HIDE DEF r
  <2> QED BY <1>3, <2>2, <2>3, RecordMoves
<1>4. CASE LookupTurn(t)
  <2>1. CASE Charged(turn[t].id) BY <1>1, <1>4, <2>1, RecordEnds DEF LookupTurn
  <2>2. CASE ~Charged(turn[t].id) BY <1>3, <1>4, <2>2 DEF LookupTurn
  <2> QED BY <2>1, <2>2
<1>5. CASE PriceTurn(t)
  <2>1. CASE price # None
    <3> DEFINE charge == [turn[t].charge EXCEPT !.cost = price]
               r == [turn[t] EXCEPT !.at = "insert", !.charge = charge]
    <3>1. price \in Nat BY <1>1, <2>1, BillingAssumption
    <3>2. turn[t].charge \in Charge BY <1>1 DEF Turn
    <3>3. charge \in Charge /\ charge.month = turn[t].charge.month BY <3>1, <3>2 DEF Charge
    <3>4. turn' = [turn EXCEPT ![t] = r]
      <4>1. turn' = [turn EXCEPT ![t].at = "insert", ![t].charge.cost = price]
        BY <1>5, <2>1 DEF PriceTurn
      <4> QED BY <1>1, <4>1
    <3> HIDE DEF charge
    <3>5. r \in Turn BY <1>1, <3>3 DEF Turn, Places
    <3>6. /\ Goes(t, r) /\ r.at = "insert" /\ r.charge = charge
          /\ r.halted = turn[t].halted
      BY <1>1, <3>5 DEF Goes, Turn
    <3> HIDE DEF r
    <3> QED BY <1>5, <3>3, <3>4, <3>6, RecordMoves DEF PriceTurn
  <2>2. CASE price = None BY <1>1, <1>5, <2>2, RecordEnds DEF PriceTurn
  <2> QED BY <2>1, <2>2
<1>6. CASE InsertEvent(t)
  <2>1. CASE Charged(turn[t].id) BY <1>1, <1>6, <2>1, RecordEnds DEF InsertEvent
  <2>2. CASE ~Charged(turn[t].id) BY <1>3, <1>6, <2>2 DEF InsertEvent
  <2> QED BY <2>1, <2>2
<1> QED BY <1>2, <1>4, <1>5, <1>6
-----------------------------------------------------------------------------
\* The accrual keeps the row's type, raises the counter within its month, and
\* pauses an agent whose budget it spends while auto-halt is on.
LEMMA AccruedRow ==
    ASSUME NEW row \in Agent, NEW read, NEW charge \in Charge, NEW halted \in BOOLEAN
    PROVE  LET new == Accrued(row, read, charge, halted)
           IN  /\ new \in Agent
               /\ new.period = charge.month /\ new.limit = row.limit
               /\ row.period = charge.month => new.used >= row.used
               /\ halted /\ new.used >= new.limit => new.paused
<1> DEFINE used == IF row.period < charge.month THEN charge.cost ELSE row.used + charge.cost
           new == Accrued(row, read, charge, halted)
<1>1. charge.month \in 0..MaxMonth /\ charge.cost \in Nat BY DEF Charge
<1>2. row.used \in Nat /\ row.limit \in Nat /\ row.period \in 0..MaxMonth /\ row.paused \in BOOLEAN
  BY DEF Agent
<1>3. used \in Nat BY <1>1, <1>2
<1>4. row.period = charge.month => used >= row.used BY <1>1, <1>2, <1>3
<1>5. new = [row EXCEPT !.used = used, !.period = charge.month,
                        !.paused = row.paused \/ (halted /\ used >= row.limit)]
  BY DEF Accrued
<1> HIDE DEF used, new
<1> DEFINE paused == row.paused \/ (halted /\ used >= row.limit)
<1>6. paused \in BOOLEAN OBVIOUS
<1>7. new = [row EXCEPT !.used = used, !.period = charge.month, !.paused = paused] BY <1>5
<1>8. halted /\ used >= row.limit => paused OBVIOUS
<1> HIDE DEF paused
<1>9. new \in Agent BY <1>1, <1>3, <1>6, <1>7 DEF Agent
<1>10. new.used = used /\ new.period = charge.month /\ new.paused = paused /\ new.limit = row.limit
  BY <1>7 DEF Agent
<1> QED BY <1>4, <1>8, <1>9, <1>10 DEF new

LEMMA AccrueKeeps ==
    ASSUME IInv, NEW t \in Turns, Accrue(t)
    PROVE  IInv'
<1>1. /\ turn[t] \in Turn /\ TurnOK(turn[t]) /\ agent \in Agent /\ faults \in Nat
      /\ turn \in [Turns -> Turn]
  BY DEF IInv, TypeOK
<1>2. turn[t].charge \in Charge /\ turn[t].halted \in BOOLEAN BY <1>1 DEF Turn
<1>3. CASE agent.here
  <2> DEFINE new == Accrued(agent, turn[t].row, turn[t].charge, turn[t].halted)
             r == [turn[t] EXCEPT !.at = "commit", !.row = new]
  <2>1. new \in Agent BY <1>1, <1>2, AccruedRow
  <2>2. new = Accrued(agent, agent, turn[t].charge, turn[t].halted) BY DEF Accrued
  <2>3. turn' = [turn EXCEPT ![t] = r] BY <1>1, <1>3 DEF Accrue
  <2> HIDE DEF new
  <2>4. r \in Turn BY <1>1, <2>1 DEF Turn, Places
  <2>5. /\ Goes(t, r) /\ r.at = "commit" /\ r.row = new
        /\ r.charge = turn[t].charge /\ r.halted = turn[t].halted
    BY <1>1, <2>4 DEF Goes, Turn
  <2> HIDE DEF r
  <2>6. turn[t].at = "accrue" /\ AgentFree(t) /\ UNCHANGED <<agent, ledger, setup, faults>>
    BY DEF Accrue
  <2>7. Dated(r) /\ Halting(r) BY <1>1, <2>5, <2>6 DEF TurnOK, Dated, Halting
  <2>8. Accruing(r) /\ FindsSpent(r) BY <2>2, <2>5 DEF Accruing, FindsSpent, StillLate
  <2> QED BY <2>3, <2>5, <2>6, <2>7, <2>8, GoesKeeps
<1>4. CASE ~agent.here BY <1>1, <1>4, RecordEnds DEF Accrue
<1> QED BY <1>3, <1>4

LEMMA CommitKeeps ==
    ASSUME IInv, NEW t \in Turns, CommitSpend(t)
    PROVE  IInv'
<1> DEFINE r == [NoTurn EXCEPT !.kind = turn[t].kind, !.id = turn[t].id,
                               !.at = "done", !.answer = "charged"]
<1>1. /\ turn[t] \in Turn /\ TurnOK(turn[t]) /\ agent \in Agent /\ faults \in Nat
      /\ turn \in [Turns -> Turn] /\ ledger \in [TurnIds -> Charge] /\ turn[t].at = "commit"
      /\ UNCHANGED <<price, halt, month, ops, faults>>
  BY DEF IInv, TypeOK, CommitSpend, setup
<1>2. turn[t].id \in TurnIds /\ turn[t].charge \in Charge /\ turn[t].halted \in BOOLEAN
  BY <1>1 DEF Turn, TurnOK, Named
<1>3. /\ turn[t].charge.month \in 1..month /\ (~Straddle => turn[t].charge.month = month)
      /\ (ops = 0 => turn[t].halted)
  BY <1>1 DEF TurnOK, Dated, Halting
<1>4. /\ agent' = turn[t].row
      /\ turn[t].row = Accrued(agent, agent, turn[t].charge, turn[t].halted)
  BY <1>1 DEF CommitSpend, TurnOK, Accruing
<1>5. /\ agent' \in Agent /\ agent'.period = turn[t].charge.month /\ agent'.limit = agent.limit
      /\ (agent.period = turn[t].charge.month => agent'.used >= agent.used)
      /\ (turn[t].halted /\ agent'.used >= agent'.limit => agent'.paused)
  BY <1>1, <1>2, <1>4, AccruedRow
<1>6. ledger' = [ledger EXCEPT ![turn[t].id] = turn[t].charge] BY DEF CommitSpend
<1>7. ledger' \in [TurnIds -> Charge] BY <1>1, <1>2, <1>6
<1>8. /\ Charged(turn[t].id)'
      /\ \A i \in TurnIds : Charged(i) => Charged(i)'
  <2>1. turn[t].charge.month # 0
    <3>1. month \in Nat BY DEF IInv, TypeOK
    <3> QED BY <1>3, <3>1
  <2>2. /\ ledger'[turn[t].id] = turn[t].charge
        /\ \A i \in TurnIds \ {turn[t].id} : ledger'[i] = ledger[i]
    BY <1>1, <1>2, <1>6
  <2>3. turn'[t].id = turn[t].id BY <1>1 DEF CommitSpend, End, NoTurn
  <2> QED BY <2>1, <2>2, <2>3 DEF Charged
<1>9. r \in Turn BY <1>1, NoTurnTyped DEF Turn, Places, Answers
<1>10. /\ r.at = "done" /\ r.id = turn[t].id /\ r.answer = "charged"
       /\ r.since = 0 /\ r.in = 0
  BY DEF NoTurn
<1>11. turn' = [turn EXCEPT ![t] = r] BY DEF CommitSpend, End
<1> HIDE DEF r
<1>12. turn' \in [Turns -> Turn] BY <1>1, <1>9, <1>11
<1>13. turn'[t] = r /\ \A u \in Turns \ {t} : turn'[u] = turn[u] BY <1>1, <1>11
<1>14. TypeOK' BY <1>1, <1>5, <1>7, <1>12 DEF IInv, TypeOK
<1>15. OneCommit' BY <1>10, <1>13 DEF IInv, OneCommit
<1>16. PausedWhenSpent' /\ (ops' = 0 => halt') BY <1>1, <1>3, <1>5 DEF IInv, PausedWhenSpent
<1>17. ASSUME NEW u \in Turns \ {t} PROVE TurnOK(turn[u])'
  <2>1. turn'[u] = turn[u] /\ turn[u] \in Turn /\ TurnOK(turn[u]) BY <1>1, <1>13 DEF IInv
  <2>2. turn[u].at # "commit" BY <1>1 DEF IInv, OneCommit
  <2>3. /\ Named(turn[u])' /\ Dated(turn[u])' /\ Halting(turn[u])' /\ Timed(turn[u])'
        /\ Accruing(turn[u])'
    BY <1>1, <2>1, <2>2 DEF TurnOK, Named, Dated, Halting, Timed, Accruing
  <2>4. Answered(turn[u])'
    <3> SUFFICES ASSUME turn[u].answer \in {"charged", "replayed"}
                 PROVE  turn[u].id \in TurnIds /\ Charged(turn[u].id)'
      BY <2>1 DEF Answered, Charged
    <3>1. turn[u].id \in TurnIds /\ Charged(turn[u].id) BY <2>1 DEF TurnOK, Answered
    <3> QED BY <1>8, <2>1, <3>1 DEF Charged
  <2>5. FindsSpent(turn[u])'
    <3> SUFFICES ASSUME ~Straddle, StillLate(turn[u])
                 PROVE  halt /\ Spent(agent)' /\ turn[u].at # "run"
                        /\ (turn[u].at \in {"price", "halt"} => Spent(turn[u].row))
      BY <1>1, <2>1 DEF FindsSpent, StillLate, Spent
    <3>1. halt /\ Spent(agent) /\ turn[u].at # "run"
          /\ (turn[u].at \in {"price", "halt"} => Spent(turn[u].row))
      BY <2>1 DEF TurnOK, FindsSpent
    <3>2. agent.used \in Nat /\ agent.limit \in Nat /\ agent'.used \in Nat BY <1>1, <1>5 DEF Agent
    <3>3. Spent(agent)' BY <1>1, <1>3, <1>5, <3>1, <3>2 DEF Spent
    <3> QED BY <3>1, <3>3
  <2> QED BY <2>3, <2>4, <2>5 DEF TurnOK
<1>18. TurnOK(turn[t])'
  <2>1. turn'[t].at = "done" /\ turn'[t].id = turn[t].id /\ turn'[t].since = 0 /\ turn'[t].in = 0
    BY <1>10, <1>13
  <2>2. ops' \in Nat /\ month' \in 1..MaxMonth BY <1>14 DEF TypeOK
  <2>3. Timed(turn[t])' BY <2>1, <2>2 DEF Timed
  <2>4. Answered(turn[t])' BY <1>2, <1>8, <2>1 DEF Answered
  <2>5. Named(turn[t])' BY <1>2, <2>1 DEF Named
  <2> QED BY <2>1, <2>3, <2>4, <2>5 DEF TurnOK, Dated, Halting, Accruing, FindsSpent, StillLate
<1> QED BY <1>14, <1>15, <1>16, <1>17, <1>18 DEF IInv
-----------------------------------------------------------------------------
\* What an operator does ends the lateness of every turn that asks.
LEMMA OperatorKeeps ==
    ASSUME IInv,
           \/ UpdateAgent
           \/ DeleteAgent
           \/ \E p \in Costs \cup {None} : SetPrice(p)
           \/ \E on \in BOOLEAN : SetAutoHalt(on)
    PROVE  IInv'
<1>1. /\ agent \in Agent /\ ops \in Nat /\ halt \in BOOLEAN /\ price \in Costs \cup {None}
  BY DEF IInv, TypeOK
<1>2. ops' = ops + 1 /\ UNCHANGED <<ledger, month, turn, faults>>
  BY DEF UpdateAgent, DeleteAgent, SetPrice, SetAutoHalt, Operator
<1>3. /\ agent' = agent \/ AgentUnlocked
      /\ agent' \in Agent /\ halt' \in BOOLEAN /\ price' \in Costs \cup {None}
  <2>1. CASE UpdateAgent
    <3>1. PICK paused \in BOOLEAN, limit \in Limits :
             agent' = [agent EXCEPT !.paused = paused, !.limit = limit]
      BY <2>1 DEF UpdateAgent
    <3>2. limit \in Nat BY BillingAssumption
    <3>3. agent' \in Agent BY <1>1, <3>1, <3>2 DEF Agent
    <3> QED BY <1>1, <2>1, <3>3 DEF UpdateAgent
  <2>2. CASE DeleteAgent
    <3>1. agent' \in Agent BY <1>1, <2>2 DEF DeleteAgent, Agent
    <3> QED BY <1>1, <2>2, <3>1 DEF DeleteAgent
  <2>3. CASE \E p \in Costs \cup {None} : SetPrice(p) BY <1>1, <2>3 DEF SetPrice
  <2>4. CASE \E on \in BOOLEAN : SetAutoHalt(on) BY <1>1, <2>4 DEF SetAutoHalt
  <2> QED BY <2>1, <2>2, <2>3, <2>4
<1>4. TypeOK' BY <1>1, <1>2, <1>3 DEF IInv, TypeOK
<1>5. OneCommit' BY <1>2 DEF IInv, OneCommit
<1>6. ops' # 0 BY <1>1, <1>2
<1>7. ASSUME NEW u \in Turns PROVE TurnOK(turn[u])'
  <2>1. turn'[u] = turn[u] /\ turn[u] \in Turn /\ TurnOK(turn[u]) BY <1>2 DEF IInv, TypeOK
  <2>2. turn[u].since \in Nat /\ turn[u].since <= ops BY <2>1 DEF Turn, TurnOK, Timed
  <2>3. turn[u].since <= ops' /\ turn[u].since # ops' BY <1>1, <1>2, <2>2
  <2>4. Accruing(turn[u])'
    <3>1. CASE agent' = agent BY <2>1, <3>1 DEF TurnOK, Accruing, Accrued
    <3>2. CASE AgentUnlocked BY <2>1, <3>2 DEF AgentUnlocked, Accruing
    <3> QED BY <1>3, <3>1, <3>2
  <2>5. Named(turn[u])' /\ Dated(turn[u])' /\ Answered(turn[u])' /\ Timed(turn[u])'
    BY <1>2, <2>1, <2>3 DEF TurnOK, Named, Dated, Answered, Timed, Charged
  <2>6. Halting(turn[u])' /\ FindsSpent(turn[u])'
    BY <1>6, <2>1, <2>3 DEF Halting, FindsSpent, StillLate
  <2> QED BY <2>4, <2>5, <2>6 DEF TurnOK
<1> QED BY <1>4, <1>5, <1>6, <1>7 DEF IInv, PausedWhenSpent

\* So does the next month.
LEMMA MonthKeeps ==
    ASSUME IInv, NextMonth
    PROVE  IInv'
<1>1. month \in 1..MaxMonth /\ MaxMonth \in Nat BY BillingAssumption DEF IInv, TypeOK
<1>2. /\ month' = month + 1 /\ month < MaxMonth
      /\ Straddle \/ \A t \in Turns : ~Recording(t)
      /\ UNCHANGED <<agent, ledger, price, halt, turn, ops, faults>>
  BY DEF NextMonth
<1>3. month' \in 1..MaxMonth BY <1>1, <1>2
<1>4. TypeOK' BY <1>2, <1>3 DEF IInv, TypeOK
<1>5. OneCommit' /\ PausedWhenSpent' /\ (ops' = 0 => halt')
  BY <1>2 DEF IInv, OneCommit, PausedWhenSpent
<1>6. ASSUME NEW u \in Turns PROVE TurnOK(turn[u])'
  <2>1. turn'[u] = turn[u] /\ turn[u] \in Turn /\ TurnOK(turn[u]) BY <1>2 DEF IInv, TypeOK
  <2>2. turn[u].in \in Nat /\ turn[u].in <= month BY <2>1 DEF Turn, TurnOK, Timed
  <2>3. turn[u].in <= month' /\ turn[u].in # month' BY <1>1, <1>2, <2>2
  <2>4. Dated(turn[u])'
    <3>1. 1..month \subseteq 1..month' BY <1>1, <1>2
    <3>2. Straddle \/ turn[u].at \notin InRecordSpend BY <1>2 DEF Recording
    <3> QED BY <2>1, <3>1, <3>2 DEF TurnOK, Dated
  <2>5. Named(turn[u])' /\ Answered(turn[u])' /\ Timed(turn[u])' /\ Halting(turn[u])' /\ Accruing(turn[u])'
    BY <1>2, <2>1, <2>3 DEF TurnOK, Named, Answered, Timed, Charged, Halting, Accruing, Accrued
  <2>6. FindsSpent(turn[u])' BY <2>1, <2>3 DEF FindsSpent, StillLate
  <2> QED BY <2>4, <2>5, <2>6 DEF TurnOK
<1> QED BY <1>4, <1>5, <1>6 DEF IInv
-----------------------------------------------------------------------------
LEMMA StepKeeps ==
    ASSUME IInv, NEW t \in Turns, Step(t) \/ Rollback(t)
    PROVE  IInv'
<1>1. CASE AuthorizeAgent(t) \/ AuthorizePrice(t) \/ AuthorizeHalt(t) BY <1>1, AskKeeps
<1>2. CASE RunTurn(t) \/ ClientGone(t) BY <1>2, RunKeeps
<1>3. CASE ReadClock(t) BY <1>3, ReadClockKeeps
<1>4. CASE FindAgent(t) \/ LookupTurn(t) \/ PriceTurn(t) \/ InsertEvent(t) BY <1>4, ReadsKeep
<1>5. CASE Accrue(t) BY <1>5, AccrueKeeps
<1>6. CASE CommitSpend(t) BY <1>6, CommitKeeps
<1>7. CASE Rollback(t)
  <2>1. faults' \in Nat BY <1>7 DEF Rollback, IInv, TypeOK
  <2> QED BY <1>7, <2>1, RecordEnds DEF Rollback, Recording
<1> QED BY <1>1, <1>2, <1>3, <1>4, <1>5, <1>6, <1>7 DEF Step

LEMMA StutterKeeps ==
    ASSUME IInv, UNCHANGED vars
    PROVE  IInv'
<1>1. UNCHANGED <<agent, ledger, price, halt, month, turn, ops, faults>> BY DEF vars
<1>2. TypeOK' /\ OneCommit' /\ PausedWhenSpent' /\ (ops' = 0 => halt')
  BY <1>1 DEF IInv, TypeOK, OneCommit, PausedWhenSpent
<1>3. ASSUME NEW u \in Turns PROVE TurnOK(turn[u])'
  <2>1. TurnOK(turn[u]) BY DEF IInv
  <2> QED BY <1>1, <2>1 DEF TurnOK, Named, Dated, Halting, Timed, Answered, Accruing, FindsSpent,
                            StillLate, Spent, Charged, Accrued
<1> QED BY <1>2, <1>3 DEF IInv

LEMMA InitEstablishes ==
    ASSUME Init
    PROVE  IInv
<1>1. PICK limit \in Limits : agent = NewAgent(limit) BY DEF Init
<1>2. 0 \in 0..MaxMonth /\ 1 \in 1..MaxMonth /\ limit \in Nat /\ limit > 0 BY BillingAssumption
<1>3. agent \in Agent /\ agent.used = 0 /\ agent.limit = limit BY <1>1, <1>2 DEF NewAgent, Agent
<1>4. NoCharge \in Charge BY <1>2 DEF NoCharge, Charge
<1>5. TypeOK BY <1>2, <1>3, <1>4, NoTurnTyped DEF Init, TypeOK
<1>6. /\ NoTurn.at = "idle" /\ NoTurn.answer = "none" /\ NoTurn.since = 0 /\ NoTurn.in = 0
  BY DEF NoTurn
<1>7. \A t \in Turns : turn[t] = NoTurn BY DEF Init
<1>8. OneCommit BY <1>6, <1>7 DEF OneCommit
<1>9. PausedWhenSpent /\ halt BY <1>2, <1>3 DEF Init, PausedWhenSpent
<1>10. TurnOK(NoTurn)
  BY <1>6 DEF Init, TurnOK, Named, Dated, Halting, Timed, Answered, Accruing, FindsSpent, StillLate
<1> QED BY <1>5, <1>7, <1>8, <1>9, <1>10 DEF IInv

\* The invariant holds in every reachable state, whatever the constants.
THEOREM Inductive == Spec => []IInv
<1>1. Init => IInv BY InitEstablishes
<1>2. IInv /\ [Next]_vars => IInv'
  <2> SUFFICES ASSUME IInv, [Next]_vars PROVE IInv' OBVIOUS
  <2>1. ASSUME NEW t \in Turns, NEW kind \in {"chat", "runtime"}, NEW i \in TurnIds, Start(t, kind, i)
        PROVE  IInv'
    BY <2>1, StartKeeps
  <2>2. ASSUME NEW t \in Turns, Step(t) \/ Rollback(t) PROVE IInv' BY <2>2, StepKeeps
  <2>3. CASE \/ UpdateAgent
             \/ DeleteAgent
             \/ \E p \in Costs \cup {None} : SetPrice(p)
             \/ \E on \in BOOLEAN : SetAutoHalt(on)
    BY <2>3, OperatorKeeps
  <2>4. CASE NextMonth BY <2>4, MonthKeeps
  <2>5. CASE UNCHANGED vars BY <2>5, StutterKeeps
  <2> QED BY <2>1, <2>2, <2>3, <2>4, <2>5 DEF Next
<1> QED BY <1>1, <1>2, PTL DEF Spec

\* Types of the agent's row, the ledger and the turns.
THEOREM TypeCorrect == Spec => []TypeOK
<1>1. IInv => TypeOK BY DEF IInv
<1> QED BY <1>1, Inductive, PTL

\* Who is told that a turn is charged finds its ledger row.
THEOREM AnswersTrue == Spec => []AnswerHasRow
<1>1. IInv => AnswerHasRow BY DEF IInv, TurnOK, Answered, AnswerHasRow
<1> QED BY <1>1, Inductive, PTL

\* An agent whose counter reached its limit is paused: the pause is decided on
\* the counter as the row lock shows it.
THEOREM SpentPauses == Spec => []PausedWhenSpent
<1>1. IInv => PausedWhenSpent BY DEF IInv
<1> QED BY <1>1, Inductive, PTL

\* A turn that asks after the budget is spent never runs, if no month begins
\* between a report's clock and its commit.
THEOREM SpentStops == ~Straddle => (Spec => []SpentNeverRuns)
<1>1. ~Straddle /\ IInv => SpentNeverRuns
  BY DEF IInv, TurnOK, FindsSpent, StillLate, SpentNeverRuns
<1> SUFFICES ASSUME ~Straddle PROVE Spec => []SpentNeverRuns OBVIOUS
<1>2. IInv => SpentNeverRuns BY <1>1
<1> QED BY <1>2, Inductive, PTL
-----------------------------------------------------------------------------
\* What the ledger rows of S cost together, in the ledger c.
Sum(c, S) == MapThenSumSet(LAMBDA i : c[i].cost, S)

\* The recursion that the sum is folded by, over the subsets of S: Unfold is one
\* round of it, Solves says that f is the function it defines.
Pick(s) == CHOOSE x \in s : TRUE
Unfold(c, S, f) == [s \in SUBSET S |-> IF s = {} THEN 0 ELSE c[Pick(s)].cost + f[s \ {Pick(s)}]]
Solves(c, S, f) == f = Unfold(c, S, f)

LEMMA PickIn ==
    ASSUME NEW s, s # {}
    PROVE  Pick(s) \in s
BY DEF Pick

\* A set of numbers that is not empty has a least one.
LEMMA LeastNat ==
    ASSUME NEW T \in SUBSET Nat, T # {}
    PROVE  \E n \in T : \A m \in T : n <= m
<1>1. PICK n \in T : \A m \in T : <<m, n>> \notin OpToRel(<, Nat)
  BY NatLessThanWellFounded, WFMin
<1>2. \A m \in T : ~(m < n) BY <1>1 DEF OpToRel
<1> QED BY <1>2

\* Removing an element makes a finite set smaller.
LEMMA Smaller ==
    ASSUME NEW S, IsFiniteSet(S), NEW T \in SUBSET S, NEW x \in T
    PROVE  /\ IsFiniteSet(T) /\ Cardinality(T) \in Nat
           /\ Cardinality(T \ {x}) \in Nat /\ Cardinality(T \ {x}) < Cardinality(T)
<1>1. IsFiniteSet(T) BY FS_Subset
<1>2. IsFiniteSet(T \ {x}) /\ Cardinality(T \ {x}) = Cardinality(T) - 1
  BY <1>1, FS_RemoveElement
<1>3. Cardinality(T) \in Nat /\ Cardinality(T \ {x}) \in Nat
  BY <1>1, <1>2, FS_CardinalityType
<1> QED BY <1>1, <1>2, <1>3

\* The recursion has a solution, found one level of subsets at a time.
LEMMA Solvable ==
    ASSUME NEW c \in [TurnIds -> Charge], NEW S \in SUBSET TurnIds, IsFiniteSet(S)
    PROVE  \E f \in [SUBSET S -> Nat] : Solves(c, S, f)
<1> DEFINE Upto(f, n) == \A s \in SUBSET S : Cardinality(s) <= n => f[s] = Unfold(c, S, f)[s]
           Bad == {n \in Nat : \A f \in [SUBSET S -> Nat] : ~Upto(f, n)}
<1>1. \A i \in S : c[i].cost \in Nat BY DEF Charge
<1>2. \A s \in SUBSET S : s # {} => Pick(s) \in S /\ s \ {Pick(s)} \in SUBSET S BY PickIn
<1>3. ASSUME NEW f \in [SUBSET S -> Nat] PROVE Unfold(c, S, f) \in [SUBSET S -> Nat]
  BY <1>1, <1>2 DEF Unfold
<1>4. \A s \in SUBSET S : IsFiniteSet(s) /\ Cardinality(s) \in Nat
  BY FS_Subset, FS_CardinalityType
<1>5. 0 \notin Bad
  <2> DEFINE f == [s \in SUBSET S |-> 0]
  <2>1. f \in [SUBSET S -> Nat] OBVIOUS
  <2>2. ASSUME NEW s \in SUBSET S, Cardinality(s) <= 0 PROVE f[s] = Unfold(c, S, f)[s]
    <3>1. Cardinality(s) = 0 BY <1>4, <2>2
    <3>2. s = {} BY <1>4, <3>1, FS_EmptySet
    <3> QED BY <3>2 DEF Unfold
  <2>3. Upto(f, 0) BY <2>2
  <2> QED BY <2>1, <2>3
<1>6. ASSUME NEW n \in Nat, n + 1 \in Bad PROVE n \in Bad
  <2> SUFFICES ASSUME n \notin Bad PROVE FALSE OBVIOUS
  <2>1. PICK f \in [SUBSET S -> Nat] : Upto(f, n) OBVIOUS
  <2> DEFINE g == Unfold(c, S, f)
  <2>2. g \in [SUBSET S -> Nat] BY <1>3
  <2>3. ASSUME NEW s \in SUBSET S, Cardinality(s) <= n + 1 PROVE g[s] = Unfold(c, S, g)[s]
    <3>1. CASE s = {} BY <3>1 DEF Unfold
    <3>2. CASE s # {}
      <4> DEFINE u == s \ {Pick(s)}
      <4>1. u \in SUBSET S /\ Cardinality(u) <= n
        <5>1. Pick(s) \in s BY <3>2, PickIn
        <5>2. Cardinality(s) \in Nat /\ Cardinality(u) \in Nat /\ Cardinality(u) < Cardinality(s)
          BY <5>1, Smaller
        <5> QED BY <2>3, <5>2
      <4>2. f[u] = g[u] BY <2>1, <4>1
      <4>3. g[s] = c[Pick(s)].cost + f[u] BY <3>2 DEF Unfold
      <4>4. Unfold(c, S, g)[s] = c[Pick(s)].cost + g[u]
        <5> HIDE DEF g
        <5> QED BY <3>2 DEF Unfold
      <4> QED BY <4>2, <4>3, <4>4
    <3> QED BY <3>1, <3>2
  <2>4. Upto(g, n + 1) BY <2>3
  <2> QED BY <1>6, <2>2, <2>4
<1>7. Bad = {}
  <2> SUFFICES ASSUME Bad # {} PROVE FALSE OBVIOUS
  <2>1. PICK n \in Bad : \A m \in Bad : n <= m
    <3>1. Bad \in SUBSET Nat OBVIOUS
    <3> HIDE DEF Bad
    <3> QED BY <3>1, LeastNat
  <2>2. n \in Nat /\ n # 0 BY <1>5, <2>1
  <2>3. n - 1 \in Nat /\ (n - 1) + 1 = n BY <2>2
  <2> HIDE DEF Bad
  <2>4. n - 1 \in Bad BY <1>6, <2>1, <2>3
  <2> QED BY <2>1, <2>2, <2>4
<1>8. Cardinality(S) \in Nat BY <1>4
<1>9. PICK f \in [SUBSET S -> Nat] : Upto(f, Cardinality(S)) BY <1>7, <1>8
<1>10. \A s \in SUBSET S : f[s] = Unfold(c, S, f)[s]
  <2>1. \A s \in SUBSET S : Cardinality(s) <= Cardinality(S) BY FS_Subset
  <2> QED BY <1>9, <2>1
<1>11. Unfold(c, S, f) \in [SUBSET S -> Nat] BY <1>3
<1>12. f = Unfold(c, S, f) BY <1>10, <1>11
<1> QED BY <1>12 DEF Solves

\* Two solutions agree on the sets of which both know the costs.
LEMMA Unique ==
    ASSUME NEW c, NEW d, NEW S, NEW E, NEW f, NEW g, Solves(c, S, f), Solves(d, E, g),
           NEW T \in SUBSET S, T \in SUBSET E, IsFiniteSet(T), \A i \in T : c[i].cost = d[i].cost
    PROVE  f[T] = g[T]
<1> DEFINE Bad == {Cardinality(s) : s \in {u \in SUBSET T : f[u] # g[u]}}
<1>1. \A s \in SUBSET T : IsFiniteSet(s) /\ Cardinality(s) \in Nat
  BY FS_Subset, FS_CardinalityType
<1> SUFFICES ASSUME f[T] # g[T] PROVE FALSE OBVIOUS
<1>2. Bad \in SUBSET Nat /\ Bad # {} BY <1>1
<1>3. PICK n \in Bad : \A m \in Bad : n <= m
  <2> HIDE DEF Bad
  <2> QED BY <1>2, LeastNat
<1>4. PICK s \in SUBSET T : f[s] # g[s] /\ Cardinality(s) = n BY <1>3
<1>5. s \in SUBSET S /\ s \in SUBSET E OBVIOUS
<1>6. s # {}
  <2> SUFFICES ASSUME s = {} PROVE FALSE OBVIOUS
  <2>1. f[s] = 0 BY <1>5 DEF Solves, Unfold
  <2>2. g[s] = 0 BY <1>5 DEF Solves, Unfold
  <2> QED BY <1>4, <2>1, <2>2
<1> DEFINE x == Pick(s)
           u == s \ {x}
<1>7. x \in s BY <1>6, PickIn
<1>8. f[s] = c[x].cost + f[u] BY <1>5, <1>6 DEF Solves, Unfold
<1>9. g[s] = d[x].cost + g[u] BY <1>5, <1>6 DEF Solves, Unfold
<1>10. c[x].cost = d[x].cost BY <1>7
<1>11. f[u] # g[u] BY <1>4, <1>8, <1>9, <1>10
<1>12. Cardinality(u) \in Nat /\ Cardinality(s) \in Nat /\ Cardinality(u) < Cardinality(s)
  BY <1>1, <1>7, Smaller
<1>13. Cardinality(u) \in Bad BY <1>11
<1>14. n <= Cardinality(u)
  <2> HIDE DEF Bad, u
  <2> QED BY <1>3, <1>13
<1> QED BY <1>4, <1>12, <1>14

\* The order of the summands does not matter.
LEMMA AnyFirst ==
    ASSUME NEW c \in [TurnIds -> Charge], NEW S \in SUBSET TurnIds, IsFiniteSet(S),
           NEW f \in [SUBSET S -> Nat], Solves(c, S, f), NEW T \in SUBSET S, NEW y \in T
    PROVE  f[T] = c[y].cost + f[T \ {y}]
<1> DEFINE Same(s, x) == f[s] = c[x].cost + f[s \ {x}]
           Bad == {Cardinality(s) : s \in {u \in SUBSET S : \E x \in u : ~Same(u, x)}}
<1>1. \A s \in SUBSET S : IsFiniteSet(s) /\ Cardinality(s) \in Nat
  BY FS_Subset, FS_CardinalityType
<1> SUFFICES ASSUME ~Same(T, y) PROVE FALSE OBVIOUS
<1>2. Bad \in SUBSET Nat /\ Bad # {}
  <2>1. Bad \in SUBSET Nat BY <1>1
  <2>2. T \in {u \in SUBSET S : \E x \in u : ~Same(u, x)} OBVIOUS
  <2>3. Cardinality(T) \in Bad BY <2>2
  <2> QED BY <2>1, <2>3
<1>3. PICK n \in Bad : \A m \in Bad : n <= m
  <2> HIDE DEF Bad
  <2> QED BY <1>2, LeastNat
<1>4. PICK s \in SUBSET S : Cardinality(s) = n /\ \E x \in s : ~Same(s, x) BY <1>3
<1>5. PICK x \in s : ~Same(s, x) BY <1>4
<1> DEFINE p == Pick(s)
<1>6. p \in s BY <1>5, PickIn
<1>7. Same(s, p) BY <1>5 DEF Solves, Unfold
<1>8. x # p BY <1>5, <1>7
<1>9. \A v \in s : s \ {v} \in SUBSET S /\ \A w \in s \ {v} : Same(s \ {v}, w)
  <2> TAKE v \in s
  <2>1. Cardinality(s \ {v}) \in Nat /\ n \in Nat /\ Cardinality(s \ {v}) < n
    BY <1>1, <1>4, Smaller
  <2>2. Cardinality(s \ {v}) \notin Bad BY <1>3, <2>1
  <2> QED BY <2>2
<1> HIDE DEF p
<1>10. (s \ {p}) \ {x} = (s \ {x}) \ {p} OBVIOUS
<1>11. f[s \ {p}] = c[x].cost + f[(s \ {p}) \ {x}] BY <1>6, <1>8, <1>9
<1>12. f[s \ {x}] = c[p].cost + f[(s \ {p}) \ {x}] BY <1>6, <1>8, <1>9, <1>10
<1>13. c[x].cost \in Nat /\ c[p].cost \in Nat BY <1>6 DEF Charge
<1>14. f[(s \ {p}) \ {x}] \in Nat OBVIOUS
<1>15. f[s] = c[p].cost + f[s \ {p}] BY <1>7
<1>16. f[s] = c[x].cost + f[s \ {x}]
  <2> DEFINE a == c[x].cost
             b == c[p].cost
             z == f[(s \ {p}) \ {x}]
  <2>1. a \in Nat /\ b \in Nat /\ z \in Nat BY <1>13, <1>14
  <2>2. f[s] = b + (a + z) BY <1>11, <1>15
  <2>3. c[x].cost + f[s \ {x}] = a + (b + z) BY <1>12
  <2> HIDE DEF a, b, z
  <2> QED BY <2>1, <2>2, <2>3
<1> QED BY <1>5, <1>16

\* The sum is the value of every solution.
LEMMA SumSolved ==
    ASSUME NEW c \in [TurnIds -> Charge], NEW S \in SUBSET TurnIds, IsFiniteSet(S)
    PROVE  \E f \in [SUBSET S -> Nat] : Solves(c, S, f) /\ Sum(c, S) = f[S]
<1> DEFINE g == CHOOSE f : Solves(c, S, f)
<1>1. Sum(c, S) = g[S] BY DEF Sum, MapThenSumSet, MapThenFoldSet, Solves, Unfold, Pick
<1>2. PICK f \in [SUBSET S -> Nat] : Solves(c, S, f) BY Solvable
<1>3. Solves(c, S, g) BY <1>2
<1> HIDE DEF g
<1>4. f[S] = g[S] BY <1>2, <1>3, Unique
<1> QED BY <1>1, <1>2, <1>4

\* The sum over no row, a number; over what two ledgers agree on, the same; and
\* by the row x, whichever that is.
LEMMA SumOfNone ==
    ASSUME NEW c \in [TurnIds -> Charge]
    PROVE  Sum(c, {}) = 0
<1>1. {} \in SUBSET TurnIds /\ IsFiniteSet({}) BY FS_EmptySet
<1>2. PICK f \in [SUBSET {} -> Nat] : Solves(c, {}, f) /\ Sum(c, {}) = f[{}] BY <1>1, SumSolved
<1> QED BY <1>2 DEF Solves, Unfold

LEMMA SumAgrees ==
    ASSUME NEW c \in [TurnIds -> Charge], NEW d \in [TurnIds -> Charge],
           NEW S \in SUBSET TurnIds, IsFiniteSet(S), \A i \in S : c[i] = d[i]
    PROVE  Sum(c, S) = Sum(d, S)
<1>1. PICK f \in [SUBSET S -> Nat] : Solves(c, S, f) /\ Sum(c, S) = f[S] BY SumSolved
<1>2. PICK g \in [SUBSET S -> Nat] : Solves(d, S, g) /\ Sum(d, S) = g[S] BY SumSolved
<1>3. \A i \in S : c[i].cost = d[i].cost OBVIOUS
<1>4. f[S] = g[S] BY <1>1, <1>2, <1>3, Unique
<1> QED BY <1>1, <1>2, <1>4

LEMMA SumByOne ==
    ASSUME NEW c \in [TurnIds -> Charge], NEW S \in SUBSET TurnIds, IsFiniteSet(S), NEW x \in S
    PROVE  Sum(c, S) = c[x].cost + Sum(c, S \ {x})
<1> DEFINE R == S \ {x}
<1>1. R \in SUBSET TurnIds /\ R \in SUBSET S /\ IsFiniteSet(R) BY FS_Subset
<1>2. PICK f \in [SUBSET S -> Nat] : Solves(c, S, f) /\ Sum(c, S) = f[S] BY SumSolved
<1>3. f[S] = c[x].cost + f[R]
  <2>1. S \in SUBSET S OBVIOUS
  <2>2. Solves(c, S, f) BY <1>2
  <2>3. \A T \in SUBSET S : \A y \in T : f[T] = c[y].cost + f[T \ {y}] BY <2>2, AnyFirst
  <2> QED BY <2>1, <2>3
<1> HIDE DEF R
<1>4. PICK g \in [SUBSET R -> Nat] : Solves(c, R, g) /\ Sum(c, R) = g[R] BY <1>1, SumSolved
<1>5. f[R] = g[R] BY <1>1, <1>2, <1>4, Unique
<1> QED BY <1>2, <1>3, <1>4, <1>5 DEF R
-----------------------------------------------------------------------------
\* The counter and the ledger: why the counter of the agent's row is the sum of
\* its month's ledger rows, in every state between the statements of the others.

\* The ledger rows of month m.
Rows(m) == {i \in TurnIds : Charged(i) /\ ledger[i].month = m}

\* The ledger row is inserted and not committed.
Inserted(t) == turn[t].at \in {"accrue", "commit"}

\* No ledger row is of a month after the counter's; an open transaction inserts
\* a row of its own; the counter sums up its month.
Books ==
    /\ IsFiniteSet({i \in TurnIds : Charged(i)})
    /\ agent.period <= month
    /\ \A i \in TurnIds : ledger[i].month <= agent.period
    /\ \A t \in Turns : Inserted(t) => ~Charged(turn[t].id)
    /\ \A t, u \in Turns : Inserted(t) /\ Inserted(u) /\ turn[t].id = turn[u].id => t = u
    /\ agent.used = Sum(ledger, Rows(agent.period))

\* A step that writes neither the ledger nor the counter, and inserts nothing.
LEMMA BooksAside ==
    ASSUME IInv, Books,
           ledger' = ledger, agent'.used = agent.used, agent'.period = agent.period,
           month' \in Nat, month <= month',
           \A t \in Turns : Inserted(t)' => Inserted(t) /\ turn'[t].id = turn[t].id
    PROVE  Books'
<1>1. \A i \in TurnIds : Charged(i)' <=> Charged(i) BY DEF Charged
<1>2. {i \in TurnIds : Charged(i)}' = {i \in TurnIds : Charged(i)} BY <1>1
<1>3. Rows(agent.period)' = Rows(agent.period) BY <1>1 DEF Rows
<1>4. agent.period \in Nat /\ month \in Nat BY DEF IInv, TypeOK, Agent
<1>5. agent'.period <= month' BY <1>4 DEF Books
<1>6. \A i \in TurnIds : ledger'[i].month <= agent'.period BY DEF Books
<1>7. agent'.used = Sum(ledger', Rows(agent.period)') BY <1>3 DEF Books
<1>8. \A t \in Turns : Inserted(t)' => ~Charged(turn[t].id)' BY DEF Books, Charged
<1>9. \A t, u \in Turns : Inserted(t)' /\ Inserted(u)' /\ turn'[t].id = turn'[u].id => t = u
  BY DEF Books
<1> QED BY <1>2, <1>5, <1>6, <1>7, <1>8, <1>9 DEF Books

\* The step of one turn, other than its insert and its commit.
LEMMA TurnAside ==
    ASSUME IInv, Books, NEW t \in Turns, UNCHANGED <<agent, ledger, month>>,
           \A u \in Turns \ {t} : turn'[u] = turn[u],
           Inserted(t)' => Inserted(t) /\ turn'[t].id = turn[t].id
    PROVE  Books'
<1>1. \A u \in Turns : Inserted(u)' => Inserted(u) /\ turn'[u].id = turn[u].id
  BY DEF Inserted
<1>2. month \in Nat /\ month <= month' BY DEF IInv, TypeOK
<1> QED BY <1>1, <1>2, BooksAside

\* A turn that ends holds no row any more.
LEMMA EndAside ==
    ASSUME IInv, Books, NEW t \in Turns, NEW answer, End(t, answer), UNCHANGED <<agent, ledger, month>>
    PROVE  Books'
<1>1. turn \in [Turns -> Turn] BY DEF IInv, TypeOK
<1>2. turn'[t].at = "done" BY <1>1 DEF End, NoTurn
<1>3. \A u \in Turns \ {t} : turn'[u] = turn[u] BY <1>1 DEF End
<1> QED BY <1>2, <1>3, TurnAside DEF Inserted

LEMMA BooksOfSteps ==
    ASSUME IInv, Books, NEW t \in Turns,
           \/ \E kind \in {"chat", "runtime"}, i \in TurnIds : Start(t, kind, i)
           \/ AuthorizeAgent(t) \/ AuthorizePrice(t) \/ AuthorizeHalt(t) \/ RunTurn(t) \/ ClientGone(t)
           \/ ReadClock(t) \/ FindAgent(t) \/ LookupTurn(t) \/ PriceTurn(t) \/ Accrue(t) \/ Rollback(t)
    PROVE  Books'
<1>1. turn \in [Turns -> Turn] /\ turn[t] \in Turn BY DEF IInv, TypeOK
<1>2. UNCHANGED <<agent, ledger, month>>
  BY DEF Start, AuthorizeAgent, AuthorizePrice, AuthorizeHalt, RunTurn, ClientGone, ReadClock, FindAgent,
         LookupTurn, PriceTurn, Accrue, Rollback, setup
<1>3. ASSUME NEW place \in Places, Move(t, place), place \notin {"accrue", "commit"} PROVE Books'
  <2>1. turn'[t].at = place BY <1>1, <1>3 DEF Move, Turn
  <2>2. \A u \in Turns \ {t} : turn'[u] = turn[u] BY <1>1, <1>3 DEF Move
  <2> QED BY <1>2, <1>3, <2>1, <2>2, TurnAside DEF Inserted
<1>4. \A place \in {"halt", "run", "cost"} : place \in Places BY DEF Places
<1>5. ASSUME NEW kind \in {"chat", "runtime"}, NEW i \in TurnIds, Start(t, kind, i) PROVE Books'
  <2>1. turn'[t].at \in {"agent", "report"} BY <1>1, <1>5 DEF Start, NoTurn
  <2>2. \A u \in Turns \ {t} : turn'[u] = turn[u] BY <1>1, <1>5 DEF Start
  <2> QED BY <1>2, <2>1, <2>2, TurnAside DEF Inserted
<1>6. CASE AuthorizeAgent(t)
  <2>1. CASE agent.here /\ ~agent.paused
    <3>1. turn'[t].at = "price" /\ \A u \in Turns \ {t} : turn'[u] = turn[u]
      BY <1>1, <1>6, <2>1 DEF AuthorizeAgent, Turn
    <3> QED BY <1>2, <3>1, TurnAside DEF Inserted
  <2>2. CASE ~(agent.here /\ ~agent.paused) BY <1>2, <1>6, <2>2, EndAside DEF AuthorizeAgent
  <2> QED BY <2>1, <2>2
<1>7. CASE AuthorizePrice(t) BY <1>2, <1>3, <1>4, <1>7, EndAside DEF AuthorizePrice
<1>8. CASE AuthorizeHalt(t) BY <1>2, <1>3, <1>4, <1>8, EndAside DEF AuthorizeHalt
<1>9. CASE RunTurn(t)
  <2>1. turn'[t].at = "report" /\ \A u \in Turns \ {t} : turn'[u] = turn[u]
    BY <1>1, <1>9 DEF RunTurn, NoTurn
  <2> QED BY <1>2, <2>1, TurnAside DEF Inserted
<1>10. CASE ClientGone(t) BY <1>2, <1>10, EndAside DEF ClientGone
<1>11. CASE ReadClock(t)
  <2>1. turn'[t].at = "find" /\ \A u \in Turns \ {t} : turn'[u] = turn[u]
    BY <1>1, <1>11 DEF ReadClock, Turn
  <2> QED BY <1>2, <2>1, TurnAside DEF Inserted
<1>12. CASE FindAgent(t)
  <2>1. CASE agent.here
    <3>1. turn'[t].at = "lookup" /\ \A u \in Turns \ {t} : turn'[u] = turn[u]
      BY <1>1, <1>12, <2>1 DEF FindAgent, Turn
    <3> QED BY <1>2, <3>1, TurnAside DEF Inserted
  <2>2. CASE ~agent.here BY <1>2, <1>12, <2>2, EndAside DEF FindAgent
  <2> QED BY <2>1, <2>2
<1>13. CASE LookupTurn(t) BY <1>2, <1>3, <1>4, <1>13, EndAside DEF LookupTurn
<1>14. CASE PriceTurn(t)
  <2>1. CASE price # None
    <3>1. turn'[t].at = "insert" /\ \A u \in Turns \ {t} : turn'[u] = turn[u]
      BY <1>1, <1>14, <2>1 DEF PriceTurn, Turn
    <3> QED BY <1>2, <3>1, TurnAside DEF Inserted
  <2>2. CASE price = None BY <1>2, <1>14, <2>2, EndAside DEF PriceTurn
  <2> QED BY <2>1, <2>2
<1>15. CASE Accrue(t)
  <2>1. CASE agent.here
    <3>1. turn'[t].id = turn[t].id /\ \A u \in Turns \ {t} : turn'[u] = turn[u]
      BY <1>1, <1>15, <2>1 DEF Accrue, Turn
    <3>2. Inserted(t) BY <1>15 DEF Accrue, Inserted
    <3> QED BY <1>2, <3>1, <3>2, TurnAside
  <2>2. CASE ~agent.here BY <1>2, <1>15, <2>2, EndAside DEF Accrue
  <2> QED BY <2>1, <2>2
<1>16. CASE Rollback(t) BY <1>2, <1>16, EndAside DEF Rollback
<1> QED BY <1>5, <1>6, <1>7, <1>8, <1>9, <1>10, <1>11, <1>12, <1>13, <1>14, <1>15, <1>16

\* The insert takes an identifier that is neither charged nor being charged.
LEMMA BooksOfInsert ==
    ASSUME IInv, Books, NEW t \in Turns, InsertEvent(t)
    PROVE  Books'
<1>1. turn \in [Turns -> Turn] /\ turn[t] \in Turn BY DEF IInv, TypeOK
<1>2. UNCHANGED <<agent, ledger, month>> BY DEF InsertEvent, setup
<1>3. CASE Charged(turn[t].id) BY <1>2, <1>3, EndAside DEF InsertEvent
<1>4. CASE ~Charged(turn[t].id)
  <2>1. /\ turn'[t].at = "accrue" /\ turn'[t].id = turn[t].id
        /\ \A u \in Turns \ {t} : turn'[u] = turn[u]
    BY <1>1, <1>4 DEF InsertEvent, Move, Turn
  <2>2. \A u \in Turns \ {t} : Inserted(u) => turn[u].id # turn[t].id
    BY DEF InsertEvent, Holds, Inserted
  <2>3. \A i \in TurnIds : Charged(i)' <=> Charged(i) BY <1>2 DEF Charged
  <2>4. {i \in TurnIds : Charged(i)}' = {i \in TurnIds : Charged(i)} BY <2>3
  <2>5. Rows(agent.period)' = Rows(agent.period) BY <1>2, <2>3 DEF Rows
  <2>6. agent'.used = Sum(ledger', Rows(agent.period)') BY <1>2, <2>5 DEF Books
  <2>7. \A u \in Turns : Inserted(u)' => ~Charged(turn[u].id)'
    <3>1. ~Charged(turn'[t].id) BY <1>4, <2>1
    <3>2. \A u \in Turns \ {t} : Inserted(u)' => ~Charged(turn'[u].id) BY <2>1 DEF Books, Inserted
    <3> QED BY <1>2, <3>1, <3>2 DEF Charged
  <2>8. \A u, v \in Turns : Inserted(u)' /\ Inserted(v)' /\ turn'[u].id = turn'[v].id => u = v
    <3>1. \A u, v \in Turns \ {t} : Inserted(u)' /\ Inserted(v)' /\ turn'[u].id = turn'[v].id => u = v
      BY <2>1 DEF Books, Inserted
    <3>2. \A u \in Turns \ {t} : Inserted(u)' => turn'[u].id # turn'[t].id BY <2>1, <2>2 DEF Inserted
    <3> QED BY <3>1, <3>2
  <2> QED BY <1>2, <2>4, <2>6, <2>7, <2>8 DEF Books
<1> QED BY <1>3, <1>4

\* The commit adds its row to the ledger and its cost to the counter, or starts
\* the counter of a new month with it.
LEMMA BooksOfCommit ==
    ASSUME ~Straddle, IInv, Books, NEW t \in Turns, CommitSpend(t)
    PROVE  Books'
<1>1. /\ turn \in [Turns -> Turn] /\ turn[t] \in Turn /\ TurnOK(turn[t]) /\ agent \in Agent
      /\ ledger \in [TurnIds -> Charge] /\ month \in 1..MaxMonth /\ turn[t].at = "commit"
  BY DEF IInv, TypeOK, CommitSpend
<1>2. PICK id \in TurnIds, charge \in Charge : id = turn[t].id /\ charge = turn[t].charge
  BY <1>1 DEF Turn, TurnOK, Named
<1>3. charge.month = month /\ charge.cost \in Nat BY <1>1, <1>2 DEF TurnOK, Dated, Charge
<1>4. /\ agent'.period = month
      /\ agent'.used = IF agent.period < month THEN charge.cost ELSE agent.used + charge.cost
  <2>1. agent' = Accrued(agent, agent, charge, turn[t].halted)
    BY <1>1, <1>2 DEF CommitSpend, TurnOK, Accruing
  <2>2. agent.used \in Nat /\ agent.period \in Nat BY <1>1 DEF Agent
  <2> QED BY <1>1, <1>3, <2>1 DEF Accrued, Agent
<1>5. ledger' = [ledger EXCEPT ![id] = charge] /\ UNCHANGED month BY <1>2 DEF CommitSpend, setup
<1>6. ~Charged(id) BY <1>1, <1>2 DEF Books, Inserted
<1>7. /\ turn'[t].at = "done" /\ \A u \in Turns \ {t} : turn'[u] = turn[u]
  BY <1>1 DEF CommitSpend, End, NoTurn
<1>8. /\ ledger' \in [TurnIds -> Charge] /\ ledger'[id] = charge
      /\ \A i \in TurnIds \ {id} : ledger'[i] = ledger[i]
  BY <1>1, <1>2, <1>5
<1>9. /\ Charged(id)' /\ ledger'[id].month = month
      /\ \A i \in TurnIds \ {id} : Charged(i)' <=> Charged(i)
  BY <1>1, <1>2, <1>3, <1>8 DEF Charged
<1>10. IsFiniteSet({i \in TurnIds : Charged(i)}')
  <2>1. {i \in TurnIds : Charged(i)}' = {i \in TurnIds : Charged(i)} \cup {id}
    BY <1>2, <1>6, <1>9
  <2> QED BY <2>1, FS_AddElement DEF Books
<1>11. agent.period \in Nat /\ agent.used \in Nat /\ agent.period <= month /\ month \in Nat
  BY <1>1 DEF Books, Agent
<1>12. \A i \in TurnIds : ledger[i].month \in Nat BY <1>1 DEF Charge
<1>13. \A i \in TurnIds : ledger'[i].month <= agent'.period
  <2> TAKE i \in TurnIds
  <2>1. CASE i = id BY <1>4, <1>9, <1>11, <2>1
  <2>2. CASE i # id
    <3>1. ledger'[i].month = ledger[i].month /\ ledger[i].month <= agent.period BY <1>8, <2>2 DEF Books
    <3> QED BY <1>4, <1>11, <1>12, <3>1
  <2> QED BY <2>1, <2>2
<1>14. \A u \in Turns : Inserted(u)' => ~Charged(turn[u].id)'
  <2> SUFFICES ASSUME NEW u \in Turns, Inserted(u)' PROVE ledger'[turn'[u].id].month = 0 BY DEF Charged
  <2>1. u # t BY <1>7 DEF Inserted
  <2>2. turn'[u] = turn[u] /\ Inserted(u) BY <1>7, <2>1 DEF Inserted
  <2>3. Inserted(t) BY <1>1 DEF Inserted
  <2>4. turn[u].id # id BY <1>2, <2>1, <2>2, <2>3 DEF Books
  <2>5. ~Charged(turn[u].id) BY <2>2 DEF Books
  <2>6. turn[u].id \in TurnIds
    <3>1. TurnOK(turn[u]) BY DEF IInv
    <3> QED BY <2>2, <3>1 DEF Inserted, TurnOK, Named
  <2> QED BY <1>8, <2>2, <2>4, <2>5, <2>6 DEF Charged
<1>15. \A u, v \in Turns : Inserted(u)' /\ Inserted(v)' /\ turn'[u].id = turn'[v].id => u = v
  BY <1>7 DEF Books, Inserted
<1>16. agent'.used = Sum(ledger', Rows(agent.period)')
  <2> DEFINE R == Rows(agent.period)'
             L == ledger'
  <2>1. R = {i \in TurnIds : Charged(i)' /\ ledger'[i].month = month} BY <1>4 DEF Rows
  <2>2. id \in R BY <1>2, <1>9, <2>1
  <2>3. R \in SUBSET TurnIds BY <2>1
  <2>4. IsFiniteSet(R)
    <3>1. R \subseteq {i \in TurnIds : Charged(i)}' BY <2>1
    <3> QED BY <1>10, <3>1, FS_Subset
  <2>5. L \in [TurnIds -> Charge] /\ L[id] = charge BY <1>8
  <2>6. R \ {id} = {i \in TurnIds : Charged(i) /\ ledger[i].month = month}
    <3>1. \A i \in TurnIds \ {id} : Charged(i)' /\ ledger'[i].month = month
                                   <=> Charged(i) /\ ledger[i].month = month
      BY <1>8, <1>9
    <3> QED BY <1>6, <2>1, <3>1
  <2>7. Sum(L, R) = charge.cost + Sum(L, R \ {id})
    <3> HIDE DEF L, R
    <3> QED BY <2>2, <2>3, <2>4, <2>5, SumByOne
  <2>8. CASE agent.period < month
    <3>1. R \ {id} = {}
      <4>1. \A i \in TurnIds : ledger[i].month # month
        <5> TAKE i \in TurnIds
        <5>1. ledger[i].month <= agent.period BY DEF Books
        <5> QED BY <1>11, <1>12, <2>8, <5>1
      <4> QED BY <2>6, <4>1
    <3>2. Sum(L, R \ {id}) = 0
      <4> HIDE DEF L
      <4> QED BY <2>5, <3>1, SumOfNone
    <3>3. charge.cost + 0 = charge.cost BY <1>3
    <3> QED BY <1>4, <2>7, <2>8, <3>2, <3>3
  <2>9. CASE agent.period = month
    <3>1. R \ {id} = Rows(agent.period) BY <2>6, <2>9 DEF Rows
    <3>2. \A i \in R \ {id} : ledger[i] = L[i] BY <1>8, <2>6
    <3>3. R \ {id} \in SUBSET TurnIds /\ IsFiniteSet(R \ {id})
      <4>1. R \ {id} \subseteq R OBVIOUS
      <4> HIDE DEF R
      <4> QED BY <2>3, <2>4, <4>1, FS_Subset
    <3>4. Sum(ledger, R \ {id}) = Sum(L, R \ {id})
      <4> HIDE DEF L, R
      <4> QED BY <1>1, <2>5, <3>2, <3>3, SumAgrees
    <3>5. agent.used = Sum(L, R \ {id}) BY <3>1, <3>4 DEF Books
    <3>6. agent'.used = agent.used + charge.cost BY <1>4, <1>11, <2>9
    <3>7. agent.used + charge.cost = charge.cost + agent.used BY <1>3, <1>11
    <3> QED BY <2>7, <3>5, <3>6, <3>7
  <2> QED BY <1>11, <2>8, <2>9
<1>17. agent'.period <= month' BY <1>4, <1>5, <1>11
<1> QED BY <1>10, <1>13, <1>14, <1>15, <1>16, <1>17 DEF Books

\* Operators and the clock write other columns, and other tables.
LEMMA BooksOfOthers ==
    ASSUME IInv, Books,
           \/ UpdateAgent \/ DeleteAgent \/ NextMonth
           \/ \E p \in Costs \cup {None} : SetPrice(p)
           \/ \E on \in BOOLEAN : SetAutoHalt(on)
           \/ UNCHANGED vars
    PROVE  Books'
<1>1. agent \in Agent /\ month \in Nat BY DEF IInv, TypeOK
<1>2. ledger' = ledger /\ turn' = turn
  BY DEF UpdateAgent, DeleteAgent, NextMonth, SetPrice, SetAutoHalt, vars
<1>3. month' \in Nat /\ month <= month'
  <2>1. month' = month \/ month' = month + 1
    BY DEF UpdateAgent, DeleteAgent, NextMonth, SetPrice, SetAutoHalt, vars
  <2> QED BY <1>1, <2>1
<1>4. agent'.used = agent.used /\ agent'.period = agent.period
  <2>1. CASE UpdateAgent BY <1>1, <2>1 DEF UpdateAgent, Agent
  <2>2. CASE DeleteAgent BY <1>1, <2>2 DEF DeleteAgent, Agent
  <2>3. CASE agent' = agent BY <2>3
  <2> QED BY <2>1, <2>2, <2>3 DEF NextMonth, SetPrice, SetAutoHalt, vars
<1>5. \A t \in Turns : Inserted(t)' => Inserted(t) /\ turn'[t].id = turn[t].id BY <1>2 DEF Inserted
<1> QED BY <1>2, <1>3, <1>4, <1>5, BooksAside

LEMMA InitBooks ==
    ASSUME Init
    PROVE  Books
<1>1. IInv BY InitEstablishes
<1>2. PICK limit \in Limits : agent = NewAgent(limit) BY DEF Init
<1>3. agent.period = 0 /\ agent.used = 0 BY <1>2 DEF NewAgent
<1>4. ledger \in [TurnIds -> Charge] /\ \A i \in TurnIds : ledger[i].month = 0
  BY <1>1 DEF Init, NoCharge, IInv, TypeOK
<1>5. {i \in TurnIds : Charged(i)} = {} BY <1>4 DEF Charged
<1>6. Rows(agent.period) = {} BY <1>4 DEF Rows, Charged
<1>7. Sum(ledger, Rows(agent.period)) = 0 BY <1>4, <1>6, SumOfNone
<1>8. \A t \in Turns : ~Inserted(t) BY DEF Init, Inserted, NoTurn
<1>9. agent.period <= month BY <1>3 DEF Init
<1> QED BY <1>3, <1>4, <1>5, <1>7, <1>8, <1>9, FS_EmptySet DEF Books

\* The counter is the sum of its month's ledger rows, whichever transactions ran
\* side by side, were replayed or rolled back, if no month begins between a
\* report's clock and its commit.
THEOREM CounterSums == ~Straddle => (Spec => []CounterCoversPeriod)
<1> SUFFICES ASSUME ~Straddle PROVE Spec => []CounterCoversPeriod OBVIOUS
<1>1. Init => Books BY InitBooks
<1>2. IInv /\ Books /\ [Next]_vars => Books'
  <2> SUFFICES ASSUME IInv, Books, [Next]_vars PROVE Books' OBVIOUS
  <2>1. ASSUME NEW t \in Turns, \E kind \in {"chat", "runtime"}, i \in TurnIds : Start(t, kind, i)
        PROVE  Books'
    BY <2>1, BooksOfSteps
  <2>2. ASSUME NEW t \in Turns, Step(t) \/ Rollback(t) PROVE Books'
    BY <2>2, BooksOfSteps, BooksOfInsert, BooksOfCommit DEF Step
  <2>3. CASE \/ UpdateAgent \/ DeleteAgent \/ NextMonth
             \/ \E p \in Costs \cup {None} : SetPrice(p)
             \/ \E on \in BOOLEAN : SetAutoHalt(on)
             \/ UNCHANGED vars
    BY <2>3, BooksOfOthers
  <2> QED BY <2>1, <2>2, <2>3 DEF Next
<1>3. Books => CounterCoversPeriod BY DEF Books, CounterCoversPeriod, Sum, Rows
<1> QED BY <1>1, <1>2, <1>3, Inductive, PTL DEF Spec
==============================================================================
