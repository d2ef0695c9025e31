---------------------------- MODULE WorkforceBilling ----------------------------
(***************************************************************************)
(* server/internal/agentstore/workforce_billing.go with its callers in     *)
(* internal/api: one workforce agent, its monthly budget, and the turns    *)
(* that are admitted against it and charged to it.                         *)
(*                                                                         *)
(* AuthorizeTurn is three reads; RecordSpend reads the halt switch and the *)
(* clock and then runs one READ COMMITTED transaction. Every statement is  *)
(* a step. The ledger row and the agent row a transaction wrote are locked *)
(* and invisible to the others until it commits.                           *)
(***************************************************************************)
EXTENDS Naturals, FiniteSetsExt

CONSTANTS Turns,     \* attempts at reporting a turn: a retry is one more
          TurnIds,   \* identifiers of turns, chosen by the client
          Costs,     \* what one turn costs under the prices in use
          Limits,    \* budget limits an operator sets
          None,      \* absent price or identifier
          MaxMonth,  \* bound on the clock, in calendar months
          MaxOps,    \* bound on operator actions
          MaxFaults, \* bound on transactions that roll back
          Straddle   \* may a month begin between RecordSpend's clock and its commit?

ASSUME BillingAssumption ==
    /\ Costs \subseteq Nat /\ Limits \subseteq Nat \ {0}
    /\ None \notin Costs \cup TurnIds
    /\ MaxMonth \in Nat \ {0} /\ MaxOps \in Nat /\ MaxFaults \in Nat
    /\ Straddle \in BOOLEAN

VARIABLES agent,   \* the committed workforce_agents row
          ledger,  \* turn id -> its committed workforce_spend_events row
          price,   \* the model's price, None when it has none
          halt,    \* the workspace's auto-halt switch
          month,   \* the current calendar month
          turn,    \* attempt -> where it stands and what it read
          ops,     \* operator actions so far
          faults   \* rolled-back transactions so far

vars == <<agent, ledger, price, halt, month, turn, ops, faults>>
setup == <<price, halt, month, ops>>

Agent == [here : BOOLEAN, paused : BOOLEAN, used : Nat, limit : Nat, period : 0..MaxMonth]

\* Month 0: no row, and a counter that was never stamped.
Charge == [month : 0..MaxMonth, cost : Nat]
NoCharge == [month |-> 0, cost |-> 0]

Places == {"idle", "agent", "price", "halt", "run", "report", "find", "lookup",
           "cost", "insert", "accrue", "commit", "done"}
Answers == {"none", "refused", "gone", "failed", "replayed", "charged"}

Turn == [kind : {"none", "chat", "runtime"}, at : Places, id : TurnIds \cup {None},
         row : Agent,               \* the agent as it was read, or as written at commit
         halted : BOOLEAN,          \* auto-halt as RecordSpend read it
         charge : Charge,           \* the period and the cost it charges
         answer : Answers,
         late : BOOLEAN, since : Nat, in : 0..MaxMonth]  \* its start, for SpentNeverRuns

NoAgent == [here |-> FALSE, paused |-> FALSE, used |-> 0, limit |-> 0, period |-> 0]

NoTurn == [kind |-> "none", at |-> "idle", id |-> None, row |-> NoAgent, halted |-> FALSE,
           charge |-> NoCharge, answer |-> "none", late |-> FALSE, since |-> 0, in |-> 0]

NewAgent(limit) == [here |-> TRUE, paused |-> FALSE, used |-> 0, limit |-> limit, period |-> 0]

TypeOK ==
    /\ agent \in Agent
    /\ ledger \in [TurnIds -> Charge]
    /\ price \in Costs \cup {None}
    /\ halt \in BOOLEAN
    /\ month \in 1..MaxMonth
    /\ turn \in [Turns -> Turn]
    /\ ops \in Nat
    /\ faults \in Nat

Init ==
    /\ agent \in {NewAgent(limit) : limit \in Limits}
    /\ ledger = [i \in TurnIds |-> NoCharge]
    /\ price \in Costs
    /\ halt = TRUE
    /\ month = 1
    /\ turn = [t \in Turns |-> NoTurn]
    /\ ops = 0
    /\ faults = 0

--------------------------------------------------------------------------------
Charged(i) == ledger[i].month # 0

\* stalePeriod: the counter belongs to an earlier month.
Stale(row, m) == row.period # 0 /\ row.period < m

\* Mutant of Exhausted: a limit met exactly is not exhausted yet.
ExhaustedBeyond(row, m) == (IF Stale(row, m) THEN 0 ELSE row.used) > row.limit

\* budgetExhausted.
Exhausted(row, m) == (IF Stale(row, m) THEN 0 ELSE row.used) >= row.limit

\* Attempts inside RecordSpend, and those whose transaction is open.
Recording(t) == turn[t].at \in {"find", "lookup", "cost", "insert", "accrue", "commit"}

\* u has inserted the ledger row of i and not committed.
Holds(u, i) == turn[u].id = i /\ turn[u].at \in {"accrue", "commit"}

\* Mutant of AgentFree: a transaction waits for its own row lock.
AgentIdle(t) == \A u \in Turns : turn[u].at \notin {"accrue", "commit"}

\* No other open transaction has written the agent row.
AgentFree(t) == \A u \in Turns \ {t} : turn[u].at # "commit"

\* No open transaction at all has.
AgentUnlocked == \A u \in Turns : turn[u].at # "commit"

Move(t, place) == turn' = [turn EXCEPT ![t].at = place]
End(t, answer) ==
    turn' = [turn EXCEPT ![t] = [NoTurn EXCEPT !.kind = turn[t].kind, !.id = turn[t].id,
                                               !.at = "done", !.answer = answer]]
--------------------------------------------------------------------------------
\* A chat request or a runtime's report, under an identifier of its choice.
Start(t, kind, i) ==
    /\ turn[t].at = "idle"
    /\ turn' = [turn EXCEPT ![t] =
           [NoTurn EXCEPT !.kind = kind, !.id = i,
                          !.at = IF kind = "chat" THEN "agent" ELSE "report",
                          !.late = halt /\ agent.period = month /\ agent.used >= agent.limit,
                          !.since = ops, !.in = month]]
    /\ UNCHANGED <<agent, ledger, setup, faults>>

\* AuthorizeTurn: an unknown or paused agent is refused, ...
AuthorizeAgent(t) ==
    /\ turn[t].at = "agent"
    /\ IF agent.here /\ ~agent.paused
       THEN turn' = [turn EXCEPT ![t].at = "price", ![t].row = agent]
       ELSE End(t, "refused")
    /\ UNCHANGED <<agent, ledger, setup, faults>>

\* ... an unpriced model is, ...
AuthorizePrice(t) ==
    /\ turn[t].at = "price"
    /\ IF price # None THEN Move(t, "halt") ELSE End(t, "refused")
    /\ UNCHANGED <<agent, ledger, setup, faults>>

\* ... and an exhausted budget with auto-halt on.
AuthorizeHalt(t) ==
    /\ turn[t].at = "halt"
    /\ IF halt /\ Exhausted(turn[t].row, month) THEN End(t, "refused") ELSE Move(t, "run")
    /\ UNCHANGED <<agent, ledger, setup, faults>>

\* The provider ran the turn, in full or in part ...
RunTurn(t) ==
    /\ turn[t].at = "run"
    /\ turn' = [turn EXCEPT ![t] = [NoTurn EXCEPT !.kind = "chat", !.id = turn[t].id, !.at = "report"]]
    /\ UNCHANGED <<agent, ledger, setup, faults>>

\* ... and the stream could not be written: the client is gone.
ClientGone(t) ==
    /\ turn[t].at = "run"
    /\ End(t, "gone")
    /\ UNCHANGED <<agent, ledger, setup, faults>>

\* RecordSpend reads the halt switch, then the clock, before its transaction.
\* Nothing it reads or writes lies between the two.
ReadClock(t) ==
    /\ turn[t].at = "report"
    /\ turn' = [turn EXCEPT ![t].at = "find", ![t].halted = halt,
                            ![t].charge = [month |-> month, cost |-> 0]]
    /\ UNCHANGED <<agent, ledger, setup, faults>>

FindAgent(t) ==
    /\ turn[t].at = "find"
    /\ IF agent.here THEN turn' = [turn EXCEPT ![t].at = "lookup", ![t].row = agent]
       ELSE End(t, "failed")
    /\ UNCHANGED <<agent, ledger, setup, faults>>

LookupTurn(t) ==
    /\ turn[t].at = "lookup"
    /\ IF Charged(turn[t].id) THEN End(t, "replayed") ELSE Move(t, "cost")
    /\ UNCHANGED <<agent, ledger, setup, faults>>

PriceTurn(t) ==
    /\ turn[t].at = "cost"
    /\ IF price = None THEN End(t, "failed")
       ELSE turn' = [turn EXCEPT ![t].at = "insert", ![t].charge.cost = price]
    /\ UNCHANGED <<agent, ledger, setup, faults>>

\* Mutant of InsertEvent: an open insert counts as a conflict.
InsertAlone(t) ==
    /\ turn[t].at = "insert"
    /\ IF Charged(turn[t].id) \/ \E u \in Turns \ {t} : Holds(u, turn[t].id)
       THEN End(t, "replayed") ELSE Move(t, "accrue")
    /\ UNCHANGED <<agent, ledger, setup, faults>>

\* INSERT ... ON CONFLICT DO NOTHING: waits for an open insert of the same
\* identifier, and takes no row when that one has committed.
InsertEvent(t) ==
    /\ turn[t].at = "insert"
    /\ \A u \in Turns \ {t} : ~Holds(u, turn[t].id)
    /\ IF Charged(turn[t].id) THEN End(t, "replayed") ELSE Move(t, "accrue")
    /\ UNCHANGED <<agent, ledger, setup, faults>>

\* Mutant of Accrued: read-modify-write of the counter found at the start.
AccruedOnRead(row, read, charge, halted) ==
    LET used == IF read.period < charge.month THEN charge.cost ELSE read.used + charge.cost
    IN  [row EXCEPT !.used = used, !.period = charge.month,
                    !.paused = @ \/ (halted /\ used >= row.limit)]

\* Mutant of Accrued: the pause decision sees the counter found at the start.
AccruedPauseOnRead(row, read, charge, halted) ==
    LET used == IF row.period < charge.month THEN charge.cost ELSE row.used + charge.cost
    IN  [row EXCEPT !.used = used, !.period = charge.month,
                    !.paused = @ \/ (halted /\ read.used + charge.cost >= row.limit)]

\* Mutant of Accrued: the counter is stamped with the end of its period.
AccruedNextMonth(row, read, charge, halted) ==
    LET used == IF row.period < charge.month THEN charge.cost ELSE row.used + charge.cost
    IN  [row EXCEPT !.used = used, !.period = charge.month + 1,
                    !.paused = @ \/ (halted /\ used >= row.limit)]

\* The row after the accrual: a counter of an earlier month (or never stamped)
\* restarts at this cost, and the pause is decided on the value read back.
Accrued(row, read, charge, halted) ==
    LET used == IF row.period < charge.month THEN charge.cost ELSE row.used + charge.cost
    IN  [row EXCEPT !.used = used, !.period = charge.month,
                    !.paused = @ \/ (halted /\ used >= row.limit)]

\* The accrual takes the row lock; the read-back and the pause run under it.
\* An agent deleted meanwhile fails the read-back and the transaction.
Accrue(t) ==
    /\ turn[t].at = "accrue"
    /\ AgentFree(t)
    /\ IF agent.here
       THEN turn' = [turn EXCEPT ![t].at = "commit",
                         ![t].row = Accrued(agent, turn[t].row, turn[t].charge, turn[t].halted)]
       ELSE End(t, "failed")
    /\ UNCHANGED <<agent, ledger, setup, faults>>

CommitSpend(t) ==
    /\ turn[t].at = "commit"
    /\ agent' = turn[t].row
    /\ ledger' = [ledger EXCEPT ![turn[t].id] = turn[t].charge]
    /\ End(t, "charged")
    /\ UNCHANGED <<setup, faults>>

\* A failed statement or commit, the write's timeout, a dying server.
Rollback(t) ==
    /\ Recording(t)
    /\ faults < MaxFaults
    /\ faults' = faults + 1
    /\ End(t, "failed")
    /\ UNCHANGED <<agent, ledger, setup>>
--------------------------------------------------------------------------------
Operator == ops < MaxOps /\ ops' = ops + 1

\* PauseAgent, ResumeAgent, TriggerHeartbeat and UpdateAgent's status and
\* limit: one UPDATE of the columns named, after the row lock.
UpdateAgent ==
    /\ Operator
    /\ agent.here
    /\ AgentUnlocked
    /\ \E paused \in BOOLEAN, limit \in Limits :
          agent' = [agent EXCEPT !.paused = paused, !.limit = limit]
    /\ UNCHANGED <<ledger, price, halt, month, turn, faults>>

\* DeleteAgent, of an agent without tasks.
DeleteAgent ==
    /\ Operator
    /\ agent.here
    /\ AgentUnlocked
    /\ agent' = [agent EXCEPT !.here = FALSE]
    /\ UNCHANGED <<ledger, price, halt, month, turn, faults>>

\* SetModelPrice and DeleteModelPrice.
SetPrice(p) ==
    /\ Operator
    /\ price' = p
    /\ UNCHANGED <<agent, ledger, halt, month, turn, faults>>

SetAutoHalt(on) ==
    /\ Operator
    /\ halt' = on
    /\ UNCHANGED <<agent, ledger, price, month, turn, faults>>

\* The first instant of the next calendar month.
NextMonth ==
    /\ month < MaxMonth
    /\ Straddle \/ \A t \in Turns : ~Recording(t)
    /\ month' = month + 1
    /\ UNCHANGED <<agent, ledger, price, halt, turn, ops, faults>>

Step(t) ==
    \/ AuthorizeAgent(t) \/ AuthorizePrice(t) \/ AuthorizeHalt(t)
    \/ RunTurn(t) \/ ClientGone(t)
    \/ ReadClock(t) \/ FindAgent(t) \/ LookupTurn(t) \/ PriceTurn(t)
    \/ InsertEvent(t) \/ Accrue(t) \/ CommitSpend(t)

Next ==
    \/ \E t \in Turns :
          \/ \E kind \in {"chat", "runtime"}, i \in TurnIds : Start(t, kind, i)
          \/ Step(t) \/ Rollback(t)
    \/ UpdateAgent \/ DeleteAgent
    \/ \E p \in Costs \cup {None} : SetPrice(p)
    \/ \E on \in BOOLEAN : SetAutoHalt(on)
    \/ NextMonth

Spec == Init /\ [][Next]_vars

\* Statements are executed and provider runs return; turns, rollbacks,
\* operators and the next month need not come.
FairSpec == Spec /\ \A t \in Turns : WF_vars(Step(t))
--------------------------------------------------------------------------------
\* SPEC.md: "budget_period_start stamps the calendar month budget_used covers".
\* The counter is the sum of that month's ledger rows, whichever transactions
\* ran side by side, were replayed or rolled back.
CounterCoversPeriod ==
    agent.here =>
        agent.used = MapThenSumSet(LAMBDA i : ledger[i].cost,
                                   {i \in TurnIds : Charged(i) /\ ledger[i].month = agent.period})

\* With auto-halt on and no operator in between, an agent whose counter has
\* reached its limit is paused, also when no single turn reaches it.
PausedWhenSpent == ops = 0 /\ agent.used >= agent.limit => agent.paused

\* A chat turn that asks after the month's budget is spent never runs, unless
\* an operator or a new month has intervened since it asked.
SpentNeverRuns ==
    \A t \in Turns : turn[t].at = "run" /\ turn[t].late =>
        turn[t].since # ops \/ turn[t].in # month

\* Who is told that a turn was charged already, or just now, finds its row:
\* the winner of two identical reports may still roll back.
AnswerHasRow ==
    \A t \in Turns : turn[t].answer \in {"charged", "replayed"} => Charged(turn[t].id)

\* Every turn that starts is answered: waits for the turn index and for the
\* agent row never close a cycle.
TurnsSettle == \A t \in Turns : turn[t].at \notin {"idle", "done"} ~> turn[t].at = "done"
================================================================================
