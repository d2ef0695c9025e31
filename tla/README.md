# Verification of octarq

TLA+ specifications, TLC model-checking runs and TLAPS proofs kept beside the
octarq server (`server/`, Go) and its web console (`web/`, TypeScript). Paths
below are relative to the repository root.

## 1. The system

octarq is one Go process (or several on one database): an HTTP API and a
gateway, plugins (links, mail, dns, notify), an agent runtime, an event bus,
background jobs, and a web front end. Requests run in goroutines of their own
and meet in four places: rows of a SQL database (SQLite or Postgres, through
GORM, each statement atomic, transactions READ COMMITTED on Postgres),
in-memory maps under mutexes, bounded channels, and leases in Redis when there
is one. What is hard is what happens *between* the statements, unlocks and
channel operations of two such requests, when one dies half way, and when the
clock moves in between.

### Inventory

| component | state | operations | hard behaviour | correct when |
|---|---|---|---|---|
| Idempotency-Key middleware `server/idempotency` | table `idempotency_records`, unique `(owner, endpoint, key)` | serve: claim (INSERT, SELECT, conditional UPDATE), commit, release; Purge | claims race; crash between claim and outcome; expiry; failed statements | one owner per key, faithful replays, stored responses last their TTL, no key is stuck |
| Agent harness `internal/agentstore/harness.go`, `internal/db/harness_live_slot.go` | `agent_harness_specs` (status, version, live slot), lessons | Stage, ImportProposal, Activate, Discard, DismissLesson, the boot migration | concurrent transactions, stale reads, boot interrupted or beside serving servers | one live version, never lost by accident, history kept |
| Workforce billing `internal/agentstore/workforce_billing.go` | agent row (used, limit, period, status), spend ledger, prices, auto-halt | AuthorizeTurn, RecordSpend, prices, auto-halt, agent updates | retries and duplicates, two turns at once, month's end, client gone | counter = ledger, charged once, exhausted agents paused and refused |
| Workforce tickets `internal/agentstore/workforce.go` | tasks, steps, default agent | create, transition, approve, append step, delete agent | check-then-act across statements | no dangling assignee or default, steps numbered once |
| Event spine `internal/eventbus/spine.go` | subscriber list, one bounded channel each | Subscribe, cancel, PublishEnvelope | drain and refill against a consumer; cancel against send | no send on a closed channel, order per entity |
| Reactors `internal/eventbus/reactor.go` | debounce map, shard queues | Start, dispatch, execute, stop | full shards, debounce, shutdown | one at a time per entity key, stop returns |
| Webhook delivery `internal/eventbus/delivery.go` | `webhook_deliveries`, semaphore | Publish, attempt loop, Replay | crash, retry against Replay, budget | a final status is true; bounded fan-out |
| Cron `internal/cron` | job table, local locks, Redis lease | Register, tick, RunJob, Stop | lease shorter than job, Stop racing a tick | one run at a time; Stop waits |
| Queue `internal/queue`, dispatcher `internal/notification` | channel of 1000, four workers | Enqueue, worker, overflow | full queue, shutdown | nothing accepted is lost while running |
| SSE hub `internal/sse` | connections per org | Register, Broadcast, Unregister, Drain | broadcast racing close | cap kept, no frame to another tenant |
| Login: 2FA, recovery, invites, limits `internal/api`, `internal/auth` | one-time codes and tokens, counters | verify, reset, accept, peek/charge | check-then-consume | a code is spent once |
| Links and click pipeline `plugins/links`, cache `internal/cache` | cached links, click channel of 5000, batches of 100 | Lookup, Handle, flush, Close | stale cache, full queue, Close racing send | limits kept within the stated slack |
| Chat surfaces `web/src/shell` (drawer, palette, `streamChat.ts`) | messages, streaming flag, error, the abort controller; the drawer's in a store that outlives it | send, stop, clear, close, unmount, read the stream | awaits that return after the surface has moved on; streams that end in every way | answers stay in their turn, one stream, where it is shown; the spinner ends |
| Default agent picker `web/src/lib/useDefaultAgent.ts`, `useWorkforceAgents.ts` | list, choice, requests under way; the workspace setting | open, pick, drop, delete agent, set default | answers out of order, optimistic writes, check-then-write on the server | no default dangles for good; a default is only dropped with its agent |
| Paged lists `web/src/plugins/{links,mail}/pages` | rows, page, filter, one load under way | filter, scroll, archive, delete | loads that are dropped or overtaken | what is listed fits the filter |
| Retention, migration, agent runtime, rest of the front end, other plugins | | | sequential or I/O-bound | |

Components interact as follows. Handlers in `internal/api` call the stores;
a chat turn (`internal/api/ai_stream.go`) reads the live harness version, asks
billing for admission, runs the agent and reports its spend. Handlers publish
events; `Publish` mirrors them to the spine (reactors, SSE) and starts webhook
deliveries. Plugins register routes, cron jobs, queue handlers and reactors.
The idempotency middleware wraps handlers and knows nothing of them.

`PROJECT.json` lists every component with its status, and every hazard with its
line and the properties that watch it.

## 2. Plan

Done, in order of importance: a middleware every write passes through, the
version that an assistant runs, the money it spends, and the path of an event
to its consumers.

1. `IdempotencyContract`, `Idempotency`, proofs in `IdempotencyProofs`.
2. `HarnessLifecycle`, `HarnessStore`, proofs in `HarnessStoreProofs`.
3. `WorkforceBilling`, proofs in `WorkforceBillingProofs`.
4. `LossyQueue`, `EventSpine`, and `Reactor` composed with the queue, proofs in
   `EventSpineProofs` and `ReactorProofs`.
5. `WebhookDelivery`, proofs in `WebhookDeliveryProofs`.
6. `ChatTurn`, the console's end of a chat turn, proofs in `ChatTurnProofs`.
7. `AgentPicker`, the console and the server on the agent such a turn bills,
   proofs in `AgentPickerProofs`.

Left, in the order a next step would take them: tickets (assignee against
DeleteAgent, step numbers); `CronGuard` (leases with a clock, several nodes);
the background queue and the SSE hub; one-time codes; the click pipeline; the
paged lists. What is only model-checked is at the end of section 6.

## 3. Modules

### Idempotency

`Idempotency.tla` follows one request through `serve`: `pc` is the place
between two statements, `req` its scope, body and the one clock reading it
uses, `hold` the id and `expires_at` of the row it works on, `answer` what the
client was told. `rows` holds the record of each (org, endpoint, key), with
`nextId` standing for the primary key, so that a stale id is told from a new
row. `by` names the request whose response is stored: replaying is by
reference. `Insert`, `LookupMissing`, `LookupExpired`, `LookupLive`, `Reclaim`,
`ReclaimLost`, `Commit` and `Release` are the statements of the code;
`InsertFails`, `OutcomeLost` and `Crash` its failures, and a failed statement may
or may not have been applied. `IdempotencyContract.tla` says what a client is
promised: a key has at most one holder; only the holder stores a response, and
the response stays until it expires.

`MayOutlive` states the one assumption: when FALSE, a request is finished
before its TTL (24 hours by default) is over. The code relies on it: commit and
release address the row by id alone.

### Agent harness

`HarnessStore.tla` models each request as a transaction. A statement sees
committed rows; a row that another open transaction has written is locked, and a
statement that meets it waits and then evaluates its WHERE again (`ActivateMatch`
is the snapshot, `ActivateArchive` the re-check). What a transaction wrote
appears at its `Commit…`. The two unique indexes act at the statement that
writes the key: the second writer waits for the first and is refused if it
commits. `Start`, `RepairRead`, `RepairArchive`, `AutoMigrate`, `MarkLive`,
`ReleaseOthers` are the boot, which may die between any two of them (`Start`
again) while requests of another server go on. One server boots at a time; two
that start together on one database are not modelled. `Legacy` is the set of tables an
older install may hold, with any number of live versions. `Rollback` covers
failed statements, cancelled requests and dying servers.

`HarnessLifecycle.tla` has one atomic step per operation, and `HarnessStore`
implements it under the mapping that reads off committed status.

### Workforce billing

`WorkforceBilling.tla` has one agent and attempts (`Turns`) at reporting turns
(`TurnIds`): a retry, a duplicate, or a client that reuses a run id is another
attempt with the same id. A chat attempt passes `AuthorizeAgent`,
`AuthorizePrice`, `AuthorizeHalt`, runs, and reports; a runtime attempt only
reports. `RecordSpend` is `ReadClock` (halt switch and clock, before the
transaction), `FindAgent`, `LookupTurn`, `PriceTurn`, `InsertEvent`, `Accrue`,
`CommitSpend`. The accrual is one UPDATE on the stored counter; the read-back
and the pause run under its row lock and are part of the same step. Money is a
natural number and one turn costs one price. Status is reduced to paused or
not: nothing in billing tells `active`, `idle` and `executing` apart.
`Straddle` says whether a month may begin between a report's clock and its
commit. `late`, `since` and `in` are history: the state of the budget when an
attempt began.

### Event spine and reactors

`EventSpine.tla` has the subscriber list, one record per subscription (its
state, its buffered channel, who holds `subMu`) and one per publisher (its
snapshot, and in the slow path what it drained). The critical sections of `spMu`
are single steps. `Publish` takes the snapshot, the whole list; `SendSkip` passes
over a subscription whose filter, which never changes and is read without a lock,
leaves the key out. Under `subMu` a closed or roomy channel is one step; a full
one keeps the lock over `Measure`, `Drain`, `Drop`, `Refill` and `Deliver`,
between which the consumer's `Receive` may fall, as it takes no lock. `cancel` is
`CancelRemove` and `CancelClose`. `got` is history. The buffered
channels are told from a single queue by what the consumer may see: an envelope
taken in the middle of a drain overtakes those in hand. `LineKept` says that
nothing else gets out of order.

`LossyQueue.tla` is the promise to one consumer. `EventSpine` implements it with
`pending` read as channel, hand and the newcomer whose room is made. `Reactor.tla`
extends it: its dispatcher is the consumer (`Take`), publishers are `Offer`,
`cancelSub` is `Close`. The dispatcher, one worker per shard, the `stop` function
and the goroutine that watches the caller's context are processes; a Go `select`
with several ready cases is a choice. The dispatcher asks each reactor of an
envelope for its entity key (`EntityKey`): the envelope's own, or what an
`EntityKeyReactor` extracts, which is taken for a function of the envelope.
Debounce, shard and task go by that key. `Serialized` is therefore about extracted
keys: two reactors that take different keys from one envelope may run for it at
the same time, in the code as in the model. The sweep of old debounce entries changes
no decision and is left out.

### Webhook delivery

`WebhookDelivery.tla`: `Publish` and `Acquire` are the publishing goroutine, which
starts one loop per hook as slots come free; `RecordPending`, `Attempt`, `Note`,
`After`, `Bury` are `deliverWithRetry`; `Replay…` an operator's replay, which takes
no slot and reads whatever row there is (it is an entry point of the package
that no handler calls yet). A receiver may accept and its answer be lost. A
failed update leaves the row as it was, an insert that reports an error may have
happened; without an acknowledged row the loop logs no results; `Crash` ends every loop, and nothing in
the code takes up a pending row again.

### Chat surfaces

`ChatTurn.tla` models one surface, the drawer or the palette (`surface`). Between
two awaits the browser runs one callback to its end, so a step is what happens
between two awaits: `Send` is `handleSend` up to its await, `FetchFails`,
`FetchAnswered`, `RefusalRead`, `Delta`, `Terminal`, `BodyEnds`, `StreamBreaks`
are the ways on through `streamChatResponse`, and `Cut` is its swallowed
AbortError. `at` is the await a turn will come back from; after a stop and a new
send two turns have one. A refused turn that is stopped while the refusal's body
is read still reports it (`RefusalRead`), as the inner `catch` takes the
AbortError for a body that is not JSON. `Close`, `Unmount`, `Mount` are the two
effects; the drawer's store outlives `Unmount`, the palette's state does not
(`Target` too differs: the drawer writes into the last message, the palette into
the turn's own). `orphaned` and `messages[i].from` are history.

### Default agent

`AgentPicker.tla` composes an admin's drawer (`useDefaultAgent`,
`useWorkforceAgents`, the drop effect) with the server's statements and another
admin. Reads and writes are records of where a request is; several of a kind may
be under way and are answered in any order. `due` says that the drop effect has
a changed dependency to look at; React runs it before the next event, so `Pick`
waits for it, while an answer may come first. A failed read of the list changes a
dependency only by `loaded`. `acts` counts what the admins begin (`Act`), to bound
it; answers, effects and failures are not counted there. `ClearFails` is a DeleteAgent that
stops between its two statements; `OtherChecks` and `OtherWrites` are the lookup
and the upsert of SetDefaultAgent.

## 4. Runs

| run | instance | shows |
|---|---|---|
| `Idempotency` | 3 requests, 1 key, 2 bodies, TTL 1, clock 2, 1 fault | types, exclusive claims, faithful replays, `InFlightHeld`, stored responses last, the contract; no key is refused beyond its TTL |
| `Idempotency_second` | 3 requests, no fault | finding: a second execution beside the first |
| `HarnessStore` | 2 transactions, 4 versions, 2 workspaces, 2 boots, three older tables | one live version, adopted lessons, numbering, the newest stays live through the repair, the lifecycle (and with it that the live version and the history are never lost); boots complete and waits form no cycle |
| `WorkforceBilling` | 2 attempts, 2 turn ids, 2 prices, 2 months, 1 operator action, 1 rollback | counter = ledger, pause not missed, exhausted agents refused, answers have rows, no cycle of waits |
| `WorkforceBilling_straddle` | 3 attempts, month's end inside a report | finding: counter and period disagree |
| `EventSpine_order` | 2 publishers, 1 subscription of capacity 2, 4 envelopes, 2 entities | no send on a closed channel, order in line, a lossy queue |
| `EventSpine_live` | 2 publishers, 2 filtered subscriptions of capacity 1 | a publisher returns |
| `Reactor` | 2 reactors, one by the envelope's entity and one by a key of its own, 2 entities, 2 shards of capacity 2, 2 envelopes, clock 3 | serialization per extracted entity key, quiet after stop, a cancelled context ends all goroutines |
| `WebhookDelivery` | 2 deliveries, 1 slot, 2 attempts, 1 replay, 1 fault | true statuses, evidence; every loop ends, every hook is served |
| `ChatTurn` | 3 turns, drawer and palette | answers stay in their turn, one stream and only where it is shown, the spinner ends |
| `AgentPicker` | 2 agents, 1 read of each kind, 2 writes under way, 5 operations of the admins, 1 fault | a dangling default is replaced once a drawer shows it, unless a pick fails beside the drop |
| `AgentPicker_drop` | the same | finding: a default is dropped whose agent is there |

Bounds. The interesting races are between two actors and a third that arrives
late (a second reclaimer, an activation beside a discard and a stage, a retry
beside two turns), so three actors are taken where a property needs the third
(`ExclusiveClaim` does: its mutant is not found with two). Four envelopes are the fewest with which two publishers break the line.
One key, workspace or billed agent is enough where components never relate two of
them; where they do (the repair groups by workspace, a pick puts one agent in the
place of another) there are two. Five operations are the fewest with which a pick
of the second agent fails beside the drop of the first (`DanglingHealed` without
`PickLost` is violated there: a check, two deletions, an opening and the pick);
that admins stop after five bounds the run and is no assumption of the code. The
property is checked for one of the two agents, as `AgentPicker` tells none from
another. The older tables
of `HarnessStore` are two drafts, a published version with a draft, and three
live versions of one workspace around one of another; a draft of an older
install carries a lesson, so that two transactions reach what a third, the
import, would have to prepare. Three turns let a stopped turn's late answer meet
the turn after next. The clock
bound lets every claim expire once and be reclaimed, and the month bound lets
a counter restart. A budget of one fault, operator action or restart puts each
at every place; a second adds states but no new kind of order. `Arrive` stops a
TTL before the end of the clock, so that bounded time never hides an expiry.
Symmetry is used in `EventSpine_order` only, which checks no liveness, on sets
whose members are never compared.

Deadlock is checked for `Idempotency`. The other configurations switch it off:
their requests are finitely many and the system may come to rest.

Every property has a mutant, a plausible bug in one definition (`… ← Mutant of
…` in the modules), under which TLC finds the property violated.

## 5. Fairness

Weak fairness on the steps of a request that is under way (`Serve(r)`,
`Step(t)`), on the boot (`Migrate`) and on the clock (`Tick`): goroutines are
scheduled, statements return, handlers and providers end. Nothing is assumed
of clients, operators, faults, crashes, restarts or Purge. A statement that
waits for a lock is not enabled, so `RequestsEnd` and `TurnsSettle` hold only
because the waits form no cycle and every holder commits.

Strong fairness is used where a lock or a slot is granted in turn although it is
not free all the time: a publisher and `cancel` at `subMu` (`sync.Mutex` hands over
in order once a waiter starves) and a publishing goroutine at `deliverySem` (Go
serves blocked senders first come, first served). Consumers of the spine get no
fairness at all, so `PublishReturns` says that a publisher is not held up by one.
Attempts end by their timeout, reactors by theirs.

In the browser: an await comes back (`Resume(t)` of `ChatTurn`), as a request is
answered or fails and a response body ends or breaks, though perhaps without a
terminal event; in `AgentPicker` a write that was sent is served and answered
(`Write`) and an effect that is due runs (`Effect`). Nothing is assumed of users,
nor that a read is ever asked for again.

## 6. Proofs

`IdempotencyProofs.tla` proves, for any number of requests, keys, bodies, any
TTL and any faults:

- `TypeCorrect`: `Spec => []TypeOK`.
- Under `~MayOutlive`: `Inductive` (`[]IInv`), `ClaimsExclusive`,
  `ReplaysFaithful`, `StoredSticks`, `HeldInFlight`, and `Implements`
  (`Spec => ImplementsContract`).

`ExclusiveClaim` alone is not inductive: a reclaimer that is about to match a
row could match a row that an owner has claimed meanwhile. `IInv` adds that a
keyed request is younger than its TTL (`KeyedInTime`), that an owner's row is
its own claim with its own deadline (`OwnerHoldsRow`), and that what a
reclaimer is about to match had expired when it entered (`ReclaimsExpired`). A
deadline that has passed at a reclaimer's entry cannot be an owner's, which
lies in the future; hence the conditional UPDATE never takes a held key.
`DoneBySuccess` and `AnswersFit` carry the link from a stored response to the
request that produced it. The proof has one lemma per part of the invariant and
one step per action; the refinement maps `holder` to the one owner of a key
and `stored` to the unexpired response. Assumptions are
`IdempotencyAssumption` (evaluated by TLC on each run) and `~MayOutlive`.

`WebhookDeliveryProofs.tla` proves, for any number of events, hooks, replays,
attempts, slots and faults, `Invariant` (`Spec => []IInv`) and from it
`TypeCorrect`, `DeliveredTrue`, `SentEvidence` and `SlotsBound`. None of these
is inductive alone. A status is written a step after the answer, so `IInv` adds
that a success not yet noted was answered (`OkIsAccepted`). Evidence needs that
nothing is sent before the insertion was tried, that a replay works on a row,
and that rows stay (`RowsExist`). `sem \in 0..Slots` needs that a slot that is
given back was taken: `sem` is the number of running loops (`SlotsHeld`), and a
goroutine that takes a slot starts a loop that was idle, as what it has yet to
start is its event's own and each hook once (`Waiting`). The lemmas `RowMove`,
`LoopMove`, `ReplayMove` and `AttemptMove` say what a step may do to a row, a
loop, a replay and the receivers; `IInvStep` puts them together. The assumption
is `DeliveryAssumption`: finitely many deliveries, each of one event and hook.

`ChatTurnProofs.tla` proves, for any number of turns, `Inductive`
(`Spec => []IInv`) and from it `TypeCorrect`, `AnswersStay` and `OneStream`. That
a delta stays in its turn is not inductive: the drawer writes into whichever
message is last. `IInv` adds that a turn that may still write is the one whose
controller the surface holds, on screen and open (`StreamIsCurrent`), and that
the message of that turn is last, if there is any (`LastIsCurrent`): `Send`
aborts what the controller held, and `Close` and `Unmount` abort it as well.

`HarnessStoreProofs.tla` proves every safety property of the store, for any older
table, any number of versions, workspaces, requests and restarts: `Inductive`
(`Spec => []IInv`), and from it `TypeCorrect`, `OneLiveHolds`, `AdoptedHolds`,
`NumbersGrow` (`VersionsGrow`), `RepairKeepsNewest` (`NewestKept`) and the
refinement `StoreImplementsLifecycle` (`ImplementsLifecycle`). What is committed
says too little about what an open transaction will commit, so `IInv` describes
each of them (`TxOK`). One that has published holds its own row and every live row
of its workspace (`Holds`): the UPDATE may have locked fewer, but then the slot of
the row it missed refuses the publish, as the slot marks what is live
(`Migrating`). A number that was read follows one that is there, and once it is
passed it is taken (`Numbered`). Hence two inserts at their commit in one
workspace would carry one number, which the unique index excludes (`OneInserts`).
`Apart` says that open transactions hold different rows and slots, so a commit
leaves the others what they go by (`OthersKeep`). Before the first server serves no
request runs, and what the repair archives is exactly what a newer live version
outdates; afterwards the three migrations change nothing. Only commits and that
repair change a version's owner, number or status (`RowSteps`): each commit is one
operation of the lifecycle, the repair is one, and every other step is none. The assumption is
`HarnessAssumption`. `Greatest` and `LeastNat`, on the greatest number of a
workspace, rest on the well-foundedness of the numbers in the library.

`WorkforceBillingProofs.tla` proves, for any turns, identifiers, prices, limits and
faults, `Inductive` (`Spec => []IInv`), `TypeCorrect`, `AnswersTrue`
(`AnswerHasRow`), `SpentPauses` (`PausedWhenSpent`) and, under `~Straddle`,
`SpentStops` (`SpentNeverRuns`) and `CounterSums` (`CounterCoversPeriod`). A pause is decided from a row that was read some
steps before it is written; `IInv` adds that one transaction at a time holds the
agent row (`OneCommit`) and that what it will write is the accrual to the row as it
stands (`Accruing`), and that a late turn finds the budget spent in the row and in
its own copy of it (`FindsSpent`). That the counter is the sum of its month's
ledger rows needs, beside `IInv`, the parts of `Books`: the charged rows are
finitely many, none is dated after the counter's period, and a turn between its
insert and its commit carries an identifier that no row and no other such turn has.
A commit then adds exactly one row, to the sum and to the counter. The sum is a
recursive function over finite sets; that it satisfies its equation, and does not
depend on the order in which elements are taken, is proved by well-founded
induction on the cardinality (`Solvable`, `Unique`, `SumByOne`), which the provers
can do as the induction is over one fixed relation, the order of the numbers.
`~Straddle` is needed in both: a turn that ends in the
next month resets the counter of the month it is dated in, the subject of the run
`WorkforceBilling_straddle`.

`ReactorProofs.tla` proves, for any reactors, whatever key each extracts
(`EntityKey` is any function), any shards, queue sizes and clock, `Inductive` (`Spec => []IInv`), `TypeCorrect`, `ExecutionsSerialized`
(`Serialized`) and `StopIsFinal` (`QuietAfterStop`). Serialization follows from
where tasks are: every queued or running task is in the shard that the key its own
reactor extracted hashes to (`QueuesOK`, `WorkersOK`), and a shard has one worker. `QuietAfterStop` needs that
the subscription is closed from `cancelSub` on (`Unsubscribed`).

`EventSpineProofs.tla` proves every safety property of the spine, for any
publishers, subscriptions, filters, keys, entities, capacity and number of
envelopes: `Inductive` (`Spec => []IInv`) and from it `TypeCorrect`, `NoClosedSend`
(`NoSendOnClosed`), `LinesKept` (`LineKept`) and the refinement `Queues`
(`ImplementsQueue`). None is inductive alone. `IInv` ties the two sides of `subMu`
together: who is on the slow path holds the lock of its target, and a holder is on
the slow path (`PubOK`, `SubOK`), so cancel cannot close what a publisher still
sends on. It counts the room: what is in hand and what is left to drain fit the
channel, and after the drop there is one place more (`PubOK`), so the refill never
finds the channel full and the loss is the dropped envelope alone. `Tidy` is
stronger than `LineKept`: numbers in a line differ and each publisher's grow, and
nothing in line was received before (`Sound`). A publisher's envelope is newer than
all it ever brought to the subscriptions ahead of it (`Fresh`), which needs that a
snapshot names each once (`Listed`, kept by the swap removal, `SwapRemoveIs`). The
steps are proved by what they may touch: a publisher on its target
(`PublisherStep`, `StayStep`, `OnwardFilled`, `OnwardBeside`) and a subscription
on itself (`SubStep`), everything else being aside (`SubAside`, `PubAside`). Each
step shows to a consumer as one of four: nothing (`Stays`), a newcomer at the price
of at most one envelope (`Offers`), a receipt (`Takes`) or the close (`Closes`);
those are the steps of `LossyQueue`, as what a subscription holds is what is in its
line (`HoldingIsLine`). Drain and refill are `Stays`: they move an envelope between
channel and hand and leave the line as it is (`HeadMoves`). The lemmas on sequences
come first. `Seen` in `StepSeen` names the four. The assumption is
`SpineAssumption`; `Inductive` was checked by TLC on `EventSpine_order` and on two
subscriptions before it was proved.

`AgentPickerProofs.tla` proves `TypeCorrect`, for any agents, requests, operations and faults;
the type invariant is inductive as it stands, by its parts for the server, the
drawer and the requests.

Only model-checked: all liveness, as the prover has no fairness (`KeyNeverStuck`,
`BootCompletes`, `RequestsEnd`, `TurnsSettle`, `PublishReturns`, `CancelEndsAll`,
`EachSettles`, `SpinnerEnds`, `DanglingHealed`). Every safety property of a passing
run is proved, with the action properties and all three refinements. Two
hypotheses stand before some of them: `~MayOutlive`, explained in section 3, and
`~Straddle`, without which `WorkforceBilling_straddle` shows the counter go wrong.

## 7. Findings

1. A repeat may be executed beside the first without any failure, when its
   lookup finds the row released or its reclaim is lost: `claimError` serves
   without de-duplication, while the package comment promises 409.
2. A spend report dated last month that commits after one of this month stamps
   the counter back, and this month's charge is lost to the budget.
3. The drop effect of the Copilot drawer clears the workspace's default although
   its agent exists, when the first read of the list failed or the list is older
   than the agent.

More divergences are in the models but refute no property of a run, as
documents disagree, the promise is loose, or one run more would say little:

- A chat turn whose client is gone is not charged (`ClientGone`): the handler
  returns before the write that was detached from the request for this case
  (`api/ai_stream.go:164-166`); `agent/agui/SPEC.md:57` asks for just that.
- A chat turn has a turn id, chosen by the client (`api/ai_stream.go:534`): a
  second turn under the same run id is answered as a replay and costs nothing,
  while `agentstore/SPEC.md:104-107` says that chat turns have none.
- `DebounceReactor` promises a minimum interval between executions
  (`plugin/reactor.go:27`); the dispatcher measures it between dispatches, and a
  busy shard brings the executions together.
- `Replay` of a delivery whose loop still runs writes `failed`, "the dead-letter
  state" (`eventbus/delivery.go:47-49`), and the loop goes on.

- An imported proposal's lesson is written after the import has committed
  (`internal/api/agent_harness.go:480`); a discard in between leaves it on a
  discarded draft, "a lesson nobody can act on" (`agentstore/harness.go:213-214`).
- Of two overlapping writes of the default agent, the rollback of one shows the
  choice of the other although that one was not kept, while
  `useDefaultAgent.ts:45-46` says "the picker never shows a choice the server did
  not keep". A drop whose write fails is tried again at once, without a pause.
  When a drop and a pick sent beside it both fail, the two rollbacks may end with
  nothing shown before the effect looks: the dangling default then stays on the
  server until a drawer reads it again (`DanglingHealed` excepts this by `PickLost`).
- A stopped turn whose refusal was being read reports it under the next turn: its
  spinner ends and Send is offered while it streams. A second Send aborts it.
- The drawer that is unmounted in mid-stream while open and mounted again shows
  Stop for good (`SpinnerEnds` excepts it as `orphaned`).

Read, but in no module: the lists of links and mails drop a reload that is asked
for while a page loads (`links/pages/index.tsx:93`), so a filter typed in that
moment shows the rows of the one before, and their next page mixes both; a reload
after an archive uses the filter of the click. The board of approvals decides by
the prefixed card id instead of the approval's own
(`agent-harness/BoardApprovalsView.tsx`).

## 8. Not modelled

The content of specs, prices below the unit and rounding; provider calls and
tools; read-only queries; a counter that was never stamped but is above zero
(no path writes one). The components of section 2's second list
are described in `PROJECT.json` and not modelled; nor are migrations other than
the live slot, and retention: they are declarative or sequential.

The web console is some 57,000 lines of TypeScript, most of them translations,
forms, tables and wrappers of one request. Their state is a field until it is
saved; there is nothing in them to interleave and no definition could stand for
more than a handful of lines. Modelled are the two places where it keeps state
across awaits against other actors, the chat turn and the default agent; a
share of all its lines is therefore not a measure this project can raise much.
