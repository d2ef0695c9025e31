-------------------------------- MODULE Reactor --------------------------------
(***************************************************************************)
(* server/internal/eventbus/reactor.go: one dispatcher takes envelopes     *)
(* from its subscription, debounces them and spreads them over shard       *)
(* queues; each shard has one worker; stop ends them all.                  *)
(*                                                                         *)
(* The subscription is a LossyQueue (what EventSpine implements): Offer is *)
(* a publisher, Take the dispatcher's receive, Close its cancellation.     *)
(***************************************************************************)
EXTENDS LossyQueue, SequencesExt

CONSTANTS Spine,        \* the dispatcher's subscription, the one of Queues
          Reactors, Keys, Entities,
          None,         \* no entity
          EntityKey,    \* reactor -> envelope -> the entity it is for
          ByKey,        \* event key -> its reactors in order of registration
          MinInterval,  \* reactor -> its debounce interval, 0 for none
          Shards,       \* number of shards
          Hash,         \* entity -> its shard
          ShardCap,     \* capacity of a shard queue
          MaxEvents,    \* bound on published envelopes
          MaxTime       \* bound on the clock

\* of is the publisher's EntityKey.  A reactor goes by it unless it extracts a
\* key of its own (plugin.EntityKeyReactor), so the reactors of one envelope may
\* each run it for another entity.
Envelope == [n : 1..MaxEvents, key : Keys, of : Entities \cup {None}]
Shard == 0..(Shards - 1)

ASSUME ReactorAssumption ==
    /\ Queues = {Spine} /\ Items = Envelope
    /\ ByKey \in [Keys -> Seq(Reactors) \ {<<>>}]  \* the keys subscribed to
    /\ EntityKey \in [Reactors -> [Envelope -> Entities \cup {None}]]
    /\ MinInterval \in [Reactors -> Nat]
    /\ Shards \in Nat \ {0} /\ Hash \in [Entities -> Shard]
    /\ ShardCap \in Nat \ {0} /\ MaxEvents \in Nat /\ MaxTime \in Nat \ {0}
    /\ None \notin Entities

VARIABLES disp,      \* the dispatcher: where it is, its envelope, the reactors left
          lastFire,  \* reactor -> entity -> when it was last let through, 0 for never
          queue,     \* shard -> its tasks
          worker,    \* shard -> where its worker is and its task
          rr,        \* the round-robin counter
          ctx,       \* is the caller's context cancelled?
          runner,    \* is runnerCtx cancelled?
          watcher,   \* the goroutine that stops when ctx is cancelled
          stopping,  \* where stop() is
          now,       \* the clock
          sent       \* envelopes published so far

engine == <<lastFire, queue, rr>>
control == <<ctx, runner, watcher, stopping>>
vars == <<queueVars, disp, engine, worker, control, now, sent>>

Task == [r : Reactors, n : 1..MaxEvents, of : Entities \cup {None}]

Free == [at |-> "wait", task |-> <<>>]

TypeOK ==
    /\ open[Spine] \in BOOLEAN /\ pending[Spine] \subseteq Envelope /\ taken[Spine] \subseteq Envelope
    /\ disp.at \in {"recv", "work", "gone"} /\ disp.todo \in Seq(Reactors)
    /\ lastFire \in [Reactors -> [Entities -> 0..MaxTime]]
    /\ queue \in [Shard -> Seq(Task)] /\ \A i \in Shard : Len(queue[i]) <= ShardCap
    /\ \A i \in Shard : /\ worker[i].at \in {"wait", "run", "gone"}
                        /\ worker[i].at = "run" => worker[i].task \in Task
    /\ rr \in Shard
    /\ ctx \in BOOLEAN /\ runner \in BOOLEAN /\ watcher \in {"wait", "stop", "gone"}
    /\ stopping \in {"no", "unsubscribe", "wait", "done"}
    /\ now \in 1..MaxTime /\ sent \in 0..MaxEvents

Init ==
    /\ QueueInit
    /\ disp = [at |-> "recv", env |-> <<>>, todo |-> <<>>]
    /\ lastFire = [r \in Reactors |-> [k \in Entities |-> 0]]
    /\ queue = [i \in Shard |-> <<>>]
    /\ worker = [i \in Shard |-> Free]
    /\ rr = 0
    /\ ctx = FALSE /\ runner = FALSE /\ watcher = "wait" /\ stopping = "no"
    /\ now = 1
    /\ sent = 0

--------------------------------------------------------------------------------
\* A publisher; what the subscription loses for it is the spine's choice.
Publish(e) ==
    /\ sent < MaxEvents /\ e.n = sent + 1
    /\ sent' = sent + 1
    /\ IF open[Spine] THEN Offer(Spine, e) ELSE UNCHANGED queueVars
    /\ UNCHANGED <<disp, engine, worker, control, now>>

\* The dispatcher returns: it closes the shard queues as it goes.
Leave == disp' = [disp EXCEPT !.at = "gone", !.todo = <<>>]

DispatchReceive(e) ==
    /\ disp.at = "recv"
    /\ Take(Spine, e)
    /\ disp' = [at |-> "work", env |-> e, todo |-> ByKey[e.key]]
    /\ UNCHANGED <<engine, worker, control, now, sent>>

\* Mutant of DispatchEnds: only a closed subscription ends the dispatcher.
DispatchEndsClosed ==
    /\ disp.at = "recv"
    /\ ~open[Spine] /\ pending[Spine] = {}
    /\ Leave
    /\ UNCHANGED <<queueVars, engine, worker, control, now, sent>>

\* runnerCtx is done, or the subscription is closed and drained.
DispatchEnds ==
    /\ disp.at = "recv"
    /\ runner \/ (~open[Spine] /\ pending[Spine] = {})
    /\ Leave
    /\ UNCHANGED <<queueVars, engine, worker, control, now, sent>>

\* shouldDebounce. Its sweep of entries older than two intervals changes no
\* answer and is left out.
Debounced(r, k) ==
    /\ MinInterval[r] > 0 /\ k # None
    /\ lastFire[r][k] # 0 /\ now - lastFire[r][k] < MinInterval[r]

\* Mutant of Fired: the end of the interval is noted, not its start.
FiredUntil(r, k) ==
    IF MinInterval[r] > 0 /\ k # None THEN [lastFire EXCEPT ![r][k] = now + MinInterval[r]] ELSE lastFire

Fired(r, k) ==
    IF MinInterval[r] > 0 /\ k # None THEN [lastFire EXCEPT ![r][k] = now] ELSE lastFire

\* Mutant of ShardOf: spread by the envelope's entity, not by the reactor's.
ShardByEnvelope(r, env) == IF env.of = None THEN (rr + 1) % Shards ELSE Hash[env.of]

\* The shard of the reactor's entity, or the next in turn.
ShardOf(r, env) == IF EntityKey[r][env] = None THEN (rr + 1) % Shards ELSE Hash[EntityKey[r][env]]

NextReactor == disp' = IF Len(disp.todo) = 1 THEN [disp EXCEPT !.at = "recv", !.todo = <<>>]
                       ELSE [disp EXCEPT !.todo = Tail(@)]

DispatchSuppress ==
    /\ disp.at = "work"
    /\ LET r == Head(disp.todo) IN Debounced(r, EntityKey[r][disp.env])
    /\ NextReactor
    /\ UNCHANGED <<queueVars, engine, worker, control, now, sent>>

\* The firing is noted before the queue is tried; a full queue drops the task.
DispatchTask ==
    /\ disp.at = "work"
    /\ LET r == Head(disp.todo)
           k == EntityKey[r][disp.env]
           i == ShardOf(r, disp.env)
       IN  /\ ~Debounced(r, k)
           /\ lastFire' = Fired(r, k)
           /\ rr' = IF k = None THEN i ELSE rr
           /\ \/ /\ Len(queue[i]) < ShardCap
                 /\ queue' = [queue EXCEPT ![i] = Append(@, [r |-> r, n |-> disp.env.n, of |-> k])]
                 /\ NextReactor
              \/ /\ Len(queue[i]) = ShardCap /\ ~runner
                 /\ UNCHANGED queue
                 /\ NextReactor
              \/ /\ runner
                 /\ UNCHANGED queue
                 /\ Leave
    /\ UNCHANGED <<queueVars, worker, control, now, sent>>
--------------------------------------------------------------------------------
\* A task is taken from the queue and executed, unless runnerCtx is done.
WorkerStarts(i) ==
    /\ worker[i].at = "wait"
    /\ queue[i] # <<>>
    /\ ~runner
    /\ LET task == Head(queue[i])
       IN  /\ queue' = [queue EXCEPT ![i] = Tail(@)]
           /\ worker' = [worker EXCEPT ![i] = [at |-> "run", task |-> task]]
    /\ UNCHANGED <<queueVars, disp, lastFire, rr, control, now, sent>>

\* React returned, failed, panicked or ran into its timeout.
WorkerReturns(i) ==
    /\ worker[i].at = "run"
    /\ worker' = [worker EXCEPT ![i] = Free]
    /\ UNCHANGED <<queueVars, disp, engine, control, now, sent>>

\* runnerCtx is done (with or without a task), or the queue is closed and empty.
WorkerEnds(i) ==
    /\ worker[i].at = "wait"
    /\ runner \/ (disp.at = "gone" /\ queue[i] = <<>>)
    /\ worker' = [worker EXCEPT ![i].at = "gone"]
    /\ UNCHANGED <<queueVars, disp, engine, control, now, sent>>
--------------------------------------------------------------------------------
\* The caller's context ends, and runnerCtx with it.
CancelContext ==
    /\ ~ctx
    /\ ctx' = TRUE /\ runner' = TRUE
    /\ UNCHANGED <<queueVars, disp, engine, worker, watcher, stopping, now, sent>>

\* stop(), by the caller or by the watcher: runnerCancel first, ...
StopCancels ==
    /\ stopping' = "unsubscribe"
    /\ runner' = TRUE
    /\ UNCHANGED <<queueVars, disp, engine, worker, ctx, now, sent>>

CallerStops == stopping = "no" /\ StopCancels /\ UNCHANGED watcher

\* Both of the watcher's cases are ready once ctx is cancelled: it may stop the
\* engine or, seeing runnerCtx done, just return. Through stopOnce it waits
\* for a stop that is already under way.
WatcherStops ==
    /\ watcher = "wait" /\ ctx
    /\ watcher' = "stop"
    /\ IF stopping = "no" THEN StopCancels
       ELSE UNCHANGED <<queueVars, disp, engine, worker, ctx, runner, stopping, now, sent>>

WatcherReturns ==
    /\ (watcher = "wait" /\ runner) \/ (watcher = "stop" /\ stopping = "done")
    /\ watcher' = "gone"
    /\ UNCHANGED <<queueVars, disp, engine, worker, ctx, runner, stopping, now, sent>>

\* ... then cancelSub, ...
StopUnsubscribes ==
    /\ stopping = "unsubscribe"
    /\ stopping' = "wait"
    /\ Close(Spine)
    /\ UNCHANGED <<disp, engine, worker, ctx, runner, watcher, now, sent>>

\* Mutant of StopWaits: the dispatcher alone is waited for.
StopWaitsDispatcher ==
    /\ stopping = "wait"
    /\ disp.at = "gone"
    /\ stopping' = "done"
    /\ UNCHANGED <<queueVars, disp, engine, worker, ctx, runner, watcher, now, sent>>

\* ... then wg.Wait.
StopWaits ==
    /\ stopping = "wait"
    /\ disp.at = "gone" /\ \A i \in Shard : worker[i].at = "gone"
    /\ stopping' = "done"
    /\ UNCHANGED <<queueVars, disp, engine, worker, ctx, runner, watcher, now, sent>>

Tick ==
    /\ now < MaxTime
    /\ now' = now + 1
    /\ UNCHANGED <<queueVars, disp, engine, worker, control, sent>>

Dispatcher == (\E e \in Envelope : DispatchReceive(e)) \/ DispatchEnds \/ DispatchSuppress \/ DispatchTask
Worker(i) == WorkerStarts(i) \/ WorkerReturns(i) \/ WorkerEnds(i)
Stop == StopUnsubscribes \/ StopWaits
Watcher == WatcherStops \/ WatcherReturns

Next ==
    \/ \E e \in Envelope : Publish(e)
    \/ Dispatcher
    \/ \E i \in Shard : Worker(i)
    \/ CancelContext \/ CallerStops \/ Stop \/ Watcher
    \/ Tick

Spec == Init /\ [][Next]_vars

\* Goroutines are scheduled and React returns within its timeout; publishers,
\* the caller and its context are free.
FairSpec ==
    /\ Spec
    /\ WF_vars(Dispatcher) /\ WF_vars(Stop) /\ WF_vars(Watcher)
    /\ \A i \in Shard : WF_vars(Worker(i))
--------------------------------------------------------------------------------
\* "strict per-entity serialization": no two executions overlap whose reactors
\* extract the same entity key, from whichever envelopes.  Executions of one
\* envelope overlap where its reactors extract different keys.
Serialized ==
    \A i, j \in Shard :
        i # j /\ worker[i].at = "run" /\ worker[j].at = "run" =>
            worker[i].task.of # worker[j].task.of \/ worker[i].task.of = None

\* Once stop has returned nothing is executed, received or subscribed.
QuietAfterStop ==
    stopping = "done" =>
        /\ ~open[Spine] /\ disp.at = "gone"
        /\ \A i \in Shard : worker[i].at = "gone"

\* A cancelled context ends every goroutine, also when nobody calls stop (the
\* server discards the function that StartReactors returns).
CancelEndsAll ==
    ctx ~> disp.at = "gone" /\ watcher = "gone" /\ \A i \in Shard : worker[i].at = "gone"
================================================================================
