---------------------------- MODULE ReactorProofs ----------------------------
(***************************************************************************)
(* Proofs about Reactor, for any reactors, keys that they extract, shards  *)
(* and bounds: no two executions for one extracted entity key overlap, and *)
(* nothing outlives stop.                                                  *)
(***************************************************************************)
EXTENDS Reactor, TLAPS

\* A shard's tasks are for entities that hash to it, or for none.  The entity is
\* the one the task's reactor extracted.
Placed(task, i) == task.of # None => Hash[task.of] = i

SpineOK ==
    /\ open \in [Queues -> BOOLEAN]
    /\ pending \in [Queues -> SUBSET Envelope] /\ taken \in [Queues -> SUBSET Envelope]

DispOK ==
    /\ disp \in [at : {"recv", "work", "gone"}, env : Envelope \cup {<<>>}, todo : Seq(Reactors)]
    /\ disp.at = "work" => disp.env \in Envelope /\ disp.todo # <<>>

FiringOK == lastFire \in [Reactors -> [Entities -> 0..MaxTime]] /\ rr \in Shard

QueuesOK ==
    /\ queue \in [Shard -> Seq(Task)]
    /\ \A i \in Shard :
          Len(queue[i]) <= ShardCap /\ \A n \in DOMAIN queue[i] : Placed(queue[i][n], i)

WorkersOK ==
    /\ worker \in [Shard -> [at : {"wait", "run", "gone"}, task : Task \cup {<<>>}]]
    /\ \A i \in Shard :
          worker[i].at = "run" => worker[i].task \in Task /\ Placed(worker[i].task, i)

ControlOK ==
    /\ ctx \in BOOLEAN /\ runner \in BOOLEAN /\ watcher \in {"wait", "stop", "gone"}
    /\ stopping \in {"no", "unsubscribe", "wait", "done"}
    /\ now \in 1..MaxTime /\ sent \in 0..MaxEvents

\* From cancelSub on the subscription is closed.
Unsubscribed == stopping \in {"wait", "done"} => ~open[Spine]

IInv ==
    /\ SpineOK /\ DispOK /\ FiringOK /\ QueuesOK /\ WorkersOK /\ ControlOK
    /\ Unsubscribed /\ QuietAfterStop

-----------------------------------------------------------------------------
\* Every reactor has an entity, or none, for every envelope.
LEMMA EntityKeyTyped ==
    ASSUME NEW r \in Reactors, NEW env \in Envelope
    PROVE  EntityKey[r][env] \in Entities \cup {None}
BY ReactorAssumption

\* And a shard, where a task for that entity belongs.
LEMMA ShardOfTyped ==
    ASSUME FiringOK, NEW r \in Reactors, NEW env \in Envelope
    PROVE  ShardOf(r, env) \in Shard
<1>1. CASE EntityKey[r][env] = None
  <2>1. rr \in Nat /\ Shards \in Nat /\ Shards > 0
    BY ReactorAssumption DEF FiringOK, Shard
  <2>2. (rr + 1) % Shards \in 0..(Shards - 1) BY <2>1, SMTT(30)
  <2> QED BY <1>1, <2>2 DEF ShardOf, Shard
<1>2. CASE EntityKey[r][env] # None
  <2>1. EntityKey[r][env] \in Entities BY <1>2, EntityKeyTyped
  <2> QED BY <1>2, <2>1, ReactorAssumption DEF ShardOf
<1> QED BY <1>1, <1>2

\* The dispatcher goes on to the next reactor, or back to its subscription.
LEMMA NextReactorKeeps ==
    ASSUME DispOK, disp.at = "work", NextReactor
    PROVE  DispOK'
<1>1. disp.todo \in Seq(Reactors) /\ disp.todo # <<>> /\ disp.env \in Envelope BY DEF DispOK
<1>2. CASE Len(disp.todo) = 1
  <2>1. disp' = [disp EXCEPT !.at = "recv", !.todo = <<>>] BY <1>2 DEF NextReactor
  <2>2. <<>> \in Seq(Reactors) OBVIOUS
  <2>3. disp' \in [at : {"recv", "work", "gone"}, env : Envelope \cup {<<>>}, todo : Seq(Reactors)]
    BY <2>1, <2>2 DEF DispOK
  <2>4. disp'.at = "recv" BY <2>1 DEF DispOK
  <2> QED BY <2>3, <2>4 DEF DispOK
<1>3. CASE Len(disp.todo) # 1
  <2>1. disp' = [disp EXCEPT !.todo = Tail(disp.todo)] BY <1>3 DEF NextReactor
  <2>2. Tail(disp.todo) \in Seq(Reactors) /\ Tail(disp.todo) # <<>>
    <3>1. PICK s \in Seq(Reactors) : s = disp.todo BY <1>1
    <3>2. s # <<>> /\ Len(s) # 1 BY <1>1, <1>3, <3>1
    <3>3. Len(s) \in Nat /\ Len(s) # 0 BY <3>2
    <3>4. Tail(s) \in Seq(Reactors) /\ Len(Tail(s)) = Len(s) - 1 BY <3>2
    <3>5. Len(Tail(s)) # 0 BY <3>2, <3>3, <3>4
    <3>6. Len(<<>>) = 0 OBVIOUS
    <3>7. Tail(s) # <<>> BY <3>5, <3>6, Zenon
    <3> QED BY <3>1, <3>4, <3>7
  <2>3. disp' \in [at : {"recv", "work", "gone"}, env : Envelope \cup {<<>>}, todo : Seq(Reactors)]
    BY <2>1, <2>2 DEF DispOK
  <2>4. disp'.env = disp.env /\ disp'.todo = Tail(disp.todo) BY <2>1 DEF DispOK
  <2> QED BY <1>1, <2>2, <2>3, <2>4 DEF DispOK
<1> QED BY <1>2, <1>3

LEMMA LeaveKeeps ==
    ASSUME DispOK, Leave
    PROVE  DispOK' /\ disp'.at = "gone"
<1>1. disp' = [disp EXCEPT !.at = "gone", !.todo = <<>>] BY DEF Leave
<1>2. <<>> \in Seq(Reactors) OBVIOUS
<1>3. disp' \in [at : {"recv", "work", "gone"}, env : Envelope \cup {<<>>}, todo : Seq(Reactors)]
  BY <1>1, <1>2 DEF DispOK
<1>4. disp'.at = "gone" BY <1>1 DEF DispOK
<1> QED BY <1>3, <1>4 DEF DispOK

\* A task that is appended to its own shard's queue.
LEMMA AppendKeeps ==
    ASSUME QueuesOK, NEW i \in Shard, NEW task \in Task, Placed(task, i),
           Len(queue[i]) < ShardCap,
           queue' = [queue EXCEPT ![i] = Append(queue[i], task)]
    PROVE  QueuesOK'
<1> DEFINE q == Append(queue[i], task)
<1>1. queue[i] \in Seq(Task) BY DEF QueuesOK
<1>2. q \in Seq(Task) /\ Len(q) = Len(queue[i]) + 1 BY <1>1
<1>3. \A n \in DOMAIN q : (n \in DOMAIN queue[i] /\ q[n] = queue[i][n]) \/ q[n] = task BY <1>1
<1>4. Len(q) <= ShardCap BY <1>1, <1>2, ReactorAssumption
<1>5. queue' \in [Shard -> Seq(Task)] BY <1>2 DEF QueuesOK
<1>6. \A n \in DOMAIN q : Placed(q[n], i) BY <1>3 DEF QueuesOK
<1>7. queue'[i] = q BY DEF QueuesOK
<1>8. \A j \in Shard \ {i} : queue'[j] = queue[j] BY DEF QueuesOK
<1> HIDE DEF q
<1> SUFFICES ASSUME NEW j \in Shard
             PROVE  Len(queue'[j]) <= ShardCap /\ \A n \in DOMAIN queue'[j] : Placed(queue'[j][n], j)
  BY <1>5 DEF QueuesOK, Placed
<1>9. CASE j = i BY <1>4, <1>6, <1>7, <1>9
<1>10. CASE j # i BY <1>8, <1>10 DEF QueuesOK
<1> QED BY <1>9, <1>10

-----------------------------------------------------------------------------
\* What a step leaves alone keeps its part of the invariant.
LEMMA Kept ==
    ASSUME IInv
    PROVE  /\ UNCHANGED queueVars => SpineOK'
           /\ UNCHANGED disp => DispOK'
           /\ UNCHANGED <<lastFire, rr>> => FiringOK'
           /\ UNCHANGED queue => QueuesOK'
           /\ UNCHANGED worker => WorkersOK'
           /\ UNCHANGED <<control, now, sent>> => ControlOK'
<1>1. UNCHANGED queueVars => SpineOK' BY DEF IInv, SpineOK, queueVars
<1>2. UNCHANGED disp => DispOK' BY DEF IInv, DispOK
<1>3. UNCHANGED <<lastFire, rr>> => FiringOK' BY DEF IInv, FiringOK
<1>4. UNCHANGED queue => QueuesOK' BY DEF IInv, QueuesOK, Placed
<1>5. UNCHANGED worker => WorkersOK' BY DEF IInv, WorkersOK, Placed
<1>6. UNCHANGED <<control, now, sent>> => ControlOK' BY DEF IInv, ControlOK, control
<1> QED BY <1>1, <1>2, <1>3, <1>4, <1>5, <1>6

\* What is over stays over: the spine once closed, the dispatcher and the
\* workers once gone.
LEMMA QuietKept ==
    ASSUME IInv, stopping' = stopping,
           open' = open,
           disp.at = "gone" => UNCHANGED disp,
           \A i \in Shard : worker[i].at = "gone" => worker'[i].at = "gone"
    PROVE  Unsubscribed' /\ QuietAfterStop'
BY DEF IInv, Unsubscribed, QuietAfterStop
-----------------------------------------------------------------------------
LEMMA PublishKeeps ==
    ASSUME IInv, NEW e \in Envelope, Publish(e)
    PROVE  IInv'
<1>1. /\ open' = open /\ sent' = sent + 1 /\ sent < MaxEvents
      /\ UNCHANGED <<disp, lastFire, queue, rr, worker, ctx, runner, watcher, stopping, now>>
  BY DEF Publish, Offer, queueVars, engine, control
<1>2. SpineOK'
  <2>1. CASE open[Spine]
    <3>1. PICK victims \in {{}} \cup {{v} : v \in pending[Spine]} :
             pending' = [pending EXCEPT ![Spine] = (pending[Spine] \ victims) \cup {e}]
      BY <2>1 DEF Publish, Offer
    <3>2. taken' = taken /\ open' = open BY <2>1 DEF Publish, Offer
    <3> QED BY <3>1, <3>2, ReactorAssumption DEF IInv, SpineOK
  <2>2. CASE ~open[Spine] BY <2>2 DEF Publish, IInv, SpineOK, queueVars
  <2> QED BY <2>1, <2>2
<1>3. ControlOK' BY <1>1, ReactorAssumption DEF IInv, ControlOK
<1>4. Unsubscribed' /\ QuietAfterStop' BY <1>1, QuietKept
<1> QED BY <1>1, <1>2, <1>3, <1>4, Kept DEF IInv

LEMMA ReceiveKeeps ==
    ASSUME IInv, NEW e \in Envelope, DispatchReceive(e)
    PROVE  IInv'
<1>1. /\ open' = open /\ disp.at = "recv"
      /\ pending' = [pending EXCEPT ![Spine] = @ \ {e}]
      /\ taken' = [taken EXCEPT ![Spine] = @ \cup {e}]
      /\ disp' = [at |-> "work", env |-> e, todo |-> ByKey[e.key]]
      /\ UNCHANGED <<lastFire, queue, rr, worker, control, now, sent>>
  BY DEF DispatchReceive, Take, engine
<1>2. SpineOK' BY <1>1, ReactorAssumption DEF IInv, SpineOK
<1>3. DispOK'
  <2>1. ByKey[e.key] \in Seq(Reactors) \ {<<>>} BY ReactorAssumption DEF Envelope
  <2> QED BY <1>1, <2>1 DEF DispOK
<1>4. stopping' = stopping BY <1>1 DEF control
<1>5. Unsubscribed' /\ QuietAfterStop' BY <1>1, <1>4, QuietKept
<1> QED BY <1>1, <1>2, <1>3, <1>5, Kept DEF IInv

\* A step of the dispatcher after it has received.
LEMMA DispatchKeeps ==
    ASSUME IInv, DispOK', FiringOK', QueuesOK', disp.at # "gone",
           UNCHANGED <<queueVars, worker, control, now, sent>>
    PROVE  IInv'
<1>1. open' = open /\ stopping' = stopping /\ worker' = worker BY DEF queueVars, control
<1>2. Unsubscribed' /\ QuietAfterStop' BY <1>1, QuietKept
<1> QED BY <1>1, <1>2, Kept DEF IInv

LEMMA TaskKeeps ==
    ASSUME IInv, DispatchTask
    PROVE  IInv'
<1> DEFINE r == Head(disp.todo)
           k == EntityKey[r][disp.env]
           i == ShardOf(r, disp.env)
           task == [r |-> r, n |-> disp.env.n, of |-> k]
<1>1. disp.at = "work" /\ disp.env \in Envelope /\ disp.todo \in Seq(Reactors) /\ disp.todo # <<>>
  BY DEF DispatchTask, IInv, DispOK
<1>2. r \in Reactors BY <1>1
<1>3. i \in Shard BY <1>1, <1>2, ShardOfTyped DEF IInv
<1>4. k \in Entities \cup {None} /\ disp.env.n \in 1..MaxEvents
  BY <1>1, <1>2, EntityKeyTyped DEF Envelope
<1>5. task \in Task BY <1>2, <1>4 DEF Task
<1>6. Placed(task, i) BY <1>5 DEF Placed, ShardOf
<1>7. FiringOK'
  <2>1. rr' \in Shard BY <1>3 DEF DispatchTask, IInv, FiringOK
  <2>2. now \in 0..MaxTime BY ReactorAssumption DEF IInv, ControlOK
  <2>3. lastFire' \in {lastFire, [lastFire EXCEPT ![r][k] = now]} /\ (lastFire' # lastFire => k # None)
    BY DEF DispatchTask, Fired
  <2>4. lastFire' \in [Reactors -> [Entities -> 0..MaxTime]]
    <3>1. CASE lastFire' = lastFire BY <3>1 DEF IInv, FiringOK
    <3>2. CASE lastFire' # lastFire
      <4>1. k \in Entities BY <1>4, <2>3, <3>2
      <4>2. lastFire' = [lastFire EXCEPT ![r][k] = now] BY <2>3, <3>2
      <4> QED BY <1>2, <2>2, <4>1, <4>2 DEF IInv, FiringOK
    <3> QED BY <3>1, <3>2
  <2> QED BY <2>1, <2>4 DEF FiringOK
<1>8. CASE /\ Len(queue[i]) < ShardCap
           /\ queue' = [queue EXCEPT ![i] = Append(@, task)]
           /\ NextReactor
  <2>1. QueuesOK' BY <1>3, <1>5, <1>6, <1>8, AppendKeeps DEF IInv
  <2>2. DispOK' BY <1>1, <1>8, NextReactorKeeps DEF IInv
  <2> QED BY <1>1, <1>7, <2>1, <2>2, DispatchKeeps DEF DispatchTask
<1>9. CASE queue' = queue /\ NextReactor
  <2>1. QueuesOK' BY <1>9, Kept
  <2>2. DispOK' BY <1>1, <1>9, NextReactorKeeps DEF IInv
  <2> QED BY <1>1, <1>7, <2>1, <2>2, DispatchKeeps DEF DispatchTask
<1>10. CASE queue' = queue /\ Leave
  <2>1. QueuesOK' BY <1>10, Kept
  <2>2. DispOK' BY <1>10, LeaveKeeps DEF IInv
  <2> QED BY <1>1, <1>7, <2>1, <2>2, DispatchKeeps DEF DispatchTask
<1> QED BY <1>8, <1>9, <1>10 DEF DispatchTask

LEMMA DispatcherKeeps ==
    ASSUME IInv, Dispatcher
    PROVE  IInv'
<1>1. CASE \E e \in Envelope : DispatchReceive(e) BY <1>1, ReceiveKeeps
<1>2. CASE DispatchEnds
  <2>1. DispOK' BY <1>2, LeaveKeeps DEF DispatchEnds, IInv
  <2>2. FiringOK' /\ QueuesOK' BY <1>2, Kept DEF DispatchEnds, engine
  <2>3. disp.at # "gone" /\ UNCHANGED <<queueVars, worker, control, now, sent>> BY <1>2 DEF DispatchEnds
  <2> QED BY <2>1, <2>2, <2>3, DispatchKeeps
<1>3. CASE DispatchSuppress
  <2>1. DispOK' BY <1>3, NextReactorKeeps DEF DispatchSuppress, IInv
  <2>2. FiringOK' /\ QueuesOK' BY <1>3, Kept DEF DispatchSuppress, engine
  <2>3. disp.at # "gone" /\ UNCHANGED <<queueVars, worker, control, now, sent>>
    BY <1>3 DEF DispatchSuppress
  <2> QED BY <2>1, <2>2, <2>3, DispatchKeeps
<1>4. CASE DispatchTask BY <1>4, TaskKeeps
<1> QED BY <1>1, <1>2, <1>3, <1>4 DEF Dispatcher
-----------------------------------------------------------------------------
\* A step that moves the worker of shard i from where it was.
LEMMA WorkerMoves ==
    ASSUME IInv, NEW i \in Shard, worker[i].at # "gone",
           NEW w \in [at : {"wait", "run", "gone"}, task : Task \cup {<<>>}],
           w.at = "run" => w.task \in Task /\ Placed(w.task, i),
           worker' = [worker EXCEPT ![i] = w], QueuesOK',
           UNCHANGED <<queueVars, disp, lastFire, rr, control, now, sent>>
    PROVE  IInv'
<1>1. worker \in [Shard -> [at : {"wait", "run", "gone"}, task : Task \cup {<<>>}]]
  BY DEF IInv, WorkersOK
<1>2. worker' \in [Shard -> [at : {"wait", "run", "gone"}, task : Task \cup {<<>>}]] BY <1>1
<1>3. worker'[i] = w /\ \A j \in Shard \ {i} : worker'[j] = worker[j] BY <1>1
<1>4. WorkersOK'
  <2> SUFFICES ASSUME NEW j \in Shard, worker'[j].at = "run"
               PROVE  worker'[j].task \in Task /\ Placed(worker'[j].task, j)
    BY <1>2 DEF WorkersOK, Placed
  <2>1. CASE j = i BY <1>3, <2>1
  <2>2. CASE j # i BY <1>3, <2>2 DEF IInv, WorkersOK
  <2> QED BY <2>1, <2>2
<1>5. Unsubscribed' /\ QuietAfterStop'
  <2>1. \A j \in Shard : worker[j].at = "gone" => worker'[j].at = "gone" BY <1>3
  <2>2. open' = open /\ stopping' = stopping BY DEF queueVars, control
  <2> QED BY <2>1, <2>2, QuietKept
<1> QED BY <1>4, <1>5, Kept DEF IInv

LEMMA WorkerKeeps ==
    ASSUME IInv, NEW i \in Shard, Worker(i)
    PROVE  IInv'
<1>0. worker[i] \in [at : {"wait", "run", "gone"}, task : Task \cup {<<>>}] BY DEF IInv, WorkersOK
<1>1. CASE WorkerStarts(i)
  <2> DEFINE task == Head(queue[i])
             w == [at |-> "run", task |-> task]
  <2>1. queue[i] \in Seq(Task) /\ queue[i] # <<>> BY <1>1 DEF WorkerStarts, IInv, QueuesOK
  <2>2. task \in Task /\ 1 \in DOMAIN queue[i] /\ task = queue[i][1] BY <2>1
  <2>3. Placed(task, i) BY <2>2 DEF IInv, QueuesOK
  <2>4. /\ Tail(queue[i]) \in Seq(Task) /\ Len(Tail(queue[i])) < Len(queue[i])
        /\ \A n \in DOMAIN Tail(queue[i]) :
              n + 1 \in DOMAIN queue[i] /\ Tail(queue[i])[n] = queue[i][n + 1]
    BY <2>1
  <2>5. queue' = [queue EXCEPT ![i] = Tail(queue[i])] BY <1>1 DEF WorkerStarts
  <2>6. queue' \in [Shard -> Seq(Task)] BY <2>4, <2>5 DEF IInv, QueuesOK
  <2>7. queue'[i] = Tail(queue[i]) /\ \A j \in Shard \ {i} : queue'[j] = queue[j]
    BY <2>5 DEF IInv, QueuesOK
  <2>8. Len(Tail(queue[i])) <= ShardCap
    BY <2>1, <2>4, ReactorAssumption DEF IInv, QueuesOK
  <2>9. \A n \in DOMAIN Tail(queue[i]) : Placed(Tail(queue[i])[n], i) BY <2>4 DEF IInv, QueuesOK
  <2>10. QueuesOK'
    <3> SUFFICES ASSUME NEW j \in Shard
                 PROVE  Len(queue'[j]) <= ShardCap /\ \A n \in DOMAIN queue'[j] : Placed(queue'[j][n], j)
      BY <2>6 DEF QueuesOK, Placed
    <3>1. CASE j = i BY <2>7, <2>8, <2>9, <3>1
    <3>2. CASE j # i BY <2>7, <3>2 DEF IInv, QueuesOK
    <3> QED BY <3>1, <3>2
  <2>11. w \in [at : {"wait", "run", "gone"}, task : Task \cup {<<>>}] BY <2>2
  <2>12. /\ worker[i].at # "gone" /\ worker' = [worker EXCEPT ![i] = w]
         /\ UNCHANGED <<queueVars, disp, lastFire, rr, control, now, sent>>
    BY <1>1 DEF WorkerStarts
  <2>13. w.at = "run" => w.task \in Task /\ Placed(w.task, i) BY <2>2, <2>3
  <2> HIDE DEF w
  <2> QED BY <2>10, <2>11, <2>12, <2>13, WorkerMoves
<1>2. CASE WorkerReturns(i)
  <2>1. Free \in [at : {"wait", "run", "gone"}, task : Task \cup {<<>>}] /\ Free.at # "run" BY DEF Free
  <2>2. /\ worker[i].at # "gone" /\ worker' = [worker EXCEPT ![i] = Free]
        /\ UNCHANGED <<queueVars, disp, lastFire, rr, control, now, sent>> /\ QueuesOK'
    BY <1>2, Kept DEF WorkerReturns, engine
  <2> QED BY <2>1, <2>2, WorkerMoves
<1>3. CASE WorkerEnds(i)
  <2> DEFINE w == [worker[i] EXCEPT !.at = "gone"]
  <2>1. w \in [at : {"wait", "run", "gone"}, task : Task \cup {<<>>}] /\ w.at # "run" BY <1>0
  <2>2. /\ worker[i].at # "gone" /\ worker' = [worker EXCEPT ![i] = w]
        /\ UNCHANGED <<queueVars, disp, lastFire, rr, control, now, sent>> /\ QueuesOK'
    BY <1>3, Kept DEF WorkerEnds, engine
  <2> HIDE DEF w
  <2> QED BY <2>1, <2>2, WorkerMoves
<1> QED BY <1>1, <1>2, <1>3 DEF Worker
-----------------------------------------------------------------------------
\* Cancelling and stopping touch the control variables; cancelSub closes the
\* spine, and wg.Wait is passed when all are gone.
LEMMA ControlKeeps ==
    ASSUME IInv, CancelContext \/ CallerStops \/ Stop \/ Watcher \/ Tick
    PROVE  IInv'
<1>1. CASE StopUnsubscribes
  <2>1. /\ stopping' = "wait" /\ open' = [open EXCEPT ![Spine] = FALSE]
        /\ UNCHANGED <<pending, taken, disp, lastFire, rr, queue, worker, ctx, runner, watcher, now, sent>>
    BY <1>1 DEF StopUnsubscribes, Close, engine
  <2>2. SpineOK' /\ ~open'[Spine] BY <2>1, ReactorAssumption DEF IInv, SpineOK
  <2>3. ControlOK' BY <2>1 DEF IInv, ControlOK
  <2>4. Unsubscribed' /\ QuietAfterStop' BY <2>1, <2>2 DEF Unsubscribed, QuietAfterStop
  <2> QED BY <2>1, <2>2, <2>3, <2>4, Kept DEF IInv
<1>2. CASE StopWaits
  <2>1. /\ stopping = "wait" /\ stopping' = "done"
        /\ disp.at = "gone" /\ \A i \in Shard : worker[i].at = "gone"
        /\ UNCHANGED <<queueVars, disp, lastFire, rr, queue, worker, ctx, runner, watcher, now, sent>>
    BY <1>2 DEF StopWaits, engine
  <2>2. ControlOK' BY <2>1 DEF IInv, ControlOK
  <2>3. Unsubscribed' /\ QuietAfterStop'
    BY <2>1 DEF IInv, Unsubscribed, QuietAfterStop, queueVars
  <2> QED BY <2>1, <2>2, <2>3, Kept DEF IInv
<1>3. CASE CancelContext \/ CallerStops \/ Watcher \/ Tick
  <2>1. /\ stopping' = stopping \/ stopping' = "unsubscribe"
        /\ ctx' \in {ctx, TRUE} /\ runner' \in {runner, TRUE}
        /\ watcher' \in {"wait", "stop", "gone"}
        /\ now' = now \/ (now < MaxTime /\ now' = now + 1)
        /\ UNCHANGED <<queueVars, disp, lastFire, rr, queue, worker, sent>>
    BY <1>3 DEF IInv, ControlOK, CancelContext, CallerStops, StopCancels, Watcher, WatcherStops,
                WatcherReturns, Tick, engine, control
  <2>2. ControlOK'
    <3>1. MaxTime \in Nat BY ReactorAssumption
    <3>2. now' \in 1..MaxTime BY <2>1, <3>1 DEF IInv, ControlOK
    <3> QED BY <2>1, <3>2 DEF IInv, ControlOK
  <2>3. Unsubscribed' /\ QuietAfterStop'
    BY <2>1 DEF IInv, Unsubscribed, QuietAfterStop, queueVars
  <2> QED BY <2>1, <2>2, <2>3, Kept DEF IInv
<1> QED BY <1>1, <1>2, <1>3 DEF Stop
-----------------------------------------------------------------------------
LEMMA InitEstablishes ==
    ASSUME Init
    PROVE  IInv
<1>1. SpineOK BY ReactorAssumption DEF Init, QueueInit, SpineOK
<1>2. DispOK
  <2>1. <<>> \in Seq(Reactors) OBVIOUS
  <2> QED BY <2>1 DEF Init, DispOK
<1>3. FiringOK
  <2>1. 0 \in Shard /\ 0 \in 0..MaxTime BY ReactorAssumption DEF Shard
  <2> QED BY <2>1 DEF Init, FiringOK
<1>4. QueuesOK
  <2>1. <<>> \in Seq(Task) /\ Len(<<>>) = 0 /\ DOMAIN <<>> = {} OBVIOUS
  <2>2. 0 <= ShardCap BY ReactorAssumption
  <2> QED BY <2>1, <2>2 DEF Init, QueuesOK
<1>5. WorkersOK BY DEF Init, WorkersOK, Free
<1>6. ControlOK
  <2>1. 1 \in 1..MaxTime /\ 0 \in 0..MaxEvents BY ReactorAssumption
  <2> QED BY <2>1 DEF Init, ControlOK
<1>7. Unsubscribed /\ QuietAfterStop BY DEF Init, Unsubscribed, QuietAfterStop
<1> QED BY <1>1, <1>2, <1>3, <1>4, <1>5, <1>6, <1>7 DEF IInv

LEMMA StutterKeeps ==
    ASSUME IInv, UNCHANGED vars
    PROVE  IInv'
<1>1. UNCHANGED <<queueVars, disp, lastFire, rr, queue, worker, control, now, sent>> BY DEF vars, engine
<1>2. open' = open /\ stopping' = stopping /\ disp' = disp /\ worker' = worker
  BY <1>1 DEF queueVars, control
<1>3. Unsubscribed' /\ QuietAfterStop' BY <1>2, QuietKept
<1> QED BY <1>1, <1>3, Kept DEF IInv

\* The invariant holds in every reachable state, whatever the constants.
THEOREM Inductive == Spec => []IInv
<1>1. Init => IInv BY InitEstablishes
<1>2. IInv /\ [Next]_vars => IInv'
  <2> SUFFICES ASSUME IInv, [Next]_vars PROVE IInv' OBVIOUS
  <2>1. ASSUME NEW e \in Envelope, Publish(e) PROVE IInv' BY <2>1, PublishKeeps
  <2>2. CASE Dispatcher BY <2>2, DispatcherKeeps
  <2>3. ASSUME NEW i \in Shard, Worker(i) PROVE IInv' BY <2>3, WorkerKeeps
  <2>4. CASE CancelContext \/ CallerStops \/ Stop \/ Watcher \/ Tick BY <2>4, ControlKeeps
  <2>5. CASE UNCHANGED vars BY <2>5, StutterKeeps
  <2> QED BY <2>1, <2>2, <2>3, <2>4, <2>5 DEF Next
<1> QED BY <1>1, <1>2, PTL DEF Spec

\* Types of the engine's state: the dispatcher's list, the queues and the tasks
\* its workers run.
THEOREM TypeCorrect == Spec => []TypeOK
<1>1. IInv => TypeOK
  BY ReactorAssumption DEF IInv, SpineOK, DispOK, FiringOK, QueuesOK, WorkersOK, ControlOK, TypeOK
<1> QED BY <1>1, Inductive, PTL

\* No two executions overlap whose reactors extracted the same entity key, in
\* whatever way each extracts it: what a worker runs hashes to its shard.
THEOREM ExecutionsSerialized == Spec => []Serialized
<1>1. IInv => Serialized
  BY DEF IInv, WorkersOK, Placed, Serialized
<1> QED BY <1>1, Inductive, PTL

\* Once stop has returned nothing is executed, received or subscribed.
THEOREM StopIsFinal == Spec => []QuietAfterStop
<1>1. IInv => QuietAfterStop BY DEF IInv
<1> QED BY <1>1, Inductive, PTL
==============================================================================
