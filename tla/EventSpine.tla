------------------------------ MODULE EventSpine ------------------------------
(***************************************************************************)
(* server/internal/eventbus/spine.go: publishers fan envelopes out to the  *)
(* buffered channels of subscribers and never wait for them.               *)
(*                                                                         *)
(* spMu guards the list for one short critical section each time, which is *)
(* one step here. A subscription's subMu is held from the full channel to  *)
(* the last refill; the consumer receives without it, so each operation on *)
(* the channel is a step of its own.                                       *)
(***************************************************************************)
EXTENDS Naturals, SequencesExt

CONSTANTS Publishers, Subs, Keys, Entities,
          None,      \* no entity, or nobody
          Filter,    \* subscription -> the keys it asks for, {} for all
          Cap,       \* SubscribeOpts.BufferSize
          MaxSent    \* bound on published envelopes

ASSUME SpineAssumption ==
    /\ Cap \in Nat \ {0} /\ MaxSent \in Nat
    /\ Filter \in [Subs -> SUBSET Keys]
    /\ None \notin Entities \cup Publishers

VARIABLES spSubs,    \* the subscriber list
          sub,       \* subscription -> its channel, its lock and its state
          pub,       \* publisher -> where it is in PublishEnvelope
          sent,      \* envelopes published so far
          got,       \* history: subscription -> what its consumer received, in order
          panicked   \* a send on a closed channel has happened

vars == <<spSubs, sub, pub, sent, got, panicked>>

Envelope == [n : 1..MaxSent, key : Keys, of : Entities \cup {None}, from : Publishers]

Sub == [state : {"new", "on", "cut", "closed"}, ch : Seq(Envelope),
        by : Publishers \cup {None}]                              \* who holds subMu

NewSub == [state |-> "new", ch |-> <<>>, by |-> None]

Idle == [at |-> "idle", env |-> <<>>, todo |-> <<>>, n |-> 0, hand |-> <<>>]

TypeOK ==
    /\ spSubs \in Seq(Subs)
    /\ sub \in [Subs -> Sub]
    /\ \A s \in Subs : Len(sub[s].ch) <= Cap
    /\ \A p \in Publishers :
          /\ pub[p].at \in {"idle", "send", "measure", "drain", "refill"}
          /\ pub[p].at # "idle" => pub[p].env \in Envelope
          /\ pub[p].todo \in Seq(Subs)
          /\ pub[p].n \in 0..Cap
          /\ pub[p].hand \in Seq(Envelope) /\ Len(pub[p].hand) <= Cap
    /\ sent \in 0..MaxSent
    /\ \A s \in Subs : Len(got[s]) <= MaxSent
    /\ panicked \in BOOLEAN

Init ==
    /\ spSubs = <<>>
    /\ sub = [s \in Subs |-> NewSub]
    /\ pub = [p \in Publishers |-> Idle]
    /\ sent = 0
    /\ got = [s \in Subs |-> <<>>]
    /\ panicked = FALSE

--------------------------------------------------------------------------------
Wants(s, key) == Filter[s] = {} \/ key \in Filter[s]

\* The last entry takes the place of the one removed.
SwapRemove(list, s) ==
    IF ~Contains(list, s) THEN list
    ELSE LET i == CHOOSE j \in DOMAIN list : list[j] = s
         IN  Front([list EXCEPT ![i] = Last(list)])

\* p is done with the subscription at the head of its list.
Onward(p) ==
    LET rest == Tail(pub[p].todo)
    IN  pub' = [pub EXCEPT ![p] = IF rest = <<>> THEN Idle
                                  ELSE [@ EXCEPT !.at = "send", !.todo = rest, !.n = 0, !.hand = <<>>]]

\* The first of the entity, else the first of all.
Victim(hand, env) ==
    LET same == {i \in DOMAIN hand : env.of # None /\ hand[i].of = env.of}
    IN  IF same = {} THEN 1 ELSE Min(same)

Target(p) == Head(pub[p].todo)
Full(s) == Len(sub[s].ch) = Cap
--------------------------------------------------------------------------------
Subscribe(s) ==
    /\ sub[s].state = "new"
    /\ sub' = [sub EXCEPT ![s].state = "on"]
    /\ spSubs' = Append(spSubs, s)
    /\ UNCHANGED <<pub, sent, got, panicked>>

\* PublishEnvelope with an organisation and a key: snapshot of the list.
Publish(p, key, of) ==
    /\ pub[p].at = "idle"
    /\ sent < MaxSent
    /\ sent' = sent + 1
    /\ pub' = IF spSubs = <<>> THEN pub
              ELSE [pub EXCEPT ![p] = [Idle EXCEPT !.at = "send", !.todo = spSubs,
                                           !.env = [n |-> sent + 1, key |-> key, of |-> of, from |-> p]]]
    /\ UNCHANGED <<spSubs, sub, got, panicked>>

\* The slow path holds subMu; nothing else does for more than a step.
Unlocked(s) == sub[s].by = None

\* The next subscription of the snapshot is one that asks for the key.
Sending(p) == pub[p].at = "send" /\ Wants(Target(p), pub[p].env.key)

\* The filter never changes: it is looked at without a lock.
SendSkip(p) ==
    /\ pub[p].at = "send" /\ ~Wants(Target(p), pub[p].env.key)
    /\ Onward(p)
    /\ UNCHANGED <<spSubs, sub, sent, got, panicked>>

\* Closed: the subscription is passed over.
SendClosed(p) ==
    /\ Sending(p)
    /\ LET s == Target(p) IN Unlocked(s) /\ sub[s].state = "closed"
    /\ Onward(p)
    /\ UNCHANGED <<spSubs, sub, sent, got, panicked>>

\* Mutant of SendFast: the fast path is tried without subMu.
SendUnlocked(p) ==
    /\ Sending(p)
    /\ LET s == Target(p)
       IN  /\ sub[s].state # "closed" /\ ~Full(s)
           /\ sub' = [sub EXCEPT ![s].ch = Append(@, pub[p].env)]
    /\ Onward(p)
    /\ UNCHANGED <<spSubs, sent, got, panicked>>

\* Room in the channel.
SendFast(p) ==
    /\ Sending(p)
    /\ LET s == Target(p)
       IN  /\ Unlocked(s) /\ sub[s].state # "closed" /\ ~Full(s)
           /\ sub' = [sub EXCEPT ![s].ch = Append(@, pub[p].env)]
    /\ Onward(p)
    /\ UNCHANGED <<spSubs, sent, got, panicked>>

\* No room: the slow path keeps the lock.
SendSlow(p) ==
    /\ Sending(p)
    /\ LET s == Target(p)
       IN  /\ Unlocked(s) /\ sub[s].state # "closed" /\ Full(s)
           /\ sub' = [sub EXCEPT ![s].by = p]
    /\ pub' = [pub EXCEPT ![p].at = "measure"]
    /\ UNCHANGED <<spSubs, sent, got, panicked>>

\* Mutant of Measure: under the lock, waits for the consumer to make room.
MeasureRoom(p) ==
    /\ pub[p].at = "measure"
    /\ ~Full(Target(p))
    /\ pub' = [pub EXCEPT ![p].at = "drain", ![p].n = Len(sub[Target(p)].ch)]
    /\ UNCHANGED <<spSubs, sub, sent, got, panicked>>

\* n := len(ch): the consumer may have taken some by now.
Measure(p) ==
    /\ pub[p].at = "measure"
    /\ pub' = [pub EXCEPT ![p].at = "drain", ![p].n = Len(sub[Target(p)].ch)]
    /\ UNCHANGED <<spSubs, sub, sent, got, panicked>>

\* Mutant of Drain: the loop runs once too often.
DrainBeyond(p) ==
    /\ pub[p].at = "drain"
    /\ LET s == Target(p)
       IN  IF sub[s].ch = <<>>
           THEN /\ pub' = [pub EXCEPT ![p].n = @ - 1]
                /\ UNCHANGED sub
           ELSE /\ pub' = [pub EXCEPT ![p].n = @ - 1, ![p].hand = Append(@, Head(sub[s].ch))]
                /\ sub' = [sub EXCEPT ![s].ch = Tail(@)]
    /\ UNCHANGED <<spSubs, sent, got, panicked>>

\* One non-blocking receive of the publisher.
Drain(p) ==
    /\ pub[p].at = "drain"
    /\ pub[p].n > 0
    /\ LET s == Target(p)
       IN  IF sub[s].ch = <<>>
           THEN /\ pub' = [pub EXCEPT ![p].n = @ - 1]
                /\ UNCHANGED sub
           ELSE /\ pub' = [pub EXCEPT ![p].n = @ - 1, ![p].hand = Append(@, Head(sub[s].ch))]
                /\ sub' = [sub EXCEPT ![s].ch = Tail(@)]
    /\ UNCHANGED <<spSubs, sent, got, panicked>>

\* Mutant of Drop: nothing of the entity, nothing dropped.
DropOwn(p) ==
    /\ pub[p].at = "drain"
    /\ pub[p].n = 0
    /\ LET hand == pub[p].hand
       IN  pub' = [pub EXCEPT ![p].at = "refill",
                              ![p].hand = IF \A i \in DOMAIN hand : hand[i].of # pub[p].env.of THEN @
                                          ELSE RemoveAt(@, Victim(hand, pub[p].env))]
    /\ UNCHANGED <<spSubs, sub, sent, got, panicked>>

\* One of what was drained goes, also when the consumer has made room since.
Drop(p) ==
    /\ pub[p].at = "drain"
    /\ pub[p].n = 0
    /\ pub' = [pub EXCEPT ![p].at = "refill",
                          ![p].hand = IF @ = <<>> THEN @ ELSE RemoveAt(@, Victim(@, pub[p].env))]
    /\ UNCHANGED <<spSubs, sub, sent, got, panicked>>

\* A non-blocking send of e into s, with the slow path's lock left to `by`.
Put(s, e, by) ==
    /\ panicked' = (panicked \/ sub[s].state = "closed")
    /\ sub' = [sub EXCEPT ![s].by = by, ![s].ch = IF Full(s) THEN @ ELSE Append(@, e)]

Refill(p) ==
    /\ pub[p].at = "refill"
    /\ pub[p].hand # <<>>
    /\ Put(Target(p), Head(pub[p].hand), p)
    /\ pub' = [pub EXCEPT ![p].hand = Tail(@)]
    /\ UNCHANGED <<spSubs, sent, got>>

\* The new envelope last; the lock is released.
Deliver(p) ==
    /\ pub[p].at = "refill"
    /\ pub[p].hand = <<>>
    /\ Put(Target(p), pub[p].env, None)
    /\ Onward(p)
    /\ UNCHANGED <<spSubs, sent, got>>
--------------------------------------------------------------------------------
\* The subscriber's own goroutine; what is buffered outlives the close.
Receive(s) ==
    /\ sub[s].ch # <<>>
    /\ got' = [got EXCEPT ![s] = Append(@, Head(sub[s].ch))]
    /\ sub' = [sub EXCEPT ![s].ch = Tail(@)]
    /\ UNCHANGED <<spSubs, pub, sent, panicked>>

\* cancel, first call: out of the list, ...
CancelRemove(s) ==
    /\ sub[s].state = "on"
    /\ sub' = [sub EXCEPT ![s].state = "cut"]
    /\ spSubs' = SwapRemove(spSubs, s)
    /\ UNCHANGED <<pub, sent, got, panicked>>

\* Mutant of CancelClose: the channel is closed without subMu.
CloseUnlocked(s) ==
    /\ sub[s].state = "cut"
    /\ sub' = [sub EXCEPT ![s].state = "closed"]
    /\ UNCHANGED <<spSubs, pub, sent, got, panicked>>

\* ... then closed, under subMu. Later calls wait for this and do nothing.
CancelClose(s) ==
    /\ sub[s].state = "cut"
    /\ Unlocked(s)
    /\ sub' = [sub EXCEPT ![s].state = "closed"]
    /\ UNCHANGED <<spSubs, pub, sent, got, panicked>>

Send(p) ==
    \/ SendSkip(p) \/ SendClosed(p) \/ SendFast(p) \/ SendSlow(p)
    \/ Measure(p) \/ Drain(p) \/ Drop(p) \/ Refill(p) \/ Deliver(p)

Next ==
    \/ \E p \in Publishers :
          Send(p) \/ \E key \in Keys, of \in Entities \cup {None} : Publish(p, key, of)
    \/ \E s \in Subs : Subscribe(s) \/ Receive(s) \/ CancelRemove(s) \/ CancelClose(s)

Spec == Init /\ [][Next]_vars

\* Goroutines are scheduled and subMu is granted in turn (a sync.Mutex that
\* starves hands over in order). Nobody has to receive, publish or cancel.
FairSpec ==
    /\ Spec
    /\ \A p \in Publishers : SF_vars(Send(p))
    /\ \A s \in Subs : SF_vars(CancelClose(s))
--------------------------------------------------------------------------------
\* spineSub's contract: "it can never send on a closed channel", also for
\* publishers whose snapshot still holds a cancelled subscription.
NoSendOnClosed == ~panicked

\* What a subscription holds for its consumer: what is buffered, what the
\* slow path has in hand, and the new envelope once its room is made.
Holding(s) ==
    LET p == sub[s].by
    IN  ToSet(sub[s].ch) \cup
        IF p = None THEN {}
        ELSE ToSet(pub[p].hand) \cup IF pub[p].at = "refill" THEN {pub[p].env} ELSE {}

Queue == INSTANCE LossyQueue WITH
    Queues  <- Subs,
    Items   <- Envelope,
    open    <- [s \in Subs |-> sub[s].state # "closed"],
    pending <- [s \in Subs |-> Holding(s)],
    taken   <- [s \in Subs |-> ToSet(got[s])]

\* Every subscription is a lossy queue: at most once, newest always in, at
\* most one loss for each newcomer, nothing after the close, whatever the
\* consumer takes while the channel is drained and refilled.
ImplementsQueue == Queue!QueueSpec

InOrder(line) ==
    \A i, j \in DOMAIN line : i < j /\ line[i].from = line[j].from => line[i].n < line[j].n

\* What the consumer has yet to receive, in the order it would.
Line(s) ==
    LET p == sub[s].by
    IN  IF p = None THEN sub[s].ch
        ELSE IF pub[p].at = "refill" THEN sub[s].ch \o pub[p].hand \o <<pub[p].env>>
        ELSE pub[p].hand \o sub[s].ch

\* The slow path puts back what it drained behind nothing newer: each
\* publisher's envelopes stay in line, also beside other publishers.
LineKept == \A s \in Subs : InOrder(Line(s))

\* "without ever blocking": a publisher is never held up by consumers.
PublishReturns == \A p \in Publishers : pub[p].at # "idle" ~> pub[p].at = "idle"
================================================================================
