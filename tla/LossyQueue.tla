------------------------------ MODULE LossyQueue ------------------------------
(***************************************************************************)
(* What each subscription to the event spine promises: a bounded set of    *)
(* pending items of which the consumer takes each at most once, in no      *)
(* promised order. A new item always gets in while the subscription is     *)
(* open, at the price of at most one pending item; nothing gets in later.  *)
(***************************************************************************)
EXTENDS Naturals, FiniteSets

CONSTANTS Queues, Items, Cap

VARIABLES open,     \* queue -> does it accept items?
          pending,  \* queue -> accepted and not yet taken
          taken     \* queue -> what its consumer has had

queueVars == <<open, pending, taken>>

QueueInit ==
    /\ open = [q \in Queues |-> TRUE]
    /\ pending = [q \in Queues |-> {}]
    /\ taken = [q \in Queues |-> {}]

Offer(q, e) ==
    /\ open[q]
    /\ e \notin pending[q] \cup taken[q]
    /\ \E victims \in {{}} \cup {{v} : v \in pending[q]} :
          pending' = [pending EXCEPT ![q] = (@ \ victims) \cup {e}]
    /\ Cardinality(pending'[q]) <= Cap
    /\ UNCHANGED <<open, taken>>

Take(q, e) ==
    /\ e \in pending[q]
    /\ pending' = [pending EXCEPT ![q] = @ \ {e}]
    /\ taken' = [taken EXCEPT ![q] = @ \cup {e}]
    /\ UNCHANGED open

Close(q) ==
    /\ open[q]
    /\ open' = [open EXCEPT ![q] = FALSE]
    /\ UNCHANGED <<pending, taken>>

QueueNext == \E q \in Queues : Close(q) \/ \E e \in Items : Offer(q, e) \/ Take(q, e)

QueueSpec == QueueInit /\ [][QueueNext]_queueVars
================================================================================
