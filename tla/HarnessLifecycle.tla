---------------------------- MODULE HarnessLifecycle ----------------------------
(***************************************************************************)
(* The life of a workspace's harness versions as an operator sees it: each *)
(* operation is one step. HarnessStore.tla, where every SQL statement of   *)
(* every concurrent request is a step, is shown to implement this.         *)
(***************************************************************************)
CONSTANTS Ids, Orgs, None

VARIABLES orgOf,   \* version id -> its workspace, None while it does not exist
          status   \* version id -> none, draft, published, archived or discarded

lifecycleVars == <<orgOf, status>>

Live(i) == status[i] = "published"

Rest == \A i \in Ids : Live(i) => \A j \in Ids : Live(j) /\ orgOf[j] = orgOf[i] => j = i

LifecycleInit ==
    /\ orgOf \in [Ids -> Orgs \cup {None}]
    /\ status \in [Ids -> {"none", "draft", "published", "archived", "discarded"}]

\* A new version starts as a draft.
StageVersion(i, o) ==
    /\ status[i] = "none"
    /\ status' = [status EXCEPT ![i] = "draft"]
    /\ orgOf' = [orgOf EXCEPT ![i] = o]

\* The version goes live and the one it replaces is archived, in one step.
ActivateVersion(i) ==
    /\ status[i] \in {"draft", "archived", "published"}
    /\ status' = [j \in Ids |->
           IF j = i THEN "published"
           ELSE IF Live(j) /\ orgOf[j] = orgOf[i] THEN "archived" ELSE status[j]]
    /\ UNCHANGED orgOf

\* Only a draft is thrown away, for good.
DiscardVersion(i) ==
    /\ status[i] = "draft"
    /\ status' = [status EXCEPT ![i] = "discarded"]
    /\ UNCHANGED orgOf

\* An install with several live versions in a workspace keeps one of them.
RepairVersions ==
    /\ \A i \in Ids : status'[i] # status[i] =>
           /\ Live(i)
           /\ status'[i] = "archived"
           /\ \E j \in Ids : orgOf[j] = orgOf[i] /\ Live(j) /\ status'[j] = "published"
    /\ UNCHANGED orgOf

LifecycleNext ==
    \/ \E i \in Ids : ActivateVersion(i) \/ DiscardVersion(i) \/ \E o \in Orgs : StageVersion(i, o)
    \/ ~Rest /\ RepairVersions

LifecycleSpec == LifecycleInit /\ [][LifecycleNext]_lifecycleVars
================================================================================
