---------------------------- MODULE MCHarnessStore ----------------------------
(***************************************************************************)
(* A small instance of HarnessStore for TLC.                               *)
(***************************************************************************)
EXTENDS HarnessStore

Older(o, n, s) == [org |-> o, version |-> n, status |-> s, slot |-> FALSE]

\* The table whose first rows have these owners and statuses; the other ids are
\* free to stage with.
Table(orgs, stats) ==
    [i \in Ids |->
        IF i \in DOMAIN orgs
        THEN Older(orgs[i], Cardinality({j \in 1..i : orgs[j] = orgs[i]}), stats[i])
        ELSE NoRow]

\* Two drafts; a live version and a draft; three live versions of one workspace
\* around one of another.
OlderTables ==
    {Table(<<"o1", "o1">>, <<"draft", "draft">>),
     Table(<<"o1", "o1">>, <<"published", "draft">>),
     Table(<<"o1", "o2", "o1", "o1">>, [i \in Ids |-> "published"])}
================================================================================
