------------------------------ MODULE HarnessStore ------------------------------
(***************************************************************************)
(* server/internal/agentstore/harness.go, internal/db/harness_live_slot.go *)
(* and the harness handlers of internal/api: the versions of a workspace's *)
(* agent harness, their one live slot, and the lessons they answer.        *)
(*                                                                         *)
(* A request is a transaction of READ COMMITTED statements. A statement    *)
(* sees committed rows; a row written by an open transaction is locked,    *)
(* and a statement that meets it waits and then looks at it again. What a  *)
(* transaction wrote becomes visible at Commit. Two unique indexes,        *)
(* (owner, version) and (owner, live_slot), are enforced at the statement  *)
(* that writes the key.                                                    *)
(***************************************************************************)
EXTENDS Naturals, FiniteSets, FiniteSetsExt

CONSTANTS MaxRows,    \* bound on harness versions: ids are 1..MaxRows
          Orgs,       \* workspaces
          Txs,        \* requests, each one transaction
          Legacy,     \* version tables an older install may hold
          MaxBoots,   \* bound on server starts
          None        \* no workspace

Ids == 1..MaxRows

Statuses == {"none", "draft", "published", "archived", "discarded"}

Row == [org : Orgs \cup {None}, version : Nat, status : Statuses, slot : BOOLEAN]

NoRow == [org |-> None, version |-> 0, status |-> "none", slot |-> FALSE]

ASSUME HarnessAssumption ==
    /\ MaxRows \in Nat /\ MaxBoots \in Nat /\ None \notin Orgs
    /\ \A table \in Legacy :
          /\ table \in [Ids -> Row]
          /\ \A i \in Ids :
                /\ ~table[i].slot
                /\ table[i].status = "none" <=> table[i].org = None
                /\ \A j \in Ids : table[i].org = table[j].org /\ table[i].version = table[j].version
                       /\ table[i].status # "none" => i = j

VARIABLES rows,     \* id -> committed agent_harness_specs row
          lessons,  \* id -> status of the lesson imported with that version
          tx,       \* request -> its open transaction
          mig,      \* where the booting server stands in its migrations
          dups,     \* ids repairHarnessLiveSlots decided to archive
          open,     \* has a server finished its migrations once?
          boots     \* server starts so far

vars == <<rows, lessons, tx, mig, dups, open, boots>>

Ops == {"none", "activate", "discard", "stage", "import"}
Places == {"idle", "read", "match", "archive", "publish", "write", "insert",
           "lessons", "commit", "note", "done"}
Boot == {"down", "repair", "archive", "index", "mark", "release", "up"}

Tx == [op : Ops, at : Places, org : Orgs \cup {None}, id : 0..MaxRows, version : Nat,
       matched : SUBSET Ids, locks : SUBSET Ids, marks : SUBSET Ids]

NoTx == [op |-> "none", at |-> "idle", org |-> None, id |-> 0, version |-> 0,
         matched |-> {}, locks |-> {}, marks |-> {}]

LessonStatuses == {"none", "suggested", "adopted", "dismissed"}

TypeOK ==
    /\ rows \in [Ids -> Row]
    /\ lessons \in [Ids -> LessonStatuses]
    /\ tx \in [Txs -> Tx]
    /\ mig \in Boot
    /\ dups \subseteq Ids
    /\ open \in BOOLEAN
    /\ boots \in Nat

\* The drafts of an older install were imported, each with a lesson.
Init ==
    /\ rows \in Legacy
    /\ lessons = [i \in Ids |-> IF rows[i].status = "draft" THEN "suggested" ELSE "none"]
    /\ tx = [t \in Txs |-> NoTx]
    /\ mig = "down"
    /\ dups = {}
    /\ open = FALSE
    /\ boots = 0

--------------------------------------------------------------------------------
Exists(i) == rows[i].status # "none"
Live(i) == rows[i].status = "published"
LiveIn(o) == {i \in Ids : Live(i) /\ rows[i].org = o}
In(o) == {i \in Ids : Exists(i) /\ rows[i].org = o}

\* Mutant of LockedBeside: a statement runs on another connection than its
\* transaction, and waits for itself.
LockedByAny(t) == UNION {tx[u].locks : u \in Txs}

\* Rows another open transaction has written.
LockedBeside(t) == UNION {tx[u].locks : u \in Txs \ {t}}
Locked == UNION {tx[u].locks : u \in Txs}
LessonLocked(i) == \E u \in Txs : i \in tx[u].marks

\* Mutant of TakesSlot: the slot is written after the lessons.
TakesSlotLate(u, o) == tx[u].op = "activate" /\ tx[u].org = o /\ tx[u].at = "commit"

\* u has written the live slot of workspace o and not committed.
TakesSlot(u, o) == tx[u].op = "activate" /\ tx[u].org = o /\ tx[u].at \in {"lessons", "commit"}

Move(t, place) == tx' = [tx EXCEPT ![t].at = place]
End(t) == tx' = [tx EXCEPT ![t] = [NoTx EXCEPT !.op = tx[t].op, !.at = "done"]]

At(t, op, place) == tx[t].op = op /\ tx[t].at = place

tables == <<rows, lessons>>
server == <<mig, dups, open, boots>>
--------------------------------------------------------------------------------
Stages(t) == tx[t].op \in {"stage", "import"}

\* A request names a version of its workspace, or brings a new spec (MaxRows
\* bounds the table: no more stages start than there is room for).
Begin(t, op, o, i) ==
    /\ open
    /\ tx[t].at = "idle"
    /\ op \in {"stage", "import"} =>
          Cardinality({j \in Ids : Exists(j)})
            + Cardinality({u \in Txs : Stages(u) /\ tx[u].at \notin {"note", "done"}}) < MaxRows
    /\ op \in {"activate", "discard"} <=> i # 0
    /\ tx' = [tx EXCEPT ![t] = [NoTx EXCEPT !.op = op, !.at = "read", !.org = o, !.id = i]]
    /\ UNCHANGED <<tables, server>>

\* A failed statement, a cancelled request or a dying server: nothing is kept.
Rollback(t) ==
    /\ tx[t].at \notin {"idle", "note", "done"}
    /\ End(t)
    /\ UNCHANGED <<tables, server>>

\* Activate: read the target, refuse what is missing or discarded.
ActivateRead(t) ==
    LET target == rows[tx[t].id] IN
    /\ At(t, "activate", "read")
    /\ IF target.org = tx[t].org /\ target.status # "discarded"
       THEN Move(t, "match") ELSE End(t)
    /\ UNCHANGED <<tables, server>>

\* UPDATE ... WHERE status = published: the rows the statement's snapshot matches ...
ActivateMatch(t) ==
    /\ At(t, "activate", "match")
    /\ tx' = [tx EXCEPT ![t].at = "archive", ![t].matched = LiveIn(tx[t].org)]
    /\ UNCHANGED <<tables, server>>

\* ... are written once unlocked, if they are published still.
ActivateArchive(t) ==
    /\ At(t, "activate", "archive")
    /\ tx[t].matched \cap LockedBeside(t) = {}
    /\ tx' = [tx EXCEPT ![t].at = "publish", ![t].locks = {i \in tx[t].matched : Live(i)}]
    /\ UNCHANGED <<tables, server>>

\* The versions other than id that hold the workspace's slot, as t sees it.
SlotRivals(t) == {i \in In(tx[t].org) \ (tx[t].locks \cup {tx[t].id}) : rows[i].slot}

\* The conditional publish waits for the row and for the slot.
CanPublish(t) ==
    /\ At(t, "activate", "publish")
    /\ tx[t].id \notin LockedBeside(t)
    /\ SlotRivals(t) \cap LockedBeside(t) = {}
    /\ \A u \in Txs \ {t} : ~TakesSlot(u, tx[t].org)

ActivatePublish(t) ==
    /\ CanPublish(t)
    /\ rows[tx[t].id].status # "discarded"
    /\ SlotRivals(t) = {}
    /\ tx' = [tx EXCEPT ![t].at = "lessons", ![t].locks = @ \cup {tx[t].id}]
    /\ UNCHANGED <<tables, server>>

\* No row matched, or the unique index refused a second live version.
ActivateRefused(t) ==
    /\ CanPublish(t)
    /\ rows[tx[t].id].status = "discarded" \/ SlotRivals(t) # {}
    /\ End(t)
    /\ UNCHANGED <<tables, server>>

\* Discard: read, then a write conditional on the version being a draft.
DiscardRead(t) ==
    LET target == rows[tx[t].id] IN
    /\ At(t, "discard", "read")
    /\ IF target.org = tx[t].org /\ target.status = "draft"
       THEN Move(t, "write") ELSE End(t)
    /\ UNCHANGED <<tables, server>>

\* Mutant of DiscardWrite: the status read before is trusted.
DiscardStale(t) ==
    /\ At(t, "discard", "write")
    /\ tx[t].id \notin LockedBeside(t)
    /\ tx' = [tx EXCEPT ![t].at = "lessons", ![t].locks = {tx[t].id}]
    /\ UNCHANGED <<tables, server>>

DiscardWrite(t) ==
    /\ At(t, "discard", "write")
    /\ tx[t].id \notin LockedBeside(t)
    /\ IF rows[tx[t].id].status = "draft"
       THEN tx' = [tx EXCEPT ![t].at = "lessons", ![t].locks = {tx[t].id}]
       ELSE End(t)
    /\ UNCHANGED <<tables, server>>

\* The version's suggested lessons follow it in the same transaction.
MarkLessons(t) ==
    LET i == tx[t].id IN
    /\ tx[t].at = "lessons"
    /\ ~LessonLocked(i)
    /\ tx' = [tx EXCEPT ![t].at = "commit",
                        ![t].marks = IF lessons[i] = "suggested" THEN {i} ELSE {}]
    /\ UNCHANGED <<tables, server>>

\* stage(): MAX(version), then an INSERT under the unique (owner, version).
StageRead(t) ==
    /\ Stages(t) /\ tx[t].at = "read"
    /\ tx' = [tx EXCEPT ![t].at = "insert",
                        ![t].version = Max({0} \cup {rows[i].version : i \in In(tx[t].org)}) + 1]
    /\ UNCHANGED <<tables, server>>

\* Mutant of StageInsert: (owner, version) has no unique index.
StageDuplicate(t) ==
    /\ tx[t].at = "insert"
    /\ Move(t, "commit")
    /\ UNCHANGED <<tables, server>>

StageInsert(t) ==
    /\ tx[t].at = "insert"
    /\ \A u \in Txs \ {t} : ~(/\ Stages(u) /\ tx[u].at = "commit"
                              /\ tx[u].org = tx[t].org /\ tx[u].version = tx[t].version)
    /\ IF \E i \in In(tx[t].org) : rows[i].version = tx[t].version
       THEN End(t) ELSE Move(t, "commit")
    /\ UNCHANGED <<tables, server>>

\* Mutant of CommitActivate: the version replaced is left as a draft.
CommitDemoting(t) ==
    /\ At(t, "activate", "commit")
    /\ rows' = [i \in Ids |->
           IF i = tx[t].id THEN [rows[i] EXCEPT !.status = "published", !.slot = TRUE]
           ELSE IF i \in tx[t].locks THEN [rows[i] EXCEPT !.status = "draft", !.slot = FALSE]
           ELSE rows[i]]
    /\ lessons' = [i \in Ids |-> IF i \in tx[t].marks THEN "adopted" ELSE lessons[i]]
    /\ End(t)
    /\ UNCHANGED server

CommitActivate(t) ==
    /\ At(t, "activate", "commit")
    /\ rows' = [i \in Ids |->
           IF i = tx[t].id THEN [rows[i] EXCEPT !.status = "published", !.slot = TRUE]
           ELSE IF i \in tx[t].locks THEN [rows[i] EXCEPT !.status = "archived", !.slot = FALSE]
           ELSE rows[i]]
    /\ lessons' = [i \in Ids |-> IF i \in tx[t].marks THEN "adopted" ELSE lessons[i]]
    /\ End(t)
    /\ UNCHANGED server

\* Mutant of CommitDiscard: the version gets the status of its lessons.
CommitDismissed(t) ==
    /\ At(t, "discard", "commit")
    /\ rows' = [rows EXCEPT ![tx[t].id].status = "dismissed"]
    /\ lessons' = [i \in Ids |-> IF i \in tx[t].marks THEN "dismissed" ELSE lessons[i]]
    /\ End(t)
    /\ UNCHANGED server

CommitDiscard(t) ==
    /\ At(t, "discard", "commit")
    /\ rows' = [rows EXCEPT ![tx[t].id].status = "discarded"]
    /\ lessons' = [i \in Ids |-> IF i \in tx[t].marks THEN "dismissed" ELSE lessons[i]]
    /\ End(t)
    /\ UNCHANGED server

\* The new row appears, under the next id (MaxRows bounds the table).
CommitStage(t) ==
    /\ Stages(t) /\ tx[t].at = "commit"
    /\ \E i \in Ids :
          /\ ~Exists(i) /\ \A j \in 1..(i - 1) : Exists(j)
          /\ rows' = [rows EXCEPT ![i] = [org |-> tx[t].org, version |-> tx[t].version,
                                          status |-> "draft", slot |-> FALSE]]
          /\ IF tx[t].op = "import"
             THEN tx' = [tx EXCEPT ![t] = [NoTx EXCEPT !.op = "import", !.at = "note", !.id = i]]
             ELSE End(t)
    /\ UNCHANGED <<lessons, server>>

\* importAgentHarnessProposal writes its lesson after the import committed;
\* a lesson that cannot be written is only audited.
ImportLesson(t) ==
    /\ tx[t].at = "note"
    /\ \/ lessons' = [lessons EXCEPT ![tx[t].id] = "suggested"]
       \/ UNCHANGED lessons
    /\ End(t)
    /\ UNCHANGED <<rows, server>>

\* DismissLesson: an unconditional UPDATE of an existing lesson.
DismissLesson(i) ==
    /\ open
    /\ lessons[i] # "none"
    /\ ~LessonLocked(i)
    /\ lessons' = [lessons EXCEPT ![i] = "dismissed"]
    /\ UNCHANGED <<rows, tx, server>>
--------------------------------------------------------------------------------
\* A server starts, or restarts wherever its migrations stood; the requests
\* of other servers of the same database go on.
Start ==
    /\ boots < MaxBoots
    /\ boots' = boots + 1
    /\ mig' = "repair"
    /\ dups' = {}
    /\ UNCHANGED <<tables, tx, open>>

\* Mutant of RepairRead: the oldest live version is kept.
RepairReadOldest ==
    /\ mig = "repair"
    /\ dups' = {i \in Ids : Live(i) /\ \E j \in LiveIn(rows[i].org) : rows[j].version < rows[i].version}
    /\ mig' = "archive"
    /\ UNCHANGED <<tables, tx, open, boots>>

\* Mutant of RepairRead: only the runner-up of each workspace is archived.
RepairReadSecond ==
    /\ mig = "repair"
    /\ dups' = {i \in Ids : Live(i) /\
                   Cardinality({j \in LiveIn(rows[i].org) : rows[j].version > rows[i].version}) = 1}
    /\ mig' = "archive"
    /\ UNCHANGED <<tables, tx, open, boots>>

\* repairHarnessLiveSlots: read every live row, newest version first ...
RepairRead ==
    /\ mig = "repair"
    /\ dups' = {i \in Ids : Live(i) /\ \E j \in LiveIn(rows[i].org) : rows[j].version > rows[i].version}
    /\ mig' = "archive"
    /\ UNCHANGED <<tables, tx, open, boots>>

\* ... and archive all but the first of each workspace, by id.
RepairArchive ==
    /\ mig = "archive"
    /\ dups \cap Locked = {}
    /\ rows' = [i \in Ids |-> IF i \in dups THEN [rows[i] EXCEPT !.status = "archived"] ELSE rows[i]]
    /\ mig' = "index"
    /\ UNCHANGED <<lessons, tx, dups, open, boots>>

\* AutoMigrate: the column and its unique index exist from here on.
AutoMigrate ==
    /\ mig = "index"
    /\ mig' = "mark"
    /\ UNCHANGED <<tables, tx, dups, open, boots>>

\* markHarnessLiveSlots: the live rows take their slot; the unique index
\* refuses the statement when a workspace still has two.
MarkLive ==
    /\ mig = "mark"
    /\ {i \in Ids : Live(i)} \cap Locked = {}
    /\ \A o \in Orgs : Cardinality(LiveIn(o)) <= 1
    /\ rows' = [i \in Ids |-> IF Live(i) THEN [rows[i] EXCEPT !.slot = TRUE] ELSE rows[i]]
    /\ mig' = "release"
    /\ UNCHANGED <<lessons, tx, dups, open, boots>>

\* Every other row gives its slot up; requests are served from here on.
ReleaseOthers ==
    /\ mig = "release"
    /\ {i \in Ids : Exists(i) /\ ~Live(i)} \cap Locked = {}
    /\ rows' = [i \in Ids |-> IF Live(i) THEN rows[i] ELSE [rows[i] EXCEPT !.slot = FALSE]]
    /\ mig' = "up"
    /\ open' = TRUE
    /\ UNCHANGED <<lessons, tx, dups, boots>>

Migrate == RepairRead \/ RepairArchive \/ AutoMigrate \/ MarkLive \/ ReleaseOthers

Step(t) ==
    \/ ActivateRead(t) \/ ActivateMatch(t) \/ ActivateArchive(t)
    \/ ActivatePublish(t) \/ ActivateRefused(t)
    \/ DiscardRead(t) \/ DiscardWrite(t) \/ MarkLessons(t)
    \/ StageRead(t) \/ StageInsert(t)
    \/ CommitActivate(t) \/ CommitDiscard(t) \/ CommitStage(t) \/ ImportLesson(t)

Next ==
    \/ \E t \in Txs :
          \/ \E op \in Ops \ {"none"}, o \in Orgs, i \in 0..MaxRows : Begin(t, op, o, i)
          \/ Step(t) \/ Rollback(t)
    \/ \E i \in Ids : DismissLesson(i)
    \/ Start \/ Migrate

Spec == Init /\ [][Next]_vars

\* Statements are executed and migrations run; requests, restarts, dismissals
\* and rollbacks need not happen.
FairSpec == Spec /\ WF_vars(Migrate) /\ \A t \in Txs : WF_vars(Step(t))
--------------------------------------------------------------------------------
\* Activate's comment: "Exactly one version per workspace is live". However
\* activations, discards and restarting servers interleave, no two versions
\* of a workspace are ever committed as live once a server has served.
OneLive == open => \A o \in Orgs : Cardinality(LiveIn(o)) <= 1

\* A lesson is marked adopted only with a version that really went live.
AdoptedWasLive ==
    \A i \in Ids : lessons[i] = "adopted" => rows[i].status \in {"published", "archived"}

\* A new version is numbered above every version of its workspace, although
\* MAX(version) is read before other inserts commit.
VersionsGrow ==
    [][\A i \in Ids : ~Exists(i) /\ Exists(i)' =>
          \A j \in In(rows'[i].org) : rows[j].version < rows'[i].version]_vars

\* The repair of an older install keeps the newest live version live, also
\* when the server dies between two of its statements and starts over.
NewestKept ==
    [][~open => \A o \in Orgs : \A i \in LiveIn(o) :
          (\A j \in LiveIn(o) : rows[j].version <= rows[i].version) => Live(i)']_vars

\* Every request ends and every boot completes: the waits for locked rows and
\* for the slot never form a cycle.
RequestsEnd == \A t \in Txs : tx[t].at # "idle" ~> tx[t].at = "done"
BootCompletes == mig = "repair" ~> mig = "up"
--------------------------------------------------------------------------------
Lifecycle == INSTANCE HarnessLifecycle
    WITH orgOf <- [i \in Ids |-> rows[i].org], status <- [i \in Ids |-> rows[i].status]

\* The statements of concurrent requests add up to atomic operations. So a
\* workspace with a live version never ends up without one, also when an
\* activation fails half way or a discard races it; what was live stays
\* activatable, and what was discarded stays discarded.
ImplementsLifecycle == Lifecycle!LifecycleSpec
================================================================================
