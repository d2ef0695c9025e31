-------------------------- MODULE HarnessStoreProofs --------------------------
(***************************************************************************)
(* Proofs about HarnessStore, for any number of versions, workspaces,      *)
(* requests, restarts and any older table: one version is live, numbers    *)
(* grow, the repair keeps the newest, and the statements of concurrent     *)
(* requests add up to the atomic operations of HarnessLifecycle.           *)
(***************************************************************************)
EXTENDS HarnessStore, FiniteSetTheorems, WellFoundedInduction, TLAPS

-----------------------------------------------------------------------------
LEMMA LeastNat ==
    ASSUME NEW T \in SUBSET Nat, T # {}
    PROVE  \E n \in T : \A m \in T : n <= m
<1>1. PICK n \in T : \A m \in T : <<m, n>> \notin OpToRel(<, Nat)
  BY NatLessThanWellFounded, WFMin
<1>2. \A m \in T : ~(m < n) BY <1>1 DEF OpToRel
<1> QED BY <1>2

\* Some id of a set has the greatest number.
LEMMA Greatest ==
    ASSUME NEW f \in [Ids -> Nat], NEW A \in SUBSET Ids, A # {}
    PROVE  \E i \in A : \A j \in A : f[j] <= f[i]
<1> DEFINE Tops(B) == \E i \in B : \A j \in B : f[j] <= f[i]
           Bad == {n \in 0..MaxRows : \E B \in SUBSET (1..n) : B # {} /\ ~Tops(B)}
<1>1. MaxRows \in Nat /\ Ids = 1..MaxRows BY HarnessAssumption DEF Ids
<1>2. Bad = {}
  <2> SUFFICES ASSUME Bad # {} PROVE FALSE OBVIOUS
  <2>1. Bad \in SUBSET Nat BY <1>1
  <2>2. PICK n \in Bad : \A m \in Bad : n <= m BY <2>1, LeastNat
  <2>3. PICK B \in SUBSET (1..n) : B # {} /\ ~Tops(B) BY <2>2
  <2>4. n \in 0..MaxRows BY <2>2
  <2>5. n # 0
    <3>1. 1..0 = {} OBVIOUS
    <3> QED BY <2>3, <3>1
  <2>6. n - 1 \notin Bad
    <3>1. n \in Nat /\ ~(n <= n - 1) BY <1>1, <2>4
    <3> QED BY <2>2, <3>1
  <2>7. \A C \in SUBSET (1..(n - 1)) : C = {} \/ Tops(C)
    <3>1. n - 1 \in 0..MaxRows BY <1>1, <2>4, <2>5
    <3> QED BY <2>6, <3>1
  <2>8. B \ {n} \in SUBSET (1..(n - 1))
    <3>1. \A x \in 1..n : x # n => x \in 1..(n - 1) BY <1>1, <2>4
    <3> QED BY <3>1
  <2>9. \A j \in B : f[j] \in Nat BY <1>1, <2>4
  <2>10. CASE n \notin B
    <3>1. B \in SUBSET (1..(n - 1)) BY <2>8, <2>10
    <3> HIDE DEF Tops
    <3> QED BY <2>3, <2>7, <3>1
  <2>11. CASE n \in B /\ B \ {n} = {}
    <3>1. B = {n} BY <2>11
    <3> QED BY <2>3, <2>9, <3>1
  <2>12. CASE n \in B /\ B \ {n} # {}
    <3>1. PICK c \in B \ {n} : \A j \in B \ {n} : f[j] <= f[c] BY <2>7, <2>8, <2>12
    <3>2. CASE f[n] <= f[c]
      <4>1. \A j \in B : f[j] <= f[c] BY <3>1, <3>2
      <4> QED BY <2>3, <3>1, <4>1
    <3>3. CASE ~(f[n] <= f[c])
      <4>1. \A j \in B : f[j] <= f[n]
        <5> TAKE j \in B
        <5>1. f[j] \in Nat /\ f[c] \in Nat /\ f[n] \in Nat BY <2>9, <2>12, <3>1
        <5>2. CASE j = n BY <5>1, <5>2
        <5>3. CASE j # n
          <6>1. f[j] <= f[c] BY <3>1, <5>3
          <6> QED BY <3>3, <5>1, <6>1
        <5> QED BY <5>2, <5>3
      <4> QED BY <2>3, <2>12, <4>1
    <3> QED BY <3>2, <3>3
  <2> QED BY <2>10, <2>11, <2>12
<1>3. MaxRows \in 0..MaxRows BY <1>1
<1>4. MaxRows \notin Bad BY <1>2
<1> QED BY <1>1, <1>3, <1>4

\* Two members make a set larger than one.
LEMMA AtMostOne ==
    ASSUME NEW S \in SUBSET Ids
    PROVE  Cardinality(S) <= 1 <=> \A i, j \in S : i = j
<1>1. IsFiniteSet(Ids) BY HarnessAssumption, FS_Interval DEF Ids
<1>2. IsFiniteSet(S) BY <1>1, FS_Subset
<1>3. ASSUME Cardinality(S) <= 1, NEW i \in S, NEW j \in S, i # j PROVE FALSE
  <2>1. IsFiniteSet({i}) /\ Cardinality({i}) = 1 BY FS_Singleton
  <2>2. Cardinality({i} \cup {j}) = 2 BY <1>3, <2>1, FS_AddElement
  <2>3. {i} \cup {j} \in SUBSET S OBVIOUS
  <2>4. Cardinality({i} \cup {j}) <= Cardinality(S) BY <1>2, <2>3, FS_Subset
  <2>5. Cardinality(S) \in Nat BY <1>2, FS_CardinalityType
  <2> QED BY <1>3, <2>2, <2>4, <2>5
<1>4. ASSUME \A i, j \in S : i = j PROVE Cardinality(S) <= 1
  <2>1. CASE S = {} BY <2>1, FS_EmptySet
  <2>2. CASE S # {}
    <3>1. PICK i \in S : TRUE BY <2>2
    <3>2. S = {i} BY <1>4, <3>1
    <3> QED BY <3>2, FS_Singleton
  <2> QED BY <2>1, <2>2
<1> QED BY <1>3, <1>4

\* The number StageRead takes follows the greatest of the workspace.
LEMMA NextVersion ==
    ASSUME rows \in [Ids -> Row], NEW o
    PROVE  LET m == Max({0} \cup {rows[i].version : i \in In(o)})
           IN  /\ m \in Nat
               /\ m = 0 \/ \E i \in In(o) : rows[i].version = m
               /\ \A i \in In(o) : rows[i].version <= m
<1> DEFINE S == {0} \cup {rows[i].version : i \in In(o)}
           f == [i \in Ids |-> rows[i].version]
<1>1. In(o) \in SUBSET Ids BY DEF In
<1>2. f \in [Ids -> Nat] BY DEF Row
<1>3. S \subseteq Nat BY <1>1 DEF Row
<1>4. \E x \in S : \A y \in S : x >= y
  <2>1. CASE In(o) = {} BY <2>1
  <2>2. CASE In(o) # {}
    <3>1. PICK i \in In(o) : \A j \in In(o) : f[j] <= f[i] BY <1>1, <1>2, <2>2, Greatest
    <3>2. \A j \in In(o) : rows[j].version <= rows[i].version BY <1>1, <3>1
    <3>3. rows[i].version \in S /\ rows[i].version \in Nat BY <1>3
    <3> QED BY <1>3, <3>2, <3>3
  <2> QED BY <2>1, <2>2
<1>5. Max(S) \in S /\ \A y \in S : Max(S) >= y BY <1>4 DEF Max
<1> QED BY <1>3, <1>5
-----------------------------------------------------------------------------
Answering(r) == r.op \in {"activate", "discard"}
Bringing(r) == r.op \in {"stage", "import"}
Under(r) == r.at \notin {"idle", "note", "done"}

\* Where a request stands fits what it was asked, and is of its workspace.
Fits(r) ==
    /\ r.at # "idle" => open
    /\ Under(r) => r.org \in Orgs /\ (Answering(r) \/ Bringing(r))
    /\ r.at \in {"match", "archive", "publish"} => r.op = "activate"
    /\ r.at = "write" => r.op = "discard"
    /\ r.at = "lessons" => Answering(r)
    /\ r.at = "insert" => Bringing(r)
    /\ r.at = "note" => r.op = "import" /\ r.id \in Ids
    /\ Answering(r) /\ Under(r) => r.id \in Ids /\ (r.at # "read" => rows[r.id].org = r.org)

\* What a request has written and not committed.
Written(r) == r.at \in {"lessons", "commit"}

Holds(r) ==
    /\ r.at = "archive" => \A i \in r.matched : rows[i].org = r.org
    /\ ~Written(r) => IF r.at = "publish" THEN r.locks \subseteq LiveIn(r.org) ELSE r.locks = {}
    /\ Written(r) /\ r.op = "activate" =>
          r.locks = {r.id} \cup LiveIn(r.org) /\ rows[r.id].status # "discarded"
    /\ Written(r) /\ r.op = "discard" => r.locks = {r.id} /\ rows[r.id].status = "draft"
    /\ Written(r) /\ Bringing(r) => r.locks = {}
    /\ r.marks \subseteq IF r.at = "commit" /\ Answering(r) THEN {r.id} ELSE {}

\* A number taken by StageRead follows one that is there, and as long as it is
\* not there itself none above it is.
Numbered(r) ==
    Bringing(r) /\ r.at \in {"insert", "commit"} =>
        /\ r.version \in Nat \ {0}
        /\ r.version = 1 \/ \E i \in In(r.org) : rows[i].version = r.version - 1
        /\ (\E i \in In(r.org) : rows[i].version >= r.version) =>
               r.at = "insert" /\ \E i \in In(r.org) : rows[i].version = r.version

TxOK(r) == Fits(r) /\ Holds(r) /\ Numbered(r)

\* Two open transactions lock different rows, write different slots, and insert
\* in different workspaces.
Apart(r, s) ==
    /\ r.locks \cap s.locks = {}
    /\ r.org = s.org =>
          /\ ~(r.op = "activate" /\ Written(r) /\ s.op = "activate" /\ Written(s))
          /\ ~(Bringing(r) /\ r.at = "commit" /\ Bringing(s) /\ s.at = "commit")

AllApart == \A t, u \in Txs : t # u => Apart(tx[t], tx[u])

\* Ids are free or of a workspace.
RowsOK == \A i \in Ids : rows[i].status = "none" <=> rows[i].org = None

\* At most one version of each workspace is live.
Single == \A i, j \in Ids : Live(i) /\ Live(j) /\ rows[i].org = rows[j].org => i = j

\* Live versions that a newer one makes void.
Outdated == {i \in Ids : Live(i) /\ \E j \in LiveIn(rows[i].org) : rows[j].version > rows[i].version}

\* The slot marks what is live, from the first server on; before it, the
\* migrations go by what they read.
Migrating ==
    /\ open => Single /\ \A i \in Ids : rows[i].slot <=> Live(i)
    /\ ~open /\ mig = "release" => Single /\ \A i \in Ids : Live(i) => rows[i].slot
    /\ mig = "archive" => dups = Outdated

IInv ==
    /\ TypeOK /\ RowsOK /\ Migrating /\ AdoptedWasLive
    /\ (\A t \in Txs : TxOK(tx[t])) /\ AllApart

-----------------------------------------------------------------------------
\* A step that only moves request t, to r.
LEMMA TxMoves ==
    ASSUME IInv, NEW t \in Txs, NEW r \in Tx, TxOK(r),
           \A u \in Txs \ {t} : Apart(r, tx[u]),
           tx' = [tx EXCEPT ![t] = r],
           UNCHANGED <<tables, server>>
    PROVE  IInv'
<1>1. tx \in [Txs -> Tx] BY DEF IInv, TypeOK
<1>2. tx' \in [Txs -> Tx] BY <1>1
<1>3. tx'[t] = r /\ \A u \in Txs \ {t} : tx'[u] = tx[u] BY <1>1
<1>4. UNCHANGED <<rows, lessons, mig, dups, open, boots>> BY DEF tables, server
<1>5. TypeOK' BY <1>2, <1>4 DEF IInv, TypeOK
<1>6. RowsOK' /\ Migrating' /\ AdoptedWasLive'
  BY <1>4 DEF IInv, RowsOK, Migrating, AdoptedWasLive, Single, Outdated, LiveIn, Live
<1>7. ASSUME NEW u \in Txs PROVE TxOK(tx[u])'
  <2>1. TxOK(tx'[u]) BY <1>3 DEF IInv
  <2> QED BY <1>4, <2>1 DEF TxOK, Fits, Holds, Numbered, LiveIn, Live, In, Exists
<1>8. AllApart'
  <2> SUFFICES ASSUME NEW v \in Txs, NEW u \in Txs, v # u PROVE Apart(tx'[v], tx'[u])
    BY DEF AllApart, Apart, Written, Bringing
  <2>1. CASE v = t BY <1>3, <2>1
  <2>2. CASE u = t
    <3>1. Apart(tx'[u], tx'[v]) BY <1>3, <2>2
    <3> QED BY <3>1 DEF Apart
  <2>3. CASE v # t /\ u # t BY <1>3, <2>3 DEF IInv, AllApart
  <2> QED BY <2>1, <2>2, <2>3
<1> QED BY <1>5, <1>6, <1>7, <1>8 DEF IInv

LEMMA NoTxTyped == NoTx \in Tx
BY HarnessAssumption DEF NoTx, Tx, Ops, Places

\* A request that is over, or idle, asks nothing of the others.
LEMMA Idles ==
    ASSUME NEW r, r.at \in {"idle", "done", "note"}, r.locks = {}
    PROVE  \A s : Apart(r, s)
BY DEF Apart, Written

\* Request t has ended and holds nothing.
Ended(t) == [NoTx EXCEPT !.op = tx[t].op, !.at = "done"]

LEMMA EndedOK ==
    ASSUME IInv, NEW t \in Txs, tx[t].at # "idle"
    PROVE  /\ Ended(t) \in Tx /\ TxOK(Ended(t)) /\ Ended(t).at = "done" /\ Ended(t).locks = {}
           /\ open
<1>1. tx[t] \in Tx BY DEF IInv, TypeOK
<1>2. Ended(t) \in Tx BY <1>1, NoTxTyped DEF Ended, Tx, Places
<1>3. Ended(t).at = "done" /\ Ended(t).locks = {} /\ Ended(t).marks = {} BY DEF Ended, NoTx
<1>4. open BY DEF IInv, TxOK, Fits
<1>5. TxOK(Ended(t)) BY <1>3, <1>4 DEF TxOK, Fits, Holds, Numbered, Under, Written
<1> QED BY <1>2, <1>3, <1>4, <1>5

LEMMA EndKeeps ==
    ASSUME IInv, NEW t \in Txs, tx[t].at # "idle", End(t), UNCHANGED <<tables, server>>
    PROVE  IInv'
<1>1. tx' = [tx EXCEPT ![t] = Ended(t)] BY DEF End, Ended
<1>2. /\ Ended(t) \in Tx /\ TxOK(Ended(t))
      /\ \A s : Apart(Ended(t), s)
  BY EndedOK, Idles
<1> QED BY <1>1, <1>2, TxMoves
-----------------------------------------------------------------------------
LEMMA BeginKeeps ==
    ASSUME IInv, NEW t \in Txs, NEW op \in Ops \ {"none"}, NEW o \in Orgs, NEW i \in 0..MaxRows,
           Begin(t, op, o, i)
    PROVE  IInv'
<1> DEFINE r == [NoTx EXCEPT !.op = op, !.at = "read", !.org = o, !.id = i]
<1>1. open /\ (op \in {"activate", "discard"} <=> i # 0) /\ tx' = [tx EXCEPT ![t] = r]
  BY DEF Begin
<1>2. UNCHANGED <<tables, server>> BY DEF Begin
<1>3. r \in Tx BY NoTxTyped DEF Tx, Places
<1>4. /\ r.at = "read" /\ r.op = op /\ r.org = o /\ r.id = i /\ r.locks = {} /\ r.marks = {}
  BY DEF NoTx
<1>5. op \in {"activate", "discard"} => i \in Ids BY <1>1, HarnessAssumption DEF Ids
<1> HIDE DEF r
<1>6. Fits(r) BY <1>1, <1>4, <1>5 DEF Fits, Under, Answering, Bringing, Ops
<1>7. Holds(r) /\ Numbered(r) BY <1>4 DEF Holds, Numbered, Written
<1>8. \A s : Apart(r, s) BY <1>4 DEF Apart, Written
<1> QED BY <1>1, <1>2, <1>3, <1>6, <1>7, <1>8, TxMoves DEF TxOK

\* r is request t at a later place.
Onward(t, r) ==
    r \in Tx /\ r.op = tx[t].op /\ r.org = tx[t].org /\ r.id = tx[t].id

\* A request that holds nothing goes on to hold nothing.
LEMMA ReadsOn ==
    ASSUME IInv, NEW t \in Txs, NEW r, Onward(t, r),
           r.at \in {"match", "archive", "write", "insert"}, r.locks = {}, r.marks = {},
           Fits(r), Numbered(r), r.at = "archive" => \A i \in r.matched : rows[i].org = r.org,
           tx' = [tx EXCEPT ![t] = r], UNCHANGED <<tables, server>>
    PROVE  IInv'
<1>1. TxOK(r) BY DEF TxOK, Holds, Written
<1>2. \A s : Apart(r, s) BY DEF Apart, Written
<1> QED BY <1>1, <1>2, TxMoves DEF Onward

LEMMA ActivateReads ==
    ASSUME IInv, NEW t \in Txs, ActivateRead(t) \/ ActivateMatch(t) \/ DiscardRead(t)
    PROVE  IInv'
<1>1. /\ tx[t] \in Tx /\ TxOK(tx[t]) /\ tx \in [Txs -> Tx] /\ rows \in [Ids -> Row]
      /\ UNCHANGED <<tables, server>>
  BY DEF IInv, TypeOK, ActivateRead, ActivateMatch, DiscardRead
<1>2. tx[t].at \in {"read", "match"} BY DEF ActivateRead, ActivateMatch, DiscardRead, At
<1>3. tx[t].locks = {} /\ tx[t].marks = {} BY <1>1, <1>2 DEF TxOK, Holds, Written
<1>4. ASSUME End(t) PROVE IInv' BY <1>1, <1>2, <1>4, EndKeeps
<1>5. ASSUME NEW place \in {"match", "write"}, Move(t, place), tx[t].at = "read",
             place = "match" => tx[t].op = "activate", place = "write" => tx[t].op = "discard",
             rows[tx[t].id].org = tx[t].org
      PROVE  IInv'
  <2> DEFINE r == [tx[t] EXCEPT !.at = place]
  <2>1. tx' = [tx EXCEPT ![t] = r] BY <1>1, <1>5 DEF Move
  <2>2. r \in Tx BY <1>1 DEF Tx, Places
  <2>3. Onward(t, r) /\ r.at = place /\ r.locks = {} /\ r.marks = {}
    BY <1>1, <1>3, <2>2 DEF Onward, Tx
  <2> HIDE DEF r
  <2>4. Fits(r) BY <1>1, <1>5, <2>3 DEF TxOK, Fits, Onward, Under, Answering, Bringing
  <2>5. Numbered(r) BY <2>3 DEF Numbered
  <2> QED BY <1>1, <2>1, <2>3, <2>4, <2>5, ReadsOn
<1>6. CASE ActivateRead(t)
  <2>1. CASE rows[tx[t].id].org = tx[t].org /\ rows[tx[t].id].status # "discarded"
    BY <1>5, <1>6, <2>1 DEF ActivateRead, At
  <2>2. CASE ~(rows[tx[t].id].org = tx[t].org /\ rows[tx[t].id].status # "discarded")
    BY <1>4, <1>6, <2>2 DEF ActivateRead, At
  <2> QED BY <2>1, <2>2
<1>7. CASE DiscardRead(t)
  <2>1. CASE rows[tx[t].id].org = tx[t].org /\ rows[tx[t].id].status = "draft"
    BY <1>5, <1>7, <2>1 DEF DiscardRead, At
  <2>2. CASE ~(rows[tx[t].id].org = tx[t].org /\ rows[tx[t].id].status = "draft")
    BY <1>4, <1>7, <2>2 DEF DiscardRead, At
  <2> QED BY <2>1, <2>2
<1>8. CASE ActivateMatch(t)
  <2> DEFINE r == [tx[t] EXCEPT !.at = "archive", !.matched = LiveIn(tx[t].org)]
  <2>0. LiveIn(tx[t].org) \in SUBSET Ids BY DEF LiveIn
  <2>1. tx' = [tx EXCEPT ![t] = r] BY <1>1, <1>8 DEF ActivateMatch
  <2>2. r \in Tx BY <1>1, <2>0 DEF Tx, Places
  <2>3. /\ Onward(t, r) /\ r.at = "archive" /\ r.locks = {} /\ r.marks = {}
        /\ r.matched = LiveIn(tx[t].org)
    BY <1>1, <1>3, <2>2 DEF Onward, Tx
  <2> HIDE DEF r
  <2>4. Fits(r)
    BY <1>1, <1>8, <2>3 DEF ActivateMatch, At, TxOK, Fits, Onward, Under, Answering, Bringing
  <2>5. Numbered(r) BY <2>3 DEF Numbered
  <2>6. \A i \in r.matched : rows[i].org = r.org BY <2>3 DEF LiveIn, Onward
  <2> QED BY <1>1, <2>1, <2>3, <2>4, <2>5, <2>6, ReadsOn
<1> QED BY <1>6, <1>7, <1>8

\* The published rows are locked, as nobody else has written them.
LEMMA ArchiveKeeps ==
    ASSUME IInv, NEW t \in Txs, ActivateArchive(t)
    PROVE  IInv'
<1> DEFINE locks == {i \in tx[t].matched : Live(i)}
           r == [tx[t] EXCEPT !.at = "publish", !.locks = locks]
<1>1. /\ tx[t] \in Tx /\ TxOK(tx[t]) /\ tx \in [Txs -> Tx]
      /\ UNCHANGED <<tables, server>>
  BY DEF IInv, TypeOK, ActivateArchive
<1>2. tx[t].op = "activate" /\ tx[t].at = "archive" /\ tx[t].matched \cap LockedBeside(t) = {}
  BY DEF ActivateArchive, At
<1>3. tx[t].matched \in SUBSET Ids BY <1>1 DEF Tx
<1>4. \A i \in tx[t].matched : rows[i].org = tx[t].org BY <1>1, <1>2 DEF TxOK, Holds
<1>5. locks \in SUBSET Ids /\ locks \subseteq LiveIn(tx[t].org) BY <1>3, <1>4 DEF LiveIn
<1>6. tx[t].marks = {} BY <1>1, <1>2 DEF TxOK, Holds
<1>7. tx' = [tx EXCEPT ![t] = r] BY <1>1 DEF ActivateArchive
<1>8. \A u \in Txs \ {t} : locks \cap tx[u].locks = {} BY <1>2 DEF LockedBeside
<1> HIDE DEF locks
<1>9. r \in Tx BY <1>1, <1>5 DEF Tx, Places
<1>10. Onward(t, r) /\ r.at = "publish" /\ r.locks = locks /\ r.marks = {}
  BY <1>1, <1>6, <1>9 DEF Onward, Tx
<1> HIDE DEF r
<1>11. Fits(r) BY <1>1, <1>2, <1>10 DEF TxOK, Fits, Onward, Under, Answering, Bringing
<1>12. Holds(r) BY <1>5, <1>10 DEF Holds, Written, Onward
<1>13. Numbered(r) BY <1>10 DEF Numbered
<1>14. \A u \in Txs \ {t} : Apart(r, tx[u]) BY <1>8, <1>10 DEF Apart, Written
<1> QED BY <1>1, <1>7, <1>10, <1>11, <1>12, <1>13, <1>14, TxMoves DEF TxOK, Onward

\* The version is written with its slot: what is live in the workspace is
\* locked, or is the version itself.
LEMMA PublishKeeps ==
    ASSUME IInv, NEW t \in Txs, ActivatePublish(t)
    PROVE  IInv'
<1> DEFINE locks == tx[t].locks \cup {tx[t].id}
           r == [tx[t] EXCEPT !.at = "lessons", !.locks = locks]
<1>1. /\ tx[t] \in Tx /\ TxOK(tx[t]) /\ tx \in [Txs -> Tx] /\ rows \in [Ids -> Row]
      /\ UNCHANGED <<tables, server>> /\ RowsOK /\ Migrating
  BY DEF IInv, TypeOK, ActivatePublish
<1>2. /\ tx[t].op = "activate" /\ tx[t].at = "publish" /\ tx[t].id \notin LockedBeside(t)
      /\ \A u \in Txs \ {t} : ~TakesSlot(u, tx[t].org)
      /\ rows[tx[t].id].status # "discarded" /\ SlotRivals(t) = {}
  BY DEF ActivatePublish, CanPublish, At
<1>3. tx[t].id \in Ids /\ rows[tx[t].id].org = tx[t].org /\ open
  BY <1>1, <1>2 DEF TxOK, Fits, Under, Answering
<1>4. tx[t].locks \subseteq LiveIn(tx[t].org) /\ tx[t].marks = {}
  BY <1>1, <1>2 DEF TxOK, Holds, Written
<1>5. locks = {tx[t].id} \cup LiveIn(tx[t].org)
  <2>1. ASSUME NEW i \in LiveIn(tx[t].org) PROVE i \in locks
    <3>1. i \in In(tx[t].org) /\ rows[i].slot BY <1>1, <1>3 DEF LiveIn, In, Live, Exists, Migrating
    <3> QED BY <1>2, <3>1 DEF SlotRivals
  <2> QED BY <1>4, <2>1
<1>6. locks \in SUBSET Ids BY <1>3, <1>5 DEF LiveIn
<1>7. tx' = [tx EXCEPT ![t] = r] BY <1>1 DEF ActivatePublish
<1>8. \A u \in Txs \ {t} : locks \cap tx[u].locks = {}
  <2>1. \A u \in Txs \ {t} : tx[t].locks \cap tx[u].locks = {} BY DEF IInv, AllApart, Apart
  <2> QED BY <1>2, <2>1 DEF LockedBeside
<1> HIDE DEF locks
<1>9. r \in Tx BY <1>1, <1>6 DEF Tx, Places
<1>10. Onward(t, r) /\ r.at = "lessons" /\ r.locks = locks /\ r.marks = {}
  BY <1>1, <1>4, <1>9 DEF Onward, Tx
<1> HIDE DEF r
<1>11. Fits(r) BY <1>1, <1>2, <1>10 DEF TxOK, Fits, Onward, Under, Answering, Bringing
<1>12. Holds(r) BY <1>2, <1>5, <1>10 DEF Holds, Written, Onward, Bringing
<1>13. Numbered(r) BY <1>10 DEF Numbered
<1>14. \A u \in Txs \ {t} : Apart(r, tx[u])
  BY <1>2, <1>8, <1>10 DEF Apart, Written, TakesSlot, Onward
<1> QED BY <1>1, <1>7, <1>10, <1>11, <1>12, <1>13, <1>14, TxMoves DEF TxOK, Onward

LEMMA DiscardKeeps ==
    ASSUME IInv, NEW t \in Txs, DiscardWrite(t)
    PROVE  IInv'
<1> DEFINE r == [tx[t] EXCEPT !.at = "lessons", !.locks = {tx[t].id}]
<1>1. /\ tx[t] \in Tx /\ TxOK(tx[t]) /\ tx \in [Txs -> Tx]
      /\ UNCHANGED <<tables, server>>
  BY DEF IInv, TypeOK, DiscardWrite
<1>2. tx[t].op = "discard" /\ tx[t].at = "write" /\ tx[t].id \notin LockedBeside(t)
  BY DEF DiscardWrite, At
<1>3. CASE rows[tx[t].id].status = "draft"
  <2>1. tx[t].id \in Ids /\ tx[t].marks = {}
    BY <1>1, <1>2 DEF TxOK, Fits, Holds, Under, Answering
  <2>2. tx' = [tx EXCEPT ![t] = r] BY <1>1, <1>3 DEF DiscardWrite
  <2>3. r \in Tx BY <1>1, <2>1 DEF Tx, Places
  <2>4. Onward(t, r) /\ r.at = "lessons" /\ r.locks = {tx[t].id} /\ r.marks = {}
    BY <1>1, <2>1, <2>3 DEF Onward, Tx
  <2> HIDE DEF r
  <2>5. Fits(r) BY <1>1, <1>2, <2>4 DEF TxOK, Fits, Onward, Under, Answering, Bringing
  <2>6. Holds(r) BY <1>2, <1>3, <2>4 DEF Holds, Written, Onward, Bringing
  <2>7. Numbered(r) BY <2>4 DEF Numbered
  <2>8. \A u \in Txs \ {t} : Apart(r, tx[u])
    BY <1>2, <2>4 DEF Apart, Written, LockedBeside, Onward, Bringing
  <2> QED BY <1>1, <2>2, <2>4, <2>5, <2>6, <2>7, <2>8, TxMoves DEF TxOK, Onward
<1>4. CASE rows[tx[t].id].status # "draft" BY <1>1, <1>2, <1>4, EndKeeps DEF DiscardWrite
<1> QED BY <1>3, <1>4

LEMMA MarkKeeps ==
    ASSUME IInv, NEW t \in Txs, MarkLessons(t)
    PROVE  IInv'
<1> DEFINE marks == IF lessons[tx[t].id] = "suggested" THEN {tx[t].id} ELSE {}
           r == [tx[t] EXCEPT !.at = "commit", !.marks = marks]
<1>1. /\ tx[t] \in Tx /\ TxOK(tx[t]) /\ tx \in [Txs -> Tx]
      /\ UNCHANGED <<tables, server>> /\ tx[t].at = "lessons"
  BY DEF IInv, TypeOK, MarkLessons
<1>2. tx[t].id \in Ids /\ tx[t].op \in {"activate", "discard"}
  BY <1>1 DEF TxOK, Fits, Under, Answering
<1>3. marks \in SUBSET Ids /\ marks \subseteq {tx[t].id} BY <1>2
<1>4. tx' = [tx EXCEPT ![t] = r] BY <1>1 DEF MarkLessons
<1> HIDE DEF marks
<1>5. r \in Tx BY <1>1, <1>3 DEF Tx, Places
<1>6. Onward(t, r) /\ r.at = "commit" /\ r.locks = tx[t].locks /\ r.marks = marks
  BY <1>1, <1>5 DEF Onward, Tx
<1> HIDE DEF r
<1>7. Fits(r) BY <1>1, <1>2, <1>6 DEF TxOK, Fits, Onward, Under, Answering, Bringing
<1>8. Holds(r) BY <1>1, <1>2, <1>3, <1>6 DEF TxOK, Holds, Written, Onward, Answering, Bringing
<1>9. Numbered(r) BY <1>2, <1>6 DEF Numbered, Bringing, Onward
<1>10. \A u \in Txs \ {t} : Apart(r, tx[u])
  <2>1. \A u \in Txs \ {t} : Apart(tx[t], tx[u]) BY DEF IInv, AllApart
  <2> QED BY <1>1, <1>2, <1>6, <2>1 DEF Apart, Written, Onward, Bringing
<1> QED BY <1>1, <1>4, <1>6, <1>7, <1>8, <1>9, <1>10, TxMoves DEF TxOK, Onward
-----------------------------------------------------------------------------
LEMMA StageReads ==
    ASSUME IInv, NEW t \in Txs, StageRead(t)
    PROVE  IInv'
<1> DEFINE m == Max({0} \cup {rows[i].version : i \in In(tx[t].org)})
           next == m + 1
           r == [tx[t] EXCEPT !.at = "insert", !.version = next]
<1>1. /\ tx[t] \in Tx /\ TxOK(tx[t]) /\ tx \in [Txs -> Tx] /\ rows \in [Ids -> Row]
      /\ UNCHANGED <<tables, server>>
      /\ tx[t].op \in {"stage", "import"} /\ tx[t].at = "read"
  BY DEF IInv, TypeOK, StageRead, Stages
<1>2. /\ m \in Nat
      /\ m = 0 \/ \E i \in In(tx[t].org) : rows[i].version = m
      /\ \A i \in In(tx[t].org) : rows[i].version <= m
  BY <1>1, NextVersion
<1>3. tx[t].locks = {} /\ tx[t].marks = {} BY <1>1 DEF TxOK, Holds, Written
<1>4. tx' = [tx EXCEPT ![t] = r] BY <1>1 DEF StageRead
<1> HIDE DEF m
<1>45. next \in Nat BY <1>2
<1> HIDE DEF next
<1>5. r \in Tx BY <1>1, <1>45 DEF Tx, Places
<1>6. Onward(t, r) /\ r.at = "insert" /\ r.locks = {} /\ r.marks = {} /\ r.version = m + 1
  BY <1>1, <1>3, <1>5 DEF Onward, Tx, next
<1> HIDE DEF r
<1>7. Fits(r) BY <1>1, <1>6 DEF TxOK, Fits, Onward, Under, Answering, Bringing
<1>8. Numbered(r)
  <2>1. m + 1 \in Nat \ {0} /\ (m = 0 => m + 1 = 1) /\ (m + 1) - 1 = m BY <1>2
  <2>2. \A i \in In(r.org) : ~(rows[i].version >= r.version)
    <3>1. \A i \in In(r.org) : rows[i].version \in Nat /\ rows[i].version <= m
      BY <1>1, <1>2, <1>6 DEF In, Row, Onward
    <3> QED BY <1>2, <1>6, <3>1
  <2> QED BY <1>2, <1>6, <2>1, <2>2 DEF Numbered, Onward
<1> QED BY <1>1, <1>4, <1>6, <1>7, <1>8, ReadsOn

\* Two requests at their commit in one workspace would carry one number.
LEMMA OneInserts ==
    ASSUME IInv, NEW t \in Txs, NEW u \in Txs, tx[t].org = tx[u].org,
           Bringing(tx[t]), tx[t].at = "insert", Bringing(tx[u]), tx[u].at = "commit",
           ~\E i \in In(tx[t].org) : rows[i].version = tx[t].version
    PROVE  tx[t].version = tx[u].version
<1> DEFINE v == tx[t].version
           w == tx[u].version
           o == tx[t].org
<1>1. TxOK(tx[t]) /\ TxOK(tx[u]) /\ rows \in [Ids -> Row] BY DEF IInv, TypeOK
<1>2. v \in Nat \ {0} /\ w \in Nat \ {0} BY <1>1 DEF TxOK, Numbered
<1>3. /\ v = 1 \/ \E i \in In(o) : rows[i].version = v - 1
      /\ w = 1 \/ \E i \in In(o) : rows[i].version = w - 1
  BY <1>1 DEF TxOK, Numbered
<1>4. \A i \in In(o) : ~(rows[i].version >= v) /\ ~(rows[i].version >= w)
  BY <1>1 DEF TxOK, Numbered
<1>5. \A i \in In(o) : rows[i].version \in Nat BY <1>1 DEF In, Row
<1>6. ~(v < w)
  <2> SUFFICES ASSUME v < w PROVE FALSE OBVIOUS
  <2>1. w # 1 BY <1>2
  <2>2. PICK i \in In(o) : rows[i].version = w - 1 BY <1>3, <2>1
  <2>3. w - 1 >= v BY <1>2
  <2> QED BY <1>4, <2>2, <2>3
<1>7. ~(w < v)
  <2> SUFFICES ASSUME w < v PROVE FALSE OBVIOUS
  <2>1. v # 1 BY <1>2
  <2>2. PICK i \in In(o) : rows[i].version = v - 1 BY <1>3, <2>1
  <2>3. v - 1 >= w BY <1>2
  <2> QED BY <1>4, <2>2, <2>3
<1> QED BY <1>2, <1>6, <1>7

LEMMA StageInserts ==
    ASSUME IInv, NEW t \in Txs, StageInsert(t)
    PROVE  IInv'
<1> DEFINE r == [tx[t] EXCEPT !.at = "commit"]
           taken == \E i \in In(tx[t].org) : rows[i].version = tx[t].version
<1>1. /\ tx[t] \in Tx /\ TxOK(tx[t]) /\ tx \in [Txs -> Tx]
      /\ UNCHANGED <<tables, server>> /\ tx[t].at = "insert"
  BY DEF IInv, TypeOK, StageInsert
<1>2. tx[t].op \in {"stage", "import"} BY <1>1 DEF TxOK, Fits, Bringing
<1>3. CASE taken BY <1>1, <1>3, EndKeeps DEF StageInsert
<1>4. CASE ~taken
  <2>1. tx' = [tx EXCEPT ![t] = r] BY <1>1, <1>4 DEF StageInsert, Move
  <2>2. tx[t].locks = {} /\ tx[t].marks = {} BY <1>1 DEF TxOK, Holds, Written
  <2>3. r \in Tx BY <1>1 DEF Tx, Places
  <2>4. /\ Onward(t, r) /\ r.at = "commit" /\ r.locks = {} /\ r.marks = {}
        /\ r.version = tx[t].version
    BY <1>1, <2>2, <2>3 DEF Onward, Tx
  <2> HIDE DEF r
  <2>5. Fits(r) BY <1>1, <1>2, <2>4 DEF TxOK, Fits, Onward, Under, Answering, Bringing
  <2>6. Holds(r) BY <1>2, <2>4 DEF Holds, Written, Onward, Bringing
  <2>7. Numbered(r) BY <1>1, <1>2, <1>4, <2>4 DEF TxOK, Numbered, Onward, Bringing
  <2>8. ASSUME NEW u \in Txs \ {t} PROVE Apart(r, tx[u])
    <3>1. ~(tx[u].org = tx[t].org /\ Bringing(tx[u]) /\ tx[u].at = "commit")
      <4>1. ~(/\ Bringing(tx[u]) /\ tx[u].at = "commit"
              /\ tx[u].org = tx[t].org /\ tx[u].version = tx[t].version)
        BY DEF StageInsert, Stages, Bringing
      <4> QED BY <1>1, <1>2, <1>4, <4>1, OneInserts DEF Bringing
    <3> QED BY <1>2, <2>4, <3>1 DEF Apart, Onward, Bringing
  <2> QED BY <1>1, <2>1, <2>4, <2>5, <2>6, <2>7, <2>8, TxMoves DEF TxOK, Onward
<1> QED BY <1>3, <1>4
-----------------------------------------------------------------------------
LEMMA SingleOutdated ==
    ASSUME rows \in [Ids -> Row], Single
    PROVE  Outdated = {}
<1>1. \A i \in Ids : rows[i].version \in Nat BY DEF Row
<1>2. ASSUME NEW i \in Outdated PROVE FALSE
  <2>1. PICK j \in LiveIn(rows[i].org) : rows[j].version > rows[i].version BY <1>2 DEF Outdated
  <2>2. i \in Ids /\ j \in Ids /\ i = j BY <1>2, <2>1 DEF Outdated, LiveIn, Single
  <2> QED BY <1>1, <2>1, <2>2
<1> QED BY <1>2

\* A step that changes only the status and the slot of versions request u has
\* not written leaves u what it goes by.
LEMMA OthersKeep ==
    ASSUME IInv, NEW u \in Txs, tx'[u] = tx[u], open' = open,
           \A i \in Ids : /\ rows'[i].org = rows[i].org /\ rows'[i].version = rows[i].version
                          /\ rows'[i].status = "none" <=> rows[i].status = "none",
           \A i \in tx[u].locks : rows'[i] = rows[i],
           tx[u].op = "activate" /\ Written(tx[u]) => LiveIn(tx[u].org)' = LiveIn(tx[u].org)
    PROVE  TxOK(tx[u])'
<1>1. TxOK(tx[u]) /\ tx[u] \in Tx BY DEF IInv, TypeOK
<1>2. \A o : In(o)' = In(o) BY DEF In, Exists
<1>3. Fits(tx[u])' BY <1>1 DEF TxOK, Fits, Under, Answering, Bringing
<1>4. Numbered(tx[u])'
  <2>1. \A o : \A i \in In(o) : rows'[i].version = rows[i].version BY DEF In
  <2> QED BY <1>1, <1>2, <2>1 DEF TxOK, Numbered, Bringing
<1>5. Holds(tx[u])'
  <2>1. tx[u].at = "archive" => \A i \in tx[u].matched : rows'[i].org = tx[u].org
    BY <1>1 DEF TxOK, Holds, Tx
  <2>2. tx[u].at = "publish" => tx[u].locks \subseteq LiveIn(tx[u].org)'
    BY <1>1 DEF TxOK, Holds, Written, LiveIn, Live
  <2>3. Written(tx[u]) /\ tx[u].op \in {"activate", "discard"} => rows'[tx[u].id] = rows[tx[u].id]
    BY <1>1 DEF TxOK, Holds
  <2> QED BY <1>1, <2>1, <2>2, <2>3 DEF TxOK, Holds, Written, Answering, Bringing
<1> QED BY <1>3, <1>4, <1>5 DEF TxOK

\* The commit of an activation or a discard.
LEMMA CommitMoves ==
    ASSUME IInv, NEW t \in Txs, tx[t].at # "idle", tx' = [tx EXCEPT ![t] = Ended(t)],
           UNCHANGED server,
           rows' \in [Ids -> Row], lessons' \in [Ids -> LessonStatuses],
           \A i \in Ids : /\ rows'[i].org = rows[i].org /\ rows'[i].version = rows[i].version
                          /\ rows'[i].status = "none" <=> rows[i].status = "none",
           \A i \in Ids \ tx[t].locks : rows'[i] = rows[i],
           \A u \in Txs \ {t} : tx[u].op = "activate" /\ Written(tx[u])
                                  => LiveIn(tx[u].org)' = LiveIn(tx[u].org),
           Single', \A i \in Ids : rows'[i].slot <=> rows'[i].status = "published",
           AdoptedWasLive'
    PROVE  IInv'
<1>1. /\ tx \in [Txs -> Tx] /\ Ended(t) \in Tx /\ Ended(t).at = "done" /\ Ended(t).locks = {} /\ open
      /\ rows \in [Ids -> Row]
  BY EndedOK DEF IInv, TypeOK
<1>2. UNCHANGED <<mig, dups, open, boots>> BY DEF server
<1>3. tx'[t] = Ended(t) /\ \A u \in Txs \ {t} : tx'[u] = tx[u] BY <1>1
<1>4. TypeOK' BY <1>1, <1>2 DEF IInv, TypeOK
<1>5. RowsOK' BY DEF IInv, RowsOK
<1>6. Migrating'
  <2>1. Outdated = {} BY <1>1, SingleOutdated DEF IInv, Migrating
  <2>2. Outdated' = {}
    <3>1. \A i \in Ids : rows'[i].version \in Nat BY DEF Row
    <3>2. ASSUME NEW i \in Outdated' PROVE FALSE
      <4>1. PICK j \in LiveIn(rows[i].org)' : rows'[j].version > rows'[i].version BY <3>2 DEF Outdated
      <4>2. i \in Ids /\ j \in Ids /\ i = j BY <3>2, <4>1 DEF Outdated, LiveIn, Live, Single
      <4> QED BY <3>1, <4>1, <4>2
    <3> QED BY <3>2
  <2>3. \A i \in Ids : (rows[i].slot <=> Live(i))' BY DEF Live
  <2> QED BY <1>1, <1>2, <2>1, <2>2, <2>3 DEF IInv, Migrating
<1>7. ASSUME NEW u \in Txs PROVE TxOK(tx[u])'
  <2>1. CASE u = t
    <3>1. Ended(t).at = "done" /\ Ended(t).locks = {} /\ Ended(t).marks = {} BY DEF Ended, NoTx
    <3>2. tx'[u].at = "done" /\ tx'[u].locks = {} /\ tx'[u].marks = {} BY <1>3, <2>1, <3>1
    <3> QED BY <1>1, <1>2, <3>2 DEF TxOK, Fits, Holds, Numbered, Under, Written
  <2>2. CASE u # t
    <3>1. tx[u].locks \subseteq Ids /\ tx[u].locks \cap tx[t].locks = {}
      BY <1>1, <2>2 DEF IInv, AllApart, Apart, Tx
    <3> QED BY <1>2, <1>3, <2>2, <3>1, OthersKeep
  <2> QED BY <2>1, <2>2
<1>8. AllApart'
  <2> SUFFICES ASSUME NEW v \in Txs, NEW u \in Txs, v # u PROVE Apart(tx'[v], tx'[u])
    BY DEF AllApart, Apart, Written, Bringing
  <2>1. \A r : Apart(Ended(t), r) /\ Apart(r, Ended(t)) BY <1>1, Idles DEF Apart
  <2>2. v # t /\ u # t => Apart(tx'[v], tx'[u]) BY <1>3 DEF IInv, AllApart
  <2> QED BY <1>3, <2>1, <2>2
<1> QED BY <1>4, <1>5, <1>6, <1>7, <1>8 DEF IInv

\* What an activation commits: its version live, the others of its workspace
\* archived, all in one.
LEMMA ActivateEffect ==
    ASSUME IInv, NEW t \in Txs, CommitActivate(t)
    PROVE  /\ tx[t].id \in Ids /\ rows[tx[t].id].org = tx[t].org
           /\ rows[tx[t].id].status \notin {"none", "discarded"}
           /\ tx[t].locks = {tx[t].id} \cup LiveIn(tx[t].org)
           /\ rows' \in [Ids -> Row]
           /\ \A i \in Ids : rows'[i].org = rows[i].org /\ rows'[i].version = rows[i].version
           /\ rows'[tx[t].id].status = "published" /\ rows'[tx[t].id].slot = TRUE
           /\ \A i \in LiveIn(tx[t].org) \ {tx[t].id} :
                 rows'[i].status = "archived" /\ rows'[i].slot = FALSE
           /\ \A i \in Ids \ tx[t].locks : rows'[i] = rows[i]
<1>1. /\ TxOK(tx[t]) /\ rows \in [Ids -> Row] /\ tx[t].op = "activate" /\ tx[t].at = "commit"
      /\ RowsOK /\ None \notin Orgs
  BY HarnessAssumption DEF IInv, TypeOK, CommitActivate, At
<1>2. tx[t].id \in Ids /\ rows[tx[t].id].org = tx[t].org /\ tx[t].org \in Orgs
  BY <1>1 DEF TxOK, Fits, Under, Answering
<1>3. /\ tx[t].locks = {tx[t].id} \cup LiveIn(tx[t].org)
      /\ rows[tx[t].id].status \notin {"none", "discarded"}
  BY <1>1, <1>2 DEF TxOK, Holds, Written, RowsOK
<1>4. rows' = [i \in Ids |->
           IF i = tx[t].id THEN [rows[i] EXCEPT !.status = "published", !.slot = TRUE]
           ELSE IF i \in tx[t].locks THEN [rows[i] EXCEPT !.status = "archived", !.slot = FALSE]
           ELSE rows[i]]
  BY DEF CommitActivate
<1>5. ASSUME NEW i \in Ids
      PROVE  /\ rows'[i] \in Row /\ rows'[i].org = rows[i].org /\ rows'[i].version = rows[i].version
             /\ i = tx[t].id => rows'[i].status = "published" /\ rows'[i].slot = TRUE
             /\ i \in tx[t].locks \ {tx[t].id} => rows'[i].status = "archived" /\ rows'[i].slot = FALSE
             /\ i \notin tx[t].locks => rows'[i] = rows[i]
  <2>1. rows[i] \in Row BY <1>1
  <2>2. CASE i = tx[t].id
    <3>1. rows'[i] = [rows[i] EXCEPT !.status = "published", !.slot = TRUE] BY <1>4, <2>2
    <3> QED BY <1>3, <2>1, <2>2, <3>1 DEF Row, Statuses
  <2>3. CASE i # tx[t].id /\ i \in tx[t].locks
    <3>1. rows'[i] = [rows[i] EXCEPT !.status = "archived", !.slot = FALSE] BY <1>4, <2>3
    <3> QED BY <2>1, <2>3, <3>1 DEF Row, Statuses
  <2>4. CASE i # tx[t].id /\ i \notin tx[t].locks
    <3>1. rows'[i] = rows[i] BY <1>4, <2>4
    <3> QED BY <2>1, <2>4, <3>1
  <2> QED BY <2>2, <2>3, <2>4
<1>6. rows' \in [Ids -> Row]
  <2>1. rows' = [i \in Ids |-> rows'[i]] BY <1>4
  <2> QED BY <1>5, <2>1
<1>7. LiveIn(tx[t].org) \subseteq Ids BY DEF LiveIn
<1> QED BY <1>2, <1>3, <1>5, <1>6, <1>7

LEMMA CommitActivateKeeps ==
    ASSUME IInv, NEW t \in Txs, CommitActivate(t)
    PROVE  IInv'
<1> DEFINE id == tx[t].id
           o == tx[t].org
<1>1. /\ tx[t] \in Tx /\ TxOK(tx[t]) /\ tx[t].op = "activate" /\ tx[t].at = "commit" /\ open
      /\ rows \in [Ids -> Row] /\ lessons \in [Ids -> LessonStatuses] /\ Migrating
      /\ tx' = [tx EXCEPT ![t] = Ended(t)] /\ UNCHANGED server
  BY EndedOK DEF IInv, TypeOK, CommitActivate, At, End, Ended
<1>2. /\ id \in Ids /\ rows[id].org = o /\ rows[id].status \notin {"none", "discarded"}
      /\ tx[t].locks = {id} \cup LiveIn(o)
      /\ rows' \in [Ids -> Row]
      /\ \A i \in Ids : rows'[i].org = rows[i].org /\ rows'[i].version = rows[i].version
      /\ rows'[id].status = "published" /\ rows'[id].slot = TRUE
      /\ \A i \in LiveIn(o) \ {id} : rows'[i].status = "archived" /\ rows'[i].slot = FALSE
      /\ \A i \in Ids \ tx[t].locks : rows'[i] = rows[i]
  BY ActivateEffect
<1>3. lessons' = [i \in Ids |-> IF i \in tx[t].marks THEN "adopted" ELSE lessons[i]]
  BY DEF CommitActivate
<1>4. tx[t].marks \subseteq {id} BY <1>1 DEF TxOK, Holds, Answering
<1> HIDE DEF id, o
<1>5. lessons' \in [Ids -> LessonStatuses] BY <1>1, <1>3 DEF LessonStatuses
<1>6. \A i \in Ids : rows'[i].status = "none" <=> rows[i].status = "none"
  <2> TAKE i \in Ids
  <2>1. CASE i = id BY <1>2, <2>1
  <2>2. CASE i \in LiveIn(o) \ {id} BY <1>2, <2>2 DEF LiveIn, Live
  <2>3. CASE i \notin tx[t].locks BY <1>2, <2>3
  <2> QED BY <1>2, <2>1, <2>2, <2>3
<1>7. \A i \in Ids : Live(i)' => i = id \/ (Live(i) /\ rows[i].org # o)
  <2> TAKE i \in Ids
  <2>1. CASE i = id BY <2>1
  <2>2. CASE i \in LiveIn(o) \ {id} BY <1>2, <2>2 DEF Live
  <2>3. CASE i \notin tx[t].locks BY <1>2, <2>3 DEF LiveIn, Live
  <2> QED BY <1>2, <2>1, <2>2, <2>3
<1>8. Single'
  <2> SUFFICES ASSUME NEW i \in Ids, NEW j \in Ids, Live(i)', Live(j)', rows'[i].org = rows'[j].org
               PROVE  i = j
    BY DEF Single
  <2>1. rows[i].org = rows[j].org BY <1>2
  <2> QED BY <1>1, <1>2, <1>7, <2>1 DEF Migrating, Single
<1>9. \A i \in Ids : rows'[i].slot <=> rows'[i].status = "published"
  <2> TAKE i \in Ids
  <2>1. CASE i = id BY <1>2, <2>1
  <2>2. CASE i \in LiveIn(o) \ {id} BY <1>2, <2>2
  <2>3. CASE i \notin tx[t].locks BY <1>1, <1>2, <2>3 DEF Migrating, Live
  <2> QED BY <1>2, <2>1, <2>2, <2>3
<1>10. AdoptedWasLive'
  <2> SUFFICES ASSUME NEW i \in Ids, lessons'[i] = "adopted"
               PROVE  rows'[i].status \in {"published", "archived"}
    BY DEF AdoptedWasLive
  <2>1. CASE i = id BY <1>2, <2>1
  <2>2. CASE i \in LiveIn(o) \ {id} BY <1>2, <2>2
  <2>3. CASE i \notin tx[t].locks
    <3>1. i \notin tx[t].marks BY <1>2, <1>4, <2>3
    <3>2. lessons[i] = "adopted" BY <1>3, <3>1
    <3> QED BY <1>2, <2>3, <3>2 DEF IInv, AdoptedWasLive
  <2> QED BY <1>2, <2>1, <2>2, <2>3
<1>11. ASSUME NEW u \in Txs \ {t}, tx[u].op = "activate", Written(tx[u])
       PROVE  LiveIn(tx[u].org)' = LiveIn(tx[u].org)
  <2>1. tx[u].org # o BY <1>1, <1>11 DEF IInv, AllApart, Apart, Written, o
  <2>2. ASSUME NEW i \in Ids, rows[i].org = tx[u].org PROVE rows'[i] = rows[i]
    <3>1. i \notin tx[t].locks BY <1>2, <2>1, <2>2 DEF LiveIn
    <3> QED BY <1>2, <3>1
  <2>3. \A i \in Ids : rows'[i].org = rows[i].org BY <1>2
  <2>4. \A i \in Ids : (Live(i) /\ rows[i].org = tx[u].org) <=> (Live(i)' /\ rows'[i].org = tx[u].org)
    BY <2>2, <2>3 DEF Live
  <2>5. tx'[u] = tx[u] BY <1>1 DEF IInv, TypeOK
  <2> QED BY <2>4, <2>5 DEF LiveIn
<1>12. \A i \in Ids : /\ rows'[i].org = rows[i].org /\ rows'[i].version = rows[i].version
                      /\ rows'[i].status = "none" <=> rows[i].status = "none"
  BY <1>2, <1>6
<1>13. \A u \in Txs \ {t} : tx[u].op = "activate" /\ Written(tx[u])
                              => LiveIn(tx[u].org)' = LiveIn(tx[u].org)
  BY <1>11
<1>14. /\ tx[t].at # "idle" /\ tx' = [tx EXCEPT ![t] = Ended(t)] /\ UNCHANGED server
       /\ rows' \in [Ids -> Row] /\ \A i \in Ids \ tx[t].locks : rows'[i] = rows[i]
  BY <1>1, <1>2
<1> QED BY <1>5, <1>8, <1>9, <1>10, <1>12, <1>13, <1>14, CommitMoves

\* What a discard commits: a draft is thrown away.
LEMMA DiscardEffect ==
    ASSUME IInv, NEW t \in Txs, CommitDiscard(t)
    PROVE  /\ tx[t].id \in Ids /\ rows[tx[t].id].status = "draft" /\ tx[t].locks = {tx[t].id}
           /\ rows' = [rows EXCEPT ![tx[t].id].status = "discarded"]
           /\ rows' \in [Ids -> Row]
           /\ \A i \in Ids : /\ rows'[i].org = rows[i].org /\ rows'[i].version = rows[i].version
                             /\ rows'[i].slot = rows[i].slot
           /\ rows'[tx[t].id].status = "discarded"
           /\ \A i \in Ids \ {tx[t].id} : rows'[i] = rows[i]
<1>1. /\ TxOK(tx[t]) /\ rows \in [Ids -> Row] /\ tx[t].op = "discard" /\ tx[t].at = "commit"
  BY DEF IInv, TypeOK, CommitDiscard, At
<1>2. /\ tx[t].id \in Ids /\ rows[tx[t].id].status = "draft" /\ tx[t].locks = {tx[t].id}
  BY <1>1 DEF TxOK, Fits, Holds, Under, Answering, Written
<1>3. rows' = [rows EXCEPT ![tx[t].id].status = "discarded"] BY DEF CommitDiscard
<1> DEFINE new == [rows[tx[t].id] EXCEPT !.status = "discarded"]
<1>4. rows' = [rows EXCEPT ![tx[t].id] = new] BY <1>1, <1>3
<1>5. new \in Row BY <1>1, <1>2 DEF Row, Statuses
<1>6. /\ new.status = "discarded" /\ new.org = rows[tx[t].id].org
      /\ new.version = rows[tx[t].id].version /\ new.slot = rows[tx[t].id].slot
  BY <1>1, <1>2 DEF Row
<1> HIDE DEF new
<1>7. rows' \in [Ids -> Row] BY <1>1, <1>4, <1>5
<1>8. rows'[tx[t].id] = new /\ \A i \in Ids \ {tx[t].id} : rows'[i] = rows[i]
  BY <1>1, <1>2, <1>4
<1> QED BY <1>2, <1>3, <1>6, <1>7, <1>8

LEMMA CommitDiscardKeeps ==
    ASSUME IInv, NEW t \in Txs, CommitDiscard(t)
    PROVE  IInv'
<1> DEFINE id == tx[t].id
<1>1. /\ tx[t] \in Tx /\ tx[t].op = "discard" /\ tx[t].at = "commit" /\ open /\ TxOK(tx[t])
      /\ tx \in [Txs -> Tx] /\ lessons \in [Ids -> LessonStatuses] /\ Migrating
      /\ tx' = [tx EXCEPT ![t] = Ended(t)] /\ UNCHANGED server
  BY EndedOK DEF IInv, TypeOK, CommitDiscard, At, End, Ended
<1>2. /\ id \in Ids /\ rows[id].status = "draft" /\ tx[t].locks = {id}
      /\ rows' \in [Ids -> Row]
      /\ \A i \in Ids : /\ rows'[i].org = rows[i].org /\ rows'[i].version = rows[i].version
                        /\ rows'[i].slot = rows[i].slot
      /\ rows'[id].status = "discarded"
      /\ \A i \in Ids \ {id} : rows'[i] = rows[i]
  BY DiscardEffect
<1>3. lessons' = [i \in Ids |-> IF i \in tx[t].marks THEN "dismissed" ELSE lessons[i]]
  BY DEF CommitDiscard
<1>4. lessons' \in [Ids -> LessonStatuses] BY <1>1, <1>3 DEF LessonStatuses
<1> HIDE DEF id
<1>5. \A i \in Ids : Live(i)' <=> Live(i) BY <1>2 DEF Live
<1>6. \A o : LiveIn(o)' = LiveIn(o)
  <2> TAKE o
  <2>1. \A i \in Ids : (Live(i) /\ rows[i].org = o) <=> (Live(i)' /\ rows'[i].org = o) BY <1>2, <1>5
  <2> QED BY <2>1 DEF LiveIn
<1>7. Single' BY <1>1, <1>2, <1>5 DEF Single, Migrating
<1>8. \A i \in Ids : rows'[i].slot <=> rows'[i].status = "published"
  BY <1>1, <1>2, <1>5 DEF Migrating, Live
<1>9. AdoptedWasLive'
  <2> SUFFICES ASSUME NEW i \in Ids, lessons'[i] = "adopted"
               PROVE  rows'[i].status \in {"published", "archived"}
    BY DEF AdoptedWasLive
  <2>1. lessons[i] = "adopted" BY <1>3
  <2>2. rows[i].status \in {"published", "archived"} BY <2>1 DEF IInv, AdoptedWasLive
  <2> QED BY <1>2, <2>2
<1>10. \A i \in Ids : /\ rows'[i].org = rows[i].org /\ rows'[i].version = rows[i].version
                      /\ rows'[i].status = "none" <=> rows[i].status = "none"
  BY <1>2
<1>11. \A u \in Txs \ {t} : tx[u].op = "activate" /\ Written(tx[u])
                              => LiveIn(tx[u].org)' = LiveIn(tx[u].org)
  <2>1. \A u \in Txs \ {t} : tx'[u] = tx[u] BY <1>1
  <2> QED BY <1>6, <2>1
<1>12. /\ tx[t].at # "idle" /\ tx' = [tx EXCEPT ![t] = Ended(t)] /\ UNCHANGED server
       /\ rows' \in [Ids -> Row] /\ \A i \in Ids \ tx[t].locks : rows'[i] = rows[i]
  BY <1>1, <1>2
<1> QED BY <1>4, <1>7, <1>8, <1>9, <1>10, <1>11, <1>12, CommitMoves

\* What a request that brings a version commits: a draft of its workspace
\* under a free id, numbered above every version there.
LEMMA StageEffect ==
    ASSUME IInv, NEW t \in Txs, CommitStage(t)
    PROVE  /\ tx[t].org \in Orgs /\ tx[t].version \in Nat
           /\ tx[t].version = 1 \/ \E j \in In(tx[t].org) : rows[j].version = tx[t].version - 1
           /\ \A j \in In(tx[t].org) : rows[j].version < tx[t].version
           /\ \E i \in Ids :
                 /\ rows[i].status = "none" /\ rows[i].org = None
                 /\ rows' \in [Ids -> Row]
                 /\ rows'[i].org = tx[t].org /\ rows'[i].version = tx[t].version
                 /\ rows'[i].status = "draft" /\ rows'[i].slot = FALSE
                 /\ \A j \in Ids \ {i} : rows'[j] = rows[j]
                 /\ \/ tx' = [tx EXCEPT ![t] = [NoTx EXCEPT !.op = "import", !.at = "note", !.id = i]]
                    \/ tx' = [tx EXCEPT ![t] = Ended(t)]
<1>1. /\ tx[t] \in Tx /\ TxOK(tx[t]) /\ rows \in [Ids -> Row] /\ RowsOK
      /\ tx[t].op \in {"stage", "import"} /\ tx[t].at = "commit"
  BY DEF IInv, TypeOK, CommitStage, Stages
<1>2. tx[t].org \in Orgs BY <1>1 DEF TxOK, Fits, Under
<1>3. /\ tx[t].version \in Nat
      /\ tx[t].version = 1 \/ \E j \in In(tx[t].org) : rows[j].version = tx[t].version - 1
      /\ \A j \in In(tx[t].org) : ~(rows[j].version >= tx[t].version)
  BY <1>1 DEF TxOK, Numbered, Bringing
<1>4. \A j \in In(tx[t].org) : rows[j].version < tx[t].version
  <2>1. \A j \in In(tx[t].org) : rows[j].version \in Nat BY <1>1 DEF In, Row
  <2> QED BY <1>3, <2>1
<1> DEFINE new == [org |-> tx[t].org, version |-> tx[t].version, status |-> "draft", slot |-> FALSE]
<1>5. PICK i \in Ids :
          /\ ~Exists(i)
          /\ rows' = [rows EXCEPT ![i] = new]
          /\ IF tx[t].op = "import"
             THEN tx' = [tx EXCEPT ![t] = [NoTx EXCEPT !.op = "import", !.at = "note", !.id = i]]
             ELSE End(t)
  BY DEF CommitStage
<1>6. new \in Row BY <1>2, <1>3 DEF Row, Statuses
<1>7. /\ new.org = tx[t].org /\ new.version = tx[t].version /\ new.status = "draft"
      /\ new.slot = FALSE
  OBVIOUS
<1> HIDE DEF new
<1>8. rows' \in [Ids -> Row] /\ rows'[i] = new /\ \A j \in Ids \ {i} : rows'[j] = rows[j]
  BY <1>1, <1>5, <1>6
<1>9. rows[i].status = "none" /\ rows[i].org = None BY <1>1, <1>5 DEF Exists, RowsOK
<1>10. \/ tx' = [tx EXCEPT ![t] = [NoTx EXCEPT !.op = "import", !.at = "note", !.id = i]]
       \/ tx' = [tx EXCEPT ![t] = Ended(t)]
  BY <1>5 DEF End, Ended
<1> QED BY <1>2, <1>3, <1>4, <1>7, <1>8, <1>9, <1>10

LEMMA CommitStageKeeps ==
    ASSUME IInv, NEW t \in Txs, CommitStage(t)
    PROVE  IInv'
<1> DEFINE o == tx[t].org
           n == tx[t].version
<1>1. /\ tx \in [Txs -> Tx] /\ rows \in [Ids -> Row] /\ lessons \in [Ids -> LessonStatuses]
      /\ UNCHANGED <<lessons, server>> /\ Bringing(tx[t]) /\ tx[t].at = "commit"
      /\ Migrating /\ RowsOK /\ None \notin Orgs /\ AdoptedWasLive
  BY HarnessAssumption DEF IInv, TypeOK, CommitStage, Stages, Bringing
<1>2. open BY <1>1 DEF IInv, TxOK, Fits
<1>3. /\ o \in Orgs /\ n \in Nat
      /\ n = 1 \/ \E j \in In(o) : rows[j].version = n - 1
      /\ \A j \in In(o) : rows[j].version < n
  BY StageEffect
<1>4. PICK i \in Ids :
          /\ rows[i].status = "none" /\ rows[i].org = None
          /\ rows' \in [Ids -> Row]
          /\ rows'[i].org = o /\ rows'[i].version = n
          /\ rows'[i].status = "draft" /\ rows'[i].slot = FALSE
          /\ \A j \in Ids \ {i} : rows'[j] = rows[j]
          /\ \/ tx' = [tx EXCEPT ![t] = [NoTx EXCEPT !.op = "import", !.at = "note", !.id = i]]
             \/ tx' = [tx EXCEPT ![t] = Ended(t)]
  BY StageEffect
<1>5. PICK r \in Tx : /\ tx' = [tx EXCEPT ![t] = r] /\ r.at \in {"note", "done"} /\ r.locks = {}
                      /\ r.marks = {} /\ (r.at = "note" => r.op = "import" /\ r.id \in Ids)
  <2> DEFINE note == [NoTx EXCEPT !.op = "import", !.at = "note", !.id = i]
  <2>1. CASE tx' = [tx EXCEPT ![t] = note]
    <3>1. i \in 0..MaxRows BY HarnessAssumption DEF Ids
    <3>2. note \in Tx BY <3>1, NoTxTyped DEF Tx, Ops, Places
    <3>3. note.at = "note" /\ note.locks = {} /\ note.marks = {} /\ note.op = "import" /\ note.id = i
      BY DEF NoTx
    <3> HIDE DEF note
    <3> QED BY <2>1, <3>2, <3>3
  <2>2. CASE tx' = [tx EXCEPT ![t] = Ended(t)]
    <3>1. Ended(t).marks = {} BY DEF Ended, NoTx
    <3> QED BY <1>1, <2>2, <3>1, EndedOK
  <2> QED BY <1>4, <2>1, <2>2
<1>6. UNCHANGED <<mig, dups, open, boots>> BY <1>1 DEF server
<1>7. tx' \in [Txs -> Tx] /\ tx'[t] = r /\ \A u \in Txs \ {t} : tx'[u] = tx[u] BY <1>1, <1>5
<1> HIDE DEF o, n
<1>8. TypeOK' BY <1>1, <1>4, <1>6, <1>7 DEF IInv, TypeOK
<1>9. RowsOK' BY <1>1, <1>3, <1>4 DEF RowsOK
<1>10. \A j \in Ids : Live(j)' <=> Live(j) BY <1>4 DEF Live
<1>11. \A j \in Ids : Live(j) => rows'[j] = rows[j] BY <1>4 DEF Live
<1>12. \A p : p # None => LiveIn(p)' = LiveIn(p)
  <2> TAKE p
  <2>1. \A j \in Ids : (Live(j) /\ rows[j].org = p) <=> (Live(j)' /\ rows'[j].org = p)
    BY <1>10, <1>11
  <2> QED BY <2>1 DEF LiveIn
<1>13. Migrating'
  <2>1. Single /\ \A j \in Ids : rows[j].slot <=> Live(j) BY <1>1, <1>2 DEF Migrating
  <2>2. Single' BY <1>10, <1>11, <2>1 DEF Single
  <2>3. \A j \in Ids : (rows[j].slot <=> Live(j))' BY <1>4, <2>1 DEF Live
  <2>4. Outdated = {} /\ Outdated' = {}
    <3>1. Outdated = {} BY <1>1, <2>1, SingleOutdated
    <3>2. \A j \in Ids : rows'[j].version \in Nat BY <1>4 DEF Row
    <3>3. ASSUME NEW j \in Outdated' PROVE FALSE
      <4>1. PICK k \in LiveIn(rows[j].org)' : rows'[k].version > rows'[j].version BY <3>3 DEF Outdated
      <4>2. j \in Ids /\ k \in Ids /\ j = k BY <2>2, <3>3, <4>1 DEF Outdated, LiveIn, Live, Single
      <4> QED BY <3>2, <4>1, <4>2
    <3> QED BY <3>1, <3>3
  <2> QED BY <1>1, <1>2, <1>6, <2>2, <2>3, <2>4 DEF Migrating
<1>14. AdoptedWasLive' BY <1>1, <1>4 DEF AdoptedWasLive
<1>15. ASSUME NEW u \in Txs \ {t} PROVE TxOK(tx[u])'
  <2>1. tx[u] \in Tx /\ TxOK(tx[u]) /\ Apart(tx[t], tx[u]) /\ tx'[u] = tx[u]
    BY <1>1, <1>7 DEF IInv, AllApart
  <2>2. \A j \in Ids : rows[j].org # None => rows'[j] = rows[j] BY <1>4
  <2>3. Under(tx[u]) => tx[u].org \in Orgs /\ tx[u].org # None BY <1>1, <2>1 DEF TxOK, Fits
  <2>4. Answering(tx[u]) /\ Under(tx[u]) /\ tx[u].at # "read" => rows'[tx[u].id] = rows[tx[u].id]
    BY <2>1, <2>2, <2>3 DEF TxOK, Fits
  <2>5. Fits(tx[u])' BY <1>6, <2>1, <2>4 DEF TxOK, Fits, Under, Answering, Bringing
  <2>6. Holds(tx[u])'
    <3>1. tx[u].at = "archive" => \A j \in tx[u].matched : rows'[j].org = tx[u].org
      BY <2>1, <2>2, <2>3 DEF TxOK, Holds, Tx, Under
    <3>2. tx[u].at \in {"publish", "lessons", "commit"} => LiveIn(tx[u].org)' = LiveIn(tx[u].org)
      <4>1. tx[u].at \in {"publish", "lessons", "commit"} => tx[u].org # None BY <2>3 DEF Under
      <4>2. \A j \in Ids : tx[u].org # None =>
                ((Live(j) /\ rows[j].org = tx[u].org) <=> (Live(j)' /\ rows'[j].org = tx[u].org))
        BY <1>10, <1>11
      <4> QED BY <2>1, <4>1, <4>2 DEF LiveIn
    <3>3. Written(tx[u]) /\ tx[u].op \in {"activate", "discard"} => rows'[tx[u].id] = rows[tx[u].id]
      BY <2>4 DEF Written, Under, Answering
    <3>4. tx[u].at = "publish" => tx[u].locks \subseteq LiveIn(tx[u].org)'
      BY <2>1, <3>2 DEF TxOK, Holds, Written
    <3>5. Written(tx[u]) /\ tx[u].op = "activate" =>
             tx[u].locks = {tx[u].id} \cup LiveIn(tx[u].org)'
      BY <2>1, <3>2 DEF TxOK, Holds, Written
    <3> QED BY <2>1, <3>1, <3>3, <3>4, <3>5 DEF TxOK, Holds, Written, Answering, Bringing
  <2>7. Numbered(tx[u])'
    <3> SUFFICES ASSUME Bringing(tx[u]), tx[u].at \in {"insert", "commit"} PROVE Numbered(tx[u])'
      BY <2>1 DEF Numbered, Bringing
    <3>1. tx[u].version \in Nat /\ tx[u].org # None /\ Numbered(tx[u])
      BY <2>1, <2>3 DEF Under, Tx, TxOK
    <3>2. \A j \in In(tx[u].org) : j \in In(tx[u].org)' /\ rows'[j] = rows[j]
      BY <2>1, <2>2, <3>1 DEF In, Exists
    <3>3. \A j \in In(tx[u].org)' : j \in In(tx[u].org) \/ (j = i /\ tx[u].org = o)
      BY <1>4, <2>1 DEF In, Exists
    <3>4. (\E j \in In(tx[u].org)' : rows'[j].version >= tx[u].version)
          => \/ \E j \in In(tx[u].org) : rows[j].version >= tx[u].version
             \/ tx[u].org = o /\ n >= tx[u].version
      BY <1>4, <3>2, <3>3
    <3>5. ASSUME tx[u].org = o, n >= tx[u].version
          PROVE  /\ tx[u].at = "insert"
                 /\ \/ n = tx[u].version
                    \/ \E j \in In(tx[u].org) : rows[j].version >= tx[u].version
      <4>1. tx[u].at = "insert" BY <1>1, <2>1, <3>5 DEF Apart, o
      <4>2. CASE n = tx[u].version BY <4>1, <4>2
      <4>3. CASE n # tx[u].version
        <5>1. tx[u].version # 0 BY <3>1 DEF Numbered
        <5>2. n # 1 /\ n - 1 >= tx[u].version BY <1>3, <3>1, <3>5, <4>3, <5>1
        <5> QED BY <1>3, <3>5, <4>1, <5>2
      <4> QED BY <4>2, <4>3
    <3>6. n = tx[u].version /\ tx[u].org = o => \E j \in In(tx[u].org)' : rows'[j].version = tx[u].version
      BY <1>4, <2>1 DEF In, Exists
    <3>7. (\E j \in In(tx[u].org)' : rows'[j].version >= tx[u].version)
          => tx[u].at = "insert" /\ \E j \in In(tx[u].org)' : rows'[j].version = tx[u].version
      BY <3>1, <3>2, <3>4, <3>5, <3>6 DEF Numbered
    <3>8. /\ tx[u].version \in Nat \ {0}
          /\ tx[u].version = 1 \/ \E j \in In(tx[u].org)' : rows'[j].version = tx[u].version - 1
      BY <3>1, <3>2 DEF Numbered
    <3> QED BY <2>1, <3>7, <3>8 DEF Numbered, Bringing
  <2> QED BY <2>1, <2>5, <2>6, <2>7 DEF TxOK
<1>16. TxOK(tx[t])'
  BY <1>2, <1>5, <1>6, <1>7 DEF TxOK, Fits, Holds, Numbered, Under, Written
<1>17. AllApart'
  <2> SUFFICES ASSUME NEW v \in Txs, NEW u \in Txs, v # u PROVE Apart(tx'[v], tx'[u])
    BY DEF AllApart, Apart, Written, Bringing
  <2>1. \A s : Apart(r, s) /\ Apart(s, r) BY <1>5, Idles DEF Apart
  <2>2. v # t /\ u # t => Apart(tx'[v], tx'[u]) BY <1>7 DEF IInv, AllApart
  <2> QED BY <1>7, <2>1, <2>2
<1> QED BY <1>8, <1>9, <1>13, <1>14, <1>15, <1>16, <1>17 DEF IInv
-----------------------------------------------------------------------------
\* A step of no request that leaves the requests, the owners and the numbers
\* alone; before the first server served, all requests are idle.
LEMMA ServerMoves ==
    ASSUME IInv, TypeOK', RowsOK', Migrating', AdoptedWasLive', tx' = tx,
           open => rows' = rows, open => open'
    PROVE  IInv'
<1>1. ASSUME NEW u \in Txs PROVE TxOK(tx[u])'
  <2>1. TxOK(tx[u]) BY DEF IInv
  <2>2. CASE open
    <3> QED BY <2>1, <2>2 DEF TxOK, Fits, Holds, Numbered, LiveIn, Live, In, Exists
  <2>3. CASE ~open
    <3>1. tx[u].at = "idle" BY <2>1, <2>3 DEF TxOK, Fits
    <3> QED BY <2>1, <3>1 DEF TxOK, Fits, Holds, Numbered, Under, Written
  <2> QED BY <2>2, <2>3
<1>2. AllApart' BY DEF IInv, AllApart, Apart, Written, Bringing
<1> QED BY <1>1, <1>2 DEF IInv

LEMMA LessonsKeep ==
    ASSUME IInv, lessons' \in [Ids -> LessonStatuses],
           \A i \in Ids : lessons'[i] = "adopted" => lessons[i] = "adopted",
           UNCHANGED <<rows, server>>
    PROVE  AdoptedWasLive' /\ RowsOK' /\ Migrating'
BY DEF IInv, AdoptedWasLive, RowsOK, Migrating, Single, Outdated, LiveIn, Live, server

LEMMA DismissKeeps ==
    ASSUME IInv, NEW i \in Ids, DismissLesson(i)
    PROVE  IInv'
<1>1. /\ lessons' = [lessons EXCEPT ![i] = "dismissed"] /\ lessons \in [Ids -> LessonStatuses]
      /\ UNCHANGED <<rows, tx, server>>
  BY DEF IInv, TypeOK, DismissLesson
<1>2. /\ lessons' \in [Ids -> LessonStatuses]
      /\ \A j \in Ids : lessons'[j] = "adopted" => lessons[j] = "adopted"
  BY <1>1 DEF LessonStatuses
<1>3. TypeOK' BY <1>1, <1>2 DEF IInv, TypeOK, server
<1> QED BY <1>1, <1>2, <1>3, LessonsKeep, ServerMoves DEF server

LEMMA ImportKeeps ==
    ASSUME IInv, NEW t \in Txs, ImportLesson(t)
    PROVE  IInv'
<1>1. /\ tx[t].at = "note" /\ End(t) /\ UNCHANGED <<rows, server>>
      /\ lessons \in [Ids -> LessonStatuses] /\ TxOK(tx[t]) /\ tx \in [Txs -> Tx]
      /\ lessons' = [lessons EXCEPT ![tx[t].id] = "suggested"] \/ lessons' = lessons
  BY DEF IInv, TypeOK, ImportLesson
<1>2. /\ lessons' \in [Ids -> LessonStatuses]
      /\ \A j \in Ids : lessons'[j] = "adopted" => lessons[j] = "adopted"
  BY <1>1 DEF LessonStatuses
<1>3. /\ tx' = [tx EXCEPT ![t] = Ended(t)] /\ Ended(t) \in Tx /\ TxOK(Ended(t))
      /\ \A s : Apart(Ended(t), s)
  <2>1. tx' = [tx EXCEPT ![t] = Ended(t)] BY <1>1 DEF End, Ended
  <2> QED BY <1>1, <2>1, EndedOK, Idles
<1>4. tx' \in [Txs -> Tx] /\ tx'[t] = Ended(t) /\ \A u \in Txs \ {t} : tx'[u] = tx[u] BY <1>1, <1>3
<1>5. TypeOK' BY <1>1, <1>2, <1>4 DEF IInv, TypeOK, server
<1>6. ASSUME NEW u \in Txs PROVE TxOK(tx[u])'
  <2>1. TxOK(tx'[u]) BY <1>3, <1>4 DEF IInv
  <2> QED BY <1>1, <2>1 DEF TxOK, Fits, Holds, Numbered, LiveIn, Live, In, Exists, server
<1>7. AllApart'
  <2> SUFFICES ASSUME NEW v \in Txs, NEW u \in Txs, v # u PROVE Apart(tx'[v], tx'[u])
    BY DEF AllApart, Apart, Written, Bringing
  <2>1. \A s : Apart(Ended(t), s) /\ Apart(s, Ended(t)) BY <1>3 DEF Apart
  <2>2. v # t /\ u # t => Apart(tx'[v], tx'[u]) BY <1>4 DEF IInv, AllApart
  <2> QED BY <1>4, <2>1, <2>2
<1> QED BY <1>1, <1>2, <1>5, <1>6, <1>7, LessonsKeep DEF IInv

\* Boots that write no row.
LEMMA BootKeeps ==
    ASSUME IInv, Start \/ RepairRead \/ AutoMigrate
    PROVE  IInv'
<1>1. UNCHANGED <<rows, lessons, tx, open>>
  BY DEF Start, RepairRead, AutoMigrate, tables
<1>2. mig' \in Boot /\ mig' # "release" /\ dups' \subseteq Ids /\ boots' \in Nat
  BY DEF IInv, TypeOK, Boot, Start, RepairRead, AutoMigrate
<1>3. mig' = "archive" => dups' = Outdated BY DEF Start, RepairRead, AutoMigrate, Outdated
<1>4. TypeOK' BY <1>1, <1>2 DEF IInv, TypeOK
<1>5. RowsOK' /\ AdoptedWasLive' BY <1>1 DEF IInv, RowsOK, AdoptedWasLive
<1>6. Migrating'
  BY <1>1, <1>2, <1>3 DEF IInv, Migrating, Single, Outdated, LiveIn, Live
<1> QED BY <1>1, <1>4, <1>5, <1>6, ServerMoves

\* What the repair archives is outdated, and after the first server served
\* there is nothing to archive.
LEMMA RepairEffect ==
    ASSUME IInv, RepairArchive
    PROVE  /\ dups = Outdated /\ rows \in [Ids -> Row] /\ rows' \in [Ids -> Row]
           /\ \A i \in Ids \ dups : rows'[i] = rows[i]
           /\ \A i \in dups : /\ rows'[i].status = "archived" /\ rows'[i].org = rows[i].org
                              /\ rows'[i].version = rows[i].version /\ rows'[i].slot = rows[i].slot
           /\ open => rows' = rows
           /\ UNCHANGED <<lessons, tx, open, boots, dups>> /\ mig' = "index"
<1>1. /\ dups = Outdated /\ rows \in [Ids -> Row]
      /\ rows' = [i \in Ids |-> IF i \in dups THEN [rows[i] EXCEPT !.status = "archived"] ELSE rows[i]]
      /\ UNCHANGED <<lessons, tx, open, boots, dups>> /\ mig' = "index"
  BY DEF IInv, TypeOK, Migrating, RepairArchive
<1>2. dups \subseteq Ids BY DEF IInv, TypeOK
<1>3. ASSUME NEW i \in Ids
      PROVE  /\ rows'[i] \in Row /\ (i \notin dups => rows'[i] = rows[i])
             /\ i \in dups => /\ rows'[i].status = "archived" /\ rows'[i].org = rows[i].org
                              /\ rows'[i].version = rows[i].version /\ rows'[i].slot = rows[i].slot
  <2>1. rows[i] \in Row BY <1>1
  <2>2. CASE i \in dups
    <3>1. rows'[i] = [rows[i] EXCEPT !.status = "archived"] BY <1>1, <2>2
    <3> QED BY <2>1, <2>2, <3>1 DEF Row, Statuses
  <2>3. CASE i \notin dups
    <3>1. rows'[i] = rows[i] BY <1>1, <2>3
    <3> QED BY <2>1, <2>3, <3>1
  <2> QED BY <2>2, <2>3
<1>4. rows' = [i \in Ids |-> rows'[i]] BY <1>1
<1>5. rows' \in [Ids -> Row] BY <1>3, <1>4
<1>6. ASSUME open PROVE rows' = rows
  <2>1. dups = {} BY <1>1, <1>6, SingleOutdated DEF IInv, Migrating
  <2> QED BY <1>1, <1>3, <1>4, <2>1
<1> QED BY <1>1, <1>2, <1>3, <1>5, <1>6

LEMMA RepairKeeps ==
    ASSUME IInv, RepairArchive
    PROVE  IInv'
<1>1. /\ dups = Outdated /\ rows \in [Ids -> Row] /\ rows' \in [Ids -> Row]
      /\ \A i \in Ids \ dups : rows'[i] = rows[i]
      /\ \A i \in dups : /\ rows'[i].status = "archived" /\ rows'[i].org = rows[i].org
      /\ open => rows' = rows
      /\ UNCHANGED <<lessons, tx, open, boots, dups>> /\ mig' = "index"
  BY RepairEffect
<1>2. TypeOK' BY <1>1 DEF IInv, TypeOK, Boot
<1>3. \A i \in dups : i \in Ids /\ rows[i].status = "published" BY <1>1 DEF Outdated, Live
<1>4. RowsOK' BY <1>1, <1>3 DEF IInv, RowsOK
<1>5. AdoptedWasLive' BY <1>1 DEF IInv, AdoptedWasLive
<1>6. Migrating' BY <1>1 DEF IInv, Migrating, Single, Live
<1> QED BY <1>1, <1>2, <1>4, <1>5, <1>6, ServerMoves

\* The two slot migrations change slots only, and none after a server served.
LEMMA SlotEffect ==
    ASSUME IInv, MarkLive \/ ReleaseOthers
    PROVE  /\ rows \in [Ids -> Row] /\ rows' \in [Ids -> Row]
           /\ \A i \in Ids : /\ rows'[i].status = rows[i].status /\ rows'[i].org = rows[i].org
                             /\ rows'[i].version = rows[i].version
                             /\ MarkLive => rows'[i].slot = (rows[i].slot \/ Live(i))
                             /\ ReleaseOthers => rows'[i].slot = (rows[i].slot /\ Live(i))
           /\ open => rows' = rows
           /\ UNCHANGED <<lessons, tx, boots, dups>>
<1>1. rows \in [Ids -> Row] BY DEF IInv, TypeOK
<1>2. \A i \in Ids : rows[i] \in Row /\ rows[i].slot \in BOOLEAN BY <1>1 DEF Row
<1> DEFINE up(i) == [rows[i] EXCEPT !.slot = TRUE]
           off(i) == [rows[i] EXCEPT !.slot = FALSE]
<1>3. \A i \in Ids : /\ up(i) \in Row /\ up(i).slot = TRUE /\ up(i).status = rows[i].status
                     /\ up(i).org = rows[i].org /\ up(i).version = rows[i].version
                     /\ rows[i].slot = TRUE => up(i) = rows[i]
  BY <1>2 DEF Row
<1>4. \A i \in Ids : /\ off(i) \in Row /\ off(i).slot = FALSE /\ off(i).status = rows[i].status
                     /\ off(i).org = rows[i].org /\ off(i).version = rows[i].version
                     /\ rows[i].slot = FALSE => off(i) = rows[i]
  BY <1>2 DEF Row
<1>5. MarkLive => rows' = [i \in Ids |-> IF Live(i) THEN up(i) ELSE rows[i]] BY DEF MarkLive
<1>6. ReleaseOthers => rows' = [i \in Ids |-> IF Live(i) THEN rows[i] ELSE off(i)] BY DEF ReleaseOthers
<1> HIDE DEF up, off
<1>7. rows' = [i \in Ids |-> rows'[i]] BY <1>5, <1>6
<1>8. ~(MarkLive /\ ReleaseOthers) BY DEF MarkLive, ReleaseOthers
<1>9. ASSUME NEW i \in Ids
      PROVE  /\ rows'[i] \in Row /\ rows'[i].status = rows[i].status /\ rows'[i].org = rows[i].org
             /\ rows'[i].version = rows[i].version
             /\ MarkLive => rows'[i].slot = (rows[i].slot \/ Live(i))
             /\ ReleaseOthers => rows'[i].slot = (rows[i].slot /\ Live(i))
             /\ (rows[i].slot <=> Live(i)) => rows'[i] = rows[i]
  <2>1. CASE MarkLive /\ Live(i)
    <3>1. rows'[i] = up(i) BY <1>5, <2>1
    <3> QED BY <1>2, <1>3, <1>8, <2>1, <3>1
  <2>2. CASE MarkLive /\ ~Live(i)
    <3>1. rows'[i] = rows[i] BY <1>5, <2>2
    <3> QED BY <1>2, <1>8, <2>2, <3>1
  <2>3. CASE ReleaseOthers /\ Live(i)
    <3>1. rows'[i] = rows[i] BY <1>6, <2>3
    <3> QED BY <1>2, <1>8, <2>3, <3>1
  <2>4. CASE ReleaseOthers /\ ~Live(i)
    <3>1. rows'[i] = off(i) BY <1>6, <2>4
    <3> QED BY <1>2, <1>4, <1>8, <2>4, <3>1
  <2> QED BY <2>1, <2>2, <2>3, <2>4
<1>10. rows' \in [Ids -> Row] BY <1>7, <1>9
<1>11. ASSUME open PROVE rows' = rows
  <2>1. \A i \in Ids : rows'[i] = rows[i] BY <1>9, <1>11 DEF IInv, Migrating
  <2> QED BY <1>1, <1>7, <2>1
<1>12. UNCHANGED <<lessons, tx, boots, dups>> BY DEF MarkLive, ReleaseOthers
<1> QED BY <1>1, <1>9, <1>10, <1>11, <1>12

LEMMA SlotKeeps ==
    ASSUME IInv, MarkLive \/ ReleaseOthers
    PROVE  IInv'
<1>1. /\ rows \in [Ids -> Row] /\ rows' \in [Ids -> Row]
      /\ \A i \in Ids : /\ rows'[i].status = rows[i].status /\ rows'[i].org = rows[i].org
                        /\ rows'[i].version = rows[i].version
                        /\ MarkLive => rows'[i].slot = (rows[i].slot \/ Live(i))
                        /\ ReleaseOthers => rows'[i].slot = (rows[i].slot /\ Live(i))
      /\ open => rows' = rows
      /\ UNCHANGED <<lessons, tx, boots, dups>>
  BY SlotEffect
<1>2. /\ mig' \in {"release", "up"} /\ (MarkLive => mig' = "release" /\ open' = open)
      /\ (ReleaseOthers => mig = "release" /\ mig' = "up" /\ open' = TRUE)
  BY DEF MarkLive, ReleaseOthers
<1>3. open' \in BOOLEAN /\ (open => open')
  <2>1. open \in BOOLEAN BY DEF IInv, TypeOK
  <2>2. CASE MarkLive
    <3>1. open' = open BY <1>2, <2>2
    <3> QED BY <2>1, <3>1
  <2>3. CASE ReleaseOthers
    <3>1. open' = TRUE BY <1>2, <2>3
    <3> QED BY <3>1
  <2> QED BY <2>2, <2>3
<1>4. TypeOK' BY <1>1, <1>2, <1>3 DEF IInv, TypeOK, Boot
<1>5. RowsOK' /\ AdoptedWasLive' BY <1>1 DEF IInv, RowsOK, AdoptedWasLive
<1>6. Single
  <2>1. CASE MarkLive
    <3>1. \A o \in Orgs : Cardinality(LiveIn(o)) <= 1 BY <2>1 DEF MarkLive
    <3>2. \A o \in Orgs : \A i, j \in LiveIn(o) : i = j
      <4>1. \A o : LiveIn(o) \in SUBSET Ids BY DEF LiveIn
      <4> QED BY <3>1, <4>1, AtMostOne
    <3>3. \A i \in Ids : Live(i) => rows[i].org \in Orgs BY <1>1 DEF IInv, RowsOK, Live, Row
    <3> QED BY <3>2, <3>3 DEF Single, LiveIn
  <2>2. CASE ReleaseOthers BY <1>2, <2>2 DEF IInv, Migrating
  <2> QED BY <2>1, <2>2
<1>7. Single' BY <1>1, <1>6 DEF Single, Live
<1>8. Migrating'
  <2>1. CASE MarkLive /\ open BY <1>1, <1>2, <1>7, <2>1 DEF IInv, Migrating, Live
  <2>2. CASE MarkLive /\ ~open
    <3>1. \A i \in Ids : Live(i) => rows'[i].slot = TRUE BY <1>1, <2>2
    <3>2. \A i \in Ids : Live(i)' => rows'[i].slot BY <1>1, <3>1 DEF Live
    <3>3. mig' = "release" /\ open' = open BY <1>2, <2>2
    <3> QED BY <1>7, <2>2, <3>2, <3>3 DEF Migrating
  <2>3. CASE ReleaseOthers
    <3>1. \A i \in Ids : Live(i) => rows[i].slot BY <1>2, <2>3 DEF IInv, Migrating
    <3>2. \A i \in Ids : (rows[i].slot <=> Live(i))' BY <1>1, <2>3, <3>1 DEF Live
    <3> QED BY <1>2, <1>7, <2>3, <3>2 DEF Migrating
  <2> QED BY <2>1, <2>2, <2>3
<1> QED BY <1>1, <1>3, <1>4, <1>5, <1>8, ServerMoves
-----------------------------------------------------------------------------
LEMMA Starts == Init => IInv
<1> SUFFICES ASSUME Init PROVE IInv OBVIOUS
<1>1. /\ rows \in [Ids -> Row]
      /\ \A i \in Ids : rows[i].status = "none" <=> rows[i].org = None
  BY HarnessAssumption DEF Init
<1>2. TypeOK
  <2>1. lessons \in [Ids -> LessonStatuses] BY DEF Init, LessonStatuses
  <2>2. tx \in [Txs -> Tx] BY NoTxTyped DEF Init
  <2>3. boots \in Nat /\ open \in BOOLEAN /\ mig \in Boot /\ dups \subseteq Ids BY DEF Init, Boot
  <2> QED BY <1>1, <2>1, <2>2, <2>3 DEF TypeOK
<1>3. RowsOK /\ AdoptedWasLive BY <1>1 DEF RowsOK, AdoptedWasLive, Init
<1>4. Migrating BY DEF Migrating, Init
<1>5. \A t \in Txs : tx[t] = NoTx BY DEF Init
<1>6. NoTx.at = "idle" /\ NoTx.locks = {} /\ NoTx.marks = {} /\ NoTx.op = "none" BY DEF NoTx
<1>7. TxOK(NoTx) BY <1>6 DEF TxOK, Fits, Holds, Numbered, Under, Written, Answering, Bringing
<1>8. AllApart
  <2>1. \A s : Apart(NoTx, s) BY <1>6, Idles
  <2> QED BY <1>5, <2>1 DEF AllApart
<1> QED BY <1>2, <1>3, <1>4, <1>5, <1>7, <1>8 DEF IInv

LEMMA StepKeeps ==
    ASSUME IInv, NEW t \in Txs, Step(t) \/ Rollback(t)
    PROVE  IInv'
<1>1. CASE ActivateRead(t) \/ ActivateMatch(t) \/ DiscardRead(t) BY <1>1, ActivateReads
<1>2. CASE ActivateArchive(t) BY <1>2, ArchiveKeeps
<1>3. CASE ActivatePublish(t) BY <1>3, PublishKeeps
<1>4. CASE ActivateRefused(t) \/ Rollback(t)
  <2>1. /\ tx[t].at # "idle" /\ End(t) /\ UNCHANGED <<tables, server>>
    BY <1>4 DEF ActivateRefused, Rollback, CanPublish, At
  <2> QED BY <2>1, EndKeeps
<1>5. CASE DiscardWrite(t) BY <1>5, DiscardKeeps
<1>6. CASE MarkLessons(t) BY <1>6, MarkKeeps
<1>7. CASE StageRead(t) BY <1>7, StageReads
<1>8. CASE StageInsert(t) BY <1>8, StageInserts
<1>9. CASE CommitActivate(t) BY <1>9, CommitActivateKeeps
<1>10. CASE CommitDiscard(t) BY <1>10, CommitDiscardKeeps
<1>11. CASE CommitStage(t) BY <1>11, CommitStageKeeps
<1>12. CASE ImportLesson(t) BY <1>12, ImportKeeps
<1> QED
  BY <1>1, <1>2, <1>3, <1>4, <1>5, <1>6, <1>7, <1>8, <1>9, <1>10, <1>11, <1>12 DEF Step

LEMMA NextKeeps == IInv /\ [Next]_vars => IInv'
<1> SUFFICES ASSUME IInv, [Next]_vars PROVE IInv' OBVIOUS
<1>1. CASE UNCHANGED vars
  <2>1. UNCHANGED <<rows, lessons, tx, mig, dups, open, boots>> BY <1>1 DEF vars
  <2>2. TypeOK' /\ RowsOK' /\ AdoptedWasLive' BY <2>1 DEF IInv, TypeOK, RowsOK, AdoptedWasLive
  <2>3. Migrating' BY <2>1 DEF IInv, Migrating, Single, Outdated, LiveIn, Live
  <2> QED BY <2>1, <2>2, <2>3, ServerMoves
<1>2. ASSUME NEW t \in Txs, NEW op \in Ops \ {"none"}, NEW o \in Orgs, NEW i \in 0..MaxRows,
             Begin(t, op, o, i)
      PROVE  IInv'
  BY <1>2, BeginKeeps
<1>3. ASSUME NEW t \in Txs, Step(t) \/ Rollback(t) PROVE IInv' BY <1>3, StepKeeps
<1>4. ASSUME NEW i \in Ids, DismissLesson(i) PROVE IInv' BY <1>4, DismissKeeps
<1>5. CASE Start \/ RepairRead \/ AutoMigrate BY <1>5, BootKeeps
<1>6. CASE RepairArchive BY <1>6, RepairKeeps
<1>7. CASE MarkLive \/ ReleaseOthers BY <1>7, SlotKeeps
<1> QED BY <1>1, <1>2, <1>3, <1>4, <1>5, <1>6, <1>7 DEF Next, Migrate

\* The invariant of the whole store is inductive.
THEOREM Inductive == Spec => []IInv
<1> QED BY Starts, NextKeeps, PTL DEF Spec

\* Every version, lesson, request and migration stays what TypeOK says it is.
THEOREM TypeCorrect == Spec => []TypeOK
<1>1. IInv => TypeOK BY DEF IInv
<1> QED BY <1>1, Inductive, PTL

\* No two versions of a workspace are ever committed as live once a server has
\* served, for any number of concurrent activations and restarting servers.
THEOREM OneLiveHolds == Spec => []OneLive
<1>1. IInv => OneLive
  <2> SUFFICES ASSUME IInv, open, NEW o \in Orgs PROVE Cardinality(LiveIn(o)) <= 1
    BY DEF OneLive
  <2>1. LiveIn(o) \in SUBSET Ids BY DEF LiveIn
  <2>2. \A i, j \in LiveIn(o) : i = j BY DEF IInv, Migrating, Single, LiveIn
  <2> QED BY <2>1, <2>2, AtMostOne
<1> QED BY <1>1, Inductive, PTL

\* A lesson is adopted only with a version that really went live.
THEOREM AdoptedHolds == Spec => []AdoptedWasLive
<1>1. IInv => AdoptedWasLive BY DEF IInv
<1> QED BY <1>1, Inductive, PTL
-----------------------------------------------------------------------------
\* A step that commits nothing leaves every row's owner, number and status.
Steady == \A i \in Ids : /\ rows'[i].org = rows[i].org /\ rows'[i].version = rows[i].version
                         /\ rows'[i].status = rows[i].status

LEMMA RowSteps ==
    ASSUME IInv, [Next]_vars
    PROVE  \/ \E t \in Txs : CommitActivate(t) \/ CommitDiscard(t) \/ CommitStage(t)
           \/ RepairArchive
           \/ Steady
<1>1. CASE UNCHANGED vars BY <1>1 DEF vars, Steady
<1>2. ASSUME NEW t \in Txs, NEW op \in Ops \ {"none"}, NEW o \in Orgs, NEW i \in 0..MaxRows,
             Begin(t, op, o, i)
      PROVE  Steady
  BY <1>2 DEF Begin, tables, Steady
<1>3. ASSUME NEW t \in Txs, Rollback(t) PROVE Steady BY <1>3 DEF Rollback, tables, Steady
<1>4. ASSUME NEW t \in Txs, Step(t)
      PROVE  CommitActivate(t) \/ CommitDiscard(t) \/ CommitStage(t) \/ rows' = rows
  BY <1>4 DEF Step, ActivateRead, ActivateMatch, ActivateArchive, ActivatePublish, ActivateRefused,
       DiscardRead, DiscardWrite, MarkLessons, StageRead, StageInsert, ImportLesson, tables
<1>5. ASSUME NEW i \in Ids, DismissLesson(i) PROVE Steady BY <1>5 DEF DismissLesson, Steady
<1>6. CASE Start \/ RepairRead \/ AutoMigrate
  BY <1>6 DEF Start, RepairRead, AutoMigrate, tables, Steady
<1>7. CASE MarkLive \/ ReleaseOthers
  BY <1>7, SlotEffect DEF Steady
<1> QED BY <1>1, <1>2, <1>3, <1>4, <1>5, <1>6, <1>7 DEF Next, Migrate, Steady

\* A new version is numbered above every version of its workspace, although
\* MAX(version) is read before other inserts commit.
THEOREM NumbersGrow == Spec => VersionsGrow
<1>1. ASSUME IInv, [Next]_vars, NEW i \in Ids, ~Exists(i), Exists(i)', NEW j \in In(rows'[i].org)
      PROVE  rows[j].version < rows'[i].version
  <2>1. CASE \E t \in Txs : CommitActivate(t)
    <3>1. PICK t \in Txs : CommitActivate(t) BY <2>1
    <3>2. /\ rows[tx[t].id].status # "none" /\ tx[t].locks = {tx[t].id} \cup LiveIn(tx[t].org)
          /\ \A k \in Ids \ tx[t].locks : rows'[k] = rows[k]
      BY <1>1, <3>1, ActivateEffect
    <3> QED BY <1>1, <3>2 DEF Exists, LiveIn, Live
  <2>2. CASE \E t \in Txs : CommitDiscard(t)
    <3>1. PICK t \in Txs : CommitDiscard(t) BY <2>2
    <3>2. /\ rows[tx[t].id].status = "draft"
          /\ \A k \in Ids \ {tx[t].id} : rows'[k] = rows[k]
      BY <1>1, <3>1, DiscardEffect
    <3> QED BY <1>1, <3>2 DEF Exists
  <2>3. CASE \E t \in Txs : CommitStage(t)
    <3>1. PICK t \in Txs : CommitStage(t) BY <2>3
    <3>2. \A k \in In(tx[t].org) : rows[k].version < tx[t].version BY <1>1, <3>1, StageEffect
    <3>3. PICK k \in Ids : /\ rows'[k].org = tx[t].org /\ rows'[k].version = tx[t].version
                           /\ \A l \in Ids \ {k} : rows'[l] = rows[l]
      BY <1>1, <3>1, StageEffect
    <3>4. i = k BY <1>1, <3>3 DEF Exists
    <3> QED BY <1>1, <3>2, <3>3, <3>4
  <2>4. CASE RepairArchive
    <3>1. dups = Outdated /\ \A k \in Ids \ dups : rows'[k] = rows[k] BY <1>1, <2>4, RepairEffect
    <3> QED BY <1>1, <3>1 DEF Exists, Outdated, Live
  <2>5. CASE Steady BY <1>1, <2>5 DEF Steady, Exists
  <2> QED BY <1>1, <2>1, <2>2, <2>3, <2>4, <2>5, RowSteps
<1>2. IInv /\ [Next]_vars =>
          [\A i \in Ids : ~Exists(i) /\ Exists(i)' =>
              \A j \in In(rows'[i].org) : rows[j].version < rows'[i].version]_vars
  BY <1>1
<1> QED BY <1>2, Inductive, PTL DEF Spec, VersionsGrow

\* Before the first server served, no request has committed anything.
LEMMA ClosedQuiet ==
    ASSUME IInv, ~open, NEW t \in Txs
    PROVE  ~CommitActivate(t) /\ ~CommitDiscard(t) /\ ~CommitStage(t)
<1>1. tx[t].at = "idle" BY DEF IInv, TxOK, Fits
<1> QED BY <1>1 DEF CommitActivate, CommitDiscard, CommitStage, At

\* The repair of an older install keeps the newest live version live.
THEOREM RepairKeepsNewest == Spec => NewestKept
<1>1. ASSUME IInv, [Next]_vars, ~open, NEW o \in Orgs, NEW i \in LiveIn(o),
             \A j \in LiveIn(o) : rows[j].version <= rows[i].version
      PROVE  Live(i)'
  <2>1. i \in Ids /\ Live(i) /\ rows[i].org = o /\ rows \in [Ids -> Row]
    BY <1>1 DEF LiveIn, IInv, TypeOK
  <2>2. CASE RepairArchive
    <3>1. dups = Outdated /\ \A k \in Ids \ dups : rows'[k] = rows[k] BY <1>1, <2>2, RepairEffect
    <3>2. i \notin Outdated
      <4> SUFFICES ASSUME i \in Outdated PROVE FALSE OBVIOUS
      <4>1. PICK j \in LiveIn(o) : rows[j].version > rows[i].version BY <2>1 DEF Outdated
      <4>2. rows[j].version <= rows[i].version BY <1>1
      <4>3. rows[j].version \in Nat /\ rows[i].version \in Nat BY <2>1 DEF LiveIn, Row
      <4> QED BY <4>1, <4>2, <4>3
    <3> QED BY <2>1, <3>1, <3>2 DEF Live
  <2>3. CASE Steady BY <2>1, <2>3 DEF Steady, Live
  <2> QED BY <1>1, <2>2, <2>3, RowSteps, ClosedQuiet
<1>2. IInv /\ [Next]_vars =>
          [~open => \A o \in Orgs : \A i \in LiveIn(o) :
              (\A j \in LiveIn(o) : rows[j].version <= rows[i].version) => Live(i)']_vars
  BY <1>1
<1> QED BY <1>2, Inductive, PTL DEF Spec, NewestKept
-----------------------------------------------------------------------------
orgs == [i \in Ids |-> rows[i].org]
statuses == [i \in Ids |-> rows[i].status]

\* A commit is one operation of the lifecycle, the repair of an older install
\* is one, and every other step is none.
LEMMA LifecycleStep ==
    ASSUME IInv, [Next]_vars
    PROVE  [Lifecycle!LifecycleNext]_(Lifecycle!lifecycleVars)
<1>1. rows \in [Ids -> Row] BY DEF IInv, TypeOK
<1>2. CASE Steady
  <2>1. orgs' = orgs /\ statuses' = statuses BY <1>2 DEF Steady, orgs, statuses
  <2> QED BY <2>1 DEF Lifecycle!lifecycleVars, orgs, statuses
<1>3. ASSUME NEW t \in Txs, CommitActivate(t) PROVE \E i \in Ids : Lifecycle!ActivateVersion(i)
  <2>1. /\ tx[t].id \in Ids /\ rows[tx[t].id].org = tx[t].org
        /\ rows[tx[t].id].status \notin {"none", "discarded"}
        /\ tx[t].locks = {tx[t].id} \cup LiveIn(tx[t].org)
        /\ \A i \in Ids : rows'[i].org = rows[i].org
        /\ rows'[tx[t].id].status = "published"
        /\ \A i \in LiveIn(tx[t].org) \ {tx[t].id} : rows'[i].status = "archived"
        /\ \A i \in Ids \ tx[t].locks : rows'[i] = rows[i]
    BY <1>3, ActivateEffect
  <2>2. rows[tx[t].id].status \in {"draft", "archived", "published"}
    BY <1>1, <2>1 DEF Row, Statuses
  <2>3. ASSUME NEW j \in Ids
        PROVE  rows'[j].status =
                  IF j = tx[t].id THEN "published"
                  ELSE IF rows[j].status = "published" /\ rows[j].org = rows[tx[t].id].org
                       THEN "archived" ELSE rows[j].status
    <3>1. CASE j = tx[t].id BY <2>1, <3>1
    <3>2. CASE j # tx[t].id /\ j \in LiveIn(tx[t].org) BY <2>1, <3>2 DEF LiveIn, Live
    <3>3. CASE j # tx[t].id /\ j \notin LiveIn(tx[t].org)
      <4>1. rows'[j] = rows[j] BY <2>1, <3>3
      <4>2. ~(rows[j].status = "published" /\ rows[j].org = rows[tx[t].id].org)
        BY <2>1, <3>3 DEF LiveIn, Live
      <4> QED BY <3>3, <4>1, <4>2
    <3> QED BY <3>1, <3>2, <3>3
  <2>4. PICK i \in Ids : i = tx[t].id BY <2>1
  <2>5. Lifecycle!ActivateVersion(i)
    BY <2>1, <2>2, <2>3, <2>4 DEF Lifecycle!ActivateVersion, Lifecycle!Live
  <2> QED BY <2>5
<1>4. ASSUME NEW t \in Txs, CommitDiscard(t) PROVE \E i \in Ids : Lifecycle!DiscardVersion(i)
  <2>1. /\ tx[t].id \in Ids /\ rows[tx[t].id].status = "draft"
        /\ \A i \in Ids : rows'[i].org = rows[i].org
        /\ rows'[tx[t].id].status = "discarded"
        /\ \A i \in Ids \ {tx[t].id} : rows'[i] = rows[i]
    BY <1>4, DiscardEffect
  <2>2. \A j \in Ids : rows'[j].status = IF j = tx[t].id THEN "discarded" ELSE rows[j].status
    BY <2>1
  <2>3. PICK i \in Ids : i = tx[t].id BY <2>1
  <2>4. Lifecycle!DiscardVersion(i) BY <2>1, <2>2, <2>3 DEF Lifecycle!DiscardVersion
  <2> QED BY <2>4
<1>5. ASSUME NEW t \in Txs, CommitStage(t)
      PROVE  \E i \in Ids, o \in Orgs : Lifecycle!StageVersion(i, o)
  <2>1. tx[t].org \in Orgs BY <1>5, StageEffect
  <2>2. PICK i \in Ids :
            /\ rows[i].status = "none"
            /\ rows'[i].org = tx[t].org /\ rows'[i].status = "draft"
            /\ \A j \in Ids \ {i} : rows'[j] = rows[j]
    BY <1>5, StageEffect
  <2>3. \A j \in Ids : /\ rows'[j].status = IF j = i THEN "draft" ELSE rows[j].status
                       /\ rows'[j].org = IF j = i THEN tx[t].org ELSE rows[j].org
    BY <2>2
  <2>4. PICK o \in Orgs : o = tx[t].org BY <2>1
  <2>5. Lifecycle!StageVersion(i, o) BY <2>2, <2>3, <2>4 DEF Lifecycle!StageVersion
  <2> QED BY <2>5
<1>6. ASSUME RepairArchive, dups # {} PROVE ~Lifecycle!Rest /\ Lifecycle!RepairVersions
  <2>1. /\ dups = Outdated
        /\ \A i \in Ids \ dups : rows'[i] = rows[i]
        /\ \A i \in dups : rows'[i].status = "archived" /\ rows'[i].org = rows[i].org
    BY <1>6, RepairEffect
  <2>2. \A i \in Ids : rows'[i].org = rows[i].org BY <2>1
  <2>3. ASSUME NEW i \in Outdated
        PROVE  \E j \in Ids : /\ rows[j].org = rows[i].org /\ Live(j) /\ j \notin Outdated /\ j # i
    <3> DEFINE f == [k \in Ids |-> rows[k].version]
               A == LiveIn(rows[i].org)
    <3>1. i \in Ids /\ i \in A BY <2>3 DEF Outdated, LiveIn
    <3>2. f \in [Ids -> Nat] BY <1>1 DEF Row
    <3>3. A \in SUBSET Ids /\ A # {} BY <3>1 DEF LiveIn
    <3>4. PICK j \in A : \A k \in A : f[k] <= f[j] BY <3>2, <3>3, Greatest
    <3>5. j \in Ids /\ Live(j) /\ rows[j].org = rows[i].org BY <3>4 DEF LiveIn
    <3>6. \A k \in A : k \in Ids /\ rows[k].version <= rows[j].version BY <3>3, <3>4
    <3>7. j \notin Outdated
      <4> SUFFICES ASSUME j \in Outdated PROVE FALSE OBVIOUS
      <4>1. PICK k \in A : rows[k].version > rows[j].version BY <3>5 DEF Outdated
      <4>2. rows[k].version \in Nat /\ rows[j].version \in Nat BY <1>1, <3>5, <3>6 DEF Row
      <4> QED BY <3>6, <4>1, <4>2
    <3> QED BY <2>3, <3>5, <3>7
  <2>4. \A i \in Outdated : i \in Ids /\ rows[i].status = "published" BY DEF Outdated, Live
  <2>5. ~Lifecycle!Rest
    <3>1. PICK i \in Outdated : TRUE BY <1>6, <2>1
    <3>2. PICK j \in Ids : rows[j].org = rows[i].org /\ Live(j) /\ j # i BY <2>3
    <3> QED BY <2>4, <3>2 DEF Lifecycle!Rest, Lifecycle!Live, Live
  <2>6. Lifecycle!RepairVersions
    <3>1. ASSUME NEW i \in Ids, rows'[i].status # rows[i].status
          PROVE  /\ rows[i].status = "published" /\ rows'[i].status = "archived"
                 /\ \E j \in Ids : /\ rows[j].org = rows[i].org /\ rows[j].status = "published"
                                   /\ rows'[j].status = "published"
      <4>1. i \in Outdated BY <2>1, <3>1
      <4>2. PICK j \in Ids : rows[j].org = rows[i].org /\ Live(j) /\ j \notin Outdated
        BY <2>3, <4>1
      <4> QED BY <2>1, <2>4, <4>1, <4>2 DEF Live
    <3> QED BY <2>2, <3>1 DEF Lifecycle!RepairVersions, Lifecycle!Live
  <2> QED BY <2>5, <2>6
<1>7. CASE RepairArchive /\ dups = {}
  <2>1. \A i \in Ids : rows'[i] = rows[i] BY <1>7, RepairEffect
  <2> QED BY <1>2, <2>1 DEF Steady
<1>8. ASSUME NEW t \in Txs, CommitActivate(t) \/ CommitDiscard(t) \/ CommitStage(t)
      PROVE  Lifecycle!LifecycleNext
  <2>1. CASE CommitActivate(t) BY <1>3, <2>1 DEF Lifecycle!LifecycleNext
  <2>2. CASE CommitDiscard(t) BY <1>4, <2>2 DEF Lifecycle!LifecycleNext
  <2>3. CASE CommitStage(t) BY <1>5, <2>3 DEF Lifecycle!LifecycleNext
  <2> QED BY <1>8, <2>1, <2>2, <2>3
<1>9. CASE RepairArchive BY <1>6, <1>7, <1>9 DEF Lifecycle!LifecycleNext
<1> QED BY <1>2, <1>8, <1>9, RowSteps

\* The statements of concurrent requests add up to atomic operations.
THEOREM StoreImplementsLifecycle == Spec => ImplementsLifecycle
<1>1. Init => Lifecycle!LifecycleInit
  <2> SUFFICES ASSUME Init PROVE Lifecycle!LifecycleInit OBVIOUS
  <2>1. rows \in [Ids -> Row] BY HarnessAssumption DEF Init
  <2> QED BY <2>1 DEF Lifecycle!LifecycleInit, Row, Statuses
<1>2. IInv /\ [Next]_vars => [Lifecycle!LifecycleNext]_(Lifecycle!lifecycleVars)
  BY LifecycleStep
<1> QED BY <1>1, <1>2, Inductive, PTL DEF Spec, ImplementsLifecycle, Lifecycle!LifecycleSpec
==============================================================================
