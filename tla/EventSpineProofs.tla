---------------------------- MODULE EventSpineProofs ----------------------------
(***************************************************************************)
(* What EventSpine guarantees for any publishers, subscriptions, keys,     *)
(* entities, filters, channel capacity and number of envelopes: nothing is *)
(* sent on a closed channel, what a publisher has in line keeps its order, *)
(* and every subscription is a LossyQueue.                                 *)
(***************************************************************************)
EXTENDS EventSpine, SequenceTheorems, FiniteSetTheorems, WellFoundedInduction, TLAPS

\* A publisher on the slow path, and one inside PublishEnvelope.
Slow(p) == pub[p].at \in {"measure", "drain", "refill"}
Busy(p) == pub[p].at # "idle"

Pub == [at : {"idle", "send", "measure", "drain", "refill"}, env : Envelope \cup {<<>>},
        todo : Seq(Subs), n : 0..Cap, hand : Seq(Envelope)]

Typed ==
    /\ spSubs \in Seq(Subs)
    /\ sub \in [Subs -> Sub]
    /\ pub \in [Publishers -> Pub]
    /\ sent \in 0..MaxSent
    /\ got \in [Subs -> Seq(Envelope)]
    /\ panicked \in BOOLEAN

\* The list holds each subscription once, from Subscribe to cancel.
Listed == IsInjective(spSubs) /\ \A i \in DOMAIN spSubs : sub[spSubs[i]].state # "new"

\* In a line, numbers differ and each publisher's grow.
Tidy(line) ==
    \A i, j \in DOMAIN line : i < j =>
        line[i].n # line[j].n /\ (line[i].from = line[j].from => line[i].n < line[j].n)

\* In what was received, numbers differ.
Apart(line) == \A i, j \in DOMAIN line : line[i].n = line[j].n => i = j

\* What s has, or has had, for its consumer.
Known(s) == ToSet(Line(s)) \cup ToSet(got[s])

\* e is newer than what its publisher brought to s before, and is not there yet.
Fresh(e, s) == \A x \in Known(s) : x.n # e.n /\ (x.from = e.from => x.n < e.n)

\* The subscriptions that p has yet to bring its envelope to.
Ahead(p) == IF pub[p].at = "refill" THEN Tail(pub[p].todo) ELSE pub[p].todo

\* What p works on, what it holds, and that there is room for it.
PubOK(p) ==
    /\ Busy(p) => /\ pub[p].env \in Envelope /\ pub[p].env.from = p /\ pub[p].env.n <= sent
                  /\ pub[p].todo # <<>> /\ IsInjective(pub[p].todo)
                  /\ \A i \in DOMAIN Ahead(p) : Fresh(pub[p].env, Ahead(p)[i])
    /\ Slow(p) => sub[Target(p)].by = p
    /\ pub[p].at \in {"idle", "send", "measure"} => pub[p].hand = <<>>
    /\ pub[p].at = "drain" => /\ Len(pub[p].hand) + pub[p].n <= Cap
                              /\ Len(sub[Target(p)].ch) <= pub[p].n
    /\ pub[p].at = "refill" => Len(pub[p].hand) + Len(sub[Target(p)].ch) < Cap

\* What is in line is in order, and was not received before.
Sound(line, had) ==
    /\ Tidy(line) /\ Apart(had)
    /\ \A x \in ToSet(line), y \in ToSet(had) : x.n # y.n

\* Who holds the lock works on s; the channel is not overfull, and closed by
\* nobody who works on it; envelopes were published before they got here.
SubOK(s) ==
    /\ Len(sub[s].ch) <= Cap
    /\ sub[s].by # None => Slow(sub[s].by) /\ Target(sub[s].by) = s
    /\ sub[s].state = "closed" => sub[s].by = None
    /\ Sound(Line(s), got[s])
    /\ \A x \in Known(s) : x.n <= sent

\* Envelopes under way have numbers of their own.
OwnNumbers ==
    \A p, q \in Publishers : Busy(p) /\ Busy(q) /\ pub[p].env.n = pub[q].env.n => p = q

IInv ==
    /\ Typed /\ Listed /\ OwnNumbers /\ NoSendOnClosed
    /\ \A p \in Publishers : PubOK(p)
    /\ \A s \in Subs : SubOK(s)

\* A step, as the consumer of s could see it: nothing changes; e gets in, at
\* the price of at most one envelope; e is received; the channel is closed.
Same(s) ==
    /\ Line(s)' = Line(s) /\ got'[s] = got[s]
    /\ sub'[s].state = "closed" <=> sub[s].state = "closed"

Stays == \A t \in Subs : Same(t)

Others(s) == \A t \in Subs \ {s} : Same(t)

Offers(s, e) ==
    /\ Others(s) /\ got'[s] = got[s] /\ sub[s].state # "closed" /\ sub'[s].state # "closed"
    /\ e \in Envelope /\ e \notin Known(s) /\ Len(Line(s)') <= Cap
    /\ \E lost \in {{}} \cup {{v} : v \in ToSet(Line(s))} :
          ToSet(Line(s)') = (ToSet(Line(s)) \ lost) \cup {e}

Takes(s, e) ==
    /\ Others(s) /\ sub'[s].state = sub[s].state /\ e \in Envelope /\ e \in ToSet(Line(s))
    /\ ToSet(Line(s)') = ToSet(Line(s)) \ {e}
    /\ ToSet(got'[s]) = ToSet(got[s]) \cup {e}

Closes(s) ==
    /\ Others(s) /\ Line(s)' = Line(s) /\ got'[s] = got[s]
    /\ sub[s].state # "closed" /\ sub'[s].state = "closed"
--------------------------------------------------------------------------------
(***************************************************************************)
(* Sequences.                                                              *)
(***************************************************************************)

\* Without its i-th element, a sequence is the rest in order.
LEMMA RemoveAtIs ==
    ASSUME NEW S, NEW line \in Seq(S), NEW i \in 1..Len(line)
    PROVE  /\ RemoveAt(line, i) \in Seq(S)
           /\ Len(RemoveAt(line, i)) = Len(line) - 1
           /\ \A j \in 1..(Len(line) - 1) : RemoveAt(line, i)[j] = line[IF j < i THEN j ELSE j + 1]
<1> DEFINE n == Len(line)
           a == SubSeq(line, 1, i - 1)
           b == SubSeq(line, i + 1, n)
<1>1. n \in Nat /\ i \in 1..n BY LenProperties
<1>2. \A j \in 1..n : line[j] \in S BY ElementOfSeq
<1> HIDE DEF n
<1>3. /\ a \in Seq(S) /\ Len(a) = i - 1
      /\ \A j \in 1..(i - 1) : a[j] = line[j]
  <2>1. \A j \in 1..(i - 1) : line[j] \in S BY <1>1, <1>2
  <2>2. /\ a \in Seq(S) /\ Len(a) = IF 1 <= i - 1 THEN (i - 1) - 1 + 1 ELSE 0
        /\ \A j \in 1..((i - 1) - 1 + 1) : a[j] = line[1 + j - 1]
    <3>1. 1 \in Int /\ i - 1 \in Int BY <1>1
    <3> QED BY <2>1, <3>1, SubSeqProperties
  <2>3. Len(a) = i - 1 BY <1>1, <2>2
  <2>4. \A j \in 1..(i - 1) : a[j] = line[j]
    <3> TAKE j \in 1..(i - 1)
    <3>1. j \in 1..((i - 1) - 1 + 1) /\ 1 + j - 1 = j BY <1>1
    <3> QED BY <2>2, <3>1
  <2> QED BY <2>2, <2>3, <2>4
<1>4. /\ b \in Seq(S) /\ Len(b) = n - i
      /\ \A j \in 1..(n - i) : b[j] = line[i + j]
  <2>1. \A j \in (i + 1)..n : line[j] \in S BY <1>1, <1>2
  <2>2. /\ b \in Seq(S) /\ Len(b) = IF i + 1 <= n THEN n - (i + 1) + 1 ELSE 0
        /\ \A j \in 1..(n - (i + 1) + 1) : b[j] = line[(i + 1) + j - 1]
    <3>1. i + 1 \in Int /\ n \in Int BY <1>1
    <3> QED BY <2>1, <3>1, SubSeqProperties
  <2>3. Len(b) = n - i BY <1>1, <2>2
  <2>4. \A j \in 1..(n - i) : b[j] = line[i + j]
    <3> TAKE j \in 1..(n - i)
    <3>1. j \in 1..(n - (i + 1) + 1) /\ (i + 1) + j - 1 = i + j BY <1>1
    <3> QED BY <2>2, <3>1
  <2> QED BY <2>2, <2>3, <2>4
<1>5. RemoveAt(line, i) = a \o b BY DEF RemoveAt, n
<1> HIDE DEF a, b
<1>6. /\ a \o b \in Seq(S)
      /\ Len(a \o b) = Len(a) + Len(b)
      /\ \A j \in 1..(Len(a) + Len(b)) : (a \o b)[j] = IF j <= Len(a) THEN a[j] ELSE b[j - Len(a)]
  BY <1>3, <1>4, ConcatProperties
<1>7. Len(a) + Len(b) = n - 1 BY <1>1, <1>3, <1>4
<1>8. \A j \in 1..(n - 1) : (a \o b)[j] = line[IF j < i THEN j ELSE j + 1]
  <2> TAKE j \in 1..(n - 1)
  <2>1. (a \o b)[j] = IF j <= i - 1 THEN a[j] ELSE b[j - (i - 1)] BY <1>3, <1>6, <1>7
  <2>2. CASE j < i
    <3>1. j <= i - 1 /\ j \in 1..(i - 1) BY <1>1, <2>2
    <3> QED BY <1>3, <2>1, <2>2, <3>1
  <2>3. CASE ~(j < i)
    <3>1. ~(j <= i - 1) /\ j - (i - 1) \in 1..(n - i) /\ i + (j - (i - 1)) = j + 1 BY <1>1, <2>3
    <3>2. b[j - (i - 1)] = line[i + (j - (i - 1))] BY <1>4, <3>1
    <3> QED BY <2>1, <2>3, <3>1, <3>2
  <2> QED BY <2>2, <2>3
<1> QED BY <1>5, <1>6, <1>7, <1>8 DEF n

\* What is left of the elements: all but the one removed, if they are distinct.
LEMMA RemovedSet ==
    ASSUME NEW S, NEW line \in Seq(S), NEW i \in 1..Len(line),
           \A j, k \in DOMAIN line : line[j] = line[k] => j = k
    PROVE  ToSet(RemoveAt(line, i)) = ToSet(line) \ {line[i]}
<1> DEFINE n == Len(line)
           r == RemoveAt(line, i)
<1>1. n \in Nat /\ DOMAIN line = 1..n /\ i \in 1..n BY LenProperties
<1>2. /\ r \in Seq(S) /\ Len(r) = n - 1
      /\ \A j \in 1..(n - 1) : r[j] = line[IF j < i THEN j ELSE j + 1]
  BY RemoveAtIs
<1> HIDE DEF n, r
<1>3. DOMAIN r = 1..(n - 1) BY <1>2, LenProperties
<1>4. ASSUME NEW j \in 1..(n - 1) PROVE \E k \in 1..n : k # i /\ r[j] = line[k]
  <2> DEFINE k == IF j < i THEN j ELSE j + 1
  <2>1. k \in 1..n /\ k # i BY <1>1
  <2>2. r[j] = line[k] BY <1>2
  <2> QED BY <2>1, <2>2
<1>5. ASSUME NEW k \in 1..n, k # i PROVE \E j \in 1..(n - 1) : r[j] = line[k]
  <2> DEFINE j == IF k < i THEN k ELSE k - 1
  <2>1. j \in 1..(n - 1) /\ (IF j < i THEN j ELSE j + 1) = k BY <1>1, <1>5
  <2>2. r[j] = line[k]
    <3> HIDE DEF j
    <3> QED BY <1>2, <2>1
  <2> QED BY <2>1, <2>2
<1>6. \A x : x \in ToSet(r) <=> x \in ToSet(line) \ {line[i]}
  <2> TAKE x
  <2>1. x \in ToSet(r) <=> \E j \in 1..(n - 1) : r[j] = x BY <1>3 DEF ToSet
  <2>2. x \in ToSet(line) \ {line[i]} <=> \E k \in 1..n : k # i /\ line[k] = x
    BY <1>1 DEF ToSet
  <2> QED BY <1>4, <1>5, <2>1, <2>2
<1>7. ToSet(r) = ToSet(line) \ {line[i]} BY <1>6
<1> QED BY <1>7 DEF r

LEMMA AppendedSet ==
    ASSUME NEW S, NEW line \in Seq(S), NEW e \in S
    PROVE  ToSet(Append(line, e)) = ToSet(line) \cup {e}
<1> DEFINE n == Len(line)
           a == Append(line, e)
<1>1. n \in Nat /\ DOMAIN line = 1..n BY LenProperties
<1>2. /\ a \in Seq(S) /\ Len(a) = n + 1
      /\ \A i \in 1..n : a[i] = line[i]
      /\ a[n + 1] = e
  BY AppendProperties
<1> HIDE DEF n, a
<1>3. DOMAIN a = 1..(n + 1) BY <1>2, LenProperties
<1>4. \A i \in 1..(n + 1) : i \in 1..n \/ i = n + 1 BY <1>1
<1>5. 1..n \subseteq 1..(n + 1) /\ n + 1 \in 1..(n + 1) BY <1>1
<1>6. ToSet(a) = ToSet(line) \cup {e} BY <1>1, <1>2, <1>3, <1>4, <1>5 DEF ToSet
<1> QED BY <1>6 DEF a

\* The elements of two lines in a row.
LEMMA ConcatSet ==
    ASSUME NEW S, NEW a \in Seq(S), NEW b \in Seq(S)
    PROVE  ToSet(a \o b) = ToSet(a) \cup ToSet(b)
<1> DEFINE m == Len(a)
           n == Len(b)
           c == a \o b
<1>1. m \in Nat /\ n \in Nat /\ DOMAIN a = 1..m /\ DOMAIN b = 1..n BY LenProperties
<1>2. /\ c \in Seq(S) /\ Len(c) = m + n
      /\ \A i \in 1..(m + n) : c[i] = IF i <= m THEN a[i] ELSE b[i - m]
  BY ConcatProperties
<1> HIDE DEF m, n, c
<1>3. DOMAIN c = 1..(m + n) BY <1>2, LenProperties
<1>4. \A i \in 1..m : i \in 1..(m + n) /\ c[i] = a[i] BY <1>1, <1>2
<1>5. \A i \in 1..n : m + i \in 1..(m + n) /\ c[m + i] = b[i]
  <2> TAKE i \in 1..n
  <2>1. m + i \in 1..(m + n) /\ ~(m + i <= m) /\ (m + i) - m = i BY <1>1
  <2> QED BY <1>2, <2>1
<1>6. \A i \in 1..(m + n) : i \in 1..m \/ \E j \in 1..n : i = m + j
  <2> TAKE i \in 1..(m + n)
  <2>1. i \in 1..m \/ (i - m \in 1..n /\ i = m + (i - m)) BY <1>1
  <2> QED BY <2>1
<1>7. \A x : x \in ToSet(c) <=> x \in ToSet(a) \cup ToSet(b)
  <2> TAKE x
  <2>1. x \in ToSet(c) <=> \E i \in 1..(m + n) : c[i] = x BY <1>3 DEF ToSet
  <2>2. x \in ToSet(a) <=> \E i \in 1..m : a[i] = x BY <1>1 DEF ToSet
  <2>3. x \in ToSet(b) <=> \E i \in 1..n : b[i] = x BY <1>1 DEF ToSet
  <2> QED BY <1>4, <1>5, <1>6, <2>1, <2>2, <2>3
<1>8. ToSet(c) = ToSet(a) \cup ToSet(b) BY <1>7
<1> QED BY <1>8 DEF c

\* Taking the head of a line that something precedes.
LEMMA TailBehind ==
    ASSUME NEW S, NEW a \in Seq(S), NEW b \in Seq(S), b # <<>>
    PROVE  /\ Len(a) + 1 \in 1..Len(a \o b) /\ (a \o b)[Len(a) + 1] = Head(b)
           /\ a \o Tail(b) = RemoveAt(a \o b, Len(a) + 1)
<1> DEFINE m == Len(a)
           n == Len(b)
           c == a \o b
           d == a \o Tail(b)
           r == RemoveAt(c, m + 1)
<1>1. m \in Nat /\ n \in Nat \ {0} BY LenProperties, EmptySeq
<1>2. /\ c \in Seq(S) /\ Len(c) = m + n
      /\ \A i \in 1..(m + n) : c[i] = IF i <= m THEN a[i] ELSE b[i - m]
  BY ConcatProperties
<1>3. /\ Tail(b) \in Seq(S) /\ Len(Tail(b)) = n - 1
      /\ \A i \in 1..(n - 1) : Tail(b)[i] = b[i + 1]
  BY HeadTailProperties
<1>4. /\ d \in Seq(S) /\ Len(d) = m + (n - 1)
      /\ \A i \in 1..(m + (n - 1)) : d[i] = IF i <= m THEN a[i] ELSE Tail(b)[i - m]
  BY <1>3, ConcatProperties
<1>5. Head(b) = b[1] OBVIOUS
<1> HIDE DEF m, n, c, d
<1>6. m + 1 \in 1..(m + n) BY <1>1
<1>7. /\ r \in Seq(S) /\ Len(r) = (m + n) - 1
      /\ \A j \in 1..((m + n) - 1) : r[j] = c[IF j < m + 1 THEN j ELSE j + 1]
  BY <1>2, <1>6, RemoveAtIs
<1> HIDE DEF r
<1>8. c[m + 1] = Head(b)
  <2>1. ~(m + 1 <= m) /\ (m + 1) - m = 1 BY <1>1
  <2> QED BY <1>2, <1>5, <1>6, <2>1
<1>9. ASSUME NEW i \in 1..(m + (n - 1)) PROVE d[i] = r[i]
  <2>1. i \in 1..((m + n) - 1) BY <1>1
  <2>2. CASE i <= m
    <3>1. i < m + 1 /\ i \in 1..(m + n) BY <1>1, <2>2
    <3> QED BY <1>2, <1>4, <1>7, <2>1, <2>2, <3>1
  <2>3. CASE ~(i <= m)
    <3>1. /\ ~(i < m + 1) /\ i + 1 \in 1..(m + n) /\ ~(i + 1 <= m)
          /\ i - m \in 1..(n - 1) /\ (i + 1) - m = (i - m) + 1
      BY <1>1, <2>3
    <3>2. r[i] = b[(i + 1) - m] BY <1>2, <1>7, <2>1, <3>1
    <3>3. d[i] = b[(i - m) + 1] BY <1>3, <1>4, <2>3, <3>1
    <3> QED BY <3>1, <3>2, <3>3
  <2> QED BY <2>2, <2>3
<1>10. Len(d) = Len(r) BY <1>1, <1>4, <1>7
<1>11. d = r BY <1>4, <1>7, <1>9, <1>10, SeqEqual
<1> QED BY <1>2, <1>6, <1>8, <1>11 DEF m, c, d, r

\* Moving the head of the second line to the end of the first.
LEMMA HeadMoves ==
    ASSUME NEW S, NEW a \in Seq(S), NEW b \in Seq(S), b # <<>>
    PROVE  Append(a, Head(b)) \o Tail(b) = a \o b
<1>1. Head(b) \in S /\ Tail(b) \in Seq(S) BY HeadTailProperties
<1>2. Append(a, Head(b)) = a \o <<Head(b)>> BY <1>1, AppendIsConcat
<1>3. <<Head(b)>> \in Seq(S) BY <1>1
<1>4. (a \o <<Head(b)>>) \o Tail(b) = a \o (<<Head(b)>> \o Tail(b)) BY <1>1, <1>3, ConcatAssociative
<1>5. <<Head(b)>> \o Tail(b) = b BY <1>1
<1> QED BY <1>2, <1>4, <1>5

\* Removing the first element of all.
LEMMA TailRemoves ==
    ASSUME NEW S, NEW line \in Seq(S), line # <<>>
    PROVE  /\ 1 \in 1..Len(line) /\ Head(line) = line[1]
           /\ Tail(line) = RemoveAt(line, 1)
<1>1. <<>> \in Seq(S) /\ Len(<<>>) = 0 /\ Len(line) \in Nat \ {0} BY EmptySeq
<1>2. <<>> \o Tail(line) = RemoveAt(<<>> \o line, 0 + 1) /\ (<<>> \o line)[0 + 1] = Head(line)
  BY <1>1, TailBehind
<1>3. <<>> \o line = line /\ <<>> \o Tail(line) = Tail(line)
  BY HeadTailProperties, ConcatEmptySeq
<1> QED BY <1>1, <1>2, <1>3

\* A line has no more elements than places.
LEMMA SetOfLine ==
    ASSUME NEW S, NEW line \in Seq(S)
    PROVE  /\ IsFiniteSet(ToSet(line)) /\ Cardinality(ToSet(line)) \in Nat
           /\ Cardinality(ToSet(line)) <= Len(line)
<1> DEFINE n == Len(line)
<1>1. n \in Nat /\ line \in [1..n -> S] /\ DOMAIN line = 1..n BY LenProperties
<1>2. IsFiniteSet(1..n) /\ Cardinality(1..n) = n
  <2>1. IsFiniteSet(1..n) /\ Cardinality(1..n) = IF 1 > n THEN 0 ELSE n - 1 + 1 BY <1>1, FS_Interval
  <2> QED BY <1>1, <2>1
<1> HIDE DEF n
<1>3. line \in Surjection(1..n, ToSet(line)) BY <1>1 DEF Surjection, ToSet
<1>4. IsFiniteSet(ToSet(line)) /\ Cardinality(ToSet(line)) <= Cardinality(1..n)
  BY <1>2, <1>3, FS_Surjection
<1>5. Cardinality(ToSet(line)) \in Nat BY <1>4, FS_CardinalityType
<1> QED BY <1>2, <1>4, <1>5 DEF n
--------------------------------------------------------------------------------
(***************************************************************************)
(* Lines of envelopes, and lists of subscriptions.                         *)
(***************************************************************************)
LEMMA EnvelopeNumbers == \A e \in Envelope : e.n \in Nat /\ e.n \in 1..MaxSent
BY SpineAssumption DEF Envelope

LEMMA InLine ==
    ASSUME NEW S, NEW line \in Seq(S)
    PROVE  /\ ToSet(line) \subseteq S
           /\ \A i \in DOMAIN line : line[i] \in ToSet(line) /\ i \in 1..Len(line)
BY LenProperties, ElementOfSeq DEF ToSet

LEMMA TidyDistinct ==
    ASSUME NEW line \in Seq(Envelope), Tidy(line)
    PROVE  \A j, k \in DOMAIN line : line[j].n = line[k].n => j = k
<1>1. DOMAIN line = 1..Len(line) /\ Len(line) \in Nat BY LenProperties
<1>2. \A j, k \in DOMAIN line : j < k \/ k < j \/ j = k BY <1>1
<1> QED BY <1>2 DEF Tidy

\* Out of a line, into the hands of the consumer.
LEMMA SoundTaken ==
    ASSUME NEW line \in Seq(Envelope), NEW had \in Seq(Envelope), Sound(line, had),
           NEW i \in 1..Len(line)
    PROVE  /\ RemoveAt(line, i) \in Seq(Envelope) /\ Append(had, line[i]) \in Seq(Envelope)
           /\ Sound(RemoveAt(line, i), Append(had, line[i]))
           /\ ToSet(RemoveAt(line, i)) = ToSet(line) \ {line[i]}
           /\ ToSet(Append(had, line[i])) = ToSet(had) \cup {line[i]}
<1> DEFINE n == Len(line)
           m == Len(had)
           r == RemoveAt(line, i)
           e == line[i]
           h == Append(had, e)
<1>1. n \in Nat /\ DOMAIN line = 1..n /\ m \in Nat /\ DOMAIN had = 1..m BY LenProperties
<1>2. e \in Envelope BY ElementOfSeq
<1>3. /\ r \in Seq(Envelope) /\ Len(r) = n - 1
      /\ \A j \in 1..(n - 1) : r[j] = line[IF j < i THEN j ELSE j + 1]
  BY RemoveAtIs
<1>4. Tidy(line) /\ Apart(had) /\ \A x \in ToSet(line), y \in ToSet(had) : x.n # y.n BY DEF Sound
<1>5. \A j, k \in DOMAIN line : line[j].n = line[k].n => j = k BY <1>4, TidyDistinct
<1>6. \A j, k \in DOMAIN line : line[j] = line[k] => j = k BY <1>5
<1>7. ToSet(r) = ToSet(line) \ {e} BY <1>6, RemovedSet
<1>8. /\ h \in Seq(Envelope) /\ Len(h) = m + 1
      /\ \A j \in 1..m : h[j] = had[j]
      /\ h[m + 1] = e
  BY <1>2, AppendProperties
<1>9. ToSet(h) = ToSet(had) \cup {e} BY <1>2, AppendedSet
<1>10. i \in DOMAIN line /\ e \in ToSet(line) BY <1>1, InLine
<1>11. \A x \in ToSet(line) : x # e => x.n # e.n BY <1>5, <1>10 DEF ToSet
<1> HIDE DEF n, m, r, h
<1>12. DOMAIN r = 1..(n - 1) /\ DOMAIN h = 1..(m + 1) BY <1>3, <1>8, LenProperties
<1>13. Tidy(r)
  <2> SUFFICES ASSUME NEW j \in 1..(n - 1), NEW k \in 1..(n - 1), j < k
               PROVE  r[j].n # r[k].n /\ (r[j].from = r[k].from => r[j].n < r[k].n)
    BY <1>12 DEF Tidy
  <2> DEFINE j2 == IF j < i THEN j ELSE j + 1
             k2 == IF k < i THEN k ELSE k + 1
  <2>1. j2 \in 1..n /\ k2 \in 1..n /\ j2 < k2 BY <1>1
  <2>2. r[j] = line[j2] /\ r[k] = line[k2] BY <1>3
  <2> HIDE DEF j2, k2
  <2> QED BY <1>1, <1>4, <2>1, <2>2 DEF Tidy
<1>14. \A j \in 1..m : had[j] \in ToSet(had) /\ had[j].n # e.n BY <1>1, <1>4, <1>10, InLine
<1>15. Apart(h)
  <2> SUFFICES ASSUME NEW j \in 1..(m + 1), NEW k \in 1..(m + 1), h[j].n = h[k].n PROVE j = k
    BY <1>12 DEF Apart
  <2>1. \A l \in 1..(m + 1) : l \in 1..m \/ l = m + 1 BY <1>1
  <2>2. CASE j \in 1..m /\ k \in 1..m BY <1>1, <1>4, <1>8, <2>2 DEF Apart
  <2>3. CASE ~(j \in 1..m /\ k \in 1..m) BY <1>8, <1>14, <2>1, <2>3
  <2> QED BY <2>2, <2>3
<1>16. \A x \in ToSet(r), y \in ToSet(h) : x.n # y.n BY <1>4, <1>7, <1>9, <1>11
<1>17. Sound(r, h) BY <1>13, <1>15, <1>16 DEF Sound
<1> QED BY <1>3, <1>7, <1>8, <1>9, <1>17 DEF r, h

\* Out of a line, for good.
LEMMA SoundDropped ==
    ASSUME NEW line \in Seq(Envelope), NEW had \in Seq(Envelope), Sound(line, had),
           NEW i \in 1..Len(line)
    PROVE  /\ RemoveAt(line, i) \in Seq(Envelope) /\ Sound(RemoveAt(line, i), had)
           /\ ToSet(RemoveAt(line, i)) = ToSet(line) \ {line[i]}
<1> DEFINE r == RemoveAt(line, i)
<1>1. /\ r \in Seq(Envelope) /\ Sound(r, Append(had, line[i]))
      /\ ToSet(r) = ToSet(line) \ {line[i]}
  BY SoundTaken
<1> HIDE DEF r
<1>2. Tidy(r) BY <1>1 DEF Sound
<1>3. Apart(had) /\ \A x \in ToSet(r), y \in ToSet(had) : x.n # y.n BY <1>1 DEF Sound
<1>4. Sound(r, had) BY <1>2, <1>3 DEF Sound
<1> QED BY <1>1, <1>4 DEF r

\* Into a line, at its end.
LEMMA SoundAdded ==
    ASSUME NEW line \in Seq(Envelope), NEW had \in Seq(Envelope), Sound(line, had),
           NEW e \in Envelope,
           \A x \in ToSet(line) \cup ToSet(had) : x.n # e.n /\ (x.from = e.from => x.n < e.n)
    PROVE  /\ Append(line, e) \in Seq(Envelope) /\ Sound(Append(line, e), had)
           /\ ToSet(Append(line, e)) = ToSet(line) \cup {e}
<1> DEFINE n == Len(line)
           a == Append(line, e)
<1>1. n \in Nat /\ DOMAIN line = 1..n BY LenProperties
<1>2. /\ a \in Seq(Envelope) /\ Len(a) = n + 1
      /\ \A j \in 1..n : a[j] = line[j]
      /\ a[n + 1] = e
  BY AppendProperties
<1>3. ToSet(a) = ToSet(line) \cup {e} BY AppendedSet
<1>4. \A j \in 1..n : line[j] \in ToSet(line) BY <1>1, InLine
<1> HIDE DEF n, a
<1>5. DOMAIN a = 1..(n + 1) BY <1>2, LenProperties
<1>6. Tidy(line) /\ Apart(had) /\ \A x \in ToSet(line), y \in ToSet(had) : x.n # y.n BY DEF Sound
<1>7. Tidy(a)
  <2> SUFFICES ASSUME NEW j \in 1..(n + 1), NEW k \in 1..(n + 1), j < k
               PROVE  a[j].n # a[k].n /\ (a[j].from = a[k].from => a[j].n < a[k].n)
    BY <1>5 DEF Tidy
  <2>1. j \in 1..n /\ a[j] = line[j] BY <1>1, <1>2
  <2>2. CASE k = n + 1 BY <1>2, <1>4, <2>1, <2>2
  <2>3. CASE k # n + 1
    <3>1. k \in 1..n /\ a[k] = line[k] BY <1>1, <1>2, <2>3
    <3> QED BY <1>1, <1>6, <2>1, <3>1 DEF Tidy
  <2> QED BY <2>2, <2>3
<1>8. \A x \in ToSet(a), y \in ToSet(had) : x.n # y.n BY <1>3, <1>6
<1>9. Sound(a, had) BY <1>6, <1>7, <1>8 DEF Sound
<1> QED BY <1>2, <1>3, <1>9 DEF a

\* The rest of a publisher's list.
LEMMA RestOfList ==
    ASSUME NEW list \in Seq(Subs), list # <<>>, IsInjective(list)
    PROVE  /\ Head(list) \in Subs /\ Tail(list) \in Seq(Subs) /\ IsInjective(Tail(list))
           /\ \A i \in DOMAIN Tail(list) : /\ i + 1 \in DOMAIN list /\ Tail(list)[i] = list[i + 1]
                                           /\ Tail(list)[i] # Head(list)
<1> DEFINE n == Len(list)
           t == Tail(list)
<1>1. n \in Nat \ {0} /\ DOMAIN list = 1..n BY LenProperties, EmptySeq
<1>2. /\ Head(list) \in Subs
      /\ t \in Seq(Subs) /\ Len(t) = n - 1
      /\ \A i \in 1..(n - 1) : t[i] = list[i + 1]
  BY HeadTailProperties
<1>3. Head(list) = list[1] OBVIOUS
<1> HIDE DEF n, t
<1>4. DOMAIN t = 1..(n - 1) BY <1>2, LenProperties
<1>5. \A i \in 1..(n - 1) : i + 1 \in 1..n /\ i + 1 # 1 BY <1>1
<1>6. \A i \in DOMAIN t : i + 1 \in DOMAIN list /\ t[i] = list[i + 1] /\ t[i] # Head(list)
  <2> TAKE i \in DOMAIN t
  <2>1. i + 1 \in DOMAIN list /\ 1 \in DOMAIN list /\ i + 1 # 1 /\ t[i] = list[i + 1]
    BY <1>1, <1>2, <1>4, <1>5
  <2> QED BY <1>3, <2>1 DEF IsInjective
<1>7. IsInjective(t)
  <2> SUFFICES ASSUME NEW i \in DOMAIN t, NEW j \in DOMAIN t, t[i] = t[j] PROVE i = j
    BY DEF IsInjective
  <2>1. i + 1 = j + 1 BY <1>6 DEF IsInjective
  <2>2. i \in Int /\ j \in Int BY <1>4
  <2> QED BY <2>1, <2>2
<1> QED BY <1>2, <1>6, <1>7 DEF t

\* The list without s holds each of the others once, still.
LEMMA SwapRemoveIs ==
    ASSUME NEW list \in Seq(Subs), IsInjective(list), NEW s \in Subs
    PROVE  /\ SwapRemove(list, s) \in Seq(Subs) /\ IsInjective(SwapRemove(list, s))
           /\ ToSet(SwapRemove(list, s)) \subseteq ToSet(list)
<1> DEFINE n == Len(list)
           i == CHOOSE j \in DOMAIN list : list[j] = s
           e == [list EXCEPT ![i] = list[n]]
           f == SubSeq(e, 1, n - 1)
<1>1. n \in Nat /\ DOMAIN list = 1..n BY LenProperties
<1>2. CASE ~Contains(list, s) BY <1>2 DEF SwapRemove
<1>3. CASE Contains(list, s)
  <2>1. i \in 1..n /\ list[i] = s
    <3>1. \E j \in DOMAIN list : list[j] = s BY <1>1, <1>3 DEF Contains
    <3> QED BY <1>1, <3>1
  <2>2. n \in 1..n BY <1>1, <2>1
  <2>3. list[n] \in Subs BY <2>2, ElementOfSeq
  <2> HIDE DEF i
  <2>4. /\ e \in Seq(Subs) /\ Len(e) = n
        /\ \A j \in 1..n : e[j] = IF j = i THEN list[n] ELSE list[j]
    <3>1. i \in 1..Len(list) BY <2>1
    <3> QED BY <2>3, <3>1, ExceptSeq
  <2>5. SwapRemove(list, s) = f
    BY <1>3, <2>4 DEF SwapRemove, Front, Last, i
  <2> HIDE DEF e
  <2>6. \A j \in 1..n : e[j] \in Subs BY <2>4, ElementOfSeq
  <2> HIDE DEF n
  <2>7. /\ f \in Seq(Subs) /\ Len(f) = n - 1
        /\ \A j \in 1..(n - 1) : f[j] = e[j]
    <3>1. \A j \in 1..(n - 1) : e[j] \in Subs BY <1>1, <2>6
    <3>2. 1 \in Int /\ n - 1 \in Int BY <1>1
    <3>3. /\ f \in Seq(Subs) /\ Len(f) = IF 1 <= n - 1 THEN (n - 1) - 1 + 1 ELSE 0
          /\ \A j \in 1..((n - 1) - 1 + 1) : f[j] = e[1 + j - 1]
      BY <3>1, <3>2, SubSeqProperties
    <3>4. Len(f) = n - 1 BY <1>1, <2>1, <3>3
    <3>5. \A j \in 1..(n - 1) : f[j] = e[j]
      <4> TAKE j \in 1..(n - 1)
      <4>1. j \in 1..((n - 1) - 1 + 1) /\ 1 + j - 1 = j BY <1>1
      <4> QED BY <3>3, <4>1
    <3> QED BY <3>3, <3>4, <3>5
  <2> HIDE DEF f
  <2>8. DOMAIN f = 1..(n - 1) BY <2>7, LenProperties
  <2>9. \A j \in 1..(n - 1) : j \in 1..n /\ j # n /\ f[j] = list[IF j = i THEN n ELSE j]
    <3> TAKE j \in 1..(n - 1)
    <3>1. j \in 1..n /\ j # n BY <1>1
    <3> QED BY <2>4, <2>7, <3>1
  <2>10. IsInjective(f)
    <3> SUFFICES ASSUME NEW j \in 1..(n - 1), NEW k \in 1..(n - 1), f[j] = f[k] PROVE j = k
      BY <2>8 DEF IsInjective
    <3>1. (IF j = i THEN n ELSE j) = (IF k = i THEN n ELSE k)
      BY <1>1, <2>2, <2>9 DEF IsInjective
    <3> QED BY <2>9, <3>1
  <2>11. ToSet(f) \subseteq ToSet(list)
    BY <1>1, <2>2, <2>8, <2>9 DEF ToSet
  <2> QED BY <2>5, <2>7, <2>10, <2>11
<1> QED BY <1>2, <1>3

\* A new subscription at the end of the list.
LEMMA ListAppended ==
    ASSUME NEW list \in Seq(Subs), IsInjective(list), NEW s \in Subs, s \notin ToSet(list)
    PROVE  Append(list, s) \in Seq(Subs) /\ IsInjective(Append(list, s))
<1> DEFINE n == Len(list)
           a == Append(list, s)
<1>1. n \in Nat /\ DOMAIN list = 1..n BY LenProperties
<1>2. /\ a \in Seq(Subs) /\ Len(a) = n + 1
      /\ \A j \in 1..n : a[j] = list[j]
      /\ a[n + 1] = s
  BY AppendProperties
<1> HIDE DEF n, a
<1>3. DOMAIN a = 1..(n + 1) BY <1>2, LenProperties
<1>4. \A j \in 1..(n + 1) : j \in 1..n \/ j = n + 1 BY <1>1
<1>5. \A j \in 1..n : list[j] # s BY <1>1 DEF ToSet
<1>6. IsInjective(a) BY <1>1, <1>2, <1>3, <1>4, <1>5 DEF IsInjective
<1> QED BY <1>2, <1>6 DEF a

\* A set of numbers that is not empty has a least one.
LEMMA LeastNat ==
    ASSUME NEW T \in SUBSET Nat, T # {}
    PROVE  Min(T) \in T
<1>1. PICK n \in T : \A m \in T : <<m, n>> \notin OpToRel(<, Nat)
  BY NatLessThanWellFounded, WFMin
<1>2. \A m \in T : ~(m < n) BY <1>1 DEF OpToRel
<1>3. \A m \in T : n <= m BY <1>2
<1> QED BY <1>3 DEF Min

\* What Drop drops is there.
LEMMA VictimInHand ==
    ASSUME NEW hand \in Seq(Envelope), hand # <<>>, NEW env
    PROVE  Victim(hand, env) \in 1..Len(hand)
<1> DEFINE same == {i \in DOMAIN hand : env.of # None /\ hand[i].of = env.of}
<1>1. Len(hand) \in Nat \ {0} /\ DOMAIN hand = 1..Len(hand) BY LenProperties, EmptySeq
<1>2. CASE same = {} BY <1>1, <1>2 DEF Victim
<1>3. CASE same # {}
  <2>1. same \in SUBSET Nat /\ same \subseteq 1..Len(hand) BY <1>1
  <2>2. Min(same) \in same
    <3> HIDE DEF same
    <3> QED BY <1>3, <2>1, LeastNat
  <2> QED BY <1>3, <2>1, <2>2 DEF Victim
<1> QED BY <1>2, <1>3
--------------------------------------------------------------------------------
(***************************************************************************)
(* What a step leaves alone.                                               *)
(***************************************************************************)

\* A line is a sequence of envelopes, also while the slow path holds part of it.
LEMMA LineTyped ==
    ASSUME Typed, NEW s \in Subs, sub[s].by # None => Slow(sub[s].by) /\ Target(sub[s].by) = s,
           \A p \in Publishers : Busy(p) => pub[p].env \in Envelope
    PROVE  Line(s) \in Seq(Envelope) /\ Known(s) \subseteq Envelope
<1>1. sub[s].ch \in Seq(Envelope) /\ got[s] \in Seq(Envelope) /\ sub[s].by \in Publishers \cup {None}
  BY DEF Typed, Sub
<1>2. Line(s) \in Seq(Envelope)
  <2>1. CASE sub[s].by = None BY <1>1, <2>1 DEF Line
  <2>2. CASE sub[s].by # None
    <3>1. PICK p \in Publishers : p = sub[s].by BY <1>1, <2>2
    <3>2. pub[p] \in Pub BY DEF Typed
    <3>3. pub[p].hand \in Seq(Envelope) BY <3>2 DEF Pub
    <3>4. CASE pub[p].at = "refill"
      <4>1. pub[p].env \in Envelope BY <3>4 DEF Busy
      <4>2. <<pub[p].env>> \in Seq(Envelope) BY <4>1
      <4>3. (sub[s].ch \o pub[p].hand) \o <<pub[p].env>> \in Seq(Envelope)
        BY <1>1, <3>3, <4>2, ConcatProperties
      <4> QED BY <2>2, <3>1, <3>4, <4>3 DEF Line
    <3>5. CASE pub[p].at # "refill"
      <4>1. pub[p].hand \o sub[s].ch \in Seq(Envelope) BY <1>1, <3>3, ConcatProperties
      <4> QED BY <2>2, <3>1, <3>5, <4>1 DEF Line
    <3> QED BY <3>4, <3>5
  <2> QED BY <2>1, <2>2
<1> QED BY <1>1, <1>2, InLine DEF Known

\* The same for a state of the invariant.
LEMMA LineIs ==
    ASSUME IInv, NEW s \in Subs
    PROVE  Line(s) \in Seq(Envelope) /\ got[s] \in Seq(Envelope) /\ Known(s) \subseteq Envelope
<1>1. Typed /\ SubOK(s) /\ \A p \in Publishers : PubOK(p) BY DEF IInv
<1>2. got[s] \in Seq(Envelope) BY <1>1 DEF Typed
<1> QED BY <1>1, <1>2, LineTyped DEF SubOK, PubOK

\* Where a publisher is in its list.
LEMMA TargetIs ==
    ASSUME IInv, NEW p \in Publishers, Busy(p)
    PROVE  /\ pub[p] \in Pub /\ pub[p].env \in Envelope /\ pub[p].env.from = p /\ pub[p].env.n <= sent
           /\ pub[p].todo \in Seq(Subs) /\ pub[p].todo # <<>> /\ IsInjective(pub[p].todo)
           /\ Target(p) \in Subs
           /\ 1 \in DOMAIN pub[p].todo /\ pub[p].todo[1] = Target(p)
<1>1. PubOK(p) /\ pub[p] \in Pub BY DEF IInv, Typed
<1>2. /\ pub[p].env \in Envelope /\ pub[p].env.from = p /\ pub[p].env.n <= sent
      /\ pub[p].todo # <<>> /\ IsInjective(pub[p].todo)
  BY <1>1 DEF PubOK
<1>3. pub[p].todo \in Seq(Subs) BY <1>1 DEF Pub
<1>4. Len(pub[p].todo) \in Nat \ {0} /\ DOMAIN pub[p].todo = 1..Len(pub[p].todo)
  BY <1>2, <1>3, LenProperties, EmptySeq
<1>5. Target(p) \in Subs BY <1>2, <1>3, RestOfList DEF Target
<1>6. pub[p].todo[1] = Target(p) BY DEF Target
<1> QED BY <1>1, <1>2, <1>3, <1>4, <1>5, <1>6

\* A subscription that no step is about, and that nobody who moves holds.
LEMMA SubAside ==
    ASSUME IInv, NEW t \in Subs, sub'[t] = sub[t], got'[t] = got[t],
           \A q \in Publishers : q = sub[t].by => pub'[q] = pub[q],
           sent' \in Nat, sent <= sent'
    PROVE  Known(t)' = Known(t) /\ SubOK(t)' /\ Same(t)
<1>1. SubOK(t) /\ Typed BY DEF IInv
<1>2. sub[t].by \in Publishers \cup {None} /\ sent \in Nat BY <1>1, SpineAssumption DEF Typed, Sub
<1>3. Line(t)' = Line(t)
  <2>1. CASE sub[t].by = None BY <2>1 DEF Line
  <2>2. CASE sub[t].by # None
    <3>1. pub'[sub[t].by] = pub[sub[t].by] BY <1>2, <2>2
    <3> QED BY <2>2, <3>1 DEF Line
  <2> QED BY <2>1, <2>2
<1>4. Known(t)' = Known(t) BY <1>3 DEF Known
<1>5. sub'[t].by # None => Slow(sub[t].by)' /\ Target(sub[t].by)' = t
  <2> SUFFICES ASSUME sub[t].by # None
               PROVE  pub'[sub[t].by].at \in {"measure", "drain", "refill"} /\ Head(pub'[sub[t].by].todo) = t
    BY DEF Slow, Target
  <2>1. pub'[sub[t].by] = pub[sub[t].by] BY <1>2
  <2> QED BY <1>1, <2>1 DEF SubOK, Slow, Target
<1>6. \A x \in Known(t) : x.n <= sent'
  <2> TAKE x \in Known(t)
  <2>1. x \in Envelope BY LineIs
  <2>2. x.n \in Nat /\ x.n <= sent BY <1>1, <2>1, EnvelopeNumbers DEF SubOK
  <2> QED BY <1>2, <2>2
<1>7. Sound(Line(t)', got'[t]) BY <1>1, <1>3 DEF SubOK
<1>8. Len(sub'[t].ch) <= Cap /\ (sub'[t].state = "closed" => sub'[t].by = None) BY <1>1 DEF SubOK
<1>9. Same(t) BY <1>3 DEF Same
<1> QED BY <1>4, <1>5, <1>6, <1>7, <1>8, <1>9 DEF SubOK

\* A publisher q that neither moves nor works on a subscription that changes:
\* what others bring has numbers of its own.
LEMMA PubAside ==
    ASSUME IInv, NEW q \in Publishers, pub'[q] = pub[q], sent' \in Nat, sent <= sent',
           Slow(q) => /\ sub'[Target(q)].by = q
                      /\ sub'[Target(q)].ch = sub[Target(q)].ch
                         \/ (Len(sub'[Target(q)].ch) \in Nat /\ Len(sub'[Target(q)].ch) <= Len(sub[Target(q)].ch)),
           Busy(q) => \A t \in Subs : \A x \in Known(t)' : x \in Known(t) \/ (x.n # pub[q].env.n /\ x.from # q)
    PROVE  PubOK(q)'
<1>1. PubOK(q) /\ Typed /\ pub[q] \in Pub BY DEF IInv, Typed
<1>2. sent \in Nat /\ Cap \in Nat BY <1>1, SpineAssumption DEF Typed
<1>3. Target(q)' = Target(q) /\ Ahead(q)' = Ahead(q) /\ (Slow(q)' <=> Slow(q)) /\ (Busy(q)' <=> Busy(q))
  BY DEF Target, Ahead, Slow, Busy
<1>4. ASSUME Busy(q)
      PROVE  /\ pub'[q].env \in Envelope /\ pub'[q].env.from = q /\ pub'[q].env.n <= sent'
             /\ pub'[q].todo # <<>> /\ IsInjective(pub'[q].todo)
             /\ \A i \in DOMAIN Ahead(q) : Fresh(pub[q].env, Ahead(q)[i])'
  <2>1. /\ pub[q].env \in Envelope /\ pub[q].env.from = q /\ pub[q].env.n <= sent
        /\ pub[q].todo # <<>> /\ IsInjective(pub[q].todo) /\ pub[q].todo \in Seq(Subs)
    BY <1>4, TargetIs
  <2>2. pub[q].env.n \in Nat BY <2>1, EnvelopeNumbers
  <2>3. \A i \in DOMAIN Ahead(q) : Ahead(q)[i] \in Subs
    <3>1. Ahead(q) \in Seq(Subs) BY <2>1, RestOfList DEF Ahead
    <3> QED BY <3>1, InLine
  <2>4. ASSUME NEW i \in DOMAIN Ahead(q) PROVE Fresh(pub[q].env, Ahead(q)[i])'
    <3>1. PICK t \in Subs : t = Ahead(q)[i] BY <2>3
    <3>2. Fresh(pub[q].env, t) BY <1>1, <1>4, <3>1 DEF PubOK
    <3>3. \A x \in Known(t)' : x.n # pub[q].env.n /\ (x.from = pub[q].env.from => x.n < pub[q].env.n)
      BY <1>4, <2>1, <3>2 DEF Fresh
    <3>4. \A x \in Known(Ahead(q)[i])' : x.n # pub'[q].env.n /\ (x.from = pub'[q].env.from => x.n < pub'[q].env.n)
      BY <1>3, <3>1, <3>3 DEF Known, Line
    <3> QED BY <3>4 DEF Fresh
  <2> QED BY <1>2, <2>1, <2>2, <2>4
<1>5. Slow(q) => sub'[Target(q)].by = q OBVIOUS
<1>6. pub'[q].at \in {"idle", "send", "measure"} => pub'[q].hand = <<>> BY <1>1 DEF PubOK
<1>7. ASSUME pub[q].at \in {"drain", "refill"}
      PROVE  /\ pub[q].at = "drain" => /\ Len(pub'[q].hand) + pub'[q].n <= Cap
                                       /\ Len(sub'[Target(q)].ch) <= pub'[q].n
             /\ pub[q].at = "refill" => Len(pub'[q].hand) + Len(sub'[Target(q)].ch) < Cap
  <2>1. Slow(q) /\ Busy(q) BY <1>7 DEF Slow, Busy
  <2>2. Target(q) \in Subs BY <2>1, TargetIs
  <2>3. sub[Target(q)].ch \in Seq(Envelope) BY <1>1, <2>2 DEF Typed, Sub
  <2>4. pub[q].hand \in Seq(Envelope) /\ pub[q].n \in Nat BY <1>1, <1>2 DEF Pub
  <2>5. Len(sub[Target(q)].ch) \in Nat /\ Len(pub[q].hand) \in Nat BY <2>3, <2>4, LenProperties
  <2>6. Len(sub'[Target(q)].ch) \in Nat /\ Len(sub'[Target(q)].ch) <= Len(sub[Target(q)].ch)
    BY <2>1, <2>5
  <2>7. /\ pub[q].at = "drain" => Len(pub[q].hand) + pub[q].n <= Cap /\ Len(sub[Target(q)].ch) <= pub[q].n
        /\ pub[q].at = "refill" => Len(pub[q].hand) + Len(sub[Target(q)].ch) < Cap
    BY <1>1 DEF PubOK
  <2> DEFINE h == Len(pub[q].hand)
             n == pub[q].n
             old == Len(sub[Target(q)].ch)
             new == Len(sub'[Target(q)].ch)
  <2>8. h \in Nat /\ n \in Nat /\ old \in Nat /\ new \in Nat /\ new <= old BY <2>4, <2>5, <2>6
  <2>9. /\ pub[q].at = "drain" => h + n <= Cap /\ old <= n
        /\ pub[q].at = "refill" => h + old < Cap
    BY <2>7
  <2>10. /\ pub[q].at = "drain" => h + n <= Cap /\ new <= n
         /\ pub[q].at = "refill" => h + new < Cap
    <3> HIDE DEF h, n, old, new
    <3> QED BY <1>2, <2>8, <2>9
  <2> QED BY <2>10
<1> HIDE DEF IInv
<1>8. Slow(q)' => sub'[Target(q)'].by = q BY <1>3, <1>5
<1>9. Busy(q)' => /\ pub'[q].env \in Envelope /\ pub'[q].env.from = q /\ pub'[q].env.n <= sent'
                  /\ pub'[q].todo # <<>> /\ IsInjective(pub'[q].todo)
                  /\ \A i \in DOMAIN Ahead(q)' : Fresh(pub[q].env, Ahead(q)[i])'
  BY <1>3, <1>4
<1>10. /\ pub'[q].at = "drain" => /\ Len(pub'[q].hand) + pub'[q].n <= Cap
                                 /\ Len(sub'[Target(q)'].ch) <= pub'[q].n
       /\ pub'[q].at = "refill" => Len(pub'[q].hand) + Len(sub'[Target(q)'].ch) < Cap
  BY <1>3, <1>7
<1> QED BY <1>6, <1>8, <1>9, <1>10 DEF PubOK

\* A step of p on s: what it must establish, everything else being aside.
LEMMA PublisherStep ==
    ASSUME IInv, NEW p \in Publishers, Busy(p), NEW s \in Subs, s = Target(p),
           UNCHANGED <<spSubs, sent, got, panicked>>,
           sub' \in [Subs -> Sub], pub' \in [Publishers -> Pub],
           \A t \in Subs \ {s} : sub'[t] = sub[t],
           \A q \in Publishers \ {p} : pub'[q] = pub[q],
           sub'[s] = sub[s] \/ (sub[s].by \in {None, p} /\ sub'[s].state = sub[s].state),
           Busy(p)' => pub'[p].env = pub[p].env,
           \A x \in Known(s)' : x \in Known(s) \/ x = pub[p].env,
           PubOK(p)', SubOK(s)'
    PROVE  IInv' /\ Others(s)
<1>1. Typed /\ Listed /\ OwnNumbers /\ NoSendOnClosed BY DEF IInv
<1>2. sent \in Nat /\ sent' = sent BY <1>1, SpineAssumption DEF Typed
<1>3. Typed' BY <1>1 DEF Typed
<1>4. Listed'
  <2>1. \A i \in DOMAIN spSubs : spSubs[i] \in Subs BY <1>1, InLine DEF Typed
  <2>2. \A t \in Subs : sub'[t].state = sub[t].state OBVIOUS
  <2> QED BY <1>1, <2>1, <2>2 DEF Listed
<1>5. NoSendOnClosed' BY <1>1 DEF NoSendOnClosed
<1>6. \A q \in Publishers : Busy(q)' => Busy(q) /\ pub'[q].env = pub[q].env BY DEF Busy
<1>7. OwnNumbers' BY <1>1, <1>6 DEF OwnNumbers
<1>8. ASSUME NEW t \in Subs \ {s} PROVE Known(t)' = Known(t) /\ SubOK(t)' /\ Same(t)
  <2>1. sub[t].by # p
    <3>1. SubOK(t) /\ p # None BY SpineAssumption DEF IInv
    <3> QED BY <3>1 DEF SubOK
  <2> QED BY <1>2, <2>1, SubAside
<1>9. ASSUME NEW q \in Publishers \ {p} PROVE PubOK(q)'
  <2>1. PubOK(q) BY DEF IInv
  <2>2. Slow(q) => sub'[Target(q)] = sub[Target(q)] /\ sub[Target(q)].by = q
    <3> SUFFICES ASSUME Slow(q) PROVE sub'[Target(q)] = sub[Target(q)] /\ sub[Target(q)].by = q
      OBVIOUS
    <3>1. Busy(q) BY DEF Slow, Busy
    <3>2. Target(q) \in Subs BY <3>1, TargetIs
    <3>3. sub[Target(q)].by = q BY <2>1 DEF PubOK
    <3>4. q # None BY SpineAssumption
    <3> QED BY <3>2, <3>3, <3>4
  <2>3. Slow(q) => sub'[Target(q)].by = q /\ sub'[Target(q)].ch = sub[Target(q)].ch BY <2>2
  <2>4. Busy(q) => \A t \in Subs : \A x \in Known(t)' : x \in Known(t) \/ (x.n # pub[q].env.n /\ x.from # q)
    <3> SUFFICES ASSUME Busy(q), NEW t \in Subs, NEW x \in Known(t)', x \notin Known(t)
                 PROVE  x.n # pub[q].env.n /\ x.from # q
      OBVIOUS
    <3>1. t = s BY <1>8
    <3>2. x = pub[p].env BY <3>1
    <3>3. x.from = p BY <3>2, TargetIs
    <3>4. x.n # pub[q].env.n BY <1>1, <3>2 DEF OwnNumbers
    <3> QED BY <3>3, <3>4
  <2>5. sent' \in Nat /\ sent <= sent' BY <1>2
  <2> QED BY <2>3, <2>4, <2>5, PubAside
<1>10. \A t \in Subs : SubOK(t)' BY <1>8
<1>11. \A q \in Publishers : PubOK(q)' BY <1>9
<1>12. Others(s) BY <1>8 DEF Others
<1> QED BY <1>3, <1>4, <1>5, <1>7, <1>10, <1>11, <1>12 DEF IInv
--------------------------------------------------------------------------------
(***************************************************************************)
(* Every step of a publisher preserves the invariant.                      *)
(***************************************************************************)

\* What the invariant says of a publisher at work and its subscription.
LEMMA AtWork ==
    ASSUME IInv, NEW p \in Publishers, Busy(p), NEW s \in Subs, s = Target(p)
    PROVE  /\ sub \in [Subs -> Sub] /\ pub \in [Publishers -> Pub] /\ p # None
           /\ sub[s] \in Sub /\ sub[s].ch \in Seq(Envelope)
           /\ Len(sub[s].ch) \in Nat /\ Len(sub[s].ch) <= Cap /\ Cap \in Nat \ {0}
           /\ pub[p] \in Pub /\ pub[p].hand \in Seq(Envelope)
           /\ Len(pub[p].hand) \in Nat /\ pub[p].n \in Nat
           /\ got[s] \in Seq(Envelope) /\ Line(s) \in Seq(Envelope) /\ Sound(Line(s), got[s])
           /\ sent \in Nat /\ \A x \in Known(s) : x.n <= sent
           /\ Slow(p) <=> sub[s].by = p
           /\ sub[s].by # None => sub[s].state # "closed"
<1>1. Typed /\ SubOK(s) /\ PubOK(p) BY DEF IInv
<1>2. sub \in [Subs -> Sub] /\ pub \in [Publishers -> Pub] /\ got[s] \in Seq(Envelope) BY <1>1 DEF Typed
<1>3. p # None /\ Cap \in Nat \ {0} /\ sent \in Nat BY <1>1, SpineAssumption DEF Typed
<1>4. sub[s] \in Sub /\ pub[p] \in Pub BY <1>2
<1>5. sub[s].ch \in Seq(Envelope) BY <1>4 DEF Sub
<1>6. pub[p].hand \in Seq(Envelope) /\ pub[p].n \in Nat BY <1>3, <1>4 DEF Pub
<1>7. Len(sub[s].ch) \in Nat /\ Len(pub[p].hand) \in Nat BY <1>5, <1>6, LenProperties
<1>8. Slow(p) <=> sub[s].by = p BY <1>1, <1>3 DEF PubOK, SubOK
<1>9. /\ Len(sub[s].ch) <= Cap /\ Sound(Line(s), got[s]) /\ \A x \in Known(s) : x.n <= sent
      /\ sub[s].by # None => sub[s].state # "closed"
  BY <1>1 DEF SubOK
<1>10. Line(s) \in Seq(Envelope) BY LineIs
<1> QED BY <1>2, <1>3, <1>4, <1>5, <1>6, <1>7, <1>8, <1>9, <1>10

\* Behind its target, p brings its envelope to others, where it is fresh.
LEMMA RestIsFresh ==
    ASSUME IInv, NEW p \in Publishers, Busy(p), NEW i \in DOMAIN Tail(pub[p].todo)
    PROVE  /\ Tail(pub[p].todo)[i] \in Subs \ {Target(p)}
           /\ Fresh(pub[p].env, Tail(pub[p].todo)[i])
<1>1. PubOK(p) BY DEF IInv
<1>2. pub[p].todo \in Seq(Subs) /\ pub[p].todo # <<>> /\ IsInjective(pub[p].todo) BY TargetIs
<1>3. /\ Tail(pub[p].todo) \in Seq(Subs)
      /\ i + 1 \in DOMAIN pub[p].todo /\ Tail(pub[p].todo)[i] = pub[p].todo[i + 1]
      /\ Tail(pub[p].todo)[i] # Target(p)
  BY <1>2, RestOfList DEF Target
<1>4. Tail(pub[p].todo)[i] \in Subs BY <1>3, InLine
<1>5. \A j \in DOMAIN Ahead(p) : Fresh(pub[p].env, Ahead(p)[j]) BY <1>1 DEF PubOK
<1>6. Fresh(pub[p].env, Tail(pub[p].todo)[i])
  <2>1. CASE pub[p].at = "refill" BY <1>5, <2>1 DEF Ahead
  <2>2. CASE pub[p].at # "refill"
    <3>1. Ahead(p) = pub[p].todo BY <2>2 DEF Ahead
    <3>2. Fresh(pub[p].env, pub[p].todo[i + 1]) BY <1>3, <1>5, <3>1
    <3> QED BY <1>3, <3>2
  <2> QED BY <2>1, <2>2
<1> QED BY <1>3, <1>4, <1>6

\* Where p is not at work, nothing changes.
LEMMA Elsewhere ==
    ASSUME IInv, NEW p \in Publishers, NEW s \in Subs, s = Target(p),
           UNCHANGED <<sent, got>>,
           \A t \in Subs \ {s} : sub'[t] = sub[t],
           \A q \in Publishers \ {p} : pub'[q] = pub[q]
    PROVE  \A t \in Subs \ {s} : Known(t)' = Known(t) /\ SubOK(t)'
<1> TAKE t \in Subs \ {s}
<1>1. SubOK(t) /\ p # None BY SpineAssumption DEF IInv
<1>2. sub[t].by # p BY <1>1 DEF SubOK
<1>3. sent' \in Nat /\ sent <= sent' BY SpineAssumption DEF IInv, Typed
<1> QED BY <1>2, <1>3, SubAside

\* Onward: the rest of the list, with nothing in hand, or idle.
LEMMA OnwardPub ==
    ASSUME IInv, NEW p \in Publishers, Busy(p), NEW s \in Subs, s = Target(p), Onward(p),
           UNCHANGED <<sent, got>>,
           \A t \in Subs \ {s} : sub'[t] = sub[t]
    PROVE  /\ pub' \in [Publishers -> Pub]
           /\ \A q \in Publishers \ {p} : pub'[q] = pub[q]
           /\ Busy(p)' => pub'[p].env = pub[p].env
           /\ PubOK(p)'
<1>0. PICK rest : rest = Tail(pub[p].todo) OBVIOUS
<1>1. /\ pub[p] \in Pub /\ pub[p].env \in Envelope /\ pub[p].env.from = p /\ pub[p].env.n <= sent
      /\ pub[p].todo \in Seq(Subs) /\ pub[p].todo # <<>> /\ IsInjective(pub[p].todo)
  BY TargetIs
<1>2. rest \in Seq(Subs) /\ IsInjective(rest) BY <1>0, <1>1, RestOfList
<1>3. \A i \in DOMAIN rest : rest[i] \in Subs \ {s} /\ Fresh(pub[p].env, rest[i]) BY <1>0, RestIsFresh
<1>4. pub \in [Publishers -> Pub] /\ sent \in Nat /\ Cap \in Nat BY SpineAssumption DEF IInv, Typed
<1>5. pub' = [pub EXCEPT ![p] = IF rest = <<>> THEN Idle
                                ELSE [@ EXCEPT !.at = "send", !.todo = rest, !.n = 0, !.hand = <<>>]]
  BY <1>0 DEF Onward
<1>6. \A q \in Publishers \ {p} : pub'[q] = pub[q] BY <1>4, <1>5
<1>7. pub'[p] = IF rest = <<>> THEN Idle
                ELSE [pub[p] EXCEPT !.at = "send", !.todo = rest, !.n = 0, !.hand = <<>>]
  BY <1>4, <1>5
<1>8. /\ rest = <<>> => pub'[p].at = "idle" /\ pub'[p].hand = <<>>
      /\ rest # <<>> => /\ pub'[p].at = "send" /\ pub'[p].hand = <<>>
                        /\ pub'[p].env = pub[p].env /\ pub'[p].todo = rest
      /\ pub'[p] \in Pub
  <2>1. <<>> \in Seq(Subs) /\ <<>> \in Seq(Envelope) /\ 0 \in 0..Cap BY <1>4
  <2>2. Idle \in Pub BY <2>1 DEF Idle, Pub
  <2>3. CASE rest = <<>> BY <1>7, <2>2, <2>3 DEF Idle
  <2>4. CASE rest # <<>>
    BY <1>1, <1>2, <1>7, <2>1, <2>4 DEF Pub
  <2> QED BY <2>3, <2>4
<1>9. pub' \in [Publishers -> Pub] BY <1>4, <1>5, <1>8
<1>10. \A t \in Subs \ {s} : Known(t)' = Known(t) BY <1>6, Elsewhere
<1>11. CASE rest = <<>> BY <1>6, <1>8, <1>9, <1>11 DEF PubOK, Busy, Slow
<1>12. CASE rest # <<>>
  <2>1. ~Slow(p)' BY <1>8, <1>12 DEF Slow
  <2>2. ASSUME NEW i \in DOMAIN rest PROVE Fresh(pub[p].env, rest[i])'
    <3>1. PICK t \in Subs \ {s} : t = rest[i] BY <1>3
    <3>2. Fresh(pub[p].env, t) BY <1>3, <3>1
    <3>3. \A x \in Known(t)' : x.n # pub[p].env.n /\ (x.from = pub[p].env.from => x.n < pub[p].env.n)
      BY <1>10, <3>2 DEF Fresh
    <3>4. \A x \in Known(t)' : x.n # pub'[p].env.n /\ (x.from = pub'[p].env.from => x.n < pub'[p].env.n)
      BY <1>8, <1>12, <3>3
    <3> QED BY <3>1, <3>4 DEF Fresh
  <2>3. PubOK(p)'
    <3>1. pub'[p].at = "send" /\ pub'[p].hand = <<>> /\ pub'[p].env = pub[p].env /\ pub'[p].todo = rest
      BY <1>8, <1>12
    <3>2. Ahead(p)' = rest BY <3>1 DEF Ahead
    <3>3. \A i \in DOMAIN Ahead(p)' : Fresh(pub[p].env, Ahead(p)[i])' BY <2>2, <3>2
    <3>4. sent' = sent OBVIOUS
    <3> QED BY <1>1, <1>2, <1>12, <2>1, <3>1, <3>3, <3>4 DEF PubOK
  <2>4. Busy(p)' => pub'[p].env = pub[p].env BY <1>8, <1>12
  <2> QED BY <1>6, <1>9, <2>3, <2>4
<1> QED BY <1>11, <1>12

\* p goes on and leaves its subscription as it was.
LEMMA OnwardBeside ==
    ASSUME IInv, NEW p \in Publishers, pub[p].at = "send", Onward(p),
           UNCHANGED <<spSubs, sub, sent, got, panicked>>
    PROVE  IInv' /\ Stays
<1>1. Busy(p) /\ ~Slow(p) BY DEF Busy, Slow
<1>2. PICK s \in Subs : s = Target(p) BY <1>1, TargetIs
<1>3. sub \in [Subs -> Sub] /\ sub[s].by # p /\ sent \in Nat BY <1>1, <1>2, AtWork
<1>4. /\ pub' \in [Publishers -> Pub]
      /\ \A q \in Publishers \ {p} : pub'[q] = pub[q]
      /\ Busy(p)' => pub'[p].env = pub[p].env
      /\ PubOK(p)'
  BY <1>1, <1>2, OnwardPub
<1>5. sent' \in Nat /\ sent <= sent' BY <1>3
<1>6. Known(s)' = Known(s) /\ SubOK(s)' /\ Same(s) BY <1>3, <1>4, <1>5, SubAside
<1>7. IInv' /\ Others(s) BY <1>1, <1>2, <1>3, <1>4, <1>6, PublisherStep
<1> QED BY <1>6, <1>7 DEF Others, Stays

\* p goes on, its envelope in a channel that nobody holds.
LEMMA OnwardFilled ==
    ASSUME IInv, NEW p \in Publishers, Busy(p), NEW s \in Subs, s = Target(p), Onward(p),
           UNCHANGED <<spSubs, sent, got, panicked>>,
           sub' \in [Subs -> Sub],
           \A t \in Subs \ {s} : sub'[t] = sub[t],
           sub[s].by \in {None, p}, sub'[s].state = sub[s].state, sub'[s].by = None,
           Len(sub'[s].ch) <= Cap, Sound(sub'[s].ch, got[s]),
           ToSet(sub'[s].ch) \subseteq ToSet(Line(s)) \cup {pub[p].env}
    PROVE  IInv' /\ Others(s)
<1>1. /\ pub' \in [Publishers -> Pub]
      /\ \A q \in Publishers \ {p} : pub'[q] = pub[q]
      /\ Busy(p)' => pub'[p].env = pub[p].env
      /\ PubOK(p)'
  BY OnwardPub
<1>2. Line(s)' = sub'[s].ch BY DEF Line
<1>3. \A x \in Known(s)' : x \in Known(s) \/ x = pub[p].env BY <1>2 DEF Known
<1>4. SubOK(s)'
  <2>1. \A x \in Known(s) : x.n <= sent BY AtWork
  <2>2. pub[p].env.n <= sent BY TargetIs
  <2>3. \A x \in Known(s)' : x.n <= sent' BY <1>3, <2>1, <2>2
  <2>4. Sound(Line(s)', got'[s]) BY <1>2
  <2> QED BY <2>3, <2>4 DEF SubOK
<1> QED BY <1>1, <1>3, <1>4, PublisherStep

\* p keeps the lock of its subscription, or takes it.
LEMMA StayStep ==
    ASSUME IInv, NEW p \in Publishers, Busy(p), NEW s \in Subs, s = Target(p),
           UNCHANGED <<spSubs, sent, got, panicked>>,
           sub' \in [Subs -> Sub], pub' \in [Publishers -> Pub],
           \A t \in Subs \ {s} : sub'[t] = sub[t],
           \A q \in Publishers \ {p} : pub'[q] = pub[q],
           sub[s].by \in {None, p}, sub'[s].state = sub[s].state,
           sub'[s].by = p, sub[s].state # "closed", Len(sub'[s].ch) <= Cap,
           pub'[p].env = pub[p].env, pub'[p].todo = pub[p].todo,
           pub'[p].at \in {"measure", "drain", "refill"},
           pub'[p].at = "measure" => pub'[p].hand = <<>>,
           pub'[p].at = "drain" => /\ Len(pub'[p].hand) + pub'[p].n <= Cap
                                   /\ Len(sub'[s].ch) <= pub'[p].n,
           pub'[p].at = "refill" => Len(pub'[p].hand) + Len(sub'[s].ch) < Cap,
           NEW line, Line(s)' = line, Sound(line, got[s]),
           ToSet(line) \subseteq ToSet(Line(s)) \cup {pub[p].env},
           pub'[p].at = "refill" \/ (pub[p].at # "refill" /\ line = Line(s))
    PROVE  IInv' /\ Others(s)
<1>1. /\ pub[p].env \in Envelope /\ pub[p].env.from = p /\ pub[p].env.n <= sent
      /\ pub[p].todo \in Seq(Subs) /\ pub[p].todo # <<>> /\ IsInjective(pub[p].todo)
  BY TargetIs
<1>2. /\ Target(p)' = s /\ Slow(p)' /\ Busy(p)'
      /\ Ahead(p)' = IF pub'[p].at = "refill" THEN Tail(pub[p].todo) ELSE pub[p].todo
  BY DEF Target, Slow, Busy, Ahead
<1>3. \A t \in Subs \ {s} : Known(t)' = Known(t) BY Elsewhere
<1>4. \A x \in Known(s)' : x \in Known(s) \/ x = pub[p].env BY DEF Known
<1>5. SubOK(s)'
  <2>1. \A x \in Known(s) : x.n <= sent BY AtWork
  <2>2. \A x \in Known(s)' : x.n <= sent' BY <1>1, <1>4, <2>1
  <2>3. Sound(Line(s)', got'[s]) OBVIOUS
  <2>4. Slow(sub[s].by)' /\ Target(sub[s].by)' = s BY <1>2 DEF Slow, Target
  <2> QED BY <2>2, <2>3, <2>4 DEF SubOK
<1>6. PubOK(p)'
  <2>1. ASSUME NEW i \in DOMAIN Ahead(p)' PROVE Fresh(pub[p].env, Ahead(p)[i])'
    <3>1. PICK t \in Subs : t = Ahead(p)[i]' /\ Fresh(pub[p].env, t) /\ Known(t)' = Known(t)
      <4>1. CASE pub'[p].at = "refill"
        <5>1. Ahead(p)' = Tail(pub[p].todo) BY <1>2, <4>1
        <5>2. i \in DOMAIN Tail(pub[p].todo) BY <5>1
        <5>3. /\ Tail(pub[p].todo)[i] \in Subs \ {s}
              /\ Fresh(pub[p].env, Tail(pub[p].todo)[i])
          BY <5>2, RestIsFresh
        <5> QED BY <1>3, <5>1, <5>3
      <4>2. CASE pub'[p].at # "refill"
        <5>1. Ahead(p)' = pub[p].todo /\ Ahead(p) = pub[p].todo BY <1>2, <4>2 DEF Ahead
        <5>2. PubOK(p) BY DEF IInv
        <5>3. Fresh(pub[p].env, pub[p].todo[i]) BY <5>1, <5>2 DEF PubOK
        <5>4. pub[p].todo[i] \in Subs BY <1>1, <5>1, InLine
        <5>5. Known(s)' = Known(s) BY <4>2 DEF Known
        <5>6. \A t \in Subs : Known(t)' = Known(t) BY <1>3, <5>5
        <5> QED BY <5>1, <5>3, <5>4, <5>6
      <4> QED BY <4>1, <4>2
    <3>2. \A x \in Known(t)' : x.n # pub'[p].env.n /\ (x.from = pub'[p].env.from => x.n < pub'[p].env.n)
      BY <3>1 DEF Fresh
    <3> QED BY <3>1, <3>2 DEF Fresh
  <2> QED BY <1>1, <1>2, <2>1 DEF PubOK
<1> QED BY <1>4, <1>5, <1>6, PublisherStep

LEMMA SendSkipSafe == ASSUME IInv, NEW p \in Publishers, SendSkip(p) PROVE IInv' /\ Stays
BY OnwardBeside DEF SendSkip

LEMMA SendClosedSafe == ASSUME IInv, NEW p \in Publishers, SendClosed(p) PROVE IInv' /\ Stays
BY OnwardBeside DEF SendClosed, Sending

\* Room, and nobody holds the lock: the envelope is the newest of the line.
LEMMA SendFastSafe ==
    ASSUME IInv, NEW p \in Publishers, SendFast(p)
    PROVE  IInv' /\ \E s \in Subs : Offers(s, pub[p].env)
<1>1. pub[p].at = "send" /\ Busy(p) /\ ~Slow(p) BY DEF SendFast, Sending, Busy, Slow
<1>2. PICK s \in Subs : s = Target(p) BY <1>1, TargetIs
<1>3. /\ sub[s].by = None /\ Len(sub[s].ch) # Cap
      /\ sub' = [sub EXCEPT ![s].ch = Append(@, pub[p].env)]
      /\ Onward(p) /\ UNCHANGED <<spSubs, sent, got, panicked>>
  BY <1>2 DEF SendFast, Unlocked, Full
<1>4. /\ sub \in [Subs -> Sub] /\ sub[s] \in Sub /\ sub[s].ch \in Seq(Envelope)
      /\ Len(sub[s].ch) \in Nat /\ Len(sub[s].ch) <= Cap /\ Cap \in Nat \ {0}
      /\ got[s] \in Seq(Envelope) /\ Sound(Line(s), got[s])
  BY <1>1, <1>2, AtWork
<1>5. /\ pub[p].env \in Envelope /\ 1 \in DOMAIN pub[p].todo /\ pub[p].todo[1] = s
  BY <1>1, <1>2, TargetIs
<1>6. Line(s) = sub[s].ch BY <1>3 DEF Line
<1>7. Fresh(pub[p].env, s)
  <2>1. PubOK(p) BY DEF IInv
  <2>2. Ahead(p) = pub[p].todo BY <1>1 DEF Ahead
  <2> QED BY <1>1, <1>5, <2>1, <2>2 DEF PubOK
<1>8. PICK ch : ch = Append(sub[s].ch, pub[p].env) OBVIOUS
<1>9. /\ ch \in Seq(Envelope) /\ Sound(ch, got[s])
      /\ ToSet(ch) = ToSet(Line(s)) \cup {pub[p].env}
  <2>1. \A x \in ToSet(sub[s].ch) \cup ToSet(got[s]) :
           x.n # pub[p].env.n /\ (x.from = pub[p].env.from => x.n < pub[p].env.n)
    BY <1>6, <1>7 DEF Fresh, Known
  <2>2. Sound(sub[s].ch, got[s]) BY <1>4, <1>6
  <2> QED BY <1>4, <1>5, <1>6, <1>8, <2>1, <2>2, SoundAdded
<1>10. Len(ch) = Len(sub[s].ch) + 1 BY <1>4, <1>5, <1>8, AppendProperties
<1>11. Len(ch) <= Cap BY <1>3, <1>4, <1>10
<1>12. /\ sub'[s] = [sub[s] EXCEPT !.ch = ch]
       /\ \A t \in Subs \ {s} : sub'[t] = sub[t]
       /\ sub' \in [Subs -> Sub]
  <2>1. [sub[s] EXCEPT !.ch = ch] \in Sub BY <1>4, <1>9 DEF Sub
  <2> QED BY <1>3, <1>4, <1>8, <2>1
<1>13. sub'[s].ch = ch /\ sub'[s].by = None /\ sub'[s].state = sub[s].state
  BY <1>3, <1>4, <1>12 DEF Sub
<1>14. IInv' /\ Others(s) BY <1>1, <1>2, <1>3, <1>9, <1>11, <1>12, <1>13, OnwardFilled
<1>15. PICK e : e = pub[p].env OBVIOUS
<1>16. Offers(s, e)
  <2>1. Line(s)' = ch BY <1>13 DEF Line
  <2>2. e \notin Known(s) BY <1>7, <1>15 DEF Fresh
  <2>3. ToSet(Line(s)') = (ToSet(Line(s)) \ {}) \cup {e} BY <1>9, <1>15, <2>1
  <2>4. sub[s].state # "closed" BY <1>2 DEF SendFast
  <2> QED BY <1>3, <1>5, <1>11, <1>13, <1>14, <1>15, <2>1, <2>2, <2>3, <2>4 DEF Offers
<1> QED BY <1>14, <1>15, <1>16

\* No room: the lock is taken, the line stays.
LEMMA SendSlowSafe == ASSUME IInv, NEW p \in Publishers, SendSlow(p) PROVE IInv' /\ Stays
<1>1. pub[p].at = "send" /\ Busy(p) BY DEF SendSlow, Sending, Busy
<1>2. PICK s \in Subs : s = Target(p) BY <1>1, TargetIs
<1>3. /\ sub[s].by = None /\ sub[s].state # "closed"
      /\ sub' = [sub EXCEPT ![s].by = p]
      /\ pub' = [pub EXCEPT ![p].at = "measure"]
      /\ UNCHANGED <<spSubs, sent, got, panicked>>
  BY <1>2 DEF SendSlow, Unlocked
<1>4. /\ sub \in [Subs -> Sub] /\ pub \in [Publishers -> Pub] /\ p # None
      /\ sub[s] \in Sub /\ sub[s].ch \in Seq(Envelope) /\ pub[p] \in Pub
      /\ Len(sub[s].ch) <= Cap /\ Sound(Line(s), got[s])
  BY <1>1, <1>2, AtWork
<1>5. pub[p].hand = <<>>
  <2>1. PubOK(p) BY DEF IInv
  <2> QED BY <1>1, <2>1 DEF PubOK
<1>6. /\ sub'[s] = [sub[s] EXCEPT !.by = p] /\ sub' \in [Subs -> Sub]
      /\ \A t \in Subs \ {s} : sub'[t] = sub[t]
  <2>1. [sub[s] EXCEPT !.by = p] \in Sub BY <1>4 DEF Sub
  <2> QED BY <1>3, <1>4, <2>1
<1>7. /\ pub'[p] = [pub[p] EXCEPT !.at = "measure"] /\ pub' \in [Publishers -> Pub]
      /\ \A q \in Publishers \ {p} : pub'[q] = pub[q]
  <2>1. [pub[p] EXCEPT !.at = "measure"] \in Pub BY <1>4 DEF Pub
  <2> QED BY <1>3, <1>4, <2>1
<1>8. sub'[s].by = p /\ sub'[s].ch = sub[s].ch /\ sub'[s].state = sub[s].state BY <1>4, <1>6 DEF Sub
<1>9. /\ pub'[p].at = "measure" /\ pub'[p].env = pub[p].env /\ pub'[p].todo = pub[p].todo
      /\ pub'[p].hand = <<>>
  BY <1>4, <1>5, <1>7 DEF Pub
<1>10. Line(s) = sub[s].ch BY <1>3 DEF Line
<1>11. Line(s)' = Line(s)
  <2>1. Line(s)' = pub'[p].hand \o sub'[s].ch BY <1>4, <1>8, <1>9 DEF Line
  <2> QED BY <1>4, <1>8, <1>9, <1>10, <2>1, ConcatEmptySeq
<1>12. PICK line : line = Line(s) OBVIOUS
<1>13. Line(s)' = line /\ Sound(line, got[s]) BY <1>4, <1>11, <1>12
<1>14. pub'[p].at # "drain" /\ pub'[p].at # "refill" /\ pub[p].at # "refill" BY <1>1, <1>9
<1>15. IInv' /\ Others(s) BY <1>1, <1>2, <1>3, <1>4, <1>6, <1>7, <1>8, <1>9, <1>12, <1>13, <1>14, StayStep
<1>16. Same(s) BY <1>1, <1>2, <1>3, <1>4, <1>6, <1>7, <1>8, <1>9, <1>12, <1>13, <1>14 DEF Same
<1> QED BY <1>15, <1>16 DEF Others, Stays

\* What p sees on the slow path.
LEMMA AtSlow ==
    ASSUME IInv, NEW p \in Publishers, Slow(p)
    PROVE  \E s \in Subs : s = Target(p) /\ sub[s].by = p /\ sub[s].state # "closed"
<1>1. Busy(p) BY DEF Slow, Busy
<1>2. PICK s \in Subs : s = Target(p) BY <1>1, TargetIs
<1> QED BY <1>1, <1>2, AtWork

\* As many to drain as the channel holds now.
LEMMA MeasureSafe == ASSUME IInv, NEW p \in Publishers, Measure(p) PROVE IInv' /\ Stays
<1>1. pub[p].at = "measure" /\ Busy(p) /\ Slow(p) BY DEF Measure, Busy, Slow
<1>2. PICK s \in Subs : s = Target(p) /\ sub[s].by = p /\ sub[s].state # "closed" BY <1>1, AtSlow
<1>3. /\ pub' = [pub EXCEPT ![p].at = "drain", ![p].n = Len(sub[s].ch)]
      /\ UNCHANGED <<spSubs, sub, sent, got, panicked>>
  BY <1>2 DEF Measure
<1>4. /\ sub \in [Subs -> Sub] /\ pub \in [Publishers -> Pub] /\ p # None
      /\ pub[p] \in Pub /\ Len(sub[s].ch) \in Nat /\ Cap \in Nat
      /\ Len(sub[s].ch) <= Cap /\ Sound(Line(s), got[s])
  BY <1>1, <1>2, AtWork
<1>5. pub[p].hand = <<>>
  <2>1. PubOK(p) BY DEF IInv
  <2> QED BY <1>1, <2>1 DEF PubOK
<1>6. PICK n : n = Len(sub[s].ch) OBVIOUS
<1>7. n \in 0..Cap BY <1>4, <1>6
<1>8. /\ pub'[p] = [pub[p] EXCEPT !.at = "drain", !.n = n] /\ pub' \in [Publishers -> Pub]
      /\ \A q \in Publishers \ {p} : pub'[q] = pub[q]
  <2>1. [pub[p] EXCEPT !.at = "drain", !.n = n] \in Pub BY <1>4, <1>7 DEF Pub
  <2> QED BY <1>3, <1>4, <1>6, <2>1
<1>9. /\ pub'[p].at = "drain" /\ pub'[p].env = pub[p].env /\ pub'[p].todo = pub[p].todo
      /\ pub'[p].hand = <<>> /\ pub'[p].n = n
  BY <1>4, <1>5, <1>8 DEF Pub
<1>10. Len(pub'[p].hand) + pub'[p].n <= Cap /\ Len(sub'[s].ch) <= pub'[p].n
  <2>1. Len(pub'[p].hand) = 0 BY <1>9, EmptySeq
  <2>2. Len(sub'[s].ch) = n BY <1>3, <1>6
  <2> QED BY <1>7, <1>9, <2>1, <2>2
<1>11. PICK line : line = Line(s) OBVIOUS
<1>12. Line(s)' = line
  <2>1. Line(s) = pub[p].hand \o sub[s].ch BY <1>1, <1>2, <1>4 DEF Line
  <2>2. Line(s)' = pub'[p].hand \o sub'[s].ch BY <1>2, <1>3, <1>4, <1>9 DEF Line
  <2> QED BY <1>3, <1>5, <1>9, <1>11, <2>1, <2>2
<1>13. sub' \in [Subs -> Sub] /\ sub'[s] = sub[s] /\ \A t \in Subs \ {s} : sub'[t] = sub[t] BY <1>3, <1>4
<1>14. Sound(line, got[s]) /\ pub'[p].at # "measure" /\ pub'[p].at # "refill" /\ pub[p].at # "refill"
  BY <1>1, <1>4, <1>9, <1>11
<1>15. IInv' /\ Others(s) BY <1>1, <1>2, <1>3, <1>4, <1>8, <1>9, <1>10, <1>11, <1>12, <1>13, <1>14, StayStep
<1>16. Same(s) BY <1>1, <1>2, <1>3, <1>4, <1>8, <1>9, <1>10, <1>11, <1>12, <1>13, <1>14 DEF Same
<1> QED BY <1>15, <1>16 DEF Others, Stays

\* An envelope goes from the head of the channel to the end of the hand: the
\* line is the same.
LEMMA DrainSafe == ASSUME IInv, NEW p \in Publishers, Drain(p) PROVE IInv' /\ Stays
<1>1. pub[p].at = "drain" /\ pub[p].n > 0 /\ Busy(p) /\ Slow(p) BY DEF Drain, Busy, Slow
<1>2. PICK s \in Subs : s = Target(p) /\ sub[s].by = p /\ sub[s].state # "closed" BY <1>1, AtSlow
<1>3. /\ sub \in [Subs -> Sub] /\ pub \in [Publishers -> Pub] /\ p # None
      /\ sub[s] \in Sub /\ sub[s].ch \in Seq(Envelope) /\ pub[p] \in Pub
      /\ pub[p].hand \in Seq(Envelope) /\ pub[p].n \in Nat
      /\ Len(pub[p].hand) \in Nat /\ Len(sub[s].ch) \in Nat /\ Cap \in Nat
      /\ Len(sub[s].ch) <= Cap /\ Sound(Line(s), got[s])
  BY <1>1, <1>2, AtWork
<1>4. UNCHANGED <<spSubs, sent, got, panicked>> BY DEF Drain
<1>5. Len(pub[p].hand) + pub[p].n <= Cap /\ Len(sub[s].ch) <= pub[p].n
  <2>1. PubOK(p) BY DEF IInv
  <2> QED BY <1>1, <1>2, <2>1 DEF PubOK
<1>6. Line(s) = pub[p].hand \o sub[s].ch BY <1>1, <1>2, <1>3 DEF Line
<1>7. PICK line : line = Line(s) OBVIOUS
<1>8. PICK n, hand, ch :
        /\ n = pub[p].n - 1
        /\ hand = IF sub[s].ch = <<>> THEN pub[p].hand ELSE Append(pub[p].hand, Head(sub[s].ch))
        /\ ch = IF sub[s].ch = <<>> THEN sub[s].ch ELSE Tail(sub[s].ch)
  OBVIOUS
<1>9. /\ n \in 0..Cap /\ hand \in Seq(Envelope) /\ ch \in Seq(Envelope)
      /\ hand \o ch = line
      /\ Len(hand) + n <= Cap /\ Len(ch) <= n /\ Len(ch) <= Cap
  <2>1. n \in 0..Cap BY <1>1, <1>3, <1>5, <1>8
  <2>2. CASE sub[s].ch = <<>>
    <3>1. hand = pub[p].hand /\ ch = sub[s].ch /\ Len(ch) = 0 BY <1>8, <2>2, EmptySeq
    <3>2. Len(hand) + n <= Cap /\ Len(ch) <= n BY <1>3, <1>5, <1>8, <2>1, <3>1
    <3> QED BY <1>3, <1>6, <1>7, <2>1, <3>1, <3>2
  <2>3. CASE sub[s].ch # <<>>
    <3>1. hand = Append(pub[p].hand, Head(sub[s].ch)) /\ ch = Tail(sub[s].ch) BY <1>8, <2>3
    <3>2. Head(sub[s].ch) \in Envelope /\ ch \in Seq(Envelope) /\ Len(ch) = Len(sub[s].ch) - 1
      BY <1>3, <2>3, <3>1, HeadTailProperties
    <3>3. hand \in Seq(Envelope) /\ Len(hand) = Len(pub[p].hand) + 1
      BY <1>3, <3>1, <3>2, AppendProperties
    <3>4. hand \o ch = line BY <1>3, <1>6, <1>7, <2>3, <3>1, HeadMoves
    <3>5. Len(hand) + n <= Cap /\ Len(ch) <= n /\ Len(ch) <= Cap
      BY <1>3, <1>5, <1>8, <3>2, <3>3
    <3> QED BY <2>1, <3>2, <3>3, <3>4, <3>5
  <2> QED BY <2>2, <2>3
<1>10. /\ pub'[p] = [pub[p] EXCEPT !.n = n, !.hand = hand] /\ pub' \in [Publishers -> Pub]
       /\ \A q \in Publishers \ {p} : pub'[q] = pub[q]
       /\ sub'[s] = [sub[s] EXCEPT !.ch = ch] /\ sub' \in [Subs -> Sub]
       /\ \A t \in Subs \ {s} : sub'[t] = sub[t]
  <2>1. [pub[p] EXCEPT !.n = n, !.hand = hand] \in Pub BY <1>3, <1>9 DEF Pub
  <2>2. [sub[s] EXCEPT !.ch = ch] \in Sub BY <1>3, <1>9 DEF Sub
  <2>3. CASE sub[s].ch = <<>>
    <3>1. pub' = [pub EXCEPT ![p].n = @ - 1] /\ sub' = sub BY <1>2, <2>3 DEF Drain
    <3>2. pub'[p] = [pub[p] EXCEPT !.n = pub[p].n - 1] BY <1>3, <3>1
    <3>3. [pub[p] EXCEPT !.n = pub[p].n - 1] = [pub[p] EXCEPT !.n = n, !.hand = hand]
      BY <1>3, <1>8, <2>3 DEF Pub
    <3>4. [sub[s] EXCEPT !.ch = ch] = sub[s] BY <1>3, <1>8, <2>3 DEF Sub
    <3> QED BY <1>3, <2>1, <3>1, <3>2, <3>3, <3>4
  <2>4. CASE sub[s].ch # <<>>
    <3>1. /\ pub' = [pub EXCEPT ![p].n = @ - 1, ![p].hand = Append(@, Head(sub[s].ch))]
          /\ sub' = [sub EXCEPT ![s].ch = Tail(@)]
      BY <1>2, <2>4 DEF Drain
    <3>2. pub'[p] = [pub[p] EXCEPT !.n = n, !.hand = hand] BY <1>3, <1>8, <2>4, <3>1
    <3>3. sub'[s] = [sub[s] EXCEPT !.ch = ch] BY <1>3, <1>8, <2>4, <3>1
    <3> QED BY <1>3, <2>1, <2>2, <3>1, <3>2, <3>3
  <2> QED BY <2>3, <2>4
<1>11. /\ pub'[p].at = "drain" /\ pub'[p].env = pub[p].env /\ pub'[p].todo = pub[p].todo
       /\ pub'[p].hand = hand /\ pub'[p].n = n
       /\ sub'[s].ch = ch /\ sub'[s].by = p /\ sub'[s].state = sub[s].state
  BY <1>1, <1>2, <1>3, <1>10 DEF Pub, Sub
<1>12. Line(s)' = line
  <2>1. Line(s)' = pub'[p].hand \o sub'[s].ch BY <1>3, <1>11 DEF Line
  <2> QED BY <1>9, <1>11, <2>1
<1>13. /\ Len(pub'[p].hand) + pub'[p].n <= Cap /\ Len(sub'[s].ch) <= pub'[p].n /\ Len(sub'[s].ch) <= Cap
  BY <1>9, <1>11
<1>14. Sound(line, got[s]) /\ pub'[p].at # "measure" /\ pub'[p].at # "refill" /\ pub[p].at # "refill"
  BY <1>1, <1>3, <1>7, <1>11
<1>15. IInv' /\ Others(s) BY <1>1, <1>2, <1>4, <1>7, <1>10, <1>11, <1>12, <1>13, <1>14, StayStep
<1>16. Same(s) BY <1>1, <1>2, <1>4, <1>7, <1>10, <1>11, <1>12, <1>13, <1>14 DEF Same
<1> QED BY <1>15, <1>16 DEF Others, Stays

\* Everything is in hand: one envelope makes room for the new one.
LEMMA DropSafe ==
    ASSUME IInv, NEW p \in Publishers, Drop(p)
    PROVE  IInv' /\ \E s \in Subs : Offers(s, pub[p].env)
<1>1. pub[p].at = "drain" /\ pub[p].n = 0 /\ Busy(p) /\ Slow(p) BY DEF Drop, Busy, Slow
<1>2. PICK s \in Subs : s = Target(p) /\ sub[s].by = p /\ sub[s].state # "closed" BY <1>1, AtSlow
<1>3. /\ sub \in [Subs -> Sub] /\ pub \in [Publishers -> Pub] /\ p # None
      /\ sub[s] \in Sub /\ sub[s].ch \in Seq(Envelope) /\ pub[p] \in Pub
      /\ pub[p].hand \in Seq(Envelope) /\ pub[p].n \in Nat /\ got[s] \in Seq(Envelope)
      /\ Len(pub[p].hand) \in Nat /\ Len(sub[s].ch) \in Nat /\ Cap \in Nat \ {0}
      /\ Len(sub[s].ch) <= Cap /\ Sound(Line(s), got[s])
  BY <1>1, <1>2, AtWork
<1>4. UNCHANGED <<spSubs, sub, sent, got, panicked>> BY DEF Drop
<1>5. PubOK(p) BY DEF IInv
<1>6. Len(pub[p].hand) <= Cap /\ sub[s].ch = <<>>
  <2>1. Len(pub[p].hand) + pub[p].n <= Cap /\ Len(sub[s].ch) <= pub[p].n BY <1>1, <1>2, <1>5 DEF PubOK
  <2>2. Len(pub[p].hand) <= Cap /\ Len(sub[s].ch) = 0 BY <1>1, <1>3, <2>1
  <2> QED BY <1>3, <2>2, EmptySeq
<1>7. Line(s) = pub[p].hand
  <2>1. Line(s) = pub[p].hand \o sub[s].ch BY <1>1, <1>2, <1>3 DEF Line
  <2> QED BY <1>3, <1>6, <2>1, ConcatEmptySeq
<1>8. /\ pub[p].env \in Envelope /\ 1 \in DOMAIN pub[p].todo /\ pub[p].todo[1] = s
  BY <1>1, <1>2, TargetIs
<1>9. Fresh(pub[p].env, s)
  <2>1. Ahead(p) = pub[p].todo BY <1>1 DEF Ahead
  <2> QED BY <1>1, <1>5, <1>8, <2>1 DEF PubOK
<1>10. PICK hand : hand = IF pub[p].hand = <<>> THEN pub[p].hand
                          ELSE RemoveAt(pub[p].hand, Victim(pub[p].hand, pub[p].env))
  OBVIOUS
<1>11. /\ hand \in Seq(Envelope) /\ Sound(hand, got[s]) /\ Len(hand) \in Nat /\ Len(hand) < Cap
       /\ \E lost \in {{}} \cup {{v} : v \in ToSet(pub[p].hand)} :
             ToSet(hand) = ToSet(pub[p].hand) \ lost
  <2>1. Sound(pub[p].hand, got[s]) BY <1>3, <1>7
  <2>2. CASE pub[p].hand = <<>>
    <3>1. hand = pub[p].hand /\ Len(hand) = 0 BY <1>10, <2>2, EmptySeq
    <3>2. ToSet(hand) = ToSet(pub[p].hand) \ {} BY <3>1
    <3>3. \E lost \in {{}} \cup {{v} : v \in ToSet(pub[p].hand)} : ToSet(hand) = ToSet(pub[p].hand) \ lost
      BY <3>2
    <3> QED BY <1>3, <2>1, <3>1, <3>3
  <2>3. CASE pub[p].hand # <<>>
    <3>1. PICK i : i = Victim(pub[p].hand, pub[p].env) OBVIOUS
    <3>2. i \in 1..Len(pub[p].hand) BY <1>3, <2>3, <3>1, VictimInHand
    <3>3. hand = RemoveAt(pub[p].hand, i) BY <1>10, <2>3, <3>1
    <3>4. /\ hand \in Seq(Envelope) /\ Sound(hand, got[s])
          /\ ToSet(hand) = ToSet(pub[p].hand) \ {pub[p].hand[i]}
      BY <1>3, <2>1, <3>2, <3>3, SoundDropped
    <3>5. Len(hand) = Len(pub[p].hand) - 1 BY <1>3, <3>2, <3>3, RemoveAtIs
    <3>6. Len(hand) \in Nat /\ Len(hand) < Cap BY <1>3, <1>6, <3>2, <3>5
    <3>7. pub[p].hand[i] \in ToSet(pub[p].hand)
      <4>1. i \in DOMAIN pub[p].hand BY <1>3, <3>2, LenProperties
      <4> QED BY <1>3, <4>1, InLine
    <3> QED BY <3>4, <3>6, <3>7
  <2> QED BY <2>2, <2>3
<1>12. PICK line : line = Append(hand, pub[p].env) OBVIOUS
<1>13. Sound(line, got[s]) /\ ToSet(line) = ToSet(hand) \cup {pub[p].env}
  <2>1. \A x \in ToSet(hand) \cup ToSet(got[s]) :
           x.n # pub[p].env.n /\ (x.from = pub[p].env.from => x.n < pub[p].env.n)
    BY <1>7, <1>9, <1>11 DEF Fresh, Known
  <2> QED BY <1>3, <1>8, <1>11, <1>12, <2>1, SoundAdded
<1>14. ToSet(line) \subseteq ToSet(Line(s)) \cup {pub[p].env} BY <1>7, <1>11, <1>13
<1>15. /\ pub'[p] = [pub[p] EXCEPT !.at = "refill", !.hand = hand] /\ pub' \in [Publishers -> Pub]
       /\ \A q \in Publishers \ {p} : pub'[q] = pub[q]
  <2>1. [pub[p] EXCEPT !.at = "refill", !.hand = hand] \in Pub BY <1>3, <1>11 DEF Pub
  <2>2. pub' = [pub EXCEPT ![p].at = "refill",
                           ![p].hand = IF @ = <<>> THEN @ ELSE RemoveAt(@, Victim(@, pub[p].env))]
    BY DEF Drop
  <2>3. pub'[p] = [pub[p] EXCEPT !.at = "refill", !.hand = hand] BY <1>3, <1>10, <2>2
  <2> QED BY <1>3, <2>1, <2>2, <2>3
<1>16. /\ pub'[p].at = "refill" /\ pub'[p].env = pub[p].env /\ pub'[p].todo = pub[p].todo
       /\ pub'[p].hand = hand
  BY <1>3, <1>15 DEF Pub
<1>17. sub' \in [Subs -> Sub] /\ sub'[s] = sub[s] /\ \A t \in Subs \ {s} : sub'[t] = sub[t] BY <1>3, <1>4
<1>18. Line(s)' = line
  <2>1. Line(s)' = (sub'[s].ch \o pub'[p].hand) \o <<pub'[p].env>>
    BY <1>2, <1>3, <1>16, <1>17 DEF Line
  <2>2. sub'[s].ch \o pub'[p].hand = hand BY <1>6, <1>11, <1>16, <1>17, ConcatEmptySeq
  <2> QED BY <1>8, <1>11, <1>12, <1>16, <2>1, <2>2, AppendIsConcat
<1>19. Len(pub'[p].hand) + Len(sub'[s].ch) < Cap
  <2>1. Len(sub'[s].ch) = 0 BY <1>6, <1>17, EmptySeq
  <2> QED BY <1>11, <1>16, <2>1
<1>20. pub'[p].at # "measure" /\ pub'[p].at # "drain" BY <1>16
<1>21. IInv' /\ Others(s) BY <1>1, <1>2, <1>3, <1>4, <1>13, <1>14, <1>15, <1>16, <1>17, <1>18, <1>19, <1>20, StayStep
<1>22. PICK e : e = pub[p].env OBVIOUS
<1>23. Offers(s, e)
  <2>1. e \notin Known(s) BY <1>9, <1>22 DEF Fresh
  <2>2. Len(line) <= Cap
    <3>1. Len(line) = Len(hand) + 1 BY <1>8, <1>11, <1>12, AppendProperties
    <3> QED BY <1>3, <1>11, <3>1
  <2>3. PICK lost \in {{}} \cup {{v} : v \in ToSet(Line(s))} : ToSet(hand) = ToSet(Line(s)) \ lost
    BY <1>7, <1>11
  <2>4. ToSet(Line(s)') = (ToSet(Line(s)) \ lost) \cup {e} BY <1>13, <1>18, <1>22, <2>3
  <2>5. Len(Line(s)') <= Cap BY <1>18, <2>2
  <2>6. sub[s].state # "closed" /\ sub'[s].state # "closed" /\ got'[s] = got[s] /\ e \in Envelope
    BY <1>2, <1>4, <1>8, <1>17, <1>22
  <2> QED BY <1>21, <2>1, <2>3, <2>4, <2>5, <2>6 DEF Offers
<1> QED BY <1>21, <1>22, <1>23

\* Back from the hand into the channel: the line is the same.
LEMMA RefillSafe == ASSUME IInv, NEW p \in Publishers, Refill(p) PROVE IInv' /\ Stays
<1>1. pub[p].at = "refill" /\ pub[p].hand # <<>> /\ Busy(p) /\ Slow(p) BY DEF Refill, Busy, Slow
<1>2. PICK s \in Subs : s = Target(p) /\ sub[s].by = p /\ sub[s].state # "closed" BY <1>1, AtSlow
<1>3. /\ sub \in [Subs -> Sub] /\ pub \in [Publishers -> Pub] /\ p # None
      /\ sub[s] \in Sub /\ sub[s].ch \in Seq(Envelope) /\ pub[p] \in Pub
      /\ pub[p].hand \in Seq(Envelope)
      /\ Len(pub[p].hand) \in Nat /\ Len(sub[s].ch) \in Nat /\ Cap \in Nat
      /\ Sound(Line(s), got[s]) /\ Line(s) \in Seq(Envelope)
  BY <1>1, <1>2, AtWork
<1>4. Len(pub[p].hand) + Len(sub[s].ch) < Cap
  <2>1. PubOK(p) BY DEF IInv
  <2> QED BY <1>1, <1>2, <2>1 DEF PubOK
<1>5. UNCHANGED <<spSubs, sent, got>> /\ UNCHANGED panicked
  <2>1. panicked' = (panicked \/ sub[s].state = "closed") /\ UNCHANGED <<spSubs, sent, got>>
    BY <1>2 DEF Refill, Put
  <2>2. ~panicked /\ panicked \in BOOLEAN BY DEF IInv, NoSendOnClosed, Typed
  <2> QED BY <1>2, <2>1, <2>2
<1>6. pub[p].env \in Envelope BY <1>1, TargetIs
<1>7. PICK hand, ch : hand = Tail(pub[p].hand) /\ ch = Append(sub[s].ch, Head(pub[p].hand)) OBVIOUS
<1>8. /\ Head(pub[p].hand) \in Envelope /\ hand \in Seq(Envelope) /\ Len(hand) = Len(pub[p].hand) - 1
  BY <1>1, <1>3, <1>7, HeadTailProperties
<1>9. ch \in Seq(Envelope) /\ Len(ch) = Len(sub[s].ch) + 1 BY <1>3, <1>7, <1>8, AppendProperties
<1>10. Len(hand) + Len(ch) < Cap /\ Len(ch) <= Cap
  <2>1. Len(pub[p].hand) # 0 BY <1>1, <1>3, EmptySeq
  <2>2. PICK a, b : a = Len(pub[p].hand) /\ b = Len(sub[s].ch) OBVIOUS
  <2>3. a \in Nat \ {0} /\ b \in Nat /\ a + b < Cap /\ Cap \in Nat BY <1>3, <1>4, <2>1, <2>2
  <2>4. Len(hand) = a - 1 /\ Len(ch) = b + 1 BY <1>8, <1>9, <2>2
  <2>5. (a - 1) + (b + 1) < Cap /\ b + 1 <= Cap BY <2>3
  <2> QED BY <2>4, <2>5
<1>11. /\ pub'[p] = [pub[p] EXCEPT !.hand = hand] /\ pub' \in [Publishers -> Pub]
       /\ \A q \in Publishers \ {p} : pub'[q] = pub[q]
  <2>1. [pub[p] EXCEPT !.hand = hand] \in Pub BY <1>3, <1>8 DEF Pub
  <2>2. pub' = [pub EXCEPT ![p].hand = Tail(@)] BY DEF Refill
  <2>3. pub'[p] = [pub[p] EXCEPT !.hand = hand] BY <1>3, <1>7, <2>2
  <2> QED BY <1>3, <2>1, <2>2, <2>3
<1>12. /\ sub'[s] = [sub[s] EXCEPT !.by = p, !.ch = ch] /\ sub' \in [Subs -> Sub]
       /\ \A t \in Subs \ {s} : sub'[t] = sub[t]
  <2>1. [sub[s] EXCEPT !.by = p, !.ch = ch] \in Sub BY <1>3, <1>9 DEF Sub
  <2>2. ~Full(s)
    <3>1. PICK a, b : a = Len(pub[p].hand) /\ b = Len(sub[s].ch) OBVIOUS
    <3>2. a \in Nat /\ b \in Nat /\ a + b < Cap /\ Cap \in Nat BY <1>3, <1>4, <3>1
    <3>3. b # Cap BY <3>2
    <3> QED BY <3>1, <3>3 DEF Full
  <2>3. sub' = [sub EXCEPT ![s].by = p, ![s].ch = Append(@, Head(pub[p].hand))]
    BY <1>2, <2>2 DEF Refill, Put
  <2>4. sub'[s] = [sub[s] EXCEPT !.by = p, !.ch = ch] BY <1>3, <1>7, <2>3
  <2> QED BY <1>3, <2>1, <2>3, <2>4
<1>13. /\ pub'[p].at = "refill" /\ pub'[p].env = pub[p].env /\ pub'[p].todo = pub[p].todo
       /\ pub'[p].hand = hand
       /\ sub'[s].ch = ch /\ sub'[s].by = p /\ sub'[s].state = sub[s].state
  BY <1>1, <1>3, <1>11, <1>12 DEF Pub, Sub
<1>14. PICK line : line = Line(s) OBVIOUS
<1>15. Line(s)' = line
  <2>1. Line(s) = (sub[s].ch \o pub[p].hand) \o <<pub[p].env>> BY <1>1, <1>2, <1>3 DEF Line
  <2>2. Line(s)' = (sub'[s].ch \o pub'[p].hand) \o <<pub'[p].env>> BY <1>3, <1>13 DEF Line
  <2>3. ch \o hand = sub[s].ch \o pub[p].hand BY <1>1, <1>3, <1>7, HeadMoves
  <2> QED BY <1>13, <1>14, <2>1, <2>2, <2>3
<1>16. Len(pub'[p].hand) + Len(sub'[s].ch) < Cap /\ Len(sub'[s].ch) <= Cap BY <1>10, <1>13
<1>17. Sound(line, got[s]) /\ pub'[p].at # "measure" /\ pub'[p].at # "drain" BY <1>3, <1>13, <1>14
<1>18. IInv' /\ Others(s) BY <1>1, <1>2, <1>5, <1>11, <1>12, <1>13, <1>14, <1>15, <1>16, <1>17, StayStep
<1>19. Same(s) BY <1>1, <1>2, <1>5, <1>11, <1>12, <1>13, <1>14, <1>15, <1>16, <1>17 DEF Same
<1> QED BY <1>18, <1>19 DEF Others, Stays

\* The new envelope is where the line had it; the lock is free.
LEMMA DeliverSafe == ASSUME IInv, NEW p \in Publishers, Deliver(p) PROVE IInv' /\ Stays
<1>1. pub[p].at = "refill" /\ pub[p].hand = <<>> /\ Busy(p) /\ Slow(p) BY DEF Deliver, Busy, Slow
<1>2. PICK s \in Subs : s = Target(p) /\ sub[s].by = p /\ sub[s].state # "closed" BY <1>1, AtSlow
<1>3. /\ sub \in [Subs -> Sub] /\ p # None /\ sub[s] \in Sub /\ sub[s].ch \in Seq(Envelope)
      /\ Len(sub[s].ch) \in Nat /\ Cap \in Nat /\ Sound(Line(s), got[s])
  BY <1>1, <1>2, AtWork
<1>4. Len(sub[s].ch) < Cap
  <2>1. PubOK(p) BY DEF IInv
  <2>2. Len(pub[p].hand) + Len(sub[s].ch) < Cap BY <1>1, <1>2, <2>1 DEF PubOK
  <2> QED BY <1>1, <1>3, <2>2, EmptySeq
<1>5. UNCHANGED <<spSubs, sent, got>> /\ UNCHANGED panicked
  <2>1. panicked' = (panicked \/ sub[s].state = "closed") /\ UNCHANGED <<spSubs, sent, got>>
    BY <1>2 DEF Deliver, Put
  <2>2. ~panicked /\ panicked \in BOOLEAN BY DEF IInv, NoSendOnClosed, Typed
  <2> QED BY <1>2, <2>1, <2>2
<1>6. pub[p].env \in Envelope BY <1>1, TargetIs
<1>7. PICK ch : ch = Append(sub[s].ch, pub[p].env) OBVIOUS
<1>8. ch \in Seq(Envelope) /\ Len(ch) <= Cap
  <2>1. ch \in Seq(Envelope) /\ Len(ch) = Len(sub[s].ch) + 1 BY <1>3, <1>6, <1>7, AppendProperties
  <2> QED BY <1>3, <1>4, <2>1
<1>9. Line(s) = ch
  <2>1. Line(s) = (sub[s].ch \o pub[p].hand) \o <<pub[p].env>> BY <1>1, <1>2, <1>3 DEF Line
  <2>2. sub[s].ch \o pub[p].hand = sub[s].ch BY <1>1, <1>3, ConcatEmptySeq
  <2> QED BY <1>3, <1>6, <1>7, <2>1, <2>2, AppendIsConcat
<1>10. /\ sub'[s] = [sub[s] EXCEPT !.by = None, !.ch = ch] /\ sub' \in [Subs -> Sub]
       /\ \A t \in Subs \ {s} : sub'[t] = sub[t]
  <2>1. [sub[s] EXCEPT !.by = None, !.ch = ch] \in Sub BY <1>3, <1>8 DEF Sub
  <2>2. ~Full(s) BY <1>3, <1>4 DEF Full
  <2>3. sub' = [sub EXCEPT ![s].by = None, ![s].ch = Append(@, pub[p].env)]
    BY <1>2, <2>2 DEF Deliver, Put
  <2>4. sub'[s] = [sub[s] EXCEPT !.by = None, !.ch = ch] BY <1>3, <1>7, <2>3
  <2> QED BY <1>3, <2>1, <2>3, <2>4
<1>11. sub'[s].ch = ch /\ sub'[s].by = None /\ sub'[s].state = sub[s].state BY <1>3, <1>10 DEF Sub
<1>12. Onward(p) BY DEF Deliver
<1>13. /\ Len(sub'[s].ch) <= Cap /\ Sound(sub'[s].ch, got[s])
       /\ ToSet(sub'[s].ch) \subseteq ToSet(Line(s)) \cup {pub[p].env}
  BY <1>3, <1>8, <1>9, <1>11
<1>14. IInv' /\ Others(s) BY <1>1, <1>2, <1>5, <1>10, <1>11, <1>12, <1>13, OnwardFilled
<1>15. Same(s)
  <2>1. Line(s)' = ch BY <1>11 DEF Line
  <2> QED BY <1>5, <1>9, <1>11, <2>1 DEF Same
<1> QED BY <1>14, <1>15 DEF Others, Stays
--------------------------------------------------------------------------------
(***************************************************************************)
(* Publishing, and the steps of a subscription, preserve the invariant.    *)
(***************************************************************************)

\* A number nobody has, greater than all: fresh everywhere.
LEMMA PublishSafe ==
    ASSUME IInv, NEW p \in Publishers, NEW key \in Keys, NEW of \in Entities \cup {None},
           Publish(p, key, of)
    PROVE  IInv' /\ Stays
<1>1. Typed /\ Listed /\ OwnNumbers /\ NoSendOnClosed /\ PubOK(p) BY DEF IInv
<1>2. /\ pub[p].at = "idle" /\ sent < MaxSent /\ sent' = sent + 1
      /\ UNCHANGED <<spSubs, sub, got, panicked>>
  BY DEF Publish
<1>3. sent \in Nat /\ MaxSent \in Nat /\ pub \in [Publishers -> Pub] /\ Cap \in Nat
  BY <1>1, SpineAssumption DEF Typed
<1>4. sent' \in 0..MaxSent /\ sent' \in Nat /\ sent <= sent' /\ sent' \in 1..MaxSent BY <1>2, <1>3
<1>5. PICK env : env = [n |-> sent + 1, key |-> key, of |-> of, from |-> p] OBVIOUS
<1>6. env \in Envelope /\ env.n = sent' /\ env.from = p BY <1>2, <1>4, <1>5 DEF Envelope
<1>7. pub' = IF spSubs = <<>> THEN pub
             ELSE [pub EXCEPT ![p] = [Idle EXCEPT !.at = "send", !.todo = spSubs, !.env = env]]
  BY <1>5 DEF Publish
<1>8. \A q \in Publishers \ {p} : pub'[q] = pub[q] BY <1>3, <1>7
<1>9. /\ spSubs = <<>> => pub' = pub
      /\ spSubs # <<>> => /\ pub'[p].at = "send" /\ pub'[p].hand = <<>>
                          /\ pub'[p].env = env /\ pub'[p].todo = spSubs
      /\ pub' \in [Publishers -> Pub]
  <2>1. CASE spSubs = <<>> BY <1>3, <1>7, <2>1
  <2>2. CASE spSubs # <<>>
    <3>1. <<>> \in Seq(Envelope) /\ 0 \in 0..Cap /\ spSubs \in Seq(Subs) BY <1>1, <1>3 DEF Typed
    <3>2. pub'[p] = [Idle EXCEPT !.at = "send", !.todo = spSubs, !.env = env] BY <1>3, <1>7, <2>2
    <3>3. pub'[p] = [at |-> "send", env |-> env, todo |-> spSubs, n |-> 0, hand |-> <<>>]
      BY <3>2 DEF Idle
    <3>4. pub'[p] \in Pub BY <1>6, <3>1, <3>3 DEF Pub
    <3>5. pub' \in [Publishers -> Pub] BY <1>3, <1>7, <2>2, <3>2, <3>4
    <3> QED BY <2>2, <3>3, <3>5
  <2> QED BY <2>1, <2>2
<1>10. \A t \in Subs : Known(t)' = Known(t) /\ SubOK(t)' /\ Same(t)
  <2> TAKE t \in Subs
  <2>1. SubOK(t) BY DEF IInv
  <2>2. sub[t].by # None => sub[t].by # p BY <1>2, <2>1 DEF SubOK, Slow
  <2>3. sub'[t] = sub[t] /\ got'[t] = got[t] BY <1>2
  <2>4. \A q \in Publishers : q = sub[t].by => pub'[q] = pub[q]
    <3>1. p # None BY SpineAssumption
    <3>2. sub[t].by # p BY <2>2, <3>1
    <3> QED BY <1>8, <3>2
  <2> QED BY <1>4, <2>3, <2>4, SubAside
<1>11. ASSUME NEW q \in Publishers \ {p} PROVE PubOK(q)'
  <2>1. Slow(q) => sub'[Target(q)].by = q /\ sub'[Target(q)].ch = sub[Target(q)].ch
    <3>1. PubOK(q) BY DEF IInv
    <3> QED BY <1>2, <3>1 DEF PubOK
  <2>2. \A t \in Subs : \A x \in Known(t)' : x \in Known(t) BY <1>10
  <2>3. pub'[q] = pub[q] BY <1>8
  <2> QED BY <1>4, <2>1, <2>2, <2>3, PubAside
<1>12. PubOK(p)'
  <2>1. CASE spSubs = <<>>
    <3>1. pub'[p] = pub[p] BY <1>9, <2>1
    <3>2. ~Busy(p)' /\ ~Slow(p)' /\ pub'[p].at = "idle" BY <1>2, <3>1 DEF Busy, Slow
    <3>3. pub'[p].hand = <<>> BY <1>1, <1>2, <3>1 DEF PubOK
    <3> QED BY <3>2, <3>3 DEF PubOK
  <2>2. CASE spSubs # <<>>
    <3>1. pub'[p].at = "send" /\ pub'[p].hand = <<>> /\ pub'[p].env = env /\ pub'[p].todo = spSubs
      BY <1>9, <2>2
    <3>2. ~Slow(p)' /\ Ahead(p)' = spSubs BY <3>1 DEF Slow, Ahead
    <3>3. IsInjective(spSubs) /\ spSubs \in Seq(Subs) BY <1>1 DEF Listed, Typed
    <3>4. ASSUME NEW t \in Subs PROVE Fresh(pub[p].env, t)'
      <4>1. \A x \in Known(t) : x.n <= sent /\ x.n \in Nat
        <5>1. SubOK(t) BY DEF IInv
        <5>2. Known(t) \subseteq Envelope BY LineIs
        <5> QED BY <5>1, <5>2, EnvelopeNumbers DEF SubOK
      <4>2. \A x \in Known(t)' : x.n # env.n /\ (x.from = env.from => x.n < env.n)
        BY <1>2, <1>3, <1>6, <1>10, <4>1
      <4>3. \A x \in Known(t)' : x.n # pub'[p].env.n /\ (x.from = pub'[p].env.from => x.n < pub'[p].env.n)
        BY <3>1, <4>2
      <4> QED BY <4>3 DEF Fresh
    <3>5. \A i \in DOMAIN spSubs : spSubs[i] \in Subs BY <3>3, InLine
    <3>6. ASSUME NEW i \in DOMAIN Ahead(p)' PROVE Fresh(pub[p].env, Ahead(p)[i])'
      <4>1. PICK t \in Subs : t = Ahead(p)[i]' BY <3>2, <3>5
      <4>2. Fresh(pub[p].env, t)' BY <3>4
      <4> QED BY <4>1, <4>2 DEF Fresh
    <3>7. env.n <= sent' BY <1>4, <1>6
    <3>8. Busy(p)' => /\ pub'[p].env \in Envelope /\ pub'[p].env.from = p /\ pub'[p].env.n <= sent'
                      /\ pub'[p].todo # <<>> /\ IsInjective(pub'[p].todo)
                      /\ \A i \in DOMAIN Ahead(p)' : Fresh(pub[p].env, Ahead(p)[i])'
      BY <1>6, <2>2, <3>1, <3>3, <3>6, <3>7
    <3> QED BY <3>1, <3>2, <3>8 DEF PubOK
  <2> QED BY <2>1, <2>2
<1>13. OwnNumbers'
  <2>1. \A q \in Publishers : Busy(q) => pub[q].env.n <= sent /\ pub[q].env.n \in Nat
    BY TargetIs, EnvelopeNumbers
  <2>2. \A q \in Publishers \ {p} : (Busy(q)' => Busy(q)) /\ pub'[q].env = pub[q].env BY <1>8 DEF Busy
  <2>3. \A q \in Publishers \ {p} : Busy(q)' => pub'[q].env.n # sent + 1
    <3> SUFFICES ASSUME NEW q \in Publishers \ {p}, Busy(q) PROVE pub'[q].env.n # sent + 1 BY <2>2
    <3>1. pub[q].env.n <= sent /\ pub[q].env.n \in Nat BY <2>1
    <3> QED BY <1>3, <2>2, <3>1
  <2>4. Busy(p)' => pub'[p].env.n = sent + 1
    BY <1>2, <1>6, <1>9 DEF Busy
  <2> QED BY <1>1, <2>2, <2>3, <2>4 DEF OwnNumbers
<1>14. Typed' BY <1>1, <1>2, <1>4, <1>9 DEF Typed
<1>15. Listed' /\ NoSendOnClosed' BY <1>1, <1>2 DEF Listed, NoSendOnClosed
<1>16. \A q \in Publishers : PubOK(q)' BY <1>11, <1>12
<1> QED BY <1>10, <1>13, <1>14, <1>15, <1>16 DEF IInv, Stays

\* A step of a subscription: its channel may only lose envelopes.
LEMMA SubStep ==
    ASSUME IInv, NEW s \in Subs, UNCHANGED <<pub, sent, panicked>>,
           spSubs' \in Seq(Subs), sub' \in [Subs -> Sub], got' \in [Subs -> Seq(Envelope)],
           \A t \in Subs \ {s} : sub'[t] = sub[t] /\ got'[t] = got[t],
           sub'[s].by = sub[s].by, sub'[s].state = "closed" => sub[s].by = None,
           Len(sub'[s].ch) \in Nat, Len(sub'[s].ch) <= Len(sub[s].ch),
           NEW line, Line(s)' = line, Sound(line, got'[s]),
           ToSet(line) \cup ToSet(got'[s]) \subseteq Known(s),
           IsInjective(spSubs'), \A i \in DOMAIN spSubs' : sub'[spSubs'[i]].state # "new"
    PROVE  IInv' /\ Others(s)
<1>1. Typed /\ OwnNumbers /\ NoSendOnClosed /\ SubOK(s) BY DEF IInv
<1>2. /\ sent \in Nat /\ sent' \in Nat /\ sent <= sent' /\ Cap \in Nat
      /\ sub \in [Subs -> Sub] /\ sub[s].ch \in Seq(Envelope)
  BY <1>1, SpineAssumption DEF Typed, Sub
<1>3. Len(sub[s].ch) \in Nat BY <1>2, LenProperties
<1>4. ASSUME NEW t \in Subs \ {s} PROVE Known(t)' = Known(t) /\ SubOK(t)' /\ Same(t)
  BY <1>2, SubAside
<1>5. Known(s)' \subseteq Known(s) BY DEF Known
<1>6. SubOK(s)'
  <2>1. Len(sub'[s].ch) <= Cap
    <3>1. Len(sub[s].ch) <= Cap BY <1>1 DEF SubOK
    <3>2. PICK a, b : a = Len(sub'[s].ch) /\ b = Len(sub[s].ch) OBVIOUS
    <3>3. a \in Nat /\ b \in Nat /\ a <= b /\ b <= Cap BY <1>3, <3>1, <3>2
    <3>4. a <= Cap BY <1>2, <3>3
    <3> QED BY <3>2, <3>4
  <2>2. sub[s].by # None => Slow(sub[s].by)' /\ Target(sub[s].by)' = s BY <1>1 DEF SubOK, Slow, Target
  <2>3. \A x \in Known(s)' : x.n <= sent' BY <1>1, <1>5 DEF SubOK
  <2>4. Sound(Line(s)', got'[s]) OBVIOUS
  <2> QED BY <2>1, <2>2, <2>3, <2>4 DEF SubOK
<1>7. ASSUME NEW q \in Publishers PROVE PubOK(q)'
  <2>1. PubOK(q) BY DEF IInv
  <2>2. Slow(q) => /\ sub'[Target(q)].by = q
                   /\ sub'[Target(q)].ch = sub[Target(q)].ch
                      \/ (Len(sub'[Target(q)].ch) \in Nat /\ Len(sub'[Target(q)].ch) <= Len(sub[Target(q)].ch))
    <3> SUFFICES ASSUME Slow(q)
                 PROVE  /\ sub'[Target(q)].by = q
                        /\ sub'[Target(q)].ch = sub[Target(q)].ch
                           \/ (/\ Len(sub'[Target(q)].ch) \in Nat
                               /\ Len(sub'[Target(q)].ch) <= Len(sub[Target(q)].ch))
      OBVIOUS
    <3>1. Busy(q) BY DEF Slow, Busy
    <3>2. PICK t \in Subs : t = Target(q) BY <3>1, TargetIs
    <3>3. sub[t].by = q BY <2>1, <3>2 DEF PubOK
    <3>4. CASE t = s BY <3>2, <3>3, <3>4
    <3>5. CASE t # s BY <3>2, <3>3, <3>5
    <3> QED BY <3>4, <3>5
  <2>3. \A t \in Subs : \A x \in Known(t)' : x \in Known(t) BY <1>4, <1>5
  <2>4. pub'[q] = pub[q] OBVIOUS
  <2> QED BY <1>2, <2>2, <2>3, <2>4, PubAside
<1>8. Typed' BY <1>1 DEF Typed
<1>9. Listed' BY DEF Listed
<1>10. OwnNumbers' /\ NoSendOnClosed' BY <1>1 DEF OwnNumbers, Busy, NoSendOnClosed
<1>11. \A t \in Subs : SubOK(t)' BY <1>4, <1>6
<1>12. Others(s) BY <1>4 DEF Others
<1> QED BY <1>7, <1>8, <1>9, <1>10, <1>11, <1>12 DEF IInv

\* What the invariant says of a subscription.
LEMMA AtSub ==
    ASSUME IInv, NEW s \in Subs
    PROVE  /\ spSubs \in Seq(Subs) /\ IsInjective(spSubs)
           /\ \A i \in DOMAIN spSubs : spSubs[i] \in Subs /\ sub[spSubs[i]].state # "new"
           /\ sub \in [Subs -> Sub] /\ got \in [Subs -> Seq(Envelope)]
           /\ sub[s] \in Sub /\ sub[s].ch \in Seq(Envelope) /\ Len(sub[s].ch) \in Nat
           /\ got[s] \in Seq(Envelope) /\ Line(s) \in Seq(Envelope) /\ Sound(Line(s), got[s])
           /\ sub[s].by # None => /\ sub[s].by \in Publishers /\ Slow(sub[s].by)
                                  /\ sub[s].state # "closed" /\ pub[sub[s].by].hand \in Seq(Envelope)
<1>1. Typed /\ Listed /\ SubOK(s) BY DEF IInv
<1>2. /\ spSubs \in Seq(Subs) /\ sub \in [Subs -> Sub] /\ got \in [Subs -> Seq(Envelope)]
      /\ pub \in [Publishers -> Pub]
  BY <1>1 DEF Typed
<1>3. \A i \in DOMAIN spSubs : spSubs[i] \in Subs BY <1>2, InLine
<1>4. sub[s] \in Sub /\ got[s] \in Seq(Envelope) BY <1>2
<1>5. sub[s].ch \in Seq(Envelope) /\ sub[s].by \in Publishers \cup {None} BY <1>4 DEF Sub
<1>6. Len(sub[s].ch) \in Nat BY <1>5, LenProperties
<1>7. sub[s].by # None => /\ sub[s].by \in Publishers /\ Slow(sub[s].by)
                          /\ sub[s].state # "closed" /\ pub[sub[s].by].hand \in Seq(Envelope)
  BY <1>1, <1>2, <1>5 DEF SubOK, Pub
<1>8. Sound(Line(s), got[s]) BY <1>1 DEF SubOK
<1>9. Line(s) \in Seq(Envelope) BY LineIs
<1>10. IsInjective(spSubs) /\ \A i \in DOMAIN spSubs : sub[spSubs[i]].state # "new" BY <1>1 DEF Listed
<1> QED BY <1>2, <1>3, <1>4, <1>5, <1>6, <1>7, <1>8, <1>9, <1>10

\* A new state for s, and a list to go with it.
LEMMA StateStep ==
    ASSUME IInv, NEW s \in Subs, NEW state \in {"on", "cut", "closed"},
           sub' = [sub EXCEPT ![s].state = state], UNCHANGED <<pub, sent, got, panicked>>,
           state = "closed" => sub[s].by = None,
           spSubs' \in Seq(Subs), IsInjective(spSubs'),
           ToSet(spSubs') \subseteq ToSet(spSubs) \cup {s}
    PROVE  IInv' /\ Others(s) /\ Line(s)' = Line(s) /\ got'[s] = got[s] /\ sub'[s].state = state
<1>1. /\ sub \in [Subs -> Sub] /\ got \in [Subs -> Seq(Envelope)] /\ sub[s] \in Sub
      /\ Len(sub[s].ch) \in Nat /\ Sound(Line(s), got[s])
      /\ \A i \in DOMAIN spSubs : sub[spSubs[i]].state # "new"
  BY AtSub
<1>2. /\ sub'[s] = [sub[s] EXCEPT !.state = state] /\ sub' \in [Subs -> Sub]
      /\ \A t \in Subs \ {s} : sub'[t] = sub[t]
  <2>1. [sub[s] EXCEPT !.state = state] \in Sub BY <1>1 DEF Sub
  <2> QED BY <1>1, <2>1
<1>3. sub'[s].by = sub[s].by /\ sub'[s].ch = sub[s].ch /\ sub'[s].state = state BY <1>1, <1>2 DEF Sub
<1>4. PICK line : line = Line(s) OBVIOUS
<1>5. Line(s)' = line BY <1>3, <1>4 DEF Line
<1>6. ToSet(line) \cup ToSet(got'[s]) \subseteq Known(s) BY <1>4 DEF Known
<1>7. \A i \in DOMAIN spSubs' : sub'[spSubs'[i]].state # "new"
  <2> TAKE i \in DOMAIN spSubs'
  <2>1. PICK t \in Subs : t = spSubs'[i] BY InLine
  <2>2. t \in ToSet(spSubs) \cup {s} BY <2>1, InLine
  <2>3. CASE t = s BY <1>3, <2>1, <2>3
  <2>4. CASE t # s
    <3>1. sub[t].state # "new" BY <1>1, <2>2, <2>4 DEF ToSet
    <3> QED BY <1>2, <2>1, <2>4, <3>1
  <2> QED BY <2>3, <2>4
<1>8. Len(sub[s].ch) <= Len(sub[s].ch) BY <1>1
<1>9. sub'[s].state = "closed" => sub[s].by = None BY <1>3
<1>10. Sound(line, got'[s]) BY <1>1, <1>4
<1>11. IInv' /\ Others(s) BY <1>1, <1>2, <1>3, <1>5, <1>6, <1>7, <1>8, <1>9, <1>10, SubStep
<1> QED BY <1>3, <1>4, <1>5, <1>11

LEMMA SubscribeSafe == ASSUME IInv, NEW s \in Subs, Subscribe(s) PROVE IInv' /\ Stays
<1>1. /\ sub[s].state = "new" /\ sub' = [sub EXCEPT ![s].state = "on"] /\ spSubs' = Append(spSubs, s)
      /\ UNCHANGED <<pub, sent, got, panicked>>
  BY DEF Subscribe
<1>2. spSubs \in Seq(Subs) /\ IsInjective(spSubs) BY AtSub
<1>3. s \notin ToSet(spSubs)
  <2>1. \A i \in DOMAIN spSubs : spSubs[i] # s BY <1>1, AtSub
  <2> QED BY <2>1 DEF ToSet
<1>4. spSubs' \in Seq(Subs) /\ IsInjective(spSubs')
  <2>1. Append(spSubs, s) \in Seq(Subs) /\ IsInjective(Append(spSubs, s)) BY <1>2, <1>3, ListAppended
  <2> QED BY <1>1, <2>1
<1>5. ToSet(spSubs') = ToSet(spSubs) \cup {s} BY <1>1, <1>2, AppendedSet
<1>6. PICK state \in {"on", "cut", "closed"} : state = "on" OBVIOUS
<1>7. IInv' /\ Others(s) /\ Line(s)' = Line(s) /\ got'[s] = got[s] /\ sub'[s].state = state
  BY <1>1, <1>4, <1>5, <1>6, StateStep
<1>8. Same(s) BY <1>1, <1>6, <1>7 DEF Same
<1> QED BY <1>7, <1>8 DEF Others, Stays

LEMMA CancelRemoveSafe == ASSUME IInv, NEW s \in Subs, CancelRemove(s) PROVE IInv' /\ Stays
<1>1. /\ sub' = [sub EXCEPT ![s].state = "cut"] /\ spSubs' = SwapRemove(spSubs, s)
      /\ UNCHANGED <<pub, sent, got, panicked>>
  BY DEF CancelRemove
<1>2. spSubs \in Seq(Subs) /\ IsInjective(spSubs) BY AtSub
<1>3. /\ spSubs' \in Seq(Subs) /\ IsInjective(spSubs')
      /\ ToSet(spSubs') \subseteq ToSet(spSubs) \cup {s}
  <2>1. /\ SwapRemove(spSubs, s) \in Seq(Subs) /\ IsInjective(SwapRemove(spSubs, s))
        /\ ToSet(SwapRemove(spSubs, s)) \subseteq ToSet(spSubs)
    BY <1>2, SwapRemoveIs
  <2> QED BY <1>1, <2>1
<1>4. PICK state \in {"on", "cut", "closed"} : state = "cut" OBVIOUS
<1>5. IInv' /\ Others(s) /\ Line(s)' = Line(s) /\ got'[s] = got[s] /\ sub'[s].state = state
  BY <1>1, <1>3, <1>4, StateStep
<1>6. sub[s].state = "on" BY DEF CancelRemove
<1>7. Same(s) BY <1>4, <1>5, <1>6 DEF Same
<1> QED BY <1>5, <1>7 DEF Others, Stays

LEMMA CancelCloseSafe == ASSUME IInv, NEW s \in Subs, CancelClose(s) PROVE IInv' /\ Closes(s)
<1>1. /\ sub' = [sub EXCEPT ![s].state = "closed"] /\ sub[s].by = None
      /\ UNCHANGED <<spSubs, pub, sent, got, panicked>>
  BY DEF CancelClose, Unlocked
<1>2. spSubs' \in Seq(Subs) /\ IsInjective(spSubs') /\ ToSet(spSubs') \subseteq ToSet(spSubs) \cup {s}
  BY <1>1, AtSub
<1>3. PICK state \in {"on", "cut", "closed"} : state = "closed" OBVIOUS
<1>4. IInv' /\ Others(s) /\ Line(s)' = Line(s) /\ got'[s] = got[s] /\ sub'[s].state = state
  BY <1>1, <1>2, <1>3, StateStep
<1>5. sub[s].state # "closed" BY DEF CancelClose
<1> QED BY <1>3, <1>4, <1>5 DEF Closes

\* What the consumer receives is one of the line, whoever holds the rest.
LEMMA ReceivedIs ==
    ASSUME IInv, NEW s \in Subs, Receive(s)
    PROVE  \E i \in 1..Len(Line(s)) : Line(s)[i] = Head(sub[s].ch) /\ Line(s)' = RemoveAt(Line(s), i)
<1>1. /\ sub[s].ch # <<>> /\ sub' = [sub EXCEPT ![s].ch = Tail(@)] /\ UNCHANGED pub
  BY DEF Receive
<1>2. /\ sub \in [Subs -> Sub] /\ sub[s] \in Sub /\ sub[s].ch \in Seq(Envelope)
      /\ sub[s].by # None => /\ sub[s].by \in Publishers /\ Slow(sub[s].by)
                             /\ pub[sub[s].by].hand \in Seq(Envelope)
  BY AtSub
<1>3. sub'[s].ch = Tail(sub[s].ch) /\ sub'[s].by = sub[s].by BY <1>1, <1>2 DEF Sub
<1>4. PICK ch, rest : ch = sub[s].ch /\ rest = Tail(sub[s].ch) OBVIOUS
<1>5. ch \in Seq(Envelope) /\ ch # <<>> /\ rest = Tail(ch) /\ Head(ch) \in Envelope /\ rest \in Seq(Envelope)
  BY <1>1, <1>2, <1>4, HeadTailProperties
<1>6. CASE sub[s].by = None
  <2>1. Line(s) = ch /\ Line(s)' = rest BY <1>3, <1>4, <1>6 DEF Line
  <2>2. 1 \in 1..Len(ch) /\ ch[1] = Head(ch) /\ rest = RemoveAt(ch, 1) BY <1>5, TailRemoves
  <2> QED BY <1>4, <2>1, <2>2
<1>7. CASE sub[s].by # None
  <2>1. PICK p \in Publishers : p = sub[s].by BY <1>2, <1>7
  <2>2. PICK hand, env : hand = pub[p].hand /\ env = pub[p].env OBVIOUS
  <2>3. hand \in Seq(Envelope) BY <1>2, <1>7, <2>1, <2>2
  <2>4. CASE pub[p].at = "refill"
    <3>1. Line(s) = (ch \o hand) \o <<env>> BY <1>4, <1>7, <2>1, <2>2, <2>4 DEF Line
    <3>2. Line(s)' = (rest \o hand) \o <<env>> BY <1>1, <1>3, <1>4, <1>7, <2>1, <2>2, <2>4 DEF Line
    <3>3. env \in Envelope
      <4>1. Busy(p) BY <2>4 DEF Busy
      <4> QED BY <2>2, <4>1, TargetIs
    <3>4. PICK more : more = hand \o <<env>> OBVIOUS
    <3>5. <<env>> \in Seq(Envelope) BY <3>3
    <3>6. more \in Seq(Envelope) BY <2>3, <3>4, <3>5, ConcatProperties
    <3>7. Line(s) = ch \o more /\ Line(s)' = rest \o more
      <4>1. PICK last \in Seq(Envelope) : last = <<env>> BY <3>5
      <4>2. (ch \o hand) \o last = ch \o (hand \o last) BY <1>5, <2>3, ConcatAssociative
      <4>3. (rest \o hand) \o last = rest \o (hand \o last) BY <1>5, <2>3, ConcatAssociative
      <4> QED BY <3>1, <3>2, <3>4, <4>1, <4>2, <4>3
    <3>8. PICK line : line = ch \o more OBVIOUS
    <3>9. line \in Seq(Envelope) /\ line # <<>> /\ Head(line) = Head(ch) /\ Tail(line) = rest \o more
      <4>1. <<Head(ch)>> \in Seq(Envelope) /\ rest \o more \in Seq(Envelope)
        BY <1>5, <3>6, ConcatProperties
      <4>2. ch = <<Head(ch)>> \o rest BY <1>5
      <4>3. line = <<Head(ch)>> \o (rest \o more)
        BY <1>5, <3>6, <3>8, <4>1, <4>2, ConcatAssociative
      <4> QED BY <1>5, <4>1, <4>3
    <3>10. 1 \in 1..Len(line) /\ line[1] = Head(line) /\ Tail(line) = RemoveAt(line, 1)
      BY <3>9, TailRemoves
    <3> QED BY <1>4, <3>7, <3>8, <3>9, <3>10
  <2>5. CASE pub[p].at # "refill"
    <3>1. Line(s) = hand \o ch BY <1>4, <1>7, <2>1, <2>2, <2>5 DEF Line
    <3>2. Line(s)' = hand \o rest BY <1>1, <1>3, <1>4, <1>7, <2>1, <2>2, <2>5 DEF Line
    <3>3. /\ Len(hand) + 1 \in 1..Len(hand \o ch) /\ (hand \o ch)[Len(hand) + 1] = Head(ch)
          /\ hand \o rest = RemoveAt(hand \o ch, Len(hand) + 1)
      BY <1>5, <2>3, TailBehind
    <3> QED BY <1>4, <3>1, <3>2, <3>3
  <2> QED BY <2>4, <2>5
<1> QED BY <1>6, <1>7

LEMMA ReceiveSafe == ASSUME IInv, NEW s \in Subs, Receive(s) PROVE IInv' /\ Takes(s, Head(sub[s].ch))
<1>1. /\ sub[s].ch # <<>> /\ sub' = [sub EXCEPT ![s].ch = Tail(@)]
      /\ got' = [got EXCEPT ![s] = Append(@, Head(sub[s].ch))]
      /\ UNCHANGED <<spSubs, pub, sent, panicked>>
  BY DEF Receive
<1>2. /\ sub \in [Subs -> Sub] /\ got \in [Subs -> Seq(Envelope)]
      /\ sub[s] \in Sub /\ sub[s].ch \in Seq(Envelope) /\ Len(sub[s].ch) \in Nat
      /\ got[s] \in Seq(Envelope) /\ Line(s) \in Seq(Envelope) /\ Sound(Line(s), got[s])
      /\ sub[s].by # None => sub[s].state # "closed"
  BY AtSub
<1>3. /\ Head(sub[s].ch) \in Envelope /\ Tail(sub[s].ch) \in Seq(Envelope)
      /\ Len(Tail(sub[s].ch)) = Len(sub[s].ch) - 1
  BY <1>1, <1>2, HeadTailProperties
<1>4. PICK line : line = Line(s)' OBVIOUS
<1>5. PICK i \in 1..Len(Line(s)) : Line(s)[i] = Head(sub[s].ch) /\ line = RemoveAt(Line(s), i)
  BY <1>4, ReceivedIs
<1>6. got'[s] = Append(got[s], Line(s)[i]) BY <1>1, <1>2, <1>5
<1>7. /\ Sound(RemoveAt(Line(s), i), Append(got[s], Line(s)[i]))
      /\ ToSet(RemoveAt(Line(s), i)) = ToSet(Line(s)) \ {Line(s)[i]}
      /\ ToSet(Append(got[s], Line(s)[i])) = ToSet(got[s]) \cup {Line(s)[i]}
  BY <1>2, SoundTaken
<1>8. Line(s)[i] \in ToSet(Line(s))
  <2>1. i \in DOMAIN Line(s) BY <1>2, LenProperties
  <2> QED BY <1>2, <2>1, InLine
<1>9. Sound(line, got'[s]) /\ ToSet(line) \cup ToSet(got'[s]) \subseteq Known(s)
  BY <1>5, <1>6, <1>7, <1>8 DEF Known
<1>10. /\ sub'[s] = [sub[s] EXCEPT !.ch = Tail(sub[s].ch)] /\ sub' \in [Subs -> Sub]
       /\ got' \in [Subs -> Seq(Envelope)]
       /\ \A t \in Subs \ {s} : sub'[t] = sub[t] /\ got'[t] = got[t]
  <2>1. [sub[s] EXCEPT !.ch = Tail(sub[s].ch)] \in Sub BY <1>2, <1>3 DEF Sub
  <2>2. sub'[s] = [sub[s] EXCEPT !.ch = Tail(sub[s].ch)] /\ sub' \in [Subs -> Sub] BY <1>1, <1>2, <2>1
  <2>3. Append(got[s], Head(sub[s].ch)) \in Seq(Envelope) BY <1>2, <1>3, AppendProperties
  <2> QED BY <1>1, <1>2, <2>2, <2>3
<1>11. sub'[s].by = sub[s].by /\ sub'[s].ch = Tail(sub[s].ch) /\ sub'[s].state = sub[s].state
  BY <1>2, <1>10 DEF Sub
<1>12. Len(sub'[s].ch) \in Nat /\ Len(sub'[s].ch) <= Len(sub[s].ch)
  <2>1. Len(sub[s].ch) # 0 BY <1>1, <1>2, EmptySeq
  <2> QED BY <1>2, <1>3, <1>11, <2>1
<1>13. /\ spSubs' \in Seq(Subs) /\ IsInjective(spSubs')
       /\ \A j \in DOMAIN spSubs' : sub'[spSubs'[j]].state # "new"
  <2>1. /\ spSubs \in Seq(Subs) /\ IsInjective(spSubs)
        /\ \A j \in DOMAIN spSubs : spSubs[j] \in Subs /\ sub[spSubs[j]].state # "new"
    BY AtSub
  <2>2. \A t \in Subs : sub'[t].state = sub[t].state BY <1>10, <1>11
  <2> QED BY <1>1, <2>1, <2>2
<1>14. sub'[s].state = "closed" => sub[s].by = None BY <1>2, <1>11
<1>15. IInv' /\ Others(s) BY <1>1, <1>4, <1>9, <1>10, <1>11, <1>12, <1>13, <1>14, SubStep
<1>16. PICK e : e = Head(sub[s].ch) OBVIOUS
<1>17. e \in Envelope /\ e = Line(s)[i] BY <1>3, <1>5, <1>16
<1>18. /\ ToSet(Line(s)') = ToSet(Line(s)) \ {e}
       /\ ToSet(got'[s]) = ToSet(got[s]) \cup {e} /\ e \in ToSet(Line(s))
  BY <1>4, <1>5, <1>6, <1>7, <1>8, <1>17
<1>19. Takes(s, e) BY <1>11, <1>15, <1>17, <1>18 DEF Takes
<1> QED BY <1>15, <1>16, <1>19
--------------------------------------------------------------------------------
(***************************************************************************)
(* The invariant, and what follows from it.                                *)
(***************************************************************************)
LEMMA SendSafe ==
    ASSUME IInv, NEW p \in Publishers, Send(p)
    PROVE  IInv' /\ (Stays \/ \E s \in Subs, e \in Envelope : Offers(s, e))
<1>1. \A s \in Subs : Offers(s, pub[p].env) => pub[p].env \in Envelope BY DEF Offers
<1> QED
  BY <1>1, SendSkipSafe, SendClosedSafe, SendFastSafe, SendSlowSafe, MeasureSafe,
     DrainSafe, DropSafe, RefillSafe, DeliverSafe DEF Send

\* Every step preserves the invariant, and shows as one of four to consumers.
LEMMA StepSeen ==
    ASSUME IInv, [Next]_vars
    PROVE  /\ IInv'
           /\ \/ Stays
              \/ \E s \in Subs, e \in Envelope : Offers(s, e) \/ Takes(s, e)
              \/ \E s \in Subs : Closes(s)
<1> DEFINE Seen == \/ Stays
                   \/ \E s \in Subs, e \in Envelope : Offers(s, e) \/ Takes(s, e)
                   \/ \E s \in Subs : Closes(s)
<1> SUFFICES IInv' /\ Seen
  OBVIOUS
<1>1. CASE Next
  <2>1. ASSUME NEW p \in Publishers, Send(p) PROVE IInv' /\ Seen BY <2>1, SendSafe
  <2>2. ASSUME NEW p \in Publishers, NEW key \in Keys, NEW of \in Entities \cup {None},
               Publish(p, key, of)
        PROVE  IInv' /\ Seen
    BY <2>2, PublishSafe
  <2>3. ASSUME NEW s \in Subs, Subscribe(s) PROVE IInv' /\ Seen BY <2>3, SubscribeSafe
  <2>4. ASSUME NEW s \in Subs, Receive(s) PROVE IInv' /\ Seen
    <3>1. IInv' /\ Takes(s, Head(sub[s].ch)) BY <2>4, ReceiveSafe
    <3>2. Head(sub[s].ch) \in Envelope BY <3>1 DEF Takes
    <3> QED BY <3>1, <3>2
  <2>5. ASSUME NEW s \in Subs, CancelRemove(s) PROVE IInv' /\ Seen BY <2>5, CancelRemoveSafe
  <2>6. ASSUME NEW s \in Subs, CancelClose(s) PROVE IInv' /\ Seen BY <2>6, CancelCloseSafe
  <2> HIDE DEF Seen
  <2> QED BY <1>1, <2>1, <2>2, <2>3, <2>4, <2>5, <2>6 DEF Next
<1>2. CASE UNCHANGED vars
  <2>1. UNCHANGED <<spSubs, sub, pub, sent, got, panicked>> BY <1>2 DEF vars
  <2>2. Typed' /\ Listed' /\ OwnNumbers' /\ NoSendOnClosed'
    BY <2>1 DEF IInv, Typed, Listed, OwnNumbers, NoSendOnClosed, Busy
  <2>3. \A t \in Subs : Known(t)' = Known(t) /\ SubOK(t)' /\ Same(t)
    <3>1. sent' \in Nat /\ sent <= sent' BY <2>1, SpineAssumption DEF IInv, Typed
    <3> QED BY <2>1, <3>1, SubAside
  <2>4. ASSUME NEW q \in Publishers PROVE PubOK(q)'
    <3>1. sent' \in Nat /\ sent <= sent' BY <2>1, SpineAssumption DEF IInv, Typed
    <3>2. Slow(q) => sub'[Target(q)].by = q /\ sub'[Target(q)].ch = sub[Target(q)].ch
      <4>1. PubOK(q) BY DEF IInv
      <4> QED BY <2>1, <4>1 DEF PubOK
    <3>3. \A t \in Subs : \A x \in Known(t)' : x \in Known(t) BY <2>3
    <3>4. pub'[q] = pub[q] BY <2>1
    <3> QED BY <3>1, <3>2, <3>3, <3>4, PubAside
  <2> QED BY <2>2, <2>3, <2>4 DEF IInv, Stays
<1> QED BY <1>1, <1>2

LEMMA InitIInv == Init => IInv
<1> SUFFICES ASSUME Init PROVE IInv
  OBVIOUS
<1>1. /\ spSubs = <<>> /\ sub = [s \in Subs |-> NewSub] /\ pub = [p \in Publishers |-> Idle]
      /\ sent = 0 /\ got = [s \in Subs |-> <<>>] /\ panicked = FALSE
  BY DEF Init
<1>2. /\ <<>> \in Seq(Subs) /\ <<>> \in Seq(Envelope) /\ Len(<<>>) = 0 /\ DOMAIN <<>> = {}
      /\ 0 \in 0..Cap /\ 0 \in 0..MaxSent /\ 0 <= Cap
  BY SpineAssumption, EmptySeq
<1>3. Typed
  <2>1. NewSub \in Sub BY <1>2 DEF NewSub, Sub
  <2>2. Idle \in Pub BY <1>2 DEF Idle, Pub
  <2> QED BY <1>1, <1>2, <2>1, <2>2 DEF Typed
<1>4. Listed BY <1>1, <1>2 DEF Listed, IsInjective
<1>5. \A p \in Publishers : pub[p].at = "idle" /\ pub[p].hand = <<>> BY <1>1 DEF Idle
<1>6. OwnNumbers BY <1>5 DEF OwnNumbers, Busy
<1>7. \A p \in Publishers : PubOK(p) BY <1>5 DEF PubOK, Busy, Slow
<1>8. ASSUME NEW s \in Subs PROVE SubOK(s)
  <2>1. sub[s].ch = <<>> /\ sub[s].by = None /\ sub[s].state = "new" /\ got[s] = <<>>
    BY <1>1 DEF NewSub
  <2>2. Line(s) = <<>> BY <2>1 DEF Line
  <2>3. ToSet(<<>>) = {} BY <1>2 DEF ToSet
  <2>4. Sound(Line(s), got[s]) BY <1>2, <2>1, <2>2, <2>3 DEF Sound, Tidy, Apart
  <2>5. Known(s) = {} BY <2>1, <2>2, <2>3 DEF Known
  <2> QED BY <1>2, <2>1, <2>4, <2>5 DEF SubOK
<1>9. NoSendOnClosed BY <1>1 DEF NoSendOnClosed
<1> QED BY <1>3, <1>4, <1>6, <1>7, <1>8, <1>9 DEF IInv

\* IInv is an invariant.
THEOREM Inductive == Spec => []IInv
<1>1. IInv /\ [Next]_vars => IInv' BY StepSeen
<1> QED BY <1>1, InitIInv, PTL DEF Spec

\* PublishEnvelope never sends on a channel that cancel has closed.
THEOREM NoClosedSend == Spec => []NoSendOnClosed
<1>1. IInv => NoSendOnClosed BY DEF IInv
<1> QED BY <1>1, Inductive, PTL

\* Each publisher's envelopes are in line for the consumer in the order in
\* which they were published, also while PublishEnvelope reorders the channel.
THEOREM LinesKept == Spec => []LineKept
<1>1. IInv => LineKept
  <2> SUFFICES ASSUME IInv, NEW s \in Subs PROVE InOrder(Line(s))
    BY DEF LineKept
  <2>1. Tidy(Line(s)) BY DEF IInv, SubOK, Sound
  <2> QED BY <2>1 DEF Tidy, InOrder
<1> QED BY <1>1, Inductive, PTL

\* Numbers that differ, each at most n: no more than n of them.
LEMMA ApartShort ==
    ASSUME NEW had \in Seq(Envelope), Apart(had)
    PROVE  Len(had) <= MaxSent
<1> DEFINE m == Len(had)
           f == [i \in 1..m |-> had[i].n]
<1>1. m \in Nat /\ DOMAIN had = 1..m /\ MaxSent \in Nat BY LenProperties, SpineAssumption
<1>2. \A i \in 1..m : had[i] \in Envelope BY ElementOfSeq
<1> HIDE DEF m
<1>3. \A i \in 1..m : had[i].n \in 1..MaxSent BY <1>2, EnvelopeNumbers
<1>4. f \in [1..m -> 1..MaxSent] BY <1>3
<1>5. \A i, j \in 1..m : f[i] = f[j] => i = j BY <1>1 DEF Apart
<1>6. f \in Injection(1..m, 1..MaxSent) BY <1>4, <1>5 DEF Injection, IsInjective
<1>7. /\ IsFiniteSet(1..m) /\ Cardinality(1..m) = m
      /\ IsFiniteSet(1..MaxSent) /\ Cardinality(1..MaxSent) = MaxSent
  <2>1. /\ IsFiniteSet(1..m) /\ Cardinality(1..m) = IF 1 > m THEN 0 ELSE m - 1 + 1
        /\ IsFiniteSet(1..MaxSent) /\ Cardinality(1..MaxSent) = IF 1 > MaxSent THEN 0 ELSE MaxSent - 1 + 1
    BY <1>1, FS_Interval
  <2> QED BY <1>1, <2>1
<1> HIDE DEF f
<1>8. Cardinality(1..m) <= Cardinality(1..MaxSent) BY <1>6, <1>7, FS_Injection
<1> QED BY <1>7, <1>8 DEF m

\* Types, the bounds of every channel, of what is in hand and of what is received.
THEOREM TypeCorrect == Spec => []TypeOK
<1>1. IInv => TypeOK
  <2> SUFFICES ASSUME IInv PROVE TypeOK
    OBVIOUS
  <2>1. Typed BY DEF IInv
  <2>2. \A s \in Subs : Len(sub[s].ch) <= Cap /\ Len(got[s]) <= MaxSent
    <3> TAKE s \in Subs
    <3>1. SubOK(s) /\ got[s] \in Seq(Envelope) BY <2>1 DEF IInv, Typed
    <3>2. Len(sub[s].ch) <= Cap /\ Apart(got[s]) BY <3>1 DEF SubOK, Sound
    <3> QED BY <3>1, <3>2, ApartShort
  <2>3. ASSUME NEW p \in Publishers
        PROVE  /\ pub[p].at \in {"idle", "send", "measure", "drain", "refill"}
               /\ pub[p].at # "idle" => pub[p].env \in Envelope
               /\ pub[p].todo \in Seq(Subs) /\ pub[p].n \in 0..Cap
               /\ pub[p].hand \in Seq(Envelope) /\ Len(pub[p].hand) <= Cap
    <3>1. pub[p] \in Pub /\ PubOK(p) BY <2>1 DEF IInv, Typed
    <3>2. /\ pub[p].at \in {"idle", "send", "measure", "drain", "refill"}
          /\ pub[p].todo \in Seq(Subs) /\ pub[p].n \in 0..Cap
          /\ pub[p].hand \in Seq(Envelope)
      BY <3>1 DEF Pub
    <3>3. pub[p].at # "idle" => pub[p].env \in Envelope BY <3>1 DEF PubOK, Busy
    <3>4. Len(pub[p].hand) <= Cap
      <4>1. Cap \in Nat /\ Len(pub[p].hand) \in Nat /\ pub[p].n \in Nat
        BY <3>2, SpineAssumption, LenProperties
      <4>2. CASE pub[p].at \in {"idle", "send", "measure"}
        <5>1. Len(pub[p].hand) = 0 BY <3>1, <4>2, EmptySeq DEF PubOK
        <5> QED BY <4>1, <5>1
      <4>3. CASE pub[p].at = "drain"
        <5>1. Len(pub[p].hand) + pub[p].n <= Cap BY <3>1, <4>3 DEF PubOK
        <5> QED BY <4>1, <5>1
      <4>4. CASE pub[p].at = "refill"
        <5>1. Len(pub[p].hand) + Len(sub[Target(p)].ch) < Cap BY <3>1, <4>4 DEF PubOK
        <5>2. Busy(p) BY <4>4 DEF Busy
        <5>3. Target(p) \in Subs BY <5>2, TargetIs
        <5>4. Len(sub[Target(p)].ch) \in Nat
          <6>1. PICK s \in Subs : s = Target(p) BY <5>3
          <6> QED BY <6>1, AtSub
        <5>5. PICK a, b : a = Len(pub[p].hand) /\ b = Len(sub[Target(p)].ch) OBVIOUS
        <5>6. a \in Nat /\ b \in Nat /\ a + b < Cap BY <4>1, <5>1, <5>4, <5>5
        <5>7. a <= Cap BY <4>1, <5>6
        <5> QED BY <5>5, <5>7
      <4> QED BY <3>2, <4>2, <4>3, <4>4
    <3> QED BY <3>2, <3>3, <3>4
  <2> QED BY <2>1, <2>2, <2>3 DEF Typed, TypeOK
<1> QED BY <1>1, Inductive, PTL
--------------------------------------------------------------------------------
(***************************************************************************)
(* Every subscription is a LossyQueue.                                     *)
(***************************************************************************)

\* What a subscription holds is what is in its line.
LEMMA HoldingIsLine == IInv => \A s \in Subs : Holding(s) = ToSet(Line(s))
<1> SUFFICES ASSUME IInv, NEW s \in Subs PROVE Holding(s) = ToSet(Line(s))
  OBVIOUS
<1>1. /\ sub[s].ch \in Seq(Envelope)
      /\ sub[s].by # None => sub[s].by \in Publishers /\ pub[sub[s].by].hand \in Seq(Envelope)
  BY AtSub
<1>2. CASE sub[s].by = None BY <1>2 DEF Holding, Line
<1>3. CASE sub[s].by # None
  <2>1. PICK p \in Publishers : p = sub[s].by BY <1>1, <1>3
  <2>2. PICK ch, hand : ch = sub[s].ch /\ hand = pub[p].hand OBVIOUS
  <2>3. ch \in Seq(Envelope) /\ hand \in Seq(Envelope) BY <1>1, <1>3, <2>1, <2>2
  <2>4. CASE pub[p].at = "refill"
    <3>1. PICK env : env = pub[p].env OBVIOUS
    <3>2. env \in Envelope
      <4>1. Busy(p) BY <2>4 DEF Busy
      <4> QED BY <3>1, <4>1, TargetIs
    <3>3. PICK last \in Seq(Envelope) : last = <<env>> /\ ToSet(last) = {env}
      <4>1. <<env>> \in Seq(Envelope) /\ ToSet(<<env>>) = {env} BY <3>2 DEF ToSet
      <4> QED BY <4>1
    <3>4. PICK both : both = ch \o hand OBVIOUS
    <3>5. both \in Seq(Envelope) BY <2>3, <3>4, ConcatProperties
    <3>6. ToSet(both) = ToSet(ch) \cup ToSet(hand) BY <2>3, <3>4, ConcatSet
    <3>7. ToSet(both \o last) = ToSet(both) \cup {env}
      <4>1. ToSet(both \o last) = ToSet(both) \cup ToSet(last)
        <5>1. last \in Seq(Envelope) BY <3>3
        <5> QED BY <3>5, <5>1, ConcatSet
      <4> QED BY <3>3, <4>1
    <3>8. Line(s) = both \o last BY <1>3, <2>1, <2>2, <2>4, <3>1, <3>3, <3>4 DEF Line
    <3>9. Holding(s) = ToSet(ch) \cup (ToSet(hand) \cup {env})
      BY <1>3, <2>1, <2>2, <2>4, <3>1 DEF Holding
    <3> QED BY <3>6, <3>7, <3>8, <3>9
  <2>5. CASE pub[p].at # "refill"
    <3>1. ToSet(hand \o ch) = ToSet(hand) \cup ToSet(ch) BY <2>3, ConcatSet
    <3>2. Line(s) = hand \o ch BY <1>3, <2>1, <2>2, <2>5 DEF Line
    <3>3. Holding(s) = ToSet(ch) \cup (ToSet(hand) \cup {}) BY <1>3, <2>1, <2>2, <2>5 DEF Holding
    <3> QED BY <3>1, <3>2, <3>3
  <2> QED BY <2>4, <2>5
<1> QED BY <1>2, <1>3

LEMMA QueueStart == Init => Queue!QueueInit
<1> SUFFICES ASSUME Init PROVE Queue!QueueInit
  OBVIOUS
<1>1. \A s \in Subs : sub[s].state = "new" /\ sub[s].by = None /\ sub[s].ch = <<>> /\ got[s] = <<>>
  BY DEF Init, NewSub
<1>2. ToSet(<<>>) = {} BY DEF ToSet
<1>3. \A s \in Subs : Holding(s) = {} BY <1>1, <1>2 DEF Holding
<1> QED BY <1>1, <1>2, <1>3 DEF Queue!QueueInit

\* The state of the queues before and after, by their lines.
LEMMA QueueStays ==
    ASSUME \A s \in Subs : Holding(s)' = Holding(s), Stays
    PROVE  UNCHANGED Queue!queueVars
<1>1. \A s \in Subs : got'[s] = got[s] /\ (sub'[s].state # "closed" <=> sub[s].state # "closed")
  BY DEF Stays, Same
<1> QED BY <1>1 DEF Queue!queueVars

LEMMA QueueOffers ==
    ASSUME IInv, \A s \in Subs : Holding(s) = ToSet(Line(s)),
           \A s \in Subs : Holding(s)' = ToSet(Line(s)'),
           NEW s \in Subs, NEW e \in Envelope, Offers(s, e), Line(s)' \in Seq(Envelope)
    PROVE  Queue!Offer(s, e)
<1> DEFINE open == [t \in Subs |-> sub[t].state # "closed"]
           pending == [t \in Subs |-> Holding(t)]
           taken == [t \in Subs |-> ToSet(got[t])]
<1>1. \A t \in Subs \ {s} : Same(t) BY DEF Offers, Others
<1>2. \A t \in Subs : got'[t] = got[t] /\ (sub'[t].state # "closed" <=> sub[t].state # "closed")
  BY <1>1 DEF Offers, Same
<1>3. \A t \in Subs \ {s} : Holding(t)' = Holding(t)
  <2> TAKE t \in Subs \ {s}
  <2>1. Line(t)' = Line(t) BY <1>1 DEF Same
  <2> QED BY <2>1
<1>4. e \notin Holding(s) \cup ToSet(got[s]) BY DEF Offers, Known
<1>5. PICK lost \in {{}} \cup {{v} : v \in Holding(s)} : Holding(s)' = (Holding(s) \ lost) \cup {e}
  BY DEF Offers
<1>6. Cardinality(Holding(s)') <= Cap
  <2>1. PICK line : line = Line(s)' OBVIOUS
  <2>2. line \in Seq(Envelope) /\ Len(line) <= Cap /\ Holding(s)' = ToSet(line) BY <2>1 DEF Offers
  <2>3. PICK n, m : n = Cardinality(ToSet(line)) /\ m = Len(line) OBVIOUS
  <2>4. n \in Nat /\ m \in Nat /\ n <= m /\ m <= Cap /\ Cap \in Nat
    BY <2>2, <2>3, SetOfLine, LenProperties, SpineAssumption
  <2>5. n <= Cap BY <2>4
  <2> QED BY <2>2, <2>3, <2>5
<1>7. open' = open /\ taken' = taken BY <1>2
<1>8. pending' = [pending EXCEPT ![s] = (@ \ lost) \cup {e}] BY <1>3, <1>5
<1>9. open[s] /\ pending[s] = Holding(s) /\ taken[s] = ToSet(got[s]) /\ pending'[s] = Holding(s)'
  BY DEF Offers
<1> HIDE DEF open, pending, taken
<1>10. /\ open[s] /\ e \notin pending[s] \cup taken[s]
       /\ \E victims \in {{}} \cup {{v} : v \in pending[s]} :
             pending' = [pending EXCEPT ![s] = (@ \ victims) \cup {e}]
       /\ Queue!Cardinality(pending'[s]) <= Cap
       /\ UNCHANGED <<open, taken>>
  <2>1. Queue!Cardinality(pending'[s]) = Cardinality(pending'[s]) BY DEF Queue!Cardinality, Cardinality
  <2> QED BY <1>4, <1>5, <1>6, <1>7, <1>8, <1>9, <2>1
<1> QED BY <1>10 DEF open, pending, taken, Queue!Offer

LEMMA QueueTakes ==
    ASSUME \A s \in Subs : Holding(s) = ToSet(Line(s)),
           \A s \in Subs : Holding(s)' = ToSet(Line(s)'),
           NEW s \in Subs, NEW e \in Envelope, Takes(s, e)
    PROVE  Queue!Take(s, e)
<1> DEFINE open == [t \in Subs |-> sub[t].state # "closed"]
           pending == [t \in Subs |-> Holding(t)]
           taken == [t \in Subs |-> ToSet(got[t])]
<1>1. \A t \in Subs \ {s} : Same(t) BY DEF Takes, Others
<1>2. \A t \in Subs : sub'[t].state # "closed" <=> sub[t].state # "closed"
  BY <1>1 DEF Takes, Same
<1>3. \A t \in Subs \ {s} : Holding(t)' = Holding(t) /\ ToSet(got'[t]) = ToSet(got[t])
  <2> TAKE t \in Subs \ {s}
  <2>1. Line(t)' = Line(t) /\ got'[t] = got[t] BY <1>1 DEF Same
  <2> QED BY <2>1
<1>4. e \in Holding(s) /\ Holding(s)' = Holding(s) \ {e} /\ ToSet(got'[s]) = ToSet(got[s]) \cup {e}
  BY DEF Takes
<1>5. open' = open BY <1>2
<1>6. pending' = [pending EXCEPT ![s] = @ \ {e}] /\ taken' = [taken EXCEPT ![s] = @ \cup {e}]
  BY <1>3, <1>4
<1>7. e \in pending[s] BY <1>4
<1> QED BY <1>5, <1>6, <1>7 DEF Queue!Take

LEMMA QueueCloses ==
    ASSUME \A s \in Subs : Holding(s) = ToSet(Line(s)),
           \A s \in Subs : Holding(s)' = ToSet(Line(s)'),
           NEW s \in Subs, Closes(s)
    PROVE  Queue!Close(s)
<1> DEFINE open == [t \in Subs |-> sub[t].state # "closed"]
           pending == [t \in Subs |-> Holding(t)]
           taken == [t \in Subs |-> ToSet(got[t])]
<1>1. \A t \in Subs \ {s} : Same(t) BY DEF Closes, Others
<1>2. \A t \in Subs : Line(t)' = Line(t) /\ got'[t] = got[t] BY <1>1 DEF Closes, Same
<1>3. \A t \in Subs : Holding(t)' = Holding(t) BY <1>2
<1>4. pending' = pending /\ taken' = taken BY <1>2, <1>3
<1>5. \A t \in Subs \ {s} : sub'[t].state # "closed" <=> sub[t].state # "closed" BY <1>1 DEF Same
<1>6. open[s] /\ open' = [open EXCEPT ![s] = FALSE] BY <1>5 DEF Closes
<1> QED BY <1>4, <1>6 DEF Queue!Close

\* Every step is one of the queues', or none.
LEMMA QueueStep ==
    ASSUME IInv, \A s \in Subs : Holding(s) = ToSet(Line(s)),
           \A s \in Subs : Holding(s)' = ToSet(Line(s)'),
           \A s \in Subs : Line(s)' \in Seq(Envelope), [Next]_vars
    PROVE  [Queue!QueueNext]_(Queue!queueVars)
<1>1. CASE Stays
  <2>1. \A s \in Subs : Holding(s)' = Holding(s)
    <3> TAKE s \in Subs
    <3>1. Line(s)' = Line(s) BY <1>1 DEF Stays, Same
    <3> QED BY <3>1
  <2> QED BY <1>1, <2>1, QueueStays
<1>2. ASSUME NEW s \in Subs, NEW e \in Envelope, Offers(s, e) PROVE Queue!QueueNext
  BY <1>2, QueueOffers DEF Queue!QueueNext
<1>3. ASSUME NEW s \in Subs, NEW e \in Envelope, Takes(s, e) PROVE Queue!QueueNext
  BY <1>3, QueueTakes DEF Queue!QueueNext
<1>4. ASSUME NEW s \in Subs, Closes(s) PROVE Queue!QueueNext
  BY <1>4, QueueCloses DEF Queue!QueueNext
<1> QED BY <1>1, <1>2, <1>3, <1>4, StepSeen

\* Each subscription gets an envelope at most once, always gets the newest in
\* at the price of at most one, and nothing after the close.
THEOREM Queues == Spec => ImplementsQueue
<1>1. IInv => \A s \in Subs : Line(s) \in Seq(Envelope) BY LineIs
<1>2. IInv /\ IInv' /\ [Next]_vars => [Queue!QueueNext]_(Queue!queueVars)
  <2> SUFFICES ASSUME IInv, IInv', [Next]_vars PROVE [Queue!QueueNext]_(Queue!queueVars)
    OBVIOUS
  <2>1. \A s \in Subs : Holding(s) = ToSet(Line(s)) BY HoldingIsLine
  <2>2. (\A s \in Subs : Holding(s) = ToSet(Line(s)))' BY HoldingIsLine, PTL
  <2>3. (\A s \in Subs : Line(s) \in Seq(Envelope))' BY <1>1, PTL
  <2>4. \A s \in Subs : Holding(s)' = ToSet(Line(s)') BY <2>2
  <2>5. \A s \in Subs : Line(s)' \in Seq(Envelope) BY <2>3
  <2> QED BY <2>1, <2>4, <2>5, QueueStep
<1> QED BY <1>2, QueueStart, Inductive, PTL DEF Spec, ImplementsQueue, Queue!QueueSpec
================================================================================
