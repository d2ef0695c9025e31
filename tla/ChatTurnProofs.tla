--------------------------- MODULE ChatTurnProofs ---------------------------
(***************************************************************************)
(* Proofs about ChatTurn, for any number of turns: an answer stays in the  *)
(* message of its turn, and at most one turn streams.                      *)
(***************************************************************************)
EXTENDS ChatTurn, TLAPS

\* t may still write into the surface.
Streams(t) == Live(t) /\ t \notin aborted

\* Only the turn whose controller the ref holds streams, and only on screen.
StreamIsCurrent == \A t \in Turns : Streams(t) => t = controller /\ mounted /\ open

\* The drawer writes into its last message, which is the current turn's.
LastIsCurrent ==
    messages # <<>> /\ controller # 0 => messages[Len(messages)].turn = controller

IInv == TypeOK /\ StreamIsCurrent /\ LastIsCurrent /\ AnswerStaysInTurn

-----------------------------------------------------------------------------
\* What a step of streamChatResponse other than Delta leaves alone: it moves one
\* turn on, or nothing, and writes the flag and the error.
Moved(t) ==
    /\ \/ at' = at
       \/ Live(t) /\ at' = [at EXCEPT ![t] = "over"]
       \/ Live(t) /\ at' \in {[at EXCEPT ![t] = "body"], [at EXCEPT ![t] = "read"]}
    /\ streaming' \in BOOLEAN
    /\ error' \in {error, t}
    /\ settled' \in {settled, settled \cup {t}}
    /\ UNCHANGED <<frame, messages, controller, sent, aborted>>

LEMMA ResumeMoves ==
    ASSUME TypeOK, NEW t \in Turns, Terminal(t) \/ Resume(t)
    PROVE  Moved(t)
<1>1. streaming \in BOOLEAN BY DEF TypeOK
<1>2. CASE Terminal(t)
  BY <1>2 DEF Terminal, Moved, Quiet, frame
<1>3. CASE FetchFails(t)
  BY <1>3 DEF FetchFails, Moved, Moves, Live, Fail, Quiet, frame
<1>4. CASE FetchAnswered(t)
  BY <1>1, <1>4 DEF FetchAnswered, Moved, Moves, Live, Quiet, frame
<1>5. CASE RefusalRead(t)
  BY <1>5 DEF RefusalRead, Moved, Moves, Live, Fail, Quiet, frame
<1>6. CASE Cut(t)
  BY <1>1, <1>6 DEF Cut, Moved, Moves, Live, Quiet, frame
<1>7. CASE BodyEnds(t)
  BY <1>1, <1>7 DEF BodyEnds, Moved, Moves, Live, Quiet, frame
<1>8. CASE StreamBreaks(t)
  BY <1>8 DEF StreamBreaks, Moved, Moves, Live, Fail, Quiet, frame
<1> QED
  BY <1>2, <1>3, <1>4, <1>5, <1>6, <1>7, <1>8 DEF Resume

\* A turn that streams after such a step streamed before it.
LEMMA MovedStreams ==
    ASSUME TypeOK, NEW t \in Turns, Moved(t), NEW u \in Turns, Streams(u)'
    PROVE  Streams(u)
<1>1. at \in [Turns -> {"idle", "fetch", "body", "read", "over"}] BY DEF TypeOK
<1>2. aborted' = aborted BY DEF Moved
<1>3. u \notin aborted BY <1>2 DEF Streams
<1>4. at'[u] \in {"fetch", "body", "read"} BY DEF Streams, Live
<1>5. u # t => at'[u] = at[u] BY <1>1 DEF Moved
<1>6. Live(u) BY <1>1, <1>4, <1>5 DEF Moved, Live
<1> QED BY <1>3, <1>6 DEF Streams

LEMMA MovedKeeps ==
    ASSUME IInv, NEW t \in Turns, Moved(t)
    PROVE  IInv'
<1> USE DEF IInv
<1>1. TypeOK'
  <2>1. at' \in [Turns -> {"idle", "fetch", "body", "read", "over"}] BY DEF TypeOK, Moved
  <2>2. error' \in 0..MaxTurns
    <3>1. t \in 0..MaxTurns BY TurnsAssumption DEF Turns
    <3> QED BY <3>1 DEF TypeOK, Moved
  <2>3. settled' \subseteq Turns BY DEF TypeOK, Moved
  <2> QED BY <2>1, <2>2, <2>3 DEF TypeOK, Moved, frame
<1>2. StreamIsCurrent'
  <2> SUFFICES ASSUME NEW u \in Turns, Streams(u)'
               PROVE  u = controller' /\ mounted' /\ open'
    BY DEF StreamIsCurrent
  <2>1. Streams(u) BY MovedStreams
  <2>2. u = controller /\ mounted /\ open BY <2>1 DEF StreamIsCurrent
  <2> QED BY <2>2 DEF Moved, frame
<1>3. LastIsCurrent' BY DEF LastIsCurrent, Moved
<1>4. AnswerStaysInTurn' BY DEF AnswerStaysInTurn, Moved
<1> QED BY <1>1, <1>2, <1>3, <1>4

\* After abort() no turn streams any more.
LEMMA AbortQuiets ==
    ASSUME IInv, AbortCurrent, NEW u \in Turns, u \notin aborted'
    PROVE  ~Live(u)
<1>1. aborted' = aborted \cup {t \in Turns : t = controller /\ Live(t)} BY DEF AbortCurrent
<1>2. ASSUME Live(u) PROVE FALSE
  <2>1. Streams(u) BY <1>1, <1>2 DEF Streams
  <2>2. u = controller BY <2>1 DEF IInv, StreamIsCurrent
  <2> QED BY <1>1, <1>2, <2>2
<1> QED BY <1>2

LEMMA AbortTyped ==
    ASSUME TypeOK, AbortCurrent
    PROVE  aborted' \subseteq Turns
BY DEF TypeOK, AbortCurrent
-----------------------------------------------------------------------------
LEMMA SendKeeps ==
    ASSUME IInv, NEW t \in Turns, Send(t)
    PROVE  IInv'
<1> DEFINE m == [turn |-> t, from |-> {}]
<1>1. /\ mounted /\ open /\ sent' = t /\ error' = 0 /\ streaming' = TRUE /\ controller' = t
      /\ messages' = Append(messages, m)
      /\ at' = [at EXCEPT ![t] = "fetch"]
      /\ AbortCurrent
      /\ UNCHANGED <<surface, mounted, open, orphaned, settled>>
  BY DEF Send, frame
<1>2. TypeOK BY DEF IInv
<1>3. t \in Nat /\ t # 0 /\ t \in 0..MaxTurns BY TurnsAssumption DEF Turns
<1>4. m \in Message BY DEF Message
<1>5. messages \in Seq(Message) BY <1>2 DEF TypeOK
<1>6. messages' \in Seq(Message) BY <1>1, <1>4, <1>5
<1>7. /\ Len(messages') = Len(messages) + 1
      /\ messages'[Len(messages')] = m
      /\ \A i \in DOMAIN messages' :
            (i \in DOMAIN messages /\ messages'[i] = messages[i]) \/ messages'[i] = m
  BY <1>1, <1>4, <1>5
<1>8. TypeOK'
  <2>1. at' \in [Turns -> {"idle", "fetch", "body", "read", "over"}] BY <1>1, <1>2 DEF TypeOK
  <2>2. aborted' \subseteq Turns BY <1>1, <1>2, AbortTyped
  <2>3. error' \in 0..MaxTurns BY <1>1, TurnsAssumption
  <2> QED BY <1>1, <1>2, <1>3, <1>6, <2>1, <2>2, <2>3 DEF TypeOK
<1>9. StreamIsCurrent'
  <2> SUFFICES ASSUME NEW u \in Turns, Streams(u)', u # t
               PROVE  FALSE
    BY <1>1 DEF StreamIsCurrent
  <2>1. u \notin aborted' BY DEF Streams
  <2>2. ~Live(u) BY <1>1, <2>1, AbortQuiets
  <2>3. at'[u] = at[u] BY <1>1, <1>2 DEF TypeOK
  <2> QED BY <2>2, <2>3 DEF Streams, Live
<1>10. LastIsCurrent' BY <1>1, <1>7 DEF LastIsCurrent
<1>11. AnswerStaysInTurn'
  <2> SUFFICES ASSUME NEW i \in DOMAIN messages'
               PROVE  messages'[i].from \subseteq {messages'[i].turn}
    BY DEF AnswerStaysInTurn
  <2>1. CASE messages'[i] = m BY <2>1
  <2>2. CASE i \in DOMAIN messages /\ messages'[i] = messages[i]
    BY <2>2 DEF IInv, AnswerStaysInTurn
  <2> QED BY <1>7, <2>1, <2>2
<1> QED BY <1>8, <1>9, <1>10, <1>11 DEF IInv

LEMMA DeltaKeeps ==
    ASSUME IInv, NEW t \in Turns, Delta(t)
    PROVE  IInv'
<1> DEFINE written(i) == [turn |-> messages[i].turn, from |-> messages[i].from \cup {t}]
<1>1. /\ at[t] = "read" /\ t \notin aborted
      /\ messages' = [i \in DOMAIN messages |-> IF i \in Target(t) THEN written(i) ELSE messages[i]]
      /\ UNCHANGED <<surface, mounted, open, orphaned, streaming, error, controller, sent, aborted, at, settled>>
  BY DEF Delta, Reading, frame, turn
<1>2. TypeOK BY DEF IInv
<1>3. messages \in Seq(Message) BY <1>2 DEF TypeOK
<1>4. Len(messages) \in Nat /\ DOMAIN messages = 1..Len(messages) BY <1>3
<1>5. \A i \in DOMAIN messages : messages[i] \in Message BY <1>3
<1>6. \A i \in DOMAIN messages : written(i) \in Message /\ written(i).turn = messages[i].turn
  BY <1>5 DEF Message
<1>7. t = controller
  <2>1. Streams(t) BY <1>1 DEF Streams, Live
  <2> QED BY <2>1 DEF IInv, StreamIsCurrent
<1>8. \A i \in Target(t) : i \in DOMAIN messages /\ messages[i].turn = t
  <2> SUFFICES ASSUME NEW i \in Target(t)
               PROVE  i \in DOMAIN messages /\ messages[i].turn = t
    OBVIOUS
  <2>1. i \in DOMAIN messages BY DEF Target
  <2>2. CASE surface = "drawer"
    <3>1. i = Len(messages) BY <2>2 DEF Target
    <3>2. messages # <<>> BY <1>4, <2>1
    <3>3. controller # 0 BY <1>7, TurnsAssumption DEF Turns
    <3> QED BY <1>7, <2>1, <3>1, <3>2, <3>3 DEF IInv, LastIsCurrent
  <2>3. CASE surface # "drawer" BY <2>1, <2>3 DEF Target
  <2> QED BY <2>1, <2>2, <2>3
<1>9. DOMAIN messages' = DOMAIN messages BY <1>1
<1>10. \A i \in DOMAIN messages : messages'[i] \in Message /\ messages'[i].turn = messages[i].turn
  BY <1>1, <1>5, <1>6
<1>11. messages' \in Seq(Message)
  <2>1. messages' = [i \in 1..Len(messages) |-> messages'[i]] BY <1>1, <1>4, <1>9
  <2>2. \A i \in 1..Len(messages) : messages'[i] \in Message BY <1>4, <1>10
  <2>3. messages' \in [1..Len(messages) -> Message] BY <2>1, <2>2
  <2> QED BY <1>4, <2>3
<1>12. TypeOK' BY <1>1, <1>2, <1>11 DEF TypeOK
<1>13. StreamIsCurrent' BY <1>1 DEF IInv, StreamIsCurrent, Streams, Live
<1>14. LastIsCurrent'
  <2>1. Len(messages') = Len(messages) BY <1>4, <1>9, <1>11
  <2> SUFFICES ASSUME messages' # <<>>, controller' # 0
               PROVE  messages'[Len(messages')].turn = controller'
    BY DEF LastIsCurrent
  <2>2. Len(messages') # 0 BY <1>11
  <2>3. messages # <<>> /\ Len(messages) \in DOMAIN messages BY <1>3, <1>4, <2>1, <2>2
  <2>4. messages[Len(messages)].turn = controller BY <1>1, <2>3 DEF IInv, LastIsCurrent
  <2> QED BY <1>1, <1>10, <2>1, <2>3, <2>4
<1>15. AnswerStaysInTurn'
  <2> SUFFICES ASSUME NEW i \in DOMAIN messages
               PROVE  messages'[i].from \subseteq {messages'[i].turn}
    BY <1>9 DEF AnswerStaysInTurn
  <2>1. messages[i].from \subseteq {messages[i].turn} BY DEF IInv, AnswerStaysInTurn
  <2>2. CASE i \in Target(t)
    <3>1. messages'[i] = written(i) BY <1>1, <2>2
    <3>2. messages[i].turn = t BY <1>8, <2>2
    <3> QED BY <2>1, <3>1, <3>2
  <2>3. CASE i \notin Target(t)
    <3>1. messages'[i] = messages[i] BY <1>1, <2>3
    <3> QED BY <2>1, <3>1
  <2> QED BY <2>2, <2>3
<1> QED BY <1>12, <1>13, <1>14, <1>15 DEF IInv

\* Closing, stopping and leaving the screen abort the turn that streams.
LEMMA AbortKeeps ==
    ASSUME IInv, Close \/ Stop \/ Unmount
    PROVE  IInv'
<1>1. AbortCurrent BY DEF Close, Stop, Unmount
<1>2. aborted' \subseteq Turns BY <1>1, AbortTyped DEF IInv
<1>3. \A u \in Turns : at'[u] \in {"fetch", "body", "read"} => at'[u] = at[u]
  BY DEF IInv, TypeOK, Close, Stop, Unmount, Live
<1>4. StreamIsCurrent'
  <2> SUFFICES ASSUME NEW u \in Turns, Streams(u)'
               PROVE  FALSE
    BY DEF StreamIsCurrent
  <2>1. u \notin aborted' BY DEF Streams
  <2>2. ~Live(u) BY <1>1, <2>1, AbortQuiets
  <2> QED BY <1>3, <2>2 DEF Streams, Live
<1>5. messages' \in {messages, <<>>} /\ controller' \in {controller, 0}
  BY DEF Close, Stop, Unmount
<1>6. <<>> \in Seq(Message) /\ DOMAIN <<>> = {}
  OBVIOUS
<1>7. TypeOK'
  <2>1. at' \in [Turns -> {"idle", "fetch", "body", "read", "over"}]
    BY DEF IInv, TypeOK, Close, Stop, Unmount
  <2>2. messages' \in Seq(Message) BY <1>5, <1>6 DEF IInv, TypeOK
  <2>3. error' \in 0..MaxTurns /\ controller' \in 0..MaxTurns /\ sent' \in 0..MaxTurns
    BY TurnsAssumption DEF IInv, TypeOK, Close, Stop, Unmount, frame
  <2>4. surface' = surface /\ settled' = settled BY DEF Close, Stop, Unmount, frame
  <2>5. mounted' \in BOOLEAN /\ open' \in BOOLEAN /\ streaming' \in BOOLEAN /\ orphaned' \in BOOLEAN
    BY DEF IInv, TypeOK, Close, Stop, Unmount, frame
  <2> QED BY <1>2, <2>1, <2>2, <2>3, <2>4, <2>5 DEF IInv, TypeOK
<1>8. LastIsCurrent' BY <1>5 DEF IInv, LastIsCurrent
<1>9. AnswerStaysInTurn' BY <1>5, <1>6 DEF IInv, AnswerStaysInTurn
<1> QED BY <1>4, <1>7, <1>8, <1>9 DEF IInv

LEMMA ShowKeeps ==
    ASSUME IInv, Open \/ Mount \/ Clear
    PROVE  IInv'
<1>1. UNCHANGED <<surface, orphaned, controller, sent, aborted, at, settled>>
  BY DEF Open, Mount, Clear, frame, turn
<1>2. messages' \in {messages, <<>>} /\ error' \in {error, 0}
  BY DEF Open, Mount, Clear
<1>3. mounted' \in BOOLEAN /\ open' \in BOOLEAN /\ streaming' \in BOOLEAN
  BY DEF IInv, TypeOK, Open, Mount, Clear, frame
<1>4. <<>> \in Seq(Message) /\ DOMAIN <<>> = {}
  OBVIOUS
<1>5. TypeOK'
  <2>1. messages' \in Seq(Message) BY <1>2, <1>4 DEF IInv, TypeOK
  <2>2. error' \in 0..MaxTurns BY <1>2, TurnsAssumption DEF IInv, TypeOK
  <2> QED BY <1>1, <1>3, <2>1, <2>2 DEF IInv, TypeOK
<1>6. StreamIsCurrent'
  <2> SUFFICES ASSUME NEW u \in Turns, Streams(u)'
               PROVE  u = controller' /\ mounted' /\ open'
    BY DEF StreamIsCurrent
  <2>1. Streams(u) BY <1>1 DEF Streams, Live
  <2>2. u = controller /\ mounted /\ open BY <2>1 DEF IInv, StreamIsCurrent
  <2> QED BY <1>1, <2>2 DEF Open, Mount, Clear, frame
<1>7. LastIsCurrent' BY <1>1, <1>2 DEF IInv, LastIsCurrent
<1>8. AnswerStaysInTurn' BY <1>2, <1>4 DEF IInv, AnswerStaysInTurn
<1> QED BY <1>5, <1>6, <1>7, <1>8 DEF IInv
-----------------------------------------------------------------------------
LEMMA IInvInit == Init => IInv
<1> SUFFICES ASSUME Init PROVE IInv OBVIOUS
<1>1. <<>> \in Seq(Message) /\ DOMAIN <<>> = {}
  OBVIOUS
<1>2. TypeOK
  <2>1. messages \in Seq(Message) BY <1>1 DEF Init
  <2>2. 0 \in 0..MaxTurns BY TurnsAssumption
  <2>3. at \in [Turns -> {"idle", "fetch", "body", "read", "over"}] BY DEF Init
  <2> QED BY <2>1, <2>2, <2>3 DEF Init, TypeOK
<1>3. StreamIsCurrent BY DEF Init, StreamIsCurrent, Streams, Live
<1>4. LastIsCurrent BY DEF Init, LastIsCurrent
<1>5. AnswerStaysInTurn BY <1>1 DEF Init, AnswerStaysInTurn
<1> QED BY <1>2, <1>3, <1>4, <1>5 DEF IInv

LEMMA IInvStep == IInv /\ [Next]_vars => IInv'
<1> SUFFICES ASSUME IInv, [Next]_vars PROVE IInv' OBVIOUS
<1>1. CASE UNCHANGED vars
  BY <1>1 DEF IInv, TypeOK, StreamIsCurrent, LastIsCurrent, AnswerStaysInTurn, Streams, Live,
              vars, frame, turn
<1>2. CASE Close \/ Stop \/ Unmount BY <1>2, AbortKeeps
<1>3. CASE Open \/ Mount \/ Clear BY <1>3, ShowKeeps
<1>4. ASSUME NEW t \in Turns, Send(t) PROVE IInv' BY <1>4, SendKeeps
<1>5. ASSUME NEW t \in Turns, Delta(t) PROVE IInv' BY <1>5, DeltaKeeps
<1>6. ASSUME NEW t \in Turns, Terminal(t) \/ Resume(t) PROVE IInv'
  <2>1. Moved(t) BY <1>6, ResumeMoves DEF IInv
  <2> QED BY <2>1, MovedKeeps
<1> QED BY <1>1, <1>2, <1>3, <1>4, <1>5, <1>6 DEF Next

\* The invariant: only the turn whose controller the surface holds streams, and
\* the last message is that turn's.
THEOREM Inductive == Spec => []IInv
BY IInvInit, IInvStep, PTL DEF Spec

\* Every variable keeps its type.
THEOREM TypeCorrect == Spec => []TypeOK
<1>1. IInv => TypeOK BY DEF IInv
<1> QED BY <1>1, Inductive, PTL

\* The drawer's "write into the last message" never mixes two turns, whatever is
\* stopped, cleared, closed, unmounted or late.
THEOREM AnswersStay == Spec => []AnswerStaysInTurn
<1>1. IInv => AnswerStaysInTurn BY DEF IInv
<1> QED BY <1>1, Inductive, PTL

\* At most one turn streams, and only into a surface that is shown.
THEOREM OneStream == Spec => []OneStreamWhereShown
<1>1. IInv => OneStreamWhereShown
  BY DEF IInv, StreamIsCurrent, Streams, OneStreamWhereShown
<1> QED BY <1>1, Inductive, PTL
=============================================================================
