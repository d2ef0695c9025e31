------------------------------ MODULE ChatTurn ------------------------------
(***************************************************************************)
(* One chat surface of the web console, the AI Copilot drawer or the       *)
(* command palette, over the stream of POST /api/ai/chat/stream.           *)
(*                                                                         *)
(* A turn is one call of handleSend.  It runs streamChatResponse, whose    *)
(* callbacks write the answer, the error and the streaming flag of the     *)
(* surface.  Between two awaits the browser runs one callback to its end,  *)
(* so a step below is what happens between two awaits.  The drawer keeps   *)
(* its state in a store of the module, which outlives the component; the   *)
(* palette keeps it in the component.                                      *)
(*                                                                         *)
(* The server refuses a turn, streams it, ends it in a terminal event or   *)
(* without one, or loses it: each is a choice of the step that reads it.   *)
(* What a turn costs is in WorkforceBilling; the read of the agent list    *)
(* that follows a turn is in AgentPicker.                                  *)
(***************************************************************************)
EXTENDS Naturals, Sequences

CONSTANT MaxTurns          \* bound: turns the user sends

ASSUME TurnsAssumption == MaxTurns \in Nat \ {0}

Turns == 1..MaxTurns

VARIABLES
    surface,     \* "drawer" or "palette"
    mounted,     \* the shell that holds the surface is on screen
    open,        \* the surface is open
    messages,    \* the assistant messages: whose turn, and who wrote into it
    streaming,   \* isStreaming: the composer shows Stop instead of Send
    error,       \* the turn whose failure is shown, 0 for none
    controller,  \* the turn whose AbortController the ref holds, 0 for none
    sent,        \* turns sent so far
    orphaned,    \* history: the drawer was unmounted in mid-stream
    aborted,     \* turns whose signal was aborted while they ran
    at,          \* where streamChatResponse of a turn awaits
    settled      \* turns whose terminal event was read

frame == <<surface, mounted, open, orphaned>>
turn == <<aborted, at, settled>>
vars == <<frame, messages, streaming, error, controller, sent, turn>>

Message == [turn : Turns, from : SUBSET Turns]

TypeOK ==
    /\ surface \in {"drawer", "palette"}
    /\ mounted \in BOOLEAN /\ open \in BOOLEAN /\ streaming \in BOOLEAN /\ orphaned \in BOOLEAN
    /\ messages \in Seq(Message)
    /\ error \in 0..MaxTurns /\ controller \in 0..MaxTurns /\ sent \in 0..MaxTurns
    /\ aborted \subseteq Turns /\ settled \subseteq Turns
    /\ at \in [Turns -> {"idle", "fetch", "body", "read", "over"}]

Init ==
    /\ surface \in {"drawer", "palette"}
    /\ mounted = TRUE /\ open = FALSE /\ orphaned = FALSE
    /\ messages = <<>>
    /\ streaming = FALSE
    /\ error = 0 /\ controller = 0 /\ sent = 0
    /\ aborted = {} /\ settled = {}
    /\ at = [t \in Turns |-> "idle"]

-----------------------------------------------------------------------------
(***************************************************************************)
(* The user.                                                               *)
(***************************************************************************)

\* The turn has an await to come back from.
Live(t) == at[t] \in {"fetch", "body", "read"}

\* Mutant of AbortCurrent: without the "?.", an empty ref is aborted, too.
AbortRef == aborted' = aborted \cup {controller}

\* abortControllerRef.current?.abort()
AbortCurrent == aborted' = aborted \cup {t \in Turns : t = controller /\ Live(t)}

\* The surface opens: the palette drops the last error, the drawer keeps it.
Open ==
    /\ mounted /\ ~open
    /\ open' = TRUE
    /\ error' = IF surface = "palette" THEN 0 ELSE error
    /\ UNCHANGED <<surface, mounted, orphaned, messages, streaming, controller, sent, turn>>

\* Mutant of Close: the effect on the open flag only stops the spinner.
CloseSpinner ==
    /\ mounted /\ open
    /\ open' = FALSE
    /\ streaming' = FALSE
    /\ UNCHANGED <<surface, mounted, orphaned, messages, error, controller, sent, turn>>

\* Closing runs the effect on the open flag: abort, and no longer streaming.
Close ==
    /\ mounted /\ open
    /\ open' = FALSE
    /\ AbortCurrent
    /\ streaming' = FALSE
    /\ UNCHANGED <<surface, mounted, orphaned, messages, error, controller, sent, at, settled>>

\* handleStop
Stop ==
    /\ mounted /\ open /\ streaming
    /\ AbortCurrent
    /\ streaming' = FALSE
    /\ UNCHANGED <<frame, messages, error, controller, sent, at, settled>>

\* clearMessages, offered whenever there is a message, in mid-stream too.
Clear ==
    /\ surface = "drawer" /\ mounted /\ open /\ messages # <<>>
    /\ messages' = <<>>
    /\ error' = 0
    /\ UNCHANGED <<frame, streaming, controller, sent, turn>>

\* Mutant of Send: the turn before is not aborted, as Send is only offered when
\* nothing streams.
SendBeside(t) ==
    /\ mounted /\ open /\ ~streaming
    /\ t = sent + 1
    /\ sent' = t
    /\ error' = 0
    /\ messages' = Append(messages, [turn |-> t, from |-> {}])
    /\ controller' = t
    /\ streaming' = TRUE
    /\ at' = [at EXCEPT ![t] = "fetch"]
    /\ UNCHANGED <<frame, aborted, settled>>

\* handleSend, up to the await of streamChatResponse.
Send(t) ==
    /\ mounted /\ open /\ ~streaming
    /\ t = sent + 1
    /\ sent' = t
    /\ error' = 0
    /\ messages' = Append(messages, [turn |-> t, from |-> {}])
    /\ AbortCurrent
    /\ controller' = t
    /\ streaming' = TRUE
    /\ at' = [at EXCEPT ![t] = "fetch"]
    /\ UNCHANGED <<frame, settled>>

\* The shell leaves the screen (a sign-out, the onboarding flow).  The cleanup
\* aborts and does no more.  What the palette held goes with it, what the
\* drawer's store holds stays.
Unmount ==
    /\ mounted
    /\ mounted' = FALSE
    /\ AbortCurrent
    /\ controller' = 0
    /\ \/ /\ surface = "drawer"
          /\ orphaned' = (orphaned \/ streaming)
          /\ UNCHANGED <<open, messages, streaming, error, at>>
       \/ /\ surface = "palette"
          /\ open' = FALSE /\ messages' = <<>> /\ streaming' = FALSE /\ error' = 0
          /\ at' = [t \in Turns |-> IF Live(t) THEN "over" ELSE at[t]]
          /\ UNCHANGED orphaned
    /\ UNCHANGED <<surface, sent, settled>>

\* The shell comes back and runs the effect on the open flag.
Mount ==
    /\ ~mounted
    /\ mounted' = TRUE
    /\ streaming' = (streaming /\ open)
    /\ UNCHANGED <<surface, open, orphaned, messages, error, controller, sent, turn>>

-----------------------------------------------------------------------------
(***************************************************************************)
(* streamChatResponse.                                                     *)
(***************************************************************************)
Moves(t, from, to) == at[t] = from /\ at' = [at EXCEPT ![t] = to]

\* onError
Fail(t) == error' = t /\ streaming' = FALSE

Quiet == UNCHANGED <<frame, messages, controller, sent, aborted>>

\* The request fails, or is answered without a body.
FetchFails(t) ==
    /\ Moves(t, "fetch", "over") /\ t \notin aborted
    /\ Fail(t)
    /\ UNCHANGED settled /\ Quiet

\* The server answered: with a refusal, whose body comes next, or a stream.
FetchAnswered(t) ==
    /\ Moves(t, "fetch", "body") \/ Moves(t, "fetch", "read")
    /\ t \notin aborted
    /\ UNCHANGED <<streaming, error, settled>> /\ Quiet

\* The body of a refusal is read, or its reading fails, by an abort too: the
\* refusal is reported either way.
RefusalRead(t) ==
    /\ Moves(t, "body", "over")
    /\ Fail(t)
    /\ UNCHANGED settled /\ Quiet

\* The aborted await throws AbortError, which is swallowed.
Cut(t) ==
    /\ Moves(t, "fetch", "over") \/ Moves(t, "read", "over")
    /\ t \in aborted
    /\ UNCHANGED <<streaming, error, settled>> /\ Quiet

Reading(t) == at[t] = "read" /\ t \notin aborted

\* The message a delta goes to: the drawer's last one, the palette's own one.
Target(t) ==
    {i \in DOMAIN messages :
        IF surface = "drawer" THEN i = Len(messages) ELSE messages[i].turn = t}

\* A delta of thinking, of text or a tool call.
Delta(t) ==
    /\ Reading(t)
    /\ messages' = [i \in DOMAIN messages |->
                        IF i \in Target(t)
                        THEN [turn |-> messages[i].turn, from |-> messages[i].from \cup {t}]
                        ELSE messages[i]]
    /\ UNCHANGED <<frame, streaming, error, controller, sent, turn>>

\* RUN_FINISHED or RUN_ERROR
Terminal(t) ==
    /\ Reading(t)
    /\ streaming' = FALSE
    /\ error' \in {error, t}
    /\ settled' = settled \cup {t}
    /\ UNCHANGED at /\ Quiet

\* Mutant of BodyEnds: only a terminal event ends a turn.
BodyEndsSilent(t) ==
    /\ Moves(t, "read", "over") /\ t \notin aborted
    /\ UNCHANGED <<streaming, error, settled>> /\ Quiet

\* The response body ends; without a terminal event it counts as done.
BodyEnds(t) ==
    /\ Moves(t, "read", "over") /\ t \notin aborted
    /\ streaming' = (streaming /\ t \in settled)
    /\ UNCHANGED <<error, settled>> /\ Quiet

\* The connection breaks while the body is read.
StreamBreaks(t) ==
    /\ Moves(t, "read", "over") /\ t \notin aborted
    /\ Fail(t)
    /\ UNCHANGED settled /\ Quiet

\* An await comes back.
Resume(t) ==
    \/ FetchFails(t) \/ FetchAnswered(t) \/ RefusalRead(t)
    \/ Cut(t) \/ BodyEnds(t) \/ StreamBreaks(t)

Next ==
    \/ Open \/ Close \/ Stop \/ Clear \/ Unmount \/ Mount
    \/ \E t \in Turns : Send(t) \/ Delta(t) \/ Terminal(t) \/ Resume(t)

Spec == Init /\ [][Next]_vars

\* A request is answered or fails, a response body ends or breaks, and the
\* browser runs the continuation of the await.  Nothing is assumed of the user,
\* nor that the stream carries a terminal event.
FairSpec == Spec /\ \A t \in Turns : WF_vars(Resume(t))

-----------------------------------------------------------------------------
\* A message holds deltas of its own turn only, though the drawer writes into
\* whichever message is last: handleSend aborts the turn before, and an
\* aborted turn writes no more.
AnswerStaysInTurn ==
    \A i \in DOMAIN messages : messages[i].from \subseteq {messages[i].turn}

\* At most one turn streams, also when a late error of a stopped turn offers
\* Send under a running one; and none streams into a surface that is closed or
\* off the screen, where nobody could stop it.
OneStreamWhereShown ==
    \A t, u \in Turns :
        Live(t) /\ Live(u) /\ t \notin aborted /\ u \notin aborted
            => t = u /\ mounted /\ open

\* The composer never shows Stop for good: streaming ends by itself, without
\* the user, in every run but one whose drawer was unmounted in mid-stream.
SpinnerEnds == streaming ~> (~streaming \/ orphaned)
=============================================================================
