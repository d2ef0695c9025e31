----------------------------- MODULE AgentPicker -----------------------------
(***************************************************************************)
(* The agent that chat turns are billed to by default: the workspace       *)
(* setting of server/internal/agentstore/workforce.go, and the picker of   *)
(* an admin's AI Copilot drawer (useDefaultAgent, useWorkforceAgents and   *)
(* the drop effect of AICopilotDrawer.tsx) that shows and writes it.       *)
(*                                                                         *)
(* The drawer reads the list of agents and the setting by requests of      *)
(* their own, writes the setting at once on screen and later at the        *)
(* server, and goes back when the write fails.  Beside it another admin    *)
(* creates and deletes agents and writes the setting.  A server step is    *)
(* one SQL statement.  Names follow their ids and are left out.            *)
(***************************************************************************)
EXTENDS Naturals

CONSTANTS
    Agents,      \* workforce agents of the workspace; ids are never reused
    None,        \* no agent: an absent setting, an empty picker
    MaxReads,    \* bound: reads of a kind under way at once
    MaxSaves,    \* bound: writes of the drawer under way at once
    MaxActs,     \* bound: what the admins begin
    MaxFaults    \* bound: requests and statements that fail

ASSUME PickerAssumption ==
    /\ None \notin Agents /\ MaxReads \in Nat /\ MaxSaves \in Nat
    /\ MaxActs \in Nat /\ MaxFaults \in Nat

Reads == 1..MaxReads
Saves == 1..MaxSaves
Choices == Agents \cup {None}

VARIABLES
    life,      \* the agents' rows: not created yet, there, or deleted
    setting,   \* the stored default
    clearing,  \* deleted agents whose DeleteAgent has yet to clear the setting
    checked,   \* what the other admin's SetDefaultAgent has checked, not written
    open,      \* isOpen
    agents,    \* the list the drawer holds
    loaded,    \* agentsLoaded
    agentId,   \* the choice the picker shows
    due,       \* the drop effect has a changed dependency to look at
    list,      \* reads of the list
    default,   \* reads of the setting
    save,      \* writes of the setting by the drawer
    acts,      \* what the admins have begun
    faults     \* failures so far

server == <<life, setting, clearing, checked>>
drawer == <<open, agents, loaded, agentId, due>>
counts == <<acts, faults>>
vars == <<server, drawer, list, default, save, counts>>

NoList == [at |-> "idle", got |-> {}]
NoDefault == [at |-> "idle", got |-> None]
NoSave == [at |-> "idle", to |-> None, previous |-> None, why |-> "pick"]

Here == {a \in Agents : life[a] = "here"}
Created == {a \in Agents : life[a] # "unborn"}

\* Types, and that nothing shown or stored was never created.
TypeOK ==
    /\ life \in [Agents -> {"unborn", "here", "gone"}]
    /\ setting \in Created \cup {None} /\ checked \in Created \cup {None}
    /\ clearing \subseteq Created
    /\ open \in BOOLEAN /\ loaded \in BOOLEAN /\ due \in BOOLEAN
    /\ agents \subseteq Created /\ agentId \in Created \cup {None}
    /\ list \in [Reads -> [at : {"idle", "asked", "got", "failed"}, got : SUBSET Created]]
    /\ default \in [Reads -> [at : {"idle", "asked", "got", "failed"}, got : Created \cup {None}]]
    /\ save \in [Saves -> [at : {"idle", "sent", "checked", "kept", "failed"},
                           to : Created \cup {None}, previous : Created \cup {None},
                           why : {"pick", "drop"}]]
    /\ acts \in 0..MaxActs /\ faults \in 0..MaxFaults

Init ==
    /\ life \in [Agents -> {"unborn", "here"}]
    /\ setting \in Here \cup {None}
    /\ clearing = {} /\ checked = None
    /\ open = FALSE /\ agents = {} /\ loaded = FALSE /\ agentId = None /\ due = FALSE
    /\ list = [k \in Reads |-> NoList]
    /\ default = [k \in Reads |-> NoDefault]
    /\ save = [k \in Saves |-> NoSave]
    /\ acts = 0 /\ faults = 0

\* An admin begins something; a request or a statement fails.
Act == acts < MaxActs /\ acts' = acts + 1 /\ UNCHANGED faults
Fault == faults < MaxFaults /\ faults' = faults + 1 /\ UNCHANGED acts

-----------------------------------------------------------------------------
(***************************************************************************)
(* The workspace, by other requests.                                       *)
(***************************************************************************)
CreateAgent(a) ==
    /\ life[a] = "unborn" /\ Act
    /\ life' = [life EXCEPT ![a] = "here"]
    /\ UNCHANGED <<setting, clearing, checked, drawer, list, default, save>>

\* DeleteAgent of an agent without tickets: the row first.
DeleteRow(a) ==
    /\ life[a] = "here" /\ Act
    /\ life' = [life EXCEPT ![a] = "gone"]
    /\ clearing' = clearing \cup {a}
    /\ UNCHANGED <<setting, checked, drawer, list, default, save>>

\* Then the setting, if it names the agent.
ClearSetting(a) ==
    /\ a \in clearing
    /\ clearing' = clearing \ {a}
    /\ setting' = IF setting = a THEN None ELSE setting
    /\ UNCHANGED <<life, checked, drawer, list, default, save, counts>>

\* The second statement fails, or the server dies before it.  A retry finds no
\* agent to delete.
ClearFails(a) ==
    /\ a \in clearing /\ Fault
    /\ clearing' = clearing \ {a}
    /\ UNCHANGED <<life, setting, checked, drawer, list, default, save>>

\* SetDefaultAgent of another admin: the agent is looked up, then the setting
\* is written.
OtherChecks(a) ==
    /\ checked = None /\ a \in Here /\ Act
    /\ checked' = a
    /\ UNCHANGED <<life, setting, clearing, drawer, list, default, save>>

OtherWrites ==
    /\ checked # None
    /\ setting' = checked
    /\ checked' = None
    /\ UNCHANGED <<life, clearing, drawer, list, default, save, counts>>

OtherClears ==
    /\ setting # None /\ Act
    /\ setting' = None
    /\ UNCHANGED <<life, clearing, checked, drawer, list, default, save>>

-----------------------------------------------------------------------------
(***************************************************************************)
(* The drawer's reads.                                                     *)
(***************************************************************************)

\* Opening runs both hooks' refresh.
Open(j, k) ==
    /\ ~open /\ list[j].at = "idle" /\ default[k].at = "idle" /\ Act
    /\ open' = TRUE
    /\ list' = [list EXCEPT ![j] = [NoList EXCEPT !.at = "asked"]]
    /\ default' = [default EXCEPT ![k] = [NoDefault EXCEPT !.at = "asked"]]
    /\ UNCHANGED <<server, agents, loaded, agentId, due, save>>

\* Closing stops nothing of what is under way.
Close ==
    /\ open /\ Act
    /\ open' = FALSE
    /\ UNCHANGED <<server, agents, loaded, agentId, due, list, default, save>>

\* A turn is over: the list is read again, also when the drawer is closed by now.
TurnEnds(k) ==
    /\ list[k].at = "idle" /\ Act
    /\ list' = [list EXCEPT ![k] = [NoList EXCEPT !.at = "asked"]]
    /\ UNCHANGED <<server, drawer, default, save>>

\* Mutant of ListServed: the query forgets the workspace, and answers agents
\* that it never had.
ListServedAll(k) ==
    /\ list[k].at = "asked"
    /\ list' = [list EXCEPT ![k] = [at |-> "got", got |-> Agents]]
    /\ UNCHANGED <<server, drawer, default, save, counts>>

\* The agents of the workspace.
ListServed(k) ==
    /\ list[k].at = "asked"
    /\ \/ list' = [list EXCEPT ![k] = [at |-> "got", got |-> Here]] /\ UNCHANGED counts
       \/ list' = [list EXCEPT ![k].at = "failed"] /\ Fault
    /\ UNCHANGED <<server, drawer, default, save>>

\* The answer replaces the list.  A failure leaves it as it is, empty on the
\* first read, and it counts as loaded either way.
ListShown(k) ==
    /\ \/ list[k].at = "got" /\ agents' = list[k].got /\ due' = TRUE
       \/ list[k].at = "failed" /\ UNCHANGED agents /\ due' = (due \/ ~loaded)
    /\ loaded' = TRUE
    /\ list' = [list EXCEPT ![k] = NoList]
    /\ UNCHANGED <<server, open, agentId, default, save, counts>>

DefaultServed(k) ==
    /\ default[k].at = "asked"
    /\ \/ default' = [default EXCEPT ![k] = [at |-> "got", got |-> setting]] /\ UNCHANGED counts
       \/ default' = [default EXCEPT ![k].at = "failed"] /\ Fault
    /\ UNCHANGED <<server, drawer, list, save>>

\* Show(a): setAgentId(a), which re-runs the drop effect when it changes.
Show(a) == agentId' = a /\ due' = (due \/ a # agentId)

DefaultShown(k) ==
    /\ \/ default[k].at = "got" /\ Show(default[k].got)
       \/ default[k].at = "failed" /\ Show(agentId)
    /\ default' = [default EXCEPT ![k] = NoDefault]
    /\ UNCHANGED <<server, open, agents, loaded, list, save, counts>>

-----------------------------------------------------------------------------
(***************************************************************************)
(* The drawer's writes.                                                    *)
(***************************************************************************)

\* save: the choice is shown at once, what was shown is kept for a rollback.
\* The first free name of a write will do.
Sends(k, a, why) ==
    /\ save[k].at = "idle" /\ \A j \in 1..(k - 1) : save[j].at # "idle"
    /\ save' = [save EXCEPT ![k] = [at |-> "sent", to |-> a, previous |-> agentId, why |-> why]]

\* The admin picks an agent of the list, or none.  The picker is not disabled
\* while a write is under way.  React runs effects that are due before it
\* handles an event.
Pick(k, a) ==
    /\ open /\ loaded /\ ~due /\ a \in agents \cup {None} /\ a # agentId /\ Act
    /\ Sends(k, a, "pick")
    /\ Show(a)
    /\ UNCHANGED <<server, open, agents, loaded, list, default>>

\* The value shown is not in the list.
Missing == loaded /\ agentId # None /\ agentId \notin agents

\* Mutant of Drop: an empty list is taken for one that was never read.
DropUnlessEmpty(k) ==
    /\ due /\ Missing /\ agents # {}
    /\ Sends(k, None, "drop")
    /\ agentId' = None
    /\ due' = TRUE
    /\ UNCHANGED <<server, open, agents, loaded, list, default, counts>>

\* The drop effect clears a value that is missing from the list.
Drop(k) ==
    /\ due /\ Missing
    /\ Sends(k, None, "drop")
    /\ agentId' = None
    /\ due' = TRUE
    /\ UNCHANGED <<server, open, agents, loaded, list, default, counts>>

\* The drop effect finds nothing to do.
NoDrop ==
    /\ due /\ ~Missing
    /\ due' = FALSE
    /\ UNCHANGED <<server, open, agents, loaded, agentId, list, default, save, counts>>

\* SetDefaultAgent: the lookup refuses an agent that is not there.
SaveChecked(k) ==
    /\ save[k].at = "sent" /\ save[k].to # None
    /\ save' = [save EXCEPT ![k].at = IF save[k].to \in Here THEN "checked" ELSE "failed"]
    /\ UNCHANGED <<server, drawer, list, default, counts>>

\* The upsert, or the DELETE of an empty choice, which asks for no lookup.
SaveWritten(k) ==
    /\ save[k].at = IF save[k].to = None THEN "sent" ELSE "checked"
    /\ save' = [save EXCEPT ![k].at = "kept"]
    /\ setting' = save[k].to
    /\ UNCHANGED <<life, clearing, checked, drawer, list, default, counts>>

\* The request or its answer is lost, a statement fails.
SaveFails(k) ==
    /\ save[k].at \in {"sent", "checked", "kept"} /\ Fault
    /\ save' = [save EXCEPT ![k].at = "failed"]
    /\ UNCHANGED <<server, drawer, list, default>>

\* The answer is shown, or the choice rolled back.
SaveShown(k) ==
    /\ \/ save[k].at = "kept" /\ Show(save[k].to)
       \/ save[k].at = "failed" /\ Show(save[k].previous)
    /\ save' = [save EXCEPT ![k] = NoSave]
    /\ UNCHANGED <<server, open, agents, loaded, list, default, counts>>

Others ==
    \/ \E a \in Agents :
          CreateAgent(a) \/ DeleteRow(a) \/ ClearSetting(a) \/ ClearFails(a) \/ OtherChecks(a)
    \/ OtherWrites \/ OtherClears

Read(k) == ListServed(k) \/ ListShown(k) \/ DefaultServed(k) \/ DefaultShown(k)

Write(k) == SaveChecked(k) \/ SaveWritten(k) \/ SaveShown(k)

Effect == NoDrop \/ \E k \in Saves : Drop(k)

Next ==
    \/ Others
    \/ Close \/ \E j, k \in Reads : Open(j, k)
    \/ \E k \in Reads : TurnEnds(k) \/ Read(k)
    \/ \E k \in Saves : Write(k) \/ SaveFails(k) \/ \E a \in Choices : Pick(k, a)
    \/ Effect

Spec == Init /\ [][Next]_vars

\* Writes that were sent are served and answered, effects run.  Nothing is
\* assumed of the admins.
FairSpec ==
    /\ Spec
    /\ \A k \in Saves : WF_vars(Write(k))
    /\ WF_vars(Effect)

-----------------------------------------------------------------------------
\* The stored default names an agent that is deleted for good.
Dangling(a) == setting = a /\ life[a] = "gone" /\ a \notin clearing

\* Nothing is under way that could change what the picker shows.
Resting ==
    /\ \A k \in Saves : save[k].at = "idle"
    /\ \A k \in Reads : list[k].at = "idle" /\ default[k].at = "idle"

\* An admin's pick was refused or lost and is about to be rolled back.
PickLost == \E k \in Saves : save[k].at = "failed" /\ save[k].why = "pick"

\* A default left dangling, by a DeleteAgent that failed half way or by a write
\* that had checked the agent before, is replaced once a drawer shows it beside a
\* list without it: a failing write of the drop effect is tried again, and an
\* agent that the admin picks meanwhile takes its place.  Only a pick that fails
\* too may leave it behind: the two rollbacks can end with nothing shown.
Healed(a) ==
    (Dangling(a) /\ agentId = a /\ Missing /\ Resting) ~> (setting # a \/ PickLost)

\* "Drop a picker value whose agent was deleted since the list was read": the
\* drop effect never takes the workspace's default away from an agent that is
\* still there.
DropsOnlyDeleted ==
    [][\A k \in Saves :
        save[k].why = "drop" /\ save[k].at = "sent" /\ save'[k].at = "kept"
            => setting \notin Here]_vars
=============================================================================
