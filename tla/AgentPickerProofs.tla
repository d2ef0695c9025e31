--------------------------- MODULE AgentPickerProofs ---------------------------
(***************************************************************************)
(* What AgentPicker guarantees for any agents, requests, acts and faults:  *)
(* whatever the setting, the picker, a list or a request names is an agent *)
(* that the workspace created at some time.                                *)
(***************************************************************************)
EXTENDS AgentPicker, TLAPS

\* The records of a request of each kind, over the agents created so far.
ListRead == [at : {"idle", "asked", "got", "failed"}, got : SUBSET Created]
DefaultRead == [at : {"idle", "asked", "got", "failed"}, got : Created \cup {None}]
Save == [at : {"idle", "sent", "checked", "kept", "failed"},
         to : Created \cup {None}, previous : Created \cup {None}, why : {"pick", "drop"}]

\* TypeOK by parts: the server, the drawer, the requests under way.
ServerOK ==
    /\ life \in [Agents -> {"unborn", "here", "gone"}]
    /\ setting \in Created \cup {None} /\ checked \in Created \cup {None}
    /\ clearing \subseteq Created

DrawerOK ==
    /\ open \in BOOLEAN /\ loaded \in BOOLEAN /\ due \in BOOLEAN
    /\ agents \subseteq Created /\ agentId \in Created \cup {None}

RequestsOK ==
    /\ list \in [Reads -> ListRead]
    /\ default \in [Reads -> DefaultRead]
    /\ save \in [Saves -> Save]

CountsOK == acts \in 0..MaxActs /\ faults \in 0..MaxFaults

LEMMA Parts == TypeOK <=> ServerOK /\ DrawerOK /\ RequestsOK /\ CountsOK
BY DEF TypeOK, ServerOK, DrawerOK, RequestsOK, ListRead, DefaultRead, Save, CountsOK

LEMMA PartsNext == ServerOK' /\ DrawerOK' /\ RequestsOK' /\ CountsOK' => TypeOK'
BY DEF TypeOK, ServerOK, DrawerOK, RequestsOK, ListRead, DefaultRead, Save, Created, CountsOK

LEMMA InitTypeOK == Init => TypeOK
<1> SUFFICES ASSUME Init PROVE TypeOK
  OBVIOUS
<1>1. ServerOK /\ DrawerOK
  BY DEF Init, ServerOK, DrawerOK, Here, Created
<1>2. RequestsOK
  BY DEF Init, RequestsOK, ListRead, DefaultRead, Save, NoList, NoDefault, NoSave
<1>3. CountsOK
  BY PickerAssumption DEF Init, CountsOK
<1> QED
  BY <1>1, <1>2, <1>3, Parts

\* A step that keeps the agents' rows keeps the records' types.
LEMMA RowsKept ==
    ASSUME UNCHANGED life
    PROVE  /\ Created' = Created /\ Here' = Here
           /\ ListRead' = ListRead /\ DefaultRead' = DefaultRead /\ Save' = Save
BY DEF Created, Here, ListRead, DefaultRead, Save

\* An agent that is there was created.
LEMMA HereCreated == Here \subseteq Created
BY DEF Here, Created

\* A step that leaves the drawer and its requests alone, and only adds to what
\* was created, keeps their types.
LEMMA OthersAside ==
    ASSUME TypeOK, UNCHANGED <<drawer, list, default, save>>, Created \subseteq Created'
    PROVE  DrawerOK' /\ RequestsOK'
<1>1. ListRead \subseteq ListRead' /\ DefaultRead \subseteq DefaultRead' /\ Save \subseteq Save'
  BY DEF ListRead, DefaultRead, Save
<1>2. DrawerOK /\ RequestsOK
  BY Parts
<1>3. DrawerOK'
  BY <1>2 DEF DrawerOK, drawer
<1>4. list' \in [Reads -> ListRead'] /\ default' \in [Reads -> DefaultRead'] /\ save' \in [Saves -> Save']
  <2> HIDE DEF Created
  <2> QED BY <1>1, <1>2 DEF RequestsOK
<1> QED
  BY <1>3, <1>4 DEF RequestsOK

\* A step counts what an admin begins or what fails, up to the bound.
LEMMA CountsKept ==
    ASSUME CountsOK, Next
    PROVE  CountsOK'
<1>1. Act \/ Fault \/ UNCHANGED counts
  <2>1. CASE Others
    BY <2>1 DEF Others, CreateAgent, DeleteRow, ClearSetting, ClearFails, OtherChecks, OtherWrites,
                OtherClears
  <2>2. CASE Close \/ (\E j, k \in Reads : Open(j, k)) \/ (\E k \in Reads : TurnEnds(k) \/ Read(k))
    BY <2>2 DEF Close, Open, TurnEnds, Read, ListServed, ListShown, DefaultServed, DefaultShown
  <2>3. CASE Effect \/ (\E k \in Saves : Write(k) \/ SaveFails(k) \/ \E a \in Choices : Pick(k, a))
    BY <2>3 DEF Effect, Drop, NoDrop, Write, SaveFails, Pick, SaveChecked, SaveWritten, SaveShown
  <2> QED
    BY <2>1, <2>2, <2>3 DEF Next
<1> QED
  BY <1>1, PickerAssumption DEF CountsOK, counts, Act, Fault

\* What the workspace's other requests do.
LEMMA OthersTypeOK == TypeOK /\ Others => TypeOK'
<1> SUFFICES ASSUME TypeOK, Others PROVE TypeOK'
  OBVIOUS
<1>1. ServerOK /\ CountsOK
  BY Parts
<1>2. UNCHANGED <<drawer, list, default, save>>
  BY DEF Others, CreateAgent, DeleteRow, ClearSetting, ClearFails, OtherChecks, OtherWrites, OtherClears
<1>3. CountsOK'
  BY <1>1, CountsKept DEF Next
<1>4. ServerOK' /\ Created \subseteq Created'
  <2>1. CASE \E a \in Agents : CreateAgent(a)
    BY <1>1, <2>1 DEF CreateAgent, ServerOK, Created
  <2>2. CASE \E a \in Agents : DeleteRow(a)
    BY <1>1, <2>2 DEF DeleteRow, ServerOK, Created
  <2>3. CASE \E a \in Agents : ClearSetting(a)
    BY <1>1, <2>3 DEF ClearSetting, ServerOK, Created
  <2>4. CASE \E a \in Agents : ClearFails(a)
    BY <1>1, <2>4 DEF ClearFails, ServerOK, Created
  <2>5. CASE \E a \in Agents : OtherChecks(a)
    BY <1>1, <2>5 DEF OtherChecks, ServerOK, Here, Created
  <2>6. CASE OtherWrites \/ OtherClears
    BY <1>1, <2>6 DEF OtherWrites, OtherClears, ServerOK, Created
  <2> QED
    BY <2>1, <2>2, <2>3, <2>4, <2>5, <2>6 DEF Others
<1> QED
  BY <1>2, <1>3, <1>4, OthersAside, PartsNext

\* The drawer opens, closes, asks for the list again and is answered.
LEMMA ReadsTypeOK ==
    ASSUME TypeOK,
           Close \/ (\E j, k \in Reads : Open(j, k)) \/ (\E k \in Reads : TurnEnds(k) \/ Read(k))
    PROVE  TypeOK'
<1>1. ServerOK /\ DrawerOK /\ RequestsOK /\ CountsOK
  BY Parts
<1>2. UNCHANGED <<server, save>>
  BY DEF Close, Open, TurnEnds, Read, ListServed, ListShown, DefaultServed, DefaultShown
<1>3. UNCHANGED life
  BY <1>2 DEF server
<1>4. ServerOK'
  BY <1>1, <1>2, <1>3, RowsKept DEF ServerOK, server
<1>5. NoList \in ListRead /\ NoDefault \in DefaultRead
  BY DEF NoList, NoDefault, ListRead, DefaultRead
<1> DEFINE Typed == /\ list' \in [Reads -> ListRead] /\ default' \in [Reads -> DefaultRead]
                    /\ open' \in BOOLEAN /\ loaded' \in BOOLEAN /\ due' \in BOOLEAN
                    /\ agents' \subseteq Created /\ agentId' \in Created \cup {None}
<1>6. Typed
  <2>1. CASE Close
    BY <1>1, <2>1 DEF Close, DrawerOK, RequestsOK
  <2>2. CASE \E j, k \in Reads : Open(j, k)
    <3>1. [NoList EXCEPT !.at = "asked"] \in ListRead /\ [NoDefault EXCEPT !.at = "asked"] \in DefaultRead
      BY DEF NoList, NoDefault, ListRead, DefaultRead
    <3> QED BY <1>1, <2>2, <3>1 DEF Open, DrawerOK, RequestsOK
  <2>3. CASE \E k \in Reads : TurnEnds(k)
    <3>1. [NoList EXCEPT !.at = "asked"] \in ListRead
      BY DEF NoList, ListRead
    <3> QED BY <1>1, <2>3, <3>1 DEF TurnEnds, DrawerOK, RequestsOK, drawer
  <2>4. ASSUME NEW k \in Reads, ListServed(k) PROVE Typed
    <3>1. [at |-> "got", got |-> Here] \in ListRead
      BY HereCreated DEF ListRead
    <3>2. [list[k] EXCEPT !.at = "failed"] \in ListRead
      BY <1>1 DEF RequestsOK, ListRead
    <3>3. list' \in [Reads -> ListRead]
      BY <1>1, <2>4, <3>1, <3>2 DEF ListServed, RequestsOK
    <3> QED BY <1>1, <2>4, <3>3 DEF ListServed, DrawerOK, RequestsOK, drawer
  <2>5. ASSUME NEW k \in Reads, ListShown(k) PROVE Typed
    <3>1. list[k].got \subseteq Created
      BY <1>1 DEF RequestsOK, ListRead
    <3> QED BY <1>1, <1>5, <2>5, <3>1 DEF ListShown, DrawerOK, RequestsOK
  <2>6. ASSUME NEW k \in Reads, DefaultServed(k) PROVE Typed
    <3>1. [at |-> "got", got |-> setting] \in DefaultRead
      BY <1>1 DEF ServerOK, DefaultRead
    <3>2. [default[k] EXCEPT !.at = "failed"] \in DefaultRead
      BY <1>1 DEF RequestsOK, DefaultRead
    <3>3. default' \in [Reads -> DefaultRead]
      BY <1>1, <2>6, <3>1, <3>2 DEF DefaultServed, RequestsOK
    <3> QED BY <1>1, <2>6, <3>3 DEF DefaultServed, DrawerOK, RequestsOK, drawer
  <2>7. ASSUME NEW k \in Reads, DefaultShown(k) PROVE Typed
    <3>1. default[k].got \in Created \cup {None}
      BY <1>1 DEF RequestsOK, DefaultRead
    <3>2. agentId' \in Created \cup {None} /\ due' \in BOOLEAN
      BY <1>1, <2>7, <3>1 DEF DefaultShown, Show, DrawerOK
    <3> QED BY <1>1, <1>5, <2>7, <3>2 DEF DefaultShown, DrawerOK, RequestsOK
  <2> HIDE DEF Typed
  <2> QED
    BY <2>1, <2>2, <2>3, <2>4, <2>5, <2>6, <2>7 DEF Read
<1>7. RequestsOK' /\ DrawerOK'
  BY <1>1, <1>2, <1>3, <1>6, RowsKept DEF RequestsOK, DrawerOK
<1>8. CountsOK'
  BY <1>1, CountsKept DEF Next
<1> QED
  BY <1>4, <1>7, <1>8, PartsNext

\* A write is sent, is checked, written, lost and shown; the drop effect runs.
LEMMA WritesTypeOK ==
    ASSUME TypeOK,
           Effect \/ (\E k \in Saves : Write(k) \/ SaveFails(k) \/ \E a \in Choices : Pick(k, a))
    PROVE  TypeOK'
<1>1. ServerOK /\ DrawerOK /\ RequestsOK /\ CountsOK
  BY Parts
<1>2. UNCHANGED <<life, clearing, checked, open, agents, loaded, list, default>>
  BY DEF Effect, Drop, NoDrop, Write, SaveFails, Pick, SaveChecked, SaveWritten, SaveShown, server, drawer
<1>3. NoSave \in Save /\ None \in Created \cup {None}
  BY DEF NoSave, Save
<1>4. \A k \in Saves : /\ save[k].to \in Created \cup {None} /\ save[k].previous \in Created \cup {None}
                       /\ \A x \in {"checked", "kept", "failed"} : [save[k] EXCEPT !.at = x] \in Save
  BY <1>1 DEF RequestsOK, Save
<1>5. \A a \in Created \cup {None}, why \in {"pick", "drop"} :
          [at |-> "sent", to |-> a, previous |-> agentId, why |-> why] \in Save
  BY <1>1 DEF DrawerOK, Save
<1> DEFINE Typed == /\ save' \in [Saves -> Save]
                    /\ due' \in BOOLEAN
                    /\ agentId' \in Created \cup {None} /\ setting' \in Created \cup {None}
<1>6. Typed
  <2>1. CASE NoDrop
    BY <1>1, <2>1 DEF NoDrop, RequestsOK, DrawerOK, ServerOK, server
  <2>2. ASSUME NEW k \in Saves, Drop(k) PROVE Typed
    <3>1. save' \in [Saves -> Save]
      BY <1>1, <1>3, <1>5, <2>2 DEF Drop, Sends, RequestsOK
    <3> QED BY <1>1, <1>3, <2>2, <3>1 DEF Drop, ServerOK, server
  <2>3. ASSUME NEW k \in Saves, NEW a \in Choices, Pick(k, a) PROVE Typed
    <3>1. a \in Created \cup {None}
      BY <1>1, <2>3 DEF Pick, DrawerOK
    <3>2. save' \in [Saves -> Save]
      BY <1>1, <1>5, <2>3, <3>1 DEF Pick, Sends, RequestsOK
    <3> QED BY <1>1, <2>3, <3>1, <3>2 DEF Pick, Show, DrawerOK, ServerOK, server
  <2>4. ASSUME NEW k \in Saves, SaveChecked(k) PROVE Typed
    <3>1. save' \in [Saves -> Save]
      BY <1>1, <1>4, <2>4 DEF SaveChecked, RequestsOK
    <3> QED BY <1>1, <2>4, <3>1 DEF SaveChecked, DrawerOK, ServerOK, server, drawer
  <2>5. ASSUME NEW k \in Saves, SaveWritten(k) PROVE Typed
    <3>1. save' \in [Saves -> Save]
      BY <1>1, <1>4, <2>5 DEF SaveWritten, RequestsOK
    <3> QED BY <1>1, <1>4, <2>5, <3>1 DEF SaveWritten, DrawerOK, drawer
  <2>6. ASSUME NEW k \in Saves, SaveFails(k) PROVE Typed
    <3>1. save' \in [Saves -> Save]
      BY <1>1, <1>4, <2>6 DEF SaveFails, RequestsOK
    <3> QED BY <1>1, <2>6, <3>1 DEF SaveFails, DrawerOK, ServerOK, server, drawer
  <2>7. ASSUME NEW k \in Saves, SaveShown(k) PROVE Typed
    <3>1. agentId' \in Created \cup {None} /\ due' \in BOOLEAN
      BY <1>1, <1>4, <2>7 DEF SaveShown, Show, DrawerOK
    <3>2. save' \in [Saves -> Save]
      BY <1>1, <1>3, <2>7 DEF SaveShown, RequestsOK
    <3> QED BY <1>1, <2>7, <3>1, <3>2 DEF SaveShown, ServerOK, server
  <2> HIDE DEF Typed
  <2> QED
    BY <2>1, <2>2, <2>3, <2>4, <2>5, <2>6, <2>7 DEF Effect, Write
<1>7. ServerOK' /\ RequestsOK' /\ DrawerOK'
  BY <1>1, <1>2, <1>6, RowsKept DEF ServerOK, RequestsOK, DrawerOK
<1>8. CountsOK'
  BY <1>1, CountsKept DEF Next
<1> QED
  BY <1>7, <1>8, PartsNext

\* Types, and what a picker, a list, a request or the setting names was created:
\* the type invariant is inductive as it stands.
THEOREM TypeCorrect == Spec => []TypeOK
<1>1. TypeOK /\ [Next]_vars => TypeOK'
  <2> SUFFICES ASSUME TypeOK, [Next]_vars PROVE TypeOK'
    OBVIOUS
  <2>1. CASE UNCHANGED vars
    <3>1. UNCHANGED <<life, acts, faults, server, drawer, list, default, save>>
      BY <2>1 DEF vars, server, counts
    <3>2. ServerOK /\ CountsOK BY Parts
    <3>3. Created' = Created BY <3>1, RowsKept
    <3>4. ServerOK' BY <3>1, <3>2, <3>3 DEF ServerOK, server
    <3>5. DrawerOK' /\ RequestsOK' BY <3>1, <3>3, OthersAside
    <3>6. CountsOK' BY <3>1, <3>2 DEF CountsOK
    <3> QED BY <3>4, <3>5, <3>6, PartsNext
  <2> QED
    BY <2>1, OthersTypeOK, ReadsTypeOK, WritesTypeOK DEF Next
<1> QED
  BY <1>1, InitTypeOK, PTL DEF Spec
=============================================================================
