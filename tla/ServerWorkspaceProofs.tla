------------------------- MODULE ServerWorkspaceProofs -------------------------
(***************************************************************************)
(* Proofs about the servers page for any servers, directories and files,   *)
(* and any number of handlers under way at once.  The inductive invariant, *)
(* IInv, says of every handler what it knows of the server selected now,   *)
(* and of the pane what its tab allows it to show; a second one,           *)
(* ListCatchesUp, says which handler will make the list true again.        *)
(***************************************************************************)
EXTENDS ServerWorkspace, TLAPS

(* What a handler relies on after its await. *)
FlowKnows(flow) ==
  /\ flow.op \notin {"idle", "reload", "createServer"} => selectedServer # None
  /\ flow.op = "read" => drifted \/ flow.server = selectedServer
  /\ flow.op \in {"save", "change"} => drifted \/ flow.origin = flow.server

FlowsKnow == \A f \in Flows : FlowKnows(flows[f])

(* A file manager is in the files' tab only, and the timer is the console's. *)
PaneKnows ==
  /\ pane.view # "fichiers" => pane.editor = None /\ ~pane.listing
  /\ pane.editor # None => drifted \/ pane.editor.server = selectedServer
  /\ consoleRefreshTimer <=> pane.view = "console"

(* The part of TypeOK that is about neither the flows nor the pane. *)
RestTyped ==
  /\ rows \subseteq Servers /\ unsettled \subseteq Servers /\ strays \subseteq Servers
  /\ consoleRequestRunning \in BOOLEAN
  /\ logs \in Servers \cup {None}
  /\ clicks \in 0 .. MaxClicks
  /\ errors \in 0 .. MaxErrors
  /\ raced \in BOOLEAN

IInv ==
  TypeOK /\ FlowsKnow /\ PaneKnows /\ ConsoleIsSelected /\ FilesFollowGlobals /\ OneInterval

-------------------------------------------------------------------------------
(* Types of the flows and of the pane. *)

(* The flows that a handler may go on with. *)
LEMMA FlowKinds ==
  ASSUME NEW s \in Servers, NEW o \in Servers, NEW d \in Directories
  PROVE  /\ Idle \in FlowStates
         /\ Reload \in FlowStates
         /\ \A seen \in SUBSET Servers : [Reload EXCEPT !.read = TRUE, !.seen = seen] \in FlowStates
         /\ \A p \in Paths \cup {None} : ListOf(s, d, p) \in FlowStates
         /\ \A p \in Paths : /\ [op |-> "read", server |-> s, file |-> p] \in FlowStates
                             /\ [op |-> "create", server |-> s, file |-> p] \in FlowStates
         /\ [op |-> "save", server |-> s, origin |-> o] \in FlowStates
         /\ [op |-> "change", server |-> s, origin |-> o] \in FlowStates
         /\ [op |-> "console", server |-> s] \in FlowStates
         /\ [op |-> "createServer", server |-> s] \in FlowStates
         /\ [op |-> "action", server |-> s] \in FlowStates
         /\ [op |-> "delete", server |-> s, cmd |-> "queued"] \in FlowStates
         /\ [op |-> "delete", server |-> s, cmd |-> "done"] \in FlowStates
BY DEF FlowStates, Idle, Reload, ListOf

(* What a flow of each kind carries. *)
LEMMA FlowFields ==
  ASSUME NEW flow \in FlowStates
  PROVE  /\ flow.op = "idle" => flow = Idle
         /\ flow.op = "reload" => flow.seen \subseteq Servers
         /\ flow.op = "list" =>
              /\ flow.server \in Servers /\ flow.dir \in Directories
              /\ flow.then \in Paths \cup {None}
         /\ flow.op \in {"read", "create"} => flow.server \in Servers /\ flow.file \in Paths
         /\ flow.op = "createServer" => flow.server \in Servers
         /\ flow.op = "delete" =>
              /\ flow.server \in Servers
              /\ flow = [op |-> "delete", server |-> flow.server, cmd |-> flow.cmd]
BY DEF FlowStates, Idle

(* One flow goes on, the others stay. *)
LEMMA BecomesTyped ==
  ASSUME flows \in [Flows -> FlowStates], NEW f \in Flows, NEW flow \in FlowStates,
         Becomes(f, flow)
  PROVE  /\ flows' \in [Flows -> FlowStates]
         /\ flows'[f] = flow
         /\ \A g \in Flows : g # f => flows'[g] = flows[g]
BY DEF Becomes

(* A pane that was just opened is empty. *)
LEMMA EmptyPaneTyped ==
  ASSUME NEW view \in Tabs \cup {"none"}
  PROVE  /\ EmptyPane(view) \in Panes
         /\ EmptyPane(view).view = view
         /\ EmptyPane(view).console = None
         /\ EmptyPane(view).editor = None
         /\ ~EmptyPane(view).listing
BY RootAssumption DEF Panes, EmptyPane

(* Names of files are joined to paths. *)
LEMMA PathTyped ==
  ASSUME NEW d \in Directories, NEW n \in Names
  PROVE  JoinPath(d, n) \in Paths
BY DEF Paths, JoinPath

(* The first state satisfies the inductive invariant. *)
LEMMA InitIInv == Init => IInv
<1> SUFFICES ASSUME Init PROVE IInv
  OBVIOUS
<1> USE DEF Init
<1>1. pane = EmptyPane("none") /\ pane \in Panes /\ pane.view = "none" /\ pane.console = None
      /\ pane.editor = None /\ ~pane.listing
  BY EmptyPaneTyped
<1>2. flows \in [Flows -> FlowStates] /\ \A f \in Flows : flows[f] \in {Idle, Reload}
  BY DEF FlowStates, Idle, Reload
<1>3. \A f \in Flows : flows[f].op \in {"idle", "reload"}
  BY <1>2 DEF Idle, Reload
<1>4. TypeOK
  <2>1. clicks \in 0 .. MaxClicks /\ errors \in 0 .. MaxErrors /\ intervals \in Nat
    BY BoundsAssumption
  <2>. QED  BY <1>1, <1>2, <2>1, RootAssumption DEF TypeOK
<1>5. FlowsKnow
  BY <1>3 DEF FlowsKnow, FlowKnows
<1>6. PaneKnows /\ ConsoleIsSelected /\ FilesFollowGlobals /\ OneInterval
  BY <1>1 DEF PaneKnows, ConsoleIsSelected, FilesFollowGlobals, OneInterval
<1>. QED  BY <1>4, <1>5, <1>6 DEF IInv

-------------------------------------------------------------------------------
(* Shapes of steps. *)

(* A flow goes on and nothing that is seen changes. *)
LEMMA FlowStep ==
  ASSUME IInv, NEW f \in Flows, NEW flow \in FlowStates, Becomes(f, flow),
         FlowKnows(flow), RestTyped', UNCHANGED <<viewVars, fileVars>>
  PROVE  IInv'
<1> USE DEF IInv, viewVars, fileVars, selectionVars, timerVars
<1>1. /\ flows' \in [Flows -> FlowStates]
      /\ flows'[f] = flow
      /\ \A g \in Flows : g # f => flows'[g] = flows[g]
  BY BecomesTyped DEF TypeOK
<1>2. TypeOK'
  BY <1>1 DEF TypeOK, RestTyped
<1>3. FlowsKnow'
  BY <1>1 DEF FlowsKnow, FlowKnows
<1>4. PaneKnows' /\ ConsoleIsSelected' /\ FilesFollowGlobals' /\ OneInterval'
  BY DEF PaneKnows, ConsoleIsSelected, FilesFollowGlobals, OneInterval
<1>. QED  BY <1>2, <1>3, <1>4

(* No flow goes on; at most the text in the console changes. *)
LEMMA ConsoleStep ==
  ASSUME IInv, RestTyped', UNCHANGED <<selectionVars, listed, timerVars, fileVars, flows>>,
         \/ pane' = pane
         \/ /\ pane.view = "console"
            /\ \E c \in {selectedServer, None} : pane' = [pane EXCEPT !.console = c]
  PROVE  IInv'
<1> USE DEF IInv, fileVars, selectionVars, timerVars
<1>1. /\ pane' \in Panes /\ pane'.view = pane.view /\ pane'.listing = pane.listing
      /\ pane'.breadcrumb = pane.breadcrumb /\ pane'.editor = pane.editor
      /\ pane'.console \in {pane.console, selectedServer, None}
  BY DEF TypeOK, Panes
<1>2. TypeOK'
  BY <1>1 DEF TypeOK, RestTyped
<1>3. FlowsKnow'
  BY DEF FlowsKnow, FlowKnows
<1>4. PaneKnows' /\ ConsoleIsSelected' /\ FilesFollowGlobals' /\ OneInterval'
  BY <1>1 DEF PaneKnows, ConsoleIsSelected, FilesFollowGlobals, OneInterval
<1>. QED  BY <1>2, <1>3, <1>4

(* A fetch of the logs is for a server. *)
LEMMA StartLogsTyped ==
  ASSUME NEW s \in Servers, StartLogs(s), consoleRequestRunning \in BOOLEAN,
         logs \in Servers \cup {None}
  PROVE  consoleRequestRunning' \in BOOLEAN /\ logs' \in Servers \cup {None}
BY DEF StartLogs, consoleVars

(* A tab of a server is opened.  Files that were being opened for another server drift. *)
LEMMA RenderStep ==
  ASSUME IInv, NEW f \in Flows, NEW s \in Servers, NEW view \in Tabs,
         RenderServerPane(f, s, view), selectedServer' = s,
         listed' \subseteq Servers, UNCHANGED <<fileVars, rowVars>>,
         clicks' \in 0 .. MaxClicks, errors' \in 0 .. MaxErrors, raced' \in BOOLEAN,
         \/ s = selectedServer /\ drifted' = drifted
         \/ drifted' = (drifted \/ \E g \in Flows : flows[g].op = "read" /\ flows[g].server # s)
  PROVE  IInv'
<1> USE DEF IInv, fileVars, rowVars
<1> DEFINE flow == IF view = "fichiers" THEN ListOf(s, currentDirectory, None) ELSE Idle
<1>1. flow \in FlowStates /\ flow.op \in {"idle", "list"}
  <2>1. ListOf(s, currentDirectory, None) \in FlowStates /\ Idle \in FlowStates
    BY FlowKinds DEF TypeOK
  <2>2. ListOf(s, currentDirectory, None).op = "list" /\ Idle.op = "idle"
    BY DEF ListOf, Idle
  <2>. QED  BY <2>1, <2>2
<1>2. /\ flows' \in [Flows -> FlowStates]
      /\ flows'[f] = flow
      /\ \A g \in Flows : g # f => flows'[g] = flows[g]
  BY <1>1, BecomesTyped DEF TypeOK, RenderServerPane
<1>3. /\ pane' \in Panes /\ pane'.view = view /\ pane'.console = None
      /\ pane'.editor = None /\ ~pane'.listing
  BY EmptyPaneTyped DEF RenderServerPane
<1>4. /\ consoleRefreshTimer' \in BOOLEAN
      /\ consoleRefreshTimer' <=> view = "console"
      /\ intervals' = IF view = "console" THEN 1 ELSE 0
  <2>1. intervals - (IF consoleRefreshTimer THEN 1 ELSE 0) = 0
    BY DEF OneInterval, PaneKnows, TypeOK
  <2>2. /\ consoleRefreshTimer' = (view = "console")
        /\ intervals' = (intervals - IF consoleRefreshTimer THEN 1 ELSE 0)
                          + (IF view = "console" THEN 1 ELSE 0)
    BY DEF RenderServerPane
  <2>3. consoleRefreshTimer' \in BOOLEAN /\ (consoleRefreshTimer' <=> view = "console")
    BY <2>2
  <2>4. intervals' = IF view = "console" THEN 1 ELSE 0
    <3>1. (IF view = "console" THEN 1 ELSE 0) \in Nat
      OBVIOUS
    <3>. QED  BY <2>1, <2>2, <3>1
  <2>. QED  BY <2>3, <2>4
<1>5. consoleRequestRunning' \in BOOLEAN /\ logs' \in Servers \cup {None}
  BY StartLogsTyped DEF RenderServerPane, TypeOK, consoleVars
<1>6. s # None /\ drifted' \in BOOLEAN /\ (drifted => drifted')
  BY NoneAssumption DEF TypeOK
<1>7. TypeOK'
  <2>1. view # "none"
    BY DEF Tabs
  <2>2. intervals' \in Nat
    BY <1>4
  <2>. QED  BY <1>2, <1>3, <1>4, <1>5, <1>6, <2>1, <2>2 DEF TypeOK
<1>8. FlowsKnow'
  <2> SUFFICES ASSUME NEW g \in Flows PROVE FlowKnows(flows[g])'
    BY DEF FlowsKnow
  <2>1. CASE g = f
    BY <1>1, <1>2, <1>6, <2>1 DEF FlowKnows
  <2>2. CASE g # f
    <3>1. flows'[g] = flows[g] /\ FlowKnows(flows[g])
      BY <1>2, <2>2 DEF FlowsKnow
    <3>. QED  BY <1>6, <3>1 DEF FlowKnows
  <2>. QED  BY <2>1, <2>2
<1>9. PaneKnows' /\ ConsoleIsSelected' /\ FilesFollowGlobals'
  BY <1>3, <1>4 DEF PaneKnows, ConsoleIsSelected, FilesFollowGlobals
<1>10. OneInterval'
  BY <1>3, <1>4 DEF OneInterval
<1>. QED  BY <1>7, <1>8, <1>9, <1>10

-------------------------------------------------------------------------------
(* The handlers. *)

(* Steps of the console keep the inductive invariant. *)
LEMMA ConsoleNextStep == IInv /\ ConsoleNext => IInv'
<1> SUFFICES ASSUME IInv, ConsoleNext PROVE IInv'
  OBVIOUS
<1> USE DEF rowVars, consoleVars, viewVars
<1>1. RestTyped /\ (pane.view = "console" => selectedServer \in Servers)
  BY DEF IInv, TypeOK, RestTyped
<1>2. CASE LogsAnswer \/ LogsError \/ ClearConsole
  <2>1. RestTyped'
    <3>1. CASE LogsAnswer
      BY <1>1, <3>1 DEF LogsAnswer, RestTyped
    <3>2. CASE LogsError
      <4>1. errors' \in 0 .. MaxErrors
        BY <1>1, <3>2, BoundsAssumption DEF LogsError, RestTyped, Fault
      <4>2. /\ UNCHANGED <<rows, unsettled, strays, clicks, raced>>
            /\ logs' = None /\ consoleRequestRunning' = FALSE
        BY <3>2 DEF LogsError
      <4>. QED  BY <1>1, <4>1, <4>2 DEF RestTyped
    <3>3. CASE ClearConsole
      BY <1>1, <3>3, BoundsAssumption DEF ClearConsole, RestTyped, Click
    <3>. QED  BY <1>2, <3>1, <3>2, <3>3
  <2>2. \/ pane' = pane
        \/ /\ pane.view = "console"
           /\ \E c \in {selectedServer, None} : pane' = [pane EXCEPT !.console = c]
    BY <1>2 DEF LogsAnswer, LogsError, ClearConsole
  <2>3. UNCHANGED <<selectionVars, listed, timerVars, fileVars, flows>>
    BY <1>2 DEF LogsAnswer, LogsError, ClearConsole
  <2>. QED  BY <2>1, <2>2, <2>3, ConsoleStep
<1>3. CASE ConsoleTick \/ RefreshLogs
  <2>1. selectedServer \in Servers /\ StartLogs(selectedServer)
    BY <1>1, <1>3 DEF ConsoleTick, RefreshLogs, IInv, TypeOK
  <2>2. RestTyped'
    BY <1>1, <1>3, <2>1, StartLogsTyped, BoundsAssumption
       DEF ConsoleTick, RefreshLogs, RestTyped, Click
  <2>3. UNCHANGED <<selectionVars, listed, timerVars, fileVars, flows, pane>>
    BY <1>3 DEF ConsoleTick, RefreshLogs
  <2>. QED  BY <2>2, <2>3, ConsoleStep
<1>4. ASSUME NEW f \in Flows, SendConsole(f) PROVE IInv'
  <2>1. selectedServer \in Servers /\ RestTyped'
    BY <1>1, <1>4, BoundsAssumption DEF SendConsole, RestTyped, Click
  <2> DEFINE flow == [op |-> "console", server |-> selectedServer]
  <2>2. flow \in FlowStates /\ FlowKnows(flow)
    BY <2>1, NoneAssumption DEF FlowStates, FlowKnows
  <2>. QED  BY <1>4, <2>1, <2>2, FlowStep DEF SendConsole
<1>5. ASSUME NEW f \in Flows, ConsoleAnswer(f) PROVE IInv'
  <2>1. FlowKnows(flows[f])
    BY DEF IInv, FlowsKnow
  <2>2. selectedServer \in Servers
    BY <1>5, <2>1 DEF ConsoleAnswer, FlowKnows, IInv, TypeOK
  <2>3. RestTyped'
    BY <1>1, <1>5, <2>2, StartLogsTyped DEF ConsoleAnswer, RestTyped
  <2>4. Idle \in FlowStates /\ FlowKnows(Idle)
    BY DEF FlowStates, FlowKnows, Idle
  <2>. QED  BY <1>5, <2>3, <2>4, FlowStep DEF ConsoleAnswer
<1>. QED  BY <1>2, <1>3, <1>4, <1>5 DEF ConsoleNext

(* Steps of the list, the tabs and the actions keep the inductive invariant. *)
LEMMA ListNextStep == IInv /\ ListNext => IInv'
<1> SUFFICES ASSUME IInv, ListNext PROVE IInv'
  OBVIOUS
<1> USE BoundsAssumption DEF rowVars, consoleVars, viewVars
<1>1. RestTyped /\ listed \subseteq Servers /\ pane.view \in Tabs \cup {"none"}
  BY DEF IInv, TypeOK, RestTyped, Panes
<1>2. ActiveServerTab \in Tabs
  BY <1>1 DEF ActiveServerTab, Tabs
<1>3. Idle \in FlowStates /\ FlowKnows(Idle) /\ Reload \in FlowStates /\ FlowKnows(Reload)
  BY DEF FlowStates, FlowKnows, Idle, Reload
<1>4. \A f \in Flows : flows[f] \in FlowStates /\ FlowKnows(flows[f])
  BY DEF IInv, TypeOK, FlowsKnow
<1>5. ASSUME NEW f \in Flows, ReadServers(f) PROVE IInv'
  <2> DEFINE flow == [Reload EXCEPT !.read = TRUE, !.seen = rows]
  <2>1. flow \in FlowStates /\ FlowKnows(flow) /\ RestTyped'
    BY <1>1, <1>5 DEF ReadServers, RestTyped, FlowStates, FlowKnows, Reload
  <2>. QED  BY <1>5, <2>1, FlowStep DEF ReadServers
<1>6. ASSUME NEW f \in Flows, RenderServers(f) PROVE IInv'
  <2>1. flows[f].seen \subseteq Servers
    BY <1>4, <1>6, FlowFields DEF RenderServers
  <2>2. /\ clicks' \in 0 .. MaxClicks /\ errors' \in 0 .. MaxErrors /\ raced' \in BOOLEAN
        /\ listed' \subseteq Servers /\ UNCHANGED <<fileVars, rowVars>>
    BY <1>1, <1>6, <2>1 DEF RenderServers, RestTyped
  <2>3. CASE Becomes(f, Idle) /\ UNCHANGED <<selectionVars, pane, timerVars, consoleVars>>
    <3>1. /\ flows' \in [Flows -> FlowStates]
          /\ flows'[f] = Idle
          /\ \A g \in Flows : g # f => flows'[g] = flows[g]
      BY <1>3, <2>3, BecomesTyped DEF IInv, TypeOK
    <3>2. TypeOK'
      BY <2>2, <2>3, <3>1 DEF IInv, TypeOK, selectionVars, timerVars, fileVars
    <3>3. FlowsKnow'
      BY <1>3, <1>4, <2>3, <3>1 DEF FlowsKnow, FlowKnows, selectionVars
    <3>4. PaneKnows' /\ ConsoleIsSelected' /\ FilesFollowGlobals' /\ OneInterval'
      BY <2>2, <2>3 DEF IInv, PaneKnows, ConsoleIsSelected, FilesFollowGlobals, OneInterval,
                        selectionVars, timerVars, fileVars
    <3>. QED  BY <3>2, <3>3, <3>4 DEF IInv
  <2>4. ASSUME NEW s \in Kept(flows[f].seen), SelectServer(s, f) PROVE IInv'
    <3>1. s \in Servers
      BY <2>1 DEF Kept
    <3>. QED  BY <1>2, <2>2, <2>4, <3>1, RenderStep DEF SelectServer
  <2>. QED  BY <1>6, <2>3, <2>4 DEF RenderServers
<1>7. ASSUME NEW f \in Flows, RunServerAction(f) PROVE IInv'
  <2>1. selectedServer \in Servers /\ RestTyped'
    BY <1>1, <1>7 DEF RunServerAction, RestTyped, Click, IInv, TypeOK
  <2> DEFINE act == [op |-> "action", server |-> selectedServer]
             del == [op |-> "delete", server |-> selectedServer, cmd |-> "queued"]
  <2>2. act \in FlowStates /\ FlowKnows(act) /\ del \in FlowStates /\ FlowKnows(del)
    BY <2>1, NoneAssumption DEF FlowStates, FlowKnows
  <2>. QED  BY <1>7, <2>1, <2>2, FlowStep DEF RunServerAction
<1>8. ASSUME NEW f \in Flows, HostDeletes(f) PROVE IInv'
  <2> DEFINE flow == [flows[f] EXCEPT !.cmd = "done"]
  <2>1. /\ flows[f].server \in Servers
        /\ flow = [op |-> "delete", server |-> flows[f].server, cmd |-> "done"]
    BY <1>4, <1>8, FlowFields DEF HostDeletes
  <2>2. flow \in FlowStates
    BY <2>1 DEF FlowStates
  <2>3. FlowKnows(flow)
    BY <1>4, <1>8, <2>1 DEF HostDeletes, FlowKnows
  <2>4. RestTyped'
    BY <1>1, <1>8, <2>1 DEF HostDeletes, RestTyped
  <2>. QED  BY <1>8, <2>2, <2>3, <2>4, FlowStep DEF HostDeletes
<1>9. ASSUME NEW f \in Flows, ActionAnswer(f) PROVE IInv'
  <2>1. RestTyped'
    BY <1>1, <1>9 DEF ActionAnswer, RestTyped
  <2>. QED  BY <1>3, <1>9, <2>1, FlowStep DEF ActionAnswer
<1>10. ASSUME NEW f \in Flows, CreateServerAnswer(f) PROVE IInv'
  <2>1. flows[f].server \in Servers
    BY <1>4, <1>10, FlowFields DEF CreateServerAnswer
  <2>2. RestTyped'
    BY <1>1, <1>10, <2>1 DEF CreateServerAnswer, RestTyped
  <2>. QED  BY <1>3, <1>10, <2>2, FlowStep DEF CreateServerAnswer
<1>11. ASSUME NEW f \in Flows, NEW s \in Servers, ClickServer(s, f) PROVE IInv'
  BY <1>1, <1>2, <1>11, RenderStep DEF ClickServer, SelectServer, RestTyped, Click
<1>12. ASSUME NEW f \in Flows, NEW s \in Servers, CreateServer(s, f) PROVE IInv'
  <2> DEFINE flow == [op |-> "createServer", server |-> s]
  <2>1. flow \in FlowStates /\ FlowKnows(flow) /\ RestTyped'
    BY <1>1, <1>12 DEF CreateServer, RestTyped, Click, FlowStates, FlowKnows
  <2>. QED  BY <1>12, <2>1, FlowStep DEF CreateServer
<1>13. ASSUME NEW f \in Flows, NEW view \in Tabs, ClickTab(view, f) PROVE IInv'
  <2>1. selectedServer \in Servers
    BY <1>13 DEF ClickTab, IInv, TypeOK
  <2>. QED  BY <1>1, <1>13, <2>1, RenderStep DEF ClickTab, RestTyped, Click, selectionVars
<1>14. ASSUME NEW s \in Servers, HostDeletesStray(s) \/ RowDeleted(s) PROVE IInv'
  <2>1. RestTyped'
    BY <1>1, <1>14 DEF HostDeletesStray, RowDeleted, RestTyped
  <2>. QED  BY <1>14, <2>1, ConsoleStep DEF HostDeletesStray, RowDeleted
<1>. QED  BY <1>5, <1>6, <1>7, <1>8, <1>9, <1>10, <1>11, <1>12, <1>13, <1>14 DEF ListNext

(* Steps of the file manager keep the inductive invariant. *)
LEMMA FileNextStep == IInv /\ FileNext => IInv'
<1> SUFFICES ASSUME IInv, NEW f \in Flows,
                    \/ \E d \in Directories : OpenDirectory(f, d)
                    \/ \E p \in Paths : OpenFile(f, p)
                    \/ \E n \in Names : CreateFile(f, n)
                    \/ ChangeOpenFile(f) \/ AddToDirectory(f)
                    \/ ListAnswer(f) \/ ReadAnswer(f) \/ ChangeAnswer(f) \/ SaveAnswer(f)
                    \/ HostFails(f) \/ RequestFails(f)
             PROVE  IInv'
  BY DEF FileNext
<1> USE BoundsAssumption DEF rowVars, consoleVars, viewVars
<1>1. RestTyped /\ currentDirectory \in Directories /\ selectedServer \in Servers \cup {None}
      /\ (selectedServer = None <=> pane.view = "none") /\ pane \in Panes
  BY DEF IInv, TypeOK, RestTyped
<1>2. (pane.view = "fichiers" => selectedServer \in Servers)
      /\ (pane.editor # None => selectedServer \in Servers)
  BY <1>1 DEF IInv, PaneKnows
<1>3. Idle \in FlowStates /\ FlowKnows(Idle)
  BY DEF FlowStates, FlowKnows, Idle
<1>4. flows[f] \in FlowStates /\ FlowKnows(flows[f])
  BY DEF IInv, TypeOK, FlowsKnow
<1>5. ASSUME selectedServer \in Servers
      PROVE  /\ \A d \in Directories : \A p \in Paths \cup {None} :
                  ListOf(selectedServer, d, p) \in FlowStates
                  /\ FlowKnows(ListOf(selectedServer, d, p))
             /\ \A p \in Paths : \A op \in {"read", "create"} :
                  [op |-> op, server |-> selectedServer, file |-> p] \in FlowStates
                  /\ FlowKnows([op |-> op, server |-> selectedServer, file |-> p])
  <2>1. selectedServer # None
    BY <1>5, NoneAssumption
  <2>2. ASSUME NEW d \in Directories, NEW p \in Paths \cup {None}
        PROVE  /\ ListOf(selectedServer, d, p) \in FlowStates
               /\ FlowKnows(ListOf(selectedServer, d, p))
    BY <1>5, <2>1, FlowKinds DEF FlowKnows, ListOf
  <2>3. ASSUME NEW p \in Paths, NEW op \in {"read", "create"}
        PROVE  /\ [op |-> op, server |-> selectedServer, file |-> p] \in FlowStates
               /\ FlowKnows([op |-> op, server |-> selectedServer, file |-> p])
    BY <1>5, <2>1 DEF FlowStates, FlowKnows
  <2>. QED  BY <2>2, <2>3
<1>6. ASSUME NEW d \in Directories, OpenDirectory(f, d) PROVE IInv'
  BY <1>1, <1>2, <1>5, <1>6, FlowStep DEF OpenDirectory, FilesOpen, RestTyped, Click
<1>7. ASSUME NEW p \in Paths, OpenFile(f, p) PROVE IInv'
  <2> DEFINE flow == [op |-> "read", server |-> selectedServer, file |-> p]
  <2>1. flow \in FlowStates /\ FlowKnows(flow)
    BY <1>2, <1>5, <1>7 DEF OpenFile, FilesOpen
  <2>2. RestTyped'
    BY <1>1, <1>7 DEF OpenFile, RestTyped, Click
  <2>3. Becomes(f, flow) /\ UNCHANGED <<viewVars, fileVars>>
    BY <1>7 DEF OpenFile
  <2>. QED  BY <2>1, <2>2, <2>3, FlowStep
<1>8. ASSUME NEW n \in Names, CreateFile(f, n) PROVE IInv'
  <2>1. JoinPath(currentDirectory, n) \in Paths
    BY <1>1, PathTyped
  <2> DEFINE flow == [op |-> "create", server |-> selectedServer,
                      file |-> JoinPath(currentDirectory, n)]
  <2>2. flow \in FlowStates /\ FlowKnows(flow)
    BY <1>2, <1>5, <1>8, <2>1 DEF CreateFile, FilesOpen
  <2>3. RestTyped'
    BY <1>1, <1>8 DEF CreateFile, RestTyped, Click
  <2>4. Becomes(f, flow) /\ UNCHANGED <<viewVars, fileVars>>
    BY <1>8 DEF CreateFile
  <2>. QED  BY <2>2, <2>3, <2>4, FlowStep
<1>9. CASE ChangeOpenFile(f)
  <2>1. selectedServer \in Servers /\ pane.editor.server \in Servers
        /\ (drifted \/ pane.editor.server = selectedServer)
    BY <1>1, <1>2, <1>9 DEF ChangeOpenFile, Panes, IInv, PaneKnows
  <2>2. \A op \in {"save", "change"} :
          LET flow == [op |-> op, server |-> selectedServer, origin |-> pane.editor.server]
          IN  flow \in FlowStates /\ FlowKnows(flow)
    BY <2>1, NoneAssumption DEF FlowStates, FlowKnows
  <2>3. RestTyped'
    BY <1>1, <1>9 DEF ChangeOpenFile, RestTyped, Click
  <2>. QED  BY <1>9, <2>2, <2>3, FlowStep DEF ChangeOpenFile
<1>10. CASE AddToDirectory(f)
  <2> DEFINE flow == [op |-> "change", server |-> selectedServer, origin |-> selectedServer]
  <2>1. flow \in FlowStates /\ FlowKnows(flow) /\ RestTyped'
    BY <1>1, <1>2, <1>10, NoneAssumption
       DEF AddToDirectory, FilesOpen, RestTyped, Click, FlowStates, FlowKnows
  <2>. QED  BY <1>10, <2>1, FlowStep DEF AddToDirectory
<1>11. ASSUME flows[f].op = "list", AfterListing(f)
       PROVE  \E flow \in FlowStates : Becomes(f, flow) /\ FlowKnows(flow)
                 /\ flow.op \in {"idle", "read"}
                 /\ (flow.op = "read" => flow.server = selectedServer)
  <2>1. selectedServer \in Servers /\ flows[f].then \in Paths \cup {None}
    BY <1>1, <1>4, <1>11, FlowFields DEF FlowKnows
  <2>2. CASE flows[f].then = None
    BY <1>3, <1>11, <2>2 DEF AfterListing, Idle
  <2>3. CASE flows[f].then # None
    BY <1>5, <1>11, <2>1, <2>3 DEF AfterListing
  <2>. QED  BY <2>2, <2>3
<1>12. CASE ListAnswer(f)
  <2>1. flows[f].op = "list" /\ flows[f].dir \in Directories
    BY <1>4, <1>12, FlowFields DEF ListAnswer
  <2>2. PICK flow \in FlowStates : Becomes(f, flow) /\ FlowKnows(flow)
    BY <1>11, <1>12, <2>1 DEF ListAnswer
  <2>3. /\ flows' \in [Flows -> FlowStates]
        /\ flows'[f] = flow
        /\ \A g \in Flows : g # f => flows'[g] = flows[g]
    BY <2>2, BecomesTyped DEF IInv, TypeOK
  <2>4. /\ pane' \in Panes /\ pane'.view = pane.view /\ pane'.console = pane.console
        /\ IF pane.view = "fichiers"
             THEN pane'.editor = None /\ pane'.breadcrumb = flows[f].dir
             ELSE pane' = pane
    BY <1>1, <1>12, <2>1 DEF ListAnswer, FilesOpen, Panes
  <2>5. TypeOK'
    BY <1>12, <2>1, <2>3, <2>4 DEF ListAnswer, IInv, TypeOK, selectionVars, timerVars
  <2>6. FlowsKnow'
    BY <1>12, <2>2, <2>3 DEF ListAnswer, IInv, FlowsKnow, FlowKnows, selectionVars
  <2>7. PaneKnows' /\ ConsoleIsSelected' /\ FilesFollowGlobals' /\ OneInterval'
    BY <1>12, <2>4 DEF ListAnswer, IInv, PaneKnows, ConsoleIsSelected, FilesFollowGlobals,
                       OneInterval, selectionVars, timerVars
  <2>. QED  BY <2>5, <2>6, <2>7 DEF IInv
<1>13. CASE ReadAnswer(f)
  <2>1. /\ flows[f].op = "read" /\ flows[f].server \in Servers /\ flows[f].file \in Paths
        /\ (drifted \/ flows[f].server = selectedServer)
    BY <1>4, <1>13, FlowFields DEF ReadAnswer, FlowKnows
  <2>2. /\ flows' \in [Flows -> FlowStates]
        /\ flows'[f] = Idle
        /\ \A g \in Flows : g # f => flows'[g] = flows[g]
    BY <1>3, <1>13, BecomesTyped DEF ReadAnswer, IInv, TypeOK
  <2>3. /\ pane' \in Panes /\ pane'.view = pane.view /\ pane'.console = pane.console
        /\ pane'.listing = pane.listing /\ pane'.breadcrumb = pane.breadcrumb
        /\ IF pane.view = "fichiers"
             THEN pane'.editor = [server |-> flows[f].server, file |-> flows[f].file]
             ELSE pane' = pane
    BY <1>1, <1>13, <2>1 DEF ReadAnswer, FilesOpen, Panes
  <2>4. TypeOK'
    BY <1>13, <2>1, <2>2, <2>3 DEF ReadAnswer, IInv, TypeOK, selectionVars, timerVars
  <2>5. FlowsKnow'
    BY <1>3, <1>13, <2>2 DEF ReadAnswer, IInv, FlowsKnow, FlowKnows, selectionVars
  <2>6. /\ currentFile' = flows[f].file
        /\ UNCHANGED <<selectedServer, drifted, consoleRefreshTimer, intervals, currentDirectory>>
    BY <1>13 DEF ReadAnswer, selectionVars, timerVars
  <2>7. PaneKnows'
    BY <2>1, <2>3, <2>6 DEF IInv, PaneKnows
  <2>8. ConsoleIsSelected' /\ OneInterval'
    BY <2>3, <2>6 DEF IInv, ConsoleIsSelected, OneInterval
  <2>9. FilesFollowGlobals'
    BY <2>3, <2>6 DEF IInv, PaneKnows, FilesFollowGlobals
  <2>. QED  BY <2>4, <2>5, <2>7, <2>8, <2>9 DEF IInv
<1>14. CASE ChangeAnswer(f)
  <2>1. selectedServer \in Servers
    BY <1>1, <1>4, <1>14 DEF ChangeAnswer, FlowKnows
  <2> DEFINE p == IF flows[f].op = "create" THEN flows[f].file ELSE None
             flow == ListOf(selectedServer, currentDirectory, p)
  <2>2. p \in Paths \cup {None}
    BY <1>4, FlowFields
  <2>3. flow \in FlowStates /\ FlowKnows(flow)
    BY <1>1, <1>5, <2>1, <2>2
  <2>4. RestTyped'
    BY <1>1, <1>14 DEF ChangeAnswer, RestTyped
  <2>. QED  BY <1>14, <2>3, <2>4, FlowStep DEF ChangeAnswer
<1>15. CASE SaveAnswer(f)
  BY <1>1, <1>3, <1>15, FlowStep DEF SaveAnswer, RestTyped
<1>16. CASE HostFails(f) \/ RequestFails(f)
  <2>1. PICK flow \in FlowStates : Becomes(f, flow) /\ FlowKnows(flow)
    BY <1>3, <1>11, <1>16 DEF HostFails, RequestFails
  <2>2. RestTyped'
    <3>1. flows[f].op = "createServer" => flows[f].server \in Servers
      BY <1>4, FlowFields
    <3>. QED  BY <1>1, <1>16, <3>1 DEF HostFails, RequestFails, RestTyped, Fault
  <2>3. UNCHANGED <<viewVars, fileVars>>
    BY <1>16 DEF HostFails, RequestFails
  <2>. QED  BY <2>1, <2>2, <2>3, FlowStep
<1>. QED  BY <1>6, <1>7, <1>8, <1>9, <1>10, <1>12, <1>13, <1>14, <1>15, <1>16

(* Every step keeps the inductive invariant. *)
LEMMA StepIInv == IInv /\ [Next]_vars => IInv'
<1> SUFFICES ASSUME IInv, [Next]_vars PROVE IInv'
  OBVIOUS
<1>1. CASE UNCHANGED vars
  <2>1. RestTyped'
    BY <1>1 DEF vars, rowVars, consoleVars, RestTyped, IInv, TypeOK
  <2>. QED  BY <1>1, <2>1, ConsoleStep DEF vars, viewVars
<1>. QED  BY <1>1, ConsoleNextStep, ListNextStep, FileNextStep DEF Next

(* The inductive invariant holds throughout. *)
LEMMA Invariant == Spec => []IInv
BY InitIInv, StepIInv, PTL DEF Spec

-------------------------------------------------------------------------------
(* The list against the rows. *)

(* A handler that has still to load the list: after a delete that was COMPLETED, it will. *)
Loads(f) == flows[f] = Reload \/ (flows[f].op = "delete" /\ flows[f].cmd = "done")

BringsList(f) == Loads(f) \/ (flows[f].op = "reload" /\ flows[f].seen = rows)

(* While the row of a completed delete stands, a handler has still to load the list; and    *)
(* what is listed or about to be rendered is true, or a handler under way brings it.        *)
ListCatchesUp ==
  ~raced /\ errors = 0 =>
    /\ strays = {}
    /\ unsettled # {} => \E f \in Flows : Loads(f)
    /\ \/ /\ listed = rows
          /\ \A f \in Flows : flows[f].op = "reload" => flows[f].seen = rows
       \/ \E f \in Flows : BringsList(f)

(* At first the list is still to be loaded. *)
LEMMA InitListCatchesUp == Init => ListCatchesUp
BY DEF Init, ListCatchesUp, BringsList, Loads

(* A handler that does not load begins, goes on or ends, or none turns. *)
LEMMA NothingBrought ==
  ASSUME ListCatchesUp, UNCHANGED <<rowVars, listed, raced, errors>>,
         \A f \in Flows :
           \/ flows'[f] = flows[f]
           \/ flows[f].op # "reload" /\ ~Loads(f) /\ flows'[f].op # "reload"
  PROVE  ListCatchesUp'
<1>1. ASSUME NEW f \in Flows
      PROVE  /\ Loads(f) => Loads(f)'
             /\ BringsList(f) => BringsList(f)'
             /\ flows'[f].op = "reload" => flows'[f] = flows[f]
  BY DEF Loads, BringsList, rowVars
<1>. QED  BY <1>1 DEF ListCatchesUp, rowVars

(* A handler that has still to load the list makes up for any change of the rows. *)
LEMMA LoadBegins ==
  ASSUME IInv, ListCatchesUp, UNCHANGED <<strays, raced, errors>>,
         NEW f \in Flows, NEW flow \in FlowStates, Becomes(f, flow),
         flow = Reload \/ (flow.op = "delete" /\ flow.cmd = "done")
  PROVE  ListCatchesUp'
<1>1. flows'[f] = flow
  BY BecomesTyped DEF IInv, TypeOK
<1>2. Loads(f)' /\ BringsList(f)'
  BY <1>1 DEF Loads, BringsList
<1>. QED  BY <1>2 DEF ListCatchesUp

(* A handler that renders a tab does not load. *)
LEMMA RenderBringsNothing ==
  ASSUME IInv, NEW f \in Flows, NEW s \in Servers, NEW view \in Tabs, RenderServerPane(f, s, view)
  PROVE  /\ flows'[f].op # "reload" /\ ~Loads(f)'
         /\ \A g \in Flows : g # f => flows'[g] = flows[g]
<1> DEFINE flow == IF view = "fichiers" THEN ListOf(s, currentDirectory, None) ELSE Idle
<1>1. flow \in FlowStates /\ flow.op \in {"idle", "list"}
  <2>1. ListOf(s, currentDirectory, None) \in FlowStates /\ Idle \in FlowStates
    BY FlowKinds DEF IInv, TypeOK
  <2>2. ListOf(s, currentDirectory, None).op = "list" /\ Idle.op = "idle"
    BY DEF ListOf, Idle
  <2>. QED  BY <2>1, <2>2
<1>2. Becomes(f, flow)
  BY DEF RenderServerPane
<1> HIDE DEF flow
<1>3. flows'[f] = flow /\ \A g \in Flows : g # f => flows'[g] = flows[g]
  BY <1>1, <1>2, BecomesTyped DEF IInv, TypeOK
<1>. QED  BY <1>1, <1>3 DEF Loads, Reload

(* renderServers: alone, it lists what is there or leaves it to a delete that is done. *)
LEMMA RenderServersCatchesUp ==
  ASSUME IInv, ListCatchesUp, NEW f \in Flows, RenderServers(f)
  PROVE  ListCatchesUp'
<1> SUFFICES ASSUME ~raced', errors' = 0
             PROVE  ListCatchesUp'
  BY DEF ListCatchesUp
<1>1. flows[f] \in FlowStates /\ flows[f].op = "reload" /\ flows[f].read
  BY DEF RenderServers, IInv, TypeOK
<1>2. /\ UNCHANGED <<rows, unsettled, strays>> /\ errors = 0 /\ ~raced
      /\ listed' = flows[f].seen
      /\ \A g \in Flows : g # f => flows[g].op # "reload"
  BY DEF RenderServers, rowVars
<1>3. /\ flows'[f].op # "reload"
      /\ \A g \in Flows : g # f => flows'[g] = flows[g]
  <2>1. CASE Becomes(f, Idle)
    BY <2>1, BecomesTyped DEF IInv, TypeOK, FlowStates, Idle
  <2>2. ASSUME NEW s \in Kept(flows[f].seen), SelectServer(s, f)
        PROVE  /\ flows'[f].op # "reload"
               /\ \A g \in Flows : g # f => flows'[g] = flows[g]
    <3>1. s \in Servers
      BY <1>1, FlowFields DEF Kept
    <3>2. ActiveServerTab \in Tabs
      BY DEF ActiveServerTab, Tabs, IInv, TypeOK, Panes
    <3>. QED  BY <2>2, <3>1, <3>2, RenderBringsNothing DEF SelectServer
  <2>. QED  BY <2>1, <2>2 DEF RenderServers
<1>4. ~Loads(f)
  BY <1>1 DEF Loads, Reload
<1>5. \A g \in Flows : Loads(g) => Loads(g)'
  BY <1>3, <1>4 DEF Loads
<1>6. \A g \in Flows : flows'[g].op # "reload"
  BY <1>2, <1>3
<1>7. listed' = rows' \/ \E g \in Flows : BringsList(g)'
  <2>1. CASE flows[f].seen = rows
    BY <1>2, <2>1
  <2>2. CASE flows[f].seen # rows
    <3>1. PICK g \in Flows : BringsList(g)
      BY <1>1, <1>2, <2>2 DEF ListCatchesUp
    <3>2. Loads(g)
      BY <1>2, <2>2, <3>1 DEF BringsList
    <3>. QED  BY <1>5, <3>2 DEF BringsList
  <2>. QED  BY <2>1, <2>2
<1>. QED  BY <1>2, <1>5, <1>6, <1>7 DEF ListCatchesUp

(* GET /servers: read while the row of a completed delete stands, it may be old. *)
LEMMA ReadServersCatchesUp ==
  ASSUME IInv, ListCatchesUp, NEW f \in Flows, ReadServers(f)
  PROVE  ListCatchesUp'
<1> SUFFICES ASSUME ~raced', errors' = 0
             PROVE  ListCatchesUp'
  BY DEF ListCatchesUp
<1> DEFINE flow == [Reload EXCEPT !.read = TRUE, !.seen = rows]
<1>1. flow \in FlowStates /\ flow.op = "reload" /\ flow.seen = rows
  BY DEF FlowStates, Reload, IInv, TypeOK
<1>2. Becomes(f, flow) /\ UNCHANGED <<rows, unsettled, strays>> /\ unsettled = {}
        /\ errors = 0 /\ ~raced
  BY DEF ReadServers, rowVars
<1> HIDE DEF flow
<1>3. flows'[f] = flow
  BY <1>1, <1>2, BecomesTyped DEF IInv, TypeOK
<1>4. BringsList(f)'
  BY <1>1, <1>2, <1>3 DEF BringsList
<1>. QED  BY <1>2, <1>4 DEF ListCatchesUp

(* The row of a completed delete goes: a handler has still to load the list. *)
LEMMA RowDeletedCatchesUp ==
  ASSUME ListCatchesUp, NEW s \in Servers, HostDeletesStray(s) \/ RowDeleted(s)
  PROVE  ListCatchesUp'
<1> SUFFICES ASSUME ~raced', errors' = 0
             PROVE  ListCatchesUp'
  BY DEF ListCatchesUp
<1>1. ~raced /\ errors = 0 /\ flows' = flows
  BY DEF HostDeletesStray, RowDeleted
<1>2. RowDeleted(s)
  BY <1>1 DEF ListCatchesUp, HostDeletesStray
<1>3. PICK f \in Flows : Loads(f)
  BY <1>1, <1>2 DEF ListCatchesUp, RowDeleted
<1>4. Loads(f)' /\ BringsList(f)'
  BY <1>1, <1>3 DEF Loads, BringsList
<1>. QED  BY <1>1, <1>2, <1>4 DEF ListCatchesUp, RowDeleted

(* Handlers whose step does not load the list. *)
LEMMA OtherCatchesUp ==
  ASSUME IInv, ListCatchesUp,
         \/ ConsoleNext
         \/ \E f \in Flows :
              \/ RunServerAction(f)
              \/ \E s \in Servers : ClickServer(s, f) \/ CreateServer(s, f)
              \/ \E view \in Tabs : ClickTab(view, f)
         \/ FileNext
  PROVE  ListCatchesUp'
<1> USE DEF viewVars
<1>1. Idle.op = "idle" /\ Idle # Reload /\ Idle \in FlowStates
  BY DEF Idle, Reload, FlowStates
<1>2. ASSUME NEW f \in Flows, NEW flow \in FlowStates, Becomes(f, flow),
             flows[f].op # "reload", ~Loads(f), flow.op # "reload",
             UNCHANGED <<rowVars, listed, raced, errors>>
      PROVE  ListCatchesUp'
  <2>1. flows'[f] = flow /\ \A g \in Flows : g # f => flows'[g] = flows[g]
    BY <1>2, BecomesTyped DEF IInv, TypeOK
  <2>. QED  BY <1>2, <2>1, NothingBrought
<1>3. CASE ConsoleNext
  <2>1. CASE LogsError
    BY <2>1, BoundsAssumption DEF LogsError, Fault, ListCatchesUp, IInv, TypeOK
  <2>2. CASE UNCHANGED <<rowVars, listed, raced, errors, flows>>
    BY <2>2, NothingBrought
  <2>3. ASSUME NEW f \in Flows, SendConsole(f) PROVE ListCatchesUp'
    <3> DEFINE flow == [op |-> "console", server |-> selectedServer]
    <3>1. selectedServer \in Servers
      BY <2>3 DEF SendConsole, IInv, TypeOK
    <3>2. flow \in FlowStates /\ flow.op = "console"
      BY <3>1, FlowKinds, RootAssumption
    <3>3. Becomes(f, flow) /\ flows[f].op # "reload" /\ ~Loads(f)
            /\ UNCHANGED <<rowVars, listed, raced, errors>>
      BY <1>1, <2>3 DEF SendConsole, Loads
    <3> HIDE DEF flow
    <3>. QED  BY <1>2, <3>2, <3>3
  <2>4. ASSUME NEW f \in Flows, ConsoleAnswer(f) PROVE ListCatchesUp'
    <3>1. flows[f].op # "reload" /\ ~Loads(f) /\ Becomes(f, Idle)
            /\ UNCHANGED <<rowVars, listed, raced, errors>>
      BY <2>4 DEF ConsoleAnswer, Loads, Reload
    <3>. QED  BY <1>1, <1>2, <3>1
  <2>. QED  BY <1>3, <2>1, <2>2, <2>3, <2>4
            DEF ConsoleNext, LogsAnswer, ConsoleTick, RefreshLogs, ClearConsole
<1>4. ASSUME NEW f \in Flows, RunServerAction(f) PROVE ListCatchesUp'
  <2>1. selectedServer \in Servers
    BY <1>4 DEF RunServerAction, IInv, TypeOK
  <2> DEFINE act == [op |-> "action", server |-> selectedServer]
             del == [op |-> "delete", server |-> selectedServer, cmd |-> "queued"]
  <2>2. act \in FlowStates /\ act.op = "action" /\ del \in FlowStates /\ del.op = "delete"
    BY <2>1, FlowKinds, RootAssumption
  <2>3. (Becomes(f, act) \/ Becomes(f, del)) /\ flows[f].op # "reload" /\ ~Loads(f)
          /\ UNCHANGED <<rowVars, listed, raced, errors>>
    BY <1>1, <1>4 DEF RunServerAction, Loads
  <2> HIDE DEF act, del
  <2>. QED  BY <1>2, <2>2, <2>3
<1>5. ASSUME NEW f \in Flows, NEW s \in Servers, CreateServer(s, f) PROVE ListCatchesUp'
  <2> DEFINE flow == [op |-> "createServer", server |-> s]
  <2>1. flow \in FlowStates /\ flow.op = "createServer"
    BY FlowKinds, RootAssumption
  <2>2. Becomes(f, flow) /\ flows[f].op # "reload" /\ ~Loads(f)
          /\ UNCHANGED <<rowVars, listed, raced, errors>>
    BY <1>1, <1>5 DEF CreateServer, Loads
  <2> HIDE DEF flow
  <2>. QED  BY <1>2, <2>1, <2>2
<1>6. ASSUME NEW f \in Flows, NEW s \in Servers, NEW view \in Tabs, RenderServerPane(f, s, view),
             flows[f] = Idle, UNCHANGED <<rowVars, listed, raced, errors>>
      PROVE  ListCatchesUp'
  <2>1. flows[f].op # "reload" /\ ~Loads(f)
    BY <1>1, <1>6 DEF Loads
  <2>. QED  BY <1>6, <2>1, RenderBringsNothing, NothingBrought
<1>7. ASSUME NEW f \in Flows,
             \/ \E s \in Servers : ClickServer(s, f)
             \/ \E view \in Tabs : ClickTab(view, f)
      PROVE  ListCatchesUp'
  <2>1. ActiveServerTab \in Tabs
    BY DEF ActiveServerTab, Tabs, IInv, TypeOK, Panes
  <2>2. ASSUME NEW s \in Servers, ClickServer(s, f) PROVE ListCatchesUp'
    BY <1>6, <2>1, <2>2 DEF ClickServer, SelectServer
  <2>3. ASSUME NEW view \in Tabs, ClickTab(view, f) PROVE ListCatchesUp'
    <3>1. selectedServer \in Servers
      BY <2>3 DEF ClickTab, IInv, TypeOK
    <3>. QED  BY <1>6, <2>3, <3>1 DEF ClickTab
  <2>. QED  BY <1>7, <2>2, <2>3
<1>8. ASSUME NEW f \in Flows, RequestFails(f) PROVE ListCatchesUp'
  BY <1>8, BoundsAssumption DEF RequestFails, Fault, ListCatchesUp, IInv, TypeOK
<1>9. ASSUME NEW f \in Flows,
             \/ \E d \in Directories : OpenDirectory(f, d)
             \/ \E p \in Paths : OpenFile(f, p)
             \/ \E n \in Names : CreateFile(f, n)
             \/ ChangeOpenFile(f) \/ AddToDirectory(f)
             \/ ListAnswer(f) \/ ReadAnswer(f) \/ ChangeAnswer(f) \/ SaveAnswer(f)
             \/ HostFails(f)
      PROVE  ListCatchesUp'
  <2>1. /\ UNCHANGED <<rowVars, listed, raced, errors>>
        /\ flows[f].op # "reload" /\ ~Loads(f)
    <3>1. CASE \/ \E d \in Directories : OpenDirectory(f, d)
               \/ \E p \in Paths : OpenFile(f, p)
               \/ \E n \in Names : CreateFile(f, n)
      BY <1>1, <3>1 DEF OpenDirectory, OpenFile, CreateFile, Loads
    <3>2. CASE ChangeOpenFile(f) \/ AddToDirectory(f)
      BY <1>1, <3>2 DEF ChangeOpenFile, AddToDirectory, Loads
    <3>3. CASE ListAnswer(f) \/ ReadAnswer(f) \/ ChangeAnswer(f) \/ SaveAnswer(f)
      BY <3>3 DEF ListAnswer, ReadAnswer, ChangeAnswer, SaveAnswer, Loads, Reload
    <3>4. CASE HostFails(f)
      BY <3>4 DEF HostFails, Loads, Reload
    <3>. QED  BY <1>9, <3>1, <3>2, <3>3, <3>4
  <2>2. /\ flows'[f].op # "reload"
        /\ \A g \in Flows : g # f => flows'[g] = flows[g]
    <3>1. flows \in [Flows -> FlowStates]
      BY DEF IInv, TypeOK
    <3>2. CASE AfterListing(f)
      BY <3>1, <3>2 DEF AfterListing, Becomes, Idle
    <3>3. CASE HostFails(f) \/ ReadAnswer(f) \/ SaveAnswer(f) \/ ListAnswer(f)
      BY <3>1, <3>2, <3>3 DEF HostFails, ReadAnswer, SaveAnswer, ListAnswer, Becomes, Idle
    <3>4. CASE \/ \E d \in Directories : OpenDirectory(f, d)
               \/ \E p \in Paths : OpenFile(f, p)
               \/ \E n \in Names : CreateFile(f, n)
      BY <3>1, <3>4 DEF OpenDirectory, OpenFile, CreateFile, ListOf, Becomes
    <3>5. CASE ChangeOpenFile(f) \/ AddToDirectory(f) \/ ChangeAnswer(f)
      BY <3>1, <3>5 DEF ChangeOpenFile, AddToDirectory, ChangeAnswer, ListOf, Becomes
    <3>. QED  BY <1>9, <3>3, <3>4, <3>5
  <2>. QED  BY <2>1, <2>2, NothingBrought
<1>. QED  BY <1>3, <1>4, <1>5, <1>7, <1>8, <1>9 DEF FileNext

(* Every step leaves the list true or something under way that will make it so. *)
LEMMA StepListCatchesUp ==
  ASSUME IInv, ListCatchesUp, [Next]_vars
  PROVE  ListCatchesUp'
<1>1. ASSUME NEW f \in Flows, HostDeletes(f) PROVE ListCatchesUp'
  <2> DEFINE flow == [flows[f] EXCEPT !.cmd = "done"]
  <2>1. flow = [op |-> "delete", server |-> flows[f].server, cmd |-> "done"]
          /\ flows[f].server \in Servers
    BY <1>1, FlowFields DEF HostDeletes, IInv, TypeOK
  <2>2. flow \in FlowStates /\ flow.op = "delete" /\ flow.cmd = "done"
    BY <2>1, FlowKinds, RootAssumption
  <2>3. Becomes(f, flow) /\ UNCHANGED <<strays, raced, errors>>
    BY <1>1 DEF HostDeletes
  <2> HIDE DEF flow
  <2>. QED  BY <2>2, <2>3, LoadBegins
<1>2. ASSUME NEW f \in Flows, ActionAnswer(f) \/ CreateServerAnswer(f) PROVE ListCatchesUp'
  <2>1. Reload \in FlowStates
    BY DEF Reload, FlowStates
  <2>. QED  BY <1>2, <2>1, LoadBegins DEF ActionAnswer, CreateServerAnswer, rowVars
<1>3. CASE ListNext
  BY <1>1, <1>2, <1>3, ReadServersCatchesUp, RenderServersCatchesUp, RowDeletedCatchesUp,
     OtherCatchesUp DEF ListNext
<1>4. CASE UNCHANGED vars
  BY <1>4, NothingBrought DEF vars, viewVars
<1>. QED  BY <1>3, <1>4, OtherCatchesUp DEF Next

-------------------------------------------------------------------------------
(* The page's variables keep their types; a tab is open exactly when a server is selected.  *)
THEOREM TypeCorrect == Spec => []TypeOK
<1>1. IInv => TypeOK
  BY DEF IInv
<1>. QED  BY <1>1, Invariant, PTL

(* The console never shows the logs of a server that is not selected, in whatever order     *)
(* clicks and answers come.                                                                 *)
THEOREM ConsoleOfSelected == Spec => []ConsoleIsSelected
<1>1. IInv => ConsoleIsSelected
  BY DEF IInv
<1>. QED  BY <1>1, Invariant, PTL

(* The editor is of currentFile and the list of currentDirectory, in whatever order the     *)
(* answers of openFile and openDirectory come.                                              *)
THEOREM GlobalsAreShown == Spec => []FilesFollowGlobals
<1>1. IInv => FilesFollowGlobals
  BY DEF IInv
<1>. QED  BY <1>1, Invariant, PTL

(* No interval of the console is ever left behind.                                          *)
THEOREM OneIntervalRuns == Spec => []OneInterval
<1>1. IInv => OneInterval
  BY DEF IInv
<1>. QED  BY <1>1, Invariant, PTL

(* As long as no other server is selected while a file is being opened, a file is saved,    *)
(* renamed and deleted on the server it came from.                                          *)
THEOREM FilesStayHome == Spec => []FileActionsStayHome
<1>1. IInv => FileActionsStayHome
  BY DEF IInv, FlowsKnow, FlowKnows, FileActionsStayHome
<1>. QED  BY <1>1, Invariant, PTL

(* renderServers and the handlers that load the list again: however many overlap, once all  *)
(* have ended and no request failed, the list is the organization's servers, or a list was  *)
(* read before a completed delete reached its row, or two loads overlapped.                 *)
THEOREM ListsAreTrue == Spec => []ListIsTrue
<1>1. ListCatchesUp => ListIsTrue
  <2>1. \A f \in Flows : flows[f] = Idle => ~BringsList(f)
    BY DEF BringsList, Loads, Idle, Reload
  <2>. QED  BY <2>1 DEF ListCatchesUp, ListIsTrue
<1>2. IInv /\ ListCatchesUp /\ [Next]_vars => ListCatchesUp'
  BY StepListCatchesUp
<1>. QED  BY <1>1, <1>2, InitListCatchesUp, Invariant, PTL DEF Spec
===============================================================================
