---------------------------- MODULE ServerWorkspace ----------------------------
(***************************************************************************)
(* The servers page of the web console (assets/dashboard.js): the list of  *)
(* servers, the one selected, its console, its files and its actions.      *)
(*                                                                         *)
(* JavaScript runs one handler at a time, but every handler awaits         *)
(* commands that the agent on the node executes later.  What a handler     *)
(* read before an await (selectedServer, currentFile, the pane of the tab  *)
(* that was open) may have changed when it goes on.  A flow is one such    *)
(* handler between two awaits; its answer comes at any time.  The commands *)
(* of two flows may be queued in either order, so answers come in any      *)
(* order.                                                                  *)
(*                                                                         *)
(* The contents of files and of the console are left out; what matters is  *)
(* whose they are.  Whether the host succeeds is a choice.                 *)
(***************************************************************************)
EXTENDS Naturals, FiniteSets

CONSTANTS
  Servers,
  Directories,  \* directories of a server's volume
  Root,         \* "." in the code
  Names,        \* names of files
  Flows,        \* handlers that may be under way at once
  MaxClicks,    \* what the user does
  MaxErrors,    \* requests of the page that fail, or that it stops waiting for
  None

ASSUME RootAssumption == Root \in Directories
ASSUME NoneAssumption == None \notin Servers
ASSUME BoundsAssumption == MaxClicks \in Nat /\ MaxErrors \in Nat

VARIABLES
  (* the rows of the organization's servers *)
  rows,
  unsettled,            \* servers whose delete is COMPLETED and whose row is still there
  strays,               \* servers with a delete nobody waits for any more
  (* globals of the page *)
  selectedServer, currentDirectory, currentFile,
  consoleRefreshTimer,  \* whether it holds an interval
  consoleRequestRunning,
  (* the document *)
  listed,               \* servers in the list
  pane,
  intervals,            \* intervals the browser runs
  (* handlers that await an answer *)
  flows,
  logs,                 \* the server whose logs are being fetched
  (* bounds and history *)
  clicks, errors,
  raced,                \* a list was read before a completed delete reached its row, or
                        \* rendered while another was under way
  drifted               \* another server was selected while a file was being opened

rowVars == <<rows, unsettled, strays>>
fileVars == <<currentDirectory, currentFile>>
consoleVars == <<logs, consoleRequestRunning>>
timerVars == <<consoleRefreshTimer, intervals>>
selectionVars == <<selectedServer, drifted>>
viewVars == <<selectionVars, listed, pane, timerVars>>
vars == <<rowVars, viewVars, fileVars, consoleVars, flows, clicks, errors, raced>>

Tabs == {"console", "fichiers", "parametres"}

(* joinPath: a file's path is its directory and its name. *)
Paths == [dir : Directories, name : Names]
JoinPath(base, name) == [dir |-> base, name |-> name]

Idle == [op |-> "idle"]
Reload == [op |-> "reload", read |-> FALSE, seen |-> {}]
ListOf(s, d, p) == [op |-> "list", server |-> s, dir |-> d, then |-> p]

(* The kinds of flow.  origin is the server whose file the user acted on. *)
FlowStates ==
  {Idle}
  \cup [op : {"reload"}, read : BOOLEAN, seen : SUBSET Servers]
  \cup [op : {"list"}, server : Servers, dir : Directories, then : Paths \cup {None}]
  \cup [op : {"read", "create"}, server : Servers, file : Paths]
  \cup [op : {"save", "change"}, server : Servers, origin : Servers]
  \cup [op : {"console", "createServer", "action"}, server : Servers]
  \cup [op : {"delete"}, server : Servers, cmd : {"queued", "done"}]

(* The pane of the open tab: a tab of its own before any server is selected. *)
Panes ==
  [view : Tabs \cup {"none"}, console : Servers \cup {None}, listing : BOOLEAN,
   breadcrumb : Directories, editor : {None} \cup [server : Servers, file : Paths]]

EmptyPane(view) ==
  [view |-> view, console |-> None, listing |-> FALSE, breadcrumb |-> Root, editor |-> None]

TypeOK ==
  /\ rows \subseteq Servers
  /\ unsettled \subseteq Servers
  /\ strays \subseteq Servers
  /\ selectedServer \in Servers \cup {None}
  /\ currentDirectory \in Directories
  /\ currentFile \in Paths \cup {None}
  /\ consoleRefreshTimer \in BOOLEAN
  /\ consoleRequestRunning \in BOOLEAN
  /\ listed \subseteq Servers
  /\ pane \in Panes
  /\ intervals \in Nat
  /\ flows \in [Flows -> FlowStates]
  /\ logs \in Servers \cup {None}
  /\ clicks \in 0 .. MaxClicks
  /\ errors \in 0 .. MaxErrors
  /\ raced \in BOOLEAN
  /\ drifted \in BOOLEAN
  /\ (selectedServer = None) <=> (pane.view = "none")

(* The page starts with one loadUserDashboard under way. *)
Init ==
  /\ rows \in SUBSET Servers
  /\ unsettled = {}
  /\ strays = {}
  /\ selectedServer = None
  /\ currentDirectory = Root
  /\ currentFile = None
  /\ consoleRefreshTimer = FALSE
  /\ consoleRequestRunning = FALSE
  /\ listed = {}
  /\ pane = EmptyPane("none")
  /\ intervals = 0
  /\ \E f \in Flows : flows = [g \in Flows |-> IF g = f THEN Reload ELSE Idle]
  /\ logs = None
  /\ clicks = 0
  /\ errors = 0
  /\ raced = FALSE
  /\ drifted = FALSE

Becomes(f, flow) == flows' = [flows EXCEPT ![f] = flow]

Click == clicks < MaxClicks /\ clicks' = clicks + 1

Fault == errors < MaxErrors /\ errors' = errors + 1

-------------------------------------------------------------------------------
(* The console. *)

(* loadLogs, up to its first await; it does nothing while another runs. *)
StartLogs(s) ==
  IF consoleRequestRunning
    THEN UNCHANGED consoleVars
    ELSE logs' = s /\ consoleRequestRunning' = TRUE

(* Mutant: without the comparison of the ids. *)
LogsAnswerUnchecked ==
  /\ logs # None
  /\ pane' = IF pane.view = "console" THEN [pane EXCEPT !.console = logs] ELSE pane
  /\ logs' = None
  /\ consoleRequestRunning' = FALSE
  /\ UNCHANGED <<rowVars, selectionVars, listed, timerVars, fileVars, flows, clicks, errors,
                 raced>>

(* The end of loadLogs: COMPLETED and FAILED both print something. *)
LogsAnswer ==
  /\ logs # None
  /\ pane' = IF pane.view = "console" /\ selectedServer = logs
               THEN [pane EXCEPT !.console = logs] ELSE pane
  /\ logs' = None
  /\ consoleRequestRunning' = FALSE
  /\ UNCHANGED <<rowVars, selectionVars, listed, timerVars, fileVars, flows, clicks, errors,
                 raced>>

(* Mutant: without the finally. *)
LogsErrorStuck ==
  /\ logs # None
  /\ Fault
  /\ logs' = None
  /\ UNCHANGED <<rowVars, viewVars, fileVars, consoleRequestRunning, flows, clicks, raced>>

(* A request of loadLogs fails, or its 180 polls have passed. *)
LogsError ==
  /\ logs # None
  /\ Fault
  /\ logs' = None
  /\ consoleRequestRunning' = FALSE
  /\ UNCHANGED <<rowVars, viewVars, fileVars, flows, clicks, raced>>

ConsoleTick ==
  /\ intervals > 0
  /\ selectedServer # None
  /\ ~consoleRequestRunning
  /\ StartLogs(selectedServer)
  /\ UNCHANGED <<rowVars, viewVars, fileVars, flows, clicks, errors, raced>>

RefreshLogs ==
  /\ Click
  /\ pane.view = "console"
  /\ StartLogs(selectedServer)
  /\ UNCHANGED <<rowVars, viewVars, fileVars, flows, errors, raced>>

ClearConsole ==
  /\ Click
  /\ pane.view = "console"
  /\ pane' = [pane EXCEPT !.console = None]
  /\ UNCHANGED <<rowVars, selectionVars, listed, timerVars, fileVars, consoleVars, flows,
                 errors, raced>>

SendConsole(f) ==
  /\ Click
  /\ pane.view = "console"
  /\ flows[f] = Idle
  /\ Becomes(f, [op |-> "console", server |-> selectedServer])
  /\ UNCHANGED <<rowVars, viewVars, fileVars, consoleVars, errors, raced>>

(* COMPLETED: the console is loaded again, for the server selected by now. *)
ConsoleAnswer(f) ==
  /\ flows[f].op = "console"
  /\ StartLogs(selectedServer)
  /\ Becomes(f, Idle)
  /\ UNCHANGED <<rowVars, viewVars, fileVars, clicks, errors, raced>>

-------------------------------------------------------------------------------
(* The list, the selection and the tabs. *)

(* Mutant: without clearInterval. *)
RenderServerPaneUncleared(f, s, view) ==
  /\ pane' = EmptyPane(view)
  /\ consoleRefreshTimer' = (view = "console")
  /\ intervals' = intervals + (IF view = "console" THEN 1 ELSE 0)
  /\ IF view = "console" THEN StartLogs(s) ELSE UNCHANGED consoleVars
  /\ Becomes(f, IF view = "fichiers" THEN ListOf(s, currentDirectory, None) ELSE Idle)

(* Mutant: the file manager that is open already is kept. *)
RenderServerPaneOver(f, s, view) ==
  /\ pane' = IF {view, pane.view} = {"fichiers"} THEN pane ELSE EmptyPane(view)
  /\ consoleRefreshTimer' = (view = "console")
  /\ intervals' = IF view = "console" THEN 1 ELSE 0
  /\ IF view = "console" THEN StartLogs(s) ELSE UNCHANGED consoleVars
  /\ Becomes(f, IF view = "fichiers" THEN ListOf(s, currentDirectory, None) ELSE Idle)

(* renderServerPane: the old pane's interval is cleared, the new pane is   *)
(* filled by flow f or by loadLogs.                                        *)
RenderServerPane(f, s, view) ==
  /\ pane' = EmptyPane(view)
  /\ consoleRefreshTimer' = (view = "console")
  /\ intervals' = (intervals - IF consoleRefreshTimer THEN 1 ELSE 0)
                    + (IF view = "console" THEN 1 ELSE 0)
  /\ IF view = "console" THEN StartLogs(s) ELSE UNCHANGED consoleVars
  /\ Becomes(f, IF view = "fichiers" THEN ListOf(s, currentDirectory, None) ELSE Idle)

(* activeServerTab is "console" until a tab is clicked. *)
ActiveServerTab == IF pane.view = "none" THEN "console" ELSE pane.view

(* Mutant: the first selection renders nothing. *)
SelectServerUnrendered(s, f) ==
  /\ selectedServer' = s
  /\ drifted' = drifted
  /\ IF selectedServer = None
       THEN Becomes(f, Idle) /\ UNCHANGED <<pane, timerVars, consoleVars>>
       ELSE RenderServerPane(f, s, ActiveServerTab)

SelectServer(s, f) ==
  /\ selectedServer' = s
  /\ drifted' = (drifted \/ \E g \in Flows : flows[g].op = "read" /\ flows[g].server # s)
  /\ RenderServerPane(f, s, ActiveServerTab)

ClickServer(s, f) ==
  /\ Click
  /\ s \in listed
  /\ flows[f] = Idle
  /\ SelectServer(s, f)
  /\ UNCHANGED <<rowVars, listed, fileVars, errors, raced>>

ClickTab(view, f) ==
  /\ Click
  /\ selectedServer # None
  /\ flows[f] = Idle
  /\ RenderServerPane(f, selectedServer, view)
  /\ UNCHANGED <<rowVars, selectionVars, listed, fileVars, errors, raced>>

(* GET /servers is answered from the rows as they are now. *)
ReadServers(f) ==
  /\ flows[f] = Reload
  /\ Becomes(f, [Reload EXCEPT !.read = TRUE, !.seen = rows])
  /\ raced' = (raced \/ unsettled # {})
  /\ UNCHANGED <<rowVars, viewVars, fileVars, consoleVars, clicks, errors>>

(* The item clicked after a render: the server selected before, or the first. *)
Kept(seen) == IF selectedServer \in seen THEN {selectedServer} ELSE seen

RenderServers(f) ==
  /\ flows[f].op = "reload"
  /\ flows[f].read
  /\ listed' = flows[f].seen
  /\ raced' = (raced \/ \E g \in Flows \ {f} : flows[g].op = "reload")
  /\ \/ /\ flows[f].seen = {}
        /\ Becomes(f, Idle)
        /\ UNCHANGED <<selectionVars, pane, timerVars, consoleVars>>
     \/ \E s \in Kept(flows[f].seen) : SelectServer(s, f)
  /\ UNCHANGED <<rowVars, fileVars, clicks, errors>>

-------------------------------------------------------------------------------
(* Actions on the server: start, stop, sftp and the like, and delete. *)

RunServerAction(f) ==
  /\ Click
  /\ selectedServer # None
  /\ flows[f] = Idle
  /\ \/ Becomes(f, [op |-> "action", server |-> selectedServer])
     \/ Becomes(f, [op |-> "delete", server |-> selectedServer, cmd |-> "queued"])
  /\ UNCHANGED <<rowVars, viewVars, fileVars, consoleVars, errors, raced>>

(* A delete that succeeds.  Its command is COMPLETED before its row goes. *)
HostDeletes(f) ==
  /\ flows[f].op = "delete"
  /\ flows[f].cmd = "queued"
  /\ flows[f].server \in rows
  /\ Becomes(f, [flows[f] EXCEPT !.cmd = "done"])
  /\ unsettled' = unsettled \cup {flows[f].server}
  /\ UNCHANGED <<rows, strays, viewVars, fileVars, consoleVars, clicks, errors, raced>>

HostDeletesStray(s) ==
  /\ s \in strays
  /\ strays' = strays \ {s}
  /\ unsettled' = unsettled \cup (rows \cap {s})
  /\ UNCHANGED <<rows, viewVars, fileVars, consoleVars, flows, clicks, errors, raced>>

RowDeleted(s) ==
  /\ s \in unsettled
  /\ unsettled' = unsettled \ {s}
  /\ rows' = rows \ {s}
  /\ UNCHANGED <<strays, viewVars, fileVars, consoleVars, flows, clicks, errors, raced>>

(* Mutant: without loading the dashboard again. *)
ActionAnswerUnloaded(f) ==
  /\ \/ flows[f].op = "action"
     \/ flows[f].op = "delete" /\ flows[f].cmd = "done"
  /\ Becomes(f, Idle)
  /\ UNCHANGED <<rowVars, viewVars, fileVars, consoleVars, clicks, errors, raced>>

(* waitForCommand sees COMPLETED: the dashboard is loaded again. *)
ActionAnswer(f) ==
  /\ \/ flows[f].op = "action"
     \/ flows[f].op = "delete" /\ flows[f].cmd = "done"
  /\ Becomes(f, Reload)
  /\ UNCHANGED <<rowVars, viewVars, fileVars, consoleVars, clicks, errors, raced>>

CreateServer(s, f) ==
  /\ Click
  /\ s \notin rows
  /\ s \notin listed
  /\ flows[f] = Idle
  /\ Becomes(f, [op |-> "createServer", server |-> s])
  /\ UNCHANGED <<rowVars, viewVars, fileVars, consoleVars, errors, raced>>

(* The row is there when POST /servers answers. *)
CreateServerAnswer(f) ==
  /\ flows[f].op = "createServer"
  /\ rows' = rows \cup {flows[f].server}
  /\ Becomes(f, Reload)
  /\ UNCHANGED <<unsettled, strays, viewVars, fileVars, consoleVars, clicks, errors, raced>>

-------------------------------------------------------------------------------
(* The file manager.  fileCommand reads selectedServer when it is called,  *)
(* so each step of a chain goes to the server selected at that step.       *)

FilesOpen == pane.view = "fichiers"

(* openDirectory, called by a click. *)
OpenDirectory(f, d) ==
  /\ Click
  /\ FilesOpen
  /\ d \in {currentDirectory, Root} \/ pane.listing
  /\ flows[f] = Idle
  /\ Becomes(f, ListOf(selectedServer, d, None))
  /\ UNCHANGED <<rowVars, viewVars, fileVars, consoleVars, errors, raced>>

(* The button of an entry: its path was joined when the list was drawn. *)
OpenFile(f, p) ==
  /\ Click
  /\ FilesOpen
  /\ pane.listing
  /\ p.dir = pane.breadcrumb
  /\ flows[f] = Idle
  /\ Becomes(f, [op |-> "read", server |-> selectedServer, file |-> p])
  /\ UNCHANGED <<rowVars, viewVars, fileVars, consoleVars, errors, raced>>

(* saveFile, deleteFile and renameFile: their buttons are enabled while a  *)
(* file is in the editor.  They act on currentFile.                        *)
ChangeOpenFile(f) ==
  /\ Click
  /\ pane.editor # None
  /\ currentFile # None
  /\ flows[f] = Idle
  /\ \E op \in {"save", "change"} :
       Becomes(f, [op |-> op, server |-> selectedServer, origin |-> pane.editor.server])
  /\ UNCHANGED <<rowVars, viewVars, fileVars, consoleVars, errors, raced>>

CreateFile(f, n) ==
  /\ Click
  /\ FilesOpen
  /\ flows[f] = Idle
  /\ Becomes(f, [op |-> "create", server |-> selectedServer,
                 file |-> JoinPath(currentDirectory, n)])
  /\ UNCHANGED <<rowVars, viewVars, fileVars, consoleVars, errors, raced>>

(* createFolder and uploadFile. *)
AddToDirectory(f) ==
  /\ Click
  /\ FilesOpen
  /\ flows[f] = Idle
  /\ Becomes(f, [op |-> "change", server |-> selectedServer, origin |-> selectedServer])
  /\ UNCHANGED <<rowVars, viewVars, fileVars, consoleVars, errors, raced>>

(* What comes after a listing, drawn or failed: createFile goes on to openFile. *)
AfterListing(f) ==
  LET p == flows[f].then IN
  Becomes(f, IF p = None THEN Idle ELSE [op |-> "read", server |-> selectedServer, file |-> p])

(* Mutant: without resetEditor. *)
ListAnswerKeepsEditor(f) ==
  /\ flows[f].op = "list"
  /\ currentDirectory' = flows[f].dir
  /\ currentFile' = None
  /\ pane' = IF FilesOpen
               THEN [pane EXCEPT !.listing = TRUE, !.breadcrumb = flows[f].dir]
               ELSE pane
  /\ AfterListing(f)
  /\ UNCHANGED <<rowVars, selectionVars, listed, timerVars, consoleVars, clicks, errors, raced>>

(* The listing arrives: into the globals, and into the pane if it is the files' one. *)
ListAnswer(f) ==
  /\ flows[f].op = "list"
  /\ currentDirectory' = flows[f].dir
  /\ currentFile' = None
  /\ pane' = IF FilesOpen
               THEN [pane EXCEPT !.listing = TRUE, !.breadcrumb = flows[f].dir, !.editor = None]
               ELSE pane
  /\ AfterListing(f)
  /\ UNCHANGED <<rowVars, selectionVars, listed, timerVars, consoleVars, clicks, errors, raced>>

(* openFile goes on: the content into the editor, whichever server's pane it is in. *)
ReadAnswer(f) ==
  /\ flows[f].op = "read"
  /\ currentFile' = flows[f].file
  /\ pane' = IF FilesOpen
               THEN [pane EXCEPT !.editor = [server |-> flows[f].server, file |-> flows[f].file]]
               ELSE pane
  /\ Becomes(f, Idle)
  /\ UNCHANGED <<rowVars, selectionVars, listed, timerVars, currentDirectory, consoleVars,
                 clicks, errors, raced>>

(* A write, a move or the like is COMPLETED: the directory shown by now is listed again. *)
ChangeAnswer(f) ==
  /\ flows[f].op \in {"create", "change"}
  /\ Becomes(f, ListOf(selectedServer, currentDirectory,
                       IF flows[f].op = "create" THEN flows[f].file ELSE None))
  /\ UNCHANGED <<rowVars, viewVars, fileVars, consoleVars, clicks, errors, raced>>

SaveAnswer(f) ==
  /\ flows[f].op = "save"
  /\ Becomes(f, Idle)
  /\ UNCHANGED <<rowVars, viewVars, fileVars, consoleVars, clicks, errors, raced>>

(* The host reports FAILED: the handler ends with a toast, except that     *)
(* openDirectory catches the error itself.                                 *)
HostFails(f) ==
  /\ flows[f].op \notin {"idle", "reload", "createServer"}
  /\ flows[f].op = "delete" => flows[f].cmd = "queued"
  /\ IF flows[f].op = "list" THEN AfterListing(f) ELSE Becomes(f, Idle)
  /\ UNCHANGED <<rowVars, viewVars, fileVars, consoleVars, clicks, errors, raced>>

(* A request fails, or the command is not seen to end in 180 polls; a      *)
(* delete stays queued, and a new server's row may be there all the same.  *)
RequestFails(f) ==
  /\ flows[f] # Idle
  /\ Fault
  /\ IF flows[f].op = "list" THEN AfterListing(f) ELSE Becomes(f, Idle)
  /\ strays' = strays \cup {s \in Servers : /\ flows[f].op = "delete"
                                            /\ flows[f].server = s
                                            /\ flows[f].cmd = "queued"}
  /\ \/ UNCHANGED rows
     \/ flows[f].op = "createServer" /\ rows' = rows \cup {flows[f].server}
  /\ UNCHANGED <<unsettled, viewVars, fileVars, consoleVars, clicks, raced>>

-------------------------------------------------------------------------------
ConsoleNext ==
  \/ LogsAnswer \/ LogsError \/ ConsoleTick \/ RefreshLogs \/ ClearConsole
  \/ \E f \in Flows : SendConsole(f) \/ ConsoleAnswer(f)

ListNext ==
  \/ \E f \in Flows :
       \/ ReadServers(f) \/ RenderServers(f)
       \/ RunServerAction(f) \/ HostDeletes(f) \/ ActionAnswer(f) \/ CreateServerAnswer(f)
       \/ \E s \in Servers : ClickServer(s, f) \/ CreateServer(s, f)
       \/ \E view \in Tabs : ClickTab(view, f)
  \/ \E s \in Servers : HostDeletesStray(s) \/ RowDeleted(s)

FileNext ==
  \E f \in Flows :
    \/ \E d \in Directories : OpenDirectory(f, d)
    \/ \E p \in Paths : OpenFile(f, p)
    \/ \E n \in Names : CreateFile(f, n)
    \/ ChangeOpenFile(f) \/ AddToDirectory(f)
    \/ ListAnswer(f) \/ ReadAnswer(f) \/ ChangeAnswer(f) \/ SaveAnswer(f)
    \/ HostFails(f) \/ RequestFails(f)

Next == ConsoleNext \/ ListNext \/ FileNext

Spec == Init /\ [][Next]_vars

(* The browser's interval fires every five seconds, and a fetch of the logs ends: the host  *)
(* settles its commands, and the 180 polls end in any case.                                 *)
FairSpec == Spec /\ WF_vars(ConsoleTick) /\ WF_vars(LogsAnswer)

-------------------------------------------------------------------------------
(* The text in the console is that of the selected server, though the logs asked for before *)
(* a click arrive after it (loadLogs compares the ids when it goes on).                     *)
ConsoleIsSelected == pane.console # None => pane.console = selectedServer

(* However the answers of openFile and openDirectory are ordered: what is in the editor came *)
(* from currentFile, the path that saving, renaming and deleting use, and the path above a   *)
(* list of files is the directory that new files, new folders and uploads go to.             *)
FilesFollowGlobals ==
  /\ pane.editor # None => pane.editor.file = currentFile
  /\ pane.listing => pane.breadcrumb = currentDirectory

(* One interval runs while the console of a server is open and none otherwise: no           *)
(* interval is left behind by a click, a tab or a reload.                                   *)
OneInterval == intervals = IF pane.view = "console" THEN 1 ELSE 0

(* When nothing is under way and nothing failed, the list is the organization's servers,    *)
(* unless a list was read between COMPLETED and the deletion of the row, or two reloads     *)
(* overlapped.                                                                              *)
ListIsTrue ==
  /\ \A f \in Flows : flows[f] = Idle
  /\ unsettled = {}
  /\ errors = 0
  => raced \/ listed = rows

(* A file is saved, renamed or deleted on the server it was opened from, unless another     *)
(* server was selected while it was being opened (openFile does not compare the ids).       *)
FileActionsStayHome ==
  \A f \in Flows :
    flows[f].op \in {"save", "change"} => drifted \/ flows[f].origin = flows[f].server

(* While a server's console stays open, its output appears, however many fetches for other  *)
(* servers were under way.                                                                  *)
ConsoleCatchesUp ==
  \A s \in Servers :
    selectedServer = s /\ pane.view = "console"
      ~> pane.console = s \/ selectedServer # s \/ pane.view # "console"
===============================================================================
