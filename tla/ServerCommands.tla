---------------------------- MODULE ServerCommands ----------------------------
(***************************************************************************)
(* The Minecraft servers of one organization: their rows and quota slots,  *)
(* the command queue each node polls, the agent that executes commands     *)
(* with docker, the handler that applies a result, and the crash-loop      *)
(* detector, which writes rows of its own.                                 *)
(*                                                                         *)
(* Only ReserveInstanceSlot, the insertion of a server with its first      *)
(* command, and the claim of a command are transactions.  Everything else  *)
(* a handler does is one action per statement, so other requests and a     *)
(* crash of the orchestrator can fall between them.  Server ids are fresh  *)
(* elements of Instances; a command is named by its place in created_at    *)
(* order.                                                                  *)
(***************************************************************************)
EXTENDS Naturals, Sequences, FiniteSets

CONSTANTS
  Instances,     \* server ids
  Nodes,         \* nodes of the organization
  Ports,
  Requests,      \* createServer requests served at once
  Handlers,      \* result requests served at once
  UserCommands,  \* what operators ask of a server
  MaxSlots,      \* max_active_instances of the subscription
  MaxCommands,   \* bound: commands ever queued
  MaxTries,      \* bound: deliveries of one command
  MaxLosses,     \* bound: agent crashes and lost polls or results
  MaxTimeouts,   \* bound: results the agent gives up waiting for while they are applied
  MaxCrashes,    \* bound: crashes of the orchestrator
  MaxFailures,   \* bound: statements that fail and whose error is ignored
  MaxDetections, \* bound: crashed rows the detector reads to quarantine
  None

Lifecycle == {"START_SERVER", "STOP_SERVER", "RESTART_SERVER", "KILL_SERVER", "DELETE_SERVER",
              "REPAIR_NEXALINK"}
(* QUERY stands for the commands that touch no row and no container: logs, console, files. *)
Kinds == Lifecycle \cup {"CREATE_SERVER", "ENABLE_SFTP", "DISABLE_SFTP", "QUERY"}

ASSUME InstancesAssumption == IsFiniteSet(Instances)
ASSUME UserCommandsAssumption == UserCommands \subseteq Kinds \ {"CREATE_SERVER"}
ASSUME BoundsAssumption ==
  /\ MaxSlots \in Nat /\ MaxCommands \in Nat /\ MaxTries \in Nat
  /\ MaxLosses \in Nat /\ MaxTimeouts \in Nat /\ MaxCrashes \in Nat
  /\ MaxFailures \in Nat /\ MaxDetections \in Nat
ASSUME NoneAssumption == None \notin Instances \cup Nodes \cup Ports \cup Handlers \cup Nat

VARIABLES
  (* rows of instances and instance_slots *)
  status, node, port,
  sftp,        \* servers whose row says sftp_enabled
  slots,
  (* rows of agent_commands *)
  queue,
  (* the orchestrator's requests *)
  used,        \* server ids handed out
  request,     \* createServer
  handler,     \* completeAgentCommand
  found,       \* rows the crash-loop detector has read and will save, with their sftp_enabled
  (* hosts *)
  agent,
  container, sftpd,
  revoked,     \* nodes whose credential is revoked
  (* bounds and history *)
  losses, timeouts, crashes, failures, detections,
  leaked,      \* slots whose createServer died before it inserted the server, or whose release
               \* failed
  cut,         \* servers with a result that was applied late, in part or not at all
  stomped      \* servers whose row the detector put back, or whose sftp_enabled it set back

rowVars == <<status, node, port, sftp>>
hostVars == <<container, sftpd>>
detectorVars == <<found, detections, stomped>>
faultVars == <<losses, timeouts, crashes, failures, leaked, cut>>
vars == <<rowVars, slots, queue, used, request, handler, agent, hostVars, revoked, detectorVars,
          faultVars>>

Command == [kind : Kinds, inst : Instances, node : Nodes, stale : BOOLEAN, tries : Nat,
            state : {"PENDING", "RUNNING", "COMPLETED", "FAILED"}]
IdleRequest == [pc |-> "idle", inst |-> None, node |-> None, port |-> None]
IdleHandler == [pc |-> "idle", cmd |-> None, ok |-> FALSE]
IdleAgent == [pc |-> "idle", cmd |-> None, ok |-> FALSE, at |-> None]

(* Types: every row, request, handler and host is in one of the states the code gives it. *)
TypeOK ==
  /\ status \in [Instances -> {"absent", "CREATING", "ACTIVE", "STOPPED", "CRASHED",
                            "QUARANTINED"}]
  /\ node \in [Instances -> Nodes \cup {None}]
  /\ port \in [Instances -> Ports \cup {None}]
  /\ sftp \subseteq Instances
  /\ slots \subseteq Instances
  /\ queue \in Seq(Command)
  /\ used \subseteq Instances
  /\ request \in [Requests -> [pc : {"idle", "checked", "reserved"},
                               inst : Instances \cup {None}, node : Nodes \cup {None},
                               port : Ports \cup {None}]]
  /\ handler \in [Handlers -> [pc : {"idle", "received", "loaded", "saved", "released"},
                               cmd : Nat \cup {None}, ok : BOOLEAN]]
  /\ agent \in [Nodes -> [pc : {"idle", "claimed", "executed", "posted"},
                          cmd : Nat \cup {None}, ok : BOOLEAN,
                          at : Handlers \cup {None}]]
  /\ container \in [Instances -> {"none", "stopped", "running"}]
  /\ sftpd \subseteq Instances
  /\ revoked \subseteq Nodes
  /\ losses \in Nat
  /\ timeouts \in Nat
  /\ crashes \in Nat
  /\ failures \in Nat
  /\ leaked \subseteq Instances
  /\ cut \subseteq Instances
  /\ found \in [Instances -> {"none", "plain", "sftp"}]
  /\ detections \in Nat
  /\ stomped \subseteq Instances

Init ==
  /\ status = [i \in Instances |-> "absent"]
  /\ node = [i \in Instances |-> None]
  /\ port = [i \in Instances |-> None]
  /\ sftp = {}
  /\ slots = {}
  /\ queue = << >>
  /\ used = {}
  /\ request = [r \in Requests |-> IdleRequest]
  /\ handler = [h \in Handlers |-> IdleHandler]
  /\ agent = [n \in Nodes |-> IdleAgent]
  /\ container = [i \in Instances |-> "none"]
  /\ sftpd = {}
  /\ revoked = {}
  /\ losses = 0
  /\ timeouts = 0
  /\ crashes = 0
  /\ failures = 0
  /\ leaked = {}
  /\ cut = {}
  /\ found = [i \in Instances |-> "none"]
  /\ detections = 0
  /\ stomped = {}

-------------------------------------------------------------------------------
(* createServer: three statements of one request. *)

PortTaken(n, p) == \E i \in Instances : status[i] # "absent" /\ node[i] = n /\ port[i] = p

(* Mutant: a state that the poll does not look for. *)
PendingQueued(kind, i, n) ==
  [kind |-> kind, inst |-> i, node |-> n, stale |-> FALSE, tries |-> 0, state |-> "QUEUED"]

Pending(kind, i, n) ==
  [kind |-> kind, inst |-> i, node |-> n, stale |-> FALSE, tries |-> 0, state |-> "PENDING"]

(* A statement fails and the handler goes on: its error is ignored. *)
Fails == failures < MaxFailures /\ failures' = failures + 1

(* The node's row was ONLINE, as a late heartbeat can make even a revoked node's, and the  *)
(* port was free, or the count failed, when they were read.                                *)
CheckServer(r, i, n, p) ==
  /\ request[r].pc = "idle"
  /\ i \notin used
  /\ \/ ~PortTaken(n, p) /\ UNCHANGED failures
     \/ Fails
  /\ used' = used \cup {i}
  /\ request' = [request EXCEPT ![r] = [pc |-> "checked", inst |-> i, node |-> n, port |-> p]]
  /\ UNCHANGED <<rowVars, slots, queue, handler, agent, hostVars, revoked,
                 detectorVars, losses, timeouts, crashes, leaked, cut>>

(* Mutant: the slots are not counted. *)
ReserveUncounted(r) ==
  /\ request[r].pc = "checked"
  /\ slots' = slots \cup {request[r].inst}
  /\ request' = [request EXCEPT ![r].pc = "reserved"]
  /\ UNCHANGED <<rowVars, queue, used, handler, agent, hostVars, revoked,
                 detectorVars, faultVars>>

ReserveInstanceSlot(r) ==
  /\ request[r].pc = "checked"
  /\ IF Cardinality(slots) < MaxSlots
     THEN /\ slots' = slots \cup {request[r].inst}
          /\ request' = [request EXCEPT ![r].pc = "reserved"]
     ELSE /\ request' = [request EXCEPT ![r] = IdleRequest]
          /\ UNCHANGED slots
  /\ UNCHANGED <<rowVars, queue, used, handler, agent, hostVars, revoked,
                 detectorVars, faultVars>>

InsertServer(r) ==
  LET i == request[r].inst IN
  /\ request[r].pc = "reserved"
  /\ Len(queue) < MaxCommands
  /\ status' = [status EXCEPT ![i] = "CREATING"]
  /\ node' = [node EXCEPT ![i] = request[r].node]
  /\ port' = [port EXCEPT ![i] = request[r].port]
  /\ queue' = Append(queue, Pending("CREATE_SERVER", i, request[r].node))
  /\ request' = [request EXCEPT ![r] = IdleRequest]
  /\ UNCHANGED <<sftp, slots, used, handler, agent, hostVars, revoked,
                 detectorVars, faultVars>>

(* Mutant: the slot of a failed insertion is kept. *)
RejectKeepsSlot(r) ==
  /\ request[r].pc = "reserved"
  /\ request' = [request EXCEPT ![r] = IdleRequest]
  /\ UNCHANGED <<rowVars, slots, queue, used, handler, agent, hostVars, revoked,
                 detectorVars, faultVars>>

(* The transaction fails, on a name the organization already uses for instance. *)
RejectServer(r) ==
  /\ request[r].pc = "reserved"
  /\ slots' = slots \ {request[r].inst}
  /\ request' = [request EXCEPT ![r] = IdleRequest]
  /\ UNCHANGED <<rowVars, queue, used, handler, agent, hostVars, revoked,
                 detectorVars, faultVars>>

(* It fails, and so does the release of the slot. *)
RejectServerLeaks(r) ==
  /\ request[r].pc = "reserved"
  /\ Fails
  /\ leaked' = leaked \cup {request[r].inst}
  /\ request' = [request EXCEPT ![r] = IdleRequest]
  /\ UNCHANGED <<rowVars, slots, queue, used, handler, agent, hostVars, revoked,
                 detectorVars, losses, timeouts, crashes, cut>>

(* serverAction, serverConsole, serverFiles and serverSFTP look only at whether the row    *)
(* exists, never at its status; it may be gone by the time the command is inserted.        *)
QueueCommand(i, kind) ==
  /\ node[i] # None
  /\ Len(queue) < MaxCommands
  /\ queue' = Append(queue, Pending(kind, i, node[i]))
  /\ UNCHANGED <<rowVars, slots, used, request, handler, agent, hostVars, revoked,
                 detectorVars, faultVars>>

-------------------------------------------------------------------------------
(* nextAgentCommand, and five minutes going by. *)

(* Mutant: a claim never expires. *)
ServablePending(n) == {c \in DOMAIN queue : queue[c].node = n /\ queue[c].state = "PENDING"}

Servable(n) ==
  {c \in DOMAIN queue : /\ queue[c].node = n
                        /\ \/ queue[c].state = "PENDING"
                           \/ queue[c].state = "RUNNING" /\ queue[c].stale}

(* Mutant: the query is not ordered by created_at. *)
NextUnordered(n, c) ==
  /\ n \notin revoked
  /\ agent[n].pc = "idle"
  /\ c \in Servable(n)
  /\ queue' = [queue EXCEPT ![c] = [@ EXCEPT !.state = "RUNNING", !.stale = FALSE,
                                             !.tries = queue[c].tries + 1]]
  /\ agent' = [agent EXCEPT ![n] = [pc |-> "claimed", cmd |-> c, ok |-> FALSE, at |-> None]]
  /\ UNCHANGED <<rowVars, slots, used, request, handler, hostVars, revoked,
                 detectorVars, faultVars>>

NextAgentCommand(n, c) ==
  /\ n \notin revoked
  /\ agent[n].pc = "idle"
  /\ c \in Servable(n)
  /\ \A d \in Servable(n) : c <= d
  /\ queue' = [queue EXCEPT ![c] = [@ EXCEPT !.state = "RUNNING", !.stale = FALSE,
                                             !.tries = queue[c].tries + 1]]
  /\ agent' = [agent EXCEPT ![n] = [pc |-> "claimed", cmd |-> c, ok |-> FALSE, at |-> None]]
  /\ UNCHANGED <<rowVars, slots, used, request, handler, hostVars, revoked,
                 detectorVars, faultVars>>

ClaimExpires(c) ==
  /\ c \in DOMAIN queue
  /\ queue[c].state = "RUNNING"
  /\ ~queue[c].stale
  /\ queue[c].tries < MaxTries
  /\ queue' = [queue EXCEPT ![c].stale = TRUE]
  /\ UNCHANGED <<rowVars, slots, used, request, handler, agent, hostVars, revoked,
                 detectorVars, faultVars>>

-------------------------------------------------------------------------------
(* The agent's command loop. *)

(* What docker can make of a server's container, and whether the command reports success.  *)
(* A create that fails late leaves the container, and fails at once when it exists.        *)
Outcome(kind, before, after, ok) ==
  \/ ~ok /\ after = before
  \/ /\ kind = "CREATE_SERVER" /\ before = "none"
     /\ \/ after = "running"
        \/ after = "stopped" /\ ~ok
  \/ /\ kind \in {"START_SERVER", "RESTART_SERVER", "REPAIR_NEXALINK"} /\ before # "none"
     /\ \/ after = "running" /\ (ok \/ kind = "REPAIR_NEXALINK")
        \/ after = "stopped" /\ ~ok /\ kind # "START_SERVER"
  \/ kind = "STOP_SERVER" /\ before # "none" /\ ok /\ after = "stopped"
  \/ kind = "KILL_SERVER" /\ before = "running" /\ ok /\ after = "stopped"
  \/ kind = "DELETE_SERVER" /\ ok /\ after = "none"
  \/ kind = "ENABLE_SFTP" /\ before # "none" /\ ok /\ after = before
  \/ kind \in {"DISABLE_SFTP", "QUERY"} /\ ok /\ after = before

(* EnableSFTP removes the running sftp container before it tries to make the new one, and  *)
(* Remove takes it down before the server's own.                                           *)
SftpOutcomes(kind, i, ok) ==
  CASE kind = "ENABLE_SFTP" -> IF ok THEN {sftpd \cup {i}} ELSE {sftpd, sftpd \ {i}}
    [] kind = "DISABLE_SFTP" -> IF ok THEN {sftpd \ {i}} ELSE {sftpd}
    [] kind = "DELETE_SERVER" -> IF ok THEN {sftpd \ {i}} ELSE {sftpd, sftpd \ {i}}
    [] OTHER -> {sftpd}

ExecuteCommand(n) ==
  LET c == agent[n].cmd
      i == queue[c].inst
  IN
  /\ agent[n].pc = "claimed"
  /\ \E after \in {"none", "stopped", "running"}, ok \in BOOLEAN :
       /\ Outcome(queue[c].kind, container[i], after, ok)
       /\ container' = [container EXCEPT ![i] = after]
       /\ sftpd' \in SftpOutcomes(queue[c].kind, i, ok)
       /\ agent' = [agent EXCEPT ![n] = [@ EXCEPT !.pc = "executed", !.ok = ok]]
  /\ UNCHANGED <<rowVars, slots, queue, used, request, handler, revoked,
                 detectorVars, faultVars>>

(* The result is posted once, and the agent waits for the answer but never looks at it.    *)
CompleteCommand(n, h) ==
  /\ agent[n].pc = "executed"
  /\ handler[h].pc = "idle"
  /\ n \notin revoked
  /\ handler' = [handler EXCEPT ![h] = [pc |-> "received", cmd |-> agent[n].cmd,
                                        ok |-> agent[n].ok]]
  /\ agent' = [agent EXCEPT ![n] = [@ EXCEPT !.pc = "posted", !.at = h]]
  /\ UNCHANGED <<rowVars, slots, queue, used, request, hostVars, revoked,
                 detectorVars, faultVars>>

(* The poll's answer or the result is lost, or the agent dies, before or after docker ran; *)
(* the result of a revoked node's agent is refused.                                        *)
LoseCommand(n) ==
  /\ agent[n].pc \in {"claimed", "executed"}
  /\ n \in revoked \/ losses < MaxLosses
  /\ losses' = IF n \in revoked THEN losses ELSE losses + 1
  /\ agent' = [agent EXCEPT ![n] = IdleAgent]
  /\ UNCHANGED <<rowVars, slots, queue, used, request, handler, hostVars, revoked, timeouts,
                 crashes, failures, leaked, cut, detectorVars>>

(* The agent's 15 s client timeout, or its death, while the handler is still at work. *)
GiveUpWaiting(n) ==
  /\ agent[n].pc = "posted"
  /\ timeouts < MaxTimeouts
  /\ timeouts' = timeouts + 1
  /\ cut' = cut \cup {queue[agent[n].cmd].inst}
  /\ agent' = [agent EXCEPT ![n] = IdleAgent]
  /\ UNCHANGED <<rowVars, slots, queue, used, request, handler, hostVars, revoked, losses,
                 crashes, failures, leaked, detectorVars>>

-------------------------------------------------------------------------------
(* completeAgentCommand, a statement at a time. *)

(* Mutant: any failed command gives the slot back. *)
ReleasesOnFailure(c, ok) == ~ok \/ queue[c].kind = "DELETE_SERVER"

Releases(c, ok) ==
  \/ queue[c].kind = "CREATE_SERVER" /\ ~ok
  \/ queue[c].kind = "DELETE_SERVER" /\ ok

(* The handler ends and its answer reaches the agent, if it still waits. *)
Answer(h) ==
  /\ handler' = [handler EXCEPT ![h] = IdleHandler]
  /\ agent' = [n \in Nodes |-> IF agent[n].at = h THEN IdleAgent ELSE agent[n]]

LoadCommand(h) ==
  /\ handler[h].pc = "received"
  /\ queue[handler[h].cmd].state = "RUNNING"
  /\ handler' = [handler EXCEPT ![h].pc = "loaded"]
  /\ UNCHANGED <<rowVars, slots, queue, used, request, agent, hostVars, revoked,
                 detectorVars, faultVars>>

(* 404: the command has been completed, by an earlier delivery's result. *)
RefuseResult(h) ==
  /\ handler[h].pc = "received"
  /\ queue[handler[h].cmd].state # "RUNNING"
  /\ Answer(h)
  /\ UNCHANGED <<rowVars, slots, queue, used, request, hostVars, revoked,
                 detectorVars, faultVars>>

SaveCommand(h) ==
  LET c == handler[h].cmd IN
  /\ handler[h].pc = "loaded"
  /\ queue' = [queue EXCEPT ![c].state = IF handler[h].ok THEN "COMPLETED" ELSE "FAILED"]
  /\ handler' = [handler EXCEPT ![h].pc = "saved"]
  /\ UNCHANGED <<rowVars, slots, used, request, agent, hostVars, revoked,
                 detectorVars, faultVars>>

ReleaseInstanceSlot(h) ==
  LET c == handler[h].cmd IN
  /\ handler[h].pc = "saved"
  /\ Releases(c, handler[h].ok)
  /\ slots' = slots \ {queue[c].inst}
  /\ handler' = [handler EXCEPT ![h].pc = "released"]
  /\ UNCHANGED <<rowVars, queue, used, request, agent, hostVars, revoked,
                 detectorVars, faultVars>>

(* Mutant: STOPPED and ACTIVE whether or not the command succeeded. *)
NewStatusUnchecked(kind, ok, old) ==
  IF old = "absent" THEN old
  ELSE CASE kind \in {"CREATE_SERVER", "START_SERVER", "RESTART_SERVER"} -> "ACTIVE"
         [] kind \in {"STOP_SERVER", "KILL_SERVER"} -> "STOPPED"
         [] kind = "DELETE_SERVER" /\ ok -> "absent"
         [] OTHER -> old

(* The status a result gives the row; Updates is a no-op when the row is gone. *)
NewStatus(kind, ok, old) ==
  IF old = "absent" THEN old
  ELSE CASE kind \in {"CREATE_SERVER", "START_SERVER", "RESTART_SERVER"} ->
              IF ok THEN "ACTIVE" ELSE "CRASHED"
         [] kind \in {"STOP_SERVER", "KILL_SERVER"} /\ ok -> "STOPPED"
         [] kind = "DELETE_SERVER" /\ ok -> "absent"
         [] OTHER -> old

(* Mutant: the row follows the request, not the result. *)
NewSftpUnchecked(kind, ok, i) ==
  IF status[i] = "absent" THEN sftp
  ELSE CASE kind = "ENABLE_SFTP" -> sftp \cup {i}
         [] kind \in {"DISABLE_SFTP", "DELETE_SERVER"} -> sftp \ {i}
         [] OTHER -> sftp

NewSftp(kind, ok, i) ==
  IF status[i] = "absent" \/ ~ok THEN sftp
  ELSE CASE kind = "ENABLE_SFTP" -> sftp \cup {i}
         [] kind \in {"DISABLE_SFTP", "DELETE_SERVER"} -> sftp \ {i}
         [] OTHER -> sftp

UpdateInstance(h) ==
  LET c == handler[h].cmd
      i == queue[c].inst
      ok == handler[h].ok
  IN
  /\ \/ handler[h].pc = "released"
     \/ handler[h].pc = "saved" /\ ~Releases(c, ok)
  /\ status' = [status EXCEPT ![i] = NewStatus(queue[c].kind, ok, @)]
  /\ sftp' = NewSftp(queue[c].kind, ok, i)
  /\ Answer(h)
  /\ UNCHANGED <<node, port, slots, queue, used, request, hostVars, revoked,
                 detectorVars, faultVars>>

(* None of the three writes is looked at: when one fails the handler goes on. *)

SaveCommandFails(h) ==
  /\ handler[h].pc = "loaded"
  /\ Fails
  /\ handler' = [handler EXCEPT ![h].pc = "saved"]
  /\ UNCHANGED <<rowVars, slots, queue, used, request, agent, hostVars, revoked,
                 detectorVars, losses, timeouts, crashes, leaked, cut>>

ReleaseFails(h) ==
  LET c == handler[h].cmd IN
  /\ handler[h].pc = "saved"
  /\ Releases(c, handler[h].ok)
  /\ Fails
  /\ leaked' = leaked \cup {queue[c].inst}
  /\ handler' = [handler EXCEPT ![h].pc = "released"]
  /\ UNCHANGED <<rowVars, slots, queue, used, request, agent, hostVars, revoked,
                 detectorVars, losses, timeouts, crashes, cut>>

UpdateFails(h) ==
  /\ \/ handler[h].pc = "released"
     \/ handler[h].pc = "saved" /\ ~Releases(handler[h].cmd, handler[h].ok)
  /\ Fails
  /\ cut' = cut \cup {queue[handler[h].cmd].inst}
  /\ Answer(h)
  /\ UNCHANGED <<rowVars, slots, queue, used, request, hostVars, revoked,
                 detectorVars, losses, timeouts, crashes, leaked>>

-------------------------------------------------------------------------------
(* crashloop.Check.  Any check may be the third that finds the server CRASHED within 94 s, *)
(* which is when it is quarantined.                                                        *)

LoadCrashed(i) ==
  /\ status[i] = "CRASHED"
  /\ found[i] = "none"
  /\ detections < MaxDetections
  /\ found' = [found EXCEPT ![i] = IF i \in sftp THEN "sftp" ELSE "plain"]
  /\ detections' = detections + 1
  /\ UNCHANGED <<rowVars, slots, queue, used, request, handler, agent, hostVars, revoked,
                 faultVars, stomped>>

(* Save writes the whole row that was read, and inserts it again when it has been deleted. *)
QuarantineServer(i) ==
  /\ found[i] # "none"
  /\ status' = [status EXCEPT ![i] = "QUARANTINED"]
  /\ sftp' = IF found[i] = "sftp" THEN sftp \cup {i} ELSE sftp \ {i}
  /\ stomped' = IF sftp' = sftp /\ status[i] # "absent" THEN stomped ELSE stomped \cup {i}
  /\ found' = [found EXCEPT ![i] = "none"]
  /\ UNCHANGED <<node, port, slots, queue, used, request, handler, agent, hostVars, revoked,
                 faultVars, detections>>

-------------------------------------------------------------------------------
(* Every request being served dies; nothing is undone and nothing resumes.  A waiting agent *)
(* sees its connection fail.                                                                *)
OrchestratorCrash ==
  /\ crashes < MaxCrashes
  /\ \/ \E r \in Requests : request[r].pc # "idle"
     \/ \E h \in Handlers : handler[h].pc # "idle"
     \/ \E i \in Instances : found[i] # "none"
  /\ crashes' = crashes + 1
  /\ leaked' = leaked \cup {request[r].inst : r \in {q \in Requests : request[q].pc = "reserved"}}
  /\ cut' = cut \cup {queue[handler[h].cmd].inst :
                         h \in {g \in Handlers : handler[g].pc \in {"saved", "released"}}}
  /\ request' = [r \in Requests |-> IdleRequest]
  /\ handler' = [h \in Handlers |-> IdleHandler]
  /\ agent' = [n \in Nodes |-> IF agent[n].pc = "posted" THEN IdleAgent ELSE agent[n]]
  /\ found' = [i \in Instances |-> "none"]
  /\ UNCHANGED <<rowVars, slots, queue, used, hostVars, revoked, losses, timeouts, failures,
                 detections, stomped>>

(* The agent's credential no longer authenticates; the node's servers, their slots and     *)
(* their commands stay.                                                                    *)
RevokeNode(n) ==
  /\ n \notin revoked
  /\ revoked' = revoked \cup {n}
  /\ UNCHANGED <<rowVars, slots, queue, used, request, handler, agent, hostVars,
                 detectorVars, faultVars>>

-------------------------------------------------------------------------------
RequestNext ==
  \/ \E r \in Requests :
       \/ \E i \in Instances, n \in Nodes, p \in Ports : CheckServer(r, i, n, p)
       \/ ReserveInstanceSlot(r)
       \/ InsertServer(r)
       \/ RejectServer(r)
       \/ RejectServerLeaks(r)
  \/ \E i \in Instances, kind \in UserCommands : QueueCommand(i, kind)

AgentNext ==
  \E n \in Nodes :
    \/ \E c \in DOMAIN queue : NextAgentCommand(n, c)
    \/ ExecuteCommand(n)
    \/ \E h \in Handlers : CompleteCommand(n, h)
    \/ LoseCommand(n)
    \/ GiveUpWaiting(n)
    \/ RevokeNode(n)

HandlerNext ==
  \E h \in Handlers :
    \/ LoadCommand(h)
    \/ RefuseResult(h)
    \/ SaveCommand(h)
    \/ ReleaseInstanceSlot(h)
    \/ UpdateInstance(h)
    \/ SaveCommandFails(h)
    \/ ReleaseFails(h)
    \/ UpdateFails(h)

Next ==
  \/ RequestNext
  \/ AgentNext
  \/ HandlerNext
  \/ \E c \in DOMAIN queue : ClaimExpires(c)
  \/ \E i \in Instances : LoadCrashed(i) \/ QuarantineServer(i)
  \/ OrchestratorCrash

Spec == Init /\ [][Next]_vars

(* The agent's loop goes on (systemd restarts it), handlers run to their end, and the clock *)
(* reaches a claim's five minutes.                                                          *)
Fairness ==
  /\ \A n \in Nodes :
       /\ WF_vars(\E c \in DOMAIN queue : NextAgentCommand(n, c))
       /\ WF_vars(ExecuteCommand(n))
       /\ WF_vars(\E h \in Handlers : CompleteCommand(n, h))
  /\ \A h \in Handlers :
       /\ WF_vars(LoadCommand(h) \/ RefuseResult(h))
       /\ WF_vars(SaveCommand(h) \/ ReleaseInstanceSlot(h) \/ UpdateInstance(h))
  /\ \A c \in 1..MaxCommands : WF_vars(ClaimExpires(c))

FairSpec == Spec /\ Fairness

-------------------------------------------------------------------------------
(* Safety. *)

Commands(kind, i) == {c \in DOMAIN queue : queue[c].kind = kind /\ queue[c].inst = i}

(* The organization never holds more slots than its subscription allows, however many      *)
(* createServer requests, failures and results run into each other.                        *)
SlotQuota == Cardinality(slots) <= MaxSlots

(* A slot belongs to a server, to a createServer request on its way to insert one, or was  *)
(* leaked by a crash between the reservation and the insertion or by a release that failed *)
(* unnoticed: no other path loses one.                                                     *)
SlotsAccounted ==
  \A i \in slots :
    \/ status[i] # "absent"
    \/ \E r \in Requests : request[r].pc = "reserved" /\ request[r].inst = i
    \/ i \in leaked

(* A server's row outlives its slot only after a create that failed, whether or not the    *)
(* report could be saved, or that was delivered twice, or after a delete that was carried  *)
(* out: never after a create that succeeded the first time.                                *)
SlotlessOnlyAfterFailure ==
  \A i \in Instances : status[i] # "absent" /\ i \notin slots =>
    \/ \E c \in Commands("CREATE_SERVER", i) :
         queue[c].state \in {"RUNNING", "FAILED"} \/ queue[c].tries > 1
    \/ \E c \in Commands("DELETE_SERVER", i) : queue[c].state # "PENDING"

(* A container outlives its server's row only when the create was delivered again after    *)
(* the server had been deleted.                                                            *)
OrphanNeedsRedelivery ==
  \A i \in Instances : status[i] = "absent" /\ container[i] # "none" =>
    \E c \in Commands("CREATE_SERVER", i) : queue[c].tries > 1

(* The queue as those who submit to it and the nodes see it: how often each command was     *)
(* delivered and what was reported last.                                                    *)
CommandLog ==
  [c \in DOMAIN queue |->
     [node |-> queue[c].node, deliveries |-> queue[c].tries,
      result |-> IF queue[c].state \in {"COMPLETED", "FAILED"} THEN queue[c].state ELSE "none"]]

Promised == INSTANCE CommandQueue WITH
  Ids <- 1..MaxCommands, commands <- CommandLog, closed <- revoked

(* Polls, stale claims, late and repeated results, crashes and revocations together do      *)
(* nothing that the queue's promise forbids: first deliveries in order, none after a report *)
(* or a revocation, and a second report only after a second delivery.                       *)
ImplementsQueue == Promised!QueueSpec

Settled(i) ==
  /\ \A c \in DOMAIN queue : queue[c].inst = i => queue[c].state \in {"COMPLETED", "FAILED"}
  /\ \A h \in Handlers : handler[h].pc # "idle" => queue[handler[h].cmd].inst # i

(* Once every command of a server has been applied, its row is ACTIVE only over a running   *)
(* container and STOPPED only over a stopped one, unless a result was applied late or in    *)
(* part, NexaLink was repaired, or a command was executed, its result lost, and its         *)
(* redelivery failed.                                                                       *)
RowTellsContainer ==
  \A i \in Instances :
    /\ Settled(i)
    /\ i \notin cut
    /\ Commands("REPAIR_NEXALINK", i) = {}
    /\ ~\E c \in DOMAIN queue :
           queue[c].inst = i /\ queue[c].tries > 1 /\ queue[c].state = "FAILED"
    => /\ status[i] = "ACTIVE" => container[i] = "running"
       /\ status[i] = "STOPPED" => container[i] = "stopped"

(* Once they have been applied, an sftp container that the server's row does not know of    *)
(* was left by an ENABLE_SFTP that was reported failed, forgotten by a result applied late  *)
(* or in part, or by a quarantine that wrote back an older row, of a server deleted since   *)
(* for instance.                                                                            *)
HiddenSftpWasReported ==
  \A i \in Instances : Settled(i) /\ status[i] # "absent" /\ i \in sftpd \ sftp =>
    \/ i \in stomped \cup cut
    \/ \E c \in Commands("ENABLE_SFTP", i) : queue[c].state = "FAILED"

-------------------------------------------------------------------------------
(* Liveness. *)

(* Every command of a node that is not revoked is eventually reported: a claim whose agent *)
(* died is delivered again.                                                                *)
CommandsSettle ==
  \A c \in 1..MaxCommands :
    (c \in DOMAIN queue) ~>
      /\ c \in DOMAIN queue
      /\ queue[c].state \in {"COMPLETED", "FAILED"} \/ queue[c].node \in revoked
===============================================================================
