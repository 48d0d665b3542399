------------------------- MODULE ServerCommandsProofs -------------------------
(***************************************************************************)
(* Proofs about ServerCommands for any servers, nodes, ports, numbers of   *)
(* requests and handlers, quota and bounds.                                *)
(***************************************************************************)
EXTENDS ServerCommands, SequenceTheorems, FiniteSetTheorems, TLAPS

-------------------------------------------------------------------------------
(* Types. *)

(* What a request, an agent or a handler in progress works on exists. *)
Busy ==
  /\ \A r \in Requests : request[r].pc # "idle" =>
       request[r].inst \in Instances /\ request[r].node \in Nodes /\ request[r].port \in Ports
  /\ \A n \in Nodes : agent[n].pc # "idle" => agent[n].cmd \in 1..Len(queue)
  /\ \A h \in Handlers : handler[h].pc # "idle" => handler[h].cmd \in 1..Len(queue)

CommandState == {"PENDING", "RUNNING", "COMPLETED", "FAILED"}

(* The fields of a command are typed. *)
LEMMA CommandFields ==
  ASSUME NEW x \in Command
  PROVE  /\ x.kind \in Kinds /\ x.inst \in Instances /\ x.node \in Nodes
         /\ x.stale \in BOOLEAN /\ x.tries \in Nat /\ x.state \in CommandState
BY DEF Command, CommandState

(* The queue is a function on 1..Len whose values are commands. *)
LEMMA QueueFacts ==
  ASSUME queue \in Seq(Command)
  PROVE  /\ Len(queue) \in Nat
         /\ DOMAIN queue = 1..Len(queue)
         /\ \A c \in 1..Len(queue) : queue[c] \in Command
BY LenProperties, ElementOfSeq

(* Appending a command keeps the queue a sequence of commands. *)
LEMMA QueueAppend ==
  ASSUME queue \in Seq(Command), NEW kind \in Kinds, NEW i \in Instances, NEW n \in Nodes,
         queue' = Append(queue, Pending(kind, i, n))
  PROVE  /\ queue' \in Seq(Command)
         /\ Len(queue') = Len(queue) + 1
         /\ \A c \in 1..Len(queue) : queue'[c] = queue[c]
         /\ queue'[Len(queue) + 1] = Pending(kind, i, n)
<1>1. Pending(kind, i, n) \in Command
  BY DEF Pending, Command
<1>. HIDE DEF Command, Pending
<1>. QED  BY <1>1

(* Replacing one command by another does too. *)
LEMMA QueueUpdate ==
  ASSUME queue \in Seq(Command), NEW c \in 1..Len(queue), NEW x \in Command,
         queue' = [queue EXCEPT ![c] = x]
  PROVE  /\ queue' \in Seq(Command)
         /\ Len(queue') = Len(queue)
         /\ \A d \in 1..Len(queue) : d # c => queue'[d] = queue[d]
         /\ queue'[c] = x
<1>. HIDE DEF Command
<1>. QED  BY ExceptSeq

(* The claim of a command does too. *)
LEMMA QueueClaim ==
  ASSUME queue \in Seq(Command), NEW c \in 1..Len(queue),
         queue' = [queue EXCEPT ![c] = [@ EXCEPT !.state = "RUNNING", !.stale = FALSE,
                                                !.tries = queue[c].tries + 1]]
  PROVE  /\ queue' \in Seq(Command)
         /\ Len(queue') = Len(queue)
         /\ \A d \in 1..Len(queue) : d # c => queue'[d] = queue[d]
         /\ queue'[c] = [queue[c] EXCEPT !.state = "RUNNING", !.stale = FALSE,
                                         !.tries = queue[c].tries + 1]
<1>. DEFINE t == queue[c].tries + 1
            x == [queue[c] EXCEPT !.state = "RUNNING", !.stale = FALSE, !.tries = t]
<1>1. queue[c] \in Command
  BY QueueFacts
<1>2. t \in Nat
  BY <1>1, CommandFields
<1>3. x \in Command
  <2>. HIDE DEF t
  <2>. QED  BY <1>1, <1>2, Zenon DEF Command
<1>4. queue' = [queue EXCEPT ![c] = x]
  OBVIOUS
<1>. HIDE DEF x
<1>5. /\ queue' \in Seq(Command)
      /\ Len(queue') = Len(queue)
      /\ \A d \in 1..Len(queue) : d # c => queue'[d] = queue[d]
      /\ queue'[c] = x
  BY <1>3, <1>4, QueueUpdate
<1>. QED  BY <1>5 DEF x

(* A claim that grows stale does too. *)
LEMMA QueueExpire ==
  ASSUME queue \in Seq(Command), NEW c \in 1..Len(queue),
         queue' = [queue EXCEPT ![c].stale = TRUE]
  PROVE  /\ queue' \in Seq(Command)
         /\ Len(queue') = Len(queue)
         /\ \A d \in 1..Len(queue) : d # c => queue'[d] = queue[d]
         /\ queue'[c] = [queue[c] EXCEPT !.stale = TRUE]
<1>. DEFINE x == [queue[c] EXCEPT !.stale = TRUE]
<1>1. queue[c] \in Command
  BY QueueFacts
<1>2. x \in Command
  BY <1>1, Zenon DEF Command
<1>3. queue' = [queue EXCEPT ![c] = x]
  OBVIOUS
<1>. HIDE DEF x
<1>4. /\ queue' \in Seq(Command)
      /\ Len(queue') = Len(queue)
      /\ \A d \in 1..Len(queue) : d # c => queue'[d] = queue[d]
      /\ queue'[c] = x
  BY <1>2, <1>3, QueueUpdate
<1>. QED  BY <1>4 DEF x

(* A reported result does too. *)
LEMMA QueueSave ==
  ASSUME queue \in Seq(Command), NEW c \in 1..Len(queue), NEW s \in CommandState,
         queue' = [queue EXCEPT ![c].state = s]
  PROVE  /\ queue' \in Seq(Command)
         /\ Len(queue') = Len(queue)
         /\ \A d \in 1..Len(queue) : d # c => queue'[d] = queue[d]
         /\ queue'[c] = [queue[c] EXCEPT !.state = s]
<1>. DEFINE x == [queue[c] EXCEPT !.state = s]
<1>1. queue[c] \in Command
  BY QueueFacts
<1>2. x \in Command
  BY <1>1, Zenon DEF Command, CommandState
<1>3. queue' = [queue EXCEPT ![c] = x]
  OBVIOUS
<1>. HIDE DEF x
<1>4. /\ queue' \in Seq(Command)
      /\ Len(queue') = Len(queue)
      /\ \A d \in 1..Len(queue) : d # c => queue'[d] = queue[d]
      /\ queue'[c] = x
  BY <1>2, <1>3, QueueUpdate
<1>. QED  BY <1>4 DEF x

(* The first state is typed. *)
LEMMA InitTypes == Init => TypeOK /\ Busy
<1> SUFFICES ASSUME Init PROVE TypeOK /\ Busy
  OBVIOUS
<1>1. << >> \in Seq(Command)
  BY EmptySeq
<1>. QED  BY <1>1 DEF Init, TypeOK, Busy, IdleRequest, IdleHandler, IdleAgent

RequestType == [pc : {"idle", "checked", "reserved"}, inst : Instances \cup {None},
                node : Nodes \cup {None}, port : Ports \cup {None}]
HandlerType == [pc : {"idle", "received", "loaded", "saved", "released"},
                cmd : Nat \cup {None}, ok : BOOLEAN]
AgentType == [pc : {"idle", "claimed", "executed", "posted"}, cmd : Nat \cup {None},
              ok : BOOLEAN, at : Handlers \cup {None}]

(* The count of failed statements is a number. *)
LEMMA FailsType == TypeOK /\ Fails => failures' \in Nat
BY DEF TypeOK, Fails

(* Types, through createServer and the queueing of commands. *)
LEMMA RequestStepTypes == TypeOK /\ Busy /\ RequestNext => TypeOK' /\ Busy'
<1> SUFFICES ASSUME TypeOK, Busy, RequestNext PROVE TypeOK' /\ Busy'
  OBVIOUS
<1> USE DEF rowVars, hostVars, detectorVars, faultVars
<1>1. queue \in Seq(Command) /\ Len(queue) \in Nat
  BY QueueFacts DEF TypeOK
<1>2. ASSUME NEW r \in Requests, NEW i \in Instances, NEW n \in Nodes, NEW p \in Ports,
             CheckServer(r, i, n, p)
      PROVE  TypeOK' /\ Busy'
  BY <1>2, FailsType DEF CheckServer, TypeOK, Busy
<1>3. ASSUME NEW r \in Requests, ReserveInstanceSlot(r) PROVE TypeOK' /\ Busy'
  <2>1. request[r].inst \in Instances /\ request[r].node \in Nodes /\ request[r].port \in Ports
    BY <1>3 DEF ReserveInstanceSlot, Busy
  <2>2. \/ /\ slots' = slots \cup {request[r].inst}
           /\ request' = [request EXCEPT ![r].pc = "reserved"]
        \/ /\ request' = [request EXCEPT ![r] = IdleRequest]
           /\ slots' = slots
    BY <1>3 DEF ReserveInstanceSlot
  <2>3. slots' \subseteq Instances
    BY <2>1, <2>2 DEF TypeOK
  <2>4. request' \in [Requests -> RequestType]
    <3>1. request \in [Requests -> RequestType] /\ IdleRequest \in RequestType
      BY DEF IdleRequest, TypeOK, RequestType
    <3>2. CASE request' = [request EXCEPT ![r].pc = "reserved"]
      BY <3>1, <3>2 DEF RequestType
    <3>3. CASE request' = [request EXCEPT ![r] = IdleRequest]
      <4>. HIDE DEF RequestType
      <4>. QED  BY <3>1, <3>3
    <3>. QED  BY <2>2, <3>2, <3>3
  <2>5. ASSUME NEW q \in Requests, request'[q].pc # "idle"
        PROVE  /\ request[q].pc # "idle" /\ request'[q].inst = request[q].inst
               /\ request'[q].node = request[q].node /\ request'[q].port = request[q].port
    <3>1. request[r].pc # "idle" /\ request \in [Requests -> RequestType]
      BY <1>3 DEF ReserveInstanceSlot, TypeOK, RequestType
    <3>. QED  BY <2>2, <2>5, <3>1 DEF IdleRequest, RequestType
  <2>6. Busy'
    BY <1>3, <2>5 DEF ReserveInstanceSlot, Busy
  <2>. QED  BY <1>3, <2>3, <2>4, <2>6 DEF ReserveInstanceSlot, TypeOK, RequestType
<1>4. ASSUME NEW r \in Requests, InsertServer(r) PROVE TypeOK' /\ Busy'
  <2>1. request[r].inst \in Instances /\ request[r].node \in Nodes /\ request[r].port \in Ports
    BY <1>4 DEF InsertServer, Busy
  <2>2. /\ queue' \in Seq(Command)
        /\ Len(queue') = Len(queue) + 1
    <3>1. "CREATE_SERVER" \in Kinds
      BY DEF Kinds
    <3>. QED  BY <1>1, <1>4, <2>1, <3>1, QueueAppend DEF InsertServer
  <2>3. /\ status' \in [Instances -> {"absent", "CREATING", "ACTIVE", "STOPPED", "CRASHED",
                                      "QUARANTINED"}]
        /\ node' \in [Instances -> Nodes \cup {None}]
        /\ port' \in [Instances -> Ports \cup {None}]
        /\ request' \in [Requests -> RequestType]
    BY <1>4, <2>1 DEF InsertServer, IdleRequest, TypeOK, RequestType
  <2>4. Busy'
    BY <1>1, <1>4, <2>2 DEF InsertServer, IdleRequest, TypeOK, Busy
  <2>. QED  BY <1>4, <2>2, <2>3, <2>4 DEF InsertServer, TypeOK, RequestType
<1>5. ASSUME NEW r \in Requests, RejectServer(r) PROVE TypeOK' /\ Busy'
  BY <1>5 DEF RejectServer, IdleRequest, TypeOK, Busy
<1>7. ASSUME NEW r \in Requests, RejectServerLeaks(r) PROVE TypeOK' /\ Busy'
  BY <1>7, FailsType DEF RejectServerLeaks, IdleRequest, TypeOK, Busy
<1>6. ASSUME NEW i \in Instances, NEW kind \in UserCommands, QueueCommand(i, kind)
      PROVE  TypeOK' /\ Busy'
  <2>1. node[i] \in Nodes /\ kind \in Kinds
    BY <1>6, UserCommandsAssumption DEF QueueCommand, TypeOK
  <2>2. /\ queue' \in Seq(Command)
        /\ Len(queue') = Len(queue) + 1
    BY <1>1, <1>6, <2>1, QueueAppend DEF QueueCommand
  <2>3. Busy'
    BY <1>1, <1>6, <2>2 DEF QueueCommand, Busy
  <2>. QED  BY <1>6, <2>2, <2>3 DEF QueueCommand, TypeOK
<1>. QED  BY <1>2, <1>3, <1>4, <1>5, <1>6, <1>7 DEF RequestNext

(* A handler that moves on is typed. *)
LEMMA HandlerRecord ==
  ASSUME NEW pc \in {"received", "loaded", "saved", "released"}, NEW c \in Nat,
         NEW ok \in BOOLEAN
  PROVE  [pc |-> pc, cmd |-> c, ok |-> ok] \in HandlerType
BY Zenon DEF HandlerType

(* Types, through each step of an agent. *)
LEMMA AgentStepTypes == TypeOK /\ Busy /\ AgentNext => TypeOK' /\ Busy'
<1> SUFFICES ASSUME TypeOK, Busy, NEW n \in Nodes,
                    \/ \E c \in DOMAIN queue : NextAgentCommand(n, c)
                    \/ ExecuteCommand(n)
                    \/ \E h \in Handlers : CompleteCommand(n, h)
                    \/ LoseCommand(n)
                    \/ GiveUpWaiting(n)
                    \/ RevokeNode(n)
             PROVE  TypeOK' /\ Busy'
  BY DEF AgentNext
<1> USE DEF rowVars, hostVars, detectorVars, faultVars
<1>1. /\ queue \in Seq(Command) /\ Len(queue) \in Nat /\ DOMAIN queue = 1..Len(queue)
      /\ agent \in [Nodes -> AgentType]
      /\ IdleAgent \in AgentType
  BY QueueFacts DEF TypeOK, AgentType, IdleAgent
<1>2. CASE \E c \in DOMAIN queue : NextAgentCommand(n, c)
  <2>1. PICK c \in 1..Len(queue) : NextAgentCommand(n, c)
    BY <1>1, <1>2
  <2>2. queue' \in Seq(Command) /\ Len(queue') = Len(queue)
    BY <1>1, <2>1, QueueClaim DEF NextAgentCommand
  <2>3. agent' \in [Nodes -> AgentType]
    <3>. DEFINE x == [pc |-> "claimed", cmd |-> c, ok |-> FALSE, at |-> None]
    <3>1. agent' = [agent EXCEPT ![n] = x]
      BY <2>1 DEF NextAgentCommand
    <3>2. x \in AgentType
      BY <1>1, <2>1 DEF AgentType
    <3>. HIDE DEF x, AgentType
    <3>. QED  BY <1>1, <3>1, <3>2
  <2>4. Busy'
    <3>1. \A m \in Nodes : agent'[m].pc # "idle" =>
            agent'[m].cmd = c \/ (agent[m].pc # "idle" /\ agent'[m].cmd = agent[m].cmd)
      <4>1. \A m \in Nodes : m # n => agent'[m] = agent[m]
        BY <2>1 DEF NextAgentCommand, TypeOK
      <4>2. agent'[n].cmd = c
        BY <2>1 DEF NextAgentCommand, TypeOK
      <4>. QED  BY <4>1, <4>2
    <3>. QED  BY <1>1, <2>1, <2>2, <3>1 DEF NextAgentCommand, Busy
  <2>. QED  BY <2>1, <2>2, <2>3, <2>4 DEF NextAgentCommand, TypeOK, AgentType
<1>3. CASE ExecuteCommand(n)
  <2>1. PICK after \in {"none", "stopped", "running"}, ok \in BOOLEAN :
          /\ container' = [container EXCEPT ![queue[agent[n].cmd].inst] = after]
          /\ sftpd' \in SftpOutcomes(queue[agent[n].cmd].kind, queue[agent[n].cmd].inst, ok)
          /\ agent' = [agent EXCEPT ![n] = [@ EXCEPT !.pc = "executed", !.ok = ok]]
    BY <1>3 DEF ExecuteCommand
  <2>2. queue[agent[n].cmd].inst \in Instances
    BY <1>1, <1>3, CommandFields, QueueFacts DEF ExecuteCommand, Busy
  <2>4. container' \in [Instances -> {"none", "stopped", "running"}]
    BY <2>1 DEF TypeOK
  <2>5. sftpd' \subseteq Instances
    BY <2>1, <2>2 DEF SftpOutcomes, TypeOK
  <2>6. agent' \in [Nodes -> AgentType] /\ agent'[n].cmd = agent[n].cmd
    <3>. DEFINE x == [agent[n] EXCEPT !.pc = "executed", !.ok = ok]
    <3>1. agent[n] \in AgentType
      BY <1>1
    <3>2. x \in AgentType /\ x.cmd = agent[n].cmd
      <4>. HIDE DEF TypeOK, Busy
      <4>1. x \in AgentType
        BY <3>1, Zenon DEF AgentType
      <4>2. x.cmd = agent[n].cmd
        BY <3>1 DEF AgentType
      <4>. QED  BY <4>1, <4>2
    <3>3. agent' = [agent EXCEPT ![n] = x]
      BY <2>1
    <3>. HIDE DEF x, AgentType
    <3>. QED  BY <1>1, <3>2, <3>3
  <2>7. Busy'
    <3>1. \A m \in Nodes : m # n => agent'[m] = agent[m]
      BY <2>1 DEF TypeOK
    <3>2. agent[n].pc # "idle" /\ UNCHANGED <<request, queue, handler>>
      BY <1>3 DEF ExecuteCommand
    <3>3. \A m \in Nodes : agent'[m].pc # "idle" => agent'[m].cmd \in 1..Len(queue')
      BY <2>6, <3>1, <3>2 DEF Busy
    <3>. QED  BY <3>2, <3>3 DEF Busy
  <2>. QED  BY <1>3, <2>4, <2>5, <2>6, <2>7 DEF ExecuteCommand, TypeOK, AgentType
<1>4. CASE \E h \in Handlers : CompleteCommand(n, h)
  <2>1. PICK h \in Handlers : CompleteCommand(n, h)
    BY <1>4
  <2>2. agent[n].cmd \in 1..Len(queue) /\ agent[n].ok \in BOOLEAN
    BY <1>1, <2>1 DEF CompleteCommand, Busy, AgentType
  <2>3. handler' \in [Handlers -> HandlerType]
    <3>. DEFINE x == [pc |-> "received", cmd |-> agent[n].cmd, ok |-> agent[n].ok]
    <3>1. x \in HandlerType
      BY <1>1, <2>2, HandlerRecord
    <3>2. handler \in [Handlers -> HandlerType] /\ handler' = [handler EXCEPT ![h] = x]
      BY <2>1 DEF CompleteCommand, TypeOK, HandlerType
    <3>. HIDE DEF x, HandlerType
    <3>. QED  BY <3>1, <3>2
  <2>4. agent' \in [Nodes -> AgentType]
        /\ \A m \in Nodes : agent'[m].pc # "idle" => agent[m].pc # "idle"
                                                     /\ agent'[m].cmd = agent[m].cmd
    <3>. DEFINE x == [agent[n] EXCEPT !.pc = "posted", !.at = h]
    <3>1. agent[n] \in AgentType
      BY <1>1
    <3>2. x \in AgentType
      BY <3>1, Zenon DEF AgentType
    <3>3. x.cmd = agent[n].cmd /\ agent[n].pc # "idle"
      BY <2>1, <3>1 DEF CompleteCommand, AgentType
    <3>4. agent' = [agent EXCEPT ![n] = x]
      BY <2>1 DEF CompleteCommand
    <3>. HIDE DEF x, AgentType
    <3>. QED  BY <1>1, <3>2, <3>3, <3>4
  <2>5. Busy'
    BY <1>1, <2>1, <2>2, <2>4 DEF CompleteCommand, Busy, TypeOK
  <2>. QED  BY <2>1, <2>3, <2>4, <2>5 DEF CompleteCommand, TypeOK, AgentType, HandlerType
<1>5. CASE LoseCommand(n) \/ GiveUpWaiting(n)
  <2>1. agent' = [agent EXCEPT ![n] = IdleAgent]
    BY <1>5 DEF LoseCommand, GiveUpWaiting
  <2>2. agent' \in [Nodes -> AgentType]
    <3>. HIDE DEF AgentType
    <3>. QED  BY <1>1, <2>1
  <2>3. losses' \in Nat /\ timeouts' \in Nat
    BY <1>5 DEF LoseCommand, GiveUpWaiting, TypeOK
  <2>4. cut' \subseteq Instances
    <3>1. GiveUpWaiting(n) => queue[agent[n].cmd].inst \in Instances
      BY QueueFacts, CommandFields DEF GiveUpWaiting, Busy, TypeOK
    <3>. QED  BY <1>5, <3>1 DEF LoseCommand, GiveUpWaiting, TypeOK
  <2>5. Busy'
    BY <1>5, <2>1 DEF LoseCommand, GiveUpWaiting, IdleAgent, Busy, TypeOK
  <2>6. UNCHANGED <<status, node, port, sftp, slots, queue, used, request, handler, container,
                    sftpd, revoked, crashes, failures, leaked, found, detections, stomped>>
    BY <1>5 DEF LoseCommand, GiveUpWaiting
  <2>. QED  BY <2>2, <2>3, <2>4, <2>5, <2>6 DEF TypeOK, AgentType
<1>6. CASE RevokeNode(n)
  BY <1>6 DEF RevokeNode, TypeOK, Busy
<1>. QED  BY <1>2, <1>3, <1>4, <1>5, <1>6

(* A handler that ends keeps handlers and agents typed. *)
LEMMA StepAnswer ==
  ASSUME TypeOK, Busy, NEW h \in Handlers, Answer(h)
  PROVE  /\ handler' \in [Handlers -> HandlerType]
         /\ agent' \in [Nodes -> AgentType]
         /\ \A g \in Handlers : handler'[g].pc # "idle" => g # h /\ handler'[g] = handler[g]
         /\ \A n \in Nodes : agent'[n].pc # "idle" => agent'[n] = agent[n]
<1>1. /\ handler \in [Handlers -> HandlerType] /\ IdleHandler \in HandlerType
      /\ agent \in [Nodes -> AgentType] /\ IdleAgent \in AgentType
  BY DEF TypeOK, HandlerType, AgentType, IdleHandler, IdleAgent
<1>2. IdleHandler.pc = "idle" /\ IdleAgent.pc = "idle"
  BY DEF IdleHandler, IdleAgent
<1>. HIDE DEF HandlerType, AgentType, IdleHandler, IdleAgent
<1>. QED  BY <1>1, <1>2 DEF Answer

(* A step of a handler: the same command and result, another step counter. *)
LEMMA StepHandler ==
  ASSUME TypeOK, Busy, NEW h \in Handlers, handler[h].pc # "idle",
         NEW pc \in {"received", "loaded", "saved", "released"},
         handler' = [handler EXCEPT ![h].pc = pc]
  PROVE  /\ handler' \in [Handlers -> HandlerType]
         /\ \A g \in Handlers : g # h => handler'[g] = handler[g]
         /\ handler'[h].pc = pc /\ handler'[h].cmd = handler[h].cmd
         /\ handler'[h].ok = handler[h].ok
<1>. DEFINE x == [handler[h] EXCEPT !.pc = pc]
<1>1. handler \in [Handlers -> HandlerType] /\ handler[h] \in HandlerType
  BY DEF TypeOK, HandlerType
<1>2. x \in HandlerType
  BY <1>1, Zenon DEF HandlerType
<1>3. x.pc = pc /\ x.cmd = handler[h].cmd /\ x.ok = handler[h].ok
  BY <1>1 DEF HandlerType
<1>4. handler' = [handler EXCEPT ![h] = x]
  OBVIOUS
<1>. HIDE DEF x, HandlerType
<1>. QED  BY <1>1, <1>2, <1>3, <1>4

(* Types, through each statement of completeAgentCommand. *)
LEMMA HandlerStepTypes == TypeOK /\ Busy /\ HandlerNext => TypeOK' /\ Busy'
<1> SUFFICES ASSUME TypeOK, Busy, NEW h \in Handlers,
                    \/ LoadCommand(h)
                    \/ RefuseResult(h)
                    \/ SaveCommand(h)
                    \/ ReleaseInstanceSlot(h)
                    \/ UpdateInstance(h)
                    \/ SaveCommandFails(h)
                    \/ ReleaseFails(h)
                    \/ UpdateFails(h)
             PROVE  TypeOK' /\ Busy'
  BY DEF HandlerNext
<1> USE DEF rowVars, hostVars, detectorVars, faultVars
<1>1. queue \in Seq(Command) /\ Len(queue) \in Nat
  BY QueueFacts DEF TypeOK
<1>2. CASE LoadCommand(h)
  <2>1. handler' \in [Handlers -> HandlerType]
        /\ \A g \in Handlers : handler'[g].pc # "idle" =>
             handler[g].pc # "idle" /\ handler'[g].cmd = handler[g].cmd
    BY <1>2, StepHandler DEF LoadCommand
  <2>. QED  BY <1>2, <2>1 DEF LoadCommand, TypeOK, Busy, HandlerType
<1>3. CASE RefuseResult(h)
  <2>1. TypeOK'
    BY <1>3, StepAnswer DEF RefuseResult, TypeOK, HandlerType, AgentType
  <2>2. Busy'
    BY <1>3, StepAnswer DEF RefuseResult, Busy
  <2>. QED  BY <2>1, <2>2
<1>4. CASE SaveCommand(h)
  <2>1. handler[h].pc # "idle" /\ handler[h].cmd \in 1..Len(queue)
    BY <1>4 DEF SaveCommand, Busy
  <2>2. queue' \in Seq(Command) /\ Len(queue') = Len(queue)
    <3>1. PICK s \in CommandState : queue' = [queue EXCEPT ![handler[h].cmd].state = s]
      BY <1>4 DEF SaveCommand, CommandState
    <3>. QED  BY <1>1, <2>1, <3>1, QueueSave
  <2>3. handler' \in [Handlers -> HandlerType]
        /\ \A g \in Handlers : handler'[g].pc # "idle" =>
             handler[g].pc # "idle" /\ handler'[g].cmd = handler[g].cmd
    BY <1>4, <2>1, StepHandler DEF SaveCommand
  <2>4. Busy'
    BY <1>4, <2>2, <2>3 DEF SaveCommand, Busy
  <2>. QED  BY <1>4, <2>2, <2>3, <2>4 DEF SaveCommand, TypeOK, HandlerType
<1>5. CASE ReleaseInstanceSlot(h)
  <2>1. handler' \in [Handlers -> HandlerType]
        /\ \A g \in Handlers : handler'[g].pc # "idle" =>
             handler[g].pc # "idle" /\ handler'[g].cmd = handler[g].cmd
    BY <1>5, StepHandler DEF ReleaseInstanceSlot
  <2>. QED  BY <1>5, <2>1 DEF ReleaseInstanceSlot, TypeOK, Busy, HandlerType
<1>6. CASE UpdateInstance(h)
  <2>1. handler[h].cmd \in 1..Len(queue)
    BY <1>6 DEF UpdateInstance, Busy
  <2>2. queue[handler[h].cmd].inst \in Instances
    BY <1>1, <2>1, QueueFacts, CommandFields
  <2>3. status' \in [Instances -> {"absent", "CREATING", "ACTIVE", "STOPPED", "CRASHED",
                                   "QUARANTINED"}]
    BY <1>6, <2>2 DEF UpdateInstance, NewStatus, TypeOK
  <2>4. sftp' \subseteq Instances
    BY <1>6, <2>2 DEF UpdateInstance, NewSftp, TypeOK
  <2>5. Answer(h) /\ UNCHANGED <<node, port, slots, queue, used, request, container, sftpd,
                                  revoked, losses, timeouts, crashes, failures, leaked, cut,
                                  found, detections, stomped>>
    BY <1>6 DEF UpdateInstance
  <2>6. TypeOK'
    BY <2>3, <2>4, <2>5, StepAnswer DEF TypeOK, HandlerType, AgentType
  <2>7. Busy'
    BY <2>5, StepAnswer DEF Busy
  <2>. QED  BY <2>6, <2>7
<1>7. CASE SaveCommandFails(h)
  <2>1. handler' \in [Handlers -> HandlerType]
        /\ \A g \in Handlers : handler'[g].pc # "idle" =>
             handler[g].pc # "idle" /\ handler'[g].cmd = handler[g].cmd
    BY <1>7, StepHandler DEF SaveCommandFails
  <2>. QED  BY <1>7, <2>1, FailsType DEF SaveCommandFails, TypeOK, Busy, HandlerType
<1>8. CASE ReleaseFails(h)
  <2>1. handler' \in [Handlers -> HandlerType]
        /\ \A g \in Handlers : handler'[g].pc # "idle" =>
             handler[g].pc # "idle" /\ handler'[g].cmd = handler[g].cmd
    BY <1>8, StepHandler DEF ReleaseFails
  <2>2. handler[h].cmd \in 1..Len(queue)
    BY <1>8 DEF ReleaseFails, Busy
  <2>3. leaked' \subseteq Instances
    BY <1>1, <1>8, <2>2, QueueFacts, CommandFields DEF ReleaseFails, TypeOK
  <2>. QED  BY <1>8, <2>1, <2>3, FailsType DEF ReleaseFails, TypeOK, Busy, HandlerType
<1>9. CASE UpdateFails(h)
  <2>1. handler[h].cmd \in 1..Len(queue)
    BY <1>9 DEF UpdateFails, Busy
  <2>2. cut' \subseteq Instances
    BY <1>1, <1>9, <2>1, QueueFacts, CommandFields DEF UpdateFails, TypeOK
  <2>3. TypeOK'
    BY <1>9, <2>2, StepAnswer, FailsType DEF UpdateFails, TypeOK, HandlerType, AgentType
  <2>4. Busy'
    BY <1>9, StepAnswer DEF UpdateFails, Busy
  <2>. QED  BY <2>3, <2>4
<1>. QED  BY <1>2, <1>3, <1>4, <1>5, <1>6, <1>7, <1>8, <1>9

(* Types, when five minutes go by. *)
LEMMA ExpiryTypes ==
  ASSUME TypeOK, Busy, NEW c \in DOMAIN queue, ClaimExpires(c)
  PROVE  TypeOK' /\ Busy'
<1> USE DEF rowVars, hostVars, detectorVars, faultVars
<1>1. queue \in Seq(Command) /\ c \in 1..Len(queue)
  BY QueueFacts DEF TypeOK
<1>2. queue' \in Seq(Command) /\ Len(queue') = Len(queue)
  BY <1>1, QueueExpire DEF ClaimExpires
<1>. QED  BY <1>2 DEF ClaimExpires, TypeOK, Busy

(* Types, when the orchestrator dies. *)
LEMMA CrashTypes ==
  ASSUME TypeOK, Busy, OrchestratorCrash
  PROVE  TypeOK' /\ Busy'
<1> USE DEF rowVars, hostVars, detectorVars
<1>1. agent' \in [Nodes -> AgentType]
      /\ \A n \in Nodes : agent'[n].pc # "idle" => agent'[n] = agent[n]
  <2>1. agent \in [Nodes -> AgentType] /\ IdleAgent \in AgentType /\ IdleAgent.pc = "idle"
    BY DEF TypeOK, AgentType, IdleAgent
  <2>. HIDE DEF AgentType, IdleAgent
  <2>. QED  BY <2>1 DEF OrchestratorCrash
<1>2. leaked' \subseteq Instances
  BY DEF OrchestratorCrash, TypeOK, Busy
<1>3. cut' \subseteq Instances
  <2>1. \A h \in Handlers : handler[h].pc \in {"saved", "released"} =>
          queue[handler[h].cmd].inst \in Instances
    BY QueueFacts, CommandFields DEF Busy, TypeOK
  <2>. QED  BY <2>1 DEF OrchestratorCrash, TypeOK
<1>4. request' \in [Requests -> RequestType] /\ \A r \in Requests : request'[r].pc = "idle"
  BY DEF OrchestratorCrash, IdleRequest, RequestType
<1>5. handler' \in [Handlers -> HandlerType] /\ \A h \in Handlers : handler'[h].pc = "idle"
  BY DEF OrchestratorCrash, IdleHandler, HandlerType
<1>6. crashes' \in Nat
  BY DEF OrchestratorCrash, TypeOK
<1>7. UNCHANGED <<status, node, port, sftp, slots, queue, used, container, sftpd, revoked,
                  losses, timeouts, failures, detections, stomped>>
        /\ found' \in [Instances -> {"none", "plain", "sftp"}]
  BY DEF OrchestratorCrash
<1>8. Busy'
  BY <1>1, <1>4, <1>5, <1>7 DEF Busy
<1>. QED  BY <1>1, <1>2, <1>3, <1>4, <1>5, <1>6, <1>7, <1>8
          DEF TypeOK, RequestType, HandlerType, AgentType

(* Types, through the detector's read and write. *)
LEMMA DetectorTypes ==
  ASSUME TypeOK, Busy, NEW i \in Instances, LoadCrashed(i) \/ QuarantineServer(i)
  PROVE  TypeOK' /\ Busy'
<1> USE DEF rowVars, hostVars, faultVars
<1>1. CASE LoadCrashed(i)
  BY <1>1 DEF LoadCrashed, TypeOK, Busy
<1>2. CASE QuarantineServer(i)
  <2>1. /\ status' \in [Instances -> {"absent", "CREATING", "ACTIVE", "STOPPED", "CRASHED",
                                      "QUARANTINED"}]
        /\ sftp' \subseteq Instances
        /\ stomped' \subseteq Instances
        /\ found' \in [Instances -> {"none", "plain", "sftp"}]
    BY <1>2 DEF QuarantineServer, TypeOK
  <2>2. UNCHANGED <<node, port, slots, queue, used, request, handler, agent, container, sftpd,
                    revoked, losses, timeouts, crashes, failures, leaked, cut,
                    detections>>
    BY <1>2 DEF QuarantineServer
  <2>. QED  BY <2>1, <2>2 DEF TypeOK, Busy
<1>. QED  BY <1>1, <1>2

(* Every step keeps every type. *)
LEMMA StepTypes == TypeOK /\ Busy /\ [Next]_vars => TypeOK' /\ Busy'
<1>1. TypeOK /\ Busy /\ UNCHANGED vars => TypeOK' /\ Busy'
  BY DEF TypeOK, Busy, vars, rowVars, hostVars, detectorVars, faultVars
<1>. QED  BY <1>1, RequestStepTypes, AgentStepTypes, HandlerStepTypes, ExpiryTypes, DetectorTypes,
          CrashTypes DEF Next

(* Every variable keeps its type: commands, requests, results and slots name servers,      *)
(* nodes and commands that exist.                                                          *)
THEOREM TypeCorrect == Spec => []TypeOK
BY InitTypes, StepTypes, PTL DEF Spec

-------------------------------------------------------------------------------
(* The slot quota. *)

(* The steps that touch slots. *)
LEMMA SlotSteps ==
  ASSUME [Next]_vars
  PROVE  \/ UNCHANGED slots
         \/ \E r \in Requests : ReserveInstanceSlot(r) \/ RejectServer(r)
         \/ \E h \in Handlers : ReleaseInstanceSlot(h)
<1>1. CASE UNCHANGED vars
  BY <1>1 DEF vars
<1>2. CASE RequestNext
  BY <1>2 DEF RequestNext, CheckServer, InsertServer, RejectServerLeaks, QueueCommand
<1>3. CASE AgentNext
  BY <1>3 DEF AgentNext, NextAgentCommand, ExecuteCommand, CompleteCommand, LoseCommand,
              GiveUpWaiting, RevokeNode
<1>4. CASE HandlerNext
  BY <1>4 DEF HandlerNext, LoadCommand, RefuseResult, SaveCommand, UpdateInstance,
              SaveCommandFails, ReleaseFails, UpdateFails
<1>5. CASE \E c \in DOMAIN queue : ClaimExpires(c)
  BY <1>5 DEF ClaimExpires
<1>6. CASE OrchestratorCrash
  BY <1>6 DEF OrchestratorCrash
<1>7. CASE \E i \in Instances : LoadCrashed(i) \/ QuarantineServer(i)
  BY <1>7 DEF LoadCrashed, QuarantineServer
<1>. QED  BY <1>1, <1>2, <1>3, <1>4, <1>5, <1>6, <1>7 DEF Next

(* Every step keeps the slot quota. *)
LEMMA StepSlotQuota ==
  ASSUME TypeOK, SlotQuota, [Next]_vars
  PROVE  SlotQuota'
<1>1. IsFiniteSet(slots) /\ Cardinality(slots) \in Nat
  BY InstancesAssumption, FS_Subset, FS_CardinalityType DEF TypeOK
<1>2. CASE slots' \subseteq slots
  <2>1. Cardinality(slots') <= Cardinality(slots) /\ Cardinality(slots') \in Nat
    BY <1>1, <1>2, FS_Subset, FS_CardinalityType
  <2>. QED  BY <1>1, <2>1, BoundsAssumption DEF SlotQuota
<1>3. CASE \E r \in Requests : ReserveInstanceSlot(r)
  <2>1. PICK r \in Requests : ReserveInstanceSlot(r)
    BY <1>3
  <2>2. CASE Cardinality(slots) < MaxSlots
    <3>1. slots' = slots \cup {request[r].inst}
      BY <2>1, <2>2 DEF ReserveInstanceSlot
    <3>2. Cardinality(slots') <= Cardinality(slots) + 1 /\ Cardinality(slots') \in Nat
      <4>1. /\ IsFiniteSet(slots \cup {request[r].inst})
            /\ Cardinality(slots \cup {request[r].inst}) =
                 IF request[r].inst \in slots THEN Cardinality(slots) ELSE Cardinality(slots) + 1
        BY <1>1, FS_AddElement
      <4>. QED  BY <1>1, <3>1, <4>1
    <3>. QED  BY <1>1, <2>2, <3>2, BoundsAssumption DEF SlotQuota
  <2>3. CASE ~(Cardinality(slots) < MaxSlots)
    BY <1>2, <2>1, <2>3 DEF ReserveInstanceSlot
  <2>. QED  BY <2>2, <2>3
<1>4. CASE (\E r \in Requests : RejectServer(r)) \/ (\E h \in Handlers : ReleaseInstanceSlot(h))
  BY <1>2, <1>4 DEF RejectServer, ReleaseInstanceSlot
<1>. QED  BY <1>2, <1>3, <1>4, SlotSteps

(* The organization never holds more slots than max_active_instances, for any quota and    *)
(* any interleaving of createServer requests, results and crashes.                         *)
THEOREM SlotQuotaHolds == Spec => []SlotQuota
<1> DEFINE I == TypeOK /\ Busy /\ SlotQuota
<1>1. Init => I
  <2>1. Init => SlotQuota
    BY FS_EmptySet, BoundsAssumption DEF Init, SlotQuota
  <2>. QED  BY <2>1, InitTypes
<1>2. I /\ [Next]_vars => I'
  BY StepTypes, StepSlotQuota
<1>. QED  BY <1>1, <1>2, PTL DEF Spec

-------------------------------------------------------------------------------
(* The queue only grows, and a command keeps its kind, server and node. *)

(* The steps that touch the queue. *)
LEMMA QueueSteps ==
  ASSUME TypeOK, Busy, [Next]_vars
  PROVE  \/ UNCHANGED queue
         \/ \E r \in Requests : InsertServer(r)
         \/ \E i \in Instances, kind \in UserCommands : QueueCommand(i, kind)
         \/ \E n \in Nodes, c \in 1..Len(queue) : NextAgentCommand(n, c)
         \/ \E c \in 1..Len(queue) : ClaimExpires(c)
         \/ \E h \in Handlers : SaveCommand(h)
<1>1. DOMAIN queue = 1..Len(queue)
  BY QueueFacts DEF TypeOK
<1>2. CASE UNCHANGED vars
  BY <1>2 DEF vars
<1>3. CASE RequestNext
  BY <1>3 DEF RequestNext, CheckServer, ReserveInstanceSlot, RejectServer, RejectServerLeaks
<1>4. CASE AgentNext
  BY <1>1, <1>4 DEF AgentNext, ExecuteCommand, CompleteCommand, LoseCommand, GiveUpWaiting,
                    RevokeNode
<1>5. CASE HandlerNext
  BY <1>5 DEF HandlerNext, LoadCommand, RefuseResult, ReleaseInstanceSlot, UpdateInstance,
              SaveCommandFails, ReleaseFails, UpdateFails
<1>6. CASE \E c \in DOMAIN queue : ClaimExpires(c)
  BY <1>1, <1>6
<1>7. CASE OrchestratorCrash
  BY <1>7 DEF OrchestratorCrash
<1>8. CASE \E i \in Instances : LoadCrashed(i) \/ QuarantineServer(i)
  BY <1>8 DEF LoadCrashed, QuarantineServer
<1>. QED  BY <1>2, <1>3, <1>4, <1>5, <1>6, <1>7, <1>8 DEF Next

(* What an insertion appends. *)
LEMMA InsertAppends ==
  ASSUME TypeOK, Busy, NEW r \in Requests, InsertServer(r)
  PROVE  /\ request[r].inst \in Instances /\ request[r].node \in Nodes
         /\ Len(queue') = Len(queue) + 1
         /\ \A c \in 1..Len(queue) : queue'[c] = queue[c]
         /\ queue'[Len(queue) + 1] = Pending("CREATE_SERVER", request[r].inst, request[r].node)
<1>1. request[r].inst \in Instances /\ request[r].node \in Nodes
  BY DEF InsertServer, Busy
<1>2. "CREATE_SERVER" \in Kinds
  BY DEF Kinds
<1>. QED  BY <1>1, <1>2, QueueAppend DEF InsertServer, TypeOK

(* An operator's command is appended. *)
LEMMA QueueCommandAppends ==
  ASSUME TypeOK, NEW i \in Instances, NEW kind \in UserCommands, QueueCommand(i, kind)
  PROVE  /\ node[i] \in Nodes
         /\ Len(queue') = Len(queue) + 1
         /\ \A c \in 1..Len(queue) : queue'[c] = queue[c]
         /\ queue'[Len(queue) + 1] = Pending(kind, i, node[i])
<1>1. node[i] \in Nodes /\ kind \in Kinds
  BY UserCommandsAssumption DEF QueueCommand, TypeOK
<1>. QED  BY <1>1, QueueAppend DEF QueueCommand, TypeOK

(* One changed command that keeps its identity: every command keeps its own. *)
LEMMA QueueStaysAt ==
  ASSUME Len(queue) \in Nat, Len(queue') = Len(queue), NEW c \in 1..Len(queue),
         \A d \in 1..Len(queue) : queue[d].tries \in Nat,
         \A d \in 1..Len(queue) : d # c => queue'[d] = queue[d],
         queue'[c].kind = queue[c].kind, queue'[c].inst = queue[c].inst,
         queue'[c].node = queue[c].node, queue'[c].tries >= queue[c].tries
  PROVE  /\ Len(queue) \in Nat /\ Len(queue') \in Nat /\ Len(queue) <= Len(queue')
         /\ \A d \in 1..Len(queue) :
              /\ queue'[d].kind = queue[d].kind
              /\ queue'[d].inst = queue[d].inst
              /\ queue'[d].node = queue[d].node
              /\ queue'[d].tries >= queue[d].tries
<1>1. ASSUME NEW d \in 1..Len(queue)
      PROVE  /\ queue'[d].kind = queue[d].kind
             /\ queue'[d].inst = queue[d].inst
             /\ queue'[d].node = queue[d].node
             /\ queue'[d].tries >= queue[d].tries
  <2>1. CASE d = c
    BY <2>1
  <2>2. CASE d # c
    <3>1. queue'[d] = queue[d] /\ queue[d].tries \in Nat
      BY <2>2
    <3>2. queue[d].tries >= queue[d].tries
      BY <3>1
    <3>. QED  BY <3>1, <3>2
  <2>. QED  BY <2>1, <2>2
<1>. QED  BY <1>1

(* No step removes a command or changes its kind, server or node. *)
LEMMA QueueStays ==
  ASSUME TypeOK, Busy, [Next]_vars
  PROVE  /\ Len(queue) \in Nat /\ Len(queue') \in Nat /\ Len(queue) <= Len(queue')
         /\ \A c \in 1..Len(queue) :
              /\ queue'[c].kind = queue[c].kind
              /\ queue'[c].inst = queue[c].inst
              /\ queue'[c].node = queue[c].node
              /\ queue'[c].tries >= queue[c].tries
<1>1. queue \in Seq(Command) /\ Len(queue) \in Nat
  BY QueueFacts DEF TypeOK
<1>2. \A c \in 1..Len(queue) : queue[c] \in Command /\ queue[c].tries \in Nat
  BY <1>1, QueueFacts, CommandFields
<1>3. CASE UNCHANGED queue
  BY <1>1, <1>2, <1>3
<1>4. CASE \E r \in Requests : InsertServer(r)
  BY <1>1, <1>2, <1>4, InsertAppends
<1>5. CASE \E i \in Instances, kind \in UserCommands : QueueCommand(i, kind)
  BY <1>1, <1>2, <1>5, QueueCommandAppends
<1>6. CASE \E n \in Nodes, c \in 1..Len(queue) : NextAgentCommand(n, c)
  <2>1. PICK n \in Nodes, c \in 1..Len(queue) : NextAgentCommand(n, c)
    BY <1>6
  <2>2. /\ Len(queue') = Len(queue)
        /\ \A d \in 1..Len(queue) : d # c => queue'[d] = queue[d]
        /\ queue'[c] = [queue[c] EXCEPT !.state = "RUNNING", !.stale = FALSE,
                                        !.tries = queue[c].tries + 1]
    BY <1>1, <2>1, QueueClaim DEF NextAgentCommand
  <2>3. /\ queue'[c].kind = queue[c].kind
        /\ queue'[c].inst = queue[c].inst
        /\ queue'[c].node = queue[c].node
        /\ queue'[c].tries = queue[c].tries + 1
    BY <1>2, <2>2 DEF Command
  <2>4. queue'[c].tries >= queue[c].tries
    BY <1>2, <2>3
  <2>. QED  BY <1>1, <1>2, <2>2, <2>3, <2>4, QueueStaysAt
<1>7. CASE \E c \in 1..Len(queue) : ClaimExpires(c)
  <2>1. PICK c \in 1..Len(queue) : ClaimExpires(c)
    BY <1>7
  <2>2. /\ Len(queue') = Len(queue)
        /\ \A d \in 1..Len(queue) : d # c => queue'[d] = queue[d]
        /\ queue'[c] = [queue[c] EXCEPT !.stale = TRUE]
    BY <1>1, <2>1, QueueExpire DEF ClaimExpires
  <2>3. /\ queue'[c].kind = queue[c].kind
        /\ queue'[c].inst = queue[c].inst
        /\ queue'[c].node = queue[c].node
        /\ queue'[c].tries = queue[c].tries
    BY <1>2, <2>2 DEF Command
  <2>4. queue'[c].tries >= queue[c].tries
    BY <1>2, <2>3
  <2>. QED  BY <1>1, <1>2, <2>2, <2>3, <2>4, QueueStaysAt
<1>8. CASE \E h \in Handlers : SaveCommand(h)
  <2>1. PICK h \in Handlers : SaveCommand(h)
    BY <1>8
  <2>2. handler[h].cmd \in 1..Len(queue)
    BY <2>1 DEF SaveCommand, Busy
  <2>3. PICK s \in CommandState : queue' = [queue EXCEPT ![handler[h].cmd].state = s]
    BY <2>1 DEF SaveCommand, CommandState
  <2>4. /\ Len(queue') = Len(queue)
        /\ \A d \in 1..Len(queue) : d # handler[h].cmd => queue'[d] = queue[d]
        /\ queue'[handler[h].cmd] = [queue[handler[h].cmd] EXCEPT !.state = s]
    BY <1>1, <2>2, <2>3, QueueSave
  <2>5. /\ queue'[handler[h].cmd].kind = queue[handler[h].cmd].kind
        /\ queue'[handler[h].cmd].inst = queue[handler[h].cmd].inst
        /\ queue'[handler[h].cmd].node = queue[handler[h].cmd].node
        /\ queue'[handler[h].cmd].tries = queue[handler[h].cmd].tries
    BY <1>2, <2>2, <2>4 DEF Command
  <2>6. queue'[handler[h].cmd].tries >= queue[handler[h].cmd].tries
    BY <1>2, <2>2, <2>5
  <2>. QED  BY <1>1, <1>2, <2>2, <2>4, <2>5, <2>6, QueueStaysAt
<1>. QED  BY <1>3, <1>4, <1>5, <1>6, <1>7, <1>8, QueueSteps

-------------------------------------------------------------------------------
(* What a step does to one handler, one agent or one command. *)

(* A handler at work has not moved, has just been handed a result, or goes on to its next    *)
(* statement.                                                                               *)
LEMMA HandlerMoves ==
  ASSUME TypeOK, Busy, [Next]_vars, NEW h \in Handlers, handler'[h].pc # "idle"
  PROVE  \/ handler'[h] = handler[h]
         \/ \E n \in Nodes : /\ CompleteCommand(n, h) /\ handler'[h].pc = "received"
                             /\ handler'[h].cmd = agent[n].cmd /\ handler'[h].ok = agent[n].ok
         \/ /\ handler'[h].cmd = handler[h].cmd /\ handler'[h].ok = handler[h].ok
            /\ \/ LoadCommand(h) /\ handler'[h].pc = "loaded"
               \/ (SaveCommand(h) \/ SaveCommandFails(h)) /\ handler'[h].pc = "saved"
               \/ (ReleaseInstanceSlot(h) \/ ReleaseFails(h)) /\ handler'[h].pc = "released"
<1>1. CASE UNCHANGED handler
  BY <1>1
<1>2. CASE \E n \in Nodes, g \in Handlers : CompleteCommand(n, g)
  <2>1. PICK n \in Nodes, g \in Handlers : CompleteCommand(n, g)
    BY <1>2
  <2>. QED  BY <2>1 DEF CompleteCommand, TypeOK
<1>3. CASE HandlerNext
  <2>1. PICK g \in Handlers : \/ LoadCommand(g)
                              \/ RefuseResult(g)
                              \/ SaveCommand(g)
                              \/ ReleaseInstanceSlot(g)
                              \/ UpdateInstance(g)
                              \/ SaveCommandFails(g)
                              \/ ReleaseFails(g)
                              \/ UpdateFails(g)
    BY <1>3 DEF HandlerNext
  <2>2. CASE LoadCommand(g)
    <3>1. /\ \A f \in Handlers : f # g => handler'[f] = handler[f]
          /\ handler'[g].pc = "loaded" /\ handler'[g].cmd = handler[g].cmd
          /\ handler'[g].ok = handler[g].ok
      BY <2>2, StepHandler DEF LoadCommand
    <3>. QED  BY <2>2, <3>1
  <2>3. CASE SaveCommand(g) \/ SaveCommandFails(g)
    <3>1. /\ \A f \in Handlers : f # g => handler'[f] = handler[f]
          /\ handler'[g].pc = "saved" /\ handler'[g].cmd = handler[g].cmd
          /\ handler'[g].ok = handler[g].ok
      BY <2>3, StepHandler DEF SaveCommand, SaveCommandFails
    <3>. QED  BY <2>3, <3>1
  <2>4. CASE ReleaseInstanceSlot(g) \/ ReleaseFails(g)
    <3>1. /\ \A f \in Handlers : f # g => handler'[f] = handler[f]
          /\ handler'[g].pc = "released" /\ handler'[g].cmd = handler[g].cmd
          /\ handler'[g].ok = handler[g].ok
      BY <2>4, StepHandler DEF ReleaseInstanceSlot, ReleaseFails
    <3>. QED  BY <2>4, <3>1
  <2>5. CASE RefuseResult(g) \/ UpdateInstance(g) \/ UpdateFails(g)
    BY <2>5, StepAnswer DEF RefuseResult, UpdateInstance, UpdateFails
  <2>. QED  BY <2>1, <2>2, <2>3, <2>4, <2>5
<1>4. CASE OrchestratorCrash
  BY <1>4 DEF OrchestratorCrash, IdleHandler
<1>5. RequestNext => UNCHANGED handler
  BY DEF RequestNext, CheckServer, ReserveInstanceSlot, InsertServer, RejectServer,
         RejectServerLeaks, QueueCommand
<1>6. AgentNext => UNCHANGED handler \/ \E n \in Nodes, g \in Handlers : CompleteCommand(n, g)
  BY DEF AgentNext, NextAgentCommand, ExecuteCommand, LoseCommand, GiveUpWaiting, RevokeNode
<1>7. (\E c \in DOMAIN queue : ClaimExpires(c)) => UNCHANGED handler
  BY DEF ClaimExpires
<1>8. (\E i \in Instances : LoadCrashed(i) \/ QuarantineServer(i)) => UNCHANGED handler
  BY DEF LoadCrashed, QuarantineServer
<1>. QED  BY <1>1, <1>2, <1>3, <1>4, <1>5, <1>6, <1>7, <1>8 DEF Next, vars

(* So it keeps its command and the result, or has just been handed both. *)
LEMMA HandlerBy ==
  ASSUME TypeOK, Busy, [Next]_vars, NEW h \in Handlers, handler'[h].pc # "idle"
  PROVE  \/ /\ handler[h].pc # "idle" /\ handler'[h].cmd = handler[h].cmd
            /\ handler'[h].ok = handler[h].ok
         \/ \E n \in Nodes : /\ CompleteCommand(n, h)
                             /\ handler'[h].cmd = agent[n].cmd /\ handler'[h].ok = agent[n].ok
<1>1. LoadCommand(h) \/ SaveCommand(h) \/ SaveCommandFails(h) \/ ReleaseInstanceSlot(h)
        \/ ReleaseFails(h) => handler[h].pc # "idle"
  BY DEF LoadCommand, SaveCommand, SaveCommandFails, ReleaseInstanceSlot, ReleaseFails
<1>. QED  BY <1>1, HandlerMoves

(* What docker made of a command: the container, and the agent's result. *)
LEMMA Executes ==
  ASSUME TypeOK, Busy, NEW n \in Nodes, ExecuteCommand(n)
  PROVE  /\ agent[n].pc = "claimed" /\ agent[n].cmd \in 1..Len(queue)
         /\ queue[agent[n].cmd].inst \in Instances
         /\ UNCHANGED <<queue, handler, status, sftp, node, slots, request, stomped>>
         /\ agent'[n].pc = "executed" /\ agent'[n].cmd = agent[n].cmd
         /\ agent'[n].at = agent[n].at
         /\ \A m \in Nodes : m # n => agent'[m] = agent[m]
         /\ Outcome(queue[agent[n].cmd].kind, container[queue[agent[n].cmd].inst],
                    container'[queue[agent[n].cmd].inst], agent'[n].ok)
         /\ \A i \in Instances : i # queue[agent[n].cmd].inst => container'[i] = container[i]
         /\ sftpd' \in SftpOutcomes(queue[agent[n].cmd].kind, queue[agent[n].cmd].inst,
                                    agent'[n].ok)
<1>. DEFINE c == agent[n].cmd
            i == queue[c].inst
<1>1. c \in 1..Len(queue) /\ i \in Instances
  BY QueueFacts, CommandFields DEF ExecuteCommand, Busy, TypeOK
<1>2. PICK after \in {"none", "stopped", "running"}, ok \in BOOLEAN :
        /\ Outcome(queue[c].kind, container[i], after, ok)
        /\ container' = [container EXCEPT ![i] = after]
        /\ sftpd' \in SftpOutcomes(queue[c].kind, i, ok)
        /\ agent' = [agent EXCEPT ![n] = [agent[n] EXCEPT !.pc = "executed", !.ok = ok]]
  BY DEF ExecuteCommand
<1>3. container'[i] = after /\ \A j \in Instances : j # i => container'[j] = container[j]
  BY <1>1, <1>2 DEF TypeOK
<1>4. /\ agent'[n].pc = "executed" /\ agent'[n].cmd = agent[n].cmd /\ agent'[n].ok = ok
      /\ agent'[n].at = agent[n].at
      /\ \A m \in Nodes : m # n => agent'[m] = agent[m]
  BY <1>2 DEF TypeOK
<1>5. UNCHANGED <<queue, handler, status, sftp, node, slots, request, stomped>>
  BY DEF ExecuteCommand, rowVars, detectorVars
<1>. QED  BY <1>1, <1>2, <1>3, <1>4, <1>5 DEF ExecuteCommand

(* An agent at work is where it was, has just claimed its command, executed it or posted its *)
(* result.                                                                                   *)
LEMMA AgentBy ==
  ASSUME TypeOK, Busy, [Next]_vars, NEW n \in Nodes, agent'[n].pc # "idle"
  PROVE  \/ agent'[n] = agent[n]
         \/ \E c \in 1..Len(queue) :
              /\ NextAgentCommand(n, c)
              /\ agent'[n].pc = "claimed" /\ agent'[n].cmd = c
         \/ /\ ExecuteCommand(n)
            /\ agent'[n].pc = "executed" /\ agent'[n].cmd = agent[n].cmd
         \/ \E h \in Handlers :
              /\ CompleteCommand(n, h)
              /\ agent'[n].pc = "posted" /\ agent'[n].cmd = agent[n].cmd
              /\ agent'[n].ok = agent[n].ok /\ agent'[n].at = h
              /\ handler'[h].pc = "received" /\ handler'[h].cmd = agent[n].cmd
              /\ handler'[h].ok = agent[n].ok
<1>1. CASE UNCHANGED agent
  BY <1>1
<1>2. CASE AgentNext
  <2>1. PICK m \in Nodes : \/ \E c \in DOMAIN queue : NextAgentCommand(m, c)
                           \/ ExecuteCommand(m)
                           \/ \E h \in Handlers : CompleteCommand(m, h)
                           \/ LoseCommand(m)
                           \/ GiveUpWaiting(m)
                           \/ RevokeNode(m)
    BY <1>2 DEF AgentNext
  <2>2. CASE \E c \in DOMAIN queue : NextAgentCommand(m, c)
    <3>1. PICK c \in 1..Len(queue) : NextAgentCommand(m, c)
      BY <2>2, QueueFacts DEF TypeOK
    <3>. QED  BY <3>1 DEF NextAgentCommand, TypeOK
  <2>3. CASE ExecuteCommand(m)
    BY <2>3, Executes
  <2>4. CASE \E h \in Handlers : CompleteCommand(m, h)
    <3>1. PICK h \in Handlers : CompleteCommand(m, h)
      BY <2>4
    <3>2. \A k \in Nodes : k # m => agent'[k] = agent[k]
      BY <3>1 DEF CompleteCommand, TypeOK
    <3>3. /\ agent'[m].pc = "posted" /\ agent'[m].cmd = agent[m].cmd
          /\ agent'[m].ok = agent[m].ok /\ agent'[m].at = h
          /\ handler'[h].pc = "received" /\ handler'[h].cmd = agent[m].cmd
          /\ handler'[h].ok = agent[m].ok
      BY <3>1 DEF CompleteCommand, TypeOK
    <3>. QED  BY <3>1, <3>2, <3>3
  <2>5. CASE LoseCommand(m) \/ GiveUpWaiting(m)
    BY <2>5 DEF LoseCommand, GiveUpWaiting, IdleAgent, TypeOK
  <2>6. CASE RevokeNode(m)
    BY <2>6 DEF RevokeNode
  <2>. QED  BY <2>1, <2>2, <2>3, <2>4, <2>5, <2>6
<1>3. CASE HandlerNext
  <2>1. UNCHANGED agent \/ \E h \in Handlers : Answer(h)
    BY <1>3 DEF HandlerNext, LoadCommand, RefuseResult, SaveCommand, ReleaseInstanceSlot,
                UpdateInstance, SaveCommandFails, ReleaseFails, UpdateFails
  <2>. QED  BY <1>1, <2>1, StepAnswer
<1>4. CASE OrchestratorCrash
  BY <1>4 DEF OrchestratorCrash, IdleAgent
<1>5. RequestNext => UNCHANGED agent
  BY DEF RequestNext, CheckServer, ReserveInstanceSlot, InsertServer, RejectServer,
         RejectServerLeaks, QueueCommand
<1>6. (\E c \in DOMAIN queue : ClaimExpires(c)) => UNCHANGED agent
  BY DEF ClaimExpires
<1>7. (\E i \in Instances : LoadCrashed(i) \/ QuarantineServer(i)) => UNCHANGED agent
  BY DEF LoadCrashed, QuarantineServer
<1>. QED  BY <1>1, <1>2, <1>3, <1>4, <1>5, <1>6, <1>7 DEF Next, vars

(* A claim: the command runs, and has been delivered once more. *)
LEMMA Claims ==
  ASSUME TypeOK, NEW n \in Nodes, NEW c \in 1..Len(queue), NextAgentCommand(n, c)
  PROVE  /\ queue'[c].state = "RUNNING" /\ queue'[c].tries = queue[c].tries + 1
         /\ Len(queue') = Len(queue)
         /\ \A d \in 1..Len(queue) : d # c => queue'[d] = queue[d]
<1>1. /\ Len(queue') = Len(queue)
      /\ \A d \in 1..Len(queue) : d # c => queue'[d] = queue[d]
      /\ queue'[c] = [queue[c] EXCEPT !.state = "RUNNING", !.stale = FALSE,
                                      !.tries = queue[c].tries + 1]
  BY QueueClaim DEF NextAgentCommand, TypeOK
<1>2. queue[c] \in Command
  BY QueueFacts DEF TypeOK
<1>3. queue'[c].state = "RUNNING" /\ queue'[c].tries = queue[c].tries + 1
  BY <1>1, <1>2 DEF Command
<1>. QED  BY <1>1, <1>3

(* A command keeps its state and its deliveries, is delivered once more, is reported, or is *)
(* new.                                                                                     *)
LEMMA CommandBy ==
  ASSUME TypeOK, Busy, [Next]_vars, NEW c \in 1..Len(queue')
  PROVE  \/ /\ c \in 1..Len(queue)
            /\ queue'[c].state = queue[c].state /\ queue'[c].tries = queue[c].tries
         \/ /\ c \in 1..Len(queue)
            /\ \E n \in Nodes : NextAgentCommand(n, c)
            /\ queue'[c].state = "RUNNING" /\ queue'[c].tries = queue[c].tries + 1
         \/ /\ c \in 1..Len(queue) /\ queue'[c].tries = queue[c].tries
            /\ \E h \in Handlers :
                 /\ SaveCommand(h) /\ handler[h].cmd = c
                 /\ queue'[c].state = IF handler[h].ok THEN "COMPLETED" ELSE "FAILED"
         \/ /\ c = Len(queue) + 1
            /\ \E r \in Requests :
                 /\ InsertServer(r)
                 /\ queue'[c] = Pending("CREATE_SERVER", request[r].inst, request[r].node)
         \/ /\ c = Len(queue) + 1
            /\ \E i \in Instances, kind \in UserCommands :
                 /\ QueueCommand(i, kind)
                 /\ queue'[c] = Pending(kind, i, node[i])
<1>1. queue \in Seq(Command) /\ Len(queue) \in Nat
  BY QueueFacts DEF TypeOK
<1>2. \A d \in 1..Len(queue) : queue[d] \in Command
  BY <1>1, QueueFacts
<1>3. CASE UNCHANGED queue
  BY <1>3
<1>4. CASE \E r \in Requests : InsertServer(r)
  <2>1. PICK r \in Requests : InsertServer(r)
    BY <1>4
  <2>2. queue'[Len(queue) + 1] = Pending("CREATE_SERVER", request[r].inst, request[r].node)
        /\ Len(queue') = Len(queue) + 1
        /\ \A d \in 1..Len(queue) : queue'[d] = queue[d]
    BY <2>1, InsertAppends
  <2>. QED  BY <1>1, <2>1, <2>2
<1>5. CASE \E i \in Instances, kind \in UserCommands : QueueCommand(i, kind)
  <2>1. PICK i \in Instances, kind \in UserCommands : QueueCommand(i, kind)
    BY <1>5
  <2>2. queue'[Len(queue) + 1] = Pending(kind, i, node[i])
        /\ Len(queue') = Len(queue) + 1
        /\ \A d \in 1..Len(queue) : queue'[d] = queue[d]
    BY <2>1, QueueCommandAppends
  <2>. QED  BY <1>1, <2>1, <2>2
<1>6. CASE \E n \in Nodes, d \in 1..Len(queue) : NextAgentCommand(n, d)
  <2>1. PICK n \in Nodes, d \in 1..Len(queue) : NextAgentCommand(n, d)
    BY <1>6
  <2>. QED  BY <2>1, Claims
<1>7. CASE \E d \in 1..Len(queue) : ClaimExpires(d)
  <2>1. PICK d \in 1..Len(queue) : ClaimExpires(d)
    BY <1>7
  <2>2. /\ Len(queue') = Len(queue)
        /\ \A e \in 1..Len(queue) : e # d => queue'[e] = queue[e]
        /\ queue'[d] = [queue[d] EXCEPT !.stale = TRUE]
    BY <1>1, <2>1, QueueExpire DEF ClaimExpires
  <2>3. queue'[d].tries = queue[d].tries /\ queue'[d].state = queue[d].state
    BY <1>2, <2>2 DEF Command
  <2>. QED  BY <2>2, <2>3
<1>8. CASE \E h \in Handlers : SaveCommand(h)
  <2>1. PICK h \in Handlers : SaveCommand(h)
    BY <1>8
  <2>2. handler[h].cmd \in 1..Len(queue)
    BY <2>1 DEF SaveCommand, Busy
  <2>. DEFINE s == IF handler[h].ok THEN "COMPLETED" ELSE "FAILED"
  <2>3. queue' = [queue EXCEPT ![handler[h].cmd].state = s] /\ s \in CommandState
    BY <2>1 DEF SaveCommand, CommandState
  <2>. HIDE DEF s
  <2>4. /\ Len(queue') = Len(queue)
        /\ \A e \in 1..Len(queue) : e # handler[h].cmd => queue'[e] = queue[e]
        /\ queue'[handler[h].cmd] = [queue[handler[h].cmd] EXCEPT !.state = s]
    BY <1>1, <2>2, <2>3, QueueSave
  <2>5. queue'[handler[h].cmd].tries = queue[handler[h].cmd].tries
        /\ queue'[handler[h].cmd].state = s
    BY <1>2, <2>2, <2>4 DEF Command
  <2>. QED  BY <2>1, <2>2, <2>4, <2>5 DEF s
<1>. QED  BY <1>3, <1>4, <1>5, <1>6, <1>7, <1>8, QueueSteps

-------------------------------------------------------------------------------
(* No slot is lost. *)

(* A server id is handed out once; it has no row and no command before it is inserted. *)
FreshIds ==
  /\ \A r \in Requests : request[r].pc # "idle" =>
       request[r].inst \in used /\ node[request[r].inst] = None
  /\ \A r, q \in Requests : request[r].pc # "idle" /\ request[q].pc # "idle" /\ r # q =>
       request[r].inst # request[q].inst
  /\ \A i \in Instances : node[i] # None => i \in used
  /\ \A i \in Instances : status[i] # "absent" => node[i] # None
  /\ \A c \in 1..Len(queue) : node[queue[c].inst] # None
  /\ \A i \in Instances : found[i] # "none" => node[i] # None

(* Once a handler has released a slot, the server it is for has none, or the release failed. *)
ReleasedSlots ==
  \A h \in Handlers : handler[h].pc = "released" =>
    queue[handler[h].cmd].inst \notin slots \/ queue[handler[h].cmd].inst \in leaked

(* The steps that touch servers, requests or handlers. *)
LEMMA ServerSteps ==
  ASSUME [Next]_vars
  PROVE  \/ UNCHANGED <<status, node, slots, used, request, leaked, found>>
         \/ \E r \in Requests, i \in Instances, n \in Nodes, p \in Ports : CheckServer(r, i, n, p)
         \/ \E r \in Requests : ReserveInstanceSlot(r)
         \/ \E r \in Requests : InsertServer(r)
         \/ \E r \in Requests : RejectServer(r)
         \/ \E r \in Requests : RejectServerLeaks(r)
         \/ \E h \in Handlers : ReleaseInstanceSlot(h)
         \/ \E h \in Handlers : ReleaseFails(h)
         \/ \E h \in Handlers : UpdateInstance(h)
         \/ \E i \in Instances : LoadCrashed(i) \/ QuarantineServer(i)
         \/ OrchestratorCrash
<1> USE DEF rowVars, detectorVars, faultVars
<1>1. CASE UNCHANGED vars
  BY <1>1 DEF vars
<1>2. CASE RequestNext
  <2>1. CASE \E i \in Instances, kind \in UserCommands : QueueCommand(i, kind)
    BY <2>1 DEF QueueCommand
  <2>. QED  BY <1>2, <2>1 DEF RequestNext
<1>3. CASE AgentNext
  <2>1. UNCHANGED <<status, node, slots, used, request, leaked, found>>
    BY <1>3 DEF AgentNext, NextAgentCommand, ExecuteCommand, CompleteCommand, LoseCommand,
                GiveUpWaiting, RevokeNode
  <2>. QED  BY <2>1
<1>4. CASE HandlerNext
  BY <1>4 DEF HandlerNext, LoadCommand, RefuseResult, SaveCommand, SaveCommandFails, UpdateFails
<1>5. CASE \E c \in DOMAIN queue : ClaimExpires(c)
  BY <1>5 DEF ClaimExpires
<1>. QED  BY <1>1, <1>2, <1>3, <1>4, <1>5 DEF Next

(* A slot once leaked stays so. *)
LEMMA LeakedStays ==
  ASSUME [Next]_vars
  PROVE  leaked \subseteq leaked'
BY ServerSteps DEF CheckServer, ReserveInstanceSlot, InsertServer, RejectServer, RejectServerLeaks,
   ReleaseInstanceSlot, ReleaseFails, UpdateInstance, LoadCrashed, QuarantineServer,
   OrchestratorCrash, faultVars

(* The last statement touches one row, and removes it only after a slot was released. *)
LEMMA UpdateStatus ==
  ASSUME TypeOK, Busy, NEW h \in Handlers, UpdateInstance(h)
  PROVE  /\ queue[handler[h].cmd].inst \in Instances
         /\ \A i \in Instances : i # queue[handler[h].cmd].inst => status'[i] = status[i]
         /\ \A i \in Instances : status[i] = "absent" => status'[i] = "absent"
         /\ \A i \in Instances : status[i] # "absent" /\ status'[i] = "absent" =>
              handler[h].pc = "released"
<1>. DEFINE c == handler[h].cmd
            i == queue[c].inst
<1>1. c \in 1..Len(queue)
  BY DEF UpdateInstance, Busy
<1>2. i \in Instances
  BY <1>1, QueueFacts, CommandFields DEF TypeOK
<1>3. \A j \in Instances :
        status'[j] = IF j = i THEN NewStatus(queue[c].kind, handler[h].ok, status[i])
                              ELSE status[j]
  BY <1>2 DEF UpdateInstance, TypeOK
<1>4. status[i] = "absent" => NewStatus(queue[c].kind, handler[h].ok, status[i]) = "absent"
  BY DEF NewStatus
<1>5. status[i] # "absent" /\ NewStatus(queue[c].kind, handler[h].ok, status[i]) = "absent" =>
        queue[c].kind = "DELETE_SERVER" /\ handler[h].ok
  BY DEF NewStatus
<1>6. queue[c].kind = "DELETE_SERVER" /\ handler[h].ok => handler[h].pc = "released"
  BY DEF UpdateInstance, Releases
<1>. QED  BY <1>2, <1>3, <1>4, <1>5, <1>6

(* An id is handed out once, and used before it has a row or a slot. *)
LEMMA StepFreshIds ==
  ASSUME TypeOK, Busy, FreshIds, [Next]_vars
  PROVE  FreshIds'
<1>1. /\ Len(queue) \in Nat
      /\ \A c \in 1..Len(queue) : queue[c].inst \in Instances
  BY QueueFacts, CommandFields DEF TypeOK
<1>2. ASSUME \A i \in Instances : node[i] # None => node'[i] # None
      PROVE  \A c \in 1..Len(queue') : node'[queue'[c].inst] # None
  <2>1. CASE \E r \in Requests : InsertServer(r)
    <3>1. PICK r \in Requests : InsertServer(r)
      BY <2>1
    <3>2. node'[request[r].inst] # None
      <4>1. /\ request[r].inst \in Instances /\ request[r].node # None
            /\ node' = [node EXCEPT ![request[r].inst] = request[r].node]
        BY <3>1, NoneAssumption DEF InsertServer, Busy
      <4>. QED  BY <4>1 DEF TypeOK
    <3>3. queue'[Len(queue) + 1].inst = request[r].inst
      <4>1. queue'[Len(queue) + 1] =
              Pending("CREATE_SERVER", request[r].inst, request[r].node)
        BY <3>1, InsertAppends
      <4>. QED  BY <4>1 DEF Pending
    <3>. QED  BY <1>1, <1>2, <3>1, <3>2, <3>3, InsertAppends DEF FreshIds
  <2>2. CASE \E i \in Instances, kind \in UserCommands : QueueCommand(i, kind)
    <3>1. PICK i \in Instances, kind \in UserCommands : QueueCommand(i, kind)
      BY <2>2
    <3>2. node[i] # None /\ queue'[Len(queue) + 1].inst = i
      BY <3>1, QueueCommandAppends DEF Pending, QueueCommand
    <3>. QED  BY <1>1, <1>2, <3>1, <3>2, QueueCommandAppends DEF FreshIds
  <2>3. CASE Len(queue') = Len(queue)
    BY <1>1, <1>2, <2>3, QueueStays DEF FreshIds
  <2>4. \/ Len(queue') = Len(queue)
        \/ \E r \in Requests : InsertServer(r)
        \/ \E i \in Instances, kind \in UserCommands : QueueCommand(i, kind)
    <3>1. queue \in Seq(Command)
      BY DEF TypeOK
    <3>2. CASE \E n \in Nodes, c \in 1..Len(queue) : NextAgentCommand(n, c)
      BY <3>1, <3>2, QueueClaim DEF NextAgentCommand
    <3>3. CASE \E c \in 1..Len(queue) : ClaimExpires(c)
      BY <3>1, <3>3, QueueExpire DEF ClaimExpires
    <3>4. CASE \E h \in Handlers : SaveCommand(h)
      <4>1. PICK h \in Handlers : SaveCommand(h)
        BY <3>4
      <4>2. PICK s \in CommandState : queue' = [queue EXCEPT ![handler[h].cmd].state = s]
        BY <4>1 DEF SaveCommand, CommandState
      <4>3. handler[h].cmd \in 1..Len(queue)
        BY <4>1 DEF SaveCommand, Busy
      <4>. QED  BY <3>1, <4>2, <4>3, QueueSave
    <3>. QED  BY <3>2, <3>3, <3>4, QueueSteps
  <2>. QED  BY <2>1, <2>2, <2>3, <2>4
<1>3. CASE UNCHANGED <<status, node, slots, used, request, leaked, found>>
  BY <1>2, <1>3 DEF FreshIds
<1>4. CASE \E r \in Requests, i \in Instances, n \in Nodes, p \in Ports : CheckServer(r, i, n, p)
  <2>1. PICK r \in Requests, i \in Instances, n \in Nodes, p \in Ports : CheckServer(r, i, n, p)
    BY <1>4
  <2>2. /\ UNCHANGED <<status, node, found>>
        /\ i \notin used /\ used' = used \cup {i}
        /\ \A q \in Requests : q # r => request'[q] = request[q]
        /\ request'[r].inst = i
    BY <2>1 DEF CheckServer, rowVars, detectorVars, TypeOK
  <2>. QED  BY <1>2, <2>2 DEF FreshIds
<1>5. CASE \E r \in Requests : ReserveInstanceSlot(r)
  <2>1. PICK r \in Requests : ReserveInstanceSlot(r)
    BY <1>5
  <2>2. /\ UNCHANGED <<status, node, used, found>>
        /\ \A q \in Requests : q # r => request'[q] = request[q]
    BY <2>1 DEF ReserveInstanceSlot, rowVars, detectorVars, TypeOK
  <2>3. request'[r].pc # "idle" =>
          request[r].pc # "idle" /\ request'[r].inst = request[r].inst
    BY <2>1 DEF ReserveInstanceSlot, IdleRequest, TypeOK
  <2>4. \A q \in Requests : request'[q].pc # "idle" =>
          request[q].pc # "idle" /\ request'[q].inst = request[q].inst
    BY <2>2, <2>3
  <2>. QED  BY <1>2, <2>2, <2>4 DEF FreshIds
<1>6. CASE \E r \in Requests : InsertServer(r)
  <2>1. PICK r \in Requests : InsertServer(r)
    BY <1>6
  <2>2. /\ request[r].pc # "idle"
        /\ request[r].inst \in Instances /\ request[r].node \in Nodes
        /\ request[r].node # None
    BY <2>1, NoneAssumption DEF InsertServer, Busy
  <2>3. /\ UNCHANGED <<used, found>>
        /\ \A i \in Instances : /\ node'[i] = IF i = request[r].inst THEN request[r].node
                                              ELSE node[i]
                                /\ i # request[r].inst => status'[i] = status[i]
        /\ \A q \in Requests : request'[q].pc # "idle" => q # r /\ request'[q] = request[q]
    BY <2>1, <2>2 DEF InsertServer, IdleRequest, detectorVars, TypeOK
  <2>4. \A q \in Requests : request[q].pc # "idle" => request[q].inst \in Instances
    BY DEF Busy
  <2>. QED  BY <1>2, <2>2, <2>3, <2>4 DEF FreshIds
<1>7. CASE (\E r \in Requests : RejectServer(r) \/ RejectServerLeaks(r)) \/ OrchestratorCrash
  <2>1. /\ UNCHANGED <<status, node, used>>
        /\ \A q \in Requests : request'[q].pc # "idle" => request'[q] = request[q]
        /\ \A i \in Instances : found'[i] # "none" => found'[i] = found[i]
    BY <1>7 DEF RejectServer, RejectServerLeaks, OrchestratorCrash, IdleRequest, rowVars,
                detectorVars, TypeOK
  <2>. QED  BY <1>2, <2>1 DEF FreshIds
<1>8. CASE \E h \in Handlers : ReleaseInstanceSlot(h) \/ ReleaseFails(h)
  <2>1. UNCHANGED <<status, node, used, request, found>>
    BY <1>8 DEF ReleaseInstanceSlot, ReleaseFails, rowVars, detectorVars
  <2>. QED  BY <1>2, <2>1 DEF FreshIds
<1>9. CASE \E h \in Handlers : UpdateInstance(h)
  <2>1. /\ UNCHANGED <<node, used, request, found>>
        /\ \A i \in Instances : status'[i] # "absent" => status[i] # "absent"
    BY <1>9, UpdateStatus DEF UpdateInstance, detectorVars
  <2>. QED  BY <1>2, <2>1 DEF FreshIds
<1>10. CASE \E i \in Instances : LoadCrashed(i) \/ QuarantineServer(i)
  <2>1. PICK i \in Instances : LoadCrashed(i) \/ QuarantineServer(i)
    BY <1>10
  <2>2. /\ UNCHANGED <<node, used, request>>
        /\ node[i] # None
        /\ \A j \in Instances : j # i => status'[j] = status[j] /\ found'[j] = found[j]
    BY <2>1 DEF LoadCrashed, QuarantineServer, rowVars, FreshIds, TypeOK
  <2>. QED  BY <1>2, <2>2 DEF FreshIds
<1>. QED  BY <1>3, <1>4, <1>5, <1>6, <1>7, <1>8, <1>9, <1>10, ServerSteps

(* How a handler comes to have released a slot. *)
LEMMA ReleasedBy ==
  ASSUME TypeOK, Busy, [Next]_vars, NEW h \in Handlers, handler'[h].pc = "released"
  PROVE  \/ (ReleaseInstanceSlot(h) \/ ReleaseFails(h)) /\ handler'[h].cmd = handler[h].cmd
         \/ handler[h].pc = "released" /\ handler'[h].cmd = handler[h].cmd
<1>. QED  BY HandlerMoves

(* The slot a handler released is not taken again: its id is never handed out twice. *)
LEMMA StepReleasedSlots ==
  ASSUME TypeOK, Busy, FreshIds, ReleasedSlots, [Next]_vars
  PROVE  ReleasedSlots'
<1> SUFFICES ASSUME NEW h \in Handlers, handler'[h].pc = "released"
             PROVE  \/ queue'[handler'[h].cmd].inst \notin slots'
                    \/ queue'[handler'[h].cmd].inst \in leaked'
  BY DEF ReleasedSlots
<1>1. /\ handler'[h].cmd = handler[h].cmd
      /\ handler[h].pc # "idle"
      /\ handler[h].cmd \in 1..Len(queue)
  BY ReleasedBy DEF ReleaseInstanceSlot, ReleaseFails, Busy
<1>2. queue'[handler'[h].cmd].inst = queue[handler[h].cmd].inst
  BY <1>1, QueueStays
<1>3. CASE ReleaseInstanceSlot(h) \/ ReleaseFails(h)
  BY <1>2, <1>3 DEF ReleaseInstanceSlot, ReleaseFails
<1>4. CASE queue[handler[h].cmd].inst \in leaked
  BY <1>2, <1>4, LeakedStays
<1>5. CASE handler[h].pc = "released" /\ queue[handler[h].cmd].inst \notin leaked
  <2>1. queue[handler[h].cmd].inst \notin slots
    BY <1>5 DEF ReleasedSlots
  <2>2. CASE \E r \in Requests : ReserveInstanceSlot(r)
    <3>1. PICK r \in Requests : ReserveInstanceSlot(r)
      BY <2>2
    <3>2. node[request[r].inst] = None /\ node[queue[handler[h].cmd].inst] # None
      BY <1>1, <3>1 DEF ReserveInstanceSlot, FreshIds
    <3>3. slots' \subseteq slots \cup {request[r].inst}
      BY <3>1 DEF ReserveInstanceSlot
    <3>. QED  BY <1>2, <2>1, <3>2, <3>3
  <2>3. CASE slots' \subseteq slots
    BY <1>2, <2>1, <2>3
  <2>. QED  BY <2>2, <2>3, SlotSteps DEF RejectServer, ReleaseInstanceSlot
<1>. QED  BY <1>3, <1>4, <1>5, ReleasedBy

(* Every step keeps every slot accounted for. *)
LEMMA StepSlotsAccounted ==
  ASSUME TypeOK, Busy, FreshIds, ReleasedSlots, SlotsAccounted, [Next]_vars
  PROVE  SlotsAccounted'
<1> SUFFICES ASSUME NEW i \in Instances, i \in slots'
             PROVE  \/ status'[i] # "absent"
                    \/ \E r \in Requests : request'[r].pc = "reserved" /\ request'[r].inst = i
                    \/ i \in leaked'
  <2>1. slots' \subseteq Instances
    BY StepTypes DEF TypeOK
  <2>. QED  BY <2>1 DEF SlotsAccounted
<1>1. i \in slots =>
        \/ status[i] # "absent"
        \/ \E r \in Requests : request[r].pc = "reserved" /\ request[r].inst = i
        \/ i \in leaked
  BY DEF SlotsAccounted
<1>2. CASE UNCHANGED <<status, node, slots, used, request, leaked, found>>
  BY <1>1, <1>2
<1>3. CASE \E r \in Requests, j \in Instances, n \in Nodes, p \in Ports : CheckServer(r, j, n, p)
  BY <1>1, <1>3 DEF CheckServer, rowVars, TypeOK
<1>4. CASE \E r \in Requests : ReserveInstanceSlot(r)
  <2>1. PICK r \in Requests : ReserveInstanceSlot(r)
    BY <1>4
  <2>2. /\ UNCHANGED <<status, leaked>>
        /\ request[r].pc = "checked"
        /\ \A q \in Requests : q # r => request'[q] = request[q]
    BY <2>1 DEF ReserveInstanceSlot, rowVars, faultVars, TypeOK
  <2>3. i \in slots \/ (request'[r].pc = "reserved" /\ request'[r].inst = i)
    BY <2>1 DEF ReserveInstanceSlot, TypeOK
  <2>. QED  BY <1>1, <2>2, <2>3
<1>5. CASE \E r \in Requests : InsertServer(r)
  <2>1. PICK r \in Requests : InsertServer(r)
    BY <1>5
  <2>2. /\ UNCHANGED <<slots, leaked>>
        /\ \A q \in Requests : q # r => request'[q] = request[q]
        /\ request[r].inst = i => status'[i] = "CREATING"
        /\ request[r].inst # i => status'[i] = status[i]
    BY <2>1 DEF InsertServer, faultVars, TypeOK
  <2>. QED  BY <1>1, <2>2
<1>6. CASE \E r \in Requests : RejectServer(r)
  <2>1. PICK r \in Requests : RejectServer(r)
    BY <1>6
  <2>2. /\ i \in slots /\ request[r].inst # i
        /\ UNCHANGED <<status, leaked>>
        /\ \A q \in Requests : q # r => request'[q] = request[q]
    BY <2>1 DEF RejectServer, rowVars, faultVars, TypeOK
  <2>. QED  BY <1>1, <2>2
<1>7. CASE \E h \in Handlers : ReleaseInstanceSlot(h)
  BY <1>1, <1>7 DEF ReleaseInstanceSlot, rowVars, faultVars
<1>8. CASE \E h \in Handlers : UpdateInstance(h)
  <2>1. PICK h \in Handlers : UpdateInstance(h)
    BY <1>8
  <2>2. UNCHANGED <<slots, request, leaked>>
    BY <2>1 DEF UpdateInstance, faultVars
  <2>3. status[i] # "absent" => status'[i] # "absent" \/ i \in leaked
    BY <2>1, <2>2, UpdateStatus DEF ReleasedSlots
  <2>. QED  BY <1>1, <2>2, <2>3
<1>9. CASE OrchestratorCrash
  BY <1>1, <1>9 DEF OrchestratorCrash, rowVars
<1>10. CASE \E j \in Instances : LoadCrashed(j) \/ QuarantineServer(j)
  <2>1. UNCHANGED <<slots, request, leaked>> /\ (status[i] # "absent" => status'[i] # "absent")
    BY <1>10 DEF LoadCrashed, QuarantineServer, rowVars, faultVars, TypeOK
  <2>. QED  BY <1>1, <2>1
<1>11. CASE \E r \in Requests : RejectServerLeaks(r)
  <2>1. PICK r \in Requests : RejectServerLeaks(r)
    BY <1>11
  <2>2. /\ UNCHANGED <<slots, status>> /\ leaked' = leaked \cup {request[r].inst}
        /\ \A q \in Requests : q # r => request'[q] = request[q]
    BY <2>1 DEF RejectServerLeaks, rowVars, TypeOK
  <2>. QED  BY <1>1, <2>2
<1>12. CASE \E h \in Handlers : ReleaseFails(h)
  <2>1. UNCHANGED <<slots, status, request>>
    BY <1>12 DEF ReleaseFails, rowVars
  <2>. QED  BY <1>1, <2>1, LeakedStays
<1>. QED  BY <1>2, <1>3, <1>4, <1>5, <1>6, <1>7, <1>8, <1>9, <1>10, <1>11, <1>12, ServerSteps

(* No slot at the start. *)
LEMMA InitSlots == Init => FreshIds /\ ReleasedSlots /\ SlotsAccounted
<1> SUFFICES ASSUME Init PROVE FreshIds /\ ReleasedSlots /\ SlotsAccounted
  OBVIOUS
<1>1. Len(queue) = 0
  BY EmptySeq DEF Init
<1>. QED  BY <1>1 DEF Init, FreshIds, ReleasedSlots, SlotsAccounted, IdleRequest, IdleHandler

(* Every slot belongs to a server's row, to a createServer request about to insert one, or *)
(* was leaked by a crash between the two or by a release that failed: however results,     *)
(* retries and requests interleave, no slot is lost otherwise.                             *)
THEOREM SlotsAccountedHolds == Spec => []SlotsAccounted
<1> DEFINE I == TypeOK /\ Busy /\ FreshIds /\ ReleasedSlots /\ SlotsAccounted
<1>1. Init => I
  BY InitTypes, InitSlots
<1>2. I /\ [Next]_vars => I'
  BY StepTypes, StepFreshIds, StepReleasedSlots, StepSlotsAccounted
<1>. QED  BY <1>1, <1>2, PTL DEF Spec

-------------------------------------------------------------------------------
(* A node's commands are delivered in order. *)

(* A node receives its commands in the order they were created, a redelivery aside. *)
DeliveredInOrder ==
  \A c, d \in DOMAIN queue :
    c < d /\ queue[c].node = queue[d].node /\ queue[d].tries > 0 => queue[c].tries > 0

(* A handler works on the command it had, or on the one an agent posted. *)
LEMMA HandlerFrom ==
  ASSUME TypeOK, Busy, [Next]_vars, NEW h \in Handlers, handler'[h].pc # "idle"
  PROVE  \/ handler[h].pc # "idle" /\ handler'[h].cmd = handler[h].cmd
         \/ \E n \in Nodes : agent[n].pc # "idle" /\ handler'[h].cmd = agent[n].cmd
<1>1. \A n \in Nodes : CompleteCommand(n, h) => agent[n].pc # "idle"
  BY DEF CompleteCommand
<1>. QED  BY <1>1, HandlerBy

(* An agent works on the command it had, or on the one it has just claimed. *)
LEMMA AgentFrom ==
  ASSUME TypeOK, Busy, [Next]_vars, NEW n \in Nodes, agent'[n].pc # "idle"
  PROVE  \/ agent[n].pc # "idle" /\ agent'[n].cmd = agent[n].cmd
         \/ \E c \in 1..Len(queue) : NextAgentCommand(n, c) /\ agent'[n].cmd = c
<1>1. ExecuteCommand(n) \/ (\E h \in Handlers : CompleteCommand(n, h)) => agent[n].pc # "idle"
  BY DEF ExecuteCommand, CompleteCommand
<1>. QED  BY <1>1, AgentBy

(* A command has been delivered exactly when it is no longer PENDING, and what an agent or  *)
(* a handler works on has been delivered.                                                  *)
Tried ==
  /\ \A c \in 1..Len(queue) : queue[c].tries > 0 <=> queue[c].state # "PENDING"
  /\ \A n \in Nodes : agent[n].pc # "idle" => queue[agent[n].cmd].tries > 0
  /\ \A h \in Handlers : handler[h].pc # "idle" => queue[handler[h].cmd].tries > 0

(* A command is PENDING until its first delivery, and never again. *)
LEMMA QueueStates ==
  ASSUME TypeOK, Busy, Tried, [Next]_vars
  PROVE  \A c \in 1..Len(queue') : queue'[c].tries > 0 <=> queue'[c].state # "PENDING"
<1> SUFFICES ASSUME NEW c \in 1..Len(queue')
             PROVE  queue'[c].tries > 0 <=> queue'[c].state # "PENDING"
  OBVIOUS
<1>1. c \in 1..Len(queue) => /\ queue[c].tries \in Nat
                             /\ queue[c].tries > 0 <=> queue[c].state # "PENDING"
  BY QueueFacts, CommandFields DEF TypeOK, Tried
<1>2. ASSUME NEW h \in Handlers, SaveCommand(h), handler[h].cmd = c
      PROVE  queue[c].tries > 0
  BY <1>2 DEF SaveCommand, Tried
<1>3. \A kind, i, n : /\ Pending(kind, i, n).tries = 0
                     /\ Pending(kind, i, n).state = "PENDING"
  BY DEF Pending
<1>. QED  BY <1>1, <1>2, <1>3, CommandBy

(* What has been delivered stays so. *)
LEMMA TriesStay ==
  ASSUME TypeOK, Busy, [Next]_vars, NEW c \in 1..Len(queue), queue[c].tries > 0
  PROVE  queue'[c].tries > 0
<1>1. queue[c].tries \in Nat /\ queue'[c].tries \in Nat /\ queue'[c].tries >= queue[c].tries
  <2>1. queue[c].tries \in Nat
    BY QueueFacts, CommandFields DEF TypeOK
  <2>2. queue'[c] \in Command
    <3>1. queue' \in Seq(Command)
      BY StepTypes DEF TypeOK
    <3>2. c \in 1..Len(queue')
      BY QueueStays
    <3>. QED  BY <3>1, <3>2, ElementOfSeq
  <2>. QED  BY <2>1, <2>2, CommandFields, QueueStays
<1>. QED  BY <1>1

(* A command at work or reported has been delivered. *)
LEMMA StepTried ==
  ASSUME TypeOK, Busy, Tried, [Next]_vars
  PROVE  Tried'
<1>1. \A n \in Nodes : agent[n].pc # "idle" => agent[n].cmd \in 1..Len(queue)
                                               /\ queue[agent[n].cmd].tries > 0
  BY DEF Busy, Tried
<1>2. ASSUME NEW h \in Handlers, handler'[h].pc # "idle"
      PROVE  queue'[handler'[h].cmd].tries > 0
  <2>1. handler'[h].cmd \in 1..Len(queue) /\ queue[handler'[h].cmd].tries > 0
    BY <1>1, <1>2, HandlerFrom DEF Busy, Tried
  <2>. QED  BY <2>1, TriesStay
<1>3. ASSUME NEW n \in Nodes, agent'[n].pc # "idle"
      PROVE  queue'[agent'[n].cmd].tries > 0
  <2>1. CASE agent[n].pc # "idle" /\ agent'[n].cmd = agent[n].cmd
    BY <1>1, <2>1, TriesStay
  <2>2. CASE \E c \in 1..Len(queue) : NextAgentCommand(n, c) /\ agent'[n].cmd = c
    <3>1. PICK c \in 1..Len(queue) : NextAgentCommand(n, c) /\ agent'[n].cmd = c
      BY <2>2
    <3>2. /\ Len(queue') = Len(queue)
          /\ queue'[c] = [queue[c] EXCEPT !.state = "RUNNING", !.stale = FALSE,
                                          !.tries = queue[c].tries + 1]
      BY <3>1, QueueClaim DEF NextAgentCommand, TypeOK
    <3>3. queue[c] \in Command
      BY QueueFacts DEF TypeOK
    <3>4. queue'[c].state # "PENDING"
      BY <3>2, <3>3 DEF Command
    <3>. QED  BY <3>1, <3>2, <3>4, QueueStates
  <2>. QED  BY <1>3, <2>1, <2>2, AgentFrom
<1>. QED  BY <1>2, <1>3, QueueStates DEF Tried

(* Only its own delivery makes a command one that has been delivered. *)
LEMMA DeliveredBy ==
  ASSUME TypeOK, Busy, [Next]_vars, NEW d \in 1..Len(queue'), queue'[d].tries > 0
  PROVE  \/ d \in 1..Len(queue) /\ queue[d].tries > 0
         \/ d \in 1..Len(queue) /\ \E n \in Nodes : NextAgentCommand(n, d)
<1>1. \A kind, i, n : Pending(kind, i, n).tries = 0
  BY DEF Pending
<1>. QED  BY <1>1, CommandBy

(* Every step keeps the order of delivery. *)
LEMMA StepDeliveredInOrder ==
  ASSUME TypeOK, Busy, Tried, DeliveredInOrder, [Next]_vars
  PROVE  DeliveredInOrder'
<1>1. queue \in Seq(Command) /\ Len(queue) \in Nat /\ DOMAIN queue = 1..Len(queue)
      /\ queue' \in Seq(Command) /\ DOMAIN queue' = 1..Len(queue') /\ Len(queue') \in Nat
  <2>1. queue \in Seq(Command) /\ queue' \in Seq(Command)
    BY StepTypes DEF TypeOK
  <2>. QED  BY <2>1, LenProperties
<1>2. SUFFICES ASSUME NEW c \in 1..Len(queue'), NEW d \in 1..Len(queue'), c < d,
                      queue'[c].node = queue'[d].node, queue'[d].tries > 0
               PROVE  queue'[c].tries > 0
  BY <1>1 DEF DeliveredInOrder
<1>3. CASE d \in 1..Len(queue) /\ queue[d].tries > 0
  <2>1. c \in 1..Len(queue)
    BY <1>1, <1>2, <1>3
  <2>2. queue[c].node = queue[d].node
    BY <1>2, <1>3, <2>1, QueueStays
  <2>3. queue[c].tries > 0
    BY <1>1, <1>2, <1>3, <2>1, <2>2 DEF DeliveredInOrder
  <2>. QED  BY <2>1, <2>3, TriesStay
<1>4. CASE ~(d \in 1..Len(queue) /\ queue[d].tries > 0)
  <2>1. PICK n \in Nodes : NextAgentCommand(n, d) /\ d \in 1..Len(queue)
    BY <1>2, <1>4, DeliveredBy
  <2>2. c \in 1..Len(queue) /\ queue[c].node = n
    <3>1. c \in 1..Len(queue)
      BY <1>1, <1>2, <2>1
    <3>. QED  BY <1>2, <2>1, <3>1, QueueStays DEF NextAgentCommand, Servable
  <2>3. queue[c].state # "PENDING"
    BY <1>1, <1>2, <2>1, <2>2 DEF NextAgentCommand, Servable
  <2>4. queue[c].tries > 0
    BY <2>2, <2>3 DEF Tried
  <2>. QED  BY <2>2, <2>4, TriesStay
<1>. QED  BY <1>3, <1>4
(* Nothing is delivered at the start. *)
LEMMA InitDelivered == Init => Tried /\ DeliveredInOrder
<1> SUFFICES ASSUME Init PROVE Tried /\ DeliveredInOrder
  OBVIOUS
<1>1. Len(queue) = 0 /\ DOMAIN queue = {}
  BY EmptySeq DEF Init
<1>. QED  BY <1>1 DEF Init, Tried, DeliveredInOrder, IdleAgent, IdleHandler

(* A node is handed its commands in the order they were created: a command is delivered     *)
(* only after every earlier command of its node has been, whatever is lost or redelivered.  *)
THEOREM DeliveredInOrderHolds == Spec => []DeliveredInOrder
<1> DEFINE I == TypeOK /\ Busy /\ Tried /\ DeliveredInOrder
<1>1. Init => I
  BY InitTypes, InitDelivered
<1>2. I /\ [Next]_vars => I'
  BY StepTypes, StepTried, StepDeliveredInOrder
<1>. QED  BY <1>1, <1>2, PTL DEF Spec

(* A command that has been delivered at most once had been before. *)
LEMMA OnceBefore ==
  ASSUME TypeOK, Busy, [Next]_vars, NEW c \in 1..Len(queue), queue'[c].tries <= 1
  PROVE  /\ queue[c].tries <= 1
         /\ queue[c].tries \in Nat /\ queue'[c].tries \in Nat
<1>1. queue[c].tries \in Nat
  BY QueueFacts, CommandFields DEF TypeOK
<1>2. queue'[c].tries \in Nat
  <2>1. queue' \in Seq(Command)
    BY StepTypes DEF TypeOK
  <2>2. c \in 1..Len(queue')
    BY QueueStays
  <2>3. queue'[c] \in Command
    BY <2>1, <2>2, ElementOfSeq
  <2>. QED  BY <2>3, CommandFields
<1>3. queue'[c].tries >= queue[c].tries
  BY QueueStays
<1>. QED  BY <1>1, <1>2, <1>3

(* Only its own answer or a crash ends a handler. *)
LEMMA HandlerEnds ==
  ASSUME TypeOK, Busy, [Next]_vars, NEW h \in Handlers, handler[h].pc # "idle",
         handler'[h].pc = "idle"
  PROVE  Answer(h) \/ OrchestratorCrash
<1>1. CASE UNCHANGED handler
  BY <1>1
<1>2. CASE \E n \in Nodes, g \in Handlers : CompleteCommand(n, g)
  <2>1. PICK n \in Nodes, g \in Handlers : CompleteCommand(n, g)
    BY <1>2
  <2>. QED  BY <2>1 DEF CompleteCommand, TypeOK
<1>3. CASE HandlerNext
  <2>1. PICK g \in Handlers : \/ LoadCommand(g)
                              \/ RefuseResult(g)
                              \/ SaveCommand(g)
                              \/ ReleaseInstanceSlot(g)
                              \/ UpdateInstance(g)
                              \/ SaveCommandFails(g)
                              \/ ReleaseFails(g)
                              \/ UpdateFails(g)
    BY <1>3 DEF HandlerNext
  <2>2. CASE LoadCommand(g)
    BY <2>2, StepHandler DEF LoadCommand
  <2>3. CASE SaveCommand(g) \/ SaveCommandFails(g)
    BY <2>3, StepHandler DEF SaveCommand, SaveCommandFails
  <2>4. CASE ReleaseInstanceSlot(g) \/ ReleaseFails(g)
    BY <2>4, StepHandler DEF ReleaseInstanceSlot, ReleaseFails
  <2>5. CASE RefuseResult(g) \/ UpdateInstance(g) \/ UpdateFails(g)
    <3>1. Answer(g)
      BY <2>5 DEF RefuseResult, UpdateInstance, UpdateFails
    <3>2. \A f \in Handlers : f # g => handler'[f] = handler[f]
      BY <3>1 DEF Answer, TypeOK
    <3>. QED  BY <3>1, <3>2
  <2>. QED  BY <2>1, <2>2, <2>3, <2>4, <2>5
<1>4. RequestNext => UNCHANGED handler
  BY DEF RequestNext, CheckServer, ReserveInstanceSlot, InsertServer, RejectServer,
         RejectServerLeaks, QueueCommand
<1>5. AgentNext => UNCHANGED handler \/ \E n \in Nodes, g \in Handlers : CompleteCommand(n, g)
  BY DEF AgentNext, NextAgentCommand, ExecuteCommand, LoseCommand, GiveUpWaiting, RevokeNode
<1>6. (\E c \in DOMAIN queue : ClaimExpires(c)) => UNCHANGED handler
  BY DEF ClaimExpires
<1>7. (\E i \in Instances : LoadCrashed(i) \/ QuarantineServer(i)) => UNCHANGED handler
  BY DEF LoadCrashed, QuarantineServer
<1>. QED  BY <1>1, <1>2, <1>3, <1>4, <1>5, <1>6, <1>7 DEF Next, vars

-------------------------------------------------------------------------------
(* A command delivered once is reported at most once. *)

(* An agent that has its command but has not posted a result. *)
InFlight == {"claimed", "executed"}

(* The command has been delivered once at most. *)
AtMostOnce(c) == queue[c].tries <= 1

(* A node's agent works on the node's commands. *)
OwnCommands ==
  \A n \in Nodes : agent[n].pc # "idle" => queue[agent[n].cmd].node = n

(* An agent waits for the handler that has its result, and only then. *)
Awaited ==
  /\ \A n \in Nodes : agent[n].pc = "posted" =>
       /\ agent[n].at \in Handlers
       /\ handler[agent[n].at].pc # "idle"
       /\ handler[agent[n].at].cmd = agent[n].cmd
  /\ \A n \in Nodes : agent[n].pc \in InFlight => agent[n].at = None

(* The only delivery of a command is with its agent or with one handler; until it is        *)
(* reported the command is RUNNING, and COMPLETED only by a result that says so.            *)
OneReport ==
  /\ \A h, g \in Handlers :
       /\ handler[h].pc # "idle" /\ handler[g].pc # "idle"
       /\ handler[h].cmd = handler[g].cmd /\ AtMostOnce(handler[h].cmd)
       => h = g
  /\ \A n \in Nodes : agent[n].pc \in InFlight /\ AtMostOnce(agent[n].cmd) =>
       /\ queue[agent[n].cmd].state = "RUNNING"
       /\ \A h \in Handlers : handler[h].pc # "idle" => handler[h].cmd # agent[n].cmd
  /\ \A h \in Handlers :
       handler[h].pc # "idle" /\ ~handler[h].ok /\ AtMostOnce(handler[h].cmd) =>
         queue[handler[h].cmd].state # "COMPLETED"

(* An agent polls for its own node only. *)
LEMMA StepOwnCommands ==
  ASSUME TypeOK, Busy, OwnCommands, [Next]_vars
  PROVE  OwnCommands'
<1> SUFFICES ASSUME NEW n \in Nodes, agent'[n].pc # "idle"
             PROVE  queue'[agent'[n].cmd].node = n
  BY DEF OwnCommands
<1>1. CASE agent[n].pc # "idle" /\ agent'[n].cmd = agent[n].cmd
  BY <1>1, QueueStays DEF OwnCommands, Busy
<1>2. CASE \E c \in 1..Len(queue) : NextAgentCommand(n, c) /\ agent'[n].cmd = c
  BY <1>2, QueueStays DEF NextAgentCommand, Servable
<1>. QED  BY <1>1, <1>2, AgentFrom

(* An agent's wait ends with the handler. *)
LEMMA StepAwaited ==
  ASSUME TypeOK, Busy, Awaited, [Next]_vars
  PROVE  Awaited'
<1>1. ASSUME NEW n \in Nodes, agent'[n].pc = "posted"
      PROVE  /\ agent'[n].at \in Handlers
             /\ handler'[agent'[n].at].pc # "idle"
             /\ handler'[agent'[n].at].cmd = agent'[n].cmd
  <2>1. CASE agent'[n] = agent[n]
    <3>. DEFINE h == agent[n].at
    <3>1. h \in Handlers /\ handler[h].pc # "idle" /\ handler[h].cmd = agent[n].cmd
      BY <1>1, <2>1 DEF Awaited
    <3>. HIDE DEF h
    <3>2. handler'[h].pc # "idle"
      <4>1. SUFFICES ASSUME Answer(h) \/ OrchestratorCrash PROVE FALSE
        BY <3>1, HandlerEnds
      <4>2. agent'[n] = IdleAgent
        BY <1>1, <2>1, <4>1 DEF Answer, OrchestratorCrash, h
      <4>. QED  BY <1>1, <4>2 DEF IdleAgent
    <3>3. handler'[h].cmd = handler[h].cmd
      BY <3>1, <3>2, HandlerBy DEF CompleteCommand
    <3>. QED  BY <2>1, <3>1, <3>2, <3>3 DEF h
  <2>2. CASE \E h \in Handlers :
               /\ agent'[n].cmd = agent[n].cmd /\ agent'[n].at = h
               /\ handler'[h].pc = "received" /\ handler'[h].cmd = agent[n].cmd
    BY <2>2
  <2>3. agent'[n].pc # "claimed" /\ agent'[n].pc # "executed" /\ agent'[n].pc # "idle"
    BY <1>1
  <2>. QED  BY <2>1, <2>2, <2>3, AgentBy
<1>2. ASSUME NEW n \in Nodes, agent'[n].pc \in InFlight
      PROVE  agent'[n].at = None
  <2>1. CASE agent'[n] = agent[n]
    BY <1>2, <2>1 DEF Awaited
  <2>2. CASE \E c \in 1..Len(queue) : NextAgentCommand(n, c)
    BY <2>2 DEF NextAgentCommand, TypeOK
  <2>3. CASE ExecuteCommand(n)
    BY <2>3, Executes DEF Awaited, InFlight
  <2>4. agent'[n].pc # "posted" /\ agent'[n].pc # "idle"
    BY <1>2 DEF InFlight
  <2>. QED  BY <2>1, <2>2, <2>3, <2>4, AgentBy
<1>. QED  BY <1>1, <1>2 DEF Awaited

(* Two results of one command are of two deliveries. *)
LEMMA OneHandler ==
  ASSUME TypeOK, Busy, OneReport, [Next]_vars, NEW h \in Handlers, NEW g \in Handlers,
         handler'[h].pc # "idle", handler'[g].pc # "idle", handler'[h].cmd = handler'[g].cmd,
         queue'[handler'[h].cmd].tries <= 1
  PROVE  h = g
<1>. DEFINE c == handler'[h].cmd
<1>1. c \in 1..Len(queue) /\ queue[c].tries <= 1
  <2>1. c \in 1..Len(queue)
    BY HandlerFrom DEF Busy
  <2>. QED  BY <2>1, OnceBefore
<1>. HIDE DEF c
<1>2. CASE handler[h].pc # "idle" /\ handler[h].cmd = c /\ handler[g].pc # "idle" /\ handler[g].cmd = c
  BY <1>1, <1>2 DEF OneReport, AtMostOnce
<1>3. ASSUME NEW n \in Nodes, NEW f \in Handlers, CompleteCommand(n, f), agent[n].cmd = c,
             NEW e \in Handlers, handler[e].pc # "idle", handler[e].cmd = c
      PROVE  FALSE
  BY <1>1, <1>3 DEF CompleteCommand, OneReport, AtMostOnce, InFlight
<1>4. CASE (\E n \in Nodes : CompleteCommand(n, h)) /\ \E n \in Nodes : CompleteCommand(n, g)
  BY <1>4 DEF CompleteCommand, TypeOK
<1>5. \/ handler[h].pc # "idle" /\ handler[h].cmd = c
      \/ \E n \in Nodes : CompleteCommand(n, h) /\ agent[n].cmd = c
  BY HandlerBy DEF c
<1>6. \/ handler[g].pc # "idle" /\ handler[g].cmd = c
      \/ \E n \in Nodes : CompleteCommand(n, g) /\ agent[n].cmd = c
  BY HandlerBy DEF c
<1>. QED  BY <1>2, <1>3, <1>4, <1>5, <1>6

(* While its only delivery is with an agent a command is RUNNING and no handler has it. *)
LEMMA OneAgent ==
  ASSUME TypeOK, Busy, Tried, OwnCommands, OneReport, [Next]_vars, NEW n \in Nodes,
         agent'[n].pc \in InFlight, queue'[agent'[n].cmd].tries <= 1
  PROVE  /\ queue'[agent'[n].cmd].state = "RUNNING"
         /\ \A h \in Handlers : handler'[h].pc # "idle" => handler'[h].cmd # agent'[n].cmd
<1>. DEFINE c == agent'[n].cmd
<1>0. agent'[n].pc # "idle"
  BY DEF InFlight
<1>1. c \in 1..Len(queue) /\ queue[c].tries <= 1 /\ queue[c].tries \in Nat /\ queue'[c].tries \in Nat
      /\ c \in 1..Len(queue')
  <2>1. c \in 1..Len(queue)
    BY <1>0, AgentFrom DEF Busy
  <2>. QED  BY <2>1, OnceBefore, QueueStays
<1>2. CASE agent'[n] = agent[n]
  <2>1. /\ agent[n].pc \in InFlight /\ agent[n].cmd = c
        /\ queue[c].state = "RUNNING"
        /\ \A h \in Handlers : handler[h].pc # "idle" => handler[h].cmd # c
    BY <1>1, <1>2 DEF OneReport, AtMostOnce
  <2>. HIDE DEF c
  <2>2. queue'[c].state = "RUNNING"
    <3>1. ASSUME NEW h \in Handlers, SaveCommand(h), handler[h].cmd = c
          PROVE  FALSE
      BY <2>1, <3>1 DEF SaveCommand
    <3>2. c # Len(queue) + 1
      BY <1>1, QueueStays
    <3>. QED  BY <1>1, <2>1, <3>1, <3>2, CommandBy
  <2>3. ASSUME NEW h \in Handlers, handler'[h].pc # "idle"
        PROVE  handler'[h].cmd # c
    <3>1. ASSUME NEW m \in Nodes, CompleteCommand(m, h), agent[m].cmd = c
          PROVE  FALSE
      <4>1. m = n
        BY <2>1, <3>1 DEF CompleteCommand, OwnCommands, InFlight
      <4>2. agent'[n].pc = "posted"
        BY <3>1, <4>1 DEF CompleteCommand, TypeOK
      <4>. QED  BY <4>2 DEF InFlight
    <3>. QED  BY <2>1, <2>3, <3>1, HandlerBy
  <2>. QED  BY <2>2, <2>3 DEF c
<1>3. CASE NextAgentCommand(n, c)
  <2>1. UNCHANGED handler
    BY <1>3 DEF NextAgentCommand
  <2>2. queue'[c].state = "RUNNING" /\ queue'[c].tries = queue[c].tries + 1
    <3>. HIDE DEF c
    <3>. QED  BY <1>1, <1>3, Claims
  <2>3. queue[c].tries = 0
    <3>. HIDE DEF c
    <3>1. queue'[c].tries <= 1
      BY DEF c
    <3>. QED  BY <1>1, <2>2, <3>1
  <2>4. ASSUME NEW h \in Handlers, handler[h].pc # "idle" PROVE handler[h].cmd # c
    BY <2>3, <2>4 DEF Tried
  <2>. QED  BY <2>1, <2>2, <2>4
<1>4. CASE ExecuteCommand(n)
  <2>1. agent[n].pc \in InFlight /\ agent[n].cmd = c /\ UNCHANGED <<queue, handler>>
    BY <1>4, Executes DEF InFlight
  <2>. QED  BY <1>1, <2>1 DEF OneReport, AtMostOnce
<1>5. agent'[n].pc # "posted"
  BY DEF InFlight
<1>6. agent'[n] = agent[n] \/ NextAgentCommand(n, c) \/ ExecuteCommand(n)
  BY <1>0, <1>5, AgentBy
<1>. QED  BY <1>2, <1>3, <1>4, <1>6

(* A command delivered once and completed was never reported failed. *)
LEMMA OneResult ==
  ASSUME TypeOK, Busy, OneReport, [Next]_vars, NEW h \in Handlers,
         handler'[h].pc # "idle", ~handler'[h].ok, queue'[handler'[h].cmd].tries <= 1
  PROVE  queue'[handler'[h].cmd].state # "COMPLETED"
<1>. DEFINE c == handler'[h].cmd
<1>1. c \in 1..Len(queue) /\ queue[c].tries <= 1 /\ c \in 1..Len(queue') /\ c # Len(queue) + 1
  <2>1. c \in 1..Len(queue)
    BY HandlerFrom DEF Busy
  <2>. QED  BY <2>1, OnceBefore, QueueStays
<1>2. CASE handler[h].pc # "idle" /\ handler[h].cmd = c /\ ~handler[h].ok
  <2>1. queue[c].state # "COMPLETED"
    BY <1>1, <1>2 DEF OneReport, AtMostOnce
  <2>2. ASSUME NEW g \in Handlers, SaveCommand(g), handler[g].cmd = c
        PROVE  g = h
    BY <1>1, <1>2, <2>2 DEF SaveCommand, OneReport, AtMostOnce
  <2>. HIDE DEF c
  <2>3. queue'[c].state # "COMPLETED"
    BY <1>1, <1>2, <2>1, <2>2, CommandBy
  <2>. QED  BY <2>3 DEF c
<1>3. CASE \E n \in Nodes : CompleteCommand(n, h) /\ agent[n].cmd = c
  <2>1. PICK n \in Nodes : CompleteCommand(n, h) /\ agent[n].cmd = c
    BY <1>3
  <2>2. UNCHANGED queue /\ agent[n].pc \in InFlight
    BY <2>1 DEF CompleteCommand, InFlight
  <2>3. queue[c].state = "RUNNING"
    BY <1>1, <2>1, <2>2 DEF OneReport, AtMostOnce
  <2>. QED  BY <2>2, <2>3
<1>. QED  BY <1>2, <1>3, HandlerBy

(* Every step keeps one report to a delivery. *)
LEMMA StepOneReport ==
  ASSUME TypeOK, Busy, Tried, OwnCommands, OneReport, [Next]_vars
  PROVE  OneReport'
BY OneHandler, OneAgent, OneResult DEF OneReport, AtMostOnce

-------------------------------------------------------------------------------
(* A server gives its slot back once. *)

(* A create whose only result, now applied or lost, said that it failed. *)
FailedForGood(c) ==
  /\ queue[c].state \in {"RUNNING", "FAILED"}
  /\ \A n \in Nodes : agent[n].pc \in InFlight => agent[n].cmd # c
  /\ \A h \in Handlers : handler[h].pc # "idle" /\ handler[h].cmd = c => ~handler[h].ok

(* The server's create failed or was delivered again, or a delete of it was delivered. *)
Forfeited(i) ==
  \/ \E c \in 1..Len(queue) :
       /\ queue[c].kind = "CREATE_SERVER" /\ queue[c].inst = i
       /\ queue[c].tries > 1 \/ FailedForGood(c)
  \/ \E c \in 1..Len(queue) :
       /\ queue[c].kind = "DELETE_SERVER" /\ queue[c].inst = i
       /\ queue[c].state # "PENDING"

(* A slot is held from its reservation on, and a server inserted once has lost it only to a *)
(* create that failed or was repeated, or to a delete.                                      *)
SlotsForfeited ==
  /\ \A r \in Requests : request[r].pc = "reserved" => request[r].inst \in slots
  /\ \A i \in Instances : node[i] # None /\ i \notin slots => Forfeited(i)

(* A create that has failed for good stays so, unless it is delivered again. *)
LEMMA FailedStays ==
  ASSUME TypeOK, Busy, Tried, [Next]_vars, NEW c \in 1..Len(queue), FailedForGood(c)
  PROVE  queue'[c].tries > 1 \/ FailedForGood(c)'
<1>1. queue[c].tries \in Nat /\ queue[c].tries > 0 /\ c \in 1..Len(queue') /\ c # Len(queue) + 1
  <2>1. queue[c].state # "PENDING"
    BY DEF FailedForGood
  <2>. QED  BY <2>1, QueueFacts, CommandFields, QueueStays DEF TypeOK, Tried
<1>2. ASSUME NEW n \in Nodes, NextAgentCommand(n, c)
      PROVE  queue'[c].tries > 1
  <2>. QED  BY <1>1, <1>2, Claims
<1>3. CASE \A n \in Nodes : ~NextAgentCommand(n, c)
  <2>1. queue'[c].state \in {"RUNNING", "FAILED"}
    <3>1. ASSUME NEW h \in Handlers, SaveCommand(h), handler[h].cmd = c
          PROVE  ~handler[h].ok
      BY <3>1 DEF SaveCommand, FailedForGood
    <3>. QED  BY <1>1, <1>3, <3>1, CommandBy DEF FailedForGood
  <2>2. ASSUME NEW n \in Nodes, agent'[n].pc \in InFlight
        PROVE  agent'[n].cmd # c
    <3>1. agent'[n].pc # "idle" /\ agent'[n].pc # "posted"
      BY <2>2 DEF InFlight
    <3>2. ExecuteCommand(n) => agent[n].pc \in InFlight
      BY DEF ExecuteCommand, InFlight
    <3>. QED  BY <1>3, <2>2, <3>1, <3>2, AgentBy DEF FailedForGood
  <2>3. ASSUME NEW h \in Handlers, handler'[h].pc # "idle", handler'[h].cmd = c
        PROVE  ~handler'[h].ok
    <3>1. ASSUME NEW n \in Nodes, CompleteCommand(n, h)
          PROVE  agent[n].cmd # c
      BY <3>1 DEF CompleteCommand, FailedForGood, InFlight
    <3>. QED  BY <2>3, <3>1, HandlerBy DEF FailedForGood
  <2>. QED  BY <2>1, <2>2, <2>3 DEF FailedForGood
<1>. QED  BY <1>2, <1>3

(* What cost a server its slot stays on record. *)
LEMMA ForfeitedStays ==
  ASSUME TypeOK, Busy, Tried, [Next]_vars, NEW i \in Instances, Forfeited(i)
  PROVE  Forfeited(i)'
<1>1. ASSUME NEW c \in 1..Len(queue), queue[c].kind = "CREATE_SERVER", queue[c].inst = i,
             queue[c].tries > 1 \/ FailedForGood(c)
      PROVE  Forfeited(i)'
  <2>1. /\ c \in 1..Len(queue') /\ queue'[c].kind = queue[c].kind
        /\ queue'[c].inst = queue[c].inst
    BY QueueStays
  <2>2. queue[c].tries > 1 => queue'[c].tries > 1
    <3>1. queue'[c].tries <= 1 => queue[c].tries <= 1 /\ queue[c].tries \in Nat
      BY OnceBefore
    <3>2. queue'[c].tries \in Nat
      BY <2>1, StepTypes, ElementOfSeq, CommandFields DEF TypeOK
    <3>. QED  BY <3>1, <3>2
  <2>3. queue'[c].tries > 1 \/ FailedForGood(c)'
    BY <1>1, <2>2, FailedStays
  <2>. QED  BY <1>1, <2>1, <2>3 DEF Forfeited
<1>2. ASSUME NEW c \in 1..Len(queue), queue[c].kind = "DELETE_SERVER", queue[c].inst = i,
             queue[c].state # "PENDING"
      PROVE  Forfeited(i)'
  <2>1. /\ c \in 1..Len(queue') /\ queue'[c].kind = queue[c].kind
        /\ queue'[c].inst = queue[c].inst
    BY QueueStays
  <2>2. queue'[c].state # "PENDING"
    BY <1>2, <2>1, TriesStay, StepTried DEF Tried
  <2>. QED  BY <1>2, <2>1, <2>2 DEF Forfeited
<1>. QED  BY <1>1, <1>2 DEF Forfeited

(* Only an insertion gives a server its node. *)
LEMMA NodeSteps ==
  ASSUME TypeOK, Busy, [Next]_vars, NEW i \in Instances
  PROVE  node'[i] = node[i] \/ \E r \in Requests : InsertServer(r) /\ i = request[r].inst
<1>1. ASSUME NEW r \in Requests, InsertServer(r)
      PROVE  node'[i] = node[i] \/ i = request[r].inst
  BY <1>1 DEF InsertServer, TypeOK
<1>. QED  BY <1>1, ServerSteps DEF CheckServer, ReserveInstanceSlot, RejectServer,
     RejectServerLeaks, ReleaseInstanceSlot, ReleaseFails, UpdateInstance, LoadCrashed,
     QuarantineServer, OrchestratorCrash, rowVars

(* A request that has reserved its slot holds it. *)
LEMMA StepReserved ==
  ASSUME TypeOK, Busy, FreshIds, SlotsForfeited, [Next]_vars, NEW r \in Requests,
         request'[r].pc = "reserved"
  PROVE  request'[r].inst \in slots'
<1>1. CASE request'[r] = request[r]
  <2>1. /\ request[r].inst \in slots /\ node[request[r].inst] = None
        /\ request[r].inst \in Instances
    BY <1>1 DEF SlotsForfeited, FreshIds, Busy
  <2>2. ASSUME NEW q \in Requests, RejectServer(q)
        PROVE  request[q].inst # request[r].inst
    <3>1. q # r
      BY <1>1, <2>2 DEF RejectServer, IdleRequest, TypeOK
    <3>. QED  BY <1>1, <2>2, <3>1 DEF RejectServer, FreshIds
  <2>3. ASSUME NEW h \in Handlers, ReleaseInstanceSlot(h)
        PROVE  queue[handler[h].cmd].inst # request[r].inst
    <3>1. handler[h].cmd \in 1..Len(queue)
      BY <2>3 DEF ReleaseInstanceSlot, Busy
    <3>. QED  BY <2>1, <3>1 DEF FreshIds
  <2>4. ASSUME NEW q \in Requests, ReserveInstanceSlot(q)
        PROVE  slots \subseteq slots'
    BY <2>4 DEF ReserveInstanceSlot
  <2>5. (\E q \in Requests : RejectServer(q)) => request[r].inst \in slots'
    BY <2>1, <2>2 DEF RejectServer
  <2>6. (\E h \in Handlers : ReleaseInstanceSlot(h)) => request[r].inst \in slots'
    BY <2>1, <2>3 DEF ReleaseInstanceSlot
  <2>. QED  BY <1>1, <2>1, <2>4, <2>5, <2>6, SlotSteps
<1>2. CASE request'[r] # request[r]
  <2>1. \A q \in Requests, i \in Instances, n \in Nodes, p \in Ports : ~CheckServer(q, i, n, p)
    BY <1>2 DEF CheckServer, TypeOK
  <2>2. \A q \in Requests : ~InsertServer(q) /\ ~RejectServer(q) /\ ~RejectServerLeaks(q)
    BY <1>2 DEF InsertServer, RejectServer, RejectServerLeaks, IdleRequest, TypeOK
  <2>3. ~OrchestratorCrash
    BY DEF OrchestratorCrash, IdleRequest
  <2>4. PICK q \in Requests : ReserveInstanceSlot(q)
    BY <1>2, <2>1, <2>2, <2>3, ServerSteps DEF ReleaseInstanceSlot, ReleaseFails,
       UpdateInstance, LoadCrashed, QuarantineServer
  <2>. QED  BY <1>2, <2>4 DEF ReserveInstanceSlot, IdleRequest, TypeOK
<1>. QED  BY <1>1, <1>2

(* A released slot is that of a create that failed or of a delete. *)
LEMMA ReleaseForfeits ==
  ASSUME TypeOK, Busy, Tried, OneReport, NEW h \in Handlers, ReleaseInstanceSlot(h)
  PROVE  Forfeited(queue[handler[h].cmd].inst)
<1>. DEFINE c == handler[h].cmd
<1>1. /\ c \in 1..Len(queue) /\ queue[c].state # "PENDING" /\ queue[c].state \in CommandState
      /\ queue[c].tries \in Nat
  BY QueueFacts, CommandFields DEF ReleaseInstanceSlot, Busy, Tried, TypeOK
<1>2. CASE queue[c].kind = "DELETE_SERVER"
  BY <1>1, <1>2 DEF Forfeited
<1>3. CASE queue[c].kind = "CREATE_SERVER" /\ ~handler[h].ok /\ queue[c].tries <= 1
  <2>1. queue[c].state \in {"RUNNING", "FAILED"}
    BY <1>1, <1>3 DEF ReleaseInstanceSlot, OneReport, AtMostOnce, CommandState
  <2>2. \A n \in Nodes : agent[n].pc \in InFlight => agent[n].cmd # c
    BY <1>3 DEF ReleaseInstanceSlot, OneReport, AtMostOnce
  <2>3. \A g \in Handlers : handler[g].pc # "idle" /\ handler[g].cmd = c => ~handler[g].ok
    BY <1>3 DEF ReleaseInstanceSlot, OneReport, AtMostOnce
  <2>. QED  BY <1>1, <1>3, <2>1, <2>2, <2>3 DEF Forfeited, FailedForGood
<1>4. CASE queue[c].kind = "CREATE_SERVER" /\ ~(queue[c].tries <= 1)
  <2>1. queue[c].tries > 1
    BY <1>1, <1>4
  <2>. QED  BY <1>1, <1>4, <2>1 DEF Forfeited
<1>. QED  BY <1>2, <1>3, <1>4 DEF ReleaseInstanceSlot, Releases

(* Every step keeps the reason why a server has no slot. *)
LEMMA StepSlotsForfeited ==
  ASSUME TypeOK, Busy, Tried, FreshIds, OneReport, SlotsForfeited, [Next]_vars
  PROVE  SlotsForfeited'
<1>1. ASSUME NEW i \in Instances, node'[i] # None, i \notin slots'
      PROVE  Forfeited(i)'
  <2>1. CASE node[i] # None /\ i \notin slots
    BY <2>1, ForfeitedStays DEF SlotsForfeited
  <2>2. CASE node[i] = None
    <3>1. PICK r \in Requests : InsertServer(r) /\ i = request[r].inst
      BY <1>1, <2>2, NodeSteps
    <3>. QED  BY <1>1, <3>1 DEF InsertServer, SlotsForfeited
  <2>3. CASE node[i] # None /\ i \in slots
    <3>1. ASSUME NEW r \in Requests, ReserveInstanceSlot(r) \/ RejectServer(r)
          PROVE  i \in slots'
      BY <2>3, <3>1 DEF ReserveInstanceSlot, RejectServer, FreshIds
    <3>2. PICK h \in Handlers : ReleaseInstanceSlot(h)
      BY <1>1, <2>3, <3>1, SlotSteps
    <3>3. i = queue[handler[h].cmd].inst
      BY <1>1, <2>3, <3>2 DEF ReleaseInstanceSlot
    <3>4. Forfeited(i)
      BY <3>2, <3>3, ReleaseForfeits
    <3>. QED  BY <3>4, ForfeitedStays
  <2>. QED  BY <2>1, <2>2, <2>3
<1>. QED  BY <1>1, StepReserved DEF SlotsForfeited

(* Nothing is at work at the start. *)
LEMMA InitReports ==
  Init => OwnCommands /\ Awaited /\ OneReport /\ SlotsForfeited
<1> SUFFICES ASSUME Init PROVE OwnCommands /\ Awaited /\ OneReport /\ SlotsForfeited
  OBVIOUS
<1>. QED  BY DEF Init, OwnCommands, Awaited, OneReport, SlotsForfeited, InFlight,
     IdleRequest, IdleAgent, IdleHandler

(* A server whose row is there without a slot lost it to a create that failed, one that was *)
(* delivered twice, or a delete: whatever is lost, late or dies, never after a create that  *)
(* succeeded the first time.                                                                *)
THEOREM SlotlessOnlyAfterFailureHolds == Spec => []SlotlessOnlyAfterFailure
<1> DEFINE I == TypeOK /\ Busy /\ Tried /\ FreshIds /\ OwnCommands /\ OneReport
                /\ SlotsForfeited
<1>1. Init => I
  BY InitTypes, InitSlots, InitDelivered, InitReports
<1>2. I /\ [Next]_vars => I'
  BY StepTypes, StepTried, StepFreshIds, StepOwnCommands, StepOneReport, StepSlotsForfeited
<1>3. I => SlotlessOnlyAfterFailure
  <2> SUFFICES ASSUME I, NEW i \in Instances, status[i] # "absent", i \notin slots
               PROVE  \/ \E c \in Commands("CREATE_SERVER", i) :
                           queue[c].state \in {"RUNNING", "FAILED"} \/ queue[c].tries > 1
                      \/ \E c \in Commands("DELETE_SERVER", i) : queue[c].state # "PENDING"
    BY DEF SlotlessOnlyAfterFailure
  <2>1. Forfeited(i)
    BY DEF FreshIds, SlotsForfeited
  <2>2. DOMAIN queue = 1..Len(queue)
    BY QueueFacts DEF TypeOK
  <2>. QED  BY <2>1, <2>2 DEF Forfeited, FailedForGood, Commands
<1>. QED  BY <1>1, <1>2, <1>3, PTL DEF Spec

-------------------------------------------------------------------------------
(* No container outlives its server, unless the create is delivered again. *)

(* The first command of a server is the one create it has; its commands are all its node's, *)
(* and nothing of it is on a host before.                                                   *)
CreateFirst ==
  /\ \A c, d \in 1..Len(queue) :
       queue[c].kind = "CREATE_SERVER" /\ queue[d].inst = queue[c].inst => c <= d
  /\ \A c \in 1..Len(queue) : queue[c].node = node[queue[c].inst]
  /\ \A i \in Instances : node[i] # None =>
       \E c \in 1..Len(queue) : queue[c].kind = "CREATE_SERVER" /\ queue[c].inst = i
  /\ \A i \in Instances : container[i] # "none" \/ i \in sftpd => node[i] # None

(* While the only delivery of a command is at work, no later command of its node has been   *)
(* delivered.                                                                               *)
Undelivered ==
  \A n \in Nodes : agent[n].pc # "idle" /\ AtMostOnce(agent[n].cmd) =>
    \A d \in 1..Len(queue) : agent[n].cmd < d /\ queue[d].node = n => queue[d].tries = 0

(* The command deletes the server. *)
Deletes(c, i) == queue[c].kind = "DELETE_SERVER" /\ queue[c].inst = i

(* A delete that was carried out left no container, and only a delete removes the row; so   *)
(* it stays unless the create is delivered again.                                           *)
Emptied ==
  \A c \in 1..Len(queue) : queue[c].kind = "CREATE_SERVER" /\ AtMostOnce(c) =>
    /\ \A n \in Nodes :
         /\ agent[n].pc \in {"executed", "posted"} /\ agent[n].ok
         /\ Deletes(agent[n].cmd, queue[c].inst)
         => container[queue[c].inst] = "none"
    /\ \A h \in Handlers :
         /\ handler[h].pc # "idle" /\ handler[h].ok
         /\ Deletes(handler[h].cmd, queue[c].inst)
         => container[queue[c].inst] = "none"
    /\ status[queue[c].inst] = "absent" =>
         /\ container[queue[c].inst] = "none"
         /\ \E d \in 1..Len(queue) : Deletes(d, queue[c].inst) /\ queue[d].tries > 0

(* Only docker changes containers. *)
LEMMA HostSteps ==
  ASSUME [Next]_vars
  PROVE  UNCHANGED <<container, sftpd>> \/ \E n \in Nodes : ExecuteCommand(n)
<1>1. CASE UNCHANGED vars
  BY <1>1 DEF vars, hostVars
<1>2. CASE RequestNext
  BY <1>2 DEF RequestNext, CheckServer, ReserveInstanceSlot, InsertServer, RejectServer,
              RejectServerLeaks, QueueCommand, hostVars
<1>3. CASE AgentNext
  BY <1>3 DEF AgentNext, NextAgentCommand, CompleteCommand, LoseCommand, GiveUpWaiting,
              RevokeNode, hostVars
<1>4. CASE HandlerNext
  BY <1>4 DEF HandlerNext, LoadCommand, RefuseResult, SaveCommand, ReleaseInstanceSlot,
              UpdateInstance, SaveCommandFails, ReleaseFails, UpdateFails, hostVars
<1>5. CASE \E c \in DOMAIN queue : ClaimExpires(c)
  BY <1>5 DEF ClaimExpires, hostVars
<1>6. CASE \E i \in Instances : LoadCrashed(i) \/ QuarantineServer(i)
  BY <1>6 DEF LoadCrashed, QuarantineServer, hostVars
<1>7. CASE OrchestratorCrash
  BY <1>7 DEF OrchestratorCrash, hostVars
<1>. QED  BY <1>1, <1>2, <1>3, <1>4, <1>5, <1>6, <1>7 DEF Next

(* A new command is a create of a server that had no node, or a command of one that has. *)
LEMMA NewCommand ==
  ASSUME TypeOK, Busy, FreshIds, [Next]_vars, Len(queue) + 1 \in 1..Len(queue')
  PROVE  LET c == Len(queue) + 1 IN
         /\ queue'[c].inst \in Instances /\ queue'[c].tries = 0
         /\ queue'[c].node = node'[queue'[c].inst]
         /\ \/ /\ queue'[c].kind = "CREATE_SERVER" /\ node[queue'[c].inst] = None
               /\ status'[queue'[c].inst] = "CREATING"
            \/ queue'[c].kind \in UserCommands
<1>. DEFINE c == Len(queue) + 1
<1>0. Len(queue) \in Nat
  BY QueueFacts DEF TypeOK
<1>1. c \notin 1..Len(queue)
  BY <1>0
<1>2. CASE \E r \in Requests :
             /\ InsertServer(r)
             /\ queue'[c] = Pending("CREATE_SERVER", request[r].inst, request[r].node)
  <2>1. PICK r \in Requests :
             /\ InsertServer(r)
             /\ queue'[c] = Pending("CREATE_SERVER", request[r].inst, request[r].node)
    BY <1>2
  <2>2. /\ queue'[c].kind = "CREATE_SERVER" /\ queue'[c].inst = request[r].inst
        /\ queue'[c].node = request[r].node /\ queue'[c].tries = 0
    BY <2>1 DEF Pending
  <2>3. request[r].inst \in Instances /\ node[request[r].inst] = None
    BY <2>1, InsertAppends DEF InsertServer, FreshIds
  <2>4. node'[request[r].inst] = request[r].node /\ status'[request[r].inst] = "CREATING"
    BY <2>1, <2>3 DEF InsertServer, TypeOK
  <2>. QED  BY <2>2, <2>3, <2>4
<1>3. CASE \E i \in Instances, kind \in UserCommands :
             QueueCommand(i, kind) /\ queue'[c] = Pending(kind, i, node[i])
  <2>1. PICK i \in Instances, kind \in UserCommands :
             QueueCommand(i, kind) /\ queue'[c] = Pending(kind, i, node[i])
    BY <1>3
  <2>2. /\ queue'[c].kind = kind /\ queue'[c].inst = i
        /\ queue'[c].node = node[i] /\ queue'[c].tries = 0
    BY <2>1 DEF Pending
  <2>. QED  BY <2>1, <2>2 DEF QueueCommand, rowVars
<1>. QED  BY <1>1, <1>2, <1>3, CommandBy

(* Every step keeps a server's create its first command. *)
LEMMA StepCreateFirst ==
  ASSUME TypeOK, Busy, FreshIds, CreateFirst, [Next]_vars
  PROVE  CreateFirst'
<1>1. /\ Len(queue) \in Nat /\ Len(queue') \in Nat
      /\ \A c \in 1..Len(queue) : queue[c].inst \in Instances /\ node[queue[c].inst] # None
  BY QueueFacts, QueueStays, CommandFields DEF TypeOK, FreshIds
<1>2. \A c \in 1..Len(queue') : c \in 1..Len(queue) \/ c = Len(queue) + 1
  BY CommandBy
<1>3. ASSUME NEW i \in Instances, node[i] # None
      PROVE  node'[i] = node[i]
  BY <1>3, NodeSteps DEF InsertServer, FreshIds
<1>4. \A kind \in UserCommands : kind # "CREATE_SERVER"
  BY UserCommandsAssumption
<1>5. ASSUME NEW c \in 1..Len(queue'), NEW d \in 1..Len(queue'),
             queue'[c].kind = "CREATE_SERVER", queue'[d].inst = queue'[c].inst
      PROVE  c <= d
  <2>1. CASE c \in 1..Len(queue) /\ d \in 1..Len(queue)
    BY <1>5, <2>1, QueueStays DEF CreateFirst
  <2>2. CASE d = Len(queue) + 1
    BY <1>1, <1>2, <2>2
  <2>3. CASE c = Len(queue) + 1 /\ d \in 1..Len(queue)
    <3>1. node[queue'[c].inst] = None
      BY <1>4, <1>5, <2>3, NewCommand
    <3>2. queue'[d].inst = queue[d].inst
      BY <2>3, QueueStays
    <3>. QED  BY <1>1, <1>5, <2>3, <3>1, <3>2
  <2>. QED  BY <1>2, <2>1, <2>2, <2>3
<1>6. ASSUME NEW c \in 1..Len(queue')
      PROVE  queue'[c].node = node'[queue'[c].inst]
  <2>1. CASE c \in 1..Len(queue)
    BY <1>1, <1>3, <2>1, QueueStays DEF CreateFirst
  <2>2. CASE c = Len(queue) + 1
    BY <2>2, NewCommand
  <2>. QED  BY <1>2, <2>1, <2>2
<1>7. ASSUME NEW i \in Instances, node'[i] # None
      PROVE  \E c \in 1..Len(queue') :
               queue'[c].kind = "CREATE_SERVER" /\ queue'[c].inst = i
  <2>1. CASE node'[i] = node[i]
    <3>1. PICK c \in 1..Len(queue) : queue[c].kind = "CREATE_SERVER" /\ queue[c].inst = i
      BY <1>7, <2>1 DEF CreateFirst
    <3>. QED  BY <1>1, <3>1, QueueStays
  <2>2. CASE \E r \in Requests : InsertServer(r) /\ i = request[r].inst
    <3>1. PICK r \in Requests : InsertServer(r) /\ i = request[r].inst
      BY <2>2
    <3>2. Len(queue') = Len(queue) + 1
          /\ queue'[Len(queue) + 1] = Pending("CREATE_SERVER", i, request[r].node)
      BY <3>1, InsertAppends
    <3>3. queue'[Len(queue) + 1].kind = "CREATE_SERVER" /\ queue'[Len(queue) + 1].inst = i
      BY <3>2 DEF Pending
    <3>. QED  BY <1>1, <3>2, <3>3
  <2>. QED  BY <2>1, <2>2, NodeSteps
<1>8. ASSUME NEW i \in Instances, container'[i] # "none" \/ i \in sftpd'
      PROVE  node'[i] # None
  <2>1. node[i] # None
    <3>1. CASE UNCHANGED <<container, sftpd>>
      BY <1>8, <3>1 DEF CreateFirst
    <3>2. CASE \E n \in Nodes : ExecuteCommand(n)
      <4>1. PICK n \in Nodes : ExecuteCommand(n)
        BY <3>2
      <4>. DEFINE j == queue[agent[n].cmd].inst
      <4>2. /\ j \in Instances /\ node[j] # None
            /\ i # j => container'[i] = container[i]
            /\ sftpd' \in SftpOutcomes(queue[agent[n].cmd].kind, j, agent'[n].ok)
        BY <1>1, <4>1, Executes
      <4>. HIDE DEF j
      <4>3. i # j /\ i \in sftpd' => i \in sftpd
        BY <4>2 DEF SftpOutcomes
      <4>. QED  BY <1>8, <4>2, <4>3 DEF CreateFirst
    <3>. QED  BY <3>1, <3>2, HostSteps
  <2>. QED  BY <1>3, <2>1
<1>. QED  BY <1>5, <1>6, <1>7, <1>8 DEF CreateFirst

(* An agent does not take a later command before it is done with the one it has. *)
LEMMA StepUndelivered ==
  ASSUME TypeOK, Busy, Tried, FreshIds, DeliveredInOrder, OwnCommands, Undelivered, [Next]_vars
  PROVE  Undelivered'
<1> SUFFICES ASSUME NEW n \in Nodes, agent'[n].pc # "idle", queue'[agent'[n].cmd].tries <= 1,
                    NEW d \in 1..Len(queue'), agent'[n].cmd < d, queue'[d].node = n,
                    queue'[d].tries # 0
             PROVE  FALSE
  BY DEF Undelivered, AtMostOnce
<1>. DEFINE c == agent'[n].cmd
<1>1. /\ c \in 1..Len(queue) /\ queue[c].tries <= 1 /\ queue[c].tries \in Nat
      /\ queue'[c].tries \in Nat
      /\ Len(queue) \in Nat
  <2>1. c \in 1..Len(queue)
    BY AgentFrom DEF Busy
  <2>. QED  BY <2>1, OnceBefore, QueueStays
<1>2. queue'[d].tries > 0
  <2>1. queue'[d].tries \in Nat
    BY StepTypes, ElementOfSeq, CommandFields DEF TypeOK
  <2>. QED  BY <2>1
<1>3. d \in 1..Len(queue)
  BY <1>2, DeliveredBy
<1>4. queue[d].node = n
  BY <1>3, QueueStays
<1>5. CASE agent[n].pc # "idle" /\ agent[n].cmd = c
  <2>1. queue[d].tries = 0
    BY <1>1, <1>3, <1>4, <1>5 DEF Undelivered, AtMostOnce
  <2>2. PICK m \in Nodes : NextAgentCommand(m, d)
    BY <1>2, <2>1, DeliveredBy
  <2>3. m = n
    BY <1>4, <2>2 DEF NextAgentCommand, Servable
  <2>. QED  BY <1>5, <2>2, <2>3 DEF NextAgentCommand
<1>6. CASE NextAgentCommand(n, c)
  <2>1. /\ queue'[c].tries = queue[c].tries + 1
        /\ \A e \in 1..Len(queue) : e # c => queue'[e] = queue[e]
    <3>. HIDE DEF c
    <3>. QED  BY <1>1, <1>6, Claims
  <2>3. queue[c].tries = 0
    <3>1. queue'[c].tries <= 1
      OBVIOUS
    <3>. HIDE DEF c
    <3>. QED  BY <1>1, <2>1, <3>1
  <2>4. queue[c].node = n
    BY <1>6 DEF NextAgentCommand, Servable
  <2>5. d # c /\ queue[d].tries > 0
    <3>1. d # c
      BY <1>1, <1>3
    <3>. QED  BY <1>2, <1>3, <2>1, <3>1
  <2>6. DOMAIN queue = 1..Len(queue)
    BY QueueFacts DEF TypeOK
  <2>7. c < d
    OBVIOUS
  <2>. HIDE DEF c
  <2>8. queue[c].tries > 0
    BY <1>1, <1>3, <1>4, <2>4, <2>5, <2>6, <2>7 DEF DeliveredInOrder
  <2>. QED  BY <2>3, <2>8
<1>. QED  BY <1>5, <1>6, AgentFrom

(* Only the result of a delete that was carried out removes a row. *)
LEMMA RowRemoved ==
  ASSUME TypeOK, Busy, [Next]_vars, NEW i \in Instances,
         status[i] # "absent", status'[i] = "absent"
  PROVE  \E h \in Handlers :
           UpdateInstance(h) /\ handler[h].ok /\ Deletes(handler[h].cmd, i)
<1>1. ASSUME NEW r \in Requests, InsertServer(r)
      PROVE  status'[i] # "absent"
  BY <1>1 DEF InsertServer, TypeOK
<1>2. ASSUME NEW j \in Instances, LoadCrashed(j) \/ QuarantineServer(j)
      PROVE  status'[i] # "absent"
  BY <1>2 DEF LoadCrashed, QuarantineServer, rowVars, TypeOK
<1>3. PICK h \in Handlers : UpdateInstance(h)
  BY <1>1, <1>2, ServerSteps DEF CheckServer, ReserveInstanceSlot, RejectServer,
     RejectServerLeaks, ReleaseInstanceSlot, ReleaseFails, OrchestratorCrash, rowVars
<1>. DEFINE c == handler[h].cmd
            j == queue[c].inst
<1>4. j \in Instances
  BY <1>3, UpdateStatus
<1>5. \A k \in Instances :
        status'[k] = IF k = j THEN NewStatus(queue[c].kind, handler[h].ok, status[j])
                              ELSE status[k]
  BY <1>3, <1>4 DEF UpdateInstance, TypeOK
<1>6. i = j
  BY <1>5
<1>7. queue[c].kind = "DELETE_SERVER" /\ handler[h].ok
  <2>1. NewStatus(queue[c].kind, handler[h].ok, status[i]) = "absent"
    BY <1>5, <1>6
  <2>. QED  BY <2>1 DEF NewStatus
<1>. QED  BY <1>3, <1>6, <1>7 DEF Deletes

(* Once a delete of a server has been delivered, its create is not at work for the first    *)
(* time.                                                                                    *)
LEMMA CreateIsOver ==
  ASSUME TypeOK, Busy, OwnCommands, CreateFirst, Undelivered,
         NEW c \in 1..Len(queue), queue[c].kind = "CREATE_SERVER", AtMostOnce(c),
         NEW d \in 1..Len(queue), Deletes(d, queue[c].inst), queue[d].tries > 0,
         NEW n \in Nodes, agent[n].pc # "idle"
  PROVE  agent[n].cmd # c
<1> SUFFICES ASSUME agent[n].cmd = c PROVE FALSE
  OBVIOUS
<1>1. c <= d /\ c # d /\ queue[d].node = queue[c].node
  BY DEF CreateFirst, Deletes
<1>2. queue[d].node = n
  BY <1>1 DEF OwnCommands
<1>3. c < d
  BY <1>1, QueueFacts DEF TypeOK
<1>. QED  BY <1>2, <1>3 DEF Undelivered

(* So a container it removed stays away. *)
LEMMA EmptyStays ==
  ASSUME TypeOK, Busy, OwnCommands, CreateFirst, Undelivered, [Next]_vars,
         NEW c \in 1..Len(queue), queue[c].kind = "CREATE_SERVER", AtMostOnce(c),
         NEW d \in 1..Len(queue), Deletes(d, queue[c].inst), queue[d].tries > 0,
         container[queue[c].inst] = "none"
  PROVE  container'[queue[c].inst] = "none"
<1>1. CASE UNCHANGED <<container, sftpd>>
  BY <1>1
<1>2. CASE \E n \in Nodes : ExecuteCommand(n)
  <2>1. PICK n \in Nodes : ExecuteCommand(n)
    BY <1>2
  <2>. DEFINE e == agent[n].cmd
              i == queue[c].inst
  <2>2. /\ e \in 1..Len(queue) /\ i \in Instances
        /\ queue[e].inst # i => container'[i] = container[i]
        /\ queue[e].inst = i => Outcome(queue[e].kind, "none", container'[i], agent'[n].ok)
    BY <2>1, Executes, QueueFacts, CommandFields DEF TypeOK
  <2>3. CASE queue[e].inst = i /\ queue[e].kind = "CREATE_SERVER"
    <3>1. e <= c /\ c <= e
      BY <2>2, <2>3 DEF CreateFirst
    <3>2. e = c
      BY <2>2, <3>1, QueueFacts DEF TypeOK
    <3>3. agent[n].pc # "idle"
      BY <2>1 DEF ExecuteCommand
    <3>. QED  BY <3>2, <3>3, CreateIsOver
  <2>4. CASE queue[e].inst = i /\ queue[e].kind # "CREATE_SERVER"
    <3>1. Outcome(queue[e].kind, "none", container'[i], agent'[n].ok)
      BY <2>2, <2>4
    <3>. HIDE DEF e, i
    <3>2. container'[i] = "none"
      BY <2>4, <3>1 DEF Outcome
    <3>. QED  BY <3>2 DEF i
  <2>. QED  BY <2>2, <2>3, <2>4
<1>. QED  BY <1>1, <1>2, HostSteps

(* Every step keeps a deleted server's host empty, while its create was delivered once. *)
LEMMA StepEmptied ==
  ASSUME TypeOK, Busy, Tried, FreshIds, OwnCommands, CreateFirst, Undelivered, Emptied,
         [Next]_vars
  PROVE  Emptied'
<1> SUFFICES ASSUME NEW c \in 1..Len(queue'), queue'[c].kind = "CREATE_SERVER",
                    queue'[c].tries <= 1
             PROVE  /\ \A n \in Nodes :
                         /\ agent'[n].pc \in {"executed", "posted"} /\ agent'[n].ok
                         /\ Deletes(agent[n].cmd, queue[c].inst)'
                         => container'[queue'[c].inst] = "none"
                    /\ \A h \in Handlers :
                         /\ handler'[h].pc # "idle" /\ handler'[h].ok
                         /\ Deletes(handler[h].cmd, queue[c].inst)'
                         => container'[queue'[c].inst] = "none"
                    /\ status'[queue'[c].inst] = "absent" =>
                         /\ container'[queue'[c].inst] = "none"
                         /\ \E d \in 1..Len(queue') :
                              Deletes(d, queue[c].inst)' /\ queue'[d].tries > 0
  BY DEF Emptied, AtMostOnce
<1>. DEFINE i == queue'[c].inst
<1>1. /\ \A n \in Nodes : agent'[n].pc # "idle" => agent'[n].cmd \in 1..Len(queue)
      /\ \A h \in Handlers : handler'[h].pc # "idle" => handler'[h].cmd \in 1..Len(queue)
  BY AgentFrom, HandlerFrom DEF Busy
<1>2. CASE c = Len(queue) + 1
  <2>1. node[i] = None /\ status'[i] = "CREATING"
    BY <1>2, NewCommand, UserCommandsAssumption
  <2>2. ASSUME NEW d \in 1..Len(queue)
        PROVE  queue'[d].inst # i
    <3>1. queue'[d].inst = queue[d].inst /\ node[queue[d].inst] # None
      BY QueueStays DEF FreshIds
    <3>. QED  BY <2>1, <3>1
  <2>. QED  BY <1>1, <2>1, <2>2 DEF Deletes
<1>3. CASE c \in 1..Len(queue)
  <2>1. /\ queue[c].kind = "CREATE_SERVER" /\ queue[c].inst = i /\ AtMostOnce(c)
        /\ i \in Instances
    BY <1>3, QueueStays, OnceBefore, QueueFacts, CommandFields DEF AtMostOnce, TypeOK
  <2>2. ASSUME NEW d \in 1..Len(queue), Deletes(d, i), queue[d].tries > 0,
               container[i] = "none"
        PROVE  container'[i] = "none"
    BY <1>3, <2>1, <2>2, EmptyStays
  <2>3. ASSUME NEW d \in 1..Len(queue)
        PROVE  queue'[d].kind = "DELETE_SERVER" /\ queue'[d].inst = i <=> Deletes(d, i)
    BY QueueStays DEF Deletes
  <2>4. ASSUME NEW n \in Nodes, agent[n].pc \in {"executed", "posted"}, agent[n].ok,
               Deletes(agent[n].cmd, i)
        PROVE  container'[i] = "none"
    <3>1. container[i] = "none"
      BY <1>3, <2>1, <2>4 DEF Emptied
    <3>2. agent[n].cmd \in 1..Len(queue) /\ queue[agent[n].cmd].tries > 0
      BY <2>4 DEF Busy, Tried
    <3>. QED  BY <2>2, <2>4, <3>1, <3>2
  <2>5. ASSUME NEW h \in Handlers, handler[h].pc # "idle", handler[h].ok,
               Deletes(handler[h].cmd, i)
        PROVE  /\ container[i] = "none" /\ container'[i] = "none"
               /\ handler[h].cmd \in 1..Len(queue) /\ queue[handler[h].cmd].tries > 0
    <3>1. container[i] = "none"
      BY <1>3, <2>1, <2>5 DEF Emptied
    <3>2. handler[h].cmd \in 1..Len(queue) /\ queue[handler[h].cmd].tries > 0
      BY <2>5 DEF Busy, Tried
    <3>. QED  BY <2>2, <2>5, <3>1, <3>2
  <2>6. ASSUME NEW n \in Nodes, agent'[n].pc \in {"executed", "posted"}, agent'[n].ok,
               queue'[agent'[n].cmd].kind = "DELETE_SERVER", queue'[agent'[n].cmd].inst = i
        PROVE  container'[i] = "none"
    <3>. DEFINE d == agent'[n].cmd
    <3>1. d \in 1..Len(queue) /\ Deletes(d, i)
      BY <1>1, <2>3, <2>6
    <3>2. CASE agent'[n] = agent[n]
      BY <2>4, <2>6, <3>1, <3>2
    <3>3. CASE \E h \in Handlers : CompleteCommand(n, h) /\ agent'[n].cmd = agent[n].cmd
                                   /\ agent'[n].ok = agent[n].ok
      BY <2>4, <2>6, <3>1, <3>3 DEF CompleteCommand
    <3>4. CASE ExecuteCommand(n) /\ agent'[n].cmd = agent[n].cmd
      <4>1. Outcome("DELETE_SERVER", container[i], container'[i], agent'[n].ok)
        BY <3>1, <3>4, Executes DEF Deletes
      <4>. QED  BY <2>6, <4>1 DEF Outcome
    <3>5. agent'[n].pc # "idle" /\ agent'[n].pc # "claimed"
      BY <2>6
    <3>. QED  BY <3>2, <3>3, <3>4, <3>5, AgentBy
  <2>7. ASSUME NEW h \in Handlers, handler'[h].pc # "idle", handler'[h].ok,
               queue'[handler'[h].cmd].kind = "DELETE_SERVER",
               queue'[handler'[h].cmd].inst = i
        PROVE  container'[i] = "none"
    <3>1. Deletes(handler'[h].cmd, i)
      BY <1>1, <2>3, <2>7
    <3>2. ASSUME NEW n \in Nodes, CompleteCommand(n, h)
          PROVE  agent[n].pc = "executed"
      BY <3>2 DEF CompleteCommand
    <3>. QED  BY <2>4, <2>5, <2>7, <3>1, <3>2, HandlerBy
  <2>8. ASSUME status'[i] = "absent"
        PROVE  /\ container'[i] = "none"
               /\ \E d \in 1..Len(queue') : /\ queue'[d].kind = "DELETE_SERVER"
                                            /\ queue'[d].inst = i /\ queue'[d].tries > 0
    <3>1. PICK d \in 1..Len(queue) :
            Deletes(d, i) /\ queue[d].tries > 0 /\ container[i] = "none"
      <4>1. CASE status[i] = "absent"
        BY <1>3, <2>1, <4>1 DEF Emptied
      <4>2. CASE status[i] # "absent"
        <5>1. PICK h \in Handlers :
                UpdateInstance(h) /\ handler[h].ok /\ Deletes(handler[h].cmd, i)
          BY <2>1, <2>8, <4>2, RowRemoved
        <5>2. handler[h].pc # "idle"
          BY <5>1 DEF UpdateInstance
        <5>. QED  BY <2>5, <5>1, <5>2
      <4>. QED  BY <4>1, <4>2
    <3>2. d \in 1..Len(queue') /\ queue'[d].tries > 0
      BY <3>1, QueueStays, TriesStay
    <3>. QED  BY <2>2, <2>3, <3>1, <3>2
  <2>. QED  BY <2>6, <2>7, <2>8 DEF Deletes
<1>. QED  BY <1>2, <1>3, CommandBy

(* No server, no container and no command at the start. *)
LEMMA InitEmptied == Init => CreateFirst /\ Undelivered /\ Emptied
<1> SUFFICES ASSUME Init PROVE CreateFirst /\ Undelivered /\ Emptied
  OBVIOUS
<1>1. Len(queue) = 0
  BY EmptySeq DEF Init
<1>. QED  BY <1>1 DEF Init, CreateFirst, Undelivered, Emptied, IdleAgent, IdleHandler

(* A container outlives its server's row only when the create was delivered again, however  *)
(* results and requests interleave, and whatever is lost, late or dies.                     *)
THEOREM OrphanNeedsRedeliveryHolds == Spec => []OrphanNeedsRedelivery
<1> DEFINE I == TypeOK /\ Busy /\ Tried /\ FreshIds /\ DeliveredInOrder /\ OwnCommands
                /\ CreateFirst /\ Undelivered /\ Emptied
<1>1. Init => I
  BY InitTypes, InitSlots, InitDelivered, InitReports, InitEmptied
<1>2. I /\ [Next]_vars => I'
  BY StepTypes, StepTried, StepFreshIds, StepDeliveredInOrder, StepOwnCommands,
     StepCreateFirst, StepUndelivered, StepEmptied
<1>3. I => OrphanNeedsRedelivery
  <2> SUFFICES ASSUME I, NEW i \in Instances, status[i] = "absent", container[i] # "none"
               PROVE  \E c \in Commands("CREATE_SERVER", i) : queue[c].tries > 1
    BY DEF OrphanNeedsRedelivery
  <2>1. PICK c \in 1..Len(queue) : queue[c].kind = "CREATE_SERVER" /\ queue[c].inst = i
    BY DEF CreateFirst
  <2>2. ~(queue[c].tries <= 1)
    BY <2>1 DEF Emptied, AtMostOnce
  <2>3. DOMAIN queue = 1..Len(queue) /\ queue[c].tries \in Nat
    BY QueueFacts, CommandFields DEF TypeOK
  <2>. QED  BY <2>1, <2>2, <2>3 DEF Commands
<1>. QED  BY <1>1, <1>2, <1>3, PTL DEF Spec

-------------------------------------------------------------------------------
(* The commands of a server whose results were all applied in full and in time are carried *)
(* out and applied one at a time.                                                           *)

(* The command's server is such a server. *)
Whole(c) == queue[c].inst \notin cut

(* Then a handler has the result its agent waits with, and the command is RUNNING until the *)
(* result is saved.                                                                         *)
Serial ==
  /\ \A h \in Handlers : handler[h].pc # "idle" /\ Whole(handler[h].cmd) =>
       \E n \in Nodes : /\ agent[n].pc = "posted" /\ agent[n].at = h
                        /\ agent[n].cmd = handler[h].cmd /\ agent[n].ok = handler[h].ok
  /\ \A h \in Handlers : handler[h].pc \in {"received", "loaded"} /\ Whole(handler[h].cmd) =>
       queue[handler[h].cmd].state = "RUNNING"
  /\ \A n \in Nodes : agent[n].pc \in InFlight /\ Whole(agent[n].cmd) =>
       queue[agent[n].cmd].state = "RUNNING"

(* A server never comes back among them, and these steps take its server out of them. *)
LEMMA CutGrows ==
  ASSUME [Next]_vars
  PROVE  cut \subseteq cut'
<1> USE DEF faultVars
<1>1. CASE UNCHANGED vars
  BY <1>1 DEF vars
<1>2. CASE RequestNext
  BY <1>2 DEF RequestNext, CheckServer, ReserveInstanceSlot, InsertServer, RejectServer,
              RejectServerLeaks, QueueCommand
<1>3. CASE AgentNext
  BY <1>3 DEF AgentNext, NextAgentCommand, ExecuteCommand, CompleteCommand, LoseCommand,
              GiveUpWaiting, RevokeNode
<1>4. CASE HandlerNext
  BY <1>4 DEF HandlerNext, LoadCommand, RefuseResult, SaveCommand, ReleaseInstanceSlot,
              UpdateInstance, SaveCommandFails, ReleaseFails, UpdateFails
<1>5. CASE \E c \in DOMAIN queue : ClaimExpires(c)
  BY <1>5 DEF ClaimExpires
<1>6. CASE \E i \in Instances : LoadCrashed(i) \/ QuarantineServer(i)
  BY <1>6 DEF LoadCrashed, QuarantineServer
<1>7. CASE OrchestratorCrash
  BY <1>7 DEF OrchestratorCrash
<1>. QED  BY <1>1, <1>2, <1>3, <1>4, <1>5, <1>6, <1>7 DEF Next

(* What was whole after a step was whole before. *)
LEMMA WholeBefore ==
  ASSUME TypeOK, Busy, [Next]_vars, NEW c \in 1..Len(queue), Whole(c)'
  PROVE  Whole(c)
BY CutGrows, QueueStays DEF Whole

(* The steps after which a command is not whole. *)
LEMMA CutShort ==
  ASSUME TypeOK, Busy, [Next]_vars, NEW c \in 1..Len(queue), Whole(c)'
  PROVE  /\ \A n \in Nodes : ~(GiveUpWaiting(n) /\ agent[n].cmd = c)
         /\ \A h \in Handlers : ~(UpdateFails(h) /\ handler[h].cmd = c)
         /\ \A h \in Handlers : ~(/\ OrchestratorCrash /\ handler[h].cmd = c
                                   /\ handler[h].pc \in {"saved", "released"})
<1>1. queue[c].inst \notin cut'
  BY QueueStays DEF Whole
<1>. QED  BY <1>1 DEF GiveUpWaiting, UpdateFails, OrchestratorCrash

(* What takes an agent from where it is. *)
LEMMA AgentMoves ==
  ASSUME TypeOK, Busy, [Next]_vars, NEW n \in Nodes, agent[n].pc # "idle",
         agent'[n] # agent[n]
  PROVE  \/ ExecuteCommand(n)
         \/ \E h \in Handlers : CompleteCommand(n, h)
         \/ LoseCommand(n) \/ GiveUpWaiting(n)
         \/ \E h \in Handlers :
              (RefuseResult(h) \/ UpdateInstance(h) \/ UpdateFails(h)) /\ agent[n].at = h
         \/ OrchestratorCrash
<1>1. CASE AgentNext
  <2>1. PICK m \in Nodes : \/ \E c \in DOMAIN queue : NextAgentCommand(m, c)
                           \/ ExecuteCommand(m)
                           \/ \E h \in Handlers : CompleteCommand(m, h)
                           \/ LoseCommand(m)
                           \/ GiveUpWaiting(m)
                           \/ RevokeNode(m)
    BY <1>1 DEF AgentNext
  <2>2. CASE \E c \in DOMAIN queue : NextAgentCommand(m, c)
    BY <2>2 DEF NextAgentCommand, TypeOK
  <2>3. CASE ExecuteCommand(m)
    BY <2>3, Executes
  <2>4. CASE \E h \in Handlers : CompleteCommand(m, h)
    <3>1. PICK h \in Handlers : CompleteCommand(m, h)
      BY <2>4
    <3>2. \A k \in Nodes : k # m => agent'[k] = agent[k]
      BY <3>1 DEF CompleteCommand, TypeOK
    <3>. QED  BY <3>1, <3>2
  <2>5. CASE LoseCommand(m) \/ GiveUpWaiting(m)
    BY <2>5 DEF LoseCommand, GiveUpWaiting, TypeOK
  <2>6. CASE RevokeNode(m)
    BY <2>6 DEF RevokeNode
  <2>. QED  BY <2>1, <2>2, <2>3, <2>4, <2>5, <2>6
<1>2. CASE HandlerNext
  <2>1. PICK h \in Handlers : RefuseResult(h) \/ UpdateInstance(h) \/ UpdateFails(h)
    BY <1>2 DEF HandlerNext, LoadCommand, SaveCommand, ReleaseInstanceSlot,
                SaveCommandFails, ReleaseFails
  <2>2. Answer(h)
    BY <2>1 DEF RefuseResult, UpdateInstance, UpdateFails
  <2>. QED  BY <2>1, <2>2 DEF Answer
<1>3. RequestNext => UNCHANGED agent
  BY DEF RequestNext, CheckServer, ReserveInstanceSlot, InsertServer, RejectServer,
         RejectServerLeaks, QueueCommand
<1>4. (\E c \in DOMAIN queue : ClaimExpires(c)) => UNCHANGED agent
  BY DEF ClaimExpires
<1>5. (\E i \in Instances : LoadCrashed(i) \/ QuarantineServer(i)) => UNCHANGED agent
  BY DEF LoadCrashed, QuarantineServer
<1>. QED  BY <1>1, <1>2, <1>3, <1>4, <1>5 DEF Next, vars

(* A whole command is with one agent, and with the handler it waits for. *)
LEMMA SoleHolder ==
  ASSUME Busy, OwnCommands, Serial, NEW h \in Handlers, handler[h].pc # "idle",
         Whole(handler[h].cmd),
         NEW n \in Nodes, agent[n].pc # "idle", agent[n].cmd = handler[h].cmd
  PROVE  agent[n].pc = "posted" /\ agent[n].at = h /\ agent[n].ok = handler[h].ok
<1>1. PICK m \in Nodes : /\ agent[m].pc = "posted" /\ agent[m].at = h
                         /\ agent[m].cmd = handler[h].cmd /\ agent[m].ok = handler[h].ok
  BY DEF Serial
<1>2. m = n
  BY <1>1 DEF OwnCommands
<1>. QED  BY <1>1, <1>2

(* It is with one handler. *)
LEMMA SoleHandler ==
  ASSUME Busy, OwnCommands, Serial, NEW h \in Handlers, handler[h].pc # "idle",
         NEW g \in Handlers, handler[g].pc # "idle", handler[h].cmd = handler[g].cmd,
         Whole(handler[h].cmd)
  PROVE  h = g
<1>1. PICK m \in Nodes : /\ agent[m].pc = "posted" /\ agent[m].at = h
                         /\ agent[m].cmd = handler[h].cmd
  BY DEF Serial
<1>. QED  BY <1>1, SoleHolder

(* The agent of a handler at work on it goes on waiting. *)
LEMMA StepWaits ==
  ASSUME TypeOK, Busy, Serial, [Next]_vars,
         NEW h \in Handlers, handler'[h].pc # "idle",
         NEW c \in 1..Len(queue), handler'[h].cmd = c, Whole(c)'
  PROVE  \E n \in Nodes : /\ agent'[n].pc = "posted" /\ agent'[n].at = h
                          /\ agent'[n].cmd = c /\ agent'[n].ok = handler'[h].ok
<1>1. CASE /\ handler[h].pc # "idle" /\ handler'[h].cmd = handler[h].cmd
           /\ handler'[h].ok = handler[h].ok
  <2>1. PICK n \in Nodes : /\ agent[n].pc = "posted" /\ agent[n].at = h
                           /\ agent[n].cmd = handler[h].cmd /\ agent[n].ok = handler[h].ok
    BY <1>1, WholeBefore DEF Serial
  <2>2. agent'[n] = agent[n]
    <3>1. ~RefuseResult(h) /\ ~UpdateInstance(h) /\ ~UpdateFails(h) /\ ~OrchestratorCrash
      BY DEF RefuseResult, UpdateInstance, UpdateFails, OrchestratorCrash, Answer, IdleHandler,
             TypeOK
    <3>2. /\ ~ExecuteCommand(n) /\ ~LoseCommand(n)
          /\ \A g \in Handlers : ~CompleteCommand(n, g)
      BY <2>1 DEF ExecuteCommand, CompleteCommand, LoseCommand
    <3>3. ~GiveUpWaiting(n)
      BY <1>1, <2>1, CutShort
    <3>. QED  BY <2>1, <3>1, <3>2, <3>3, AgentMoves
  <2>. QED  BY <1>1, <2>1, <2>2
<1>2. CASE \E n \in Nodes : /\ CompleteCommand(n, h)
                            /\ handler'[h].cmd = agent[n].cmd /\ handler'[h].ok = agent[n].ok
  <2>1. PICK n \in Nodes : /\ CompleteCommand(n, h)
                           /\ handler'[h].cmd = agent[n].cmd /\ handler'[h].ok = agent[n].ok
    BY <1>2
  <2>2. /\ agent'[n].pc = "posted" /\ agent'[n].cmd = agent[n].cmd
        /\ agent'[n].ok = agent[n].ok /\ agent'[n].at = h
    BY <2>1 DEF CompleteCommand, TypeOK
  <2>. QED  BY <2>1, <2>2
<1>. QED  BY <1>1, <1>2, HandlerBy

(* The state of a whole command that a handler or an agent has changes only with it. *)
LEMMA HeldState ==
  ASSUME TypeOK, Busy, OwnCommands, Serial, [Next]_vars, NEW c \in 1..Len(queue), Whole(c),
         \/ \E h \in Handlers : handler[h].pc # "idle" /\ handler[h].cmd = c
         \/ \E n \in Nodes : agent[n].pc # "idle" /\ agent[n].cmd = c
  PROVE  \/ queue'[c].state = queue[c].state
         \/ \E h \in Handlers : SaveCommand(h) /\ handler[h].cmd = c
<1>1. PICK n \in Nodes : agent[n].pc # "idle" /\ agent[n].cmd = c
  BY DEF Serial
<1>2. ASSUME NEW m \in Nodes, NextAgentCommand(m, c)
      PROVE  FALSE
  <2>1. m = n
    BY <1>1, <1>2 DEF NextAgentCommand, Servable, OwnCommands
  <2>. QED  BY <1>1, <1>2, <2>1 DEF NextAgentCommand
<1>3. c \in 1..Len(queue') /\ c # Len(queue) + 1
  BY QueueFacts, QueueStays DEF TypeOK
<1>. QED  BY <1>2, <1>3, CommandBy

(* What a handler or an agent has after a step was queued before. *)
LEMMA HeldQueued ==
  ASSUME TypeOK, Busy, [Next]_vars
  PROVE  /\ \A h \in Handlers : handler'[h].pc # "idle" => handler'[h].cmd \in 1..Len(queue)
         /\ \A n \in Nodes : agent'[n].pc # "idle" => agent'[n].cmd \in 1..Len(queue)
<1>1. \A n \in Nodes, h \in Handlers : CompleteCommand(n, h) => agent[n].pc # "idle"
  BY DEF CompleteCommand
<1>. QED  BY <1>1, HandlerBy, AgentFrom DEF Busy

(* Every step keeps results and states in step. *)
LEMMA StepSerial ==
  ASSUME TypeOK, Busy, OwnCommands, Serial, [Next]_vars
  PROVE  Serial'
<1>1. ASSUME NEW h \in Handlers, handler'[h].pc \in {"received", "loaded"},
             NEW c \in 1..Len(queue), handler'[h].cmd = c, Whole(c)'
      PROVE  queue'[c].state = "RUNNING"
  <2>1. Whole(c)
    BY <1>1, WholeBefore
  <2>2. CASE \E n \in Nodes : CompleteCommand(n, h) /\ handler'[h].cmd = agent[n].cmd
    BY <1>1, <2>1, <2>2 DEF CompleteCommand, Serial, InFlight
  <2>3. CASE handler[h].pc \in {"received", "loaded"} /\ handler[h].cmd = c /\ ~SaveCommand(h)
    <3>1. queue[c].state = "RUNNING" /\ handler[h].pc # "idle"
      BY <2>1, <2>3 DEF Serial
    <3>2. ASSUME NEW g \in Handlers, SaveCommand(g), handler[g].cmd = c
          PROVE  FALSE
      <4>1. handler[g].pc # "idle"
        BY <3>2 DEF SaveCommand
      <4>. QED  BY <2>1, <2>3, <3>1, <3>2, <4>1, SoleHandler
    <3>. QED  BY <2>1, <2>3, <3>1, <3>2, HeldState
  <2>4. SaveCommand(h) => handler'[h].pc = "saved"
    BY DEF SaveCommand, TypeOK
  <2>5. LoadCommand(h) => handler[h].pc = "received" /\ handler'[h].pc = "loaded"
    BY DEF LoadCommand, TypeOK
  <2>. QED  BY <1>1, <2>2, <2>3, <2>4, <2>5, HandlerMoves
<1>2. ASSUME NEW n \in Nodes, agent'[n].pc \in InFlight,
             NEW c \in 1..Len(queue), agent'[n].cmd = c, Whole(c)'
      PROVE  queue'[c].state = "RUNNING"
  <2>1. CASE agent[n].pc \in InFlight /\ agent[n].cmd = c
    <3>1. Whole(c) /\ agent[n].pc # "idle" /\ agent[n].pc # "posted"
      BY <1>2, <2>1, WholeBefore DEF InFlight
    <3>2. ASSUME NEW h \in Handlers, SaveCommand(h), handler[h].cmd = c
          PROVE  FALSE
      <4>1. handler[h].pc # "idle"
        BY <3>2 DEF SaveCommand
      <4>. QED  BY <2>1, <3>1, <3>2, <4>1, SoleHolder
    <3>. QED  BY <2>1, <3>1, <3>2, HeldState DEF Serial
  <2>2. CASE NextAgentCommand(n, c)
    BY <2>2, Claims
  <2>3. ExecuteCommand(n) => agent[n].pc \in InFlight
    BY DEF ExecuteCommand, InFlight
  <2>4. agent'[n].pc # "idle" /\ agent'[n].pc # "posted"
    BY <1>2 DEF InFlight
  <2>. QED  BY <1>2, <2>1, <2>2, <2>3, <2>4, AgentBy
<1>3. \A n \in Nodes : agent'[n].pc \in InFlight => agent'[n].pc # "idle"
  BY DEF InFlight
<1>. QED  BY <1>1, <1>2, <1>3, StepWaits, HeldQueued DEF Serial

(* What a command that was carried out leaves on the host. *)
Leaves(kind, i) ==
  /\ kind \in {"CREATE_SERVER", "START_SERVER", "RESTART_SERVER"} => container[i] = "running"
  /\ kind \in {"STOP_SERVER", "KILL_SERVER"} => container[i] = "stopped"
  /\ kind = "ENABLE_SFTP" => i \in sftpd
  /\ kind \in {"DISABLE_SFTP", "DELETE_SERVER"} => i \notin sftpd

(* The agent has carried out its command, and the result has not been applied. *)
Done(n) == agent[n].pc \in {"executed", "posted"}

(* Until its result has been applied, the host stays as the command left it. *)
Executed ==
  \A n \in Nodes : Done(n) /\ agent[n].ok =>
    Leaves(queue[agent[n].cmd].kind, queue[agent[n].cmd].inst)

(* Carrying out a command leaves the host as the command says. *)
LEMMA ExecuteLeaves ==
  ASSUME TypeOK, Busy, NEW n \in Nodes, ExecuteCommand(n), agent'[n].ok
  PROVE  Leaves(queue[agent[n].cmd].kind, queue[agent[n].cmd].inst)'
<1>. DEFINE c == agent[n].cmd
            kind == queue[c].kind
            i == queue[c].inst
<1>1. /\ Outcome(kind, container[i], container'[i], agent'[n].ok)
      /\ sftpd' \in SftpOutcomes(kind, i, agent'[n].ok)
      /\ UNCHANGED queue /\ agent'[n].cmd = c /\ kind \in Kinds
  BY Executes, QueueFacts, CommandFields DEF TypeOK
<1>. HIDE DEF kind, i
<1>2. kind \in {"CREATE_SERVER", "START_SERVER", "RESTART_SERVER"} => container'[i] = "running"
  BY <1>1 DEF Outcome
<1>3. kind \in {"STOP_SERVER", "KILL_SERVER"} => container'[i] = "stopped"
  BY <1>1 DEF Outcome
<1>4. kind = "ENABLE_SFTP" => i \in sftpd'
  BY <1>1 DEF SftpOutcomes
<1>5. kind \in {"DISABLE_SFTP", "DELETE_SERVER"} => i \notin sftpd'
  <2>1. CASE kind = "DISABLE_SFTP"
    BY <1>1, <2>1 DEF SftpOutcomes
  <2>2. CASE kind = "DELETE_SERVER"
    BY <1>1, <2>2 DEF SftpOutcomes
  <2>. QED  BY <2>1, <2>2
<1>. QED  BY <1>1, <1>2, <1>3, <1>4, <1>5 DEF Leaves, kind, i

(* One node's agent alone touches a server's containers. *)
LEMMA StepExecuted ==
  ASSUME TypeOK, Busy, FreshIds, OwnCommands, CreateFirst, Executed, [Next]_vars
  PROVE  Executed'
<1> SUFFICES ASSUME NEW n \in Nodes, agent'[n].pc \in {"executed", "posted"}, agent'[n].ok
             PROVE  Leaves(queue[agent[n].cmd].kind, queue[agent[n].cmd].inst)'
  BY DEF Executed, Done
<1>1. ASSUME Done(n), agent[n].ok, agent'[n].cmd = agent[n].cmd
      PROVE  Leaves(queue[agent[n].cmd].kind, queue[agent[n].cmd].inst)'
  <2>. DEFINE c == agent[n].cmd
              i == queue[c].inst
  <2>1. /\ c \in 1..Len(queue) /\ i \in Instances /\ queue[c].node = n
        /\ agent[n].pc # "idle" /\ agent[n].pc # "claimed"
        /\ Leaves(queue[c].kind, i)
        /\ queue'[c].kind = queue[c].kind /\ queue'[c].inst = i
    BY <1>1, QueueFacts, CommandFields, QueueStays DEF Done, Busy, OwnCommands, Executed, TypeOK
  <2>2. container'[i] = container[i] /\ (i \in sftpd' <=> i \in sftpd)
    <3>1. CASE UNCHANGED <<container, sftpd>>
      BY <3>1
    <3>2. CASE \E m \in Nodes : ExecuteCommand(m)
      <4>1. PICK m \in Nodes : ExecuteCommand(m)
        BY <3>2
      <4>. DEFINE d == agent[m].cmd
                  j == queue[d].inst
      <4>2. /\ d \in 1..Len(queue) /\ queue[d].node = m /\ m # n
            /\ i # j => container'[i] = container[i]
            /\ sftpd' \in SftpOutcomes(queue[d].kind, j, agent'[m].ok)
        <5>1. agent[m].pc = "claimed"
          BY <4>1 DEF ExecuteCommand
        <5>2. queue[d].node = m /\ m # n
          BY <2>1, <5>1 DEF OwnCommands
        <5>3. i \in Instances
          BY <2>1
        <5>. HIDE DEF c, i
        <5>. QED  BY <4>1, <5>2, <5>3, Executes
      <4>3. i # j
        BY <2>1, <4>2 DEF CreateFirst
      <4>. HIDE DEF c, i, d, j
      <4>4. i \in sftpd' <=> i \in sftpd
        BY <4>2, <4>3 DEF SftpOutcomes
      <4>. QED  BY <4>2, <4>3, <4>4
    <3>. QED  BY <3>1, <3>2, HostSteps
  <2>. QED  BY <1>1, <2>1, <2>2 DEF Leaves
<1>2. CASE agent'[n] = agent[n]
  BY <1>1, <1>2 DEF Done
<1>3. CASE ExecuteCommand(n)
  BY <1>3, ExecuteLeaves
<1>4. CASE \E h \in Handlers : CompleteCommand(n, h) /\ agent'[n].cmd = agent[n].cmd
                               /\ agent'[n].ok = agent[n].ok
  BY <1>1, <1>4 DEF CompleteCommand, Done
<1>5. agent'[n].pc # "idle" /\ agent'[n].pc # "claimed"
  OBVIOUS
<1>. QED  BY <1>2, <1>3, <1>4, <1>5, AgentBy

(* The result a handler applies to a whole command is still true of the host. *)
LEMMA Applies ==
  ASSUME TypeOK, Busy, Serial, Executed, NEW h \in Handlers, UpdateInstance(h)
  PROVE  LET c == handler[h].cmd
             i == queue[c].inst
         IN  /\ c \in 1..Len(queue) /\ i \in Instances
             /\ UNCHANGED <<container, sftpd, queue, stomped>>
             /\ status'[i] = NewStatus(queue[c].kind, handler[h].ok, status[i])
             /\ \A j \in Instances : j # i => status'[j] = status[j]
             /\ sftp' = NewSftp(queue[c].kind, handler[h].ok, i)
             /\ handler[h].ok /\ Whole(c) => Leaves(queue[c].kind, i)
<1>. DEFINE c == handler[h].cmd
            i == queue[c].inst
<1>1. c \in 1..Len(queue) /\ i \in Instances
  <2>1. c \in 1..Len(queue)
    BY DEF UpdateInstance, Busy
  <2>. QED  BY <2>1, QueueFacts, CommandFields DEF TypeOK
<1>2. /\ UNCHANGED <<container, sftpd, queue, stomped>>
      /\ status' = [status EXCEPT ![i] = NewStatus(queue[c].kind, handler[h].ok, status[i])]
      /\ sftp' = NewSftp(queue[c].kind, handler[h].ok, i)
  BY DEF UpdateInstance, hostVars, detectorVars
<1>3. handler[h].ok /\ Whole(c) => Leaves(queue[c].kind, i)
  <2> SUFFICES ASSUME handler[h].ok, Whole(c) PROVE Leaves(queue[c].kind, i)
    OBVIOUS
  <2>1. PICK n \in Nodes : /\ agent[n].pc = "posted"
                           /\ agent[n].cmd = handler[h].cmd /\ agent[n].ok = handler[h].ok
    BY DEF UpdateInstance, Serial
  <2>. QED  BY <2>1 DEF Executed, Done
<1>. HIDE DEF c, i
<1>4. /\ status'[i] = NewStatus(queue[c].kind, handler[h].ok, status[i])
      /\ \A j \in Instances : j # i => status'[j] = status[j]
  BY <1>1, <1>2 DEF TypeOK
<1>. QED  BY <1>1, <1>2, <1>3, <1>4 DEF c, i

-------------------------------------------------------------------------------
(* What becomes of a command whose result the row does not show yet. *)

(* No agent has the command. *)
Unheld(c) == \A n \in Nodes : agent[n].pc # "idle" => agent[n].cmd # c

(* The command will be delivered again, or has been. *)
Again(c) == queue[c].state = "RUNNING" /\ (Unheld(c) \/ queue[c].tries > 1)

(* It was carried out, and that has not been applied yet. *)
ResultWaits(c) == \E n \in Nodes : Done(n) /\ agent[n].cmd = c /\ agent[n].ok

(* A command on its way again ends failed at a second delivery, or with a success to apply. *)
LEMMA AgainStays ==
  ASSUME TypeOK, Busy, Tried, OwnCommands, Serial, [Next]_vars,
         NEW c \in 1..Len(queue), Whole(c), Again(c)
  PROVE  \/ Again(c)'
         \/ queue'[c].state = "FAILED" /\ queue'[c].tries > 1
         \/ ResultWaits(c)'
<1>1. /\ queue[c].tries \in Nat /\ queue[c].tries > 0 /\ queue'[c].tries \in Nat
      /\ queue'[c].tries >= queue[c].tries
      /\ c \in 1..Len(queue') /\ c # Len(queue) + 1
  <2>1. queue[c].tries \in Nat /\ queue[c].tries > 0
    BY QueueFacts, CommandFields DEF TypeOK, Tried, Again
  <2>2. c \in 1..Len(queue') /\ c # Len(queue) + 1 /\ queue'[c].tries >= queue[c].tries
    BY QueueStays
  <2>3. queue'[c].tries \in Nat
    BY <2>2, StepTypes, ElementOfSeq, CommandFields DEF TypeOK
  <2>. QED  BY <2>1, <2>2, <2>3
<1>2. CASE \E n \in Nodes : NextAgentCommand(n, c)
  BY <1>1, <1>2, Claims DEF Again
<1>3. CASE \E h \in Handlers :
             /\ SaveCommand(h) /\ handler[h].cmd = c
             /\ queue'[c].state = IF handler[h].ok THEN "COMPLETED" ELSE "FAILED"
  <2>1. PICK h \in Handlers :
             /\ SaveCommand(h) /\ handler[h].cmd = c
             /\ queue'[c].state = IF handler[h].ok THEN "COMPLETED" ELSE "FAILED"
    BY <1>3
  <2>2. PICK n \in Nodes : /\ agent[n].pc = "posted" /\ agent[n].cmd = c
                           /\ agent[n].ok = handler[h].ok
    BY <2>1 DEF SaveCommand, Serial
  <2>3. UNCHANGED agent
    BY <2>1 DEF SaveCommand
  <2>4. handler[h].ok => ResultWaits(c)'
    BY <2>2, <2>3 DEF ResultWaits, Done
  <2>5. queue'[c].tries > 1
    BY <1>1, <2>2 DEF Again, Unheld
  <2>. QED  BY <2>1, <2>4, <2>5
<1>4. CASE /\ \A n \in Nodes : ~NextAgentCommand(n, c)
           /\ queue'[c].state = queue[c].state
  <2>1. queue[c].tries > 1 => queue'[c].tries > 1
    BY <1>1
  <2>2. Unheld(c) => Unheld(c)'
    BY <1>4, AgentFrom DEF Unheld
  <2>. QED  BY <1>4, <2>1, <2>2 DEF Again
<1>. QED  BY <1>1, <1>2, <1>3, <1>4, CommandBy

(* A command that was executed keeps its result until it is applied, or is lost and will be *)
(* delivered again.                                                                         *)
LEMMA DoneStays ==
  ASSUME TypeOK, Busy, OwnCommands, Awaited, Serial, [Next]_vars,
         NEW n \in Nodes, Done(n), NEW c \in 1..Len(queue), agent[n].cmd = c, Whole(c)'
  PROVE  \/ Done(n)' /\ agent'[n].cmd = c /\ agent'[n].ok = agent[n].ok
         \/ Again(c)'
         \/ \E h \in Handlers : /\ UpdateInstance(h) /\ handler[h].cmd = c
                                /\ handler[h].ok = agent[n].ok
<1>1. agent[n].pc # "idle" /\ agent[n].pc # "claimed" /\ Whole(c)
  BY WholeBefore DEF Done
<1>2. CASE agent'[n] = agent[n]
  BY <1>2 DEF Done
<1>3. CASE \E h \in Handlers : CompleteCommand(n, h)
  <2>1. agent'[n].pc = "posted" /\ agent'[n].cmd = c /\ agent'[n].ok = agent[n].ok
    BY <1>3 DEF CompleteCommand, TypeOK
  <2>. QED  BY <2>1 DEF Done
<1>4. CASE LoseCommand(n)
  <2>1. /\ agent' = [agent EXCEPT ![n] = IdleAgent] /\ UNCHANGED queue
        /\ queue[c].state = "RUNNING"
    BY <1>1, <1>4 DEF LoseCommand, Serial, InFlight
  <2>2. ASSUME NEW m \in Nodes, agent'[m].pc # "idle"
        PROVE  agent'[m].cmd # c
    <3>1. m # n /\ agent'[m] = agent[m]
      BY <2>1, <2>2 DEF IdleAgent, TypeOK
    <3>. QED  BY <1>1, <2>2, <3>1 DEF OwnCommands
  <2>. QED  BY <2>1, <2>2 DEF Again, Unheld
<1>5. CASE \E h \in Handlers :
             (RefuseResult(h) \/ UpdateInstance(h) \/ UpdateFails(h)) /\ agent[n].at = h
  <2>1. PICK h \in Handlers :
             (RefuseResult(h) \/ UpdateInstance(h) \/ UpdateFails(h)) /\ agent[n].at = h
    BY <1>5
  <2>2. handler[h].pc # "idle"
    BY <2>1 DEF RefuseResult, UpdateInstance, UpdateFails
  <2>3. agent[n].pc = "posted"
    BY <2>1, NoneAssumption DEF Awaited, Done, InFlight
  <2>4. handler[h].cmd = c /\ handler[h].ok = agent[n].ok
    BY <1>1, <2>1, <2>2, <2>3, SoleHolder DEF Awaited
  <2>5. ~RefuseResult(h) /\ ~UpdateFails(h)
    BY <1>1, <2>4, CutShort DEF RefuseResult, Serial
  <2>. QED  BY <2>1, <2>4, <2>5
<1>6. CASE OrchestratorCrash
  <2>1. CASE agent[n].pc = "posted"
    <3>1. PICK h \in Handlers : handler[h].pc # "idle" /\ handler[h].cmd = c
      BY <2>1 DEF Awaited
    <3>2. handler[h].pc \in {"received", "loaded"}
      BY <1>6, <3>1, CutShort DEF TypeOK
    <3>3. queue[c].state = "RUNNING" /\ UNCHANGED queue
      BY <1>1, <1>6, <3>1, <3>2 DEF Serial, OrchestratorCrash
    <3>4. ASSUME NEW m \in Nodes, agent'[m].pc # "idle"
          PROVE  agent'[m].cmd # c
      <4>1. agent'[m] = agent[m] /\ m # n
        BY <1>6, <2>1, <3>4 DEF OrchestratorCrash, IdleAgent
      <4>. QED  BY <1>1, <3>4, <4>1 DEF OwnCommands
    <3>. QED  BY <3>3, <3>4 DEF Again, Unheld
  <2>2. CASE agent[n].pc # "posted"
    <3>1. agent'[n] = agent[n]
      BY <1>6, <2>2 DEF OrchestratorCrash
    <3>. QED  BY <3>1 DEF Done
  <2>. QED  BY <2>1, <2>2
<1>7. ~ExecuteCommand(n) /\ ~GiveUpWaiting(n)
  BY <1>1, CutShort DEF ExecuteCommand
<1>. QED  BY <1>1, <1>2, <1>3, <1>4, <1>5, <1>6, <1>7, AgentMoves

(* A reported failure is final. *)
LEMMA FailureStays ==
  ASSUME TypeOK, Busy, Serial, [Next]_vars, NEW c \in 1..Len(queue), Whole(c),
         queue[c].state = "FAILED"
  PROVE  queue'[c].state = "FAILED"
<1>1. \A n \in Nodes : ~NextAgentCommand(n, c)
  BY DEF NextAgentCommand, Servable
<1>2. \A h \in Handlers : ~(SaveCommand(h) /\ handler[h].cmd = c)
  BY DEF SaveCommand, Serial
<1>3. c \in 1..Len(queue') /\ c # Len(queue) + 1
  BY QueueFacts, QueueStays DEF TypeOK
<1>. QED  BY <1>1, <1>2, <1>3, CommandBy

(* The steps that write a server's row. *)
LEMMA RowSteps ==
  ASSUME [Next]_vars
  PROVE  \/ UNCHANGED <<status, sftp, stomped>>
         \/ \E r \in Requests : InsertServer(r)
         \/ \E h \in Handlers : UpdateInstance(h)
         \/ \E i \in Instances : QuarantineServer(i)
<1> USE DEF rowVars, detectorVars
<1>1. CASE UNCHANGED vars
  BY <1>1 DEF vars
<1>2. CASE RequestNext
  BY <1>2 DEF RequestNext, CheckServer, ReserveInstanceSlot, RejectServer, RejectServerLeaks,
              QueueCommand
<1>3. CASE AgentNext
  BY <1>3 DEF AgentNext, NextAgentCommand, ExecuteCommand, CompleteCommand, LoseCommand,
              GiveUpWaiting, RevokeNode
<1>4. CASE HandlerNext
  BY <1>4 DEF HandlerNext, LoadCommand, RefuseResult, SaveCommand, ReleaseInstanceSlot,
              SaveCommandFails, ReleaseFails, UpdateFails
<1>5. CASE \E c \in DOMAIN queue : ClaimExpires(c)
  BY <1>5 DEF ClaimExpires
<1>6. CASE \E i \in Instances : LoadCrashed(i)
  BY <1>6 DEF LoadCrashed
<1>7. CASE OrchestratorCrash
  BY <1>7 DEF OrchestratorCrash
<1>. QED  BY <1>1, <1>2, <1>3, <1>4, <1>5, <1>6, <1>7 DEF Next

-------------------------------------------------------------------------------
(* A settled row tells what the container does. *)

(* The kinds that start a container, and those that start, stop or remove one. *)
Starts == {"CREATE_SERVER", "START_SERVER", "RESTART_SERVER"}
Moving == Starts \cup {"STOP_SERVER", "KILL_SERVER", "DELETE_SERVER"}

(* The command may have moved the container, and the row does not say so yet. *)
Moves(c, i) ==
  /\ queue[c].inst = i /\ queue[c].kind \in Moving
  /\ \/ Again(c)
     \/ queue[c].state = "FAILED" /\ queue[c].tries > 1
     \/ \E n \in Nodes : /\ Done(n) /\ agent[n].cmd = c
                         /\ agent[n].ok \/ queue[c].kind \in Starts

(* The row tells what the container does. *)
Agrees(i) ==
  /\ status[i] = "ACTIVE" => container[i] = "running"
  /\ status[i] = "STOPPED" => container[i] = "stopped"

(* The server's NexaLink is repaired at some time. *)
Repaired(i) == \E c \in 1..Len(queue) : queue[c].kind = "REPAIR_NEXALINK" /\ queue[c].inst = i

(* A row that does not is behind a command on its way, or one that failed delivered again,  *)
(* unless a repair or a result cut short led it astray.                                     *)
RowCatchesUp ==
  \A i \in Instances :
    Agrees(i) \/ i \in cut \/ Repaired(i) \/ \E c \in 1..Len(queue) : Moves(c, i)

(* A result makes the row agree with the container, or leaves both as they are. *)
LEMMA AppliedAgrees ==
  ASSUME TypeOK, Busy, Serial, Executed, NEW h \in Handlers, UpdateInstance(h),
         NEW c \in 1..Len(queue), handler[h].cmd = c, NEW i \in Instances, queue[c].inst = i,
         i \notin cut
  PROVE  /\ Agrees(i) => Agrees(i)'
         /\ queue[c].kind \in Moving /\ (handler[h].ok \/ queue[c].kind \in Starts) => Agrees(i)'
<1>. DEFINE kind == queue[c].kind
            ok == handler[h].ok
<1>1. /\ status'[i] = NewStatus(kind, ok, status[i])
      /\ UNCHANGED container
      /\ ok => Leaves(kind, i)
  BY Applies DEF Whole
<1>. HIDE DEF kind, ok
<1>2. CASE kind \in Starts /\ ok
  <2>1. status'[i] \in {"absent", "ACTIVE"} /\ container[i] = "running"
    BY <1>1, <1>2 DEF NewStatus, Leaves, Starts
  <2>. QED  BY <1>1, <2>1 DEF Agrees
<1>3. CASE kind \in Starts /\ ~ok
  <2>1. status'[i] \in {"absent", "CRASHED"}
    BY <1>1, <1>3 DEF NewStatus, Starts
  <2>. QED  BY <2>1 DEF Agrees
<1>4. CASE kind \in {"STOP_SERVER", "KILL_SERVER"} /\ ok
  <2>1. status'[i] \in {"absent", "STOPPED"} /\ container[i] = "stopped"
    BY <1>1, <1>4 DEF NewStatus, Leaves
  <2>. QED  BY <1>1, <2>1 DEF Agrees
<1>5. CASE kind = "DELETE_SERVER" /\ ok
  <2>1. status'[i] = "absent"
    BY <1>1, <1>5 DEF NewStatus
  <2>. QED  BY <2>1 DEF Agrees
<1>6. CASE kind \notin Starts /\ ~(kind \in Moving /\ ok)
  <2>1. status'[i] = status[i]
    BY <1>1, <1>6 DEF NewStatus, Starts, Moving
  <2>. QED  BY <1>1, <1>6, <2>1 DEF Agrees, kind, ok
<1>7. \/ kind \in Starts
      \/ kind \in {"STOP_SERVER", "KILL_SERVER", "DELETE_SERVER"} /\ ok
      \/ kind \notin Starts /\ ~(kind \in Moving /\ ok)
  BY DEF Moving
<1>. QED  BY <1>2, <1>3, <1>4, <1>5, <1>6, <1>7

(* A row that agrees with the container goes on agreeing, until a command moves the         *)
(* container.                                                                               *)
LEMMA AgreesStays ==
  ASSUME TypeOK, Busy, Serial, Executed, [Next]_vars,
         NEW i \in Instances, Agrees(i), i \notin cut, ~Repaired(i)
  PROVE  Agrees(i)' \/ \E c \in 1..Len(queue) : Moves(c, i)'
<1>1. CASE UNCHANGED <<status, sftp, stomped>> /\ UNCHANGED <<container, sftpd>>
  BY <1>1 DEF Agrees
<1>2. CASE \E n \in Nodes : ExecuteCommand(n)
  <2>1. PICK n \in Nodes : ExecuteCommand(n)
    BY <1>2
  <2>2. PICK c \in 1..Len(queue) : c = agent[n].cmd
    BY <2>1, Executes
  <2>3. /\ UNCHANGED <<queue, status>>
        /\ agent'[n].pc = "executed" /\ agent'[n].cmd = c
        /\ queue[c].inst # i => container'[i] = container[i]
        /\ queue[c].inst = i =>
             Outcome(queue[c].kind, container[i], container'[i], agent'[n].ok)
    BY <2>1, <2>2, Executes
  <2>4. CASE container'[i] = container[i]
    BY <2>3, <2>4 DEF Agrees
  <2>5. CASE container'[i] # container[i]
    <3>1. queue[c].inst = i
      BY <2>3, <2>5
    <3>2. queue[c].kind \in Moving /\ (agent'[n].ok \/ queue[c].kind \in Starts)
      <4>. DEFINE kind == queue[c].kind
                  ok == agent'[n].ok
      <4>1. Outcome(kind, container[i], container'[i], ok) /\ kind # "REPAIR_NEXALINK"
        BY <2>3, <3>1 DEF Repaired
      <4>. HIDE DEF kind, ok
      <4>2. \/ kind \in Starts
            \/ kind \in {"STOP_SERVER", "KILL_SERVER", "DELETE_SERVER"} /\ ok
        BY <2>5, <4>1 DEF Outcome, Starts
      <4>. QED  BY <4>2 DEF Moving, kind, ok
    <3>3. Done(n)'
      BY <2>3 DEF Done
    <3>4. Moves(c, i)'
      BY <2>3, <3>1, <3>2, <3>3 DEF Moves
    <3>. QED  BY <2>3, <3>4
  <2>. QED  BY <2>4, <2>5
<1>3. CASE \E r \in Requests : InsertServer(r)
  BY <1>3 DEF InsertServer, Agrees, hostVars, TypeOK
<1>4. CASE \E j \in Instances : QuarantineServer(j)
  BY <1>4 DEF QuarantineServer, Agrees, hostVars, TypeOK
<1>5. CASE \E h \in Handlers : UpdateInstance(h)
  <2>1. PICK h \in Handlers : UpdateInstance(h)
    BY <1>5
  <2>2. CASE queue[handler[h].cmd].inst = i
    BY <2>1, <2>2, Applies, AppliedAgrees
  <2>3. CASE queue[handler[h].cmd].inst # i
    BY <2>1, <2>3, Applies DEF Agrees
  <2>. QED  BY <2>2, <2>3
<1>. QED  BY <1>1, <1>2, <1>3, <1>4, <1>5, RowSteps, HostSteps

(* A command that moved the container stays on record until its result is applied. *)
LEMMA MovesStays ==
  ASSUME TypeOK, Busy, Tried, OwnCommands, Awaited, Serial, Executed, [Next]_vars,
         NEW i \in Instances, NEW c \in 1..Len(queue), Moves(c, i), i \notin cut'
  PROVE  Agrees(i)' \/ Moves(c, i)'
<1>1. /\ queue'[c].inst = i /\ queue'[c].kind = queue[c].kind /\ queue[c].kind \in Moving
      /\ queue[c].inst = i /\ Whole(c)' /\ Whole(c)
  BY QueueStays, WholeBefore DEF Moves, Whole
<1>2. CASE Again(c)
  <2>1. ResultWaits(c)' => Moves(c, i)'
    BY <1>1 DEF Moves, ResultWaits
  <2>. QED  BY <1>1, <1>2, <2>1, AgainStays DEF Moves
<1>3. CASE queue[c].state = "FAILED" /\ queue[c].tries > 1
  <2>1. queue'[c].state = "FAILED"
    BY <1>1, <1>3, FailureStays
  <2>2. queue'[c].tries > 1
    <3>1. queue'[c].tries <= 1 => queue[c].tries <= 1 /\ queue[c].tries \in Nat
      BY OnceBefore
    <3>2. c \in 1..Len(queue') /\ queue' \in Seq(Command)
      BY QueueStays, StepTypes DEF TypeOK
    <3>3. queue'[c].tries \in Nat
      BY <3>2, ElementOfSeq, CommandFields
    <3>. QED  BY <1>3, <3>1, <3>3
  <2>. QED  BY <1>1, <2>1, <2>2 DEF Moves
<1>4. ASSUME NEW n \in Nodes, Done(n), agent[n].cmd = c,
             agent[n].ok \/ queue[c].kind \in Starts
      PROVE  Agrees(i)' \/ Moves(c, i)'
  <2>1. CASE Done(n)' /\ agent'[n].cmd = c /\ agent'[n].ok = agent[n].ok
    BY <1>1, <1>4, <2>1 DEF Moves
  <2>2. CASE Again(c)'
    BY <1>1, <2>2 DEF Moves
  <2>3. CASE \E h \in Handlers : /\ UpdateInstance(h) /\ handler[h].cmd = c
                                 /\ handler[h].ok = agent[n].ok
    BY <1>1, <1>4, <2>3, AppliedAgrees DEF Whole
  <2>. QED  BY <1>1, <1>4, <2>1, <2>2, <2>3, DoneStays
<1>. QED  BY <1>2, <1>3, <1>4 DEF Moves

(* Every step keeps every row agreeing with its container, or behind such a command. *)
LEMMA StepRowCatchesUp ==
  ASSUME TypeOK, Busy, Tried, OwnCommands, Awaited, Serial, Executed, RowCatchesUp, [Next]_vars
  PROVE  RowCatchesUp'
<1> SUFFICES ASSUME NEW i \in Instances, i \notin cut', ~Repaired(i)'
             PROVE  Agrees(i)' \/ \E c \in 1..Len(queue') : Moves(c, i)'
  BY DEF RowCatchesUp
<1>1. \A c \in 1..Len(queue) : c \in 1..Len(queue')
  BY QueueStays
<1>2. i \notin cut /\ ~Repaired(i)
  BY <1>1, CutGrows, QueueStays DEF Repaired
<1>3. CASE Agrees(i)
  BY <1>1, <1>2, <1>3, AgreesStays
<1>4. ASSUME NEW c \in 1..Len(queue), Moves(c, i)
      PROVE  Agrees(i)' \/ \E d \in 1..Len(queue') : Moves(d, i)'
  BY <1>1, <1>4, MovesStays
<1>. QED  BY <1>2, <1>3, <1>4 DEF RowCatchesUp

(* Of a settled server nothing is executed and not applied. *)
LEMMA SettledIsDone ==
  ASSUME TypeOK, Busy, Awaited, Serial, NEW i \in Instances, Settled(i), i \notin cut,
         NEW c \in 1..Len(queue), queue[c].inst = i
  PROVE  /\ queue[c].state # "RUNNING"
         /\ \A n \in Nodes : Done(n) => agent[n].cmd # c
<1>1. queue[c].state # "RUNNING"
  BY QueueFacts DEF Settled, TypeOK
<1>2. ASSUME NEW n \in Nodes, Done(n), agent[n].cmd = c
      PROVE  FALSE
  <2>1. CASE agent[n].pc = "executed"
    BY <1>1, <1>2, <2>1 DEF Serial, InFlight, Whole
  <2>2. CASE agent[n].pc = "posted"
    BY <1>2, <2>2 DEF Awaited, Settled
  <2>. QED  BY <1>2, <2>1, <2>2 DEF Done
<1>. QED  BY <1>1, <1>2

(* Nothing has been executed at the start. *)
LEMMA InitSerial == Init => Serial /\ Executed /\ RowCatchesUp
BY DEF Init, Serial, Executed, Done, InFlight, RowCatchesUp, Agrees, IdleAgent, IdleHandler

(* A server's settled row is ACTIVE only over a running container and STOPPED only over a   *)
(* stopped one, unless a redelivered command failed, NexaLink was repaired or a result of   *)
(* this very server was applied late or in part: for any number of lost polls and results,  *)
(* timeouts, crashes and failed statements, of nodes, servers and commands.                 *)
THEOREM RowTellsContainerHolds == Spec => []RowTellsContainer
<1> DEFINE I == TypeOK /\ Busy /\ Tried /\ FreshIds /\ OwnCommands /\ Awaited /\ CreateFirst
                /\ Serial /\ Executed /\ RowCatchesUp
<1>1. Init => I
  BY InitTypes, InitSlots, InitDelivered, InitReports, InitEmptied, InitSerial
<1>2. I /\ [Next]_vars => I'
  BY StepTypes, StepTried, StepFreshIds, StepOwnCommands, StepAwaited, StepCreateFirst,
     StepSerial, StepExecuted, StepRowCatchesUp
<1>3. I => RowTellsContainer
  <2>1. DOMAIN queue = 1..Len(queue)
    BY QueueFacts DEF TypeOK
  <2> SUFFICES ASSUME I, NEW i \in Instances, Settled(i), i \notin cut,
                      Commands("REPAIR_NEXALINK", i) = {},
                      ~\E c \in DOMAIN queue : /\ queue[c].inst = i /\ queue[c].tries > 1
                                               /\ queue[c].state = "FAILED"
               PROVE  Agrees(i)
    BY DEF RowTellsContainer, Agrees
  <2>2. ~Repaired(i)
    BY <2>1 DEF Repaired, Commands
  <2>3. ASSUME NEW c \in 1..Len(queue), Moves(c, i) PROVE FALSE
    BY <2>1, <2>3, SettledIsDone DEF Moves, Again
  <2>. QED  BY <2>2, <2>3 DEF RowCatchesUp
<1>. QED  BY <1>1, <1>2, <1>3, PTL DEF Spec

-------------------------------------------------------------------------------
(* A settled row tells what the sftp container does. *)

(* The command may have started an sftp container that the row does not show. *)
Enables(c, i) ==
  /\ queue[c].kind = "ENABLE_SFTP" /\ queue[c].inst = i
  /\ Again(c) \/ queue[c].state = "FAILED" \/ ResultWaits(c)

(* The row shows the server's sftp container, or the detector made it forget it. *)
SftpKnown(i) == status[i] # "absent" /\ i \in sftpd => i \in sftp \/ i \in stomped

(* A row that does neither is behind an ENABLE_SFTP that is on its way or failed, unless a  *)
(* result was cut short.                                                                    *)
SftpCatchesUp ==
  \A i \in Instances : SftpKnown(i) \/ i \in cut \/ \E c \in 1..Len(queue) : Enables(c, i)

(* The result of an ENABLE_SFTP is written to the row; other results hide no sftp container. *)
LEMMA AppliedSftp ==
  ASSUME TypeOK, Busy, Serial, Executed, NEW h \in Handlers, UpdateInstance(h),
         NEW c \in 1..Len(queue), handler[h].cmd = c, NEW i \in Instances, queue[c].inst = i,
         i \notin cut
  PROVE  /\ SftpKnown(i) => SftpKnown(i)'
         /\ queue[c].kind = "ENABLE_SFTP" /\ handler[h].ok => SftpKnown(i)'
<1>. DEFINE kind == queue[c].kind
            ok == handler[h].ok
<1>1. /\ status'[i] = NewStatus(kind, ok, status[i])
      /\ sftp' = NewSftp(kind, ok, i)
      /\ UNCHANGED <<sftpd, stomped>>
      /\ ok => Leaves(kind, i)
  BY Applies DEF Whole
<1>. HIDE DEF kind, ok
<1>2. CASE status[i] = "absent"
  <2>1. status'[i] = "absent"
    BY <1>1, <1>2 DEF NewStatus
  <2>. QED  BY <2>1 DEF SftpKnown
<1>3. CASE status[i] # "absent" /\ ok /\ kind \in {"DISABLE_SFTP", "DELETE_SERVER"}
  <2>1. i \notin sftpd
    BY <1>1, <1>3 DEF Leaves
  <2>. QED  BY <1>1, <2>1 DEF SftpKnown
<1>4. CASE status[i] # "absent" /\ ok /\ kind = "ENABLE_SFTP"
  <2>1. i \in sftp'
    BY <1>1, <1>4 DEF NewSftp
  <2>. QED  BY <2>1 DEF SftpKnown
<1>5. CASE status[i] # "absent" /\ ~(ok /\ kind \in {"DISABLE_SFTP", "DELETE_SERVER", "ENABLE_SFTP"})
  <2>1. sftp' = sftp
    BY <1>1, <1>5 DEF NewSftp
  <2>. QED  BY <1>1, <1>5, <2>1 DEF SftpKnown, kind, ok
<1>. QED  BY <1>2, <1>3, <1>4, <1>5

(* A row that knows of its sftp container goes on knowing, until a command starts another   *)
(* or the detector writes an older row.                                                     *)
LEMMA SftpKnownStays ==
  ASSUME TypeOK, Busy, FreshIds, CreateFirst, Serial, Executed, [Next]_vars,
         NEW i \in Instances, SftpKnown(i), i \notin cut
  PROVE  SftpKnown(i)' \/ \E c \in 1..Len(queue) : Enables(c, i)'
<1>1. CASE UNCHANGED <<status, sftp, stomped>> /\ UNCHANGED <<container, sftpd>>
  BY <1>1 DEF SftpKnown
<1>2. CASE \E n \in Nodes : ExecuteCommand(n)
  <2>1. PICK n \in Nodes : ExecuteCommand(n)
    BY <1>2
  <2>2. PICK c \in 1..Len(queue) : c = agent[n].cmd
    BY <2>1, Executes
  <2>3. /\ UNCHANGED <<queue, status, sftp, stomped>>
        /\ agent'[n].pc = "executed" /\ agent'[n].cmd = c
        /\ sftpd' \in SftpOutcomes(queue[c].kind, queue[c].inst, agent'[n].ok)
    BY <2>1, <2>2, Executes
  <2>4. CASE i \in sftpd' => i \in sftpd
    BY <2>3, <2>4 DEF SftpKnown
  <2>5. CASE i \in sftpd' /\ i \notin sftpd
    <3>1. queue[c].kind = "ENABLE_SFTP" /\ queue[c].inst = i /\ agent'[n].ok
      <4>. DEFINE kind == queue[c].kind
                  ok == agent'[n].ok
      <4>. HIDE DEF kind, ok
      <4>1. sftpd' \in SftpOutcomes(kind, queue[c].inst, ok)
        BY <2>3 DEF kind, ok
      <4>2. kind = "ENABLE_SFTP" /\ ok /\ queue[c].inst = i
        BY <2>5, <4>1 DEF SftpOutcomes
      <4>. QED  BY <4>2 DEF kind, ok
    <3>2. ResultWaits(c)'
      BY <2>3, <3>1 DEF ResultWaits, Done
    <3>3. Enables(c, i)'
      BY <2>3, <3>1, <3>2 DEF Enables
    <3>. QED  BY <3>3
  <2>. QED  BY <2>4, <2>5
<1>3. CASE \E r \in Requests : InsertServer(r)
  <2>1. PICK r \in Requests : InsertServer(r)
    BY <1>3
  <2>2. UNCHANGED <<sftp, sftpd, stomped>>
    BY <2>1 DEF InsertServer, hostVars, detectorVars
  <2>3. CASE i = request[r].inst
    BY <2>1, <2>2, <2>3 DEF InsertServer, FreshIds, CreateFirst, SftpKnown
  <2>4. CASE i # request[r].inst
    <3>1. status'[i] = status[i]
      BY <2>1, <2>4 DEF InsertServer, TypeOK
    <3>. QED  BY <2>2, <3>1 DEF SftpKnown
  <2>. QED  BY <2>3, <2>4
<1>4. CASE \E j \in Instances : QuarantineServer(j)
  <2>1. PICK j \in Instances : QuarantineServer(j)
    BY <1>4
  <2>2. UNCHANGED sftpd /\ stomped \subseteq stomped'
    BY <2>1 DEF QuarantineServer, hostVars
  <2>3. CASE j = i
    <3>1. (sftp' = sftp /\ status[i] # "absent") \/ i \in stomped'
      BY <2>1, <2>3 DEF QuarantineServer
    <3>. QED  BY <2>2, <3>1 DEF SftpKnown
  <2>4. CASE j # i
    <3>1. status'[i] = status[i] /\ (i \in sftp' <=> i \in sftp)
      BY <2>1, <2>4 DEF QuarantineServer, TypeOK
    <3>. QED  BY <2>2, <3>1 DEF SftpKnown
  <2>. QED  BY <2>3, <2>4
<1>5. CASE \E h \in Handlers : UpdateInstance(h)
  <2>1. PICK h \in Handlers : UpdateInstance(h)
    BY <1>5
  <2>2. CASE queue[handler[h].cmd].inst = i
    BY <2>1, <2>2, Applies, AppliedSftp
  <2>3. CASE queue[handler[h].cmd].inst # i
    <3>. DEFINE kind == queue[handler[h].cmd].kind
                j == queue[handler[h].cmd].inst
                ok == handler[h].ok
    <3>1. /\ status'[i] = status[i] /\ sftp' = NewSftp(kind, ok, j) /\ i # j
          /\ UNCHANGED <<sftpd, stomped>>
      BY <2>1, <2>3, Applies
    <3>. HIDE DEF kind, j, ok
    <3>2. i \in sftp' <=> i \in sftp
      BY <3>1 DEF NewSftp
    <3>. QED  BY <3>1, <3>2 DEF SftpKnown
  <2>. QED  BY <2>2, <2>3
<1>. QED  BY <1>1, <1>2, <1>3, <1>4, <1>5, RowSteps, HostSteps

(* An ENABLE_SFTP that may have been carried out stays on record until it is applied. *)
LEMMA EnablesStays ==
  ASSUME TypeOK, Busy, Tried, OwnCommands, Awaited, Serial, Executed, [Next]_vars,
         NEW i \in Instances, NEW c \in 1..Len(queue), Enables(c, i), i \notin cut'
  PROVE  SftpKnown(i)' \/ Enables(c, i)'
<1>1. /\ queue'[c].inst = i /\ queue'[c].kind = "ENABLE_SFTP"
      /\ queue[c].inst = i /\ queue[c].kind = "ENABLE_SFTP"
      /\ Whole(c)' /\ Whole(c)
  BY QueueStays, WholeBefore DEF Enables, Whole
<1>2. CASE Again(c)
  BY <1>1, <1>2, AgainStays DEF Enables
<1>3. CASE queue[c].state = "FAILED"
  BY <1>1, <1>3, FailureStays DEF Enables
<1>4. ASSUME NEW n \in Nodes, Done(n), agent[n].cmd = c, agent[n].ok
      PROVE  SftpKnown(i)' \/ Enables(c, i)'
  <2>1. CASE Done(n)' /\ agent'[n].cmd = c /\ agent'[n].ok = agent[n].ok
    BY <1>1, <1>4, <2>1 DEF Enables, ResultWaits
  <2>2. CASE Again(c)'
    BY <1>1, <2>2 DEF Enables
  <2>3. CASE \E h \in Handlers : /\ UpdateInstance(h) /\ handler[h].cmd = c
                                 /\ handler[h].ok = agent[n].ok
    BY <1>1, <1>4, <2>3, AppliedSftp DEF Whole
  <2>4. \/ Done(n)' /\ agent'[n].cmd = c /\ agent'[n].ok = agent[n].ok
        \/ Again(c)'
        \/ \E h \in Handlers : /\ UpdateInstance(h) /\ handler[h].cmd = c
                               /\ handler[h].ok = agent[n].ok
    <3>1. Done(n) /\ agent[n].cmd = c /\ Whole(c)'
      BY <1>1, <1>4
    <3>. HIDE <1>4
    <3>. QED  BY <3>1, DoneStays
  <2>. QED  BY <2>1, <2>2, <2>3, <2>4
<1>. QED  BY <1>2, <1>3, <1>4 DEF Enables, ResultWaits

(* Every step keeps every sftp container known, or enabled by such a command. *)
LEMMA StepSftpCatchesUp ==
  ASSUME TypeOK, Busy, Tried, FreshIds, OwnCommands, Awaited, CreateFirst, Serial, Executed,
         SftpCatchesUp, [Next]_vars
  PROVE  SftpCatchesUp'
<1> SUFFICES ASSUME NEW i \in Instances, i \notin cut'
             PROVE  SftpKnown(i)' \/ \E c \in 1..Len(queue') : Enables(c, i)'
  BY DEF SftpCatchesUp
<1>1. (\A c \in 1..Len(queue) : c \in 1..Len(queue')) /\ i \notin cut
  BY CutGrows, QueueStays
<1>2. CASE SftpKnown(i)
  BY <1>1, <1>2, SftpKnownStays
<1>3. ASSUME NEW c \in 1..Len(queue), Enables(c, i)
      PROVE  SftpKnown(i)' \/ \E d \in 1..Len(queue') : Enables(d, i)'
  BY <1>1, <1>3, EnablesStays
<1>. QED  BY <1>1, <1>2, <1>3 DEF SftpCatchesUp

(* An sftp container that a settled server's row does not know of was left by an            *)
(* ENABLE_SFTP reported failed, or forgotten by the crash-loop detector or by a result of   *)
(* this very server applied late or in part: for any number of lost polls and results,      *)
(* timeouts, crashes and failed statements, of nodes, servers and commands.                 *)
THEOREM HiddenSftpWasReportedHolds == Spec => []HiddenSftpWasReported
<1> DEFINE I == TypeOK /\ Busy /\ Tried /\ FreshIds /\ OwnCommands /\ Awaited /\ CreateFirst
                /\ Serial /\ Executed /\ SftpCatchesUp
<1>1. Init => I
  <2>1. Init => SftpCatchesUp
    BY DEF Init, SftpCatchesUp, SftpKnown
  <2>. QED  BY <2>1, InitTypes, InitSlots, InitDelivered, InitReports, InitEmptied, InitSerial
<1>2. I /\ [Next]_vars => I'
  BY StepTypes, StepTried, StepFreshIds, StepOwnCommands, StepAwaited, StepCreateFirst,
     StepSerial, StepExecuted, StepSftpCatchesUp
<1>3. I => HiddenSftpWasReported
  <2> SUFFICES ASSUME I, NEW i \in Instances, Settled(i), status[i] # "absent",
                      i \in sftpd \ sftp, i \notin stomped, i \notin cut
               PROVE  \E c \in Commands("ENABLE_SFTP", i) : queue[c].state = "FAILED"
    BY DEF HiddenSftpWasReported
  <2>1. PICK c \in 1..Len(queue) : Enables(c, i)
    BY DEF SftpCatchesUp, SftpKnown
  <2>2. ~Again(c) /\ ~ResultWaits(c)
    BY <2>1, SettledIsDone DEF Enables, Again, ResultWaits
  <2>3. DOMAIN queue = 1..Len(queue)
    BY QueueFacts DEF TypeOK
  <2>. QED  BY <2>1, <2>2, <2>3 DEF Enables, Commands
<1>. QED  BY <1>1, <1>2, <1>3, PTL DEF Spec

-------------------------------------------------------------------------------
(* The queue keeps its promise. *)

(* Nobody has reported a command yet that was delivered once and whose result a handler is   *)
(* still to save.                                                                            *)
FirstSaves ==
  \A h \in Handlers : handler[h].pc \in {"received", "loaded"} /\ AtMostOnce(handler[h].cmd) =>
    queue[handler[h].cmd].state = "RUNNING"

(* Every step keeps that: the only delivery of a command has one handler at most. *)
LEMMA StepFirstSaves ==
  ASSUME TypeOK, Busy, Tried, OneReport, FirstSaves, [Next]_vars
  PROVE  FirstSaves'
<1> SUFFICES ASSUME NEW h \in Handlers, handler'[h].pc \in {"received", "loaded"},
                    NEW c, c = handler'[h].cmd, queue'[c].tries <= 1
             PROVE  queue'[c].state = "RUNNING"
  BY DEF FirstSaves, AtMostOnce
<1>1. c \in 1..Len(queue) /\ queue[c].tries > 0
  <2>1. \A n \in Nodes : CompleteCommand(n, h) => agent[n].pc # "idle"
    BY DEF CompleteCommand
  <2>. QED  BY <2>1, HandlerBy DEF Busy, Tried
<1>2. /\ queue[c].tries <= 1 /\ queue[c].tries \in Nat /\ queue'[c].tries \in Nat
      /\ c \in 1..Len(queue') /\ c # Len(queue) + 1
  BY <1>1, OnceBefore, QueueStays
<1>3. queue[c].state = "RUNNING"
  <2>1. CASE \E n \in Nodes : CompleteCommand(n, h) /\ c = agent[n].cmd
    BY <1>2, <2>1 DEF CompleteCommand, OneReport, InFlight, AtMostOnce
  <2>2. CASE handler[h].pc \in {"received", "loaded"} /\ handler[h].cmd = c
    BY <1>2, <2>2 DEF FirstSaves, AtMostOnce
  <2>3. LoadCommand(h) => handler[h].pc = "received"
    BY DEF LoadCommand
  <2>. QED  BY <2>1, <2>2, <2>3, HandlerMoves
<1>4. \A g \in Handlers : ~(SaveCommand(g) /\ handler[g].cmd = c)
  <2> SUFFICES ASSUME NEW g \in Handlers, SaveCommand(g), handler[g].cmd = c PROVE FALSE
    OBVIOUS
  <2>1. handler[g].pc = "loaded" /\ handler'[g].pc = "saved"
    BY DEF SaveCommand, TypeOK
  <2>2. handler'[h] = handler[h]
    BY <2>1 DEF SaveCommand, TypeOK
  <2>. QED  BY <1>2, <2>1, <2>2 DEF OneReport, AtMostOnce
<1>5. \A n \in Nodes : ~NextAgentCommand(n, c)
  BY <1>1, <1>2, Claims
<1>. QED  BY <1>1, <1>2, <1>3, <1>4, <1>5, CommandBy

(* What the queue shows of a command. *)
Shown(x) ==
  [node |-> x.node, deliveries |-> x.tries,
   result |-> IF x.state \in {"COMPLETED", "FAILED"} THEN x.state ELSE "none"]

(* The log shows each command of the queue, before a step and after it. *)
LEMMA LogFacts ==
  ASSUME TypeOK, TypeOK'
  PROVE  /\ Len(queue) \in Nat /\ Len(queue') \in Nat
         /\ CommandLog = [c \in 1..Len(queue) |-> Shown(queue[c])]
         /\ CommandLog' = [c \in 1..Len(queue') |-> Shown(queue'[c])]
<1>1. /\ Len(queue) \in Nat /\ DOMAIN queue = 1..Len(queue)
      /\ Len(queue') \in Nat /\ DOMAIN queue' = 1..Len(queue')
  BY LenProperties DEF TypeOK
<1>2. /\ CommandLog = [c \in DOMAIN queue |-> Shown(queue[c])]
      /\ CommandLog' = [c \in DOMAIN queue' |-> Shown(queue'[c])]
  BY DEF CommandLog, Shown
<1>. QED  BY <1>1, <1>2

(* A command added to the queue is submitted to its node. *)
LEMMA Submits ==
  ASSUME TypeOK, TypeOK', NEW kind, NEW i, NEW n \in Nodes, UNCHANGED revoked,
         Len(queue) < MaxCommands, Len(queue') = Len(queue) + 1,
         \A c \in 1..Len(queue) : queue'[c] = queue[c],
         queue'[Len(queue) + 1] = Pending(kind, i, n)
  PROVE  Promised!QueueNext
<1>. DEFINE c == Len(queue) + 1
<1>1. Len(queue) \in Nat /\ MaxCommands \in Nat /\ c \in 1..MaxCommands
  BY LogFacts, BoundsAssumption
<1>3. Shown(queue'[c]) = Promised!Submitted(n)
  BY DEF Pending, Shown, Promised!Submitted
<1>4. 1..Len(queue') = (1..Len(queue)) \cup {c} /\ c \notin 1..Len(queue)
  BY <1>1
<1>5. \A d \in 1..Len(queue) : d < c
  BY <1>1
<1>. HIDE DEF c
<1>6. CommandLog' = [d \in (1..Len(queue)) \cup {c} |->
                       IF d = c THEN Promised!Submitted(n) ELSE CommandLog[d]]
  BY <1>3, <1>4, LogFacts
<1>7. Promised!Submit(c, n)
  BY <1>5, <1>6, LogFacts DEF Promised!Submit
<1>. QED  BY <1>1, <1>7 DEF Promised!QueueNext

(* A command that changes alone changes the log at its place alone. *)
LEMMA Changes ==
  ASSUME TypeOK, TypeOK', Len(queue') = Len(queue), NEW c \in 1..Len(queue), NEW x,
         \A d \in 1..Len(queue) : d # c => queue'[d] = queue[d],
         Shown(queue'[c]) = x
  PROVE  CommandLog' = [CommandLog EXCEPT ![c] = x]
BY LogFacts

(* A poll delivers a command whose node is not closed, the oldest of those never delivered. *)
LEMMA Delivers ==
  ASSUME TypeOK, TypeOK', Tried, NEW n \in Nodes, NEW c \in 1..Len(queue),
         NextAgentCommand(n, c)
  PROVE  Promised!Deliver(c)
<1>1. /\ n \notin revoked /\ UNCHANGED revoked
      /\ queue[c].node = n /\ queue[c].state \in {"PENDING", "RUNNING"}
  BY DEF NextAgentCommand, Servable
<1>2. /\ Len(queue') = Len(queue)
      /\ \A d \in 1..Len(queue) : d # c => queue'[d] = queue[d]
      /\ queue'[c].node = queue[c].node
      /\ queue'[c].state = "RUNNING" /\ queue'[c].tries = queue[c].tries + 1
  <2>1. /\ queue[c] \in Command
        /\ queue'[c] = [queue[c] EXCEPT !.state = "RUNNING", !.stale = FALSE,
                                        !.tries = queue[c].tries + 1]
    BY QueueFacts, QueueClaim DEF NextAgentCommand, TypeOK
  <2>2. queue'[c].node = queue[c].node
    BY <2>1 DEF Command
  <2>. QED  BY <2>2, Claims
<1>3. CommandLog[c] = Shown(queue[c])
  BY LogFacts
<1>4. Shown(queue'[c]) = [Shown(queue[c]) EXCEPT !.deliveries = queue[c].tries + 1]
  BY <1>1, <1>2 DEF Shown
<1>5. CommandLog' = [CommandLog EXCEPT ![c].deliveries = CommandLog[c].deliveries + 1]
  <2>1. CommandLog[c].deliveries = queue[c].tries
    BY <1>3 DEF Shown
  <2>. QED  BY <1>2, <1>3, <1>4, <2>1, Changes
<1>6. ASSUME queue[c].tries = 0, NEW d \in 1..Len(queue), d < c, queue[d].node = n
      PROVE  queue[d].tries > 0
  <2>1. ~(c <= d)
    BY <1>6, LogFacts
  <2>2. d \notin Servable(n)
    BY <2>1 DEF NextAgentCommand
  <2>. QED  BY <1>6, <2>2, QueueFacts DEF Servable, Tried, TypeOK
<1>7. /\ CommandLog[c].node = n /\ CommandLog[c].result = "none"
      /\ CommandLog[c].deliveries = queue[c].tries
  BY <1>1, <1>3 DEF Shown
<1>8. \A d \in DOMAIN CommandLog :
        /\ d \in 1..Len(queue)
        /\ CommandLog[d].node = queue[d].node /\ CommandLog[d].deliveries = queue[d].tries
  BY LogFacts DEF Shown
<1>. QED  BY <1>1, <1>5, <1>6, <1>7, <1>8 DEF Promised!Deliver

(* The saved result of a command delivered once is the first. *)
LEMMA Reports ==
  ASSUME TypeOK, TypeOK', Busy, Tried, FirstSaves, NEW h \in Handlers, SaveCommand(h)
  PROVE  /\ handler[h].cmd \in DOMAIN CommandLog
         /\ \E result \in {"COMPLETED", "FAILED"} : Promised!Report(handler[h].cmd, result)
<1>. DEFINE c == handler[h].cmd
            s == IF handler[h].ok THEN "COMPLETED" ELSE "FAILED"
<1>1. /\ c \in 1..Len(queue) /\ queue[c].tries > 0 /\ queue[c].tries \in Nat
      /\ handler[h].pc = "loaded" /\ UNCHANGED revoked
      /\ queue' = [queue EXCEPT ![c].state = s]
  <2>1. c \in 1..Len(queue) /\ queue[c].tries > 0
    BY DEF SaveCommand, Busy, Tried
  <2>. QED  BY <2>1, QueueFacts, CommandFields DEF SaveCommand, TypeOK
<1>2. queue[c].state \notin {"COMPLETED", "FAILED"} \/ queue[c].tries > 1
  BY <1>1 DEF FirstSaves, AtMostOnce
<1>3. s \in {"COMPLETED", "FAILED"}
  OBVIOUS
<1>. HIDE DEF c, s
<1>4. /\ Len(queue') = Len(queue)
      /\ \A d \in 1..Len(queue) : d # c => queue'[d] = queue[d]
      /\ queue'[c] = [queue[c] EXCEPT !.state = s]
  <2>1. queue \in Seq(Command) /\ s \in CommandState
    BY <1>3 DEF TypeOK, CommandState
  <2>. QED  BY <1>1, <2>1, QueueSave
<1>5. Shown(queue'[c]) = [Shown(queue[c]) EXCEPT !.result = s]
  <2>1. queue[c] \in Command
    BY <1>1, QueueFacts DEF TypeOK
  <2>2. queue'[c].state = s /\ queue'[c].node = queue[c].node /\ queue'[c].tries = queue[c].tries
    BY <1>4, <2>1 DEF Command
  <2>. QED  BY <1>3, <2>2 DEF Shown
<1>6. CommandLog[c] = Shown(queue[c]) /\ c \in DOMAIN CommandLog
  BY <1>1, LogFacts
<1>7. CommandLog' = [CommandLog EXCEPT ![c].result = s]
  BY <1>1, <1>4, <1>5, <1>6, Changes
<1>8. CommandLog[c].deliveries > 0 /\ (CommandLog[c].result = "none" \/ CommandLog[c].deliveries > 1)
  BY <1>1, <1>2, <1>6 DEF Shown
<1>9. Promised!Report(c, s)
  BY <1>1, <1>7, <1>8 DEF Promised!Report
<1>. QED  BY <1>3, <1>6, <1>9 DEF c

(* A step revokes a node or changes the queue, not both. *)
LEMMA Revokes ==
  ASSUME [Next]_vars
  PROVE  UNCHANGED revoked \/ (UNCHANGED queue /\ \E n \in Nodes : revoked' = revoked \cup {n})
<1> USE DEF hostVars
<1>1. CASE UNCHANGED vars
  BY <1>1 DEF vars
<1>2. CASE RequestNext
  <2>. UNCHANGED revoked
    BY <1>2 DEF RequestNext, CheckServer, ReserveInstanceSlot, InsertServer, RejectServer,
                RejectServerLeaks, QueueCommand
  <2>. QED  OBVIOUS
<1>3. CASE AgentNext
  BY <1>3 DEF AgentNext, NextAgentCommand, ExecuteCommand, CompleteCommand, LoseCommand,
              GiveUpWaiting, RevokeNode
<1>4. CASE HandlerNext
  <2>. UNCHANGED revoked
    BY <1>4 DEF HandlerNext, LoadCommand, RefuseResult, SaveCommand, ReleaseInstanceSlot,
                UpdateInstance, SaveCommandFails, ReleaseFails, UpdateFails
  <2>. QED  OBVIOUS
<1>5. CASE \E c \in DOMAIN queue : ClaimExpires(c)
  BY <1>5 DEF ClaimExpires
<1>6. CASE \E i \in Instances : LoadCrashed(i) \/ QuarantineServer(i)
  BY <1>6 DEF LoadCrashed, QuarantineServer
<1>7. CASE OrchestratorCrash
  BY <1>7 DEF OrchestratorCrash
<1>. QED  BY <1>1, <1>2, <1>3, <1>4, <1>5, <1>6, <1>7 DEF Next

(* Every step of the system is a step of the promised queue, or changes nothing of it. *)
LEMMA StepPromised ==
  ASSUME TypeOK, Busy, Tried, FreshIds, FirstSaves, [Next]_vars
  PROVE  [Promised!QueueNext]_(Promised!queueVars)
<1>1. TypeOK'
  BY StepTypes
<1>2. CASE UNCHANGED queue
  <2>1. UNCHANGED CommandLog
    BY <1>2 DEF CommandLog
  <2>2. ASSUME NEW n \in Nodes, revoked' = revoked \cup {n}
        PROVE  Promised!Close(n)
    BY <2>1, <2>2 DEF Promised!Close
  <2>. QED  BY <2>1, <2>2, Revokes DEF Promised!QueueNext, Promised!queueVars
<1>3. CASE \E r \in Requests : InsertServer(r)
  <2>1. PICK r \in Requests : InsertServer(r)
    BY <1>3
  <2>2. /\ Len(queue) < MaxCommands /\ UNCHANGED revoked /\ request[r].node \in Nodes
    BY <2>1 DEF InsertServer, Busy, hostVars
  <2>3. Promised!QueueNext
    BY <1>1, <2>1, <2>2, InsertAppends, Submits
  <2>. QED  BY <2>3
<1>4. CASE \E i \in Instances, kind \in UserCommands : QueueCommand(i, kind)
  <2>1. PICK i \in Instances, kind \in UserCommands : QueueCommand(i, kind)
    BY <1>4
  <2>2. /\ Len(queue) < MaxCommands /\ UNCHANGED revoked /\ node[i] \in Nodes
    BY <2>1 DEF QueueCommand, hostVars, FreshIds, TypeOK
  <2>3. Promised!QueueNext
    BY <1>1, <2>1, <2>2, QueueCommandAppends, Submits
  <2>. QED  BY <2>3
<1>5. CASE \E n \in Nodes, c \in 1..Len(queue) : NextAgentCommand(n, c)
  <2>1. PICK n \in Nodes, c \in 1..Len(queue) : NextAgentCommand(n, c)
    BY <1>5
  <2>2. Promised!Deliver(c) /\ c \in DOMAIN CommandLog
    BY <1>1, <2>1, Delivers, LogFacts
  <2>. QED  BY <2>2 DEF Promised!QueueNext
<1>6. CASE \E c \in 1..Len(queue) : ClaimExpires(c)
  <2>1. PICK c \in 1..Len(queue) : ClaimExpires(c)
    BY <1>6
  <2>2. /\ Len(queue') = Len(queue) /\ UNCHANGED revoked
        /\ \A d \in 1..Len(queue) : d # c => queue'[d] = queue[d]
        /\ queue'[c] = [queue[c] EXCEPT !.stale = TRUE]
    BY <2>1, QueueExpire DEF ClaimExpires, hostVars, TypeOK
  <2>3. queue[c] \in Command
    BY QueueFacts DEF TypeOK
  <2>4. Shown(queue'[c]) = Shown(queue[c])
    BY <2>2, <2>3 DEF Shown, Command
  <2>5. CommandLog' = CommandLog
    BY <1>1, <2>2, <2>4, LogFacts
  <2>. QED  BY <2>2, <2>5 DEF Promised!queueVars
<1>7. CASE \E h \in Handlers : SaveCommand(h)
  BY <1>1, <1>7, Reports DEF Promised!QueueNext
<1>. QED  BY <1>2, <1>3, <1>4, <1>5, <1>6, <1>7, QueueSteps

(* The queue keeps its promise to nodes and submitters, whatever polls and results are lost, *)
(* late or repeated, and whenever the orchestrator dies: first deliveries in order, nothing  *)
(* to a revoked node or after a report, a second report only after a second delivery.        *)
THEOREM QueueImplemented == Spec => ImplementsQueue
<1> DEFINE I == TypeOK /\ Busy /\ Tried /\ FreshIds /\ OwnCommands /\ OneReport
                /\ FirstSaves
<1>1. Init => I
  <2>1. Init => FirstSaves
    BY DEF Init, FirstSaves, IdleHandler
  <2>. QED  BY <2>1, InitTypes, InitSlots, InitDelivered, InitReports
<1>2. I /\ [Next]_vars => I'
  BY StepTypes, StepTried, StepFreshIds, StepOwnCommands, StepOneReport, StepFirstSaves
<1>3. Init => Promised!QueueInit
  <2> SUFFICES ASSUME Init PROVE Promised!QueueInit
    OBVIOUS
  <2>1. DOMAIN queue = {} /\ revoked = {}
    BY EmptySeq DEF Init
  <2>. QED  BY <2>1 DEF Promised!QueueInit, CommandLog
<1>4. I /\ [Next]_vars => [Promised!QueueNext]_(Promised!queueVars)
  BY StepPromised
<1>. QED  BY <1>1, <1>2, <1>3, <1>4, PTL DEF Spec, ImplementsQueue, Promised!QueueSpec
===============================================================================
