----------------------------- MODULE CommandQueue -----------------------------
(***************************************************************************)
(* What the queue of agent commands promises the nodes and those who       *)
(* submit to it, with none of its rows, claims, agents and result          *)
(* handlers: a node that is not closed is handed its commands in the order *)
(* of their submission, any of them again until it is reported, and what   *)
(* was reported stands, unless the command was handed out twice.           *)
(* ServerCommands implements this module.                                  *)
(***************************************************************************)
EXTENDS Naturals

CONSTANTS Ids, Nodes

VARIABLES
  commands,   \* of each id submitted: its node, its deliveries, the last report
  closed      \* nodes that are handed nothing any more

queueVars == <<commands, closed>>

Submitted(n) == [node |-> n, deliveries |-> 0, result |-> "none"]

QueueInit ==
  /\ commands = [c \in {} |-> Submitted(c)]
  /\ closed = {}

Submit(c, n) ==
  /\ \A d \in DOMAIN commands : d < c
  /\ commands' = [d \in DOMAIN commands \cup {c} |->
                    IF d = c THEN Submitted(n) ELSE commands[d]]
  /\ UNCHANGED closed

(* The first delivery waits for those of the node's earlier commands; a command reported   *)
(* is not delivered again.                                                                 *)
Deliver(c) ==
  /\ commands[c].node \notin closed
  /\ commands[c].result = "none"
  /\ commands[c].deliveries = 0 =>
       \A d \in DOMAIN commands :
         d < c /\ commands[d].node = commands[c].node => commands[d].deliveries > 0
  /\ commands' = [commands EXCEPT ![c].deliveries = commands[c].deliveries + 1]
  /\ UNCHANGED closed

(* Of a command delivered once there is one report; later ones are of other deliveries.    *)
Report(c, result) ==
  /\ commands[c].deliveries > 0
  /\ commands[c].result = "none" \/ commands[c].deliveries > 1
  /\ commands' = [commands EXCEPT ![c].result = result]
  /\ UNCHANGED closed

Close(n) == closed' = closed \cup {n} /\ UNCHANGED commands

QueueNext ==
  \/ \E c \in Ids, n \in Nodes : Submit(c, n)
  \/ \E c \in DOMAIN commands : Deliver(c)
  \/ \E c \in DOMAIN commands, result \in {"COMPLETED", "FAILED"} : Report(c, result)
  \/ \E n \in Nodes : Close(n)

QueueSpec == QueueInit /\ [][QueueNext]_queueVars
===============================================================================
