---------------------------- MODULE NodeEnrollment ----------------------------
(***************************************************************************)
(* How a host becomes a node of an organization and stays one: device      *)
(* codes, their approval against the node quota, the claim of the agent    *)
(* token, heartbeats, stale marking, revocation, and the licence-key       *)
(* enrolment beside them.                                                  *)
(*                                                                         *)
(* A database transaction is one action: every quota decision holds the    *)
(* subscription row FOR UPDATE, and a claim holds its enrollment row.  A   *)
(* heartbeat is not a transaction, so it is three actions (authenticate,   *)
(* load the row, save the whole row back) and other requests run between   *)
(* them.  Time is abstract: a code expires, and a heartbeat becomes older  *)
(* than 45 s, at any moment.  An UUID and a random token are fresh         *)
(* elements of Nodes, Enrollments and Tokens; a credential is created with *)
(* its node and is named by it.                                            *)
(***************************************************************************)
EXTENDS Naturals, FiniteSets

CONSTANTS
  Orgs,         \* organizations, each with one subscription and one active network
  Names,        \* node names
  Agents,       \* hosts that run nexa-agent
  HostName,     \* the NEXA_NODE_NAME of each host; hosts may share one
  Enrollments,  \* device codes
  Nodes,        \* node ids
  Tokens,       \* agent tokens
  Beats,        \* heartbeat requests the server can be serving at once
  MaxNodes,     \* max_nodes in each subscription's entitlement snapshot
  None

ASSUME NodesAssumption == IsFiniteSet(Nodes)
ASSUME HostNameAssumption == HostName \in [Agents -> Names]
ASSUME QuotaAssumption == MaxNodes \in [Orgs -> Nat]
ASSUME NoneAssumption == None \notin Orgs \cup Names \cup Enrollments \cup Nodes \cup Tokens
ASSUME AnswersAssumption == {"none", "202", "410"} \cap Tokens = {}

VARIABLES
  (* rows of device_enrollments *)
  codeStatus, codeName, codeNode,
  expired,                          \* codes past expires_at
  (* rows of nodes and node_credentials *)
  nodeStatus, nodeOrg, nodeName,
  silent,                           \* nodes whose last_heartbeat is more than 45 s old
  credential, secret,
  license,                          \* organizations that have a usable licence key
  (* requests being served *)
  claims,                           \* device/token requests not yet processed
  answer,                           \* the response on its way to the host that waits on a code
  beat,                             \* heartbeat requests
  (* hosts *)
  register,                         \* nexa-agent register: its step and its code
  saved,                            \* the token in agent.json
  running                           \* the token `nexa-agent run` loaded when it started

codeVars == <<codeStatus, codeName, codeNode, expired>>
nodeVars == <<nodeStatus, nodeOrg, nodeName, silent>>
credentialVars == <<credential, secret>>
claimVars == <<claims, answer>>
hostVars == <<register, saved, running>>
vars == <<codeVars, nodeVars, credentialVars, license, claimVars, beat, hostVars>>

IdleBeat == [pc |-> "idle", node |-> None, late |-> FALSE]
NotRegistering == [pc |-> "idle", code |-> None]

(* Types: every row, request and host is in one of the states the code gives it. *)
TypeOK ==
  /\ codeStatus \in [Enrollments -> {"unused", "PENDING", "APPROVED", "CLAIMED"}]
  /\ codeName \in [Enrollments -> Names \cup {None}]
  /\ codeNode \in [Enrollments -> Nodes \cup {None}]
  /\ expired \subseteq Enrollments
  /\ nodeStatus \in [Nodes -> {"absent", "OFFLINE", "ONLINE", "REVOKED"}]
  /\ nodeOrg \in [Nodes -> Orgs \cup {None}]
  /\ nodeName \in [Nodes -> Names \cup {None}]
  /\ silent \subseteq Nodes
  /\ credential \in [Nodes -> {"none", "ACTIVE", "REVOKED"}]
  /\ secret \in [Nodes -> Tokens \cup {None}]
  /\ license \subseteq Orgs
  /\ claims \subseteq Enrollments
  /\ answer \in [Enrollments -> {"none", "202", "410"} \cup Tokens]
  /\ beat \in [Beats -> [pc : {"idle", "authenticated", "loaded"},
                         node : Nodes \cup {None}, late : BOOLEAN]]
  /\ register \in [Agents -> [pc : {"idle", "polling", "waiting"},
                              code : Enrollments \cup {None}]]
  /\ saved \in [Agents -> Tokens \cup {None}]
  /\ running \in [Agents -> Tokens \cup {None}]

Init ==
  /\ codeStatus = [e \in Enrollments |-> "unused"]
  /\ codeName = [e \in Enrollments |-> None]
  /\ codeNode = [e \in Enrollments |-> None]
  /\ expired = {}
  /\ nodeStatus = [n \in Nodes |-> "absent"]
  /\ nodeOrg = [n \in Nodes |-> None]
  /\ nodeName = [n \in Nodes |-> None]
  /\ silent = Nodes
  /\ credential = [n \in Nodes |-> "none"]
  /\ secret = [n \in Nodes |-> None]
  /\ license = {}
  /\ claims = {}
  /\ answer = [e \in Enrollments |-> "none"]
  /\ beat = [b \in Beats |-> IdleBeat]
  /\ register = [a \in Agents |-> NotRegistering]
  /\ saved = [a \in Agents |-> None]
  /\ running = [a \in Agents |-> None]

-------------------------------------------------------------------------------
(* Mutant: only nodes that are up count against the quota. *)
OccupyingOnline(o) == {n \in Nodes : nodeOrg[n] = o /\ nodeStatus[n] = "ONLINE"}

(* Nodes that count against the quota. *)
Occupying(o) == {n \in Nodes : nodeOrg[n] = o /\ nodeStatus[n] \in {"OFFLINE", "ONLINE"}}

(* idx_nodes_org_name: a revoked node keeps its name. *)
NameFree(o, name) == \A n \in Nodes : nodeOrg[n] = o => nodeName[n] # name

Spent == {secret[n] : n \in Nodes}

(* A node row, zero last_heartbeat, and its credential without a secret. *)
CreateNode(o, n, name) ==
  /\ nodeStatus[n] = "absent"
  /\ Cardinality(Occupying(o)) < MaxNodes[o]
  /\ NameFree(o, name)
  /\ nodeStatus' = [nodeStatus EXCEPT ![n] = "OFFLINE"]
  /\ nodeOrg' = [nodeOrg EXCEPT ![n] = o]
  /\ nodeName' = [nodeName EXCEPT ![n] = name]
  /\ silent' = silent \cup {n}
  /\ credential' = [credential EXCEPT ![n] = "ACTIVE"]
  /\ UNCHANGED secret

-------------------------------------------------------------------------------
(* nexa-agent register and the handlers it calls. *)

CreateDeviceCode(a, e) ==
  /\ register[a].pc = "idle"
  /\ codeStatus[e] = "unused"
  /\ codeStatus' = [codeStatus EXCEPT ![e] = "PENDING"]
  /\ codeName' = [codeName EXCEPT ![e] = HostName[a]]
  /\ register' = [register EXCEPT ![a] = [pc |-> "polling", code |-> e]]
  /\ UNCHANGED <<codeNode, expired, nodeVars, credentialVars, license, claimVars, beat,
                 saved, running>>

ApproveDeviceEnrollment(o, e, n) ==
  /\ codeStatus[e] = "PENDING"
  /\ e \notin expired
  /\ CreateNode(o, n, codeName[e])
  /\ codeStatus' = [codeStatus EXCEPT ![e] = "APPROVED"]
  /\ codeNode' = [codeNode EXCEPT ![e] = n]
  /\ UNCHANGED <<codeName, expired, license, claimVars, beat, hostVars>>

Expire(e) ==
  /\ codeStatus[e] # "unused"
  /\ e \notin expired
  /\ expired' = expired \cup {e}
  /\ UNCHANGED <<codeStatus, codeName, codeNode, nodeVars, credentialVars, license,
                 claimVars, beat, hostVars>>

(* Mutant: the agent polls without having obtained a code. *)
SendClaimUnguarded(a) ==
  /\ register' = [register EXCEPT ![a].pc = "waiting"]
  /\ claims' = claims \cup {register[a].code}
  /\ UNCHANGED <<codeVars, nodeVars, credentialVars, license, answer, beat, saved, running>>

SendClaim(a) ==
  /\ register[a].pc = "polling"
  /\ register' = [register EXCEPT ![a].pc = "waiting"]
  /\ claims' = claims \cup {register[a].code}
  /\ UNCHANGED <<codeVars, nodeVars, credentialVars, license, answer, beat, saved, running>>

(* The response reaches a host only while it waits on the code. *)
Respond(e, reply) ==
  answer' = [answer EXCEPT ![e] =
               IF \E a \in Agents : register[a] = [pc |-> "waiting", code |-> e]
               THEN reply ELSE "none"]

(* The endpoint answers whoever holds the device code: a second poller, or the same       *)
(* request delivered twice.                                                               *)
RepeatClaim(e) ==
  /\ codeStatus[e] # "unused"
  /\ e \notin claims
  /\ claims' = claims \cup {e}
  /\ UNCHANGED <<codeVars, nodeVars, credentialVars, license, answer, beat, hostVars>>

(* Mutant: a code can be claimed again. *)
CanGrantAgain(e) ==
  /\ e \notin expired
  /\ codeStatus[e] \in {"APPROVED", "CLAIMED"}
  /\ credential[codeNode[e]] = "ACTIVE"

(* The only branch of the claim that changes rows. *)
CanGrant(e) ==
  /\ e \notin expired
  /\ codeStatus[e] = "APPROVED"
  /\ credential[codeNode[e]] = "ACTIVE"

(* Mutant: the enrollment is not saved as CLAIMED. *)
GrantTokenUnsaved(e, t) ==
  /\ e \in claims
  /\ CanGrant(e)
  /\ t \notin Spent
  /\ secret' = [secret EXCEPT ![codeNode[e]] = t]
  /\ claims' = claims \ {e}
  /\ Respond(e, t)
  /\ UNCHANGED <<codeVars, nodeVars, credential, license, beat, hostVars>>

GrantToken(e, t) ==
  /\ e \in claims
  /\ CanGrant(e)
  /\ t \notin Spent
  /\ secret' = [secret EXCEPT ![codeNode[e]] = t]
  /\ codeStatus' = [codeStatus EXCEPT ![e] = "CLAIMED"]
  /\ claims' = claims \ {e}
  /\ Respond(e, t)
  /\ UNCHANGED <<codeName, codeNode, expired, nodeVars, credential, license, beat, hostVars>>

(* 202 while PENDING; 410 once expired, claimed before, or revoked. *)
RefuseToken(e) ==
  /\ e \in claims
  /\ ~CanGrant(e)
  /\ claims' = claims \ {e}
  /\ Respond(e, IF e \notin expired /\ codeStatus[e] = "PENDING" THEN "202" ELSE "410")
  /\ UNCHANGED <<codeVars, nodeVars, credentialVars, license, beat, hostVars>>

(* The agent polls again on 202, saves a token, and exits on any other answer. *)
ReceiveAnswer(a) ==
  LET reply == answer[register[a].code] IN
  /\ register[a].pc = "waiting"
  /\ reply # "none"
  /\ register' = [register EXCEPT ![a] =
                    IF reply = "202" THEN [@ EXCEPT !.pc = "polling"] ELSE NotRegistering]
  /\ saved' = [saved EXCEPT ![a] = IF reply \in Tokens THEN reply ELSE @]
  /\ answer' = [answer EXCEPT ![register[a].code] = "none"]
  /\ UNCHANGED <<codeVars, nodeVars, credentialVars, license, claims, beat, running>>

(* A timeout, a lost response, a failed SaveState, the polling deadline or a killed       *)
(* process.  A claim that is still in flight is processed all the same.                   *)
AbandonRegister(a) ==
  /\ register[a].pc # "idle"
  /\ register' = [register EXCEPT ![a] = NotRegistering]
  /\ answer' = [answer EXCEPT ![register[a].code] = "none"]
  /\ UNCHANGED <<codeVars, nodeVars, credentialVars, license, claims, beat, saved, running>>

-------------------------------------------------------------------------------
(* nexa-agent run and the heartbeat handler. *)

StartAgent(a) ==
  /\ saved[a] # None
  /\ running[a] # saved[a]
  /\ running' = [running EXCEPT ![a] = saved[a]]
  /\ UNCHANGED <<codeVars, nodeVars, credentialVars, license, claimVars, beat, register, saved>>

StopAgent(a) ==
  /\ running[a] # None
  /\ running' = [running EXCEPT ![a] = None]
  /\ UNCHANGED <<codeVars, nodeVars, credentialVars, license, claimVars, beat, register, saved>>

(* Mutant: the lookup forgets the credential's status. *)
AuthenticatesRevoked(t, n) == t # None /\ secret[n] = t

(* A secret_hash lookup among the ACTIVE credentials. *)
Authenticates(t, n) == t # None /\ secret[n] = t /\ credential[n] = "ACTIVE"

HeartbeatAuthenticate(b, a, n) ==
  /\ beat[b].pc = "idle"
  /\ Authenticates(running[a], n)
  /\ beat' = [beat EXCEPT ![b] = [pc |-> "authenticated", node |-> n, late |-> FALSE]]
  /\ UNCHANGED <<codeVars, nodeVars, credentialVars, license, claimVars, hostVars>>

(* 410 when the row is REVOKED. *)
HeartbeatLoad(b) ==
  /\ beat[b].pc = "authenticated"
  /\ beat' = [beat EXCEPT ![b] = IF nodeStatus[beat[b].node] # "REVOKED"
                                 THEN [@ EXCEPT !.pc = "loaded"] ELSE IdleBeat]
  /\ UNCHANGED <<codeVars, nodeVars, credentialVars, license, claimVars, hostVars>>

(* Save writes the whole row that was loaded, status ONLINE, whatever it has become since. *)
HeartbeatSave(b) ==
  LET n == beat[b].node IN
  /\ beat[b].pc = "loaded"
  /\ nodeStatus' = [nodeStatus EXCEPT ![n] = "ONLINE"]
  /\ silent' = IF beat[b].late THEN silent \cup {n} ELSE silent \ {n}
  /\ beat' = [beat EXCEPT ![b] = IdleBeat]
  /\ UNCHANGED <<codeVars, nodeOrg, nodeName, credentialVars, license, claimVars, hostVars>>

(* More than 45 s pass between the handler's clock reading and its Save. *)
HeartbeatDelayed(b) ==
  /\ beat[b].pc # "idle"
  /\ ~beat[b].late
  /\ beat' = [beat EXCEPT ![b].late = TRUE]
  /\ UNCHANGED <<codeVars, nodeVars, credentialVars, license, claimVars, hostVars>>

(* The request dies with the orchestrator or with its database connection. *)
HeartbeatDropped(b) ==
  /\ beat[b].pc # "idle"
  /\ beat' = [beat EXCEPT ![b] = IdleBeat]
  /\ UNCHANGED <<codeVars, nodeVars, credentialVars, license, claimVars, hostVars>>

-------------------------------------------------------------------------------
(* The reconciler, and the organization's operators. *)

HeartbeatAges(n) ==
  /\ n \notin silent
  /\ silent' = silent \cup {n}
  /\ UNCHANGED <<codeVars, nodeStatus, nodeOrg, nodeName, credentialVars, license,
                 claimVars, beat, hostVars>>

(* Mutant: the comparison with last_heartbeat is the wrong way round. *)
StaleReversed(n) == nodeStatus[n] = "ONLINE" /\ n \notin silent

Stale(n) == nodeStatus[n] = "ONLINE" /\ n \in silent

MarkStaleNodes ==
  /\ \E n \in Nodes : Stale(n)
  /\ nodeStatus' = [n \in Nodes |-> IF Stale(n) THEN "OFFLINE" ELSE nodeStatus[n]]
  /\ UNCHANGED <<codeVars, nodeOrg, nodeName, silent, credentialVars, license,
                 claimVars, beat, hostVars>>

(* Mutant: the node is revoked and its credential is not. *)
RevokeNodeOnly(n) ==
  /\ nodeStatus[n] # "absent"
  /\ nodeStatus' = [nodeStatus EXCEPT ![n] = "REVOKED"]
  /\ UNCHANGED <<codeVars, nodeOrg, nodeName, silent, credentialVars, license, claimVars,
                 beat, hostVars>>

RevokeNode(n) ==
  /\ nodeStatus[n] # "absent"
  /\ nodeStatus' = [nodeStatus EXCEPT ![n] = "REVOKED"]
  /\ credential' = [credential EXCEPT ![n] = "REVOKED"]
  /\ UNCHANGED <<codeVars, nodeOrg, nodeName, silent, secret, license, claimVars, beat,
                 hostVars>>

CreateLicense(o) ==
  /\ o \notin license
  /\ license' = license \cup {o}
  /\ UNCHANGED <<codeVars, nodeVars, credentialVars, claimVars, beat, hostVars>>

(* Every usable key of the organization is revoked or has expired. *)
RevokeLicense(o) ==
  /\ o \in license
  /\ license' = license \ {o}
  /\ UNCHANGED <<codeVars, nodeVars, credentialVars, claimVars, beat, hostVars>>

(* Creates a node and a credential, and no secret: the response carries none either. *)
EnrollNode(o, n, name) ==
  /\ o \in license
  /\ CreateNode(o, n, name)
  /\ UNCHANGED <<codeVars, license, claimVars, beat, hostVars>>

-------------------------------------------------------------------------------
AgentNext ==
  \E a \in Agents :
    \/ \E e \in Enrollments : CreateDeviceCode(a, e)
    \/ SendClaim(a)
    \/ ReceiveAnswer(a)
    \/ AbandonRegister(a)
    \/ StartAgent(a)
    \/ StopAgent(a)

BeatNext ==
  \E b \in Beats :
    \/ \E a \in Agents, n \in Nodes : HeartbeatAuthenticate(b, a, n)
    \/ HeartbeatLoad(b)
    \/ HeartbeatSave(b)
    \/ HeartbeatDelayed(b)
    \/ HeartbeatDropped(b)

CodeNext ==
  \E e \in Enrollments :
    \/ \E o \in Orgs, n \in Nodes : ApproveDeviceEnrollment(o, e, n)
    \/ \E t \in Tokens : GrantToken(e, t)
    \/ RefuseToken(e)
    \/ RepeatClaim(e)
    \/ Expire(e)

NodeNext ==
  \/ MarkStaleNodes
  \/ \E n \in Nodes : HeartbeatAges(n) \/ RevokeNode(n)
  \/ \E o \in Orgs :
       \/ CreateLicense(o)
       \/ RevokeLicense(o)
       \/ \E n \in Nodes, name \in Names : EnrollNode(o, n, name)

Next == AgentNext \/ BeatNext \/ CodeNext \/ NodeNext

Spec == Init /\ [][Next]_vars

(* Some process can still bring the node's heartbeat up to date. *)
CanBeat(n) ==
  \/ \E b \in Beats : beat[b].node = n
  \/ \E a \in Agents : Authenticates(running[a], n)

(* A request that was accepted is finished or dropped; the reconciler keeps its 5 s tick;  *)
(* and the clock runs: the heartbeat of a node nobody reports for grows older than 45 s.   *)
Fairness ==
  /\ \A b \in Beats : WF_vars(HeartbeatLoad(b)) /\ WF_vars(HeartbeatSave(b))
  /\ WF_vars(MarkStaleNodes)
  /\ \A n \in Nodes : WF_vars(~CanBeat(n) /\ HeartbeatAges(n))

FairSpec == Spec /\ Fairness

-------------------------------------------------------------------------------
(* Safety. *)

(* An organization never holds more ACTIVE credentials than its plan has nodes, although   *)
(* the quota counts node rows and a late heartbeat can undo a revocation's status.         *)
CredentialQuota ==
  \A o \in Orgs :
    Cardinality({n \in Nodes : nodeOrg[n] = o /\ credential[n] = "ACTIVE"}) <= MaxNodes[o]

(* A token that reached a host's disk is the token of a claimed code's node for ever: no   *)
(* later claim, lost answer or re-registration replaces the hash it is checked against.    *)
DeliveredTokenStands ==
  \A a \in Agents : saved[a] # None =>
    \E e \in Enrollments :
      /\ codeStatus[e] = "CLAIMED"
      /\ codeNode[e] # None
      /\ secret[codeNode[e]] = saved[a]

(* Only a node whose device code was approved and claimed is ever ONLINE: a node enrolled  *)
(* by licence key, or one whose claim never happened, cannot report.                       *)
OnlineNodesWereClaimed ==
  \A n \in Nodes : nodeStatus[n] = "ONLINE" =>
    \E e \in Enrollments : codeStatus[e] = "CLAIMED" /\ codeNode[e] = n

(* What the pricing page and the "node quota reached" refusal say: the nodes that are not  *)
(* revoked fit the plan.                                                                   *)
NodeQuota == \A o \in Orgs : Cardinality(Occupying(o)) <= MaxNodes[o]

(* The quota on credentials, the single use of secrets and the finality of revocation, as  *)
(* a specification of their own.                                                           *)
Ledger == INSTANCE CredentialLedger WITH
  holder <- nodeOrg,
  key <- secret,
  stage <- [n \in Nodes |-> IF credential[n] = "ACTIVE" THEN "granted"
                            ELSE IF credential[n] = "REVOKED" THEN "revoked" ELSE "free"]

(* Approvals, claims, revocations, late heartbeats and licence keys together do nothing    *)
(* that the ledger forbids.                                                                *)
ImplementsLedger == Ledger!LedgerSpec

-------------------------------------------------------------------------------
(* Liveness. *)

(* A node whose credential is revoked ends up not ONLINE for good, even when a heartbeat   *)
(* that was in flight during the revocation brings its row back.                           *)
RevokedNodeGoesDark ==
  \A n \in Nodes : (credential[n] = "REVOKED") ~> [](nodeStatus[n] # "ONLINE")

(* A node whose agent process is gone for good goes offline for good.                      *)
SilentNodeGoesOffline ==
  \A n \in Nodes :
    <>[](\A a \in Agents : running[a] = None \/ running[a] # secret[n])
      => <>[](nodeStatus[n] # "ONLINE")
===============================================================================
