------------------------- MODULE NodeEnrollmentProofs -------------------------
(***************************************************************************)
(* Proofs about NodeEnrollment for any organizations, hosts, codes, nodes, *)
(* tokens and quotas.  The inductive invariant is IInv: the types, what a  *)
(* request in progress holds, how a node row and its credential go         *)
(* together, and how codes, nodes, secrets and tokens are linked.          *)
(***************************************************************************)
EXTENDS NodeEnrollment, FiniteSetTheorems, TLAPS

-------------------------------------------------------------------------------
(* Types. *)

(* A host that registers has a code; a heartbeat being served has a node. *)
Busy ==
  /\ \A a \in Agents : register[a].pc # "idle" => register[a].code \in Enrollments
  /\ \A b \in Beats : beat[b].pc # "idle" => beat[b].node \in Nodes

(* The first state is typed. *)
LEMMA InitTypes == Init => TypeOK /\ Busy
BY DEF Init, TypeOK, Busy, IdleBeat, NotRegistering

(* Types, through each step of a host. *)
LEMMA AgentStepTypes == TypeOK /\ Busy /\ AgentNext => TypeOK' /\ Busy'
<1> SUFFICES ASSUME TypeOK, Busy, NEW a \in Agents,
                    \/ \E e \in Enrollments : CreateDeviceCode(a, e)
                    \/ SendClaim(a)
                    \/ ReceiveAnswer(a)
                    \/ AbandonRegister(a)
                    \/ StartAgent(a)
                    \/ StopAgent(a)
             PROVE  TypeOK' /\ Busy'
  BY DEF AgentNext
<1> USE DEF TypeOK, Busy, codeVars, nodeVars, credentialVars, claimVars, hostVars
<1>1. CASE \E e \in Enrollments : CreateDeviceCode(a, e)
  <2>1. PICK e \in Enrollments : CreateDeviceCode(a, e)
    BY <1>1
  <2>2. HostName[a] \in Names
    BY HostNameAssumption
  <2>3. /\ codeStatus' \in [Enrollments -> {"unused", "PENDING", "APPROVED", "CLAIMED"}]
        /\ codeName' \in [Enrollments -> Names \cup {None}]
    BY <2>1, <2>2 DEF CreateDeviceCode
  <2>4. register' \in [Agents -> [pc : {"idle", "polling", "waiting"},
                                 code : Enrollments \cup {None}]]
    BY <2>1 DEF CreateDeviceCode
  <2>. QED  BY <2>1, <2>3, <2>4 DEF CreateDeviceCode
<1>2. CASE SendClaim(a)
  BY <1>2 DEF SendClaim
<1>3. CASE ReceiveAnswer(a)
  BY <1>3 DEF ReceiveAnswer, NotRegistering
<1>4. CASE AbandonRegister(a)
  BY <1>4 DEF AbandonRegister, NotRegistering
<1>5. CASE StartAgent(a)
  BY <1>5 DEF StartAgent
<1>6. CASE StopAgent(a)
  BY <1>6 DEF StopAgent
<1>. QED  BY <1>1, <1>2, <1>3, <1>4, <1>5, <1>6

(* Types, through each step of a heartbeat. *)
LEMMA BeatStepTypes == TypeOK /\ Busy /\ BeatNext => TypeOK' /\ Busy'
<1> SUFFICES ASSUME TypeOK, Busy, NEW b \in Beats,
                    \/ \E a \in Agents, n \in Nodes : HeartbeatAuthenticate(b, a, n)
                    \/ HeartbeatLoad(b)
                    \/ HeartbeatSave(b)
                    \/ HeartbeatDelayed(b)
                    \/ HeartbeatDropped(b)
             PROVE  TypeOK' /\ Busy'
  BY DEF BeatNext
<1> USE DEF TypeOK, Busy, codeVars, nodeVars, credentialVars, claimVars, hostVars
<1>1. CASE \E a \in Agents, n \in Nodes : HeartbeatAuthenticate(b, a, n)
  BY <1>1 DEF HeartbeatAuthenticate
<1>2. CASE HeartbeatLoad(b)
  <2>1. beat' \in [Beats -> [pc : {"idle", "authenticated", "loaded"},
                             node : Nodes \cup {None}, late : BOOLEAN]]
    BY <1>2 DEF HeartbeatLoad, IdleBeat
  <2>2. Busy'
    BY <1>2 DEF HeartbeatLoad, IdleBeat
  <2>. QED  BY <1>2, <2>1, <2>2 DEF HeartbeatLoad
<1>3. CASE HeartbeatSave(b)
  <2>1. beat' \in [Beats -> [pc : {"idle", "authenticated", "loaded"},
                             node : Nodes \cup {None}, late : BOOLEAN]]
    BY <1>3 DEF HeartbeatSave, IdleBeat
  <2>2. nodeStatus' \in [Nodes -> {"absent", "OFFLINE", "ONLINE", "REVOKED"}]
        /\ silent' \subseteq Nodes
    BY <1>3 DEF HeartbeatSave
  <2>3. Busy'
    BY <1>3 DEF HeartbeatSave, IdleBeat
  <2>. QED  BY <1>3, <2>1, <2>2, <2>3 DEF HeartbeatSave
<1>4. CASE HeartbeatDelayed(b)
  <2>. DEFINE Beat == [pc : {"idle", "authenticated", "loaded"}, node : Nodes \cup {None},
                       late : BOOLEAN]
  <2>1. beat[b] \in Beat
    OBVIOUS
  <2>2. [beat[b] EXCEPT !.late = TRUE] \in Beat
    <3>. HIDE DEF TypeOK, Busy
    <3>. QED  BY <2>1, Zenon
  <2>3. beat' = [beat EXCEPT ![b] = [beat[b] EXCEPT !.late = TRUE]]
    BY <1>4 DEF HeartbeatDelayed
  <2>4. beat' \in [Beats -> Beat]
    <3>. HIDE DEF Beat
    <3>1. beat \in [Beats -> Beat]
      BY DEF Beat
    <3>. QED  BY <2>2, <2>3, <3>1, Zenon
  <2>5. Busy'
    BY <1>4 DEF HeartbeatDelayed
  <2>. QED  BY <1>4, <2>4, <2>5 DEF HeartbeatDelayed
<1>5. CASE HeartbeatDropped(b)
  BY <1>5 DEF HeartbeatDropped, IdleBeat
<1>. QED  BY <1>1, <1>2, <1>3, <1>4, <1>5

(* A new node row keeps the rows typed. *)
LEMMA CreateNodeTypes ==
  ASSUME TypeOK, NEW o \in Orgs, NEW n \in Nodes, NEW name \in Names \cup {None},
         CreateNode(o, n, name)
  PROVE  /\ nodeStatus' \in [Nodes -> {"absent", "OFFLINE", "ONLINE", "REVOKED"}]
         /\ nodeOrg' \in [Nodes -> Orgs \cup {None}]
         /\ nodeName' \in [Nodes -> Names \cup {None}]
         /\ silent' \subseteq Nodes
         /\ credential' \in [Nodes -> {"none", "ACTIVE", "REVOKED"}]
         /\ secret' \in [Nodes -> Tokens \cup {None}]
BY DEF TypeOK, CreateNode

(* An answer on its way keeps the answers typed. *)
LEMMA RespondTypes ==
  ASSUME TypeOK, NEW e \in Enrollments, NEW reply \in {"none", "202", "410"} \cup Tokens,
         Respond(e, reply)
  PROVE  answer' \in [Enrollments -> {"none", "202", "410"} \cup Tokens]
BY DEF TypeOK, Respond

(* Types, through approvals and claims of device codes. *)
LEMMA CodeStepTypes == TypeOK /\ Busy /\ CodeNext => TypeOK' /\ Busy'
<1> SUFFICES ASSUME TypeOK, Busy, NEW e \in Enrollments,
                    \/ \E o \in Orgs, n \in Nodes : ApproveDeviceEnrollment(o, e, n)
                    \/ \E t \in Tokens : GrantToken(e, t)
                    \/ RefuseToken(e)
                    \/ RepeatClaim(e)
                    \/ Expire(e)
             PROVE  TypeOK' /\ Busy'
  BY DEF CodeNext
<1> USE DEF codeVars, nodeVars, credentialVars, claimVars, hostVars
<1>1. CASE \E o \in Orgs, n \in Nodes : ApproveDeviceEnrollment(o, e, n)
  <2>1. PICK o \in Orgs, n \in Nodes : ApproveDeviceEnrollment(o, e, n)
    BY <1>1
  <2>2. CreateNode(o, n, codeName[e]) /\ codeName[e] \in Names \cup {None}
    BY <2>1 DEF ApproveDeviceEnrollment, TypeOK
  <2>. QED  BY <2>1, <2>2, CreateNodeTypes DEF ApproveDeviceEnrollment, TypeOK, Busy
<1>2. CASE \E t \in Tokens : GrantToken(e, t)
  <2>1. PICK t \in Tokens : GrantToken(e, t)
    BY <1>2
  <2>2. answer' \in [Enrollments -> {"none", "202", "410"} \cup Tokens]
    BY <2>1, RespondTypes DEF GrantToken
  <2>. QED  BY <2>1, <2>2 DEF GrantToken, TypeOK, Busy
<1>3. CASE RefuseToken(e)
  <2>1. answer' \in [Enrollments -> {"none", "202", "410"} \cup Tokens]
    BY <1>3, RespondTypes DEF RefuseToken
  <2>. QED  BY <1>3, <2>1 DEF RefuseToken, TypeOK, Busy
<1>4. CASE RepeatClaim(e)
  BY <1>4 DEF RepeatClaim, TypeOK, Busy
<1>5. CASE Expire(e)
  BY <1>5 DEF Expire, TypeOK, Busy
<1>. QED  BY <1>1, <1>2, <1>3, <1>4, <1>5

(* Types, through the reconciler's and the operators' steps. *)
LEMMA NodeStepTypes == TypeOK /\ Busy /\ NodeNext => TypeOK' /\ Busy'
<1> SUFFICES ASSUME TypeOK, Busy, NodeNext PROVE TypeOK' /\ Busy'
  OBVIOUS
<1> USE DEF codeVars, nodeVars, credentialVars, claimVars, hostVars
<1>1. CASE MarkStaleNodes
  BY <1>1 DEF MarkStaleNodes, TypeOK, Busy
<1>2. ASSUME NEW n \in Nodes, HeartbeatAges(n) PROVE TypeOK' /\ Busy'
  BY <1>2 DEF HeartbeatAges, TypeOK, Busy
<1>3. ASSUME NEW n \in Nodes, RevokeNode(n) PROVE TypeOK' /\ Busy'
  BY <1>3 DEF RevokeNode, TypeOK, Busy
<1>4. ASSUME NEW o \in Orgs, CreateLicense(o) PROVE TypeOK' /\ Busy'
  BY <1>4 DEF CreateLicense, TypeOK, Busy
<1>5. ASSUME NEW o \in Orgs, RevokeLicense(o) PROVE TypeOK' /\ Busy'
  BY <1>5 DEF RevokeLicense, TypeOK, Busy
<1>6. ASSUME NEW o \in Orgs, NEW n \in Nodes, NEW name \in Names, EnrollNode(o, n, name)
      PROVE  TypeOK' /\ Busy'
  BY <1>6, CreateNodeTypes DEF EnrollNode, TypeOK, Busy
<1>. QED  BY <1>1, <1>2, <1>3, <1>4, <1>5, <1>6 DEF NodeNext

(* Every step keeps every type. *)
LEMMA StepTypes == TypeOK /\ Busy /\ [Next]_vars => TypeOK' /\ Busy'
<1>1. TypeOK /\ Busy /\ UNCHANGED vars => TypeOK' /\ Busy'
  BY DEF TypeOK, Busy, vars, codeVars, nodeVars, credentialVars, claimVars, hostVars
<1>. QED  BY <1>1, AgentStepTypes, BeatStepTypes, CodeStepTypes, NodeStepTypes DEF Next

(* Every variable keeps its type: each row has one of the statuses the code gives it, and  *)
(* what a request or a host carries is a real code, node or token.                         *)
THEOREM TypeCorrect == Spec => []TypeOK
BY InitTypes, StepTypes, PTL DEF Spec

-------------------------------------------------------------------------------
(* The credential quota. *)

(* A node row and its credential are created together, an ACTIVE credential belongs to a   *)
(* node that counts against the quota, and a heartbeat is served for a node that exists.   *)
RowsTogether ==
  /\ \A n \in Nodes : credential[n] = "none" <=> nodeStatus[n] = "absent"
  /\ \A n \in Nodes : credential[n] = "ACTIVE" => nodeStatus[n] \in {"OFFLINE", "ONLINE"}
  /\ \A b \in Beats : beat[b].pc # "idle" => nodeStatus[beat[b].node] # "absent"

(* The steps that touch node rows, credentials or heartbeats. *)
LEMMA RowSteps ==
  ASSUME [Next]_vars
  PROVE  \/ UNCHANGED <<nodeStatus, nodeOrg, credential, beat>>
         \/ \E o \in Orgs, n \in Nodes : \E name : CreateNode(o, n, name) /\ UNCHANGED beat
         \/ \E n \in Nodes : RevokeNode(n)
         \/ MarkStaleNodes
         \/ BeatNext
<1> USE DEF nodeVars, credentialVars
<1>1. CASE UNCHANGED vars
  BY <1>1 DEF vars
<1>2. CASE AgentNext
  BY <1>2 DEF AgentNext, CreateDeviceCode, SendClaim, ReceiveAnswer, AbandonRegister,
              StartAgent, StopAgent
<1>3. CASE CodeNext
  BY <1>3 DEF CodeNext, ApproveDeviceEnrollment, GrantToken, RefuseToken, RepeatClaim, Expire
<1>4. CASE NodeNext
  BY <1>4 DEF NodeNext, HeartbeatAges, CreateLicense, RevokeLicense, EnrollNode
<1>. QED  BY <1>1, <1>2, <1>3, <1>4 DEF Next

(* Loading, delaying or dropping a heartbeat changes the node of none. *)
LEMMA HeartbeatKeepsNode ==
  ASSUME TypeOK, NEW b \in Beats,
         HeartbeatLoad(b) \/ HeartbeatDelayed(b) \/ HeartbeatDropped(b)
  PROVE  \A c \in Beats : beat'[c].pc # "idle" =>
           beat[c].pc # "idle" /\ beat'[c].node = beat[c].node
<1>1. beat[b].pc # "idle"
  BY DEF HeartbeatLoad, HeartbeatDelayed, HeartbeatDropped
<1>2. \A c \in Beats : c # b => beat'[c] = beat[c]
  BY DEF HeartbeatLoad, HeartbeatDelayed, HeartbeatDropped, TypeOK
<1>3. CASE HeartbeatLoad(b)
  BY <1>1, <1>2, <1>3 DEF HeartbeatLoad, IdleBeat, TypeOK
<1>4. CASE HeartbeatDelayed(b)
  <2>1. beat'[b] = [beat[b] EXCEPT !.late = TRUE]
    BY <1>4 DEF HeartbeatDelayed, TypeOK
  <2>2. beat'[b].node = beat[b].node
    BY <2>1 DEF TypeOK
  <2>. QED  BY <1>1, <1>2, <2>2
<1>5. CASE HeartbeatDropped(b)
  BY <1>2, <1>5 DEF HeartbeatDropped, IdleBeat, TypeOK
<1>. QED  BY <1>3, <1>4, <1>5

(* Every step keeps node rows and credentials in agreement. *)
LEMMA StepRowsTogether ==
  ASSUME TypeOK, Busy, RowsTogether, [Next]_vars
  PROVE  RowsTogether'
<1>1. CASE UNCHANGED <<nodeStatus, nodeOrg, credential, beat>>
  BY <1>1 DEF RowsTogether
<1>2. CASE \E o \in Orgs, n \in Nodes : \E name : CreateNode(o, n, name) /\ UNCHANGED beat
  <2>0. PICK o \in Orgs, n \in Nodes : \E name : CreateNode(o, n, name) /\ UNCHANGED beat
    BY <1>2
  <2>1. PICK name : CreateNode(o, n, name) /\ UNCHANGED beat
    BY <2>0
  <2>2. \A m \in Nodes : /\ nodeStatus'[m] = IF m = n THEN "OFFLINE" ELSE nodeStatus[m]
                         /\ credential'[m] = IF m = n THEN "ACTIVE" ELSE credential[m]
    BY <2>1 DEF CreateNode, TypeOK
  <2>. QED  BY <2>1, <2>2 DEF RowsTogether, Busy
<1>3. CASE \E n \in Nodes : RevokeNode(n)
  <2>1. PICK n \in Nodes : RevokeNode(n)
    BY <1>3
  <2>2. \A m \in Nodes : /\ nodeStatus'[m] = IF m = n THEN "REVOKED" ELSE nodeStatus[m]
                         /\ credential'[m] = IF m = n THEN "REVOKED" ELSE credential[m]
    BY <2>1 DEF RevokeNode, TypeOK
  <2>. QED  BY <2>1, <2>2 DEF RowsTogether, Busy, RevokeNode
<1>4. CASE MarkStaleNodes
  <2>1. \A m \in Nodes : nodeStatus'[m] = IF Stale(m) THEN "OFFLINE" ELSE nodeStatus[m]
    BY <1>4 DEF MarkStaleNodes
  <2>. QED  BY <1>4, <2>1 DEF MarkStaleNodes, Stale, RowsTogether, Busy, credentialVars
<1>5. CASE BeatNext
  <2>1. PICK b \in Beats :
           \/ \E a \in Agents, n \in Nodes : HeartbeatAuthenticate(b, a, n)
           \/ HeartbeatLoad(b)
           \/ HeartbeatSave(b)
           \/ HeartbeatDelayed(b)
           \/ HeartbeatDropped(b)
    BY <1>5 DEF BeatNext
  <2>2. CASE \E a \in Agents, n \in Nodes : HeartbeatAuthenticate(b, a, n)
    BY <2>2 DEF HeartbeatAuthenticate, Authenticates, RowsTogether, nodeVars, credentialVars,
                TypeOK
  <2>3. CASE HeartbeatSave(b)
    <3>1. beat[b].pc # "idle" /\ beat[b].node \in Nodes
      BY <2>3 DEF HeartbeatSave, Busy
    <3>2. \A m \in Nodes : nodeStatus'[m] = IF m = beat[b].node THEN "ONLINE" ELSE nodeStatus[m]
      BY <2>3 DEF HeartbeatSave, TypeOK
    <3>3. \A c \in Beats : beat'[c].pc # "idle" => beat'[c] = beat[c]
      BY <2>3 DEF HeartbeatSave, IdleBeat, TypeOK
    <3>4. UNCHANGED credential
      BY <2>3 DEF HeartbeatSave, credentialVars
    <3>. QED  BY <3>1, <3>2, <3>3, <3>4 DEF RowsTogether, Busy
  <2>4. CASE HeartbeatLoad(b) \/ HeartbeatDelayed(b) \/ HeartbeatDropped(b)
    <3>1. \A c \in Beats : beat'[c].pc # "idle" =>
             beat[c].pc # "idle" /\ beat'[c].node = beat[c].node
      BY <2>4, HeartbeatKeepsNode
    <3>2. UNCHANGED <<nodeStatus, credential>>
      BY <2>4 DEF HeartbeatLoad, HeartbeatDelayed, HeartbeatDropped, nodeVars, credentialVars
    <3>. QED  BY <3>1, <3>2 DEF RowsTogether
  <2>. QED  BY <2>1, <2>2, <2>3, <2>4
<1>. QED  BY <1>1, <1>2, <1>3, <1>4, <1>5, RowSteps

Active(o) == {n \in Nodes : nodeOrg[n] = o /\ credential[n] = "ACTIVE"}

(* The quota check counts at least the nodes whose credential is ACTIVE. *)
LEMMA ActiveOccupies ==
  ASSUME RowsTogether, NEW o
  PROVE  /\ IsFiniteSet(Active(o)) /\ IsFiniteSet(Occupying(o))
         /\ Cardinality(Active(o)) \in Nat /\ Cardinality(Occupying(o)) \in Nat
         /\ Cardinality(Active(o)) <= Cardinality(Occupying(o))
<1>1. Active(o) \in SUBSET Occupying(o) /\ Occupying(o) \in SUBSET Nodes
  BY DEF Active, Occupying, RowsTogether
<1>2. IsFiniteSet(Occupying(o))
  BY <1>1, FS_Subset, NodesAssumption
<1>3. IsFiniteSet(Active(o)) /\ Cardinality(Active(o)) <= Cardinality(Occupying(o))
  BY <1>1, <1>2, FS_Subset
<1>. QED  BY <1>2, <1>3, FS_CardinalityType

(* A node created under the quota leaves its credentials within it. *)
LEMMA CreateNodeKeepsQuota ==
  ASSUME TypeOK, RowsTogether, CredentialQuota,
         NEW o \in Orgs, NEW n \in Nodes, NEW name, CreateNode(o, n, name)
  PROVE  CredentialQuota'
<1> SUFFICES ASSUME NEW p \in Orgs PROVE Cardinality(Active(p)') <= MaxNodes[p]
  BY DEF CredentialQuota, Active
<1>1. credential[n] # "ACTIVE"
  BY DEF CreateNode, RowsTogether
<1>2. CASE p = o
  <2>1. Active(p)' = Active(p) \cup {n}
    BY <1>1, <1>2 DEF CreateNode, Active, TypeOK
  <2>2. n \notin Active(p)
    BY <1>1 DEF Active
  <2>3. Cardinality(Active(p) \cup {n}) = Cardinality(Active(p)) + 1
    BY <2>2, ActiveOccupies, FS_AddElement
  <2>4. Cardinality(Occupying(p)) < MaxNodes[p] /\ MaxNodes[p] \in Nat
    BY <1>2, QuotaAssumption DEF CreateNode
  <2>. QED  BY <2>1, <2>3, <2>4, ActiveOccupies
<1>3. CASE p # o
  <2>1. Active(p)' = Active(p)
    BY <1>1, <1>3 DEF CreateNode, Active, TypeOK
  <2>. QED  BY <2>1 DEF CredentialQuota, Active
<1>. QED  BY <1>2, <1>3

(* Every step keeps the credential quota. *)
LEMMA StepCredentialQuota ==
  ASSUME TypeOK, RowsTogether, CredentialQuota, [Next]_vars
  PROVE  CredentialQuota'
<1>1. CASE UNCHANGED <<nodeOrg, credential>>
  BY <1>1 DEF CredentialQuota
<1>2. CASE \E o \in Orgs, n \in Nodes : \E name : CreateNode(o, n, name) /\ UNCHANGED beat
  BY <1>2, CreateNodeKeepsQuota
<1>3. CASE \E n \in Nodes : RevokeNode(n)
  <2>1. \A m \in Nodes : nodeOrg'[m] = nodeOrg[m]
                         /\ (credential'[m] = "ACTIVE" => credential[m] = "ACTIVE")
    BY <1>3 DEF RevokeNode, TypeOK
  <2>2. SUFFICES ASSUME NEW o \in Orgs PROVE Cardinality(Active(o)') <= MaxNodes[o]
    BY DEF CredentialQuota, Active
  <2>3. Active(o)' \in SUBSET Active(o)
    BY <2>1 DEF Active
  <2>4. Cardinality(Active(o)') <= Cardinality(Active(o)) /\ Cardinality(Active(o)') \in Nat
    BY <2>3, ActiveOccupies, FS_Subset, FS_CardinalityType
  <2>5. Cardinality(Active(o)) <= MaxNodes[o] /\ MaxNodes[o] \in Nat
    BY QuotaAssumption DEF CredentialQuota, Active
  <2>. QED  BY <2>4, <2>5, ActiveOccupies
<1>4. CASE MarkStaleNodes
  BY <1>4, <1>1 DEF MarkStaleNodes, credentialVars
<1>5. CASE BeatNext
  BY <1>5, <1>1 DEF BeatNext, HeartbeatAuthenticate, HeartbeatLoad, HeartbeatSave,
                    HeartbeatDelayed, HeartbeatDropped, nodeVars, credentialVars
<1>. QED  BY <1>1, <1>2, <1>3, <1>4, <1>5, RowSteps

(* No row and no credential at the start. *)
LEMMA InitRows == Init => RowsTogether /\ CredentialQuota
<1> SUFFICES ASSUME Init PROVE RowsTogether /\ CredentialQuota
  OBVIOUS
<1>1. RowsTogether
  BY DEF Init, RowsTogether, IdleBeat
<1>2. \A o : {n \in Nodes : nodeOrg[n] = o /\ credential[n] = "ACTIVE"} = {}
  BY DEF Init
<1>. QED  BY <1>1, <1>2, FS_EmptySet, QuotaAssumption DEF CredentialQuota

(* No organization ever holds more ACTIVE node credentials than its plan allows, for any   *)
(* quota and any number of approvals, enrolments, revocations and heartbeats in progress.  *)
THEOREM CredentialQuotaHolds == Spec => []CredentialQuota
<1> DEFINE I == TypeOK /\ Busy /\ RowsTogether /\ CredentialQuota
<1>1. Init => I
  BY InitTypes, InitRows
<1>2. I /\ [Next]_vars => I'
  BY StepTypes, StepRowsTogether, StepCredentialQuota
<1>. QED  BY <1>1, <1>2, PTL DEF Spec

-------------------------------------------------------------------------------
(* Codes, nodes and secrets. *)

(* A code has a node exactly once it is approved, and a node of its own. *)
CodesLinked ==
  /\ \A e \in Enrollments : codeStatus[e] \in {"APPROVED", "CLAIMED"} <=> codeNode[e] # None
  /\ \A e \in Enrollments : codeNode[e] # None => nodeStatus[codeNode[e]] # "absent"
  /\ \A e, f \in Enrollments : codeNode[e] = codeNode[f] /\ codeNode[e] # None => e = f

Claimed(n) == \E e \in Enrollments : codeStatus[e] = "CLAIMED" /\ codeNode[e] = n

SecretsClaimed == \A n \in Nodes : secret[n] # None => Claimed(n)

(* The steps that touch codes or secrets. *)
LEMMA CodeSteps ==
  ASSUME [Next]_vars
  PROVE  \/ UNCHANGED <<codeStatus, codeNode, secret>>
         \/ \E a \in Agents, e \in Enrollments : CreateDeviceCode(a, e)
         \/ \E o \in Orgs, e \in Enrollments, n \in Nodes : ApproveDeviceEnrollment(o, e, n)
         \/ \E e \in Enrollments, t \in Tokens : GrantToken(e, t)
<1> USE DEF codeVars, credentialVars
<1>1. CASE UNCHANGED vars
  BY <1>1 DEF vars
<1>2. CASE AgentNext
  BY <1>2 DEF AgentNext, SendClaim, ReceiveAnswer, AbandonRegister, StartAgent, StopAgent
<1>3. CASE BeatNext
  BY <1>3 DEF BeatNext, HeartbeatAuthenticate, HeartbeatLoad, HeartbeatSave,
              HeartbeatDelayed, HeartbeatDropped
<1>4. CASE CodeNext
  BY <1>4 DEF CodeNext, RefuseToken, RepeatClaim, Expire
<1>5. CASE NodeNext
  BY <1>5 DEF NodeNext, MarkStaleNodes, HeartbeatAges, RevokeNode, CreateLicense,
              RevokeLicense, EnrollNode, CreateNode
<1>. QED  BY <1>1, <1>2, <1>3, <1>4, <1>5 DEF Next

(* No step deletes a node row. *)
LEMMA NodesStay ==
  ASSUME TypeOK, Busy, [Next]_vars, NEW n \in Nodes, nodeStatus[n] # "absent"
  PROVE  nodeStatus'[n] # "absent"
<1>1. CASE \E o \in Orgs, m \in Nodes : \E name : CreateNode(o, m, name)
  BY <1>1 DEF CreateNode, TypeOK
<1>2. CASE \E m \in Nodes : RevokeNode(m)
  BY <1>2 DEF RevokeNode, TypeOK
<1>3. CASE MarkStaleNodes
  BY <1>3 DEF MarkStaleNodes, TypeOK
<1>4. CASE BeatNext
  <2>1. CASE \E b \in Beats : HeartbeatSave(b)
    BY <2>1 DEF HeartbeatSave, TypeOK, Busy
  <2>. QED  BY <1>4, <2>1 DEF BeatNext, HeartbeatAuthenticate, HeartbeatLoad,
                              HeartbeatDelayed, HeartbeatDropped, nodeVars
<1>. QED  BY <1>1, <1>2, <1>3, <1>4, RowSteps

(* Every step keeps each code with the node it was approved for. *)
LEMMA StepCodesLinked ==
  ASSUME TypeOK, Busy, CodesLinked, [Next]_vars
  PROVE  CodesLinked'
<1>1. CASE UNCHANGED <<codeStatus, codeNode, secret>>
  BY <1>1, NodesStay DEF CodesLinked, TypeOK
<1>2. CASE \E a \in Agents, e \in Enrollments : CreateDeviceCode(a, e)
  <2>1. PICK a \in Agents, e \in Enrollments : CreateDeviceCode(a, e)
    BY <1>2
  <2>2. /\ \A f \in Enrollments : codeStatus'[f] = IF f = e THEN "PENDING" ELSE codeStatus[f]
        /\ codeStatus[e] = "unused"
        /\ UNCHANGED <<codeNode, nodeStatus>>
    BY <2>1 DEF CreateDeviceCode, nodeVars, TypeOK
  <2>. QED  BY <2>2 DEF CodesLinked
<1>3. CASE \E o \in Orgs, e \in Enrollments, n \in Nodes : ApproveDeviceEnrollment(o, e, n)
  <2>1. PICK o \in Orgs, e \in Enrollments, n \in Nodes : ApproveDeviceEnrollment(o, e, n)
    BY <1>3
  <2>2. /\ \A f \in Enrollments :
             /\ codeStatus'[f] = IF f = e THEN "APPROVED" ELSE codeStatus[f]
             /\ codeNode'[f] = IF f = e THEN n ELSE codeNode[f]
        /\ nodeStatus[n] = "absent"
        /\ nodeStatus'[n] = "OFFLINE"
    BY <2>1 DEF ApproveDeviceEnrollment, CreateNode, TypeOK
  <2>3. \A f \in Enrollments : codeNode[f] # None => codeNode[f] \in Nodes /\ codeNode[f] # n
    BY <2>2 DEF CodesLinked, TypeOK
  <2>4. \A f \in Enrollments : codeNode[f] # None => nodeStatus'[codeNode[f]] # "absent"
    BY <2>3, NodesStay DEF CodesLinked
  <2>5. n # None
    BY NoneAssumption
  <2>. QED  BY <2>2, <2>3, <2>4, <2>5 DEF CodesLinked
<1>4. CASE \E e \in Enrollments, t \in Tokens : GrantToken(e, t)
  <2>1. PICK e \in Enrollments, t \in Tokens : GrantToken(e, t)
    BY <1>4
  <2>2. /\ \A f \in Enrollments : codeStatus'[f] = IF f = e THEN "CLAIMED" ELSE codeStatus[f]
        /\ codeStatus[e] = "APPROVED"
        /\ UNCHANGED <<codeNode, nodeStatus>>
    BY <2>1 DEF GrantToken, CanGrant, nodeVars, TypeOK
  <2>. QED  BY <2>2 DEF CodesLinked
<1>. QED  BY <1>1, <1>2, <1>3, <1>4, CodeSteps

(* A claim stands, a secret is never replaced, and every new secret is a claim's. *)
LEMMA ClaimsStand ==
  ASSUME TypeOK, CodesLinked, SecretsClaimed, [Next]_vars
  PROVE  /\ \A n \in Nodes : Claimed(n) => Claimed(n)'
         /\ \A n \in Nodes : secret[n] # None => secret'[n] = secret[n]
         /\ \A n \in Nodes : secret'[n] # None => secret[n] # None \/ Claimed(n)'
<1>1. CASE UNCHANGED <<codeStatus, codeNode, secret>>
  BY <1>1 DEF Claimed
<1>2. CASE \E a \in Agents, e \in Enrollments : CreateDeviceCode(a, e)
  <2>1. /\ UNCHANGED <<codeNode, secret>>
        /\ \A f \in Enrollments : codeStatus[f] = "CLAIMED" => codeStatus'[f] = "CLAIMED"
    BY <1>2 DEF CreateDeviceCode, credentialVars, TypeOK
  <2>. QED  BY <2>1 DEF Claimed
<1>3. CASE \E o \in Orgs, e \in Enrollments, n \in Nodes : ApproveDeviceEnrollment(o, e, n)
  <2>1. /\ UNCHANGED secret
        /\ \A f \in Enrollments : codeStatus[f] = "CLAIMED" =>
             codeStatus'[f] = "CLAIMED" /\ codeNode'[f] = codeNode[f]
    BY <1>3 DEF ApproveDeviceEnrollment, CreateNode, TypeOK
  <2>. QED  BY <2>1 DEF Claimed
<1>4. CASE \E e \in Enrollments, t \in Tokens : GrantToken(e, t)
  <2>1. PICK e \in Enrollments, t \in Tokens : GrantToken(e, t)
    BY <1>4
  <2>2. codeStatus[e] = "APPROVED" /\ codeNode[e] \in Nodes
    BY <2>1 DEF GrantToken, CanGrant, CodesLinked, TypeOK
  <2>3. /\ UNCHANGED codeNode
        /\ \A f \in Enrollments : codeStatus'[f] = IF f = e THEN "CLAIMED" ELSE codeStatus[f]
        /\ \A n \in Nodes : secret'[n] = IF n = codeNode[e] THEN t ELSE secret[n]
    BY <2>1, <2>2 DEF GrantToken, TypeOK
  <2>4. ~Claimed(codeNode[e])
    BY <2>2, NoneAssumption DEF Claimed, CodesLinked
  <2>5. secret[codeNode[e]] = None
    BY <2>2, <2>4 DEF SecretsClaimed
  <2>. QED  BY <2>2, <2>3, <2>5 DEF Claimed
<1>. QED  BY <1>1, <1>2, <1>3, <1>4, CodeSteps

(* After every step, a node with a secret was claimed. *)
LEMMA StepSecretsClaimed ==
  ASSUME TypeOK, CodesLinked, SecretsClaimed, [Next]_vars
  PROVE  SecretsClaimed'
<1> SUFFICES ASSUME NEW n \in Nodes, secret'[n] # None PROVE Claimed(n)'
  BY DEF SecretsClaimed, Claimed
<1>. QED  BY ClaimsStand DEF SecretsClaimed

-------------------------------------------------------------------------------
(* Only claimed nodes are ONLINE. *)

BeatsClaimed == \A b \in Beats : beat[b].pc # "idle" => Claimed(beat[b].node)

(* A node that reports was claimed: only a secret authenticates. *)
LEMMA StepOnlineClaimed ==
  ASSUME TypeOK, Busy, CodesLinked, SecretsClaimed, BeatsClaimed, OnlineNodesWereClaimed,
         [Next]_vars
  PROVE  OnlineNodesWereClaimed' /\ BeatsClaimed'
<1>1. \A n \in Nodes : Claimed(n) => Claimed(n)'
  BY ClaimsStand
<1>2. SUFFICES /\ \A n \in Nodes : nodeStatus'[n] = "ONLINE" => Claimed(n)
               /\ \A b \in Beats : beat'[b].pc # "idle" => Claimed(beat'[b].node)
                                                           /\ beat'[b].node \in Nodes
  BY <1>1 DEF OnlineNodesWereClaimed, BeatsClaimed, Claimed
<1>3. /\ \A n \in Nodes : nodeStatus[n] = "ONLINE" => Claimed(n)
      /\ \A b \in Beats : beat[b].pc # "idle" => Claimed(beat[b].node)
                                                 /\ beat[b].node \in Nodes
  BY DEF OnlineNodesWereClaimed, Claimed, BeatsClaimed, Busy
<1>4. CASE UNCHANGED <<nodeStatus, beat>>
  BY <1>3, <1>4
<1>5. CASE \E o \in Orgs, n \in Nodes : \E name : CreateNode(o, n, name) /\ UNCHANGED beat
  BY <1>3, <1>5 DEF CreateNode, TypeOK
<1>6. CASE \E n \in Nodes : RevokeNode(n)
  BY <1>3, <1>6 DEF RevokeNode, TypeOK
<1>7. CASE MarkStaleNodes
  BY <1>3, <1>7 DEF MarkStaleNodes, TypeOK
<1>8. CASE BeatNext
  <2>1. PICK b \in Beats :
           \/ \E a \in Agents, n \in Nodes : HeartbeatAuthenticate(b, a, n)
           \/ HeartbeatLoad(b)
           \/ HeartbeatSave(b)
           \/ HeartbeatDelayed(b)
           \/ HeartbeatDropped(b)
    BY <1>8 DEF BeatNext
  <2>2. CASE \E a \in Agents, n \in Nodes : HeartbeatAuthenticate(b, a, n)
    <3>1. PICK a \in Agents, n \in Nodes : HeartbeatAuthenticate(b, a, n)
      BY <2>2
    <3>2. Claimed(n)
      BY <3>1 DEF HeartbeatAuthenticate, Authenticates, SecretsClaimed
    <3>3. /\ UNCHANGED nodeStatus
          /\ \A c \in Beats : beat'[c] = IF c = b THEN [pc |-> "authenticated", node |-> n,
                                                        late |-> FALSE]
                                                  ELSE beat[c]
      BY <3>1 DEF HeartbeatAuthenticate, nodeVars, TypeOK
    <3>. QED  BY <1>3, <3>2, <3>3
  <2>3. CASE HeartbeatSave(b)
    <3>1. beat[b].pc # "idle"
      BY <2>3 DEF HeartbeatSave
    <3>2. /\ \A n \in Nodes : nodeStatus'[n] = IF n = beat[b].node THEN "ONLINE"
                                               ELSE nodeStatus[n]
          /\ \A c \in Beats : beat'[c].pc # "idle" => beat'[c] = beat[c]
      BY <2>3 DEF HeartbeatSave, IdleBeat, TypeOK
    <3>. QED  BY <1>3, <3>1, <3>2
  <2>4. CASE HeartbeatLoad(b) \/ HeartbeatDelayed(b) \/ HeartbeatDropped(b)
    BY <1>3, <2>4, HeartbeatKeepsNode
      DEF HeartbeatLoad, HeartbeatDelayed, HeartbeatDropped, nodeVars
  <2>. QED  BY <2>1, <2>2, <2>3, <2>4
<1>. QED  BY <1>4, <1>5, <1>6, <1>7, <1>8, RowSteps

-------------------------------------------------------------------------------
(* Delivered tokens. *)

Delivered(t) ==
  \E e \in Enrollments :
    /\ codeStatus[e] = "CLAIMED"
    /\ codeNode[e] # None
    /\ secret[codeNode[e]] = t

AnswersDelivered == \A e \in Enrollments : answer[e] \in Tokens => Delivered(answer[e])

(* The steps that touch answers or what a host has saved. *)
LEMMA AnswerSteps ==
  ASSUME [Next]_vars
  PROVE  \/ UNCHANGED <<answer, saved>>
         \/ \E a \in Agents : ReceiveAnswer(a) \/ AbandonRegister(a)
         \/ \E e \in Enrollments : RefuseToken(e) \/ \E t \in Tokens : GrantToken(e, t)
<1> USE DEF claimVars, hostVars
<1>1. CASE UNCHANGED vars
  BY <1>1 DEF vars
<1>2. CASE AgentNext
  BY <1>2 DEF AgentNext, CreateDeviceCode, SendClaim, StartAgent, StopAgent
<1>3. CASE BeatNext
  BY <1>3 DEF BeatNext, HeartbeatAuthenticate, HeartbeatLoad, HeartbeatSave,
              HeartbeatDelayed, HeartbeatDropped
<1>4. CASE CodeNext
  BY <1>4 DEF CodeNext, ApproveDeviceEnrollment, RepeatClaim, Expire
<1>5. CASE NodeNext
  BY <1>5 DEF NodeNext, MarkStaleNodes, HeartbeatAges, RevokeNode, CreateLicense,
              RevokeLicense, EnrollNode
<1>. QED  BY <1>1, <1>2, <1>3, <1>4, <1>5 DEF Next

(* A token that was delivered stays the secret of its node. *)
LEMMA DeliveredStays ==
  ASSUME TypeOK, CodesLinked, SecretsClaimed, [Next]_vars,
         NEW t \in Tokens, Delivered(t)
  PROVE  Delivered(t)'
<1>1. PICK e \in Enrollments : codeStatus[e] = "CLAIMED" /\ codeNode[e] # None
                               /\ secret[codeNode[e]] = t
  BY DEF Delivered
<1>2. /\ codeNode[e] \in Nodes
      /\ t # None
  BY <1>1, NoneAssumption DEF TypeOK
<1>3. secret'[codeNode[e]] = t
  BY <1>1, <1>2, ClaimsStand
<1>4. PICK f \in Enrollments : codeStatus'[f] = "CLAIMED" /\ codeNode'[f] = codeNode[e]
  BY <1>1, <1>2, ClaimsStand DEF Claimed
<1>. QED  BY <1>1, <1>3, <1>4 DEF Delivered

(* Every step keeps the delivered tokens. *)
LEMMA StepDelivered ==
  ASSUME TypeOK, Busy, CodesLinked, SecretsClaimed, AnswersDelivered, DeliveredTokenStands,
         [Next]_vars
  PROVE  DeliveredTokenStands' /\ AnswersDelivered'
<1>1. SUFFICES /\ \A a \in Agents, t \in Tokens : saved'[a] = t => Delivered(t)'
               /\ \A e \in Enrollments, t \in Tokens : answer'[e] = t => Delivered(t)'
  <2>1. \A a \in Agents : saved'[a] \in Tokens \cup {None}
    BY StepTypes DEF TypeOK
  <2>. QED  BY <2>1 DEF DeliveredTokenStands, AnswersDelivered, Delivered
<1>2. /\ \A a \in Agents, t \in Tokens : saved[a] = t => Delivered(t)'
      /\ \A e \in Enrollments, t \in Tokens : answer[e] = t => Delivered(t)'
  <2>1. /\ \A a \in Agents, t \in Tokens : saved[a] = t => Delivered(t)
        /\ \A e \in Enrollments, t \in Tokens : answer[e] = t => Delivered(t)
    BY NoneAssumption DEF DeliveredTokenStands, AnswersDelivered, Delivered
  <2>. QED  BY <2>1, DeliveredStays
<1>3. "none" \notin Tokens /\ "202" \notin Tokens /\ "410" \notin Tokens
  BY AnswersAssumption
<1>4. CASE UNCHANGED <<answer, saved>>
  BY <1>2, <1>4
<1>5. CASE \E a \in Agents : ReceiveAnswer(a) \/ AbandonRegister(a)
  <2>1. PICK a \in Agents : ReceiveAnswer(a) \/ AbandonRegister(a)
    BY <1>5
  <2>2. register[a].code \in Enrollments
    BY <2>1 DEF ReceiveAnswer, AbandonRegister, Busy
  <2>3. \A e \in Enrollments : answer'[e] \in {answer[e], "none"}
    BY <2>1, <2>2 DEF ReceiveAnswer, AbandonRegister, TypeOK
  <2>4. \A c \in Agents :
           \/ saved'[c] = saved[c]
           \/ answer[register[a].code] \in Tokens /\ saved'[c] = answer[register[a].code]
    BY <2>1 DEF ReceiveAnswer, AbandonRegister, TypeOK
  <2>. QED  BY <1>2, <1>3, <2>2, <2>3, <2>4
<1>6. CASE \E e \in Enrollments : RefuseToken(e)
  <2>1. /\ UNCHANGED saved
        /\ \A e \in Enrollments : answer'[e] \in {answer[e], "none", "202", "410"}
    BY <1>6 DEF RefuseToken, Respond, hostVars, TypeOK
  <2>. QED  BY <1>2, <1>3, <2>1
<1>7. CASE \E e \in Enrollments, t \in Tokens : GrantToken(e, t)
  <2>1. PICK e \in Enrollments, t \in Tokens : GrantToken(e, t)
    BY <1>7
  <2>2. /\ UNCHANGED saved
        /\ \A f \in Enrollments : answer'[f] \in {answer[f], "none", t}
    BY <2>1 DEF GrantToken, Respond, hostVars, TypeOK
  <2>3. codeNode[e] # None /\ codeNode[e] \in Nodes
    BY <2>1 DEF GrantToken, CanGrant, CodesLinked, TypeOK
  <2>4. codeStatus'[e] = "CLAIMED" /\ codeNode' = codeNode /\ secret'[codeNode[e]] = t
    BY <2>1, <2>3 DEF GrantToken, TypeOK
  <2>5. Delivered(t)'
    BY <2>3, <2>4 DEF Delivered
  <2>. QED  BY <1>2, <1>3, <2>2, <2>5
<1>. QED  BY <1>4, <1>5, <1>6, <1>7, AnswerSteps

-------------------------------------------------------------------------------
(* The inductive invariant, and what follows from it. *)

IInv ==
  /\ TypeOK
  /\ Busy
  /\ RowsTogether
  /\ CredentialQuota
  /\ CodesLinked
  /\ SecretsClaimed
  /\ OnlineNodesWereClaimed
  /\ BeatsClaimed
  /\ DeliveredTokenStands
  /\ AnswersDelivered

(* The first state satisfies the inductive invariant. *)
LEMMA InitIInv == Init => IInv
<1> SUFFICES ASSUME Init PROVE IInv
  OBVIOUS
<1>1. TypeOK /\ Busy /\ RowsTogether /\ CredentialQuota
  BY InitTypes, InitRows
<1>2. CodesLinked /\ SecretsClaimed /\ OnlineNodesWereClaimed /\ BeatsClaimed
  BY DEF Init, CodesLinked, SecretsClaimed, OnlineNodesWereClaimed, BeatsClaimed, IdleBeat
<1>3. DeliveredTokenStands /\ AnswersDelivered
  BY AnswersAssumption DEF Init, DeliveredTokenStands, AnswersDelivered
<1>. QED  BY <1>1, <1>2, <1>3 DEF IInv

(* Every step keeps the inductive invariant. *)
LEMMA StepIInv == IInv /\ [Next]_vars => IInv'
<1> SUFFICES ASSUME IInv, [Next]_vars PROVE IInv'
  OBVIOUS
<1> USE DEF IInv
<1>1. TypeOK' /\ Busy'
  BY StepTypes
<1>2. RowsTogether' /\ CredentialQuota'
  BY StepRowsTogether, StepCredentialQuota
<1>3. CodesLinked' /\ SecretsClaimed'
  BY StepCodesLinked, StepSecretsClaimed
<1>4. OnlineNodesWereClaimed' /\ BeatsClaimed'
  BY StepOnlineClaimed
<1>5. DeliveredTokenStands' /\ AnswersDelivered'
  BY StepDelivered
<1>. QED  BY <1>1, <1>2, <1>3, <1>4, <1>5

(* The conjunction of the properties of enrolment and of the facts about requests and hosts  *)
(* in progress that make it inductive.                                                     *)
THEOREM Invariance == Spec => []IInv
BY InitIInv, StepIInv, PTL DEF Spec

(* Only a node whose device code was approved and claimed is ever ONLINE, whatever         *)
(* heartbeats, revocations and licence enrolments run into each other.                     *)
THEOREM OnlineNodesWereClaimedHolds == Spec => []OnlineNodesWereClaimed
<1>1. IInv => OnlineNodesWereClaimed
  BY DEF IInv
<1>. QED  BY <1>1, Invariance, PTL

(* The token on a host's disk is, for ever, the one its node's credential is checked       *)
(* against: repeated claims, lost answers and new registrations never replace it.          *)
THEOREM DeliveredTokenStandsHolds == Spec => []DeliveredTokenStands
<1>1. IInv => DeliveredTokenStands
  BY DEF IInv
<1>. QED  BY <1>1, Invariance, PTL

-------------------------------------------------------------------------------
(* The refinement of CredentialLedger. *)

Stage == [n \in Nodes |-> IF credential[n] = "ACTIVE" THEN "granted"
                          ELSE IF credential[n] = "REVOKED" THEN "revoked" ELSE "free"]

(* The first state is a first state of the ledger. *)
LEMMA InitLedger == Init => Ledger!LedgerInit
BY DEF Init, Ledger!LedgerInit

(* Every step is a step of the ledger, or changes nothing of it. *)
LEMMA StepLedger ==
  ASSUME IInv, [Next]_vars
  PROVE  [Ledger!LedgerNext]_(Ledger!ledgerVars)
<1> USE DEF IInv
<1>1. CASE UNCHANGED <<nodeOrg, credential, secret>>
  BY <1>1 DEF Ledger!ledgerVars
<1>2. CASE \E o \in Orgs, n \in Nodes : \E name : CreateNode(o, n, name)
  <2>0. PICK o \in Orgs, n \in Nodes : \E name : CreateNode(o, n, name)
    BY <1>2
  <2>1. PICK name : CreateNode(o, n, name)
    BY <2>0
  <2>2. Stage[n] = "free" /\ Stage' = [Stage EXCEPT ![n] = "granted"]
    BY <2>1 DEF CreateNode, RowsTogether, Stage, TypeOK
  <2>3. Ledger!Held(o) = Active(o)
    BY DEF Ledger!Held, Active
  <2>4. Cardinality(Active(o)) < MaxNodes[o]
    BY <2>1, ActiveOccupies, QuotaAssumption DEF CreateNode
  <2>5. nodeOrg' = [nodeOrg EXCEPT ![n] = o] /\ UNCHANGED secret
    BY <2>1 DEF CreateNode
  <2>6. Ledger!Grant(o, n)
    <3>1. Ledger!Cardinality(Ledger!Held(o)) = Cardinality(Active(o))
      BY <2>3, Zenon DEF Ledger!Cardinality, Cardinality
    <3>. QED  BY <2>2, <2>4, <2>5, <3>1 DEF Ledger!Grant, Stage
  <2>. QED  BY <2>6 DEF Ledger!LedgerNext
<1>3. CASE \E n \in Nodes : RevokeNode(n)
  <2>1. PICK n \in Nodes : RevokeNode(n)
    BY <1>3
  <2>2. credential[n] \in {"ACTIVE", "REVOKED"}
    BY <2>1 DEF RevokeNode, RowsTogether, TypeOK
  <2>3. UNCHANGED <<nodeOrg, secret>>
    BY <2>1 DEF RevokeNode
  <2>4. CASE credential[n] = "REVOKED"
    BY <1>1, <2>1, <2>3, <2>4 DEF RevokeNode, TypeOK
  <2>5. CASE credential[n] = "ACTIVE"
    <3>1. Stage[n] = "granted" /\ Stage' = [Stage EXCEPT ![n] = "revoked"]
      BY <2>1, <2>5 DEF RevokeNode, Stage, TypeOK
    <3>2. Ledger!RevokeGrant(n)
      BY <2>3, <3>1 DEF Ledger!RevokeGrant, Stage
    <3>. QED  BY <3>2 DEF Ledger!LedgerNext
  <2>. QED  BY <2>2, <2>4, <2>5
<1>4. CASE \E e \in Enrollments, t \in Tokens : GrantToken(e, t)
  <2>1. PICK e \in Enrollments, t \in Tokens : GrantToken(e, t)
    BY <1>4
  <2>2. codeNode[e] \in Nodes /\ ~Claimed(codeNode[e])
    BY <2>1, NoneAssumption DEF GrantToken, CanGrant, CodesLinked, Claimed, TypeOK
  <2>3. secret[codeNode[e]] = None /\ Stage[codeNode[e]] = "granted"
    BY <2>1, <2>2 DEF GrantToken, CanGrant, SecretsClaimed, Stage
  <2>4. \A n \in Nodes : secret[n] # t
    BY <2>1 DEF GrantToken, Spent
  <2>5. secret' = [secret EXCEPT ![codeNode[e]] = t] /\ UNCHANGED <<nodeOrg, credential>>
    BY <2>1 DEF GrantToken, nodeVars
  <2>6. Ledger!Arm(codeNode[e], t)
    BY <2>3, <2>4, <2>5 DEF Ledger!Arm, Stage
  <2>. QED  BY <2>2, <2>6 DEF Ledger!LedgerNext
<1>5. CASE UNCHANGED secret /\ (MarkStaleNodes \/ BeatNext)
  BY <1>1, <1>5 DEF MarkStaleNodes, BeatNext, HeartbeatAuthenticate, HeartbeatLoad,
                    HeartbeatSave, HeartbeatDelayed, HeartbeatDropped, nodeVars,
                    credentialVars
<1>6. \/ UNCHANGED secret
      \/ \E e \in Enrollments, t \in Tokens : GrantToken(e, t)
  BY CodeSteps DEF CreateDeviceCode, ApproveDeviceEnrollment, CreateNode, credentialVars
<1>. QED  BY <1>1, <1>2, <1>3, <1>4, <1>5, <1>6, RowSteps

(* Node enrolment implements the ledger: credentials are granted within the quota, armed   *)
(* with one fresh secret at most once and while they stand, and revoked for good.          *)
THEOREM LedgerImplemented == Spec => ImplementsLedger
BY InitLedger, StepLedger, Invariance, PTL DEF Spec, ImplementsLedger, Ledger!LedgerSpec
===============================================================================
