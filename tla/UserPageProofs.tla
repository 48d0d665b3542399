---------------------------- MODULE UserPageProofs ----------------------------
(***************************************************************************)
(* Proofs about the user's pages for any rows, names and handlers under    *)
(* way, and the types of the whole console.  The inductive invariant,      *)
(* UserIInv, adds that no creation of a licence is under way beside a key  *)
(* that is shown; a second one, CatchesUp, says which handler will make    *)
(* what the page shows true again.                                         *)
(***************************************************************************)
EXTENDS StaffPageProofs, AuthPagesProofs

(* A creation of a licence. *)
LicenseAdd(f) == flows[f].op = "add" /\ flows[f].row \in Licenses

(* One creation at a time, and none beside the dialog of the last. *)
OneLicenseAdd ==
  ~twice =>
    /\ \A f, g \in Flows : LicenseAdd(f) /\ LicenseAdd(g) => f = g
    /\ "license" \in dialogs => \A f \in Flows : ~LicenseAdd(f)

UserIInv == UserTypeOK /\ CommandNamesNode /\ OneLicenseAdd

-------------------------------------------------------------------------------
(* Types. *)

(* The flows that a handler may go on with. *)
LEMMA UserFlowKinds ==
  /\ NoFlow \in UserFlows /\ NoFlow.op = "none"
  /\ [op |-> "load"] \in UserFlows
  /\ \A s \in States : [op |-> "draw", seen |-> s] \in UserFlows
  /\ \A r \in Rows : /\ [op |-> "add", row |-> r, answer |-> "none"] \in UserFlows
                     /\ [op |-> "revoke", row |-> r, answer |-> "none"] \in UserFlows
  /\ \A name \in Usernames :
       [op |-> "profile", username |-> name, answer |-> "none"] \in UserFlows
BY DEF UserFlows, NoFlow

(* What a flow of each kind carries. *)
LEMMA UserFlowFields ==
  ASSUME NEW flow \in UserFlows
  PROVE  /\ flow.op = "draw" => flow.seen \in States
         /\ flow.op \in {"add", "revoke"} => flow.row \in Rows
         /\ flow.op = "profile" => flow.username \in Usernames
BY DEF UserFlows, NoFlow

(* A flow that is answered stays what it is. *)
LEMMA AnsweredTyped ==
  ASSUME NEW flow \in UserFlows, flow.op \in {"add", "revoke", "profile"},
         NEW a \in {"ok", "refused"}
  PROVE  LET answered == [flow EXCEPT !.answer = a] IN
         /\ answered \in UserFlows
         /\ answered.op = flow.op
         /\ flow.op = "add" => answered.row = flow.row
<1>1. CASE flow \in [op : {"add", "revoke"}, row : Rows, answer : {"none", "ok", "refused"}]
  BY <1>1 DEF UserFlows
<1>2. CASE flow \in [op : {"profile"}, username : Usernames, answer : {"none", "ok", "refused"}]
  BY <1>2 DEF UserFlows
<1>. QED  BY <1>1, <1>2 DEF UserFlows, NoFlow

(* One flow goes on, the others stay. *)
LEMMA TurnsTyped ==
  ASSUME flows \in [Flows -> UserFlows], NEW f \in Flows, NEW flow \in UserFlows, Turns(f, flow)
  PROVE  /\ flows' \in [Flows -> UserFlows]
         /\ flows'[f] = flow
         /\ \A g \in Flows : g # f => flows'[g] = flows[g]
BY DEF Turns

(* What the server does to a row or to the username keeps its state typed. *)
LEMMA StateTyped ==
  ASSUME NEW s \in States, NEW r \in Rows, NEW name \in Usernames,
         NEW st \in {"ACTIVE", "REVOKED"}
  PROVE  /\ [s EXCEPT !.status[r] = st] \in States
         /\ [s EXCEPT !.username = name] \in States
BY DEF States

(* The first state satisfies the inductive invariant. *)
LEMMA UserInitIInv == UserInit => UserIInv
<1> SUFFICES ASSUME UserInit PROVE UserIInv
  OBVIOUS
<1> USE DEF UserInit
<1>1. truth \in States
  BY DEF States
<1>2. shown \in States
  <2>1. truth.username \in Usernames
    OBVIOUS
  <2>. QED  BY <2>1 DEF States
<1>3. flows \in [Flows -> UserFlows] /\ \A f \in Flows : flows[f].op \in {"none", "load"}
  BY UserFlowKinds DEF NoFlow
<1>4. deeds \in 0 .. MaxDeeds /\ misses \in 0 .. MaxMisses
  BY UserBoundsAssumption
<1>5. UserTypeOK
  <2>1. secret \in Licenses \cup {NoKey}
    OBVIOUS
  <2>3. step \in 1 .. 3
    <3>1. step = 1
      OBVIOUS
    <3>. QED  BY <3>1
  <2>4. crossed \in BOOLEAN /\ twice \in BOOLEAN /\ reset \in BOOLEAN
    OBVIOUS
  <2>2. /\ section \in {"infrastructure", "profile"}
        /\ dialogs \subseteq {"network", "device", "license"}
        /\ "license" \in dialogs => secret # NoKey
        /\ nodeName \in NodeNames /\ agentCommand \in NodeNames
    BY DefaultNameAssumption
  <2>. QED  BY <1>1, <1>2, <1>3, <1>4, <2>1, <2>2, <2>3, <2>4 DEF UserTypeOK
<1>6. CommandNamesNode
  BY DEF CommandNamesNode
<1>7. OneLicenseAdd
  BY <1>3 DEF OneLicenseAdd, LicenseAdd
<1>. QED  BY <1>5, <1>6, <1>7 DEF UserIInv

-------------------------------------------------------------------------------
(* Steps. *)

(* No flow turns: dialogs, the wizard and typing. *)
LEMMA DialogStep ==
  ASSUME UserIInv,
         \/ \E d \in {"network", "device"} : Open(d)
         \/ \E d \in {"network", "device", "license"} : Close(d)
         \/ \E n \in NodeNames : TypeNodeName(n)
         \/ \E n \in 1 .. 3 : SetNodeWizardStep(n)
  PROVE  UserIInv' /\ secret' = secret
<1> USE UserBoundsAssumption
    DEF UserIInv, UserTypeOK, CommandNamesNode, OneLicenseAdd, LicenseAdd, pageVars, ghostVars, Deed
<1>1. ASSUME NEW d \in {"network", "device"}, Open(d) PROVE UserIInv' /\ secret' = secret
  BY <1>1 DEF Open
<1>2. ASSUME NEW d \in {"network", "device", "license"}, Close(d)
      PROVE  UserIInv' /\ secret' = secret
  BY <1>2 DEF Close, wizardVars
<1>3. ASSUME NEW n \in NodeNames, TypeNodeName(n) PROVE UserIInv' /\ secret' = secret
  <2>1. /\ nodeName' = n /\ agentCommand' = n /\ reset' = FALSE
        /\ UNCHANGED <<section, truth, shown, dialogs, secret, step, flows, misses, crossed, twice>>
    BY <1>3 DEF TypeNodeName, NodeNameInput
  <2>2. deeds' \in 0 .. MaxDeeds
    BY <1>3 DEF TypeNodeName, OnWizard
  <2>3. UserTypeOK'
    BY <2>1, <2>2
  <2>4. CommandNamesNode' /\ OneLicenseAdd'
    BY <2>1
  <2>. QED  BY <2>1, <2>3, <2>4
<1>4. ASSUME NEW n \in 1 .. 3, SetNodeWizardStep(n) PROVE UserIInv' /\ secret' = secret
  BY <1>4 DEF SetNodeWizardStep, OnWizard
<1>. QED  BY <1>1, <1>2, <1>3, <1>4

(* One flow turns into one that creates no licence, and no key is shown. *)
LEMMA TurnStep ==
  ASSUME UserIInv, NEW f \in Flows, NEW flow \in UserFlows, Turns(f, flow),
         flow.op = "add" => flow.row \notin Licenses \/ LicenseAdd(f),
         section' = section, truth' \in States, shown' \in States, dialogs' \subseteq dialogs,
         secret' = secret, UNCHANGED <<step, agentCommand, twice>>,
         \/ UNCHANGED <<nodeName, reset>>
         \/ nodeName' = DefaultName /\ reset' = TRUE,
         deeds' \in 0 .. MaxDeeds, misses' \in 0 .. MaxMisses, crossed' \in BOOLEAN
  PROVE  UserIInv'
<1> USE DEF UserIInv
<1>1. /\ flows' \in [Flows -> UserFlows]
      /\ flows'[f] = flow
      /\ \A g \in Flows : g # f => flows'[g] = flows[g]
  BY TurnsTyped DEF UserTypeOK
<1>2. UserTypeOK'
  BY <1>1, DefaultNameAssumption DEF UserTypeOK
<1>3. CommandNamesNode'
  BY DEF CommandNamesNode
<1>4. \A g \in Flows : LicenseAdd(g)' => LicenseAdd(g)
  BY <1>1 DEF LicenseAdd
<1>5. OneLicenseAdd'
  BY <1>4 DEF OneLicenseAdd
<1>. QED  BY <1>2, <1>3, <1>5

(* Reading, drawing, and requests other than the creation of a row. *)
LEMMA SendStep ==
  ASSUME UserIInv, NEW f \in Flows,
         \/ ReadOrganization(f) \/ RenderUserDashboard(f)
         \/ \E row \in Rows : Revoke(f, row)
         \/ \E name \in Usernames : SaveProfile(f, name)
  PROVE  UserIInv' /\ secret' = secret
<1> USE UserBoundsAssumption, UserFlowKinds DEF pageVars, wizardVars, ghostVars, Deed
<1>1. /\ UserTypeOK /\ flows[f] \in UserFlows
      /\ crossed \in BOOLEAN /\ deeds \in 0 .. MaxDeeds /\ misses \in 0 .. MaxMisses
      /\ truth \in States /\ shown \in States
  BY DEF UserIInv, UserTypeOK
<1>2. CASE ReadOrganization(f)
  <2> DEFINE flow == [op |-> "draw", seen |-> truth]
  <2>1. flow \in UserFlows /\ Turns(f, flow)
    BY <1>1, <1>2 DEF ReadOrganization
  <2>. QED  BY <1>1, <1>2, <2>1, TurnStep DEF ReadOrganization
<1>3. CASE RenderUserDashboard(f)
  <2>1. shown' \in States /\ crossed' \in BOOLEAN /\ Turns(f, NoFlow)
    BY <1>1, <1>3, UserFlowFields DEF RenderUserDashboard
  <2>. QED  BY <1>1, <1>3, <2>1, TurnStep DEF RenderUserDashboard
<1>4. ASSUME NEW row \in Rows, Revoke(f, row) PROVE UserIInv' /\ secret' = secret
  <2> DEFINE flow == [op |-> "revoke", row |-> row, answer |-> "none"]
  <2>1. flow \in UserFlows /\ Turns(f, flow)
    BY <1>4 DEF Revoke
  <2>2. deeds' \in 0 .. MaxDeeds
    BY <1>1, <1>4 DEF Revoke
  <2>3. flow.op # "add"
    OBVIOUS
  <2>4. UNCHANGED <<section, truth, shown, dialogs, secret, step, agentCommand, twice, nodeName,
                    reset, misses, crossed>>
    BY <1>4 DEF Revoke
  <2>. QED  BY <1>1, <2>1, <2>2, <2>3, <2>4, TurnStep
<1>5. ASSUME NEW name \in Usernames, SaveProfile(f, name) PROVE UserIInv' /\ secret' = secret
  <2> DEFINE flow == [op |-> "profile", username |-> name, answer |-> "none"]
  <2>1. flow \in UserFlows /\ Turns(f, flow) /\ deeds' \in 0 .. MaxDeeds
    BY <1>1, <1>5 DEF SaveProfile
  <2>. QED  BY <1>1, <1>5, <2>1, TurnStep DEF SaveProfile
<1>. QED  BY <1>2, <1>3, <1>4, <1>5

(* A second creation of a licence sets twice; one is sent only with every dialog closed. *)
LEMMA AddStep ==
  ASSUME UserIInv, NEW f \in Flows, NEW row \in Rows, Add(f, row)
  PROVE  UserIInv' /\ secret' = secret
<1> USE DEF UserIInv, pageVars, wizardVars
<1> DEFINE flow == [op |-> "add", row |-> row, answer |-> "none"]
<1>1. flow \in UserFlows /\ Turns(f, flow)
  BY UserFlowKinds DEF Add
<1>2. /\ flows' \in [Flows -> UserFlows]
      /\ flows'[f] = flow
      /\ \A g \in Flows : g # f => flows'[g] = flows[g]
  BY <1>1, TurnsTyped DEF UserTypeOK
<1>3. UserTypeOK'
  BY <1>2, UserBoundsAssumption DEF Add, Deed, UserTypeOK
<1>4. CommandNamesNode'
  BY DEF Add, CommandNamesNode
<1>5. OneLicenseAdd'
  <2> SUFFICES ASSUME ~twice' PROVE /\ \A g, h \in Flows : LicenseAdd(g)' /\ LicenseAdd(h)' => g = h
                                    /\ "license" \in dialogs' => \A g \in Flows : ~LicenseAdd(g)'
    BY DEF OneLicenseAdd
  <2>1. ~twice /\ dialogs' = dialogs /\ (row \in Licenses => Adding \cap Licenses = {})
    BY DEF Add
  <2>2. \A g \in Flows : LicenseAdd(g) => flows[g].row \in Adding \cap Licenses
    BY DEF LicenseAdd, Adding
  <2>3. \A g \in Flows : g # f => (LicenseAdd(g)' <=> LicenseAdd(g))
    BY <1>2 DEF LicenseAdd
  <2>4. CASE row \in Licenses
    <3>1. \A g \in Flows : ~LicenseAdd(g)
      BY <2>1, <2>2, <2>4
    <3>2. \A g \in Flows : LicenseAdd(g)' => g = f
      BY <2>3, <3>1
    <3>3. "license" \notin dialogs
      BY <2>4 DEF Add, CanAdd
    <3>. QED  BY <2>1, <3>2, <3>3
  <2>5. CASE row \notin Licenses
    <3>1. ~LicenseAdd(f)'
      BY <1>2, <2>5 DEF LicenseAdd
    <3>. QED  BY <2>1, <2>3, <3>1 DEF OneLicenseAdd
  <2>. QED  BY <2>4, <2>5
<1>. QED  BY <1>3, <1>4, <1>5 DEF Add

(* The server answers. *)
LEMMA ServeFlowStep ==
  ASSUME UserIInv, NEW f \in Flows, Serve(f)
  PROVE  UserIInv' /\ secret' = secret
<1> USE DEF wizardVars, ghostVars
<1>1. /\ flows[f] \in UserFlows /\ truth \in States /\ shown \in States
      /\ crossed \in BOOLEAN /\ deeds \in 0 .. MaxDeeds /\ misses \in 0 .. MaxMisses
  BY DEF UserIInv, UserTypeOK
<1>2. PICK a \in {"ok", "refused"} : Turns(f, [flows[f] EXCEPT !.answer = a])
  BY DEF Serve
<1> DEFINE flow == [flows[f] EXCEPT !.answer = a]
<1>3. /\ flow \in UserFlows /\ flow.op = flows[f].op
      /\ flows[f].op = "add" => flow.row = flows[f].row
  BY <1>1, AnsweredTyped DEF Serve
<1>4. truth' \in States
  <2>1. /\ flows[f].op \in {"add", "revoke"} => flows[f].row \in Rows
        /\ flows[f].op = "profile" => flows[f].username \in Usernames
    BY <1>1, UserFlowFields
  <2>2. truth.username \in Usernames
    BY <1>1 DEF States
  <2>3. \/ truth' = truth
        \/ flows[f].op = "add" /\ truth' = [truth EXCEPT !.status[flows[f].row] = "ACTIVE"]
        \/ flows[f].op = "revoke" /\ truth' = [truth EXCEPT !.status[flows[f].row] = "REVOKED"]
        \/ flows[f].op = "profile" /\ truth' = [truth EXCEPT !.username = flows[f].username]
    BY DEF Serve
  <2>. QED  BY <1>1, <2>1, <2>2, <2>3 DEF States
<1>5. UNCHANGED <<section, shown, dialogs, secret, wizardVars, deeds, misses, ghostVars>>
  BY DEF Serve
<1>6. flow.op = "add" => flow.row \notin Licenses \/ LicenseAdd(f)
  BY <1>3 DEF LicenseAdd
<1> HIDE DEF flow
<1>7. Turns(f, flow)
  BY <1>2 DEF flow
<1>. QED  BY <1>1, <1>3, <1>4, <1>5, <1>6, <1>7, TurnStep

(* The answers, but for the creation of a licence. *)
LEMMA AnswersStep ==
  ASSUME UserIInv, NEW f \in Flows,
         FormAccepted(f) \/ Revoked(f) \/ ProfileSaved(f) \/ Refused(f) \/ Missed(f)
  PROVE  UserIInv' /\ secret' = secret
<1> USE DEF pageVars, wizardVars, ghostVars
<1>1. /\ flows[f] \in UserFlows /\ truth \in States /\ shown \in States
      /\ crossed \in BOOLEAN /\ deeds \in 0 .. MaxDeeds /\ misses \in 0 .. MaxMisses
  BY DEF UserIInv, UserTypeOK
<1>2. PICK flow \in {NoFlow, [op |-> "load"]} : Turns(f, flow)
  BY DEF FormAccepted, Revoked, ProfileSaved, Refused, Missed
<1>3. flow \in UserFlows /\ flow.op # "add"
  BY <1>2, UserFlowKinds
<1>4. /\ section' = section /\ truth' \in States /\ dialogs' \subseteq dialogs
      /\ secret' = secret /\ UNCHANGED <<step, agentCommand, twice, deeds>>
      /\ \/ UNCHANGED <<nodeName, reset>>
         \/ nodeName' = DefaultName /\ reset' = TRUE
  BY <1>1 DEF FormAccepted, Revoked, ProfileSaved, Refused, Missed
<1>5. misses' \in 0 .. MaxMisses
  BY <1>1, UserBoundsAssumption DEF FormAccepted, Revoked, ProfileSaved, Refused, Missed
<1>6. shown' \in States /\ crossed' \in BOOLEAN
  <2>1. CASE ProfileSaved(f)
    <3>1. flows[f].username \in Usernames
      BY <1>1, <2>1, UserFlowFields DEF ProfileSaved
    <3>2. [shown EXCEPT !.username = flows[f].username] \in States
      BY <1>1, <3>1 DEF States
    <3>. QED  BY <2>1, <3>2 DEF ProfileSaved
  <2>2. CASE ~ProfileSaved(f)
    BY <1>1, <2>2 DEF FormAccepted, Revoked, Refused, Missed
  <2>. QED  BY <2>1, <2>2
<1>. QED  BY <1>1, <1>2, <1>3, <1>4, <1>5, <1>6, TurnStep

(* A licence is created: a key is replaced only if two creations overlapped. *)
LEMMA LicenseStep ==
  ASSUME UserIInv, NEW f \in Flows, LicenseCreated(f)
  PROVE  UserIInv' /\ ("license" \in dialogs => twice)
<1> USE DEF UserIInv, wizardVars, ghostVars
<1> DEFINE flow == [op |-> "load"]
<1>1. LicenseAdd(f) /\ secret' \in Licenses /\ Turns(f, flow) /\ flow \in UserFlows
  BY UserFlowKinds DEF LicenseCreated, LicenseAdd
<1>2. /\ flows' \in [Flows -> UserFlows]
      /\ flows'[f] = flow
      /\ \A g \in Flows : g # f => flows'[g] = flows[g]
  BY <1>1, TurnsTyped DEF UserTypeOK
<1>3. UserTypeOK'
  <2>1. secret' # NoKey
    BY <1>1, NoKeyAssumption
  <2>. QED  BY <1>1, <1>2, <2>1 DEF LicenseCreated, UserTypeOK
<1>4. CommandNamesNode'
  BY DEF LicenseCreated, CommandNamesNode
<1>5. OneLicenseAdd'
  <2>1. twice' = twice
    BY DEF LicenseCreated
  <2>2. ~LicenseAdd(f)' /\ \A g \in Flows : g # f => (LicenseAdd(g)' <=> LicenseAdd(g))
    BY <1>2 DEF LicenseAdd
  <2>3. ~twice => \A g \in Flows : ~LicenseAdd(g)'
    BY <1>1, <2>2 DEF OneLicenseAdd
  <2>. QED  BY <2>1, <2>3 DEF OneLicenseAdd
<1>6. "license" \in dialogs => twice
  BY <1>1 DEF OneLicenseAdd
<1>. QED  BY <1>3, <1>4, <1>5, <1>6

(* Every step keeps the inductive invariant, and a shown key unless creations overlapped. *)
LEMMA UserStepIInv ==
  UserIInv /\ [UserNext]_userVars
    => UserIInv' /\ ("license" \in dialogs \cap dialogs' => secret' = secret \/ twice)
<1> SUFFICES ASSUME UserIInv, [UserNext]_userVars
             PROVE  UserIInv' /\ ("license" \in dialogs \cap dialogs' => secret' = secret \/ twice)
  OBVIOUS
<1>1. CASE UNCHANGED userVars
  BY <1>1 DEF userVars, pageVars, wizardVars, ghostVars, UserIInv, UserTypeOK, CommandNamesNode,
              OneLicenseAdd, LicenseAdd
<1>2. CASE UserNext
  BY <1>2, DialogStep, SendStep, AddStep, ServeFlowStep, AnswersStep, LicenseStep DEF UserNext
<1>. QED  BY <1>1, <1>2

-------------------------------------------------------------------------------
(* The page against the server. *)

(* A handler that will draw the rows as they are, or has still to load them. *)
BringsRows(f) ==
  \/ flows[f].op = "load"
  \/ flows[f].op \in {"add", "revoke"} /\ flows[f].answer = "ok"
  \/ flows[f].op = "draw" /\ flows[f].seen.status = truth.status

SavedName(f) == flows[f].op = "profile" /\ flows[f].answer = "ok"

(* A handler that will show the username as it is, or has still to load it. *)
BringsName(f) ==
  \/ flows[f].op = "load"
  \/ flows[f].op = "draw" /\ flows[f].seen.username = truth.username
  \/ SavedName(f) /\ flows[f].username = truth.username

(* What is shown and what is about to be drawn is true, or a handler under way brings it:   *)
(* the rows; the username; and of the names that were saved, one is the last.               *)
CatchesUp ==
  ~crossed /\ misses = 0 =>
    /\ \/ /\ shown.status = truth.status
          /\ \A f \in Flows : flows[f].op = "draw" => flows[f].seen.status = truth.status
       \/ \E f \in Flows : BringsRows(f)
    /\ \/ /\ shown.username = truth.username
          /\ \A f \in Flows : flows[f].op = "draw" => flows[f].seen.username = truth.username
       \/ \E f \in Flows : BringsName(f)
    /\ \A f \in Flows :
         SavedName(f) => \E g \in Flows : SavedName(g) /\ flows[g].username = truth.username

(* At first the page is still to be loaded. *)
LEMMA InitCatchesUp == UserInit => CatchesUp
BY DEF UserInit, CatchesUp, BringsRows, BringsName, SavedName, NoFlow

(* A handler that brings nothing begins or ends, or none turns. *)
LEMMA NothingBrought ==
  ASSUME CatchesUp, UNCHANGED <<truth, shown, crossed, misses>>,
         \A f \in Flows :
           \/ flows'[f] = flows[f]
           \/ /\ flows[f].op \notin {"load", "draw"}
              /\ flows[f].op \in {"add", "revoke", "profile"} => flows[f].answer # "ok"
              /\ flows'[f].op \notin {"load", "draw"}
              /\ flows'[f].op \in {"add", "revoke", "profile"} => flows'[f].answer # "ok"
  PROVE  CatchesUp'
<1>1. ASSUME NEW f \in Flows
      PROVE  /\ BringsRows(f) => BringsRows(f)'
             /\ BringsName(f) => BringsName(f)'
             /\ SavedName(f)' => SavedName(f)
             /\ SavedName(f) => SavedName(f)' /\ flows'[f] = flows[f]
             /\ flows'[f].op = "draw" => flows'[f] = flows[f]
  BY DEF BringsRows, BringsName, SavedName
<1>. QED  BY <1>1 DEF CatchesUp

(* A handler that loads the page again, or has just been answered, brings everything. *)
LEMMA EverythingBrought ==
  ASSUME UserIInv, CatchesUp, UNCHANGED <<truth, shown, crossed, misses>>,
         NEW f \in Flows, ~SavedName(f),
         NEW flow \in UserFlows, Turns(f, flow),
         \/ flow.op = "load"
         \/ flow.op = "draw" /\ flow.seen = truth
  PROVE  CatchesUp'
<1>1. /\ flows'[f] = flow
      /\ \A g \in Flows : g # f => flows'[g] = flows[g]
  BY TurnsTyped DEF UserIInv, UserTypeOK
<1>2. BringsRows(f)' /\ BringsName(f)'
  BY <1>1 DEF BringsRows, BringsName
<1>3. \A g \in Flows : SavedName(g)' <=> SavedName(g)
  BY <1>1 DEF SavedName
<1>4. \A g \in Flows : SavedName(g) => flows'[g] = flows[g]
  BY <1>1
<1>. QED  BY <1>2, <1>3, <1>4 DEF CatchesUp

(* renderUserDashboard: alone, it draws what is true or leaves it to a handler answered     *)
(* since; beside another load it may draw an older answer.                                  *)
LEMMA RenderCatchesUp ==
  ASSUME UserIInv, CatchesUp, NEW f \in Flows, RenderUserDashboard(f)
  PROVE  CatchesUp'
<1> SUFFICES ASSUME ~crossed', misses' = 0
             PROVE  CatchesUp'
  BY DEF CatchesUp
<1>1. NoFlow \in UserFlows /\ NoFlow.op = "none"
  BY UserFlowKinds
<1>2. /\ flows'[f] = NoFlow
      /\ \A g \in Flows : g # f => flows'[g] = flows[g]
      /\ flows[f].op = "draw" /\ flows[f].seen \in States
  BY <1>1, TurnsTyped, UserFlowFields DEF RenderUserDashboard, UserIInv, UserTypeOK
<1>3. /\ truth' = truth /\ misses = 0 /\ ~crossed
      /\ shown' = flows[f].seen
      /\ \A g \in Flows : g # f => flows[g].op \notin {"load", "draw"}
  BY DEF RenderUserDashboard, OthersDo, wizardVars
<1>4. ASSUME NEW g \in Flows
      PROVE  /\ BringsRows(g) => flows[f].seen.status = truth.status \/ BringsRows(g)'
             /\ BringsName(g) => flows[f].seen.username = truth.username \/ BringsName(g)'
             /\ SavedName(g)' <=> SavedName(g)
             /\ SavedName(g) => flows'[g] = flows[g]
             /\ flows'[g].op # "draw"
  BY <1>1, <1>2, <1>3 DEF BringsRows, BringsName, SavedName
<1>5. \/ shown'.status = truth'.status
      \/ \E g \in Flows : BringsRows(g)'
  BY <1>2, <1>3, <1>4 DEF CatchesUp
<1>6. \/ shown'.username = truth'.username
      \/ \E g \in Flows : BringsName(g)'
  BY <1>2, <1>3, <1>4 DEF CatchesUp
<1>7. \A h \in Flows :
        SavedName(h)' => \E g \in Flows : SavedName(g)' /\ flows'[g].username = truth'.username
  BY <1>3, <1>4 DEF CatchesUp
<1>. QED  BY <1>4, <1>5, <1>6, <1>7 DEF CatchesUp

(* The server: the handler whose request it carried out brings what it changed. *)
LEMMA ServeCatchesUp ==
  ASSUME UserIInv, CatchesUp, NEW f \in Flows, Serve(f)
  PROVE  CatchesUp'
<1>1. /\ flows[f] \in UserFlows /\ truth \in States
      /\ flows[f].op \in {"add", "revoke", "profile"} /\ flows[f].answer = "none"
      /\ UNCHANGED <<shown, crossed, misses>>
  BY DEF UserIInv, UserTypeOK, Serve, ghostVars
<1>2. PICK a \in {"ok", "refused"} :
        /\ Turns(f, [flows[f] EXCEPT !.answer = a])
        /\ \/ a = "refused" /\ truth' = truth
           \/ /\ a = "ok" /\ flows[f].op \in {"add", "revoke"}
              /\ truth'.username = truth.username
           \/ /\ a = "ok" /\ flows[f].op = "profile"
              /\ truth'.status = truth.status /\ truth'.username = flows[f].username
  <2>1. CASE Turns(f, [flows[f] EXCEPT !.answer = "refused"]) /\ truth' = truth
    BY <2>1
  <2>2. CASE /\ Turns(f, [flows[f] EXCEPT !.answer = "ok"])
             /\ flows[f].op \in {"add", "revoke"}
             /\ \E st : truth' = [truth EXCEPT !.status[flows[f].row] = st]
    BY <1>1, <2>2 DEF States
  <2>3. CASE /\ Turns(f, [flows[f] EXCEPT !.answer = "ok"])
             /\ flows[f].op = "profile"
             /\ truth' = [truth EXCEPT !.username = flows[f].username]
    BY <1>1, <2>3 DEF States
  <2>. QED  BY <2>1, <2>2, <2>3 DEF Serve
<1> DEFINE flow == [flows[f] EXCEPT !.answer = a]
<1>3. /\ flow \in UserFlows /\ flow.op = flows[f].op /\ flow.answer = a
      /\ flow.op = "profile" => flow.username = flows[f].username
  BY <1>1 DEF UserFlows, NoFlow
<1>4. Turns(f, flow)
  BY <1>2
<1> HIDE DEF flow
<1>5. /\ flows'[f] = flow
      /\ \A g \in Flows : g # f => flows'[g] = flows[g]
  BY <1>3, <1>4, TurnsTyped DEF UserIInv, UserTypeOK
<1>6. CASE a = "refused"
  <2>1. \A g \in Flows : g # f => flows'[g] = flows[g]
    BY <1>5
  <2>2. truth' = truth /\ flows'[f].op \notin {"load", "draw"} /\ flows'[f].answer # "ok"
    BY <1>1, <1>2, <1>3, <1>5, <1>6
  <2>. QED  BY <1>1, <2>1, <2>2, NothingBrought
<1>7. CASE a = "ok" /\ flows[f].op \in {"add", "revoke"}
  <2>1. truth'.username = truth.username
    BY <1>2, <1>7
  <2>2. BringsRows(f)'
    BY <1>3, <1>5, <1>7 DEF BringsRows
  <2>3. ASSUME NEW g \in Flows
        PROVE  /\ BringsName(g) => BringsName(g)'
               /\ SavedName(g)' <=> SavedName(g)
               /\ SavedName(g) => flows'[g] = flows[g]
               /\ flows'[g].op = "draw" => flows'[g] = flows[g]
    BY <1>1, <1>3, <1>5, <1>7, <2>1 DEF BringsName, SavedName
  <2>. QED  BY <1>1, <2>1, <2>2, <2>3 DEF CatchesUp
<1>8. CASE a = "ok" /\ flows[f].op = "profile"
  <2>1. truth'.status = truth.status /\ truth'.username = flows[f].username
    BY <1>2, <1>8
  <2>2. BringsName(f)' /\ SavedName(f)' /\ flows'[f].username = truth'.username
    BY <1>3, <1>5, <1>8, <2>1 DEF BringsName, SavedName
  <2>3. ASSUME NEW g \in Flows
        PROVE  /\ BringsRows(g) => BringsRows(g)'
               /\ flows'[g].op = "draw" => flows'[g] = flows[g]
    BY <1>1, <1>3, <1>5, <1>8, <2>1 DEF BringsRows
  <2>. QED  BY <1>1, <2>1, <2>2, <2>3 DEF CatchesUp
<1>. QED  BY <1>1, <1>2, <1>6, <1>7, <1>8

(* saveProfile goes on: with no load and no other saving beside it, the name it shows is    *)
(* the server's.                                                                            *)
LEMMA ProfileCatchesUp ==
  ASSUME UserIInv, CatchesUp, NEW f \in Flows, ProfileSaved(f)
  PROVE  CatchesUp'
<1> SUFFICES ASSUME ~crossed', misses' = 0
             PROVE  CatchesUp'
  BY DEF CatchesUp
<1>1. NoFlow \in UserFlows /\ NoFlow.op = "none"
  BY UserFlowKinds
<1>2. /\ flows'[f] = NoFlow
      /\ \A g \in Flows : g # f => flows'[g] = flows[g]
      /\ SavedName(f)
  BY <1>1, TurnsTyped DEF ProfileSaved, UserIInv, UserTypeOK, SavedName
<1>3. /\ truth' = truth /\ misses = 0 /\ ~crossed
      /\ \A g \in Flows : g # f => flows[g].op \notin {"load", "draw", "profile"}
  BY DEF ProfileSaved, OthersDo, wizardVars
<1>4. flows[f].username = truth.username
  BY <1>2, <1>3 DEF CatchesUp, SavedName
<1>5. shown'.status = shown.status /\ shown'.username = truth'.username
  BY <1>3, <1>4 DEF ProfileSaved, UserIInv, UserTypeOK, States
<1>6. ASSUME NEW g \in Flows
      PROVE  /\ BringsRows(g) => BringsRows(g)'
             /\ ~SavedName(g)'
             /\ flows'[g].op # "draw"
  BY <1>1, <1>2, <1>3 DEF BringsRows, SavedName
<1>. QED  BY <1>3, <1>5, <1>6 DEF CatchesUp

(* Every step leaves the page true or something under way that will make it so. *)
LEMMA StepCatchesUp ==
  ASSUME UserIInv, CatchesUp, [UserNext]_userVars
  PROVE  CatchesUp'
<1> USE DEF pageVars, wizardVars, ghostVars
<1>1. ASSUME NEW f \in Flows
      PROVE  flows[f] \in UserFlows /\ NoFlow \in UserFlows /\ NoFlow.op = "none"
  BY <1>1, UserFlowKinds DEF UserIInv, UserTypeOK
<1>2. CASE UNCHANGED <<truth, shown, crossed, misses, flows>>
  BY <1>2, NothingBrought
<1>3. ASSUME NEW f \in Flows, NEW flow \in UserFlows, Turns(f, flow),
             UNCHANGED <<truth, shown, crossed, misses>>,
             flow = NoFlow \/ flow.answer = "none",
             flow.op \notin {"load", "draw"},
             flows[f] = NoFlow \/ flows[f].answer = "refused",
             flows[f].op \notin {"load", "draw"}
      PROVE  CatchesUp'
  <2>1. /\ flows'[f] = flow
        /\ \A g \in Flows : g # f => flows'[g] = flows[g]
    BY <1>3, TurnsTyped DEF UserIInv, UserTypeOK
  <2>. QED  BY <1>1, <1>3, <2>1, NothingBrought
<1>4. ASSUME NEW f \in Flows, NEW row \in Rows, Add(f, row) \/ Revoke(f, row)
      PROVE  CatchesUp'
  <2> DEFINE FlowOf(op) == [op |-> op, row |-> row, answer |-> "none"]
  <2>1. PICK op \in {"add", "revoke"} : Turns(f, FlowOf(op))
    <3>1. Turns(f, FlowOf("add")) \/ Turns(f, FlowOf("revoke"))
      BY <1>4 DEF Add, Revoke
    <3>. QED  BY <3>1
  <2>2. FlowOf(op) \in UserFlows /\ FlowOf(op).op = op /\ FlowOf(op).answer = "none"
    BY UserFlowKinds
  <2>3. UNCHANGED <<truth, shown, crossed, misses>> /\ flows[f] = NoFlow
    BY <1>4 DEF Add, Revoke
  <2> HIDE DEF FlowOf
  <2>. QED  BY <1>1, <1>3, <2>1, <2>2, <2>3
<1>5. ASSUME NEW f \in Flows, NEW name \in Usernames, SaveProfile(f, name)
      PROVE  CatchesUp'
  <2> DEFINE flow == [op |-> "profile", username |-> name, answer |-> "none"]
  <2>1. flow \in UserFlows /\ flow.op = "profile" /\ flow.answer = "none"
    BY UserFlowKinds
  <2>2. Turns(f, flow)
    BY <1>5 DEF SaveProfile
  <2>3. UNCHANGED <<truth, shown, crossed, misses>> /\ flows[f] = NoFlow
    BY <1>5 DEF SaveProfile
  <2> HIDE DEF flow
  <2>. QED  BY <1>1, <1>3, <2>1, <2>2, <2>3
<1>6. ASSUME NEW f \in Flows, Refused(f)
      PROVE  CatchesUp'
  <2>1. /\ Turns(f, NoFlow) /\ flows[f].op \notin {"load", "draw"} /\ flows[f].answer = "refused"
        /\ UNCHANGED <<truth, shown, crossed, misses>>
    BY <1>6 DEF Refused
  <2>. QED  BY <1>1, <1>3, <2>1
<1>7. ASSUME NEW f \in Flows, Missed(f)
      PROVE  CatchesUp'
  <2>1. misses' # 0
    BY <1>7, UserBoundsAssumption DEF Missed, UserIInv, UserTypeOK
  <2>. QED  BY <2>1 DEF CatchesUp
<1>8. ASSUME NEW f \in Flows, LicenseCreated(f) \/ FormAccepted(f) \/ Revoked(f)
      PROVE  CatchesUp'
  <2> DEFINE flow == [op |-> "load"]
  <2>1. flow \in UserFlows /\ Turns(f, flow) /\ flow.op = "load" /\ ~SavedName(f)
    BY <1>8, UserFlowKinds DEF LicenseCreated, FormAccepted, Revoked, SavedName
  <2> HIDE DEF flow
  <2>. QED  BY <1>8, <2>1, EverythingBrought DEF LicenseCreated, FormAccepted, Revoked
<1>9. ASSUME NEW f \in Flows, ReadOrganization(f)
      PROVE  CatchesUp'
  <2> DEFINE flow == [op |-> "draw", seen |-> truth]
  <2>1. flow \in UserFlows
    BY UserFlowKinds DEF UserIInv, UserTypeOK
  <2>2. Turns(f, flow) /\ flow.op = "draw" /\ flow.seen = truth /\ ~SavedName(f)
    BY <1>9 DEF ReadOrganization, SavedName
  <2> HIDE DEF flow
  <2>. QED  BY <1>9, <2>1, <2>2, EverythingBrought DEF ReadOrganization
<1>10. CASE \/ \E d \in {"network", "device"} : Open(d)
            \/ \E d \in {"network", "device", "license"} : Close(d)
            \/ \E n \in NodeNames : TypeNodeName(n)
            \/ \E n \in 1 .. 3 : SetNodeWizardStep(n)
  BY <1>2, <1>10 DEF Open, Close, TypeNodeName, SetNodeWizardStep
<1>11. CASE UNCHANGED userVars
  BY <1>2, <1>11 DEF userVars
<1>. QED  BY <1>4, <1>5, <1>6, <1>7, <1>8, <1>9, <1>10, <1>11, RenderCatchesUp, ServeCatchesUp,
             ProfileCatchesUp DEF UserNext

-------------------------------------------------------------------------------
(* What follows for the console. *)

(* The user's pages are among the console's pages. *)
LEMMA SpecUser == Spec => UserInit /\ [][UserNext]_userVars
<1>1. Init => UserInit
  BY DEF Init
<1>2. [Next]_vars => [UserNext]_userVars
  BY DEF Next, vars, userVars
<1>. QED  BY <1>1, <1>2, PTL DEF Spec

(* The user pages' inductive invariant holds throughout. *)
LEMMA UserInvariant == Spec => []UserIInv
<1>1. UserIInv /\ [UserNext]_userVars => UserIInv'
  BY UserStepIInv
<1>. QED  BY SpecUser, UserInitIInv, <1>1, PTL

(* The variables of all pages of the console keep their types.                              *)
THEOREM ConsoleTypes == Spec => []TypeOK
<1> DEFINE Tab == tab \in {"staff", "user", "auth"}
<1>1. Init => Tab
  BY DEF Init
<1>2. Tab /\ [Next]_vars => Tab'
  BY DEF Next, vars
<1>3. Spec => []Tab
  BY <1>1, <1>2, PTL DEF Spec
<1>4. Tab /\ StaffIInv /\ UserIInv /\ AuthIInv => TypeOK
  BY DEF StaffIInv, UserIInv, AuthIInv, TypeOK
<1>. QED  BY <1>3, <1>4, StaffInvariant, UserInvariant, AuthInvariant, PTL

(* The install command names the node that was typed, until an activation resets the form.  *)
THEOREM CommandsNameNodes == Spec => []CommandNamesNode
<1>1. UserIInv => CommandNamesNode
  BY DEF UserIInv
<1>. QED  BY <1>1, UserInvariant, PTL

(* A licence key stays in its dialog until it is closed, whatever else is under way, unless *)
(* two creations overlapped.                                                                *)
THEOREM KeysStay == Spec => KeyStaysUntilClosed
<1>1. UserIInv /\ [UserNext]_userVars
        => ["license" \in dialogs \cap dialogs' => secret' = secret \/ twice]_userVars
  BY UserStepIInv
<1>. QED  BY <1>1, SpecUser, UserInvariant, PTL DEF KeyStaysUntilClosed

(* renderUserDashboard and the handlers around it: however many overlap, once all have      *)
(* ended and none failed, the page shows the rows and the username the server holds, or it  *)
(* was drawn while another load was under way.                                              *)
THEOREM PagesAreTrue == Spec => []PageIsTrue
<1>1. UserIInv /\ CatchesUp => PageIsTrue
  <2> SUFFICES ASSUME UserIInv, CatchesUp, \A f \in Flows : flows[f] = NoFlow, misses = 0, ~crossed
               PROVE  shown = truth
    BY DEF PageIsTrue
  <2>1. \A f \in Flows : ~BringsRows(f) /\ ~BringsName(f)
    BY DEF BringsRows, BringsName, SavedName, NoFlow
  <2>2. shown.status = truth.status /\ shown.username = truth.username
    BY <2>1 DEF CatchesUp
  <2>. QED  BY <2>2 DEF UserIInv, UserTypeOK, States
<1>2. UserIInv /\ CatchesUp /\ [UserNext]_userVars => CatchesUp'
  BY StepCatchesUp
<1>. QED  BY <1>1, <1>2, SpecUser, InitCatchesUp, UserInvariant, PTL
===============================================================================
