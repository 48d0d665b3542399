-------------------------------- MODULE UserPage --------------------------------
(***************************************************************************)
(* The pages of the web console that show an organization and a profile    *)
(* (renderUserDashboard and bindUserActions in assets/dashboard.js): lists *)
(* of networks, nodes and licences, the dialogs that add to them, the      *)
(* buttons that revoke, and the username.                                  *)
(*                                                                         *)
(* Every handler sends a request and then draws the whole page again from  *)
(* a new GET.  No form is disabled meanwhile, so handlers overlap, and a   *)
(* page may be drawn from an answer that is older than the one before.     *)
(***************************************************************************)
EXTENDS Naturals

CONSTANTS
  Networks, Nodes, Licenses,  \* rows that exist or may be added
  Usernames,
  NodeNames, DefaultName,     \* "minecraft-01" in the code
  Flows,                      \* handlers that may be under way at once
  MaxDeeds,                   \* what the user does
  MaxMisses,                  \* requests, or their answers, that get lost
  NoKey

ASSUME NoKeyAssumption == NoKey \notin Licenses
ASSUME DefaultNameAssumption == DefaultName \in NodeNames
ASSUME UserBoundsAssumption == MaxDeeds \in Nat /\ MaxMisses \in Nat

VARIABLES
  section,   \* the page: "infrastructure" or "profile"
  truth,     \* what the server holds: the rows and the username
  shown,     \* what the page shows of it
  dialogs,   \* the open dialogs, all modal; the license dialog is on top
  secret,    \* the licence whose key is in the license dialog
  step, nodeName, agentCommand,  \* the node wizard: its step, the name typed, the name in the command
  flows,
  deeds, misses,
  crossed,   \* a page was drawn, or a name shown, while a handler that changes it was under way
  twice,     \* two creations of a licence were under way at once
  reset      \* the wizard's form was reset and no name typed since

pageVars == <<section, truth, shown, dialogs, secret>>
wizardVars == <<step, nodeName, agentCommand, reset>>
ghostVars == <<crossed, twice>>
userVars == <<pageVars, wizardVars, flows, deeds, misses, ghostVars>>

Rows == Networks \cup Nodes \cup Licenses
States == [status : [Rows -> {"absent", "ACTIVE", "REVOKED"}], username : Usernames]

NoFlow == [op |-> "none"]
UserFlows ==
  {NoFlow}
  \cup [op : {"load"}]
  \cup [op : {"draw"}, seen : States]
  \cup [op : {"add", "revoke"}, row : Rows, answer : {"none", "ok", "refused"}]
  \cup [op : {"profile"}, username : Usernames, answer : {"none", "ok", "refused"}]

UserTypeOK ==
  /\ section \in {"infrastructure", "profile"}
  /\ truth \in States
  /\ shown \in States
  /\ dialogs \subseteq {"network", "device", "license"}
  /\ secret \in Licenses \cup {NoKey}
  /\ step \in 1 .. 3
  /\ nodeName \in NodeNames
  /\ agentCommand \in NodeNames
  /\ flows \in [Flows -> UserFlows]
  /\ deeds \in 0 .. MaxDeeds
  /\ misses \in 0 .. MaxMisses
  /\ crossed \in BOOLEAN
  /\ twice \in BOOLEAN
  /\ reset \in BOOLEAN
  /\ "license" \in dialogs => secret # NoKey

UserInit ==
  /\ section \in {"infrastructure", "profile"}
  /\ truth \in [status : [Rows -> {"absent", "ACTIVE"}], username : Usernames]
  /\ shown = [status |-> [r \in Rows |-> "absent"], username |-> truth.username]
  /\ dialogs = {}
  /\ secret = NoKey
  /\ step = 1
  /\ nodeName = DefaultName
  /\ agentCommand = DefaultName
  /\ \E f \in Flows : flows = [g \in Flows |-> IF g = f THEN [op |-> "load"] ELSE NoFlow]
  /\ deeds = 0 /\ misses = 0
  /\ crossed = FALSE /\ twice = FALSE /\ reset = FALSE

Turns(f, flow) == flows' = [flows EXCEPT ![f] = flow]

Deed(page) == section = page /\ deeds < MaxDeeds /\ deeds' = deeds + 1

OthersDo(f, ops) == \E g \in Flows \ {f} : flows[g].op \in ops

-------------------------------------------------------------------------------
(* loadUserDashboard and renderUserDashboard. *)

ReadOrganization(f) ==
  /\ flows[f].op = "load"
  /\ Turns(f, [op |-> "draw", seen |-> truth])
  /\ UNCHANGED <<pageVars, wizardVars, deeds, misses, ghostVars>>

RenderUserDashboard(f) ==
  /\ flows[f].op = "draw"
  /\ shown' = flows[f].seen
  /\ crossed' = (crossed \/ OthersDo(f, {"load", "draw"}))
  /\ Turns(f, NoFlow)
  /\ UNCHANGED <<section, truth, dialogs, secret, wizardVars, deeds, misses, twice>>

-------------------------------------------------------------------------------
(* The dialogs and the wizard.  Only what is on top can be clicked. *)

Open(d) ==
  /\ Deed("infrastructure")
  /\ dialogs = {}
  /\ dialogs' = {d}
  /\ step' = IF d = "device" THEN 1 ELSE step
  /\ UNCHANGED <<section, truth, shown, secret, nodeName, agentCommand, reset, flows, misses,
                 ghostVars>>

Close(d) ==
  /\ Deed("infrastructure")
  /\ d \in dialogs
  /\ "license" \in dialogs => d = "license"
  /\ dialogs' = dialogs \ {d}
  /\ UNCHANGED <<section, truth, shown, secret, wizardVars, flows, misses, ghostVars>>

OnWizard(n) == Deed("infrastructure") /\ dialogs = {"device"} /\ step = n

(* Mutant: the command is not written again when a name is typed. *)
NodeNameTyped(n) == nodeName' = n /\ UNCHANGED agentCommand

(* The input event: refreshCommand. *)
NodeNameInput(n) == nodeName' = n /\ agentCommand' = n

TypeNodeName(n) ==
  /\ OnWizard(1)
  /\ NodeNameInput(n)
  /\ reset' = FALSE
  /\ UNCHANGED <<pageVars, step, flows, misses, ghostVars>>

(* The buttons of the steps; validateNodeSetup wants a network that is drawn. *)
SetNodeWizardStep(n) ==
  /\ \/ n = 2 /\ OnWizard(1) /\ \E w \in Networks : shown.status[w] = "ACTIVE"
     \/ n = 3 /\ OnWizard(2)
     \/ n = 1 /\ OnWizard(2)
     \/ n = 2 /\ OnWizard(3)
  /\ step' = n
  /\ UNCHANGED <<pageVars, nodeName, agentCommand, reset, flows, misses, ghostVars>>

-------------------------------------------------------------------------------
(* What the user sends. *)

Adding == {flows[f].row : f \in {g \in Flows : flows[g].op = "add"}}

(* Mutant: the license dialog is not modal. *)
CanAddBeside(row) ==
  \/ row \in Licenses /\ dialogs \subseteq {"license"}
  \/ row \in Networks /\ dialogs = {"network"}
  \/ row \in Nodes /\ dialogs = {"device"} /\ step = 3

(* createLicense, or the form of the dialog that is open. *)
CanAdd(row) ==
  \/ row \in Licenses /\ dialogs = {}
  \/ row \in Networks /\ dialogs = {"network"}
  \/ row \in Nodes /\ dialogs = {"device"} /\ step = 3

Add(f, row) ==
  /\ Deed("infrastructure")
  /\ CanAdd(row)
  /\ truth.status[row] = "absent" /\ row \notin Adding
  /\ flows[f] = NoFlow
  /\ Turns(f, [op |-> "add", row |-> row, answer |-> "none"])
  /\ twice' = (twice \/ (row \in Licenses /\ Adding \cap Licenses # {}))
  /\ UNCHANGED <<pageVars, wizardVars, misses, crossed>>

(* revokeLicense and revokeNode: the buttons of rows drawn as not revoked. *)
Revoke(f, row) ==
  /\ Deed("infrastructure")
  /\ dialogs = {}
  /\ row \in Licenses \cup Nodes /\ shown.status[row] = "ACTIVE"
  /\ flows[f] = NoFlow
  /\ Turns(f, [op |-> "revoke", row |-> row, answer |-> "none"])
  /\ UNCHANGED <<pageVars, wizardVars, misses, ghostVars>>

SaveProfile(f, name) ==
  /\ Deed("profile")
  /\ flows[f] = NoFlow
  /\ Turns(f, [op |-> "profile", username |-> name, answer |-> "none"])
  /\ UNCHANGED <<pageVars, wizardVars, misses, ghostVars>>

(* The server does what it was asked to, or refuses: a quota, a code, a name. *)
Serve(f) ==
  /\ flows[f].op \in {"add", "revoke", "profile"}
  /\ flows[f].answer = "none"
  /\ \/ /\ Turns(f, [flows[f] EXCEPT !.answer = "refused"])
        /\ UNCHANGED truth
     \/ /\ flows[f].op = "add"
        /\ truth' = [truth EXCEPT !.status[flows[f].row] = "ACTIVE"]
        /\ Turns(f, [flows[f] EXCEPT !.answer = "ok"])
     \/ /\ flows[f].op = "revoke"
        /\ truth.status[flows[f].row] = "ACTIVE"
        /\ truth' = [truth EXCEPT !.status[flows[f].row] = "REVOKED"]
        /\ Turns(f, [flows[f] EXCEPT !.answer = "ok"])
     \/ /\ flows[f].op = "profile"
        /\ truth' = [truth EXCEPT !.username = flows[f].username]
        /\ Turns(f, [flows[f] EXCEPT !.answer = "ok"])
  /\ UNCHANGED <<section, shown, dialogs, secret, wizardVars, deeds, misses, ghostVars>>

-------------------------------------------------------------------------------
(* The answers. *)

(* createLicense: the key into the dialog, on top of whatever is open. *)
LicenseCreated(f) ==
  /\ flows[f].op = "add" /\ flows[f].answer = "ok"
  /\ flows[f].row \in Licenses
  /\ secret' = flows[f].row
  /\ dialogs' = dialogs \cup {"license"}
  /\ Turns(f, [op |-> "load"])
  /\ UNCHANGED <<section, truth, shown, wizardVars, deeds, misses, ghostVars>>

(* The form's dialog is closed and the form reset, without an input event. *)
FormAccepted(f) ==
  /\ flows[f].op = "add" /\ flows[f].answer = "ok"
  /\ IF flows[f].row \in Networks
       THEN dialogs' = dialogs \ {"network"} /\ UNCHANGED wizardVars
       ELSE /\ flows[f].row \in Nodes
            /\ dialogs' = dialogs \ {"device"}
            /\ nodeName' = DefaultName
            /\ reset' = TRUE
            /\ UNCHANGED <<step, agentCommand>>
  /\ Turns(f, [op |-> "load"])
  /\ UNCHANGED <<section, truth, shown, secret, deeds, misses, ghostVars>>

(* Mutant: the page is not drawn again. *)
RevokedUndrawn(f) ==
  /\ flows[f].op = "revoke" /\ flows[f].answer = "ok"
  /\ Turns(f, NoFlow)
  /\ UNCHANGED <<pageVars, wizardVars, deeds, misses, ghostVars>>

Revoked(f) ==
  /\ flows[f].op = "revoke" /\ flows[f].answer = "ok"
  /\ Turns(f, [op |-> "load"])
  /\ UNCHANGED <<pageVars, wizardVars, deeds, misses, ghostVars>>

ProfileSaved(f) ==
  /\ flows[f].op = "profile" /\ flows[f].answer = "ok"
  /\ shown' = [shown EXCEPT !.username = flows[f].username]
  /\ crossed' = (crossed \/ OthersDo(f, {"load", "draw", "profile"}))
  /\ Turns(f, NoFlow)
  /\ UNCHANGED <<section, truth, dialogs, secret, wizardVars, deeds, misses, twice>>

(* A toast or a message in the form. *)
Refused(f) ==
  /\ flows[f].op \in {"add", "revoke", "profile"}
  /\ flows[f].answer = "refused"
  /\ Turns(f, NoFlow)
  /\ UNCHANGED <<pageVars, wizardVars, deeds, misses, ghostVars>>

(* A request that fails, or its answer that is lost, ends the handler. *)
Missed(f) ==
  /\ flows[f] # NoFlow
  /\ misses < MaxMisses
  /\ misses' = misses + 1
  /\ Turns(f, NoFlow)
  /\ UNCHANGED <<pageVars, wizardVars, deeds, ghostVars>>

UserNext ==
  \/ \E f \in Flows :
       \/ ReadOrganization(f) \/ RenderUserDashboard(f)
       \/ Serve(f) \/ LicenseCreated(f) \/ FormAccepted(f) \/ Revoked(f) \/ ProfileSaved(f)
       \/ Refused(f) \/ Missed(f)
       \/ \E row \in Rows : Add(f, row) \/ Revoke(f, row)
       \/ \E name \in Usernames : SaveProfile(f, name)
  \/ \E d \in {"network", "device"} : Open(d)
  \/ \E d \in {"network", "device", "license"} : Close(d)
  \/ \E n \in NodeNames : TypeNodeName(n)
  \/ \E n \in 1 .. 3 : SetNodeWizardStep(n)

UserSpec == UserInit /\ [][UserNext]_userVars

-------------------------------------------------------------------------------
(* A licence key, "affichée qu'une seule fois", stays in its dialog until the user closes   *)
(* it, unless two creations overlapped: the second answer then writes over the first.       *)
KeyStaysUntilClosed ==
  [][ "license" \in dialogs \cap dialogs' => secret' = secret \/ twice ]_userVars

(* When every handler has ended and none failed on the way, the page shows what the server  *)
(* holds, unless it was drawn while another load was under way.                             *)
PageIsTrue ==
  (\A f \in Flows : flows[f] = NoFlow) /\ misses = 0 => crossed \/ shown = truth

(* The command of step 2, which names the node that is enrolled, has the name typed in      *)
(* step 1, unless the form was reset by an activation since: the reset does not write the   *)
(* command again.                                                                           *)
CommandNamesNode == agentCommand = nodeName \/ reset
================================================================================
