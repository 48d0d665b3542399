------------------------------- MODULE StaffPage -------------------------------
(***************************************************************************)
(* The staff page of the web console (loadStaffDashboard in                *)
(* assets/dashboard.js): one row per user with a select of roles.          *)
(*                                                                         *)
(* The page is drawn once.  A change of a select sends a PATCH and the     *)
(* select stays enabled, so that changes overlap; the server handles them  *)
(* in any order, their answers come in any order, and other administrators *)
(* change roles meanwhile.                                                 *)
(***************************************************************************)
EXTENDS Naturals

CONSTANTS
  Users,
  Me,          \* who looks at the page
  Patches,     \* requests that may be under way at once
  MaxChanges,  \* changes of a select
  MaxOthers,   \* changes that others make
  MaxFaults    \* requests, or their answers, that get lost

ASSUME MeAssumption == Me \in Users
ASSUME StaffBoundsAssumption == MaxChanges \in Nat /\ MaxOthers \in Nat /\ MaxFaults \in Nat

VARIABLES
  role,       \* users.role
  overview,   \* "reading", "read", "drawn", or "left" for /dashboard
  drawn,      \* the roles of the overview: what disabled and options were made from
  userRole,   \* user.role of each row, which the handlers read and write
  select,     \* the value of each row's select
  patches,
  changes, others, faults,
  overlapped, \* users with two changes under way at once
  unseen      \* users whose role changed where the page could not see it

staffVars == <<role, overview, drawn, userRole, select, patches, changes, others, faults,
               overlapped, unseen>>

Roles == {"user", "support", "moderator", "admin", "owner"}
StaffRole(r) == r # "user"

NoPatch == [state |-> "none"]
PatchStates ==
  {NoPatch} \cup [state : {"sent", "ok", "refused"}, user : Users, to : Roles, previous : Roles]

StaffTypeOK ==
  /\ role \in [Users -> Roles]
  /\ overview \in {"reading", "read", "drawn", "left"}
  /\ drawn \in [Users -> Roles]
  /\ userRole \in [Users -> Roles]
  /\ select \in [Users -> Roles]
  /\ patches \in [Patches -> PatchStates]
  /\ changes \in 0 .. MaxChanges
  /\ others \in 0 .. MaxOthers
  /\ faults \in 0 .. MaxFaults
  /\ overlapped \subseteq Users
  /\ unseen \subseteq Users
  /\ overview # "drawn" => \A p \in Patches : patches[p] = NoPatch

StaffInit ==
  /\ role \in [Users -> Roles]
  /\ overview = "reading"
  /\ drawn = [u \in Users |-> "user"]
  /\ userRole = drawn
  /\ select = drawn
  /\ patches = [p \in Patches |-> NoPatch]
  /\ changes = 0 /\ others = 0 /\ faults = 0
  /\ overlapped = {}
  /\ unseen = {}

-------------------------------------------------------------------------------
(* GET /staff/overview: the actor and the users; 403 leaves for /dashboard. *)
ReadOverview ==
  /\ overview = "reading"
  /\ IF StaffRole(role[Me])
       THEN overview' = "read" /\ drawn' = role
       ELSE overview' = "left" /\ UNCHANGED drawn
  /\ UNCHANGED <<role, userRole, select, patches, changes, others, faults, overlapped, unseen>>

DrawUsers ==
  /\ overview = "read"
  /\ overview' = "drawn"
  /\ userRole' = drawn
  /\ select' = drawn
  /\ UNCHANGED <<role, drawn, patches, changes, others, faults, overlapped, unseen>>

OverviewFails ==
  /\ overview \in {"reading", "read"}
  /\ faults < MaxFaults
  /\ faults' = faults + 1
  /\ overview' = "left"
  /\ UNCHANGED <<role, drawn, userRole, select, patches, changes, others, overlapped, unseen>>

Disabled(u) ==
  \/ drawn[Me] \notin {"admin", "owner"}
  \/ u = Me
  \/ drawn[u] = "owner" /\ drawn[Me] # "owner"

(* Mutant: every role is offered to everybody. *)
OptionsAll(u) == Roles

(* The roles of a row's select.  An administrator sees "owner" where it is disabled. *)
Options(u) ==
  IF drawn[Me] = "owner" \/ drawn[u] = "owner" THEN Roles ELSE Roles \ {"owner"}

UnderWay(u) == \E p \in Patches : patches[p] # NoPatch /\ patches[p].user = u

(* The change event: previous and the body are read before the first await. *)
ChangeRole(p, u, to) ==
  /\ overview = "drawn"
  /\ changes < MaxChanges
  /\ changes' = changes + 1
  /\ ~Disabled(u)
  /\ to \in Options(u) \ {select[u]}
  /\ patches[p] = NoPatch
  /\ patches' = [patches EXCEPT ![p] =
       [state |-> "sent", user |-> u, to |-> to, previous |-> userRole[u]]]
  /\ select' = [select EXCEPT ![u] = to]
  /\ overlapped' = overlapped \cup {v \in {u} : UnderWay(v)}
  /\ UNCHANGED <<role, overview, drawn, userRole, others, faults, unseen>>

CanManageRole(actor, target, next) ==
  \/ actor = "owner"
  \/ actor = "admin" /\ target # "owner" /\ next # "owner"

(* updateUserRole lets the actor change u's role. *)
Accepts(u, to) == u # Me /\ CanManageRole(role[Me], role[u], to)

UpdateUserRole(p) ==
  /\ patches[p].state = "sent"
  /\ LET u == patches[p].user  to == patches[p].to IN
     IF Accepts(u, to)
       THEN /\ role' = [role EXCEPT ![u] = to]
            /\ patches' = [patches EXCEPT ![p].state = "ok"]
       ELSE /\ patches' = [patches EXCEPT ![p].state = "refused"]
            /\ UNCHANGED role
  /\ UNCHANGED <<overview, drawn, userRole, select, changes, others, faults, overlapped, unseen>>

(* user.role = role.value: the value the select has by now. *)
RoleAccepted(p) ==
  /\ patches[p].state = "ok"
  /\ userRole' = [userRole EXCEPT ![patches[p].user] = select[patches[p].user]]
  /\ patches' = [patches EXCEPT ![p] = NoPatch]
  /\ UNCHANGED <<role, overview, drawn, select, changes, others, faults, overlapped, unseen>>

(* Mutant: the select keeps the value that was refused. *)
SelectKept(p) == select

(* The catch: role.value = previous. *)
SelectReset(p) == [select EXCEPT ![patches[p].user] = patches[p].previous]

RoleRefused(p) ==
  /\ patches[p].state = "refused"
  /\ select' = SelectReset(p)
  /\ patches' = [patches EXCEPT ![p] = NoPatch]
  /\ UNCHANGED <<role, overview, drawn, userRole, changes, others, faults, overlapped, unseen>>

(* The request or its answer is lost: the page takes it for a refusal. *)
RoleLost(p) ==
  /\ patches[p].state \in {"sent", "ok"}
  /\ faults < MaxFaults
  /\ faults' = faults + 1
  /\ select' = SelectReset(p)
  /\ patches' = [patches EXCEPT ![p] = NoPatch]
  /\ unseen' = unseen \cup {u \in {patches[p].user} : patches[p].state = "ok"}
  /\ UNCHANGED <<role, overview, drawn, userRole, changes, others, overlapped>>

(* Another administrator changes a role, the reader's own included. *)
OtherChangesRole(u, to) ==
  /\ others < MaxOthers
  /\ others' = others + 1
  /\ role' = [role EXCEPT ![u] = to]
  /\ unseen' = IF overview = "reading" THEN unseen ELSE unseen \cup {u}
  /\ UNCHANGED <<overview, drawn, userRole, select, patches, changes, faults, overlapped>>

StaffNext ==
  \/ ReadOverview \/ DrawUsers \/ OverviewFails
  \/ \E p \in Patches :
       \/ \E u \in Users, to \in Roles : ChangeRole(p, u, to)
       \/ UpdateUserRole(p) \/ RoleAccepted(p) \/ RoleRefused(p) \/ RoleLost(p)
  \/ \E u \in Users, to \in Roles : OtherChangesRole(u, to)

StaffSpec == StaffInit /\ [][StaffNext]_staffVars

-------------------------------------------------------------------------------
(* A select with no change under way tells the role the user has, and so does user.role,    *)
(* to which a refused change goes back, unless two changes of the user overlapped or the    *)
(* role changed where the page could not see it.                                            *)
RoleShown ==
  overview = "drawn" =>
    \A u \in Users \ (overlapped \cup unseen) :
      ~UnderWay(u) => select[u] = role[u] /\ userRole[u] = role[u]

(* The page offers no change that the server refuses: whatever can be chosen in a row is    *)
(* accepted by updateUserRole, unless the roles of the reader or of that user changed       *)
(* unseen.                                                                                  *)
OfferedIsAccepted ==
  overview = "drawn" =>
    \A u \in Users \ unseen :
      Me \notin unseen /\ ~Disabled(u) => \A to \in Options(u) : Accepts(u, to)
===============================================================================
