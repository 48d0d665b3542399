---------------------------- MODULE StaffPageProofs ----------------------------
(***************************************************************************)
(* Proofs about the staff page for any users, any number of changes at     *)
(* once and any number of other administrators' changes.  The inductive    *)
(* invariant, StaffIInv, says what a change under way knows of its user's  *)
(* role, and what is left of the roles the page was drawn from.            *)
(***************************************************************************)
EXTENDS WebConsole, TLAPS

-------------------------------------------------------------------------------
(* Types. *)

(* A patch that moves on keeps the patches typed. *)
LEMMA PatchTypes ==
  ASSUME NEW p \in Patches, NEW q \in PatchStates, patches \in [Patches -> PatchStates]
  PROVE  [patches EXCEPT ![p] = q] \in [Patches -> PatchStates]
OBVIOUS

(* A patch under way names a user and two roles. *)
LEMMA PatchFields ==
  ASSUME NEW p \in Patches, patches \in [Patches -> PatchStates], patches[p] # NoPatch
  PROVE  /\ patches[p] \in [state : {"sent", "ok", "refused"}, user : Users, to : Roles,
                            previous : Roles]
         /\ patches[p].state # "none"
BY DEF PatchStates, NoPatch

(* The first state is typed. *)
LEMMA StaffInitTypes == StaffInit => StaffTypeOK
BY StaffBoundsAssumption DEF StaffInit, StaffTypeOK, PatchStates, NoPatch, Roles

(* Every step keeps every type. *)
LEMMA StaffStepTypes == StaffTypeOK /\ [StaffNext]_staffVars => StaffTypeOK'
<1> SUFFICES ASSUME StaffTypeOK, [StaffNext]_staffVars PROVE StaffTypeOK'
  OBVIOUS
<1> USE StaffBoundsAssumption DEF StaffTypeOK
<1>1. CASE ReadOverview
  BY <1>1 DEF ReadOverview
<1>2. CASE DrawUsers
  BY <1>2 DEF DrawUsers
<1>3. CASE OverviewFails
  BY <1>3 DEF OverviewFails
<1>4. ASSUME NEW p \in Patches, NEW u \in Users, NEW to \in Roles, ChangeRole(p, u, to)
      PROVE  StaffTypeOK'
  <2> DEFINE q == [state |-> "sent", user |-> u, to |-> to, previous |-> userRole[u]]
  <2>1. q \in PatchStates
    BY DEF PatchStates
  <2>2. patches' \in [Patches -> PatchStates]
    BY <1>4, <2>1, PatchTypes DEF ChangeRole
  <2>3. {v \in {u} : UnderWay(v)} \subseteq Users
    OBVIOUS
  <2>. QED  BY <1>4, <2>2, <2>3 DEF ChangeRole
<1>5. ASSUME NEW p \in Patches, UpdateUserRole(p) PROVE StaffTypeOK'
  <2>1. patches[p] # NoPatch
    BY <1>5 DEF UpdateUserRole, NoPatch
  <2>2. patches[p] \in [state : {"sent", "ok", "refused"}, user : Users, to : Roles,
                        previous : Roles]
    BY <2>1, PatchFields
  <2>3. /\ [patches[p] EXCEPT !.state = "ok"] \in PatchStates
        /\ [patches[p] EXCEPT !.state = "refused"] \in PatchStates
    BY <2>2 DEF PatchStates
  <2>4. \/ patches' = [patches EXCEPT ![p] = [patches[p] EXCEPT !.state = "ok"]]
        \/ patches' = [patches EXCEPT ![p] = [patches[p] EXCEPT !.state = "refused"]]
    BY <1>5 DEF UpdateUserRole
  <2>5. patches' \in [Patches -> PatchStates]
    BY <2>3, <2>4, PatchTypes
  <2>6. role' \in [Users -> Roles]
    BY <1>5, <2>2 DEF UpdateUserRole
  <2>. QED  BY <1>5, <2>1, <2>5, <2>6 DEF UpdateUserRole
<1>6. ASSUME NEW p \in Patches, RoleAccepted(p) \/ RoleRefused(p) \/ RoleLost(p)
      PROVE  StaffTypeOK'
  <2>1. patches[p] # NoPatch
    BY <1>6 DEF RoleAccepted, RoleRefused, RoleLost, NoPatch
  <2>2. patches[p] \in [state : {"sent", "ok", "refused"}, user : Users, to : Roles,
                        previous : Roles]
    BY <2>1, PatchFields
  <2>3. [patches EXCEPT ![p] = NoPatch] \in [Patches -> PatchStates]
    BY PatchTypes DEF PatchStates
  <2>4. /\ userRole' \in [Users -> Roles]
        /\ select' \in [Users -> Roles]
        /\ unseen' \subseteq Users
        /\ faults' \in 0 .. MaxFaults
    BY <1>6, <2>2 DEF RoleAccepted, RoleRefused, RoleLost, SelectReset
  <2>. QED  BY <1>6, <2>1, <2>3, <2>4 DEF RoleAccepted, RoleRefused, RoleLost
<1>7. ASSUME NEW u \in Users, NEW to \in Roles, OtherChangesRole(u, to) PROVE StaffTypeOK'
  BY <1>7 DEF OtherChangesRole
<1>8. CASE UNCHANGED staffVars
  BY <1>8 DEF staffVars
<1>. QED  BY <1>1, <1>2, <1>3, <1>4, <1>5, <1>6, <1>7, <1>8 DEF StaffNext

-------------------------------------------------------------------------------
(* What the page knows of the roles. *)

(* The change of a user that is alone under way. *)
PatchKnows(p, u) ==
  /\ patches[p].previous = userRole[u]
  /\ patches[p].to = select[u]
  /\ IF patches[p].state = "ok" THEN role[u] = select[u] ELSE role[u] = userRole[u]

IsFor(p, u) == patches[p] # NoPatch /\ patches[p].user = u

PageKnows ==
  overview = "drawn" =>
    \A u \in Users \ (overlapped \cup unseen) :
      /\ \A p, q \in Patches : IsFor(p, u) /\ IsFor(q, u) => p = q
      /\ \A p \in Patches : IsFor(p, u) => PatchKnows(p, u)
      /\ ~UnderWay(u) => select[u] = role[u] /\ userRole[u] = role[u]

(* What was read is what holds, where nobody else changed it. *)
ReadKnows == overview = "read" => \A u \in Users \ unseen : drawn[u] = role[u]

(* The reader's role is the one drawn, and no new owner came from the reader's changes. *)
RightsKnown ==
  overview \in {"read", "drawn"} /\ Me \notin unseen =>
    /\ role[Me] = drawn[Me]
    /\ \A u \in Users \ unseen : role[u] = "owner" => "owner" \in {drawn[u], drawn[Me]}

StaffIInv == StaffTypeOK /\ PageKnows /\ ReadKnows /\ RightsKnown

(* The first state satisfies the inductive invariant. *)
LEMMA StaffInitIInv == StaffInit => StaffIInv
BY StaffInitTypes DEF StaffInit, StaffIInv, PageKnows, ReadKnows, RightsKnown

(* Reading and drawing the overview. *)
LEMMA OverviewStep ==
  StaffIInv /\ (ReadOverview \/ DrawUsers \/ OverviewFails)
    => PageKnows' /\ ReadKnows' /\ RightsKnown'
<1> SUFFICES ASSUME StaffIInv, ReadOverview \/ DrawUsers \/ OverviewFails
             PROVE  PageKnows' /\ ReadKnows' /\ RightsKnown'
  OBVIOUS
<1> USE MeAssumption DEF StaffIInv, StaffTypeOK
<1>1. CASE ReadOverview
  BY <1>1 DEF ReadOverview, PageKnows, ReadKnows, RightsKnown
<1>2. CASE DrawUsers
  <2>1. \A p \in Patches : patches'[p] = NoPatch
    BY <1>2 DEF DrawUsers
  <2>2. PageKnows'
    BY <1>2, <2>1 DEF DrawUsers, PageKnows, ReadKnows, IsFor, UnderWay
  <2>. QED  BY <1>2, <2>2 DEF DrawUsers, ReadKnows, RightsKnown
<1>3. CASE OverviewFails
  BY <1>3 DEF OverviewFails, PageKnows, ReadKnows, RightsKnown
<1>. QED  BY <1>1, <1>2, <1>3

(* A change that is sent: the only one of its user, unless it marks the user overlapped. *)
LEMMA ChangeStep ==
  ASSUME StaffIInv, NEW p \in Patches, NEW u \in Users, NEW to \in Roles, ChangeRole(p, u, to)
  PROVE  PageKnows' /\ ReadKnows' /\ RightsKnown'
<1> USE DEF StaffIInv, StaffTypeOK
<1>1. /\ overview = "drawn" /\ overview' = "drawn"
      /\ patches[p] = NoPatch
      /\ patches' = [patches EXCEPT ![p] =
           [state |-> "sent", user |-> u, to |-> to, previous |-> userRole[u]]]
      /\ select' = [select EXCEPT ![u] = to]
      /\ overlapped' = overlapped \cup {v \in {u} : UnderWay(v)}
      /\ UNCHANGED <<role, drawn, userRole, unseen>>
  BY DEF ChangeRole
<1>2. ReadKnows' /\ RightsKnown'
  BY <1>1 DEF ReadKnows, RightsKnown
<1>3. ASSUME NEW v \in Users \ (overlapped' \cup unseen')
      PROVE  /\ \A a, b \in Patches : IsFor(a, v)' /\ IsFor(b, v)' => a = b
             /\ \A a \in Patches : IsFor(a, v)' => PatchKnows(a, v)'
             /\ ~UnderWay(v)' => select'[v] = role'[v] /\ userRole'[v] = role'[v]
  <2>1. v \in Users \ (overlapped \cup unseen)
    BY <1>1
  <2>2. CASE v = u
    <3>1. ~UnderWay(u)
      BY <1>1, <2>2
    <3>2. \A a \in Patches : IsFor(a, v)' => a = p
      BY <1>1, <2>2, <3>1 DEF IsFor, UnderWay
    <3>3. select[u] = role[u] /\ userRole[u] = role[u]
      BY <1>1, <2>1, <2>2, <3>1 DEF PageKnows
    <3>4. UnderWay(v)'
      BY <1>1, <2>2 DEF UnderWay, NoPatch
    <3>5. PatchKnows(p, v)'
      BY <1>1, <2>2, <3>3 DEF PatchKnows
    <3>. QED  BY <3>2, <3>4, <3>5
  <2>3. CASE v # u
    <3>1. \A a \in Patches : IsFor(a, v)' <=> IsFor(a, v)
      BY <1>1, <2>3 DEF IsFor
    <3>2. UnderWay(v)' <=> UnderWay(v)
      BY <3>1 DEF UnderWay, IsFor
    <3>3. \A a \in Patches : IsFor(a, v) => patches'[a] = patches[a]
      BY <1>1 DEF IsFor
    <3>4. select'[v] = select[v]
      BY <1>1, <2>3
    <3>. QED  BY <1>1, <2>1, <3>1, <3>2, <3>3, <3>4 DEF PageKnows, PatchKnows
  <2>. QED  BY <2>2, <2>3
<1>. QED  BY <1>1, <1>2, <1>3 DEF PageKnows

(* The server handles a change. *)
LEMMA UpdateStep ==
  ASSUME StaffIInv, NEW p \in Patches, UpdateUserRole(p)
  PROVE  PageKnows' /\ ReadKnows' /\ RightsKnown'
<1> USE DEF StaffIInv, StaffTypeOK
<1> DEFINE u == patches[p].user
<1>1. patches[p] # NoPatch
  BY DEF UpdateUserRole, NoPatch
<1>2. /\ patches[p] \in [state : {"sent", "ok", "refused"}, user : Users, to : Roles,
                         previous : Roles]
      /\ overview = "drawn" /\ patches[p].state = "sent"
  BY <1>1, PatchFields DEF UpdateUserRole
<1>3. /\ UNCHANGED <<overview, drawn, userRole, select, overlapped, unseen>>
      /\ \/ /\ Accepts(u, patches[p].to)
            /\ role' = [role EXCEPT ![u] = patches[p].to]
            /\ patches' = [patches EXCEPT ![p].state = "ok"]
         \/ /\ patches' = [patches EXCEPT ![p].state = "refused"]
            /\ role' = role
  BY DEF UpdateUserRole
<1>4. ReadKnows' /\ RightsKnown'
  BY <1>2, <1>3, MeAssumption DEF ReadKnows, RightsKnown, Accepts, CanManageRole
<1>5. ASSUME NEW v \in Users \ (overlapped' \cup unseen')
      PROVE  /\ \A a, b \in Patches : IsFor(a, v)' /\ IsFor(b, v)' => a = b
             /\ \A a \in Patches : IsFor(a, v)' => PatchKnows(a, v)'
             /\ ~UnderWay(v)' => select'[v] = role'[v] /\ userRole'[v] = role'[v]
  <2>1. /\ \A a, b \in Patches : IsFor(a, v) /\ IsFor(b, v) => a = b
        /\ \A a \in Patches : IsFor(a, v) => PatchKnows(a, v)
        /\ ~UnderWay(v) => select[v] = role[v] /\ userRole[v] = role[v]
    BY <1>2, <1>3, <1>5 DEF PageKnows
  <2>2. \A a \in Patches : IsFor(a, v)' <=> IsFor(a, v)
    BY <1>1, <1>2, <1>3 DEF IsFor, NoPatch
  <2>3. UnderWay(v)' <=> UnderWay(v)
    BY <2>2 DEF UnderWay, IsFor
  <2>4. CASE v = u
    <3>1. IsFor(p, v) /\ PatchKnows(p, v)
      BY <1>1, <2>1, <2>4 DEF IsFor
    <3>2. PatchKnows(p, v)'
      BY <1>2, <1>3, <2>4, <3>1 DEF PatchKnows
    <3>3. UnderWay(v)
      BY <3>1 DEF UnderWay, IsFor
    <3>. QED  BY <2>1, <2>2, <2>3, <3>1, <3>2, <3>3
  <2>5. CASE v # u
    <3>1. \A a \in Patches : IsFor(a, v) => a # p
      BY <2>5 DEF IsFor
    <3>2. role'[v] = role[v]
      BY <1>2, <1>3, <2>5
    <3>3. \A a \in Patches : IsFor(a, v) => patches'[a] = patches[a]
      BY <1>3, <3>1
    <3>. QED  BY <1>3, <2>1, <2>2, <2>3, <3>2, <3>3 DEF PatchKnows
  <2>. QED  BY <2>4, <2>5
<1>. QED  BY <1>3, <1>4, <1>5 DEF PageKnows

(* The answer of a change, or its loss. *)
LEMMA AnswerStep ==
  ASSUME StaffIInv, NEW p \in Patches, RoleAccepted(p) \/ RoleRefused(p) \/ RoleLost(p)
  PROVE  PageKnows' /\ ReadKnows' /\ RightsKnown'
<1> USE DEF StaffIInv, StaffTypeOK
<1> DEFINE u == patches[p].user
<1>1. patches[p] # NoPatch
  BY DEF RoleAccepted, RoleRefused, RoleLost, NoPatch
<1>2. /\ patches[p] \in [state : {"sent", "ok", "refused"}, user : Users, to : Roles,
                         previous : Roles]
      /\ overview = "drawn" /\ u \in Users
  BY <1>1, PatchFields
<1>3. /\ UNCHANGED <<overview, drawn, role, overlapped>>
      /\ unseen \subseteq unseen'
      /\ patches' = [patches EXCEPT ![p] = NoPatch]
  BY DEF RoleAccepted, RoleRefused, RoleLost
<1>4. /\ \A v \in Users \ {u} : select'[v] = select[v] /\ userRole'[v] = userRole[v]
      /\ u \notin unseen' => \/ /\ patches[p].state = "ok"
                                /\ userRole'[u] = select[u] /\ select'[u] = select[u]
                             \/ /\ patches[p].state # "ok"
                                /\ userRole'[u] = userRole[u]
                                /\ select'[u] = patches[p].previous
  BY <1>2 DEF RoleAccepted, RoleRefused, RoleLost, SelectReset
<1>5. ReadKnows' /\ RightsKnown'
  BY <1>2, <1>3 DEF ReadKnows, RightsKnown
<1>6. ASSUME NEW v \in Users \ (overlapped' \cup unseen')
      PROVE  /\ \A a, b \in Patches : IsFor(a, v)' /\ IsFor(b, v)' => a = b
             /\ \A a \in Patches : IsFor(a, v)' => PatchKnows(a, v)'
             /\ ~UnderWay(v)' => select'[v] = role'[v] /\ userRole'[v] = role'[v]
  <2>1. /\ \A a, b \in Patches : IsFor(a, v) /\ IsFor(b, v) => a = b
        /\ \A a \in Patches : IsFor(a, v) => PatchKnows(a, v)
        /\ ~UnderWay(v) => select[v] = role[v] /\ userRole[v] = role[v]
    BY <1>2, <1>3, <1>6 DEF PageKnows
  <2>2. \A a \in Patches : IsFor(a, v)' => IsFor(a, v) /\ a # p /\ patches'[a] = patches[a]
    BY <1>3 DEF IsFor
  <2>3. CASE v = u
    <3>1. IsFor(p, v) /\ PatchKnows(p, v)
      BY <1>1, <2>1, <2>3 DEF IsFor
    <3>2. \A a \in Patches : ~IsFor(a, v)'
      BY <2>1, <2>2, <3>1
    <3>3. select'[v] = role'[v] /\ userRole'[v] = role'[v]
      BY <1>3, <1>4, <1>6, <2>3, <3>1 DEF PatchKnows
    <3>. QED  BY <3>2, <3>3
  <2>4. CASE v # u
    <3>1. \A a \in Patches : IsFor(a, v) => IsFor(a, v)'
      BY <1>3, <2>4 DEF IsFor
    <3>2. UnderWay(v)' <=> UnderWay(v)
      BY <2>2, <3>1 DEF UnderWay, IsFor
    <3>. QED  BY <1>3, <1>4, <2>1, <2>2, <2>4, <3>2 DEF PatchKnows
  <2>. QED  BY <2>3, <2>4
<1>. QED  BY <1>3, <1>5, <1>6 DEF PageKnows

(* A change made elsewhere. *)
LEMMA OtherStep ==
  ASSUME StaffIInv, NEW u \in Users, NEW to \in Roles, OtherChangesRole(u, to)
  PROVE  PageKnows' /\ ReadKnows' /\ RightsKnown'
<1> USE DEF StaffIInv, StaffTypeOK
<1>1. /\ UNCHANGED <<overview, drawn, userRole, select, patches, overlapped>>
      /\ unseen \subseteq unseen'
      /\ overview \in {"read", "drawn"} => u \in unseen'
      /\ \A v \in Users \ {u} : role'[v] = role[v]
  BY DEF OtherChangesRole
<1>. QED  BY <1>1, MeAssumption
          DEF PageKnows, ReadKnows, RightsKnown, IsFor, PatchKnows, UnderWay

(* Every step keeps the inductive invariant. *)
LEMMA StaffStepIInv == StaffIInv /\ [StaffNext]_staffVars => StaffIInv'
<1> SUFFICES ASSUME StaffIInv, [StaffNext]_staffVars
             PROVE  PageKnows' /\ ReadKnows' /\ RightsKnown'
  BY StaffStepTypes DEF StaffIInv
<1>1. CASE UNCHANGED staffVars
  BY <1>1 DEF staffVars, StaffIInv, PageKnows, ReadKnows, RightsKnown, IsFor, PatchKnows,
              UnderWay
<1>. QED  BY <1>1, OverviewStep, ChangeStep, UpdateStep, AnswerStep, OtherStep DEF StaffNext

-------------------------------------------------------------------------------
(* What follows for the console. *)

(* The staff page is one of the console's pages. *)
LEMMA SpecStaff == Spec => StaffInit /\ [][StaffNext]_staffVars
<1>1. Init => StaffInit
  BY DEF Init
<1>2. [Next]_vars => [StaffNext]_staffVars
  BY DEF Next, vars, staffVars
<1>. QED  BY <1>1, <1>2, PTL DEF Spec

(* The staff page's inductive invariant holds throughout. *)
LEMMA StaffInvariant == Spec => []StaffIInv
BY SpecStaff, StaffInitIInv, StaffStepIInv, PTL

(* A select with no change under way tells its user's role, and so does the value that a    *)
(* refused change goes back to, however the changes of other users interleave.              *)
THEOREM RolesAreShown == Spec => []RoleShown
<1>1. StaffIInv => RoleShown
  BY DEF StaffIInv, PageKnows, RoleShown
<1>. QED  BY <1>1, StaffInvariant, PTL

(* What the page offers the server accepts: the rows' options follow from the same rule as  *)
(* canManageRole as long as the two roles they were made from hold.                         *)
THEOREM OffersAreAccepted == Spec => []OfferedIsAccepted
<1>1. StaffIInv => OfferedIsAccepted
  BY MeAssumption DEF StaffIInv, StaffTypeOK, RightsKnown, OfferedIsAccepted, Disabled, Options,
                      Accepts, CanManageRole, Roles
<1>. QED  BY <1>1, StaffInvariant, PTL
===============================================================================
