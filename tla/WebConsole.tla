------------------------------ MODULE WebConsole ------------------------------
(***************************************************************************)
(* The pages of the web console other than the servers page.  A browser    *)
(* tab shows one of them; the modules describe what happens on each.       *)
(***************************************************************************)
EXTENDS StaffPage, UserPage, AuthPages

VARIABLE tab  \* which of the pages the tab shows

vars == <<tab, staffVars, userVars, authVars>>

TypeOK ==
  /\ tab \in {"staff", "user", "auth"}
  /\ StaffTypeOK
  /\ UserTypeOK
  /\ AuthTypeOK

(* What is on the pages that are not shown does not matter: one state of each stands for all. *)
Init ==
  /\ tab \in {"staff", "user", "auth"}
  /\ StaffInit
  /\ tab # "staff" => role = [u \in Users |-> "user"]
  /\ UserInit
  /\ tab # "user" =>
       /\ \A r \in Rows : truth.status[r] = "absent"
       /\ truth.username = CHOOSE name \in Usernames : TRUE
       /\ section = "profile"
       /\ flows = [flows EXCEPT ![CHOOSE f \in Flows : TRUE] = [op |-> "load"]]
  /\ AuthInit
  /\ tab # "auth" => mailer /\ page = "login"

Next ==
  \/ tab = "staff" /\ StaffNext /\ UNCHANGED <<tab, userVars, authVars>>
  \/ tab = "user" /\ UserNext /\ UNCHANGED <<tab, staffVars, authVars>>
  \/ tab = "auth" /\ AuthNext /\ UNCHANGED <<tab, staffVars, userVars>>

Spec == Init /\ [][Next]_vars
===============================================================================
