------------------------------ MODULE StatusBoard ------------------------------
(***************************************************************************)
(* The public status board: the monitoring service, which probes the       *)
(* platform and keeps incidents (internal/server/server.go), and the page  *)
(* that polls it (web/src/main.jsx).                                       *)
(*                                                                         *)
(* The incidents are kept in the database that is probed itself, and every *)
(* error of a read or a write is ignored.  The page starts a load every    *)
(* thirty seconds and at a click, without waiting for the one before.      *)
(***************************************************************************)
EXTENDS Naturals

CONSTANTS
  Components,
  Database,     \* "postgresql" in the code
  Loads,        \* requests of the page that may be under way at once
  MaxFlaps,     \* components that go down or come up
  MaxFaults,    \* restarts of the service, statements that fail although the database is
                \* up, requests of the page that fail
  None

ASSUME DatabaseAssumption == Database \in Components
ASSUME BoundsAssumption == MaxFlaps \in Nat /\ MaxFaults \in Nat

VARIABLES
  up,        \* the components that answer a probe
  open,      \* how many incidents of each component are "investigating"
  recorded,  \* whether the database holds any incident
  (* the monitoring service *)
  check,     \* checkAll: the results, those still to be recorded, and whether a statement failed
  status,    \* what GET /status answers
  (* the page *)
  data, error, refreshing,
  loads,
  flaps, faults

worldVars == <<up, open, recorded>>
serverVars == <<check, status>>
pageVars == <<data, error, refreshing, loads>>
vars == <<worldVars, serverVars, pageVars, flaps, faults>>

Answers ==
  [status : {"initializing", "operational", "major_outage"}, investigating : SUBSET Components,
   listed : BOOLEAN, blind : BOOLEAN]

Initializing ==
  [status |-> "initializing", investigating |-> {}, listed |-> FALSE, blind |-> FALSE]

NoCheck == [phase |-> "waiting"]
Checks ==
  {NoCheck} \cup [phase : {"recording"}, healthy : SUBSET Components, todo : SUBSET Components,
                  blind : BOOLEAN]

NoLoad == [state |-> "none"]
LoadStates == {NoLoad} \cup [state : {"sent"}] \cup [state : {"answered"}, answer : Answers]

TypeOK ==
  /\ up \subseteq Components
  /\ open \in [Components -> Nat]
  /\ recorded \in BOOLEAN
  /\ check \in Checks
  /\ status \in Answers
  /\ data \in Answers \cup {None}
  /\ error \in BOOLEAN
  /\ refreshing \in BOOLEAN
  /\ loads \in [Loads -> LoadStates]
  /\ flaps \in 0 .. MaxFlaps
  /\ faults \in 0 .. MaxFaults
  /\ refreshing => \E l \in Loads : loads[l] # NoLoad

Init ==
  /\ up \in SUBSET Components
  /\ open = [c \in Components |-> 0]
  /\ recorded = FALSE
  /\ check = NoCheck
  /\ status = Initializing
  /\ data = None
  /\ error = FALSE
  /\ refreshing = FALSE
  /\ loads = [l \in Loads |-> NoLoad]
  /\ flaps = 0 /\ faults = 0

-------------------------------------------------------------------------------
Fault == faults < MaxFaults /\ faults' = faults + 1

(* Components fail and recover. *)
Flap(c) ==
  /\ flaps < MaxFlaps
  /\ flaps' = flaps + 1
  /\ up' = IF c \in up THEN up \ {c} ELSE up \cup {c}
  /\ UNCHANGED <<open, recorded, serverVars, pageVars, faults>>

(* The monitoring service restarts; it knows its results no more. *)
Restart ==
  /\ Fault
  /\ check' = NoCheck
  /\ status' = Initializing
  /\ UNCHANGED <<worldVars, pageVars, flaps>>

-------------------------------------------------------------------------------
(* checkAll. *)

(* All probes have ended, each within four seconds. *)
Probe ==
  /\ check = NoCheck
  /\ check' = [phase |-> "recording", healthy |-> up, todo |-> Components, blind |-> FALSE]
  /\ UNCHANGED <<worldVars, status, pageVars, flaps, faults>>

(* Mutant: any error of the lookup is taken for ErrRecordNotFound. *)
OpensUnchecked(c, known, n) == c \notin check.healthy /\ (~known \/ n = 0)

(* An incident is opened if the lookup found none, not if it failed. *)
Opens(c, known, n) == c \notin check.healthy /\ known /\ n = 0

(* Mutant: the incident is never resolved. *)
ResolvesNever(c, known, n) == FALSE

Resolves(c, known, n) == c \in check.healthy /\ known /\ n > 0

(* A statement fails when the database is down, or as a fault. *)
Fails(ok) ==
  /\ ok => Database \in up
  /\ IF ok \/ Database \notin up THEN UNCHANGED faults ELSE Fault

(* record: known, the lookup of the open incident was answered; written, the write of the   *)
(* snapshot and of the incident succeeded.                                                  *)
Record(c) ==
  /\ check # NoCheck
  /\ c \in check.todo
  /\ \E known, written \in BOOLEAN :
       /\ known \/ written => Database \in up
       /\ Fails(known /\ written)
       /\ open' = [open EXCEPT ![c] = CASE written /\ Opens(c, known, @) -> @ + 1
                                        [] written /\ Resolves(c, known, @) -> @ - 1
                                        [] OTHER -> @]
       /\ recorded' = (recorded \/ open'[c] > open[c])
       /\ check' = [check EXCEPT !.todo = @ \ {c}, !.blind = @ \/ ~known \/ ~written]
  /\ UNCHANGED <<up, status, pageVars, flaps>>

Published(healthy, found) ==
  [status |-> IF healthy = Components THEN "operational" ELSE "major_outage",
   investigating |-> IF found THEN {c \in Components : open[c] > 0} ELSE {},
   listed |-> found /\ recorded,
   blind |-> check.blind \/ ~found]

(* Mutant: the incidents are read before the results are recorded. *)
ReadyAtOnce == check # NoCheck

Ready == check # NoCheck /\ check.todo = {}

(* The end of checkAll: the incidents are read and the status is replaced. *)
Publish ==
  /\ Ready
  /\ \E found \in BOOLEAN : Fails(found) /\ status' = Published(check.healthy, found)
  /\ check' = NoCheck
  /\ UNCHANGED <<worldVars, pageVars, flaps>>

-------------------------------------------------------------------------------
(* The page: usePolling. *)

(* The interval, the refresh button, or the page being opened. *)
Load(l) ==
  /\ loads[l] = NoLoad
  /\ loads' = [loads EXCEPT ![l] = [state |-> "sent"]]
  /\ refreshing' = TRUE
  /\ UNCHANGED <<worldVars, serverVars, data, error, flaps, faults>>

HandleStatus(l) ==
  /\ loads[l].state = "sent"
  /\ loads' = [loads EXCEPT ![l] = [state |-> "answered", answer |-> status]]
  /\ UNCHANGED <<worldVars, serverVars, data, error, refreshing, flaps, faults>>

Loaded(l) ==
  /\ loads[l].state = "answered"
  /\ data' = loads[l].answer
  /\ error' = FALSE
  /\ refreshing' = FALSE
  /\ loads' = [loads EXCEPT ![l] = NoLoad]
  /\ UNCHANGED <<worldVars, serverVars, flaps, faults>>

(* Mutant: without the finally. *)
LoadFailsSpinning(l) ==
  /\ loads[l] # NoLoad
  /\ Fault
  /\ error' = TRUE
  /\ loads' = [loads EXCEPT ![l] = NoLoad]
  /\ UNCHANGED <<worldVars, serverVars, data, refreshing, flaps>>

LoadFails(l) ==
  /\ loads[l] # NoLoad
  /\ Fault
  /\ error' = TRUE
  /\ refreshing' = FALSE
  /\ loads' = [loads EXCEPT ![l] = NoLoad]
  /\ UNCHANGED <<worldVars, serverVars, data, flaps>>

Next ==
  \/ \E c \in Components : Flap(c) \/ Record(c)
  \/ Probe \/ Publish \/ Restart
  \/ \E l \in Loads : Load(l) \/ HandleStatus(l) \/ Loaded(l) \/ LoadFails(l)

Spec == Init /\ [][Next]_vars

(* The ticker of Run and the interval of the page go on, every probe and every request ends. *)
Fairness ==
  /\ WF_vars(Probe) /\ WF_vars(Publish)
  /\ \A c \in Components : WF_vars(Record(c))
  /\ WF_vars(\E l \in Loads : Load(l))
  /\ \A l \in Loads : WF_vars(HandleStatus(l)) /\ WF_vars(Loaded(l))

FairSpec == Spec /\ Fairness

-------------------------------------------------------------------------------
(* A component has one open incident at most, though lookups and writes fail unnoticed and  *)
(* the service restarts between its checks.                                                 *)
OneOpenIncident == \A c \in Components : open[c] <= 1

(* "Aucun incident enregistré" is shown beside a major outage only if a statement failed    *)
(* during that check: otherwise the outage has opened its incident before the list is read. *)
QuietMeansBlind ==
  data # None => (data.status = "major_outage" /\ ~data.listed => data.blind)

Healthy == data # None /\ data.status = "operational" /\ ~error

(* Whatever happened before: when everything is up for good the page says so in the end, and *)
(* no incident is left open on it; when something stays down the page does not stay healthy. *)
(* Answers that overtake each other, failed statements and restarts only delay it.           *)
BoardConverges ==
  /\ <>[](up = Components) => <>[](Healthy /\ data.investigating = {})
  /\ \A c \in Components : <>[](c \notin up) => <>[]~Healthy
===============================================================================
