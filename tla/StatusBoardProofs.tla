--------------------------- MODULE StatusBoardProofs ---------------------------
(***************************************************************************)
(* Proofs about the status board for any components, any number of loads   *)
(* under way, failures of components and faults.  The inductive invariant, *)
(* IInv, follows an outage from the check that saw it, through the         *)
(* incident it opens, to every answer that is on its way.                  *)
(***************************************************************************)
EXTENDS StatusBoard, TLAPS

(* An answer that says nothing of an outage comes from a check in which a statement failed. *)
Excused(a) == a.status = "major_outage" /\ ~a.listed => a.blind

(* The components that were recorded as down have left an incident, or a statement failed. *)
CheckKnows ==
  check # NoCheck =>
    \A c \in Components : c \notin check.healthy \cup check.todo => recorded \/ check.blind

(* Incidents are rows. *)
OpenIsRecorded == \A c \in Components : open[c] > 0 => recorded

AnswersExcused ==
  /\ Excused(status)
  /\ data # None => Excused(data)
  /\ \A l \in Loads : loads[l].state = "answered" => Excused(loads[l].answer)

IInv == TypeOK /\ OneOpenIncident /\ CheckKnows /\ OpenIsRecorded /\ AnswersExcused

-------------------------------------------------------------------------------
(* Types. *)

(* A check that records has results. *)
LEMMA CheckFields ==
  ASSUME check \in Checks, check # NoCheck
  PROVE  /\ check \in [phase : {"recording"}, healthy : SUBSET Components,
                      todo : SUBSET Components, blind : BOOLEAN]
         /\ check.healthy \subseteq Components
         /\ check.todo \subseteq Components
         /\ check.blind \in BOOLEAN
BY DEF Checks

(* A check that goes on. *)
LEMMA CheckExcept ==
  ASSUME NEW H, NEW t \in H, NEW b \in BOOLEAN, NEW x,
         x \in [phase : {"recording"}, healthy : H, todo : H, blind : BOOLEAN]
  PROVE  LET y == [x EXCEPT !.todo = t, !.blind = b] IN
         /\ y \in [phase : {"recording"}, healthy : H, todo : H, blind : BOOLEAN]
         /\ y.healthy = x.healthy /\ y.todo = t /\ y.blind = b
OBVIOUS

(* An answered load has an answer. *)
LEMMA LoadFields ==
  ASSUME NEW load \in LoadStates
  PROVE  /\ load.state = "answered" => load.answer \in Answers
         /\ load # NoLoad => load.state # "none"
BY DEF LoadStates, NoLoad

(* What the page may hold of a load. *)
LEMMA LoadKinds ==
  ASSUME NEW a \in Answers
  PROVE  /\ NoLoad \in LoadStates /\ NoLoad.state = "none"
         /\ [state |-> "sent"] \in LoadStates
         /\ [state |-> "answered", answer |-> a] \in LoadStates
BY DEF LoadStates, NoLoad

(* The status of a service that has just started. *)
LEMMA InitializingTyped == Initializing \in Answers /\ Excused(Initializing)
BY DEF Initializing, Answers, Excused

(* The first state satisfies the inductive invariant. *)
LEMMA InitIInv == Init => IInv
<1> SUFFICES ASSUME Init PROVE IInv
  OBVIOUS
<1> USE DEF Init
<1>1. NoCheck \in Checks /\ NoLoad \in LoadStates /\ NoLoad.state = "none"
  BY DEF Checks, LoadStates, NoLoad
<1>2. flaps \in 0 .. MaxFlaps /\ faults \in 0 .. MaxFaults
  BY BoundsAssumption
<1>3. open \in [Components -> Nat] /\ \A c \in Components : open[c] = 0
  OBVIOUS
<1>4. loads \in [Loads -> LoadStates] /\ \A l \in Loads : loads[l].state = "none"
  BY <1>1
<1>5. TypeOK
  BY <1>1, <1>2, <1>3, <1>4, InitializingTyped DEF TypeOK
<1>6. OneOpenIncident /\ OpenIsRecorded
  BY <1>3 DEF OneOpenIncident, OpenIsRecorded
<1>7. CheckKnows
  BY DEF CheckKnows
<1>8. AnswersExcused
  BY <1>4, InitializingTyped DEF AnswersExcused
<1>. QED  BY <1>5, <1>6, <1>7, <1>8 DEF IInv

-------------------------------------------------------------------------------
(* Steps. *)

(* A statement that fails is counted within the bound. *)
LEMMA FailsTyped ==
  ASSUME NEW ok \in BOOLEAN, Fails(ok), faults \in 0 .. MaxFaults
  PROVE  faults' \in 0 .. MaxFaults
BY BoundsAssumption DEF Fails, Fault

(* The world and the restart of the service. *)
LEMMA WorldStep ==
  IInv /\ ((\E c \in Components : Flap(c)) \/ Restart) => IInv'
<1> SUFFICES ASSUME IInv, (\E c \in Components : Flap(c)) \/ Restart PROVE IInv'
  OBVIOUS
<1> USE BoundsAssumption DEF IInv, worldVars, serverVars, pageVars
<1>1. ASSUME NEW c \in Components, Flap(c) PROVE IInv'
  <2>1. UNCHANGED <<open, recorded, check, status, data, error, refreshing, loads, faults>>
    BY <1>1 DEF Flap
  <2>2. up' \subseteq Components /\ flaps' \in 0 .. MaxFlaps
    BY <1>1 DEF Flap, TypeOK
  <2>3. TypeOK'
    BY <2>1, <2>2 DEF TypeOK
  <2>. QED  BY <2>1, <2>3 DEF OneOpenIncident, CheckKnows, OpenIsRecorded, AnswersExcused, Excused
<1>2. CASE Restart
  <2>1. UNCHANGED <<up, open, recorded, data, error, refreshing, loads, flaps>>
        /\ check' = NoCheck /\ status' = Initializing
    BY <1>2 DEF Restart
  <2>2. faults' \in 0 .. MaxFaults /\ NoCheck \in Checks
    BY <1>2 DEF Restart, Fault, TypeOK, Checks
  <2>3. TypeOK'
    BY <2>1, <2>2, InitializingTyped DEF TypeOK
  <2>4. AnswersExcused'
    BY <2>1, InitializingTyped DEF AnswersExcused, Excused
  <2>. QED  BY <2>1, <2>3, <2>4 DEF OneOpenIncident, CheckKnows, OpenIsRecorded
<1>. QED  BY <1>1, <1>2

(* The probes of a check. *)
LEMMA ProbeStep == IInv /\ Probe => IInv'
<1> SUFFICES ASSUME IInv, Probe PROVE IInv'
  OBVIOUS
<1> DEFINE c0 == [phase |-> "recording", healthy |-> up, todo |-> Components, blind |-> FALSE]
<1>1. check' = c0 /\ UNCHANGED <<up, open, recorded, status, data, error, refreshing, loads,
                                 flaps, faults>>
  BY DEF Probe, worldVars, pageVars
<1>2. c0 \in Checks
  BY DEF IInv, TypeOK, Checks
<1>3. TypeOK'
  BY <1>1, <1>2 DEF IInv, TypeOK
<1>4. CheckKnows'
  BY <1>1 DEF CheckKnows
<1>. QED  BY <1>1, <1>3, <1>4 DEF IInv, OneOpenIncident, OpenIsRecorded, AnswersExcused, Excused

(* One component is recorded: a lookup that was answered counts at most one incident. *)
LEMMA RecordStep == ASSUME IInv, NEW c \in Components, Record(c) PROVE IInv'
<1> USE DEF IInv
<1>1. /\ check # NoCheck /\ check.healthy \subseteq Components /\ check.todo \subseteq Components
      /\ check.blind \in BOOLEAN
      /\ check \in [phase : {"recording"}, healthy : SUBSET Components,
                    todo : SUBSET Components, blind : BOOLEAN]
  BY CheckFields DEF Record, TypeOK
<1>2. PICK known \in BOOLEAN, written \in BOOLEAN :
        /\ Fails(known /\ written)
        /\ open' = [open EXCEPT ![c] = CASE written /\ Opens(c, known, @) -> @ + 1
                                         [] written /\ Resolves(c, known, @) -> @ - 1
                                         [] OTHER -> @]
        /\ recorded' = (recorded \/ open'[c] > open[c])
        /\ check' = [check EXCEPT !.todo = @ \ {c}, !.blind = @ \/ ~known \/ ~written]
  BY DEF Record
<1>3. UNCHANGED <<up, status, data, error, refreshing, loads, flaps>>
  BY DEF Record, pageVars
<1> DEFINE e == check.blind \/ ~known \/ ~written
<1>a. e \in BOOLEAN /\ (check.blind \/ ~known \/ ~written => e)
  OBVIOUS
<1>4. /\ check' \in [phase : {"recording"}, healthy : SUBSET Components,
                     todo : SUBSET Components, blind : BOOLEAN]
      /\ check'.healthy = check.healthy
      /\ check'.todo = check.todo \ {c}
      /\ check'.blind = e
  <2>1. check' = [check EXCEPT !.todo = check.todo \ {c}, !.blind = e]
    BY <1>2
  <2>2. check.todo \ {c} \in SUBSET Components
    BY <1>1
  <2> HIDE DEF e
  <2>. QED  BY <1>1, <1>a, <2>1, <2>2, CheckExcept
<1> HIDE DEF e
<1>5. check' \in Checks /\ check' # NoCheck
  BY <1>1, <1>4, <1>a DEF Checks, NoCheck
<1>6. open[c] \in {0, 1}
  BY DEF TypeOK, OneOpenIncident
<1>7. /\ open' \in [Components -> Nat]
      /\ \A d \in Components : d # c => open'[d] = open[d]
      /\ open'[c] \in {0, 1}
      /\ c \notin check.healthy /\ known /\ written => open'[c] = 1
  <2>1. CASE written /\ Opens(c, known, open[c])
    <3>1. open[c] = 0
      BY <1>6, <2>1 DEF Opens
    <3>2. open' = [open EXCEPT ![c] = open[c] + 1]
      <4> DEFINE n == CASE written /\ Opens(c, known, open[c]) -> open[c] + 1
                        [] written /\ Resolves(c, known, open[c]) -> open[c] - 1
                        [] OTHER -> open[c]
      <4>1. open' = [open EXCEPT ![c] = n]
        BY <1>2
      <4>2. n = open[c] + 1
        BY <2>1, <3>1 DEF Opens, Resolves
      <4>. QED  BY <4>1, <4>2
    <3>3. open[c] + 1 = 1 /\ open \in [Components -> Nat]
      BY <3>1 DEF TypeOK
    <3>. QED  BY <3>2, <3>3
  <2>2. CASE written /\ Resolves(c, known, open[c]) /\ ~Opens(c, known, open[c])
    BY <1>2, <1>6, <2>2 DEF Opens, Resolves, TypeOK
  <2>3. CASE ~(written /\ Opens(c, known, open[c])) /\ ~(written /\ Resolves(c, known, open[c]))
    <3>1. open' = open
      BY <1>2, <2>3 DEF TypeOK
    <3>. QED  BY <1>6, <2>3, <3>1 DEF Opens, TypeOK
  <2>. QED  BY <2>1, <2>2, <2>3
<1>8. recorded' \in BOOLEAN /\ (recorded => recorded')
  BY <1>2 DEF TypeOK
<1>9. open'[c] = 1 => recorded'
  <2>1. CASE open[c] = 1
    BY <1>8, <2>1 DEF OpenIsRecorded
  <2>2. CASE open[c] = 0
    <3>1. open'[c] = 1 => open'[c] > open[c]
      BY <2>2
    <3>. QED  BY <1>2, <3>1
  <2>. QED  BY <1>6, <2>1, <2>2
<1>10. faults' \in 0 .. MaxFaults
  BY <1>2, FailsTyped DEF TypeOK
<1>11. TypeOK'
  BY <1>3, <1>5, <1>7, <1>8, <1>10 DEF TypeOK
<1>12. OneOpenIncident'
  BY <1>7 DEF OneOpenIncident, TypeOK
<1>13. OpenIsRecorded'
  BY <1>7, <1>8, <1>9 DEF OpenIsRecorded, TypeOK
<1>14. CheckKnows'
  <2> SUFFICES ASSUME NEW d \in Components, d \notin check'.healthy \cup check'.todo
               PROVE  recorded' \/ check'.blind
    BY DEF CheckKnows
  <2>1. check'.healthy = check.healthy /\ check'.todo = check.todo \ {c}
        /\ check'.blind = e
    BY <1>4
  <2>2. CASE d = c
    BY <1>7, <1>9, <1>a, <2>1, <2>2
  <2>3. CASE d # c
    <3>1. recorded \/ check.blind
      BY <1>1, <2>1, <2>3 DEF CheckKnows
    <3>. QED  BY <1>8, <1>a, <2>1, <3>1
  <2>. QED  BY <2>2, <2>3
<1>15. AnswersExcused'
  BY <1>3 DEF AnswersExcused, Excused
<1>. QED  BY <1>11, <1>12, <1>13, <1>14, <1>15

(* The end of a check: an outage that is published is excused. *)
LEMMA PublishStep == IInv /\ Publish => IInv'
<1> SUFFICES ASSUME IInv, Publish PROVE IInv'
  OBVIOUS
<1> USE DEF IInv
<1>1. /\ check # NoCheck /\ check.todo = {} /\ check.healthy \subseteq Components
      /\ check.blind \in BOOLEAN
  BY CheckFields DEF Publish, Ready, TypeOK
<1>2. PICK found \in BOOLEAN : Fails(found) /\ status' = Published(check.healthy, found)
  BY DEF Publish
<1>3. check' = NoCheck /\ UNCHANGED <<up, open, recorded, data, error, refreshing, loads, flaps>>
  BY DEF Publish, worldVars, pageVars
<1>4. status' \in Answers
  BY <1>1, <1>2 DEF Published, Answers, TypeOK
<1>5. Excused(status')
  <2> SUFFICES ASSUME status'.status = "major_outage", ~status'.listed PROVE status'.blind
    BY DEF Excused
  <2>1. check.healthy # Components /\ ~(found /\ recorded)
        /\ status'.blind = (check.blind \/ ~found)
    BY <1>2 DEF Published
  <2>2. recorded \/ check.blind
    BY <1>1, <2>1 DEF CheckKnows
  <2>. QED  BY <2>1, <2>2
<1>6. TypeOK'
  <2>1. faults' \in 0 .. MaxFaults /\ NoCheck \in Checks
    BY <1>2, FailsTyped DEF TypeOK, Checks
  <2>. QED  BY <1>3, <1>4, <2>1 DEF TypeOK
<1>7. AnswersExcused'
  BY <1>3, <1>5 DEF AnswersExcused, Excused
<1>. QED  BY <1>3, <1>6, <1>7 DEF OneOpenIncident, CheckKnows, OpenIsRecorded

(* The page. *)
LEMMA PageStep ==
  ASSUME IInv, NEW l \in Loads, Load(l) \/ HandleStatus(l) \/ Loaded(l) \/ LoadFails(l)
  PROVE  IInv'
<1> USE DEF IInv
<1>1. UNCHANGED <<up, open, recorded, check, status, flaps>>
  BY DEF Load, HandleStatus, Loaded, LoadFails, worldVars, serverVars
<1>2. loads[l] \in LoadStates /\ status \in Answers /\ loads \in [Loads -> LoadStates]
  BY DEF TypeOK
<1>3. OneOpenIncident' /\ CheckKnows' /\ OpenIsRecorded'
  BY <1>1 DEF OneOpenIncident, CheckKnows, OpenIsRecorded
<1>4. CASE Load(l)
  <2> DEFINE load == [state |-> "sent"]
  <2>1. /\ loads' = [loads EXCEPT ![l] = load] /\ refreshing' = TRUE
        /\ UNCHANGED <<data, error, faults>>
    BY <1>4 DEF Load
  <2>2. load \in LoadStates /\ load # NoLoad /\ load.state # "answered"
    BY DEF LoadStates, NoLoad
  <2>3. /\ loads' \in [Loads -> LoadStates] /\ loads'[l] = load
        /\ \A m \in Loads : m # l => loads'[m] = loads[m]
    BY <1>2, <2>1, <2>2
  <2>4. TypeOK'
    BY <1>1, <2>1, <2>2, <2>3 DEF TypeOK
  <2>5. AnswersExcused'
    BY <1>1, <2>1, <2>2, <2>3 DEF AnswersExcused, Excused
  <2>. QED  BY <1>3, <2>4, <2>5
<1>5. CASE HandleStatus(l)
  <2> DEFINE load == [state |-> "answered", answer |-> status]
  <2>1. /\ loads' = [loads EXCEPT ![l] = load]
        /\ UNCHANGED <<data, error, refreshing, faults>>
    BY <1>5 DEF HandleStatus
  <2>2. load \in LoadStates /\ load # NoLoad /\ load.answer = status
    BY <1>2, LoadKinds DEF NoLoad
  <2>3. /\ loads' \in [Loads -> LoadStates] /\ loads'[l] = load
        /\ \A m \in Loads : m # l => loads'[m] = loads[m]
    BY <1>2, <2>1, <2>2
  <2>4. TypeOK'
    BY <1>1, <2>1, <2>2, <2>3 DEF TypeOK
  <2>5. AnswersExcused'
    BY <1>1, <2>1, <2>2, <2>3 DEF AnswersExcused, Excused
  <2>. QED  BY <1>3, <2>4, <2>5
<1>6. CASE Loaded(l) \/ LoadFails(l)
  <2>1. /\ loads' = [loads EXCEPT ![l] = NoLoad] /\ refreshing' = FALSE /\ error' \in BOOLEAN
    BY <1>6 DEF Loaded, LoadFails
  <2>2. NoLoad \in LoadStates /\ NoLoad.state = "none"
    BY DEF LoadStates, NoLoad
  <2>3. /\ loads' \in [Loads -> LoadStates] /\ loads'[l] = NoLoad
        /\ \A m \in Loads : m # l => loads'[m] = loads[m]
    BY <1>2, <2>1, <2>2
  <2>4. faults' \in 0 .. MaxFaults
    BY <1>6, BoundsAssumption DEF Loaded, LoadFails, Fault, TypeOK
  <2>5. data' \in Answers \cup {None} /\ (data' # None => Excused(data'))
    <3>1. CASE Loaded(l)
      <4>1. loads[l].answer \in Answers /\ Excused(loads[l].answer) /\ data' = loads[l].answer
        BY <1>2, <3>1, LoadFields DEF Loaded, AnswersExcused
      <4>. QED  BY <4>1
    <3>2. CASE LoadFails(l)
      BY <3>2 DEF LoadFails, TypeOK, AnswersExcused
    <3>. QED  BY <1>6, <3>1, <3>2
  <2>6. TypeOK'
    BY <1>1, <2>1, <2>3, <2>4, <2>5 DEF TypeOK
  <2>7. AnswersExcused'
    BY <1>1, <2>2, <2>3, <2>5 DEF AnswersExcused, Excused
  <2>. QED  BY <1>3, <2>6, <2>7
<1>. QED  BY <1>4, <1>5, <1>6

(* Every step keeps the inductive invariant. *)
LEMMA StepIInv == IInv /\ [Next]_vars => IInv'
<1> SUFFICES ASSUME IInv, [Next]_vars PROVE IInv'
  OBVIOUS
<1>1. CASE UNCHANGED vars
  <2>1. UNCHANGED <<up, open, recorded, check, status, data, error, refreshing, loads, flaps,
                    faults>>
    BY <1>1 DEF vars, worldVars, serverVars, pageVars
  <2>. QED  BY <2>1 DEF IInv, TypeOK, OneOpenIncident, CheckKnows, OpenIsRecorded, AnswersExcused,
                        Excused
<1>. QED  BY <1>1, WorldStep, ProbeStep, RecordStep, PublishStep, PageStep DEF Next

(* The inductive invariant holds throughout. *)
LEMMA Invariant == Spec => []IInv
BY InitIInv, StepIInv, PTL DEF Spec

-------------------------------------------------------------------------------
(* The variables of the service and of the page keep their types, and the button of the     *)
(* page spins only while a load is under way.                                               *)
THEOREM TypeCorrect == Spec => []TypeOK
<1>1. IInv => TypeOK
  BY DEF IInv
<1>. QED  BY <1>1, Invariant, PTL

(* However many statements fail and however often the service restarts, no component has    *)
(* two open incidents.                                                                      *)
THEOREM IncidentsAreSingle == Spec => []OneOpenIncident
<1>1. IInv => OneOpenIncident
  BY DEF IInv
<1>. QED  BY <1>1, Invariant, PTL

(* The page shows a major outage beside an empty list of incidents only when a statement    *)
(* failed in the check the answer comes from.                                               *)
THEOREM QuietIsExcused == Spec => []QuietMeansBlind
<1>1. IInv => QuietMeansBlind
  BY DEF IInv, AnswersExcused, Excused, QuietMeansBlind
<1>. QED  BY <1>1, Invariant, PTL
===============================================================================
