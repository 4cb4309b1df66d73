---------------------------- MODULE RolloutProofs -----------------------------
(***************************************************************************)
(* The theorems about Rollout, for any number of builds, pilot devices,    *)
(* resumes and steps that stop halfway, and with the feed, the job, an     *)
(* administrator and an approver interleaving as they like: with           *)
(* two-person approval no build reaches All devices that nobody approved,  *)
(* and with it or without, none does before its pilot.                     *)
(*                                                                         *)
(* An approval is carried out after it was decided, and a promotion after  *)
(* the pilot was looked at: the invariant says what stays true between.    *)
(***************************************************************************)
EXTENDS Rollout, WellFoundedInduction, TLAPS

States == {"none", "pilot", "promoting", "promoted", "halted", "superseded"}
Details == {"none", "halted", "approval", "piloting", "first success", "no success"}
Points == {"idle", "create", "overtake", "supersede", "get", "step", "save resumed", "unexclude",
           "save", "exclude", "include", "include all", "list older", "promote"}
Groups == {"pilot", "all"}

\* A rollout that has its pilot assignment has a time the pilot began.
Rows ==
    {r \in [state : States, group : BOOLEAN, pilotAs : BOOLEAN, pilotAp : Nat, start : Nat,
            exclude : Nat, fleetAs : BOOLEAN, fleetAp : Nat, detail : Details] :
       r.pilotAs => r.start > 0}

Listed == [b : Build, row : Rows]

\* A process that supersedes has a rollout to supersede.
Works ==
    {w \in [pc : Points, b : Nat, row : Rows, todo : SUBSET Listed, older : SUBSET Listed] :
       w.pc = "supersede" => w.todo # {}}

Requests ==
    [build : Build, group : Groups,
     status : {"pending", "approved", "rejected", "expired", "failed"}]

TypeInv ==
    /\ rollouts \in [Build -> Rows]
    /\ approvals \in Seq(Requests)
    /\ replaying \in Nat
    /\ reported \in [Pilots -> [Build -> {"none", "succeeded", "failed"}]]
    /\ starts \in [Build -> Nat] /\ elapsed \in [Build -> Nat]
    /\ imported \in 0 .. MaxBuild /\ pilotGroup \in BOOLEAN
    /\ proc \in [Procs -> Works]
    /\ \A p \in Procs : proc[p].pc # "idle" => proc[p].b \in Build

\* What is being carried out was approved, and stays so.
ReplayInv ==
    replaying # 0 => replaying \in 1 .. Len(approvals) /\ approvals[replaying].status = "approved"

\* The build has been on a pilot device for the whole delay.
Piloted(b) == elapsed[b] > 0 /\ \E d \in Pilots : reported[d][b] # "none"

\* Only a piloted build is on All devices (step promotes once the delay has passed
\* and a pilot device succeeded).
FleetAfterPilot == \A b \in Build : <<b, "all", "include">> \in assignments => Piloted(b)

\* A request for All devices, and a process about to include it, is of such a build.
PilotInv ==
    /\ FleetAfterPilot
    /\ \A i \in 1 .. Len(approvals) : approvals[i].group = "all" => Piloted(approvals[i].build)
    /\ \A p \in Procs : proc[p].pc = "include all" => Piloted(proc[p].b)
-------------------------------------------------------------------------------
(* What CHOOSE finds. *)

LEMMA LeastNat ==
    ASSUME NEW T \in SUBSET Nat, T # {}
    PROVE  \E x \in T : \A y \in T : x <= y
<1>1. \E x \in T : \A y \in T : ~(<<y, x>> \in OpToRel(<, Nat))
  BY Zenon, NatLessThanWellFounded, WFMin
<1>2. PICK x \in T : \A y \in T : ~(y < x)
  BY Zenon, <1>1 DEF OpToRel
<1>3. \A y \in T : x <= y
  BY <1>2
<1> QED BY Zenon, <1>3

\* The first of the listed rollouts.
LEMMA FirstListed ==
    ASSUME NEW S \in SUBSET Listed, S # {}
    PROVE  (CHOOSE t \in S : \A u \in S : t.b <= u.b) \in S
<1> DEFINE T == {t.b : t \in S}
<1>1. T \in SUBSET Nat /\ T # {}
  BY DEF Listed, Build
<1>2. PICK x \in T : \A y \in T : x <= y
  <2> HIDE DEF T
  <2> QED BY <1>1, LeastNat
<1>3. PICK t \in S : t.b = x
  OBVIOUS
<1>4. \A u \in S : t.b <= u.b
  BY <1>2, <1>3
<1> QED BY Zenon, <1>4

LEMMA FleetBuildType ==
    ASSUME TypeInv
    PROVE  FleetBuild \in Nat
<1> DEFINE S == InState({"promoted"})
           T == {MaxBuild - b : b \in S}
<1>0. S \subseteq Build
  BY DEF InState
<1>1. CASE S = {}
  BY <1>1 DEF FleetBuild
<1>2. CASE S # {}
  <2>1. T \in SUBSET Nat /\ T # {}
    BY <1>0, <1>2, MaxBuildAssumption DEF Build
  <2>2. PICK x \in T : \A y \in T : x <= y
    <3> HIDE DEF T
    <3> QED BY <2>1, LeastNat
  <2>3. PICK b \in S : MaxBuild - b = x
    OBVIOUS
  <2>4. \A c \in S : MaxBuild - b <= MaxBuild - c
    BY <2>2, <2>3
  <2>5. \A c \in S : c <= b
    BY <1>0, <2>4, MaxBuildAssumption DEF Build
  <2> HIDE DEF S
  <2>6. (CHOOSE m \in S : \A c \in S : c <= m) \in S
    BY Zenon, <2>5
  <2>7. FleetBuild \in S
    BY Zenon, <1>2, <2>6 DEF FleetBuild, S
  <2> QED BY <1>0, <2>7 DEF Build
<1> QED BY <1>1, <1>2

-------------------------------------------------------------------------------
(* Processes. *)

ProcType ==
    /\ proc \in [Procs -> Works]
    /\ \A p \in Procs : proc[p].pc # "idle" => proc[p].b \in Build

\* Nobody comes to include All devices.
ProcCalm ==
    \A q \in Procs : proc'[q].pc = "include all" =>
        proc[q].pc = "include all" /\ proc'[q].b = proc[q].b

LEMMA ProcSet ==
    ASSUME TypeInv, NEW p \in Procs, NEW w \in Works, w.pc # "idle" => w.b \in Build,
           proc' = [proc EXCEPT ![p] = w]
    PROVE  /\ ProcType' /\ \A q \in Procs : proc'[q] = IF q = p THEN w ELSE proc[q]
           /\ w.pc # "include all" => ProcCalm
<1>1. /\ proc' \in [Procs -> Works]
      /\ \A q \in Procs : proc'[q] = IF q = p THEN w ELSE proc[q]
  BY Zenon DEF TypeInv
<1>2. ProcType'
  BY Zenon, <1>1 DEF TypeInv, ProcType
<1>3. w.pc # "include all" => ProcCalm
  BY Zenon, <1>1 DEF ProcCalm
<1> QED BY Zenon, <1>1, <1>2, <1>3

LEMMA IdleType == Idle \in Works /\ Idle.pc = "idle" /\ NoRollout \in Rows
<1>1. NoRollout \in Rows
  BY DEF NoRollout, Rows, States, Details
<1> QED BY <1>1 DEF Idle, Works, Points

LEMMA GoType ==
    ASSUME TypeInv, NEW p \in Procs, proc[p].pc # "idle", NEW pc \in Points, pc # "supersede",
           NEW row \in Rows, Go(p, pc, row)
    PROVE  /\ ProcType' /\ (pc # "include all" => ProcCalm)
           /\ \A q \in Procs : q # p => proc'[q] = proc[q]
           /\ proc'[p].pc = pc /\ proc'[p].b = proc[p].b
<1> DEFINE w == [proc[p] EXCEPT !.pc = pc, !.row = row]
<1>1. proc[p] \in Works /\ proc[p].b \in Build
  BY DEF TypeInv
<1>2. w \in Works /\ w.b = proc[p].b /\ w.pc = pc
  BY Zenon, <1>1 DEF Works
<1>3. proc' = [proc EXCEPT ![p] = w]
  BY Zenon DEF Go
<1> HIDE DEF w
<1>4. /\ ProcType' /\ \A q \in Procs : proc'[q] = IF q = p THEN w ELSE proc[q]
      /\ w.pc # "include all" => ProcCalm
  BY Zenon, <1>1, <1>2, <1>3, ProcSet
<1> QED BY Zenon, <1>2, <1>4

LEMMA FinishType ==
    ASSUME TypeInv, NEW p \in Procs, Finish(p)
    PROVE  ProcType' /\ ProcCalm
<1>1. CASE proc[p].todo = {}
  BY Zenon, <1>1, IdleType, ProcSet DEF Finish
<1>2. CASE proc[p].todo # {}
  <2> DEFINE S == proc[p].todo
             t == CHOOSE t \in S : \A u \in S : t.b <= u.b
             w == [pc |-> "step", b |-> t.b, row |-> t.row, todo |-> S \ {t}, older |-> {}]
  <2>1. S \in SUBSET Listed
    BY DEF TypeInv, Works
  <2>2. t \in S
    <3> HIDE DEF S
    <3> QED BY Zenon, <1>2, <2>1, FirstListed DEF S
  <2>3. proc' = [proc EXCEPT ![p] = w]
    BY <1>2 DEF Finish
  <2> HIDE DEF t
  <2>4. w \in Works /\ w.b \in Build /\ w.pc = "step"
    BY <2>1, <2>2 DEF Works, Listed, Points, Build
  <2> HIDE DEF w
  <2> QED BY Zenon, <2>3, <2>4, ProcSet
<1> QED BY <1>1, <1>2
LEMMA RowChanges ==
    ASSUME NEW row \in Rows, NEW group \in BOOLEAN, NEW detail \in Details, NEW n \in Nat
    PROVE  /\ HaltedRow(row) \in Rows /\ HaltedRow([row EXCEPT !.exclude = 0]) \in Rows
           /\ SupersededRow(row) \in Rows /\ ReplacedRow(row) \in Rows
           /\ [row EXCEPT !.group = group] \in Rows
           /\ [row EXCEPT !.detail = detail] \in Rows
           /\ [row EXCEPT !.exclude = n] \in Rows
           /\ [row EXCEPT !.pilotAs = TRUE, !.start = n + 1, !.detail = "none"] \in Rows
           /\ [row EXCEPT !.pilotAp = n, !.detail = "approval"] \in Rows
           /\ [row EXCEPT !.state = "promoting", !.detail = "approval", !.fleetAp = n] \in Rows
           /\ [row EXCEPT !.state = "promoted", !.fleetAs = TRUE, !.pilotAs = FALSE,
                          !.exclude = 0, !.detail = "none"] \in Rows
           /\ [row EXCEPT !.state = "pilot", !.pilotAp = 0, !.fleetAp = 0, !.detail = "none"] \in Rows
<1>1. HaltedRow(row) \in Rows /\ HaltedRow([row EXCEPT !.exclude = 0]) \in Rows
  BY Zenon DEF HaltedRow, Rows, States, Details
<1>2. SupersededRow(row) \in Rows /\ ReplacedRow(row) \in Rows
  BY Zenon DEF SupersededRow, ReplacedRow, Rows, States, Details
<1>3. /\ [row EXCEPT !.group = group] \in Rows /\ [row EXCEPT !.detail = detail] \in Rows
      /\ [row EXCEPT !.exclude = n] \in Rows
  BY DEF Rows
<1>4. [row EXCEPT !.pilotAs = TRUE, !.start = n + 1, !.detail = "none"] \in Rows
  <2> DEFINE m == n + 1
  <2>1. m \in Nat /\ m > 0
    OBVIOUS
  <2> HIDE DEF m
  <2>2. [row EXCEPT !.pilotAs = TRUE, !.start = m, !.detail = "none"] \in Rows
    BY Zenon, <2>1 DEF Rows, Details
  <2> QED BY <2>2 DEF m
<1>5. /\ [row EXCEPT !.pilotAp = n, !.detail = "approval"] \in Rows
      /\ [row EXCEPT !.state = "promoting", !.detail = "approval", !.fleetAp = n] \in Rows
  BY Zenon DEF Rows, States, Details
<1>6. [row EXCEPT !.state = "promoted", !.fleetAs = TRUE, !.pilotAs = FALSE,
                  !.exclude = 0, !.detail = "none"] \in Rows
  BY Zenon DEF Rows, States, Details
<1>7. [row EXCEPT !.state = "pilot", !.pilotAp = 0, !.fleetAp = 0, !.detail = "none"] \in Rows
  BY Zenon DEF Rows, States, Details
<1> QED BY <1>1, <1>2, <1>3, <1>4, <1>5, <1>6, <1>7

\* What a process at work has in hand.
LEMMA WorkFacts ==
    ASSUME TypeInv, NEW p \in Procs, proc[p].pc # "idle"
    PROVE  /\ proc[p].b \in Build /\ proc[p].row \in Rows
           /\ proc[p].todo \in SUBSET Listed /\ proc[p].older \in SUBSET Listed
BY DEF TypeInv, Works

\* A row is only ever saved with the group the database has.
LEMMA UpdateType ==
    ASSUME TypeInv, NEW b \in Build, NEW row \in Rows
    PROVE  UpdateAgentRollout(b, row) \in [Build -> Rows]
<1>1. rollouts[b].group \in BOOLEAN
  BY DEF TypeInv, Rows
<1>2. [row EXCEPT !.group = rollouts[b].group] \in Rows
  BY Zenon, <1>1, RowChanges DEF Details
<1> QED BY Zenon, <1>2 DEF UpdateAgentRollout, TypeInv

LEMMA HaltType ==
    ASSUME TypeInv, NEW p \in Procs, proc[p].pc # "idle", NEW row \in Rows, Halt(p, row)
    PROVE  ProcType' /\ ProcCalm
<1>1. CASE Go(p, "unexclude", row)
  BY Zenon, <1>1, GoType DEF Points
<1>2. CASE Go(p, "save", HaltedRow(row))
  <2>1. HaltedRow(row) \in Rows
    BY Zenon, RowChanges DEF Details
  <2> QED BY Zenon, <1>2, <2>1, GoType DEF Points
<1> QED BY <1>1, <1>2 DEF Halt

LEMMA WaitType ==
    ASSUME TypeInv, NEW p \in Procs, proc[p].pc # "idle", NEW row \in Rows, NEW detail \in Details,
           Wait(p, row, detail)
    PROVE  ProcType' /\ ProcCalm
<1>1. CASE Finish(p)
  BY <1>1, FinishType
<1>2. CASE Go(p, "save", [row EXCEPT !.detail = detail])
  <2>1. [row EXCEPT !.detail = detail] \in Rows
    BY Zenon, RowChanges
  <2> QED BY Zenon, <1>2, <2>1, GoType DEF Points
<1> QED BY <1>1, <1>2 DEF Wait

LEMMA StartPilotType ==
    ASSUME TypeInv, NEW p \in Procs, proc[p].pc # "idle", NEW b \in Build, NEW row \in Rows,
           StartPilot(p, b, row)
    PROVE  ProcType' /\ ProcCalm /\ starts' \in [Build -> Nat]
<1>1. starts' \in [Build -> Nat] /\ starts[b] \in Nat
  BY DEF TypeInv, StartPilot
<1>2. [row EXCEPT !.pilotAs = TRUE, !.start = starts[b] + 1, !.detail = "none"] \in Rows
  BY Zenon, <1>1, RowChanges DEF Details
<1> QED BY Zenon, <1>1, <1>2, GoType DEF StartPilot, Points

\* A pilot that has begun fails, goes on, or is over with a success.
LEMMA PassedCases ==
    ASSUME TypeInv, NEW p \in Procs, NEW b \in Build, NEW row \in Rows, row.pilotAs,
           PilotPassed(p, b, row)
    PROVE  \/ Halt(p, row) \/ \E detail \in Details : Wait(p, row, detail)
           \/ Piloted(b) /\ Go(p, "include all", row)
<1>1. row.start > 0 /\ row.start \in Nat /\ elapsed[b] \in Nat
  BY DEF Rows, TypeInv
<1>2. CASE Failed(b) # {}
  BY Zenon, <1>2 DEF PilotPassed
<1>3. CASE Failed(b) = {} /\ row.start > elapsed[b]
  <2>0. ~(row.start <= elapsed[b])
    BY <1>1, <1>3
  <2>1. Wait(p, row, IF Succeeded(b) = {} THEN "piloting" ELSE "first success")
    BY Zenon, <1>3, <2>0 DEF PilotPassed
  <2>2. (IF Succeeded(b) = {} THEN "piloting" ELSE "first success") \in Details
    BY DEF Details
  <2> QED BY Zenon, <2>1, <2>2
<1>4. CASE Failed(b) = {} /\ row.start <= elapsed[b]
  <2>0. ~(row.start > elapsed[b])
    BY <1>1, <1>4
  <2>1. CASE Succeeded(b) = {}
    <3>1. Wait(p, row, "no success")
      BY Zenon, <1>4, <2>0, <2>1 DEF PilotPassed
    <3>2. "no success" \in Details
      BY DEF Details
    <3> QED BY Zenon, <3>1, <3>2
  <2>2. CASE Succeeded(b) # {}
    <3>1. Go(p, "include all", row)
      BY Zenon, <1>4, <2>0, <2>2 DEF PilotPassed
    <3>2. PICK d \in Pilots : reported[d][b] = "succeeded"
      BY Zenon, <2>2 DEF Succeeded
    <3>3. elapsed[b] > 0 /\ reported[d][b] # "none"
      BY <1>1, <1>4, <3>2
    <3> QED BY Zenon, <3>1, <3>3 DEF Piloted
  <2> QED BY Zenon, <2>1, <2>2
<1>5. row.start > elapsed[b] \/ row.start <= elapsed[b]
  BY <1>1
<1> QED BY Zenon, <1>2, <1>3, <1>4, <1>5

\* step: a process goes on to include All devices only when the build was piloted.
LEMMA StepMoves ==
    ASSUME TypeInv, NEW p \in Procs, Step(p)
    PROVE  /\ ProcType' /\ starts' \in [Build -> Nat]
           /\ \A q \in Procs : proc'[q].pc = "include all" =>
                \/ proc[q].pc = "include all" /\ proc'[q].b = proc[q].b
                \/ Piloted(proc'[q].b)
<1> DEFINE b == proc[p].b
           row == proc[p].row
<1>0. proc[p].pc = "step"
  BY DEF Step, AtPoint
<1>1. b \in Build /\ row \in Rows
  BY <1>0, WorkFacts
<1>s. starts \in [Build -> Nat]
  BY DEF TypeInv
<1>h. Halt(p, row) => ProcType' /\ ProcCalm
  BY <1>0, <1>1, HaltType
<1>w. \A detail \in Details : Wait(p, row, detail) => ProcType' /\ ProcCalm
  BY <1>0, <1>1, WaitType
<1>2. CASE row.state = "pilot"
  <2>0. StepPilot(p, b, row)
    BY <1>2 DEF Step, Me
  <2> HIDE DEF b, row
  <2>1. CASE row.group /\ ~row.pilotAs /\ row.pilotAp # 0
    <3>1. ApprovedPilot(p, b, row)
      BY <2>0, <2>1 DEF StepPilot
    <3>2. StartPilot(p, b, row) => ProcType' /\ ProcCalm /\ starts' \in [Build -> Nat]
      BY <1>0, <1>1, StartPilotType
    <3>3. ProcType' /\ ProcCalm /\ starts' \in [Build -> Nat]
      BY Zenon, <1>s, <1>h, <1>w, <3>1, <3>2 DEF ApprovedPilot, Details
    <3> QED BY Zenon, <3>3 DEF ProcCalm
  <2>2. CASE ~(row.group /\ ~row.pilotAs /\ row.pilotAp # 0)
    <3>0. /\ UNCHANGED starts
          /\ CASE ~row.group -> Halt(p, row)
               [] row.group /\ row.pilotAs -> PilotPassed(p, b, row)
               [] OTHER -> BeginPilot(p, b, row)
      BY <2>0, <2>2 DEF StepPilot
    <3>1. CASE Halt(p, row)
      BY Zenon, <1>s, <1>h, <3>0, <3>1 DEF ProcCalm
    <3>2. CASE BeginPilot(p, b, row)
      <4>1. [row EXCEPT !.exclude = FleetBuild] \in Rows
        BY Zenon, <1>1, FleetBuildType, RowChanges DEF Details
      <4>2. ProcType' /\ ProcCalm
        BY Zenon, <1>0, <1>1, <3>2, <4>1, GoType DEF BeginPilot, Points
      <4> QED BY Zenon, <1>s, <3>0, <4>2 DEF ProcCalm
    <3>3. CASE row.pilotAs /\ PilotPassed(p, b, row)
      <4>2. CASE Halt(p, row) \/ \E detail \in Details : Wait(p, row, detail)
        BY Zenon, <1>s, <1>h, <1>w, <3>0, <4>2 DEF ProcCalm
      <4>3. CASE Piloted(b) /\ Go(p, "include all", row)
        <5>1. /\ ProcType' /\ \A q \in Procs : q # p => proc'[q] = proc[q]
              /\ proc'[p].b = proc[p].b
          BY Zenon, <1>0, <1>1, <4>3, GoType DEF Points
        <5>2. Piloted(b)
          BY Zenon, <4>3
        <5>3. Piloted(proc'[p].b)
          BY Zenon, <5>1, <5>2 DEF b
        <5> QED BY Zenon, <1>s, <3>0, <5>1, <5>3
      <4>4. \/ Halt(p, row) \/ \E detail \in Details : Wait(p, row, detail)
            \/ Piloted(b) /\ Go(p, "include all", row)
        BY Zenon, <1>1, <3>3, PassedCases
      <4> QED BY Zenon, <4>2, <4>3, <4>4
    <3> QED BY Zenon, <3>0, <3>1, <3>2, <3>3
  <2> QED BY Zenon, <2>1, <2>2
<1>3. CASE row.state = "promoting"
  <2>0. StepPromoting(p, b, row) /\ UNCHANGED starts
    BY <1>3 DEF Step, Me
  <2> HIDE DEF b, row
  <2>1. Halt(p, row) \/ Wait(p, row, "approval") \/ Go(p, "list older", row)
    BY Zenon, <2>0 DEF StepPromoting
  <2>2. Go(p, "list older", row) => ProcType' /\ ProcCalm
    BY Zenon, <1>0, <1>1, GoType DEF Points
  <2>3. ProcType' /\ ProcCalm
    BY Zenon, <1>h, <1>w, <2>1, <2>2 DEF Details
  <2> QED BY Zenon, <1>s, <2>0, <2>3 DEF ProcCalm
<1>4. CASE row.state \notin {"pilot", "promoting"}
  <2>1. Finish(p) /\ UNCHANGED starts
    BY <1>4 DEF Step, Me
  <2> QED BY Zenon, <1>s, <2>1, FinishType DEF ProcCalm
<1> QED BY Zenon, <1>2, <1>3, <1>4
-------------------------------------------------------------------------------
(* What a step keeps. *)

\* All devices gets a build that was piloted, and approved where that is asked for.
AllSteady ==
    \A b \in Build : <<b, "all", "include">> \in assignments' =>
        \/ <<b, "all", "include">> \in assignments
        \/ /\ Piloted(b)
           /\ Approvals => \E i \in DOMAIN approvals :
                approvals[i] = [build |-> b, group |-> "all", status |-> "approved"]

\* No request goes away or changes what it is for; an approved one for All devices
\* stays approved.
Kept ==
    \A i \in DOMAIN approvals :
        /\ i \in DOMAIN approvals'
        /\ approvals'[i].build = approvals[i].build /\ approvals'[i].group = approvals[i].group
        /\ approvals[i].status = "approved" /\ approvals[i].group = "all" =>
             approvals'[i] = approvals[i]

\* A new request for All devices is for a piloted build.
AskSteady ==
    \A i \in DOMAIN approvals' :
        approvals'[i].group = "all" => i \in DOMAIN approvals \/ Piloted(approvals'[i].build)

ProcSteady ==
    \A q \in Procs : proc'[q].pc = "include all" =>
        \/ proc[q].pc = "include all" /\ proc'[q].b = proc[q].b
        \/ Piloted(proc'[q].b)

PilotedKept == \A b \in Build : Piloted(b) => Piloted(b)'

Steady == AllSteady /\ Kept /\ AskSteady /\ ProcSteady /\ PilotedKept

LEMMA CalmSteady == ProcCalm => ProcSteady
BY Zenon DEF ProcCalm, ProcSteady

LEMMA RequestFacts ==
    ASSUME NEW s \in Seq(Requests)
    PROVE  /\ DOMAIN s = 1 .. Len(s) /\ Len(s) \in Nat
           /\ \A i \in DOMAIN s : s[i] \in Requests /\ s[i].build \in Build
<1>1. DOMAIN s = 1 .. Len(s) /\ Len(s) \in Nat /\ \A i \in DOMAIN s : s[i] \in Requests
  OBVIOUS
<1>2. \A r \in Requests : r.build \in Build
  BY DEF Requests
<1> QED BY Zenon, <1>1, <1>2

\* What the steps keep carries the invariant over.
LEMMA SteadyPilots ==
    ASSUME TypeInv, TypeInv', PilotInv, Steady
    PROVE  PilotInv'
<1>0. /\ DOMAIN approvals = 1 .. Len(approvals) /\ DOMAIN approvals' = 1 .. Len(approvals')
      /\ \A i \in DOMAIN approvals : approvals[i].build \in Build
      /\ \A i \in DOMAIN approvals' : approvals'[i].build \in Build
  <2>1. approvals \in Seq(Requests) /\ approvals' \in Seq(Requests)
    BY DEF TypeInv
  <2> QED BY Zenon, <2>1, RequestFacts
<1>1. FleetAfterPilot'
  <2> SUFFICES ASSUME NEW b \in Build, <<b, "all", "include">> \in assignments'
               PROVE  Piloted(b)'
    BY DEF FleetAfterPilot, Build
  <2>1. Piloted(b)
    BY Zenon DEF Steady, AllSteady, PilotInv, FleetAfterPilot
  <2> QED BY Zenon, <2>1 DEF Steady, PilotedKept
<1>2. ASSUME NEW i \in 1 .. Len(approvals'), approvals'[i].group = "all"
      PROVE  Piloted(approvals[i].build)'
  <2>0. i \in DOMAIN approvals' /\ approvals'[i].build \in Build
    BY Zenon, <1>0, <1>2
  <2>1. CASE i \in DOMAIN approvals
    <3>1. approvals'[i].build = approvals[i].build /\ approvals[i].group = "all"
      BY Zenon, <1>2, <2>1 DEF Steady, Kept
    <3>2. Piloted(approvals[i].build)
      BY Zenon, <1>0, <2>1, <3>1 DEF PilotInv
    <3>3. Piloted(approvals'[i].build)
      BY Zenon, <3>1, <3>2
    <3> QED BY Zenon, <2>0, <3>3 DEF Steady, PilotedKept, Piloted
  <2>2. CASE i \notin DOMAIN approvals
    <3>1. Piloted(approvals'[i].build)
      BY Zenon, <1>2, <2>0, <2>2 DEF Steady, AskSteady
    <3> QED BY Zenon, <2>0, <3>1 DEF Steady, PilotedKept, Piloted
  <2> QED BY <2>1, <2>2
<1>3. ASSUME NEW p \in Procs, proc'[p].pc = "include all"
      PROVE  Piloted(proc[p].b)'
  <2>1. proc'[p].b \in Build
    BY Zenon, <1>3 DEF TypeInv
  <2>2. Piloted(proc'[p].b)
    BY Zenon, <1>3 DEF Steady, ProcSteady, PilotInv
  <2> QED BY Zenon, <2>1, <2>2 DEF Steady, PilotedKept, Piloted
<1> QED BY Zenon, <1>1, <1>2, <1>3 DEF PilotInv, Procs

LEMMA SteadyApproved ==
    ASSUME ApprovedFirst, Steady
    PROVE  ApprovedFirst'
<1> SUFFICES ASSUME NEW b \in Build, Approvals, <<b, "all", "include">> \in assignments'
             PROVE  \E i \in DOMAIN approvals' :
                      approvals'[i] = [build |-> b, group |-> "all", status |-> "approved"]
  BY DEF ApprovedFirst, Build
<1>1. PICK i \in DOMAIN approvals :
        approvals[i] = [build |-> b, group |-> "all", status |-> "approved"]
  BY Zenon DEF ApprovedFirst, Steady, AllSteady
<1>2. approvals[i].status = "approved" /\ approvals[i].group = "all"
  BY <1>1
<1> QED BY Zenon, <1>1, <1>2 DEF Steady, Kept

-------------------------------------------------------------------------------
(* One lemma for each action: the types, what is being carried out, and what   *)
(* the step keeps.                                                             *)

Good == TypeInv' /\ ReplayInv' /\ Steady

LEMMA Assemble ==
    ASSUME TypeInv, ProcType', rollouts' \in [Build -> Rows], approvals' \in Seq(Requests),
           replaying' \in Nat, starts' \in [Build -> Nat], imported' \in 0 .. MaxBuild,
           pilotGroup' \in BOOLEAN, UNCHANGED <<reported, elapsed>>,
           ReplayInv', AllSteady, Kept, AskSteady, ProcSteady
    PROVE  Good
<1>1. TypeInv'
  BY Zenon DEF TypeInv, ProcType, Build, Procs, Rows, Works, Requests, Listed, States, Details,
               Points, Groups
<1>2. PilotedKept
  BY Zenon DEF PilotedKept, Piloted
<1> QED BY Zenon, <1>1, <1>2 DEF Good, Steady

\* A step that asks for nothing and decides nothing.
LEMMA Unasked ==
    ASSUME TypeInv, ReplayInv, UNCHANGED <<approvals, replaying>>
    PROVE  /\ approvals' \in Seq(Requests) /\ replaying' \in Nat /\ ReplayInv' /\ Kept /\ AskSteady
<1>1. approvals' \in Seq(Requests) /\ replaying' \in Nat
  BY Zenon DEF TypeInv
<1>2. ReplayInv'
  BY Zenon DEF ReplayInv
<1>3. Kept /\ AskSteady
  BY Zenon DEF Kept, AskSteady
<1> QED BY Zenon, <1>1, <1>2, <1>3

LEMMA Unassigned ==
    ASSUME assignments' \subseteq assignments
    PROVE  AllSteady
BY Zenon DEF AllSteady

\* A step of a process that only moves it on.
LEMMA Moved ==
    ASSUME TypeInv, ReplayInv, ProcType', ProcSteady, AllSteady, rollouts' \in [Build -> Rows],
           starts' \in [Build -> Nat],
           UNCHANGED <<approvals, replaying, reported, elapsed, imported, pilotGroup>>
    PROVE  Good
<1>1. imported' \in 0 .. MaxBuild /\ pilotGroup' \in BOOLEAN
  BY Zenon DEF TypeInv
<1>2. approvals' \in Seq(Requests) /\ replaying' \in Nat /\ ReplayInv' /\ Kept /\ AskSteady
  BY Zenon, Unasked
<1>3. UNCHANGED <<reported, elapsed>>
  BY Zenon
<1> QED BY Zenon, <1>1, <1>2, <1>3, Assemble

LEMMA ImportGood ==
    ASSUME TypeInv, ReplayInv, ImportAgent
    PROVE  Good
<1>0. /\ UNCHANGED <<rollouts, assignments, approvals, replaying, reported, starts, elapsed, pilotGroup>>
      /\ imported' = imported + 1 /\ imported < MaxBuild
  BY DEF ImportAgent
<1>1. imported' \in 0 .. MaxBuild /\ imported + 1 \in Build
  BY <1>0, MaxBuildAssumption DEF TypeInv, Build
<1>2. ProcType' /\ ProcCalm
  <2>1. CASE UNCHANGED proc
    BY Zenon, <2>1 DEF TypeInv, ProcType, ProcCalm
  <2>2. CASE proc' = [proc EXCEPT !["feed"] = [Idle EXCEPT !.pc = "create", !.b = imported + 1]]
    <3> DEFINE w == [Idle EXCEPT !.pc = "create", !.b = imported + 1]
    <3>1. w \in Works /\ w.b = imported + 1 /\ w.pc = "create"
      <4>1. imported + 1 \in Nat
        BY <1>1 DEF Build
      <4> QED BY Zenon, <4>1, IdleType DEF Works, Points, Idle
    <3>2. "feed" \in Procs
      BY DEF Procs
    <3> HIDE DEF w
    <3>3. proc' = [proc EXCEPT !["feed"] = w]
      BY Zenon, <2>2 DEF w
    <3> QED BY Zenon, <1>1, <3>1, <3>2, <3>3, ProcSet
  <2> QED BY <2>1, <2>2 DEF ImportAgent
<1>3. /\ rollouts' \in [Build -> Rows] /\ starts' \in [Build -> Nat] /\ pilotGroup' \in BOOLEAN
      /\ UNCHANGED <<reported, elapsed>>
  BY Zenon, <1>0 DEF TypeInv
<1>4. approvals' \in Seq(Requests) /\ replaying' \in Nat /\ ReplayInv' /\ Kept /\ AskSteady
  BY Zenon, <1>0, Unasked
<1>5. AllSteady
  BY Zenon, <1>0 DEF AllSteady
<1>6. ProcSteady
  BY Zenon, <1>2, CalmSteady
<1> QED BY Zenon, <1>1, <1>2, <1>3, <1>4, <1>5, <1>6, Assemble

LEMMA ListType ==
    ASSUME TypeInv, NEW S
    PROVE  ListRolloutsInState(S) \in SUBSET Listed
BY DEF ListRolloutsInState, InState, Listed, TypeInv

\* A process is given new work, and not that of including All devices.
LEMMA ProcWork ==
    ASSUME TypeInv, NEW p \in Procs, NEW w \in Works, w.b \in Build, w.pc # "include all",
           proc' = [proc EXCEPT ![p] = w]
    PROVE  ProcType' /\ ProcSteady
<1>1. ProcType' /\ ProcCalm
  BY Zenon, ProcSet
<1> QED BY Zenon, <1>1, CalmSteady

LEMMA CreateGood ==
    ASSUME TypeInv, ReplayInv, CreateAgentRollout
    PROVE  Good
<1> DEFINE b == proc["feed"].b
           row == [NoRollout EXCEPT !.state = "pilot", !.group = pilotGroup]
           w == [proc["feed"] EXCEPT !.pc = "overtake"]
<1>0. "feed" \in Procs /\ proc["feed"].pc # "idle"
  BY DEF CreateAgentRollout, AtPoint, Procs
<1>1. b \in Build /\ proc["feed"] \in Works
  BY <1>0 DEF TypeInv
<1>2. row \in Rows
  BY Zenon DEF NoRollout, Rows, States, Details, TypeInv
<1>3. w \in Works /\ w.b \in Build /\ w.pc # "include all"
  BY Zenon, <1>1 DEF Works, Points
<1>4. rollouts' = [rollouts EXCEPT ![b] = row] /\ proc' = [proc EXCEPT !["feed"] = w]
  BY DEF CreateAgentRollout, Me
<1> HIDE DEF b, row, w
<1>5. rollouts' \in [Build -> Rows]
  BY Zenon, <1>1, <1>2, <1>4 DEF TypeInv
<1>6. ProcType' /\ ProcSteady
  BY Zenon, <1>0, <1>3, <1>4, ProcWork
<1>7. /\ starts' \in [Build -> Nat] /\ AllSteady
      /\ UNCHANGED <<approvals, replaying, reported, elapsed, imported, pilotGroup>>
  BY Zenon, Unassigned DEF CreateAgentRollout, TypeInv
<1> QED BY Zenon, <1>5, <1>6, <1>7, Moved

LEMMA ListOvertakenGood ==
    ASSUME TypeInv, ReplayInv, ListOvertaken
    PROVE  Good
<1> DEFINE old == {t \in ListRolloutsInState(OvertakenStates) : t.b # proc["feed"].b}
           w == [proc["feed"] EXCEPT !.todo = old, !.pc = IF old = {} THEN "get" ELSE "supersede"]
<1>0. "feed" \in Procs /\ proc["feed"].pc # "idle"
  BY DEF ListOvertaken, AtPoint, Procs
<1>1. proc["feed"].b \in Build /\ proc["feed"] \in Works
  BY <1>0 DEF TypeInv
<1>2. old \in SUBSET Listed
  BY Zenon, ListType
<1>4. proc' = [proc EXCEPT !["feed"] = w]
  BY Zenon DEF ListOvertaken, Me
<1> HIDE DEF old
<1>3. w \in Works /\ w.b \in Build /\ w.pc # "include all"
  BY Zenon, <1>1, <1>2 DEF Works, Points
<1> HIDE DEF w
<1>6. ProcType' /\ ProcSteady
  BY Zenon, <1>0, <1>3, <1>4, ProcWork
<1>7. /\ starts' \in [Build -> Nat] /\ AllSteady /\ rollouts' \in [Build -> Rows]
      /\ UNCHANGED <<approvals, replaying, reported, elapsed, imported, pilotGroup>>
  BY Zenon, Unassigned DEF ListOvertaken, TypeInv
<1> QED BY Zenon, <1>6, <1>7, Moved

LEMMA GetStartedGood ==
    ASSUME TypeInv, ReplayInv, GetStarted
    PROVE  Good
<1>0. "feed" \in Procs /\ proc["feed"].pc # "idle" /\ "step" \in Points
  BY DEF GetStarted, AtPoint, Procs, Points
<1>1. rollouts[proc["feed"].b] \in Rows
  BY <1>0, WorkFacts DEF TypeInv
<1>2. ProcType' /\ ProcCalm
  BY Zenon, <1>0, <1>1, GoType DEF GetStarted, Me
<1>3. ProcSteady
  BY Zenon, <1>2, CalmSteady
<1>7. /\ starts' \in [Build -> Nat] /\ AllSteady /\ rollouts' \in [Build -> Rows]
      /\ UNCHANGED <<approvals, replaying, reported, elapsed, imported, pilotGroup>>
  BY Zenon, Unassigned DEF GetStarted, TypeInv
<1> QED BY Zenon, <1>2, <1>3, <1>7, Moved

LEMMA AdvanceGood ==
    ASSUME TypeInv, ReplayInv, Advance
    PROVE  Good
<1> DEFINE S == ListRolloutsInState({"pilot", "promoting"})
           t == CHOOSE t \in S : \A u \in S : t.b <= u.b
           w == [pc |-> "step", b |-> t.b, row |-> t.row, todo |-> S \ {t}, older |-> {}]
<1>0. "job" \in Procs
  BY DEF Procs
<1>1. S \in SUBSET Listed /\ S # {}
  <2>1. S # {}
    BY Zenon DEF Advance, ListRolloutsInState
  <2> QED BY Zenon, <2>1, ListType
<1>2. proc' = [proc EXCEPT !["job"] = w]
  BY DEF Advance
<1> HIDE DEF S
<1>3. t \in S
  BY Zenon, <1>1, FirstListed
<1> HIDE DEF t
<1>4. w \in Works /\ w.b \in Build /\ w.pc # "include all"
  BY <1>1, <1>3 DEF Works, Listed, Points, Build
<1> HIDE DEF w
<1>6. ProcType' /\ ProcSteady
  BY Zenon, <1>0, <1>2, <1>4, ProcWork
<1>7. /\ starts' \in [Build -> Nat] /\ AllSteady /\ rollouts' \in [Build -> Rows]
      /\ UNCHANGED <<approvals, replaying, reported, elapsed, imported, pilotGroup>>
  BY Zenon, Unassigned DEF Advance, TypeInv
<1> QED BY Zenon, <1>6, <1>7, Moved

LEMMA ResumeGood ==
    ASSUME TypeInv, ReplayInv, NEW b \in Build, Resume(b)
    PROVE  Good
<1> DEFINE row == [rollouts[b] EXCEPT !.state = "pilot", !.pilotAp = 0, !.fleetAp = 0,
                                      !.detail = "none"]
           w == [pc |-> "save resumed", b |-> b, todo |-> {}, older |-> {}, row |-> row]
<1>0. "resume" \in Procs
  BY DEF Procs
<1>1. row \in Rows
  <2>1. rollouts[b] \in Rows
    BY DEF TypeInv
  <2> QED BY Zenon, <2>1, RowChanges DEF Details
<1>2. proc' = [proc EXCEPT !["resume"] = w]
  BY Zenon DEF Resume
<1> HIDE DEF row
<1>3. b \in Nat
  BY DEF Build
<1>4. w \in Works /\ w.b \in Build /\ w.pc # "include all"
  BY Zenon, <1>1, <1>3 DEF Works, Points
<1> HIDE DEF w
<1>6. ProcType' /\ ProcSteady
  BY Zenon, <1>0, <1>2, <1>4, ProcWork
<1>7. /\ starts' \in [Build -> Nat] /\ AllSteady /\ rollouts' \in [Build -> Rows]
      /\ UNCHANGED <<approvals, replaying, reported, elapsed, imported, pilotGroup>>
  BY Zenon, Unassigned DEF Resume, TypeInv
<1> QED BY Zenon, <1>6, <1>7, Moved

LEMMA SaveResumedGood ==
    ASSUME TypeInv, ReplayInv, SaveResumed
    PROVE  Good
<1> DEFINE w == [proc["resume"] EXCEPT !.pc = "step"]
<1>0. "resume" \in Procs /\ proc["resume"].pc # "idle"
  BY Zenon DEF SaveResumed, AtPoint, Procs
<1>1. proc["resume"].b \in Build /\ proc["resume"].row \in Rows /\ proc["resume"] \in Works
  BY <1>0 DEF TypeInv, Works
<1>3. w \in Works /\ w.b \in Build /\ w.pc # "include all"
  BY Zenon, <1>1 DEF Works, Points
<1>4. proc' = [proc EXCEPT !["resume"] = w]
  BY Zenon DEF SaveResumed
<1> HIDE DEF w
<1>5. rollouts' \in [Build -> Rows]
  BY Zenon, <1>1, UpdateType DEF SaveResumed, Me
<1>6. ProcType' /\ ProcSteady
  BY Zenon, <1>0, <1>3, <1>4, ProcWork
<1>7. /\ starts' \in [Build -> Nat] /\ AllSteady
      /\ UNCHANGED <<approvals, replaying, reported, elapsed, imported, pilotGroup>>
  BY Zenon, Unassigned DEF SaveResumed, TypeInv
<1> QED BY Zenon, <1>5, <1>6, <1>7, Moved


\* Only what is still pending is withdrawn.
LEMMA WithdrawKeeps ==
    ASSUME TypeInv, ReplayInv, NEW ids, approvals' = Withdraw(ids), UNCHANGED replaying
    PROVE  /\ approvals' \in Seq(Requests) /\ replaying' \in Nat /\ ReplayInv' /\ Kept /\ AskSteady
<1> DEFINE W(i) == IF i \in ids /\ approvals[i].status = "pending"
                   THEN [approvals[i] EXCEPT !.status = "rejected"] ELSE approvals[i]
<1>1. /\ DOMAIN approvals = 1 .. Len(approvals) /\ Len(approvals) \in Nat
      /\ \A i \in DOMAIN approvals : approvals[i] \in Requests
  <2>1. approvals \in Seq(Requests)
    BY DEF TypeInv
  <2> QED BY Zenon, <2>1, RequestFacts
<1>2. \A r \in Requests : /\ [r EXCEPT !.status = "rejected"] \in Requests
                          /\ [r EXCEPT !.status = "rejected"].build = r.build
                          /\ [r EXCEPT !.status = "rejected"].group = r.group
  BY DEF Requests
<1>3. \A i \in DOMAIN approvals :
         /\ W(i) \in Requests /\ W(i).build = approvals[i].build /\ W(i).group = approvals[i].group
         /\ approvals[i].status = "approved" => W(i) = approvals[i]
  BY Zenon, <1>1, <1>2
<1>4. approvals' = [i \in 1 .. Len(approvals) |-> W(i)]
  BY Zenon, <1>1 DEF Withdraw
<1> HIDE DEF W
<1>5. approvals' \in Seq(Requests) /\ Len(approvals') = Len(approvals)
  <2>1. \A i \in 1 .. Len(approvals) : W(i) \in Requests
    BY Zenon, <1>1, <1>3
  <2> QED BY <1>1, <1>4, <2>1
<1>6. DOMAIN approvals' = DOMAIN approvals /\ \A i \in DOMAIN approvals : approvals'[i] = W(i)
  BY Zenon, <1>1, <1>4
<1>7. ReplayInv'
  <2> SUFFICES ASSUME replaying' # 0
               PROVE  /\ replaying' \in 1 .. Len(approvals')
                      /\ approvals'[replaying'].status = "approved"
    BY Zenon DEF ReplayInv
  <2>1. replaying \in 1 .. Len(approvals) /\ approvals[replaying].status = "approved"
    BY Zenon DEF ReplayInv
  <2> QED BY Zenon, <1>1, <1>3, <1>5, <1>6, <2>1
<1>8. Kept
  BY Zenon, <1>3, <1>6 DEF Kept
<1>9. AskSteady
  BY Zenon, <1>6 DEF AskSteady
<1> QED BY Zenon, <1>5, <1>7, <1>8, <1>9 DEF TypeInv

LEMMA SupersedeGood ==
    ASSUME TypeInv, ReplayInv, Supersede
    PROVE  Good
<1> DEFINE S == proc["feed"].todo
           t == CHOOSE t \in S : \A u \in S : t.b <= u.b
<1>0. "feed" \in Procs /\ proc["feed"].pc # "idle"
  BY DEF Supersede, AtPoint, Procs
<1>u. UNCHANGED <<replaying, reported, starts, elapsed, imported, pilotGroup>>
  BY DEF Supersede
<1>1. proc["feed"].b \in Build /\ proc["feed"] \in Works /\ S \in SUBSET Listed
  BY <1>0 DEF TypeInv, Works
<1>2. /\ assignments' = assignments \ PilotAssignments(t.b, t.row)
      /\ approvals' = Withdraw({t.row.pilotAp, t.row.fleetAp})
      /\ rollouts' = [rollouts EXCEPT ![t.b] =
                        [SupersededRow(t.row) EXCEPT !.group = rollouts[t.b].group]]
      /\ proc' = [proc EXCEPT !["feed"].todo = @ \ {t},
                              !["feed"].pc = IF S = {t} THEN "get" ELSE "supersede"]
  BY Zenon DEF Supersede, Me
<1>3. approvals' \in Seq(Requests) /\ replaying' \in Nat /\ ReplayInv' /\ Kept /\ AskSteady
  BY Zenon, <1>2, <1>u, WithdrawKeeps
<1>4. AllSteady
  BY Zenon, <1>2 DEF AllSteady
<1>5. S # {}
  BY <1>1 DEF Supersede, AtPoint, Works
<1>6. Good
  <2> DEFINE T == S \ {t}
             pc == IF S = {t} THEN "get" ELSE "supersede"
             w == [proc["feed"] EXCEPT !.todo = T, !.pc = pc]
  <2>1. t \in S
    <3> HIDE DEF S
    <3> QED BY Zenon, <1>1, <1>5, FirstListed DEF S
  <2> HIDE DEF t
  <2>2. t.b \in Build /\ t.row \in Rows
    BY <1>1, <2>1 DEF Listed
  <2>3. SupersededRow(t.row) \in Rows
    BY Zenon, <2>2, RowChanges DEF Details
  <2>4. rollouts' \in [Build -> Rows]
    BY Zenon, <1>2, <2>2, <2>3, UpdateType DEF UpdateAgentRollout
  <2>5. proc' = [proc EXCEPT !["feed"] = w]
    BY Zenon, <1>2
  <2>6. w \in Works /\ w.b \in Build /\ w.pc # "include all"
    <3>1. /\ T \in SUBSET Listed /\ pc \in Points /\ pc # "include all"
          /\ pc = "supersede" => T # {}
      BY <1>1, <1>5 DEF Points
    <3> HIDE DEF T, pc
    <3> QED BY Zenon, <1>1, <3>1 DEF Works
  <2> HIDE DEF w
  <2>7. ProcType' /\ ProcSteady
    BY Zenon, <1>0, <2>5, <2>6, ProcWork
  <2>8. /\ starts' \in [Build -> Nat] /\ imported' \in 0 .. MaxBuild /\ pilotGroup' \in BOOLEAN
        /\ UNCHANGED <<reported, elapsed>>
    BY Zenon, <1>u DEF TypeInv
  <2> QED BY Zenon, <1>3, <1>4, <2>4, <2>7, <2>8, Assemble
<1> QED BY <1>6

LEMMA StepGood ==
    ASSUME TypeInv, ReplayInv, NEW p \in Procs, Step(p)
    PROVE  Good
<1>1. ProcType' /\ starts' \in [Build -> Nat] /\ ProcSteady
  BY Zenon, StepMoves DEF ProcSteady
<1>2. /\ AllSteady /\ rollouts' \in [Build -> Rows]
      /\ UNCHANGED <<approvals, replaying, reported, elapsed, imported, pilotGroup>>
  BY Zenon, Unassigned DEF Step, TypeInv
<1> QED BY Zenon, <1>1, <1>2, Moved

LEMMA AssignExcludeGood ==
    ASSUME TypeInv, ReplayInv, NEW p \in Procs, AssignExclude(p)
    PROVE  Good
<1>0. proc[p].pc # "idle" /\ "include" \in Points
  BY DEF AssignExclude, AtPoint, Points
<1>1. proc[p].row \in Rows
  BY <1>0, WorkFacts
<1>2. Go(p, "include", proc[p].row) => ProcType' /\ ProcCalm
  BY Zenon, <1>0, <1>1, GoType
<1>3. ProcType' /\ ProcCalm
  BY Zenon, <1>2, FinishType DEF AssignExclude, Me
<1>4. ProcSteady
  BY Zenon, <1>3, CalmSteady
<1>5. AllSteady
  <2>1. \/ assignments' \subseteq assignments
        \/ assignments' = assignments \cup {<<proc[p].row.exclude, "pilot", "exclude">>}
    BY Zenon DEF AssignExclude, Me
  <2> QED BY <2>1 DEF AllSteady
<1>6. /\ starts' \in [Build -> Nat] /\ rollouts' \in [Build -> Rows]
      /\ UNCHANGED <<approvals, replaying, reported, elapsed, imported, pilotGroup>>
  BY Zenon DEF AssignExclude, TypeInv
<1> QED BY Zenon, <1>3, <1>4, <1>5, <1>6, Moved


\* A new request, for the pilot group or for a piloted build.
LEMMA AskKeeps ==
    ASSUME TypeInv, ReplayInv, NEW b \in Build, NEW group \in Groups, approvals' = Ask(b, group),
           UNCHANGED replaying, group = "all" => Piloted(b)
    PROVE  /\ approvals' \in Seq(Requests) /\ replaying' \in Nat /\ ReplayInv' /\ Kept /\ AskSteady
<1> DEFINE r == [build |-> b, group |-> group, status |-> "pending"]
<1>1. approvals \in Seq(Requests) /\ r \in Requests /\ r.build = b /\ r.group = group
  BY DEF TypeInv, Requests
<1>2. approvals' = Append(approvals, r)
  BY DEF Ask
<1> HIDE DEF r
<1>3. /\ approvals' \in Seq(Requests) /\ Len(approvals) \in Nat /\ Len(approvals') = Len(approvals) + 1
      /\ DOMAIN approvals = 1 .. Len(approvals) /\ DOMAIN approvals' = 1 .. Len(approvals) + 1
      /\ \A i \in 1 .. Len(approvals) : approvals'[i] = approvals[i]
      /\ approvals'[Len(approvals) + 1] = r
  BY <1>1, <1>2
<1>4. ReplayInv'
  BY <1>3 DEF ReplayInv
<1>5. \A i \in DOMAIN approvals : i \in DOMAIN approvals'
  BY <1>3
<1>6. Kept
  BY Zenon, <1>3, <1>5 DEF Kept
<1>7. \A i \in DOMAIN approvals' : i \in DOMAIN approvals \/ i = Len(approvals) + 1
  BY <1>3
<1>8. AskSteady
  BY Zenon, <1>1, <1>3, <1>7 DEF AskSteady
<1> QED BY Zenon, <1>3, <1>4, <1>6, <1>8 DEF TypeInv

LEMMA NextRequest ==
    ASSUME TypeInv
    PROVE  Len(approvals) + 1 \in Nat
<1>1. Len(approvals) \in Nat
  BY Zenon, RequestFacts DEF TypeInv
<1> QED BY <1>1

LEMMA IncludePilotGood ==
    ASSUME TypeInv, ReplayInv, NEW p \in Procs, IncludePilot(p)
    PROVE  Good
<1> DEFINE b == proc[p].b
           row == proc[p].row
<1>0. proc[p].pc # "idle" /\ "save" \in Points /\ "pilot" \in Groups
  BY DEF IncludePilot, AtPoint, Points, Groups
<1>1. b \in Build /\ row \in Rows
  BY <1>0, WorkFacts
<1>u. UNCHANGED <<rollouts, replaying, reported, elapsed, imported, pilotGroup>>
  BY DEF IncludePilot
<1>v. /\ rollouts' \in [Build -> Rows] /\ imported' \in 0 .. MaxBuild /\ pilotGroup' \in BOOLEAN
      /\ UNCHANGED <<reported, elapsed>>
  BY Zenon, <1>u DEF TypeInv
<1>s. UNCHANGED starts => starts' \in [Build -> Nat]
  BY Zenon DEF TypeInv
<1>a. UNCHANGED approvals =>
        approvals' \in Seq(Requests) /\ replaying' \in Nat /\ ReplayInv' /\ Kept /\ AskSteady
  BY Zenon, <1>u, Unasked
<1>2. CASE Finish(p) /\ UNCHANGED <<assignments, approvals, starts>>
  <2>1. ProcType' /\ ProcSteady /\ AllSteady
    BY Zenon, <1>2, FinishType, CalmSteady, Unassigned
  <2> QED BY Zenon, <1>v, <1>s, <1>a, <1>2, <2>1, Assemble
<1>3. CASE /\ approvals' = Ask(b, "pilot") /\ UNCHANGED <<assignments, starts>>
           /\ Go(p, "save", [row EXCEPT !.pilotAp = Len(approvals) + 1, !.detail = "approval"])
  <2>0. [row EXCEPT !.pilotAp = Len(approvals) + 1, !.detail = "approval"] \in Rows
    BY Zenon, <1>1, NextRequest, RowChanges DEF Details
  <2> HIDE DEF b, row
  <2>1. ProcType' /\ ProcCalm
    BY Zenon, <1>0, <1>3, <2>0, GoType
  <2>2. ProcSteady /\ AllSteady
    BY Zenon, <1>3, <2>1, CalmSteady, Unassigned
  <2>3. approvals' \in Seq(Requests) /\ replaying' \in Nat /\ ReplayInv' /\ Kept /\ AskSteady
    BY <1>0, <1>1, <1>3, <1>u, AskKeeps
  <2> QED BY Zenon, <1>v, <1>s, <1>3, <2>1, <2>2, <2>3, Assemble
<1>4. CASE /\ assignments' = assignments \cup {<<b, "pilot", "include">>}
           /\ StartPilot(p, b, row) /\ UNCHANGED approvals
  <2> HIDE DEF b, row
  <2>1. ProcType' /\ ProcCalm /\ starts' \in [Build -> Nat]
    BY Zenon, <1>0, <1>1, <1>4, StartPilotType
  <2>2. ProcSteady
    BY Zenon, <2>1, CalmSteady
  <2>3. AllSteady
    BY <1>4 DEF AllSteady
  <2> QED BY Zenon, <1>v, <1>a, <1>4, <2>1, <2>2, <2>3, Assemble
<1>5. \/ Finish(p) /\ UNCHANGED <<assignments, approvals, starts>>
      \/ /\ approvals' = Ask(b, "pilot") /\ UNCHANGED <<assignments, starts>>
         /\ Go(p, "save", [row EXCEPT !.pilotAp = Len(approvals) + 1, !.detail = "approval"])
      \/ /\ assignments' = assignments \cup {<<b, "pilot", "include">>}
         /\ StartPilot(p, b, row) /\ UNCHANGED approvals
  <2>1. CASE ~pilotGroup
    BY Zenon, <2>1 DEF IncludePilot, Me
  <2>2. CASE pilotGroup /\ NeedsApproval("pilot")
    BY Zenon, <2>2 DEF IncludePilot, Me
  <2>3. CASE pilotGroup /\ ~NeedsApproval("pilot")
    BY Zenon, <2>3 DEF IncludePilot, Me
  <2> QED BY Zenon, <2>1, <2>2, <2>3
<1> QED BY <1>2, <1>3, <1>4, <1>5

\* include, for All devices: without approvals at once, with them a request.
LEMMA IncludeAllGood ==
    ASSUME TypeInv, ReplayInv, PilotInv, NEW p \in Procs, IncludeAll(p)
    PROVE  Good
<1> DEFINE b == proc[p].b
           row == proc[p].row
<1>0. /\ proc[p].pc # "idle" /\ "save" \in Points /\ "list older" \in Points /\ "all" \in Groups
      /\ proc[p].pc = "include all"
  BY Zenon DEF IncludeAll, AtPoint, Points, Groups
<1>1. b \in Build /\ row \in Rows
  BY Zenon, <1>0, WorkFacts
<1>2. Piloted(b)
  BY Zenon, <1>0 DEF PilotInv
<1>u. UNCHANGED <<rollouts, replaying, reported, starts, elapsed, imported, pilotGroup>>
  BY Zenon DEF IncludeAll
<1>v. /\ rollouts' \in [Build -> Rows] /\ imported' \in 0 .. MaxBuild /\ pilotGroup' \in BOOLEAN
      /\ starts' \in [Build -> Nat] /\ UNCHANGED <<reported, elapsed>>
  BY Zenon, <1>u DEF TypeInv
<1>3. CASE NeedsApproval("all")
  <2>0. [row EXCEPT !.state = "promoting", !.detail = "approval", !.fleetAp = Len(approvals) + 1] \in Rows
    BY Zenon, <1>1, NextRequest, RowChanges DEF Details
  <2>1. /\ approvals' = Ask(b, "all") /\ UNCHANGED assignments
        /\ Go(p, "save", [row EXCEPT !.state = "promoting", !.detail = "approval",
                                     !.fleetAp = Len(approvals) + 1])
    BY Zenon, <1>3 DEF IncludeAll, Me
  <2> HIDE DEF b, row
  <2>2. ProcType' /\ ProcCalm
    BY Zenon, <1>0, <2>0, <2>1, GoType
  <2>3. ProcSteady /\ AllSteady
    BY Zenon, <2>1, <2>2, CalmSteady, Unassigned
  <2>4. approvals' \in Seq(Requests) /\ replaying' \in Nat /\ ReplayInv' /\ Kept /\ AskSteady
    BY Zenon, <1>0, <1>1, <1>2, <2>1, <1>u, AskKeeps
  <2> QED BY Zenon, <1>v, <2>2, <2>3, <2>4, Assemble
<1>4. CASE ~NeedsApproval("all")
  <2>0. ~Approvals
    BY Zenon, <1>4 DEF NeedsApproval
  <2>1. /\ assignments' = assignments \cup {<<b, "all", "include">>}
        /\ Go(p, "list older", row) /\ UNCHANGED approvals
    BY Zenon, <1>4 DEF IncludeAll, Me
  <2> HIDE DEF b, row
  <2>2. ProcType' /\ ProcCalm
    BY Zenon, <1>0, <1>1, <2>1, GoType
  <2>3. ProcSteady
    BY Zenon, <2>2, CalmSteady
  <2>4. approvals' \in Seq(Requests) /\ replaying' \in Nat /\ ReplayInv' /\ Kept /\ AskSteady
    BY Zenon, <1>u, <2>1, Unasked
  <2>5. AllSteady
    <3> SUFFICES ASSUME NEW c \in Build, <<c, "all", "include">> \in assignments',
                        <<c, "all", "include">> \notin assignments
                 PROVE  Piloted(c)
      BY Zenon, <2>0 DEF AllSteady
    <3>1. c = b
      BY Zenon, <2>1
    <3> QED BY Zenon, <1>2, <3>1
  <2> QED BY Zenon, <1>v, <2>2, <2>3, <2>4, <2>5, Assemble
<1> QED BY <1>3, <1>4


LEMMA ListOlderGood ==
    ASSUME TypeInv, ReplayInv, NEW p \in Procs, ListOlder(p)
    PROVE  Good
<1> DEFINE old == {t \in ListRolloutsInState({"promoted"}) : t.b # proc[p].b}
           w == [proc[p] EXCEPT !.pc = "promote", !.older = old]
<1>0. proc[p].pc # "idle"
  BY Zenon DEF ListOlder, AtPoint
<1>1. proc[p].b \in Build /\ proc[p] \in Works
  BY <1>0 DEF TypeInv
<1>2. old \in SUBSET Listed
  BY Zenon, ListType
<1>3. proc' = [proc EXCEPT ![p] = w]
  BY Zenon DEF ListOlder, Me
<1> HIDE DEF old
<1>4. w \in Works /\ w.b \in Build /\ w.pc # "include all"
  BY Zenon, <1>1, <1>2 DEF Works, Points
<1> HIDE DEF w
<1>5. ProcType' /\ ProcSteady
  BY Zenon, <1>3, <1>4, ProcWork
<1>6. /\ starts' \in [Build -> Nat] /\ AllSteady /\ rollouts' \in [Build -> Rows]
      /\ UNCHANGED <<approvals, replaying, reported, elapsed, imported, pilotGroup>>
  BY Zenon, Unassigned DEF ListOlder, TypeInv
<1> QED BY Zenon, <1>5, <1>6, Moved

LEMMA PromoteGood ==
    ASSUME TypeInv, ReplayInv, NEW p \in Procs, Promote(p)
    PROVE  Good
<1> DEFINE S == proc[p].older
           Row(b) == IF \E t \in S : t.b = b
                     THEN [ReplacedRow((CHOOSE t \in S : t.b = b).row)
                             EXCEPT !.group = rollouts[b].group]
                     ELSE rollouts[b]
           row == [proc[p].row EXCEPT !.state = "promoted", !.fleetAs = TRUE, !.pilotAs = FALSE,
                                      !.exclude = 0, !.detail = "none"]
<1>0. proc[p].pc # "idle" /\ "save" \in Points
  BY DEF Promote, AtPoint, Points
<1>1. proc[p].row \in Rows /\ S \in SUBSET Listed
  BY <1>0, WorkFacts
<1>2. row \in Rows
  BY Zenon, <1>1, RowChanges DEF Details
<1>3. rollouts' = [b \in Build |-> Row(b)] /\ Go(p, "save", row)
  BY Zenon DEF Promote, Me
<1> HIDE DEF S, row
<1>4. ASSUME NEW b \in Build
      PROVE  Row(b) \in Rows
  <2>0. rollouts[b] \in Rows /\ rollouts[b].group \in BOOLEAN
    BY DEF TypeInv, Rows
  <2>1. CASE \E t \in S : t.b = b
    <3> DEFINE t == CHOOSE t \in S : t.b = b
    <3>1. t \in S
      BY Zenon, <2>1
    <3> HIDE DEF t
    <3>2. t.row \in Rows
      BY <1>1, <3>1 DEF Listed
    <3>3. ReplacedRow(t.row) \in Rows
      BY Zenon, <3>2, RowChanges DEF Details
    <3>4. [ReplacedRow(t.row) EXCEPT !.group = rollouts[b].group] \in Rows
      BY Zenon, <2>0, <3>3, RowChanges DEF Details
    <3> QED BY Zenon, <2>1, <3>4 DEF t
  <2>2. CASE ~\E t \in S : t.b = b
    BY Zenon, <2>0, <2>2
  <2> QED BY Zenon, <2>1, <2>2
<1> HIDE DEF Row
<1>5. rollouts' \in [Build -> Rows]
  BY Zenon, <1>3, <1>4
<1>6. ProcType' /\ ProcCalm
  BY Zenon, <1>0, <1>2, <1>3, GoType
<1>7. ProcSteady
  BY Zenon, <1>6, CalmSteady
<1>8. /\ starts' \in [Build -> Nat] /\ AllSteady
      /\ UNCHANGED <<approvals, replaying, reported, elapsed, imported, pilotGroup>>
  BY Zenon DEF Promote, TypeInv, AllSteady
<1> QED BY Zenon, <1>5, <1>6, <1>7, <1>8, Moved

LEMMA UnexcludeGood ==
    ASSUME TypeInv, ReplayInv, NEW p \in Procs, Unexclude(p)
    PROVE  Good
<1>0. proc[p].pc # "idle" /\ "save" \in Points
  BY DEF Unexclude, AtPoint, Points
<1>1. proc[p].row \in Rows
  BY <1>0, WorkFacts
<1>2. HaltedRow([proc[p].row EXCEPT !.exclude = 0]) \in Rows
  BY Zenon, <1>1, RowChanges DEF Details
<1>3. Go(p, "save", HaltedRow([proc[p].row EXCEPT !.exclude = 0]))
  BY Zenon DEF Unexclude, Me
<1>4. ProcType' /\ ProcCalm
  BY Zenon, <1>0, <1>2, <1>3, GoType
<1>5. ProcSteady
  BY Zenon, <1>4, CalmSteady
<1>6. /\ starts' \in [Build -> Nat] /\ AllSteady /\ rollouts' \in [Build -> Rows]
      /\ UNCHANGED <<approvals, replaying, reported, elapsed, imported, pilotGroup>>
  BY Zenon DEF Unexclude, TypeInv, AllSteady
<1> QED BY Zenon, <1>4, <1>5, <1>6, Moved

LEMMA SaveGood ==
    ASSUME TypeInv, ReplayInv, NEW p \in Procs, Save(p)
    PROVE  Good
<1>0. proc[p].pc # "idle"
  BY DEF Save, AtPoint
<1>1. proc[p].b \in Build /\ proc[p].row \in Rows
  BY <1>0, WorkFacts
<1>2. rollouts' \in [Build -> Rows]
  BY Zenon, <1>1, UpdateType DEF Save, Me
<1>3. ProcType' /\ ProcCalm
  BY Zenon, FinishType DEF Save
<1>4. ProcSteady
  BY Zenon, <1>3, CalmSteady
<1>5. /\ starts' \in [Build -> Nat] /\ AllSteady
      /\ UNCHANGED <<approvals, replaying, reported, elapsed, imported, pilotGroup>>
  BY Zenon, Unassigned DEF Save, TypeInv
<1> QED BY Zenon, <1>2, <1>3, <1>4, <1>5, Moved

LEMMA AbortGood ==
    ASSUME TypeInv, ReplayInv, NEW p \in Procs, Abort(p)
    PROVE  Good
<1>1. Idle \in Works /\ Idle.pc = "idle" /\ Idle.pc # "include all"
  BY IdleType
<1>2. ProcType' /\ ProcCalm
  BY Zenon, <1>1, ProcSet DEF Abort
<1>3. ProcSteady
  BY Zenon, <1>2, CalmSteady
<1>4. /\ starts' \in [Build -> Nat] /\ AllSteady /\ rollouts' \in [Build -> Rows]
      /\ UNCHANGED <<approvals, replaying, reported, elapsed, imported, pilotGroup>>
  BY Zenon, Unassigned DEF Abort, TypeInv
<1> QED BY Zenon, <1>2, <1>3, <1>4, Moved

-------------------------------------------------------------------------------
(* Approvers, pilot devices and time. *)

\* Another status for a request, unless it is an approved one for All devices.
LEMMA DecideKeeps ==
    ASSUME TypeInv, NEW i \in DOMAIN approvals,
           NEW st \in {"approved", "rejected", "expired", "failed"},
           approvals' = [approvals EXCEPT ![i].status = st],
           ~(approvals[i].status = "approved" /\ approvals[i].group = "all")
    PROVE  /\ approvals' \in Seq(Requests) /\ Kept /\ AskSteady
           /\ DOMAIN approvals' = DOMAIN approvals /\ Len(approvals') = Len(approvals)
           /\ approvals'[i].status = st
           /\ \A j \in DOMAIN approvals : j # i => approvals'[j] = approvals[j]
<1> DEFINE r == [approvals[i] EXCEPT !.status = st]
<1>1. /\ approvals \in Seq(Requests) /\ approvals[i] \in Requests
      /\ DOMAIN approvals = 1 .. Len(approvals) /\ Len(approvals) \in Nat
  BY Zenon, RequestFacts DEF TypeInv
<1>2. /\ r \in Requests /\ r.status = st /\ r.build = approvals[i].build
      /\ r.group = approvals[i].group
  BY <1>1 DEF Requests
<1>3. approvals' = [approvals EXCEPT ![i] = r]
  OBVIOUS
<1> HIDE DEF r
<1>4. approvals' \in Seq(Requests) /\ Len(approvals') = Len(approvals)
  BY <1>1, <1>2, <1>3
<1>5. /\ DOMAIN approvals' = DOMAIN approvals
      /\ \A j \in DOMAIN approvals : approvals'[j] = IF j = i THEN r ELSE approvals[j]
  BY Zenon, <1>3
<1>6. Kept
  BY Zenon, <1>2, <1>5 DEF Kept
<1>7. AskSteady
  BY Zenon, <1>5 DEF AskSteady
<1> QED BY Zenon, <1>2, <1>4, <1>5, <1>6, <1>7

\* Nothing but the requests, and who is being carried out, changes.
LEMMA Decided ==
    ASSUME TypeInv, ReplayInv', approvals' \in Seq(Requests), replaying' \in Nat, Kept, AskSteady,
           AllSteady, UNCHANGED <<rollouts, reported, starts, elapsed, imported, pilotGroup, proc>>
    PROVE  Good
<1>1. /\ rollouts' \in [Build -> Rows] /\ imported' \in 0 .. MaxBuild /\ pilotGroup' \in BOOLEAN
      /\ starts' \in [Build -> Nat] /\ UNCHANGED <<reported, elapsed>>
  BY Zenon DEF TypeInv
<1>2. ProcType' /\ ProcSteady
  BY Zenon DEF TypeInv, ProcType, ProcSteady
<1> QED BY Zenon, <1>1, <1>2, Assemble

LEMMA DecideGood ==
    ASSUME TypeInv, ReplayInv, NEW i \in DOMAIN approvals, NEW st \in {"approved", "rejected"},
           Decide(i, st)
    PROVE  Good
<1>1. /\ UNCHANGED <<rollouts, reported, starts, elapsed, imported, pilotGroup, proc>>
      /\ AllSteady /\ approvals[i].status = "pending"
      /\ approvals' = [approvals EXCEPT ![i].status = st]
      /\ replaying' = IF st = "approved" THEN i ELSE 0
  BY Zenon, Unassigned DEF Decide
<1>2. /\ approvals' \in Seq(Requests) /\ Kept /\ AskSteady
      /\ Len(approvals') = Len(approvals) /\ approvals'[i].status = st
  BY Zenon, <1>1, DecideKeeps
<1>3. DOMAIN approvals = 1 .. Len(approvals)
  BY Zenon, RequestFacts DEF TypeInv
<1>4. ReplayInv'
  BY <1>1, <1>2, <1>3 DEF ReplayInv
<1>5. replaying' \in Nat
  BY <1>1, <1>3
<1> QED BY Zenon, <1>1, <1>2, <1>4, <1>5, Decided

LEMMA LapseGood ==
    ASSUME TypeInv, ReplayInv, NEW i \in DOMAIN approvals, ApprovalLapses(i)
    PROVE  Good
<1>1. /\ UNCHANGED <<rollouts, reported, starts, elapsed, imported, pilotGroup, proc>>
      /\ UNCHANGED replaying /\ AllSteady /\ approvals[i].status = "pending"
      /\ approvals' = [approvals EXCEPT ![i].status = "expired"]
  BY Zenon, Unassigned DEF ApprovalLapses
<1>2. /\ approvals' \in Seq(Requests) /\ Kept /\ AskSteady /\ Len(approvals') = Len(approvals)
      /\ \A j \in DOMAIN approvals : j # i => approvals'[j] = approvals[j]
  BY Zenon, <1>1, DecideKeeps
<1>3. DOMAIN approvals = 1 .. Len(approvals)
  BY Zenon, RequestFacts DEF TypeInv
<1>4. ReplayInv'
  <2> SUFFICES ASSUME replaying' # 0
               PROVE  /\ replaying' \in 1 .. Len(approvals')
                      /\ approvals'[replaying'].status = "approved"
    BY Zenon DEF ReplayInv
  <2>1. replaying \in 1 .. Len(approvals) /\ approvals[replaying].status = "approved"
    BY Zenon, <1>1 DEF ReplayInv
  <2>2. replaying # i
    BY <1>1, <2>1
  <2> QED BY Zenon, <1>1, <1>2, <1>3, <2>1, <2>2
<1>5. replaying' \in Nat
  BY Zenon, <1>1 DEF TypeInv
<1> QED BY Zenon, <1>1, <1>2, <1>4, <1>5, Decided

\* What is carried out was approved, and asked for after the pilot.
LEMMA ReplayGood ==
    ASSUME TypeInv, ReplayInv, PilotInv, ReplayApproval
    PROVE  Good
<1> DEFINE a == approvals[replaying]
<1>0. /\ UNCHANGED <<rollouts, reported, starts, elapsed, imported, pilotGroup, proc>>
      /\ replaying # 0 /\ replaying' = 0
  BY Zenon DEF ReplayApproval
<1>1. replaying \in 1 .. Len(approvals) /\ a.status = "approved"
  BY Zenon, <1>0 DEF ReplayInv
<1>2. /\ DOMAIN approvals = 1 .. Len(approvals) /\ a \in Requests
  BY Zenon, <1>1, RequestFacts DEF TypeInv
<1>3. ReplayInv' /\ replaying' \in Nat
  BY <1>0 DEF ReplayInv
<1>4. CASE /\ a.group = "pilot" /\ approvals' = [approvals EXCEPT ![replaying].status = "failed"]
           /\ UNCHANGED assignments
  <2>0. replaying \in DOMAIN approvals /\ ~(a.status = "approved" /\ a.group = "all")
    BY <1>1, <1>2, <1>4
  <2>1. approvals' \in Seq(Requests) /\ Kept /\ AskSteady
    BY Zenon, <1>4, <2>0, DecideKeeps
  <2>2. AllSteady
    BY Zenon, <1>4, Unassigned
  <2> QED BY Zenon, <1>0, <1>3, <2>1, <2>2, Decided
<1>5. CASE /\ assignments' = assignments \cup {<<a.build, a.group, "include">>}
           /\ UNCHANGED approvals
  <2>1. approvals' \in Seq(Requests) /\ Kept /\ AskSteady
    BY Zenon, <1>5 DEF TypeInv, Kept, AskSteady
  <2>2. AllSteady
    <3> SUFFICES ASSUME NEW b \in Build, <<b, "all", "include">> \in assignments',
                        <<b, "all", "include">> \notin assignments
                 PROVE  /\ Piloted(b)
                        /\ \E i \in DOMAIN approvals :
                             approvals[i] = [build |-> b, group |-> "all", status |-> "approved"]
      BY Zenon DEF AllSteady
    <3>1. a.build = b /\ a.group = "all"
      BY <1>5
    <3>2. Piloted(b)
      BY Zenon, <1>1, <3>1 DEF PilotInv
    <3>3. a = [build |-> b, group |-> "all", status |-> "approved"]
      BY <1>1, <1>2, <3>1 DEF Requests
    <3> QED BY Zenon, <1>1, <1>2, <3>2, <3>3
  <2> QED BY Zenon, <1>0, <1>3, <2>1, <2>2, Decided
<1> QED BY Zenon, <1>4, <1>5 DEF ReplayApproval

LEMMA ReplayLostGood ==
    ASSUME TypeInv, ReplayInv, ReplayLost
    PROVE  Good
<1>1. /\ UNCHANGED <<rollouts, reported, starts, elapsed, imported, pilotGroup, proc>>
      /\ replaying' = 0 /\ UNCHANGED <<assignments, approvals>>
  BY Zenon DEF ReplayLost
<1>2. approvals' \in Seq(Requests) /\ Kept /\ AskSteady /\ AllSteady
  BY Zenon, <1>1 DEF TypeInv, Kept, AskSteady, AllSteady
<1>3. ReplayInv' /\ replaying' \in Nat
  BY <1>1 DEF ReplayInv
<1> QED BY Zenon, <1>1, <1>2, <1>3, Decided

\* A pilot device that has reported a build never goes back to not having.
LEMMA ReportsGood ==
    ASSUME TypeInv, ReplayInv, NEW d \in Pilots, NEW b \in Build,
           NEW st \in {"succeeded", "failed"}, DeviceReports(d, b, st)
    PROVE  Good
<1>0. /\ UNCHANGED <<rollouts, assignments, approvals, replaying, starts, elapsed, imported,
                     pilotGroup, proc>>
      /\ reported' = [reported EXCEPT ![d][b] = st]
  BY Zenon DEF DeviceReports
<1>1. st # "none" /\ st \in {"none", "succeeded", "failed"}
  OBVIOUS
<1>2. reported \in [Pilots -> [Build -> {"none", "succeeded", "failed"}]]
  BY DEF TypeInv
<1>3. /\ reported' \in [Pilots -> [Build -> {"none", "succeeded", "failed"}]]
      /\ \A e \in Pilots, c \in Build : reported[e][c] # "none" => reported'[e][c] # "none"
  BY <1>0, <1>1, <1>2
<1>4. TypeInv'
  BY Zenon, <1>0, <1>3 DEF TypeInv, Build, Procs, Rows, Works, Requests, Listed, States, Details,
                           Points, Groups
<1>5. PilotedKept
  BY Zenon, <1>0, <1>3 DEF PilotedKept, Piloted
<1>6. ReplayInv' /\ Kept /\ AskSteady /\ AllSteady /\ ProcSteady
  BY Zenon, <1>0, Unasked DEF AllSteady, ProcSteady
<1> QED BY Zenon, <1>4, <1>5, <1>6 DEF Good, Steady

LEMMA DelayGood ==
    ASSUME TypeInv, ReplayInv, NEW b \in Build, DelayPasses(b)
    PROVE  Good
<1>0. /\ UNCHANGED <<rollouts, assignments, approvals, replaying, reported, starts, imported,
                     pilotGroup, proc>>
      /\ elapsed' = [elapsed EXCEPT ![b] = elapsed[b] + 1]
  BY DEF DelayPasses
<1>1. elapsed \in [Build -> Nat]
  BY DEF TypeInv
<1>2. /\ elapsed' \in [Build -> Nat]
      /\ \A c \in Build : elapsed[c] > 0 => elapsed'[c] > 0
  BY <1>0, <1>1
<1>3. TypeInv'
  BY Zenon, <1>0, <1>2 DEF TypeInv, Build, Procs, Rows, Works, Requests, Listed, States, Details,
                           Points, Groups
<1>4. PilotedKept
  BY Zenon, <1>0, <1>2 DEF PilotedKept, Piloted
<1>5. ReplayInv' /\ Kept /\ AskSteady /\ AllSteady /\ ProcSteady
  BY Zenon, <1>0, Unasked DEF AllSteady, ProcSteady
<1> QED BY Zenon, <1>3, <1>4, <1>5 DEF Good, Steady

LEMMA DeleteGood ==
    ASSUME TypeInv, ReplayInv, DeletePilotGroup
    PROVE  Good
<1>0. /\ UNCHANGED <<approvals, replaying, reported, starts, elapsed, imported, proc>>
      /\ pilotGroup' = FALSE /\ assignments' \subseteq assignments
      /\ rollouts' = [b \in Build |-> [rollouts[b] EXCEPT !.group = FALSE]]
  BY Zenon DEF DeletePilotGroup
<1>1. \A b \in Build : [rollouts[b] EXCEPT !.group = FALSE] \in Rows
  <2> SUFFICES ASSUME NEW b \in Build PROVE [rollouts[b] EXCEPT !.group = FALSE] \in Rows
    OBVIOUS
  <2>1. rollouts[b] \in Rows
    BY DEF TypeInv
  <2> QED BY Zenon, <2>1, RowChanges DEF Details
<1>2. rollouts' \in [Build -> Rows]
  BY Zenon, <1>0, <1>1
<1>3. /\ starts' \in [Build -> Nat] /\ imported' \in 0 .. MaxBuild /\ pilotGroup' \in BOOLEAN
      /\ UNCHANGED <<reported, elapsed>>
  BY Zenon, <1>0 DEF TypeInv
<1>4. ProcType' /\ ProcSteady
  BY Zenon, <1>0 DEF TypeInv, ProcType, ProcSteady
<1>5. approvals' \in Seq(Requests) /\ replaying' \in Nat /\ ReplayInv' /\ Kept /\ AskSteady
  BY Zenon, <1>0, Unasked
<1>6. AllSteady
  BY Zenon, <1>0, Unassigned
<1> QED BY Zenon, <1>2, <1>3, <1>4, <1>5, <1>6, Assemble

-------------------------------------------------------------------------------
(* The theorems. *)

RolloutInv == TypeInv /\ ReplayInv /\ PilotInv /\ ApprovedFirst

LEMMA InitInv == Init => RolloutInv
<1> SUFFICES ASSUME Init PROVE RolloutInv
  OBVIOUS
<1>1. TypeInv
  <2>1. rollouts \in [Build -> Rows]
    BY IdleType DEF Init
  <2>2. /\ approvals \in Seq(Requests) /\ replaying \in Nat
        /\ imported \in 0 .. MaxBuild /\ pilotGroup \in BOOLEAN
    BY MaxBuildAssumption DEF Init
  <2>3. /\ reported \in [Pilots -> [Build -> {"none", "succeeded", "failed"}]]
        /\ starts \in [Build -> Nat] /\ elapsed \in [Build -> Nat]
    BY DEF Init
  <2>4. proc \in [Procs -> Works] /\ \A p \in Procs : proc[p].pc = "idle"
    BY IdleType DEF Init
  <2> QED BY Zenon, <2>1, <2>2, <2>3, <2>4 DEF TypeInv
<1>2. ReplayInv
  BY DEF Init, ReplayInv
<1>3. PilotInv
  <2>1. FleetAfterPilot
    BY DEF Init, FleetAfterPilot
  <2>2. \A i \in 1 .. Len(approvals) : approvals[i].group = "all" => Piloted(approvals[i].build)
    <3>1. 1 .. Len(approvals) = {}
      BY DEF Init
    <3> QED BY Zenon, <3>1
  <2>3. \A p \in Procs : proc[p].pc = "idle"
    BY IdleType DEF Init
  <2>4. \A p \in Procs : proc[p].pc # "include all"
    BY Zenon, <2>3
  <2> QED BY Zenon, <2>1, <2>2, <2>4 DEF PilotInv
<1>4. ApprovedFirst
  BY DEF Init, ApprovedFirst
<1> QED BY Zenon, <1>1, <1>2, <1>3, <1>4 DEF RolloutInv

\* Every action is one of these.
LEMMA NextGood ==
    ASSUME TypeInv, ReplayInv, PilotInv, Next
    PROVE  Good
<1>1. CASE ImportAgent \/ CreateAgentRollout \/ ListOvertaken \/ Supersede \/ GetStarted
  BY Zenon, <1>1, ImportGood, CreateGood, ListOvertakenGood, SupersedeGood, GetStartedGood
<1>2. CASE Advance \/ SaveResumed \/ \E b \in Build : Resume(b)
  BY Zenon, <1>2, AdvanceGood, SaveResumedGood, ResumeGood
<1>3. CASE \E p \in Procs : Step(p) \/ AssignExclude(p) \/ IncludePilot(p) \/ IncludeAll(p)
  BY Zenon, <1>3, StepGood, AssignExcludeGood, IncludePilotGood, IncludeAllGood
<1>4. CASE \E p \in Procs : ListOlder(p) \/ Promote(p) \/ Unexclude(p) \/ Save(p) \/ Abort(p)
  BY Zenon, <1>4, ListOlderGood, PromoteGood, UnexcludeGood, SaveGood, AbortGood
<1>5. CASE \E i \in DOMAIN approvals :
             Decide(i, "approved") \/ Decide(i, "rejected") \/ ApprovalLapses(i)
  <2>1. "approved" \in {"approved", "rejected"} /\ "rejected" \in {"approved", "rejected"}
    OBVIOUS
  <2> QED BY Zenon, <1>5, <2>1, DecideGood, LapseGood
<1>6. CASE ReplayApproval \/ ReplayLost
  BY Zenon, <1>6, ReplayGood, ReplayLostGood
<1>7. CASE \E d \in Pilots, b \in Build :
             DeviceReports(d, b, "succeeded") \/ DeviceReports(d, b, "failed")
  <2>1. "succeeded" \in {"succeeded", "failed"} /\ "failed" \in {"succeeded", "failed"}
    OBVIOUS
  <2> QED BY Zenon, <1>7, <2>1, ReportsGood
<1>8. CASE (\E b \in Build : DelayPasses(b)) \/ DeletePilotGroup
  BY Zenon, <1>8, DelayGood, DeleteGood
<1> QED BY Zenon, <1>1, <1>2, <1>3, <1>4, <1>5, <1>6, <1>7, <1>8 DEF Next

LEMMA StutterInv ==
    ASSUME RolloutInv, UNCHANGED vars
    PROVE  RolloutInv'
<1>0. /\ UNCHANGED <<rollouts, reported, starts, elapsed, imported, pilotGroup, proc>>
      /\ UNCHANGED <<assignments, approvals, replaying>>
  BY DEF vars
<1>1. TypeInv /\ ReplayInv /\ PilotInv /\ ApprovedFirst
  BY Zenon DEF RolloutInv
<1>2. approvals' \in Seq(Requests) /\ replaying' \in Nat /\ ReplayInv' /\ Kept /\ AskSteady
  BY Zenon, <1>0, <1>1, Unasked
<1>3. AllSteady
  BY Zenon, <1>0, Unassigned
<1>4. Good
  BY Zenon, <1>0, <1>1, <1>2, <1>3, Decided
<1> QED BY Zenon, <1>1, <1>4, SteadyPilots, SteadyApproved DEF Good, RolloutInv

\* The rollout invariant: the rows, requests and processes are well formed, what is being
\* carried out was approved, a request for All devices and a process about to include All
\* devices are for a build that had its pilot (step, include and decideApproval).
THEOREM Invariance == Spec => []RolloutInv
<1>1. RolloutInv /\ [Next]_vars => RolloutInv'
  <2> SUFFICES ASSUME RolloutInv, [Next]_vars PROVE RolloutInv'
    OBVIOUS
  <2>1. CASE Next
    <3>1. TypeInv /\ ReplayInv /\ PilotInv /\ ApprovedFirst
      BY Zenon DEF RolloutInv
    <3>2. Good
      BY Zenon, <2>1, <3>1, NextGood
    <3> QED BY Zenon, <3>1, <3>2, SteadyPilots, SteadyApproved DEF Good, RolloutInv
  <2>2. CASE UNCHANGED vars
    BY Zenon, <2>2, StutterInv
  <2> QED BY Zenon, <2>1, <2>2
<1> QED BY <1>1, InitInv, PTL DEF Spec

\* With two-person approval no build is on All devices for which no approved request exists,
\* however the job, the feed, a resume and a decision interleave, and wherever the server
\* stops between a decision and carrying it out (include, decideApproval).
THEOREM FleetApproved == Spec => []ApprovedFirst
<1>1. RolloutInv => ApprovedFirst
  BY Zenon DEF RolloutInv
<1> QED BY <1>1, Invariance, PTL

\* No build reaches All devices before a pilot of it has had its whole delay and a pilot
\* device has reported it: the approval granted later, and a rollout resumed or
\* superseded meanwhile, do not skip the pilot (step).
THEOREM PilotFirst == Spec => []FleetAfterPilot
<1>1. RolloutInv => FleetAfterPilot
  BY Zenon DEF RolloutInv, PilotInv
<1> QED BY <1>1, Invariance, PTL


=============================================================================
