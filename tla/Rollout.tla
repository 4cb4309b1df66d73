------------------------------- MODULE Rollout -------------------------------
(***************************************************************************)
(* The automatic rollout of agent builds: internal/server/releasefeed      *)
(* (Rollout.Start, Advance, Resume and the steps they take), the approvals *)
(* it waits for (adminapi.decideApproval, store/approvals.go) and the      *)
(* assignments that decide which builds a device is offered                *)
(* (store.EffectiveItems).                                                 *)
(*                                                                         *)
(* Three processes take steps: the release feed, which starts a rollout    *)
(* for every build it imports; the job that advances rollouts, which works *)
(* on the rows it listed; and an administrator who resumes a halted one.   *)
(* A statement or transaction is a step here; between two of them the      *)
(* process may stop, and with Overlap another one may run.                 *)
(*                                                                         *)
(* Builds are numbered in the order of their versions.  An assignment is   *)
(* its key (build, group, mode), which the database keeps unique.          *)
(***************************************************************************)
EXTENDS Integers, Sequences, FiniteSets

CONSTANTS MaxBuild,      \* builds the feed imports, 1 .. MaxBuild
          Pilots,        \* the devices of the pilot group
          Approvals,     \* two-person approval is on
          PilotHeld,     \* the pilot group is over the approval threshold
          MayFail,       \* may a build fail on a pilot device?
          MayDelete,     \* may the pilot group be deleted?
          Overlap,       \* may two processes run at once?
          MaxResumes,    \* halted rollouts an administrator resumes
          MaxAborts,     \* steps that stop halfway
          MaxLapses      \* approvals nobody decides

ASSUME MaxBuildAssumption == MaxBuild \in Nat

VARIABLES rollouts,    \* agent_rollouts, by build
          assignments, \* assignments
          approvals,   \* approvals of the rollout's assignments
          replaying,   \* the approval decideApproval is about to carry out
          reported,    \* device_item_status of the pilot devices
          starts,      \* pilots begun, by build: the PilotStartedAt given out
          elapsed,     \* and how many of them have had their whole delay
          imported,    \* the newest build the feed imported
          pilotGroup,  \* does the pilot group exist?
          proc,        \* the processes
          resumes, aborts, lapses

vars == <<rollouts, assignments, approvals, replaying, reported, starts, elapsed,
          imported, pilotGroup, proc, resumes, aborts, lapses>>
budget == <<resumes, aborts, lapses>>

Build == 1..MaxBuild
NoRollout == [state |-> "none", group |-> FALSE, pilotAs |-> FALSE, pilotAp |-> 0,
         start |-> 0, exclude |-> 0, fleetAs |-> FALSE, fleetAp |-> 0, detail |-> "none"]
Procs == {"feed", "job", "resume"}
Idle == [pc |-> "idle", b |-> 0, row |-> NoRollout, todo |-> {}, older |-> {}]

Init ==
    /\ rollouts = [b \in Build |-> NoRollout]
    /\ assignments = {} /\ approvals = << >> /\ replaying = 0
    /\ reported = [d \in Pilots |-> [b \in Build |-> "none"]]
    /\ starts = [b \in Build |-> 0] /\ elapsed = starts /\ imported = 0 /\ pilotGroup = TRUE
    /\ proc = [p \in Procs |-> Idle]
    /\ resumes = 0 /\ aborts = 0 /\ lapses = 0

(***************************************************************************)
(* What the database answers.                                              *)
(***************************************************************************)
InState(states) == {b \in Build : rollouts[b].state \in states}
ListRolloutsInState(states) == {[b |-> b, row |-> rollouts[b]] : b \in InState(states)}

\* The most recently created of the promoted rollouts, 0 if there is none.
FleetBuild ==
    IF InState({"promoted"}) = {} THEN 0
    ELSE CHOOSE b \in InState({"promoted"}) : \A c \in InState({"promoted"}) : c <= b

Succeeded(b) == {d \in Pilots : reported[d][b] = "succeeded"}
Failed(b) == {d \in Pilots : reported[d][b] = "failed"}

\* The builds a device in these groups is offered: included, and not excluded.
EffectiveItems(groups) ==
    {b \in Build : /\ \E g \in groups : <<b, g, "include">> \in assignments
                   /\ \A g \in groups : <<b, g, "exclude">> \notin assignments}

\* All devices taken for a group of fixed size.
NeedsApprovalOverThreshold(group) == Approvals /\ PilotHeld

NeedsApproval(group) == Approvals /\ (group = "all" \/ PilotHeld)

(***************************************************************************)
(* Processes.                                                              *)
(***************************************************************************)
Me(p) == proc[p]
AtPoint(p, pc) == proc[p].pc = pc
Go(p, pc, row) == proc' = [proc EXCEPT ![p].pc = pc, ![p].row = row]

\* The step of one rollout is over: the job takes the next row it listed.
Finish(p) ==
    IF proc[p].todo = {} THEN proc' = [proc EXCEPT ![p] = Idle]
    ELSE LET t == CHOOSE t \in proc[p].todo : \A u \in proc[p].todo : t.b <= u.b IN
         proc' = [proc EXCEPT ![p] = [pc |-> "step", b |-> t.b, row |-> t.row,
                                      todo |-> proc[p].todo \ {t}, older |-> {}]]

AtRest == replaying = 0 /\ \A p \in Procs : AtPoint(p, "idle")
MayStart(p) == AtPoint(p, "idle") /\ (Overlap \/ AtRest)

\* removeAssignment of a rollout's pilot assignment and exclusion.
PilotAssignments(b, row) ==
    {<<b, "pilot", "include">> : x \in {row.pilotAs} \cap {TRUE}}
      \cup {<<e, "pilot", "exclude">> : e \in {row.exclude} \ {0}}

(***************************************************************************)
(* Start: the feed has imported a build.                                   *)
(***************************************************************************)
\* Verified, recorded and marked imported: the next poll will not look at it again.
ImportAgent ==
    /\ MayStart("feed") /\ imported < MaxBuild
    /\ imported' = imported + 1
    /\ IF pilotGroup /\ \A old \in InState({"promoted"}) : imported + 1 > old
       THEN proc' = [proc EXCEPT !["feed"] = [Idle EXCEPT !.pc = "create", !.b = imported + 1]]
       ELSE UNCHANGED proc
    /\ UNCHANGED <<rollouts, assignments, approvals, replaying, reported, starts, elapsed, pilotGroup, budget>>

CreateAgentRollout ==
    /\ AtPoint("feed", "create")
    /\ LET b == Me("feed").b IN
       rollouts' = [rollouts EXCEPT ![b] = [NoRollout EXCEPT !.state = "pilot", !.group = pilotGroup]]
    /\ proc' = [proc EXCEPT !["feed"].pc = "overtake"]
    /\ UNCHANGED <<assignments, approvals, replaying, reported, starts, elapsed, imported, pilotGroup, budget>>

OvertakenStates == {"pilot", "promoting"}

ListOvertaken ==
    /\ AtPoint("feed", "overtake")
    /\ LET old == {t \in ListRolloutsInState(OvertakenStates) : t.b # Me("feed").b} IN
       proc' = [proc EXCEPT !["feed"].todo = old,
                            !["feed"].pc = IF old = {} THEN "get" ELSE "supersede"]
    /\ UNCHANGED <<rollouts, assignments, approvals, replaying, reported, starts, elapsed, imported, pilotGroup, budget>>

SupersededRow(row) ==
    [row EXCEPT !.state = "superseded", !.pilotAs = FALSE, !.exclude = 0,
                !.pilotAp = 0, !.fleetAp = 0, !.detail = "none"]

Withdraw(ids) ==
    [i \in DOMAIN approvals |->
       IF i \in ids /\ approvals[i].status = "pending"
       THEN [approvals[i] EXCEPT !.status = "rejected"] ELSE approvals[i]]

Supersede ==
    /\ AtPoint("feed", "supersede")
    /\ LET t == CHOOSE t \in Me("feed").todo : \A u \in Me("feed").todo : t.b <= u.b IN
       /\ assignments' = assignments \ PilotAssignments(t.b, t.row)
       /\ approvals' = Withdraw({t.row.pilotAp, t.row.fleetAp})
       /\ rollouts' = [rollouts EXCEPT ![t.b] =
                         [SupersededRow(t.row) EXCEPT !.group = rollouts[t.b].group]]
       /\ proc' = [proc EXCEPT !["feed"].todo = @ \ {t},
                               !["feed"].pc = IF Me("feed").todo = {t} THEN "get" ELSE "supersede"]
    /\ UNCHANGED <<replaying, reported, starts, elapsed, imported, pilotGroup, budget>>

GetStarted ==
    /\ AtPoint("feed", "get")
    /\ Go("feed", "step", rollouts[Me("feed").b])
    /\ UNCHANGED <<rollouts, assignments, approvals, replaying, reported, starts, elapsed, imported, pilotGroup, budget>>

(***************************************************************************)
(* Advance: the job, every five minutes. Resume: an administrator.         *)
(***************************************************************************)
\* The rollouts that wait for approval are left alone.
AdvancePilotOnly ==
    /\ MayStart("job") /\ InState({"pilot"}) # {}
    /\ LET active == ListRolloutsInState({"pilot"})
           t == CHOOSE t \in active : \A u \in active : t.b <= u.b IN
       proc' = [proc EXCEPT !["job"] = [pc |-> "step", b |-> t.b, row |-> t.row,
                                        todo |-> active \ {t}, older |-> {}]]
    /\ UNCHANGED <<rollouts, assignments, approvals, replaying, reported, starts, elapsed, imported, pilotGroup, budget>>

Advance ==
    /\ MayStart("job") /\ InState({"pilot", "promoting"}) # {}
    /\ LET active == ListRolloutsInState({"pilot", "promoting"})
           t == CHOOSE t \in active : \A u \in active : t.b <= u.b IN
       proc' = [proc EXCEPT !["job"] = [pc |-> "step", b |-> t.b, row |-> t.row,
                                        todo |-> active \ {t}, older |-> {}]]
    /\ UNCHANGED <<rollouts, assignments, approvals, replaying, reported, starts, elapsed, imported, pilotGroup, budget>>

Resumable == {"halted"}

Resume(b) ==
    /\ MayStart("resume") /\ resumes < MaxResumes /\ resumes' = resumes + 1
    /\ rollouts[b].state \in Resumable
    /\ proc' = [proc EXCEPT !["resume"] =
         [pc |-> "save resumed", b |-> b, todo |-> {}, older |-> {},
          row |-> [rollouts[b] EXCEPT !.state = "pilot", !.pilotAp = 0, !.fleetAp = 0,
                                      !.detail = "none"]]]
    /\ UNCHANGED <<rollouts, assignments, approvals, replaying, reported, starts, elapsed, imported, pilotGroup,
                   aborts, lapses>>

UpdateAgentRollout(b, row) == [rollouts EXCEPT ![b] = [row EXCEPT !.group = rollouts[b].group]]

SaveResumed ==
    /\ AtPoint("resume", "save resumed")
    /\ rollouts' = UpdateAgentRollout(Me("resume").b, Me("resume").row)
    /\ proc' = [proc EXCEPT !["resume"].pc = "step"]
    /\ UNCHANGED <<assignments, approvals, replaying, reported, starts, elapsed, imported, pilotGroup, budget>>

(***************************************************************************)
(* step: the decision, from what the process reads, and then one action    *)
(* for each transaction it leads to.                                       *)
(***************************************************************************)
\* A pilot group that never got the build goes back onto the fleet's build.
HaltedRow(row) == [row EXCEPT !.state = "halted", !.detail = "halted"]
HaltLeavesExclusion(p, row) == Go(p, "save", HaltedRow(row))

Halt(p, row) ==
    IF ~row.pilotAs /\ row.exclude # 0 THEN Go(p, "unexclude", row)
    ELSE Go(p, "save", HaltedRow(row))

\* PilotStartedAt is now.
StartPilot(p, b, row) ==
    /\ starts' = [starts EXCEPT ![b] = @ + 1]
    /\ Go(p, "save", [row EXCEPT !.pilotAs = TRUE, !.start = starts[b] + 1, !.detail = "none"])

Wait(p, row, detail) ==
    IF row.detail = detail THEN Finish(p) ELSE Go(p, "save", [row EXCEPT !.detail = detail])

\* Waiting for the approval of the pilot group.
ApprovedPilot(p, b, row) ==
    LET status == approvals[row.pilotAp].status IN
    IF status = "approved" /\ <<b, "pilot", "include">> \in assignments
    THEN StartPilot(p, b, row)
    ELSE /\ IF status = "pending" THEN Wait(p, row, "approval") ELSE Halt(p, row)
         /\ UNCHANGED starts

\* Nothing asked for yet: keep the pilot group off the fleet's build first.
BeginPilot(p, b, row) ==
    IF row.exclude = 0 /\ FleetBuild \notin {0, b}
    THEN Go(p, "exclude", [row EXCEPT !.exclude = FleetBuild])
    ELSE Go(p, "include", row)

PilotPassed(p, b, row) ==
    CASE Failed(b) # {} -> Halt(p, row)
      [] Failed(b) = {} /\ row.start > elapsed[b] ->
           Wait(p, row, IF Succeeded(b) = {} THEN "piloting" ELSE "first success")
      [] Failed(b) = {} /\ row.start <= elapsed[b] /\ Succeeded(b) = {} -> Wait(p, row, "no success")
      [] OTHER -> Go(p, "include all", row)

StepPilot(p, b, row) ==
    IF row.group /\ ~row.pilotAs /\ row.pilotAp # 0 THEN ApprovedPilot(p, b, row)
    ELSE /\ CASE ~row.group -> Halt(p, row)
              [] row.group /\ row.pilotAs -> PilotPassed(p, b, row)
              [] OTHER -> BeginPilot(p, b, row)
         /\ UNCHANGED starts

StepPromoting(p, b, row) ==
    IF \/ row.group /\ Failed(b) # {}
       \/ row.fleetAp = 0
       \/ approvals[row.fleetAp].status \notin {"pending", "approved"}
       \/ approvals[row.fleetAp].status = "approved" /\ <<b, "all", "include">> \notin assignments
    THEN Halt(p, row)
    ELSE IF approvals[row.fleetAp].status = "pending" THEN Wait(p, row, "approval")
    ELSE Go(p, "list older", row)

Step(p) ==
    /\ AtPoint(p, "step")
    /\ CASE Me(p).row.state = "pilot" -> StepPilot(p, Me(p).b, Me(p).row)
         [] Me(p).row.state = "promoting" ->
              StepPromoting(p, Me(p).b, Me(p).row) /\ UNCHANGED starts
         [] OTHER -> Finish(p) /\ UNCHANGED starts
    /\ UNCHANGED <<rollouts, assignments, approvals, replaying, reported, elapsed, imported, pilotGroup, budget>>

\* assignExclude; a group that is gone takes no assignment, and the step fails.
AssignExclude(p) ==
    /\ AtPoint(p, "exclude")
    /\ IF pilotGroup
       THEN /\ assignments' = assignments \cup {<<Me(p).row.exclude, "pilot", "exclude">>}
            /\ Go(p, "include", Me(p).row)
       ELSE Finish(p) /\ UNCHANGED assignments
    /\ UNCHANGED <<rollouts, approvals, replaying, reported, starts, elapsed, imported, pilotGroup, budget>>

\* include: the assignment, or the request for it.
Ask(b, group) == Append(approvals, [build |-> b, group |-> group, status |-> "pending"])

IncludePilot(p) ==
    /\ AtPoint(p, "include")
    /\ CASE ~pilotGroup -> Finish(p) /\ UNCHANGED <<assignments, approvals, starts>>
         [] pilotGroup /\ NeedsApproval("pilot") ->
              /\ approvals' = Ask(Me(p).b, "pilot") /\ UNCHANGED <<assignments, starts>>
              /\ Go(p, "save", [Me(p).row EXCEPT !.pilotAp = Len(approvals) + 1,
                                                 !.detail = "approval"])
         [] OTHER ->
              /\ assignments' = assignments \cup {<<Me(p).b, "pilot", "include">>}
              /\ StartPilot(p, Me(p).b, Me(p).row)
              /\ UNCHANGED approvals
    /\ UNCHANGED <<rollouts, replaying, reported, elapsed, imported, pilotGroup, budget>>

IncludeAll(p) ==
    /\ AtPoint(p, "include all")
    /\ IF NeedsApproval("all")
       THEN /\ approvals' = Ask(Me(p).b, "all") /\ UNCHANGED assignments
            /\ Go(p, "save", [Me(p).row EXCEPT !.state = "promoting", !.detail = "approval",
                                               !.fleetAp = Len(approvals) + 1])
       ELSE /\ assignments' = assignments \cup {<<Me(p).b, "all", "include">>}
            /\ Go(p, "list older", Me(p).row)
            /\ UNCHANGED approvals
    /\ UNCHANGED <<rollouts, replaying, reported, starts, elapsed, imported, pilotGroup, budget>>

ListOlder(p) ==
    /\ AtPoint(p, "list older")
    /\ proc' = [proc EXCEPT ![p].pc = "promote",
                            ![p].older = {t \in ListRolloutsInState({"promoted"}) : t.b # Me(p).b}]
    /\ UNCHANGED <<rollouts, assignments, approvals, replaying, reported, starts, elapsed, imported, pilotGroup, budget>>

FleetAssignments(b, row) == {<<b, "all", "include">> : x \in {row.fleetAs} \cap {TRUE}}

ReplacedRow(row) ==
    [row EXCEPT !.state = "superseded", !.fleetAs = FALSE, !.pilotAs = FALSE,
                !.exclude = 0, !.detail = "none"]

\* The assignments the build being promoted clears away.
Cleared(b, row, older) ==
    PilotAssignments(b, row)
      \cup UNION {FleetAssignments(t.b, t.row) \cup PilotAssignments(t.b, t.row) : t \in older}

Promote(p) ==
    /\ AtPoint(p, "promote")
    /\ assignments' = assignments \ Cleared(Me(p).b, Me(p).row, Me(p).older)
    /\ rollouts' = [b \in Build |->
         IF \E t \in Me(p).older : t.b = b
         THEN [ReplacedRow((CHOOSE t \in Me(p).older : t.b = b).row)
                 EXCEPT !.group = rollouts[b].group]
         ELSE rollouts[b]]
    /\ Go(p, "save", [Me(p).row EXCEPT !.state = "promoted", !.fleetAs = TRUE, !.pilotAs = FALSE,
                                       !.exclude = 0, !.detail = "none"])
    /\ UNCHANGED <<approvals, replaying, reported, starts, elapsed, imported, pilotGroup, budget>>

Unexclude(p) ==
    /\ AtPoint(p, "unexclude")
    /\ assignments' = assignments \ {<<Me(p).row.exclude, "pilot", "exclude">>}
    /\ Go(p, "save", HaltedRow([Me(p).row EXCEPT !.exclude = 0]))
    /\ UNCHANGED <<rollouts, approvals, replaying, reported, starts, elapsed, imported, pilotGroup, budget>>

\* save, and wait's write: every column, whatever the row holds by now.
Save(p) ==
    /\ AtPoint(p, "save")
    /\ rollouts' = UpdateAgentRollout(Me(p).b, Me(p).row)
    /\ Finish(p)
    /\ UNCHANGED <<assignments, approvals, replaying, reported, starts, elapsed, imported, pilotGroup, budget>>

\* The transaction fails, or the server stops before it: nothing of it is
\* written and the step is not gone on with.
Abort(p) ==
    /\ ~AtPoint(p, "idle") /\ aborts < MaxAborts /\ aborts' = aborts + 1
    /\ proc' = [proc EXCEPT ![p] = Idle]
    /\ UNCHANGED <<rollouts, assignments, approvals, replaying, reported, starts, elapsed, imported,
                   pilotGroup, resumes, lapses>>

(***************************************************************************)
(* Approvers, pilot devices and time.                                      *)
(***************************************************************************)
\* The decision is committed first, and carried out after it.
Decide(i, status) ==
    /\ replaying = 0 /\ (Overlap \/ AtRest)
    /\ approvals[i].status = "pending"
    /\ approvals' = [approvals EXCEPT ![i].status = status]
    /\ replaying' = IF status = "approved" THEN i ELSE 0
    /\ UNCHANGED <<rollouts, assignments, reported, starts, elapsed, imported, pilotGroup, proc, budget>>

ReplayApproval ==
    /\ replaying # 0 /\ replaying' = 0
    /\ LET a == approvals[replaying] IN
       IF a.group = "pilot" /\ ~pilotGroup
       THEN /\ approvals' = [approvals EXCEPT ![replaying].status = "failed"]
            /\ UNCHANGED assignments
       ELSE /\ assignments' = assignments \cup {<<a.build, a.group, "include">>}
            /\ UNCHANGED approvals
    /\ UNCHANGED <<rollouts, reported, starts, elapsed, imported, pilotGroup, proc, budget>>

\* The server stops between the two.
ReplayLost ==
    /\ replaying # 0 /\ replaying' = 0
    /\ aborts < MaxAborts /\ aborts' = aborts + 1
    /\ UNCHANGED <<rollouts, assignments, approvals, reported, starts, elapsed, imported, pilotGroup,
                   proc, resumes, lapses>>

ApprovalLapses(i) ==
    /\ approvals[i].status = "pending" /\ lapses < MaxLapses /\ lapses' = lapses + 1
    /\ approvals' = [approvals EXCEPT ![i].status = "expired"]
    /\ UNCHANGED <<rollouts, assignments, replaying, reported, starts, elapsed, imported, pilotGroup,
                   proc, resumes, aborts>>

\* A pilot device that is offered a build reports how it went.
DeviceReports(d, b, status) ==
    /\ pilotGroup /\ b \in EffectiveItems({"pilot", "all"})
    /\ status = "succeeded" \/ MayFail
    /\ reported[d][b] # status
    /\ reported' = [reported EXCEPT ![d][b] = status]
    /\ UNCHANGED <<rollouts, assignments, approvals, replaying, starts, elapsed, imported, pilotGroup,
                   proc, budget>>

DelayPasses(b) ==
    /\ elapsed[b] < starts[b]
    /\ elapsed' = [elapsed EXCEPT ![b] = @ + 1]
    /\ UNCHANGED <<rollouts, assignments, approvals, replaying, reported, starts, imported, pilotGroup,
                   proc, budget>>

\* An administrator deletes the pilot group: its assignments go with it.
DeletePilotGroup ==
    /\ MayDelete /\ pilotGroup /\ (Overlap \/ AtRest)
    /\ pilotGroup' = FALSE
    /\ assignments' = {a \in assignments : a[2] # "pilot"}
    /\ rollouts' = [b \in Build |-> [rollouts[b] EXCEPT !.group = FALSE]]
    /\ UNCHANGED <<approvals, replaying, reported, starts, elapsed, imported, proc, budget>>

StepOf(p) ==
    Step(p) \/ AssignExclude(p) \/ IncludePilot(p) \/ IncludeAll(p) \/ ListOlder(p)
      \/ Promote(p) \/ Unexclude(p) \/ Save(p)
StartOf == CreateAgentRollout \/ ListOvertaken \/ Supersede \/ GetStarted

Next ==
    \/ ImportAgent \/ CreateAgentRollout \/ ListOvertaken \/ Supersede \/ GetStarted
    \/ Advance \/ SaveResumed
    \/ \E b \in Build : Resume(b)
    \/ \E p \in Procs :
         \/ Step(p) \/ AssignExclude(p) \/ IncludePilot(p) \/ IncludeAll(p) \/ ListOlder(p)
         \/ Promote(p) \/ Unexclude(p) \/ Save(p) \/ Abort(p)
    \/ \E i \in DOMAIN approvals :
         Decide(i, "approved") \/ Decide(i, "rejected") \/ ApprovalLapses(i)
    \/ ReplayApproval \/ ReplayLost
    \/ \E d \in Pilots, b \in Build :
         DeviceReports(d, b, "succeeded") \/ DeviceReports(d, b, "failed")
    \/ \E b \in Build : DelayPasses(b)
    \/ DeletePilotGroup

Spec == Init /\ [][Next]_vars

\* The jobs run on their timers and finish what they begin, time passes, a device
\* that is offered a build reports it, and someone decides an approval. Nothing
\* makes an administrator resume a rollout.
Fairness ==
    /\ WF_vars(ImportAgent) /\ SF_vars(Advance)
    /\ WF_vars(StartOf) /\ \A p \in Procs : WF_vars(StepOf(p))
    /\ WF_vars(SaveResumed) /\ WF_vars(ReplayApproval)
    /\ \A i \in 1..(2 * MaxBuild + MaxAborts + 2 * MaxResumes) :
         SF_vars(i \in DOMAIN approvals /\ \E d \in {"approved", "rejected"} : Decide(i, d))
    /\ \A b \in Build : WF_vars(DelayPasses(b))
    /\ \A d \in Pilots, b \in Build :
         WF_vars(reported[d][b] = "none" /\ \E s \in {"succeeded", "failed"} : DeviceReports(d, b, s))

FairSpec == Spec /\ Fairness

(***************************************************************************)
(* Properties.                                                             *)
(***************************************************************************)
Fleet == EffectiveItems({"all"})
Pilot == EffectiveItems({"pilot", "all"})

\* README: "every device is offered exactly one version at every step". Between
\* the steps of the rollout (Start, Advance and Resume have returned), once a
\* build has reached the fleet, neither a pilot device nor another one is offered
\* none or two: with two a device would switch between them.
OneBuild ==
    (AtRest /\ InState({"promoted"}) # {}) =>
       Cardinality(Fleet) = 1 /\ (pilotGroup => Cardinality(Pilot) = 1)

\* halt: "the pilot group goes back onto the fleet's build rather than being left
\* with none". With no rollout in progress a pilot device is offered some build.
NotStranded ==
    (AtRest /\ InState({"promoted"}) # {} /\ InState({"pilot", "promoting"}) = {}) => Pilot # {}

\* With two-person approval no build reaches All devices that nobody approved.
ApprovedFirst ==
    \A b \in Build : Approvals /\ <<b, "all", "include">> \in assignments =>
       \E i \in DOMAIN approvals : approvals[i] = [build |-> b, group |-> "all", status |-> "approved"]

\* Every rollout comes to an end or stops where an administrator is told: the
\* steps never leave one in progress for good.
Settles ==
    \A b \in Build : rollouts[b].state \in {"pilot", "promoting"} ~>
       rollouts[b].state \in {"promoted", "halted", "superseded"}

=============================================================================
