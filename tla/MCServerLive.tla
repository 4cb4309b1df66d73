---------------------------- MODULE MCServerLive ----------------------------
(***************************************************************************)
(* What the server gets done in the end, for TLC: the rollout of a build,  *)
(* and what follows from an inventory or from an administrator's edit.     *)
(***************************************************************************)
EXTENDS Rollout, Integers, Sequences, TLC

CONSTANTS
    None, p1

VARIABLES
    scene,   \* which of the parts this behaviour is about
    machine, inv, acked, aged, active, rule, member, policy, assigned, comp,
    mirror, at, lock, deleting, evaluating, left

Fl == INSTANCE Fleet WITH
    Devices <- {1}, Values <- {11, 12},
    GroupRules <- {{11}, {11, 12, None}}, Policies <- {{11}, {12}},
    Builtin <- FALSE,
    Workers <- {"ingest", "sweep", "pass", "groups", "admin"},
    MaxChanges <- 1, MaxEdits <- 1, MaxFaults <- 1

\* The machine changes; or an administrator edits and a step of the server fails.
OneOrTheOther == left.changes = 1 \/ (left.edits = 1 /\ left.faults = 1)

fleetVars ==
    <<machine, inv, acked, aged, active, rule, member, policy, assigned,
      comp, mirror, at, lock, deleting, evaluating, left>>

-----------------------------------------------------------------------------
\* A behaviour is about one part; the others stay as they start.
MCInit ==
    /\ scene \in {"rollout", "fleet"}
    /\ Init
    /\ Fl!Init /\ machine[1] = 11 /\ rule = {11}
    /\ scene # "fleet" => policy = {11}

InRollout ==
    /\ scene = "rollout"
    /\ UNCHANGED <<scene, fleetVars>>
    /\ Next

InFleet ==
    /\ scene = "fleet"
    /\ UNCHANGED <<scene, vars>>
    /\ Fl!Next /\ OneOrTheOther'

MCNext ==
    InRollout \/ InFleet

-----------------------------------------------------------------------------
\* Each part is fair in the way its own module says and why.

rolloutFair ==
    /\ WF_vars(scene = "rollout" /\ ImportAgent)
    /\ SF_vars(scene = "rollout" /\ Advance)
    /\ WF_vars(scene = "rollout" /\ StartOf)
    /\ \A p \in Procs : WF_vars(scene = "rollout" /\ StepOf(p))
    /\ WF_vars(scene = "rollout" /\ SaveResumed)
    /\ WF_vars(scene = "rollout" /\ ReplayApproval)
    /\ \A i \in 1..(2 * MaxBuild + MaxAborts + 2 * MaxResumes) :
         SF_vars(scene = "rollout"
                 /\ (i \in DOMAIN approvals /\ \E d \in {"approved", "rejected"} : Decide(i, d)))
    /\ \A b \in Build : WF_vars(scene = "rollout" /\ DelayPasses(b))
    /\ \A d \in Pilots, b \in Build :
         WF_vars(scene = "rollout"
                 /\ (reported[d][b] = "none" /\ \E s \in {"succeeded", "failed"} : DeviceReports(d, b, s)))

fleetFair ==
    /\ \A d \in {1} :
         /\ WF_fleetVars(scene = "fleet" /\ Fl!Ingest(d))
         /\ WF_fleetVars(scene = "fleet" /\ Fl!Age(d))
    /\ WF_fleetVars(scene = "fleet" /\ Fl!MatchDevice)
    /\ WF_fleetVars(scene = "fleet" /\ Fl!SetDevice)
    /\ \A w \in Fl!Evaluators :
         SF_fleetVars(scene = "fleet" /\ Fl!EvaluateDevice(w))
    /\ WF_fleetVars(scene = "fleet" /\ Fl!EvaluateActive)
    /\ WF_fleetVars(scene = "fleet" /\ Fl!SweepGroups)
    /\ \A w \in {"groups", "admin"} :
         WF_fleetVars(scene = "fleet"
                      /\ (Fl!MatchGroup(w) \/ Fl!SetMembers(w)))
    /\ WF_fleetVars(scene = "fleet" /\ Fl!DeleteCommit)

MCSpec ==
    /\ MCInit
    /\ [][MCNext]_<<scene, vars, fleetVars>>
    /\ rolloutFair /\ fleetFair

\* Every rollout comes to an end or stops where an administrator is told: the
\* steps never leave one in progress for good.
RolloutSettles == scene = "rollout" => Settles

\* Once machines, administrators and failures rest, every derived group holds
\* exactly the devices its rule matches, and every active device has exactly
\* the verdict of its policies on what is really on it.
FleetSettles == scene = "fleet" => Fl!FleetSettles
=============================================================================
