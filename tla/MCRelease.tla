----------------------------- MODULE MCRelease ------------------------------
(***************************************************************************)
(* How a build of the agent comes out, for TLC: builds uploaded and        *)
(* imported from the release feed, the rollout to pilots and fleet, and    *)
(* the agent replacing itself.                                             *)
(***************************************************************************)
EXTENDS SelfUpdate, Naturals, Sequences, TLC

CONSTANTS
    Off,   \* the value of a variable of a part that is left out
    a1, a2, Feed, p1

VARIABLES
    scene,   \* which of the parts this behaviour is about
    rollouts, assignments, approvals, replaying, reported, starts, elapsed,
    imported, pilotGroup, rolloutProc, resumes, aborts, lapses,
    version, releases, final, part, up, feed, removing, published, used,
    raced

Roll == INSTANCE Rollout WITH
    MaxBuild <- 3, Pilots <- {p1}, Approvals <- FALSE, PilotHeld <- FALSE,
    MayFail <- TRUE, MayDelete <- TRUE, Overlap <- FALSE, MaxResumes <- 1,
    MaxAborts <- 0, MaxLapses <- 0, proc <- rolloutProc

Held == INSTANCE Rollout WITH
    MaxBuild <- 3, Pilots <- {p1}, Approvals <- TRUE, PilotHeld <- TRUE,
    MayFail <- FALSE, MayDelete <- FALSE, Overlap <- FALSE, MaxResumes <- 1,
    MaxAborts <- 0, MaxLapses <- 1, proc <- rolloutProc

\* What is uploaded: the release as it was signed, a rebuild of it, bytes that do
\* not match, bytes nobody signed, and another platform's build.
Sent(p, body, sha, genuine) == [version |-> 1, platform |-> p, body |-> body, sha |-> sha, genuine |-> genuine]
Released == 1
Rebuilt == 2
Unsigned == 3
Inputs ==
    {Sent(1, Released, Released, TRUE), Sent(1, Rebuilt, Rebuilt, TRUE), Sent(1, Unsigned, Released, TRUE),
     Sent(1, Unsigned, Unsigned, FALSE), Sent(2, Released, Released, TRUE)}

Builds == INSTANCE AgentBuilds WITH
    Versions <- {1, 2}, Platforms <- {1, 2}, Admins <- {a1, a2},
    Carried <- <<{1, 2}, {1}>>, Inputs <- Inputs, Prereleases <- {},
    AllowPrerelease <- FALSE, MaxUploads <- 2, MaxDeletes <- 1,
    MaxFaults <- 1, MaxCrashes <- 1

rolloutVars ==
    <<rollouts, assignments, approvals, replaying, reported, starts,
      elapsed, imported, pilotGroup, rolloutProc, resumes, aborts, lapses>>

buildsVars ==
    <<version, releases, final, part, up, feed, removing, published, used,
      raced>>

rolloutOff ==
    rollouts = Off /\ assignments = Off /\ approvals = Off /\
    replaying = Off /\ reported = Off /\ starts = Off /\ elapsed = Off /\
    imported = Off /\ pilotGroup = Off /\ rolloutProc = Off /\
    resumes = Off /\ aborts = Off /\ lapses = Off

buildsOff ==
    version = Off /\ releases = Off /\ final = Off /\ part = Off /\
    up = Off /\ feed = Off /\ removing = Off /\ published = Off /\
    used = Off /\ raced = Off

-----------------------------------------------------------------------------
\* A behaviour is about one part; the variables of the others are Off,
\* and those of SelfUpdate stay as they start.
MCInit ==
    \/ /\ scene = "rollout" /\ Roll!Init
       /\ buildsOff /\ Init
    \/ /\ scene = "approvals" /\ Held!Init
       /\ buildsOff /\ Init
    \/ /\ scene \in {"uploads", "import", "pair"} /\ Builds!Init
       /\ rolloutOff /\ Init
    \/ /\ scene \in {"update", "again"} /\ Init
       /\ rolloutOff /\ buildsOff

InRollout ==
    /\ scene = "rollout"
    /\ UNCHANGED <<scene, buildsVars, vars>>
    /\ Roll!Next

InApprovals ==
    /\ scene = "approvals"
    /\ UNCHANGED <<scene, buildsVars, vars>>
    /\ Held!Next

InBuilds ==
    /\ scene \in {"uploads", "import", "pair"}
    /\ UNCHANGED <<scene, rolloutVars, vars>>
    /\ Builds!Next

InUpdate ==
    /\ scene \in {"update", "again"}
    /\ UNCHANGED <<scene, rolloutVars, buildsVars>>
    /\ Next

MCNext == InRollout \/ InApprovals \/ InBuilds \/ InUpdate

\* One upload next to the import of one release; the feed alone with every
\* release; two uploads side by side; an agent that makes one update whatever
\* happens, or that is sent forward twice and then back.
Few ==
    CASE scene = "uploads" -> published \subseteq {1} /\ used.uploads <= 1
      [] scene = "import" -> used.uploads = 0
      [] scene = "pair" -> published = {} /\ used.crashes = 0
      [] scene = "update" -> assigns <= 2 /\ attempts <= 1 /\ assigned # 4
      [] scene = "again" -> assigned = <<None, 3, 4, 3>>[assigns + 1] /\ restarts = 0 /\ faults = 0
      [] OTHER -> TRUE

Symmetry == Permutations({a1, a2})

-----------------------------------------------------------------------------
\* halt: "the pilot group goes back onto the fleet's build rather than being left
\* with none". With no rollout in progress a pilot device is offered some build.
PilotNotStranded ==
    /\ scene = "approvals" => Held!NotStranded
    /\ scene = "rollout" => Roll!NotStranded

\* A row never describes bytes that are not there: not after a crash at any
\* step, a refused upload of another platform or a failed transaction ("The
\* bytes land first", Upload) - as long as no two requests worked on the build
\* at once.
AloneKeepsItsBytes ==
    scene \in {"uploads", "import", "pair"} => Builds!AloneKeepsItsBytes
=============================================================================
