------------------------------ MODULE SelfUpdate ------------------------------
(***************************************************************************)
(* How an agent replaces itself (agent/selfupdate): the syncer of the      *)
(* running agent stages a build and spawns a supervisor; the supervisor    *)
(* stops the service, repoints it, starts it and waits for the new build   *)
(* to check in, or puts the old one back; an agent that starts reconciles  *)
(* the record it finds.  They share update.json, which no lock guards      *)
(* between processes, and the service manager.                             *)
(*                                                                         *)
(* A build is identified by its version.  The service was installed with   *)
(* the version Boot, whose binary self-update never touches.  A build in   *)
(* Works can check in; one in Genuine carries a valid signature and can    *)
(* run on this machine.  The supervisor's context is never cancelled:      *)
(* retune-agent calls Supervise with context.Background().                 *)
(***************************************************************************)
EXTENDS Naturals, FiniteSets

CONSTANTS
    Version, Boot, Works, Genuine,
    None,          \* no version
    Supervisors,   \* bound: supervisor processes alive at once
    MaxAttempts,   \* bound: updates staged
    MaxAssigns,    \* bound: changes of the assignment
    MaxRestarts,   \* bound: machine reboots and agent crashes
    MaxFaults      \* bound: failures of the service manager, a copy or a spawn

Attempt == 1 .. MaxAttempts

\* update.json.  Its deadline is that of the attempt n.
NoRecord == [n |-> 0, from |-> None, to |-> None, status |-> "absent", reported |-> FALSE]

VARIABLES
    assigned,   \* the build the server offers this device, or None
    verdict,    \* device_item_status of each build
    wired,      \* the build the service is pointed at
    built,      \* the builds under bin/
    rec,        \* update.json
    due,        \* the attempts whose deadline has passed
    attempts,   \* how many attempts were staged
    proc,       \* the version of the running agent, None while the service is stopped
    boot,       \* how far that agent's start has come: read, abandon, up
    rollback,   \* Syncer.Rollback
    backlog,    \* the items of the Syncs that wait for Syncer.mu
    at,         \* where the Sync that holds Syncer.mu is
    item,       \* the agent build it was given
    sup,        \* the supervisors: program counter and the record each has read
    proved,     \* history: attempts whose build checked in before its deadline
    assigns, restarts, faults

agentVars   == <<proc, boot, rollback, backlog, at, item>>
serverVars  == <<assigned, verdict>>
boundVars   == <<assigns, restarts, faults>>
attemptVars == <<due, attempts, proved>>
vars == <<serverVars, wired, built, rec, attemptVars, agentVars, sup, boundVars>>

NoSup == [at |-> "none", rec |-> NoRecord]

Init ==
    /\ assigned = None /\ verdict = [v \in Version |-> "none"]
    /\ wired = Boot /\ built = {} /\ rec = NoRecord
    /\ due = {} /\ attempts = 0 /\ proved = {}
    /\ proc = Boot /\ boot = "up" /\ rollback = NoRecord
    /\ backlog = {} /\ at = "idle" /\ item = None
    /\ sup = [s \in Supervisors |-> NoSup]
    /\ assigns = 0 /\ restarts = 0 /\ faults = 0

\* Something outside the agent's control fails.
Fault == faults < MaxFaults /\ faults' = faults + 1

Available(v) == v = Boot \/ v \in built

-------------------------------------------------------------------------------
(* The server, the clock and the service manager. *)

Assign(v) ==
    /\ assigns < MaxAssigns /\ v # assigned
    /\ assigned' = v /\ assigns' = assigns + 1
    /\ UNCHANGED <<verdict, wired, built, rec, attemptVars, agentVars, sup, restarts, faults>>

\* agentVersionResult: recorded for a build the device is assigned, else 404.
Answer(v, outcome) ==
    verdict' = IF assigned = v THEN [verdict EXCEPT ![v] = outcome] ELSE verdict

\* A report nobody waits for a second time: it arrives or it does not.
Report(v, outcome) == Answer(v, outcome) \/ UNCHANGED verdict

Deadline(n) ==
    /\ n \in 1 .. attempts /\ n \notin due
    /\ due' = due \cup {n}
    /\ UNCHANGED <<serverVars, wired, built, rec, attempts, proved, agentVars, sup, boundVars>>

\* The agent process is replaced by one of version v, or by none.
Process(v) ==
    /\ proc' = v /\ boot' = "read" /\ rollback' = NoRecord
    /\ backlog' = {} /\ at' = "idle" /\ item' = None

StopService == Process(None)

StartService == proc = None /\ Available(wired) /\ Process(wired)

Bring == Process(IF Available(wired) THEN wired ELSE None)

\* The agent dies and the service manager's recovery actions start it again.
AgentCrash ==
    /\ proc # None /\ restarts < MaxRestarts
    /\ restarts' = restarts + 1
    /\ Bring
    /\ UNCHANGED <<serverVars, wired, built, rec, attemptVars, sup, assigns, faults>>

\* The machine goes down, with whatever supervises an update, and comes up.
Reboot ==
    /\ restarts < MaxRestarts
    /\ restarts' = restarts + 1
    /\ Bring
    /\ sup' = [s \in Supervisors |-> NoSup]
    /\ UNCHANGED <<serverVars, wired, built, rec, attemptVars, assigns, faults>>

-------------------------------------------------------------------------------
(* An agent starts: runner.Run. *)

\* An expired attempt at a build that is not the one running has lost its supervisor.
Expired(r, v) == r.status = "pending" /\ r.to # v /\ r.n \in due

Reconcile ==
    /\ proc # None /\ boot = "read"
    /\ boot' = IF Expired(rec, proc) THEN "abandon" ELSE "up"
    /\ rollback' = IF rec.status = "rolled_back" /\ ~rec.reported THEN rec ELSE NoRecord
    /\ UNCHANGED <<serverVars, wired, built, rec, attemptVars, proc, backlog, at, item,
                   sup, boundVars>>

\* The record is removed as it is by now.
Abandon ==
    /\ boot = "abandon"
    /\ rec' = NoRecord /\ boot' = "up"
    /\ UNCHANGED <<serverVars, wired, built, attemptVars, proc, rollback, backlog, at, item,
                   sup, boundVars>>

-------------------------------------------------------------------------------
(* Check-ins, and the Sync each of them starts. *)

\* markAgentCurrent: a device that says it runs an assigned build does.
MarkAgentCurrent ==
    verdict' = IF assigned = proc THEN [verdict EXCEPT ![proc] = "succeeded"] ELSE verdict

CheckedIn ==
    LET proof == rec.status = "pending" /\ rec.to = proc IN
    /\ rec' = IF proof THEN [rec EXCEPT !.status = "succeeded"] ELSE rec
    /\ proved' = IF proof /\ rec.n \notin due THEN proved \cup {rec.n} ELSE proved

CheckinAnswered ==
    /\ proc \in Works /\ boot = "up"
    /\ MarkAgentCurrent
    /\ CheckedIn
    /\ backlog' = backlog \cup {assigned}
    /\ UNCHANGED <<assigned, wired, built, due, attempts, proc, boot, rollback, at, item,
                   sup, boundVars>>

\* The answer is lost on the way.
CheckinLost ==
    /\ proc \in Works /\ boot = "up"
    /\ MarkAgentCurrent /\ verdict' # verdict
    /\ UNCHANGED <<assigned, wired, built, rec, attemptVars, agentVars, sup, boundVars>>

SyncStep(from) ==
    /\ at = from
    /\ UNCHANGED <<assigned, wired, due, proved, proc, boot, assigns, restarts>>

\* Sync gets the mutex, and adopts a rollback this process was not restarted for.
SyncBegin(v) ==
    /\ SyncStep("idle") /\ v \in backlog
    /\ backlog' = backlog \ {v} /\ item' = v
    /\ rollback' = IF rollback = NoRecord /\ rec.status = "rolled_back" /\ ~rec.reported
                   THEN rec ELSE rollback
    /\ at' = IF rollback' = NoRecord THEN "item" ELSE "report"
    /\ UNCHANGED <<verdict, built, rec, attempts, sup, faults>>

\* The server has recorded the rollback, or says the build is gone.
ReportRollback ==
    /\ SyncStep("report") /\ at' = "mark"
    /\ Answer(rollback.to, "failed")
    /\ UNCHANGED <<built, rec, attempts, rollback, backlog, item, sup, faults>>

ReportFails ==
    /\ SyncStep("report") /\ at' = "item"
    /\ Report(rollback.to, "failed")
    /\ UNCHANGED <<built, rec, attempts, rollback, backlog, item, sup, faults>>

MarkReported ==
    /\ SyncStep("mark") /\ at' = "item"
    /\ rec' = IF rec.to = rollback.to /\ rec.status = rollback.status
              THEN [rec EXCEPT !.reported = TRUE] ELSE rec
    /\ rollback' = NoRecord
    /\ UNCHANGED <<verdict, built, attempts, backlog, item, sup, faults>>

AlreadyRefused(r, v) == r.status = "refused" /\ r.to = v

\* Decide: difference, not ordering; a build rolled back or under way is left alone.
Decide(v) == v # proc /\ ~(rec.to = v /\ rec.status \in {"rolled_back", "pending"})

\* The definition was fetched and an update is due.
SyncDecide ==
    /\ SyncStep("item") /\ at' = "stage"
    /\ item # None /\ item = assigned /\ attempts < MaxAttempts
    /\ ~AlreadyRefused(rec, item) /\ Decide(item)
    /\ UNCHANGED <<verdict, built, rec, attempts, rollback, backlog, item, sup, faults>>

\* Nothing to do, outside the maintenance windows, or the fetch failed.
SyncNothing ==
    /\ SyncStep("item") /\ at' = "idle" /\ item' = None
    /\ UNCHANGED <<verdict, built, rec, attempts, rollback, backlog, sup, faults>>

\* The signature does not verify, or the build is for another machine.
Refuse ==
    /\ SyncStep("stage") /\ item \notin Genuine
    /\ Report(item, "failed")
    /\ rec' = [n |-> 0, from |-> proc, to |-> item, status |-> "refused", reported |-> TRUE]
    /\ at' = "idle" /\ item' = None
    /\ UNCHANGED <<built, attempts, rollback, backlog, sup, faults>>

Download ==
    /\ SyncStep("stage") /\ item \in Genuine
    /\ built' = built \cup {item} /\ at' = "record"
    /\ UNCHANGED <<verdict, rec, attempts, rollback, backlog, item, sup, faults>>

\* What was on disk under this version goes too.
DownloadFails ==
    /\ SyncStep("stage") /\ item \in Genuine
    /\ built' = built \ {item}
    /\ Report(item, "failed")
    /\ at' = "idle" /\ item' = None
    /\ UNCHANGED <<rec, attempts, rollback, backlog, sup, faults>>

WriteRecord ==
    /\ SyncStep("record") /\ at' = "spawn"
    /\ attempts' = attempts + 1
    /\ rec' = [n |-> attempts', from |-> proc, to |-> item, status |-> "pending",
               reported |-> FALSE]
    /\ UNCHANGED <<verdict, built, rollback, backlog, item, sup, faults>>

Spawn ==
    /\ SyncStep("spawn") /\ at' = "idle" /\ item' = None
    /\ \E s \in Supervisors :
         sup[s] = NoSup /\ sup' = [sup EXCEPT ![s].at = "read"]
    /\ UNCHANGED <<verdict, built, rec, attempts, rollback, backlog, faults>>

\* A wrong stage that leaves the record when the supervisor did not start.
SpawnFailsQuietly ==
    /\ SyncStep("spawn") /\ at' = "idle" /\ item' = None
    /\ Fault
    /\ Report(item, "failed")
    /\ UNCHANGED <<built, rec, attempts, rollback, backlog, sup>>

\* abandon: the copy or the spawn failed.
SpawnFails ==
    /\ SyncStep("spawn") /\ at' = "idle" /\ item' = None
    /\ Fault
    /\ rec' = NoRecord /\ built' = built \ {item}
    /\ Report(item, "failed")
    /\ UNCHANGED <<attempts, rollback, backlog, sup>>

-------------------------------------------------------------------------------
(* The supervisor. *)

Goto(s, place) == sup' = [sup EXCEPT ![s].at = place]
Exit(s) == sup' = [sup EXCEPT ![s] = NoSup]
RolledBack(s) == [sup[s].rec EXCEPT !.status = "rolled_back"]

SupStep(s, from) ==
    /\ sup[s].at = from
    /\ UNCHANGED <<serverVars, attemptVars, assigns, restarts>>

SupRead(s) ==
    /\ SupStep(s, "read")
    /\ IF rec.status = "pending" THEN sup' = [sup EXCEPT ![s] = [at |-> "stop", rec |-> rec]]
                                 ELSE Exit(s)
    /\ UNCHANGED <<wired, built, rec, agentVars, faults>>

SupStop(s) ==
    /\ SupStep(s, "stop")
    /\ \/ StopService /\ Goto(s, "repoint") /\ UNCHANGED <<rec, faults>>
       \/ Fault /\ rec' = RolledBack(s) /\ Exit(s) /\ UNCHANGED agentVars
    /\ UNCHANGED <<wired, built>>

\* SetBinPath, then SetRecoveryActions: either may fail.
SupRepoint(s) ==
    /\ SupStep(s, "repoint")
    /\ \/ wired' = sup[s].rec.to /\ Goto(s, "start") /\ UNCHANGED faults
       \/ Fault /\ wired' \in {wired, sup[s].rec.to} /\ Goto(s, "undo_stop")
    /\ UNCHANGED <<built, rec, agentVars>>

\* A build that does not work may already fail to start.
SupStart(s) ==
    /\ SupStep(s, "start")
    /\ \/ StartService /\ Goto(s, "poll") /\ UNCHANGED faults
       \/ proc # None /\ Goto(s, "poll") /\ UNCHANGED <<agentVars, faults>>
       \/ /\ Fault \/ ((wired \notin Works \/ ~Available(wired)) /\ UNCHANGED faults)
          /\ Goto(s, "undo_stop") /\ UNCHANGED agentVars
    /\ UNCHANGED <<wired, built, rec>>

\* A wrong Supervise that takes a running process for proof of life.
SupPollTrustsStart(s) ==
    /\ SupStep(s, "poll")
    /\ Goto(s, IF proc = sup[s].rec.to THEN "settle" ELSE "check")
    /\ UNCHANGED <<wired, built, rec, agentVars, faults>>

SupPoll(s) ==
    /\ SupStep(s, "poll")
    /\ Goto(s, IF rec.status = "succeeded" THEN "settle" ELSE "check")
    /\ UNCHANGED <<wired, built, rec, agentVars, faults>>

SupCheck(s) ==
    /\ SupStep(s, "check")
    /\ Goto(s, IF sup[s].rec.n \in due THEN "undo_stop" ELSE "poll")
    /\ UNCHANGED <<wired, built, rec, agentVars, faults>>

SupSettle(s) ==
    /\ SupStep(s, "settle")
    /\ rec' = NoRecord /\ Goto(s, "prune")
    /\ UNCHANGED <<wired, built, agentVars, faults>>

\* A wrong prune that keeps only the build that was replaced.
SupPruneWinner(s) ==
    /\ SupStep(s, "prune")
    /\ built' = built \cap {sup[s].rec.from}
    /\ Exit(s)
    /\ UNCHANGED <<wired, rec, agentVars, faults>>

SupPrune(s) ==
    /\ SupStep(s, "prune")
    /\ built' = built \cap {sup[s].rec.to, sup[s].rec.from}
    /\ Exit(s)
    /\ UNCHANGED <<wired, rec, agentVars, faults>>

\* A wrong rollback that claims a restore which failed.
RestoreFailsClaimed(s) == rec' = RolledBack(s) /\ Exit(s)

\* rollback, when restoreBuild failed: what the record may claim depends on
\* where the service points.
RestoreFails(s) ==
    /\ rec' = IF wired = sup[s].rec.to THEN sup[s].rec ELSE RolledBack(s)
    /\ Exit(s)

UndoStop(s) ==
    /\ SupStep(s, "undo_stop")
    /\ \/ StopService /\ Goto(s, "undo_repoint") /\ UNCHANGED <<rec, faults>>
       \/ Fault /\ RestoreFails(s) /\ UNCHANGED agentVars
    /\ UNCHANGED <<wired, built>>

UndoRepoint(s) ==
    /\ SupStep(s, "undo_repoint")
    /\ \/ wired' = sup[s].rec.from /\ Goto(s, "undo_start") /\ UNCHANGED <<rec, faults>>
       \/ Fault /\ RestoreFails(s) /\ UNCHANGED wired
    /\ UNCHANGED <<built, agentVars>>

UndoStart(s) ==
    /\ SupStep(s, "undo_start")
    /\ \/ StartService /\ Goto(s, "verdict") /\ UNCHANGED <<rec, faults>>
       \/ proc # None /\ Goto(s, "verdict") /\ UNCHANGED <<rec, agentVars, faults>>
       \/ /\ Fault \/ (~Available(wired) /\ UNCHANGED faults)
          /\ RestoreFails(s) /\ UNCHANGED agentVars
    /\ UNCHANGED <<wired, built>>

\* A wrong rollback that writes the record it read back unchanged.
SupVerdictForgotten(s) ==
    /\ SupStep(s, "verdict")
    /\ rec' = sup[s].rec /\ Exit(s)
    /\ UNCHANGED <<wired, built, agentVars, faults>>

\* Only now, with the old build running again, is the verdict written.
SupVerdict(s) ==
    /\ SupStep(s, "verdict")
    /\ rec' = RolledBack(s) /\ Exit(s)
    /\ UNCHANGED <<wired, built, agentVars, faults>>

-------------------------------------------------------------------------------

AgentStep ==
    \/ Reconcile \/ Abandon
    \/ \E v \in Version \cup {None} : SyncBegin(v)
    \/ ReportRollback \/ ReportFails \/ MarkReported \/ SyncDecide \/ SyncNothing \/ Refuse
    \/ Download \/ DownloadFails \/ WriteRecord \/ Spawn \/ SpawnFails

Supervise(s) ==
    \/ SupRead(s) \/ SupStop(s) \/ SupRepoint(s) \/ SupStart(s) \/ SupPoll(s) \/ SupCheck(s)
    \/ SupSettle(s) \/ SupPrune(s) \/ UndoStop(s) \/ UndoRepoint(s) \/ UndoStart(s)
    \/ SupVerdict(s)

Next ==
    \/ \E v \in Version \cup {None} : Assign(v)
    \/ \E n \in Attempt : Deadline(n)
    \/ AgentCrash \/ Reboot
    \/ CheckinAnswered \/ CheckinLost
    \/ AgentStep
    \/ \E s \in Supervisors : Supervise(s)

Spec == Init /\ [][Next]_vars

\* Processes are scheduled, clocks advance, and a server that can be reached
\* again and again answers a check-in and a report in the end.
Fairness ==
    /\ \A s \in Supervisors : WF_vars(Supervise(s))
    /\ \A n \in Attempt : WF_vars(Deadline(n))
    /\ WF_vars(AgentStep) /\ SF_vars(ReportRollback)
    /\ SF_vars(CheckinAnswered)

FairSpec == Spec /\ Fairness

-------------------------------------------------------------------------------
(* Properties. *)

Unsupervised == \A s \in Supervisors : sup[s] = NoSup

\* The service is only ever pointed at the installed build or at one whose
\* signature verified and that can run here (stage).
OnlyGenuine == wired \in Genuine \cup {Boot}

\* From the moment a supervisor stops the service and as long as its attempt is
\* the pending one, the build it would go back to is on disk, whatever other
\* attempts download, abandon or prune meanwhile (stage, abandon,
\* pruneOldBuilds).  Once the new build has checked in, a download of the old
\* one that fails may remove it.
RestorePointKept ==
    \A s \in Supervisors :
        faults = 0 /\ sup[s].at \notin {"none", "read"} /\ rec = sup[s].rec =>
            Available(sup[s].rec.from)

\* A pending record has somebody to resolve it: a supervisor, the Sync about to
\* spawn one, or the build itself, which the service is still wired to and
\* which settles the record when it checks in.  Otherwise Decide answers
\* "already under way" for ever (abandon, Supervise step 2, rollback).
Watched ==
    rec.status = "pending" /\ restarts = 0 =>
        ~Unsupervised \/ at = "spawn" \/ wired = rec.to

\* When every supervisor is done and nothing failed, a build that can check in
\* is running: no update ends with the service stopped or on a bad build
\* (Supervise, rollback).  The exception is a service whose build is gone: a
\* download of the build it goes back to failed in the meantime.
NotStranded ==
    Unsupervised /\ restarts = 0 /\ faults = 0 => proc \in Works \/ ~Available(wired)

\* A record that says rolled back is not about the build the service is wired
\* to: the agent that reports it is the one it was rolled back to (rollback,
\* stillOnNewBuild).  It takes two failures of the service manager to break it.
RolledBackIsOff == rec.status = "rolled_back" /\ faults < 2 => wired # rec.to

\* A pending attempt is resolved in the end.
PendingResolved == (rec.status = "pending") ~> (rec.status # "pending")

===============================================================================
