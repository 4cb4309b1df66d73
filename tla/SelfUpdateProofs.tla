--------------------------- MODULE SelfUpdateProofs ---------------------------
(***************************************************************************)
(* The theorems about SelfUpdate, for any builds, any number of attempts,  *)
(* changes of the assignment, crashes, reboots and failures.               *)
(*                                                                         *)
(* Whatever supervisors run side by side, the service is only pointed at   *)
(* genuine builds and a pending record is watched.  With one supervisor at *)
(* a time, what the record claims about the service is so, the build to go *)
(* back to is kept and no update strands the device.                       *)
(***************************************************************************)
EXTENDS SelfUpdate, TLAPS

Any == Version \cup {None}

Places == {"none", "read", "stop", "repoint", "start", "poll", "check", "settle", "prune",
           "undo_stop", "undo_repoint", "undo_start", "verdict"}

Records == [n : Nat, from : Any, to : Any, reported : BOOLEAN,
            status : {"absent", "pending", "succeeded", "rolled_back", "refused"}]

\* The installed build works, and None is not a build.
Builds == Boot \in Version /\ Boot \in Works /\ Works \subseteq Version /\ None \notin Version

\* No second update is supervised while one is.
OneSupervisor == \A s, t \in Supervisors : s = t

TypeInv ==
    /\ assigned \in Any /\ wired \in Any /\ proc \in Any /\ item \in Any
    /\ backlog \subseteq Any
    /\ rec \in Records /\ rollback \in Records
    /\ attempts \in Nat /\ restarts \in Nat /\ faults \in Nat
    /\ sup \in [Supervisors -> [at : Places, rec : Records]]

\* A pending record is about another build than the one it would go back to,
\* which has checked in, and belongs to an attempt that was made.
Sound(r) ==
    /\ r.status = "pending" /\ r.from # r.to /\ r.from \in Works /\ r.to \in Version
    /\ r.n <= attempts /\ ~r.reported

Supervised(s) == sup[s].at \notin {"none", "read"}

\* The service is wired to a build.  Only a process that has checked in syncs,
\* and never to the build it is.
SyncInv ==
    /\ wired \in Version /\ rollback.status \in {"absent", "rolled_back"}
    /\ at # "idle" \/ backlog # {} => proc \in Works
    /\ at \in {"stage", "record", "spawn"} => item \in Version /\ item # proc
    /\ rec.status = "pending" => Sound(rec)
    /\ \A s \in Supervisors : Supervised(s) => Sound(sup[s].rec)

Good == Genuine \cup {Boot}

GenuineInv ==
    /\ OnlyGenuine
    /\ proc # None => proc \in Good
    /\ at \in {"record", "spawn"} => item \in Genuine
    /\ rec.status = "pending" => rec.from \in Good /\ rec.to \in Good
    /\ \A s \in Supervisors : Supervised(s) => sup[s].rec.from \in Good /\ sup[s].rec.to \in Good

\* The supervisor that watches a pending record is not one that only prunes.
WatchInv ==
    rec.status = "pending" /\ restarts = 0 =>
        \/ at = "spawn" \/ wired = rec.to
        \/ \E s \in Supervisors : sup[s].at \notin {"none", "prune"}

\* With one supervisor the service runs what it is wired to or nothing, and
\* what it is wired to follows from where the supervisor is.
PlaceInv ==
    /\ proc \in {None, wired}
    /\ proc # None => Available(proc)
    /\ \A s \in Supervisors :
        /\ sup[s].at \in {"repoint", "start", "undo_repoint", "undo_start"} => proc = None
        /\ sup[s].at \in {"start", "poll", "check", "settle", "prune"} => wired = sup[s].rec.to
        /\ sup[s].at \in {"undo_start", "verdict"} => wired = sup[s].rec.from
        /\ sup[s].at \in {"read", "stop"} => Available(wired)
        /\ Supervised(s) => rec.status # "rolled_back"

\* As long as the service manager has not failed, a record that is about to be
\* supervised goes back to the build that is wired, and a build on trial has
\* not synced.
CalmInv ==
    faults = 0 =>
        /\ rec.status = "pending" /\ at = "spawn" => rec.from = wired
        /\ rec.status = "pending" /\ rec.to = proc => at = "idle" /\ backlog = {}
        /\ \A s \in Supervisors :
            /\ sup[s].at \in {"read", "stop"} /\ rec.status = "pending" => rec.from = wired
            /\ sup[s].at \in {"stop", "repoint"} => wired = sup[s].rec.from
            /\ sup[s].at \in {"undo_stop", "undo_repoint"} => wired = sup[s].rec.to

\* Without failures and restarts, a supervisor that is before its stop or after
\* its verdict leaves a working build running.
LiveInv ==
    faults = 0 /\ restarts = 0 =>
        \A s \in Supervisors :
            /\ sup[s].at \in {"read", "stop", "settle", "prune", "verdict"} => proc \in Works
            /\ sup[s].at \in {"stop", "repoint", "start"} => rec.status # "succeeded"
            /\ sup[s].at \in {"poll", "check"} /\ rec.status = "succeeded" => proc \in Works

\* The steps that leave the record, the service and the supervisors alone.
Quiet ==
    \/ \E v \in Version \cup {None} : Assign(v) \/ SyncBegin(v)
    \/ \E n \in Attempt : Deadline(n)
    \/ CheckinLost \/ Reconcile \/ ReportRollback \/ ReportFails \/ SyncDecide \/ SyncNothing
    \/ Download \/ DownloadFails
    \/ UNCHANGED vars

\* Every step but those of a supervisor and the restarts.
Outside ==
    Quiet \/ CheckinAnswered \/ Abandon \/ MarkReported \/ Refuse \/ WriteRecord \/ Spawn \/ SpawnFails

\* What a step of a supervisor may change: the bounds, the agent, the builds, the
\* record, the service and its own place.
SupKeeps(s) == /\ UNCHANGED <<assigned, attempts, restarts>> /\ sup[s].at # "none"
               /\ UNCHANGED faults \/ Fault
SupProcess  == UNCHANGED agentVars \/ StopService \/ StartService
SupBuilt(s) == UNCHANGED built \/ SupPrune(s)
SupRecord(s) ==
    \/ UNCHANGED rec \/ rec' = NoRecord \/ rec' = RolledBack(s)
    \/ /\ sup[s].at \in {"undo_stop", "undo_repoint", "undo_start"}
       /\ UndoStop(s) \/ UndoRepoint(s) \/ UndoStart(s)
       /\ RestoreFails(s)
SupWired(s) ==
    \/ UNCHANGED wired
    \/ sup[s].at \in {"repoint", "undo_repoint"} /\ wired' \in {sup[s].rec.to, sup[s].rec.from}
SupMoves(s) ==
    \/ /\ sup[s].at = "read" /\ rec.status = "pending"
       /\ sup' = [sup EXCEPT ![s] = [at |-> "stop", rec |-> rec]]
    \/ sup[s].at \notin {"none", "read"} /\ \E place \in Places : Goto(s, place)
    \/ Exit(s)

\* What another step may change of the bounds, the builds, the record and the Sync.
OutKeeps == /\ UNCHANGED <<wired, proc, restarts>>
            /\ faults' = faults \/ faults' = faults + 1
OutSup   == UNCHANGED sup \/ Spawn
OutBuilt ==
    \/ UNCHANGED built \/ (proc \in Works /\ built \subseteq built')
    \/ proc \in Works /\ item # proc /\ built' = built \ {item} /\ at # "idle"
OutRecord ==
    \/ UNCHANGED rec \/ rec'.status \in {"absent", "refused"} \/ MarkReported
    \/ WriteRecord \/ CheckinAnswered
OutSync ==
    /\ at' # "idle" \/ backlog' # {} => at # "idle" \/ backlog # {} \/ CheckinAnswered
    /\ at' = "spawn" => at = "spawn" \/ WriteRecord
QuietKeeps == UNCHANGED <<sup, rec, attempts, wired, proc, restarts, faults>>
QuietSync ==
    /\ at' # "idle" \/ backlog' # {} => at # "idle" \/ backlog # {}
    /\ at' \in {"stage", "record", "spawn"} => item' \in Version /\ item' # proc
    /\ at' \in {"record", "spawn"} => (at' = at /\ item' = item) \/ item' \in Genuine
    /\ at' = "spawn" <=> at = "spawn"
    /\ rollback'.status \in {"absent", "rolled_back"}

\* What holds whatever supervisors there are, and what one at a time adds.
Inv == TypeInv /\ SyncInv /\ GenuineInv /\ WatchInv
SoloInv == Inv /\ PlaceInv /\ CalmInv /\ RolledBackIsOff /\ RestorePointKept /\ LiveInv
           /\ NotStranded

-------------------------------------------------------------------------------
(***************************************************************************)
(* The supervisors and the records.                                        *)
(***************************************************************************)

\* A supervisor that goes on keeps the record it has read.
LEMMA GoesOn ==
    ASSUME TypeInv, NEW s \in Supervisors, NEW place \in Places, Goto(s, place)
    PROVE  /\ sup' \in [Supervisors -> [at : Places, rec : Records]]
           /\ sup'[s].at = place /\ sup'[s].rec = sup[s].rec
           /\ \A t \in Supervisors : t # s => sup'[t] = sup[t]
BY DEF TypeInv, Goto

\* One that exits is gone.
LEMMA Exits ==
    ASSUME TypeInv, NEW s \in Supervisors, Exit(s)
    PROVE  /\ sup' \in [Supervisors -> [at : Places, rec : Records]]
           /\ sup'[s] = NoSup /\ sup'[s].at = "none"
           /\ \A t \in Supervisors : t # s => sup'[t] = sup[t]
<1>1. NoSup \in [at : Places, rec : Records] /\ NoSup.at = "none"
    BY Zenon DEF NoSup, NoRecord, Places, Records, Any
<1> QED
    BY <1>1 DEF TypeInv, Exit

\* The verdict of a supervisor is about the attempt it has read.
LEMMA Verdicts ==
    ASSUME TypeInv, NEW s \in Supervisors
    PROVE  /\ RolledBack(s) \in Records /\ RolledBack(s).status = "rolled_back"
           /\ RolledBack(s).to = sup[s].rec.to /\ RolledBack(s).from = sup[s].rec.from
           /\ sup[s].rec \in Records
<1>1. sup[s].rec \in Records
    BY Zenon DEF TypeInv
<1> QED
    BY Zenon, <1>1 DEF RolledBack, Records

\* A restore that failed leaves the attempt pending where the service is still
\* wired to the new build, and rolled back elsewhere.
LEMMA FailedRestore ==
    ASSUME TypeInv, NEW s \in Supervisors, RestoreFails(s)
    PROVE  /\ rec' \in Records /\ Exit(s)
           /\ wired = sup[s].rec.to => rec' = sup[s].rec
           /\ wired # sup[s].rec.to => rec' = RolledBack(s)
BY Zenon, Verdicts DEF RestoreFails

\* No record.
LEMMA Absent == NoRecord \in Records /\ NoRecord.status = "absent"
BY Zenon DEF NoRecord, Records, Any

-------------------------------------------------------------------------------
(***************************************************************************)
(* Types.                                                                  *)
(***************************************************************************)

\* What a process that starts has done: nothing.
LEMMA Fresh ==
    ASSUME TypeInv, StopService \/ StartService \/ Bring
    PROVE  /\ proc' \in {None, wired} /\ item' = None /\ at' = "idle" /\ backlog' = {}
           /\ rollback' = NoRecord
           /\ proc' # None => proc' = wired /\ Available(wired)
           /\ StopService => proc' = None
BY Zenon DEF StopService, StartService, Bring, Process

\* What a step of a supervisor may change.
LEMMA SupEffects ==
    ASSUME NEW s \in Supervisors, Supervise(s)
    PROVE  SupKeeps(s) /\ SupProcess /\ SupBuilt(s) /\ SupRecord(s) /\ SupWired(s) /\ SupMoves(s)
<1>1. CASE SupRead(s)
    BY Zenon, <1>1 DEF SupRead, SupStep, serverVars, attemptVars, SupKeeps, SupProcess, SupBuilt, SupRecord,
       SupWired, SupMoves, Places
<1>2. CASE SupStop(s)
    BY Zenon, <1>2 DEF SupStop, SupStep, serverVars, attemptVars, SupKeeps, SupProcess, SupBuilt, SupRecord,
       SupWired, SupMoves, Places
<1>3. CASE SupRepoint(s)
    BY Zenon, <1>3 DEF SupRepoint, SupStep, serverVars, attemptVars, SupKeeps, SupProcess, SupBuilt, SupRecord,
       SupWired, SupMoves, Places
<1>4. CASE SupStart(s)
    BY Zenon, <1>4 DEF SupStart, SupStep, serverVars, attemptVars, SupKeeps, SupProcess, SupBuilt, SupRecord,
       SupWired, SupMoves, Places
<1>5. CASE SupPoll(s)
    BY Zenon, <1>5 DEF SupPoll, SupStep, serverVars, attemptVars, SupKeeps, SupProcess, SupBuilt, SupRecord,
       SupWired, SupMoves, Places
<1>6. CASE SupCheck(s)
    BY Zenon, <1>6 DEF SupCheck, SupStep, serverVars, attemptVars, SupKeeps, SupProcess, SupBuilt, SupRecord,
       SupWired, SupMoves, Places
<1>7. CASE SupSettle(s)
    BY Zenon, <1>7 DEF SupSettle, SupStep, serverVars, attemptVars, SupKeeps, SupProcess, SupBuilt, SupRecord,
       SupWired, SupMoves, Places
<1>8. CASE SupPrune(s)
    BY Zenon, <1>8 DEF SupPrune, SupStep, serverVars, attemptVars, SupKeeps, SupProcess, SupBuilt, SupRecord,
       SupWired, SupMoves, Places
<1>9. CASE UndoStop(s)
    BY Zenon, <1>9 DEF UndoStop, RestoreFails, SupStep, serverVars, attemptVars, SupKeeps, SupProcess, SupBuilt, SupRecord,
       SupWired, SupMoves, Places
<1>10. CASE UndoRepoint(s)
    BY Zenon, <1>10 DEF UndoRepoint, RestoreFails, SupStep, serverVars, attemptVars, SupKeeps, SupProcess, SupBuilt, SupRecord,
       SupWired, SupMoves, Places
<1>11. CASE UndoStart(s)
    BY Zenon, <1>11 DEF UndoStart, RestoreFails, SupStep, serverVars, attemptVars, SupKeeps, SupProcess, SupBuilt, SupRecord,
       SupWired, SupMoves, Places
<1>12. CASE SupVerdict(s)
    BY Zenon, <1>12 DEF SupVerdict, SupStep, serverVars, attemptVars, SupKeeps, SupProcess, SupBuilt, SupRecord,
       SupWired, SupMoves, Places
<1> QED
    BY Zenon, <1>1, <1>2, <1>3, <1>4, <1>5, <1>6, <1>7, <1>8, <1>9, <1>10, <1>11, <1>12 DEF Supervise

\* Every step keeps the types.
LEMMA TypeSteps ==
    ASSUME Builds, TypeInv, [Next]_vars
    PROVE  TypeInv'
<1> USE Absent DEF Any
<1>1. ASSUME NEW v \in Version \cup {None}, Assign(v) PROVE TypeInv'
    BY Zenon, <1>1 DEF Assign, TypeInv, attemptVars, agentVars
<1>2. ASSUME NEW n \in Attempt, Deadline(n) PROVE TypeInv'
    BY Zenon, <1>2 DEF Deadline, TypeInv, serverVars, agentVars, boundVars
<1>3. CASE AgentCrash
    <2>1. restarts' \in Nat
        BY <1>3 DEF AgentCrash, TypeInv
    <2> QED
        BY Zenon, <1>3, <2>1, Fresh DEF AgentCrash, TypeInv, serverVars, attemptVars
<1>4. CASE Reboot
    <2>1. restarts' \in Nat
        BY <1>4 DEF Reboot, TypeInv
    <2>2. NoSup \in [at : Places, rec : Records]
        BY DEF NoSup, Places
    <2>3. sup' \in [Supervisors -> [at : Places, rec : Records]]
        BY <1>4, <2>2 DEF Reboot
    <2> QED
        BY Zenon, <1>4, <2>1, <2>3, Fresh DEF Reboot, TypeInv, serverVars, attemptVars
<1>5. CASE CheckinAnswered
    <2>1. rec' \in Records
        BY Zenon, <1>5 DEF CheckinAnswered, CheckedIn, TypeInv, Records
    <2> QED
        BY Zenon, <1>5, <2>1 DEF CheckinAnswered, TypeInv, boundVars
<1>6. CASE CheckinLost
    BY <1>6 DEF CheckinLost, TypeInv, attemptVars, agentVars, boundVars
<1>7. CASE Reconcile
    BY Zenon, <1>7 DEF Reconcile, TypeInv, serverVars, attemptVars, boundVars
<1>8. CASE Abandon
    BY Zenon, <1>8 DEF Abandon, TypeInv, serverVars, attemptVars, boundVars
<1>9. ASSUME NEW v \in Version \cup {None}, SyncBegin(v) PROVE TypeInv'
    BY Zenon, <1>9 DEF SyncBegin, SyncStep, TypeInv
<1>10. CASE ReportRollback \/ ReportFails \/ SyncDecide \/ SyncNothing
    BY Zenon, <1>10 DEF ReportRollback, ReportFails, SyncDecide, SyncNothing, SyncStep, TypeInv
<1>11. CASE MarkReported
    <2>1. rec' \in Records
        BY <1>11, Zenon DEF MarkReported, TypeInv, Records
    <2> QED
        BY Zenon, <1>11, <2>1 DEF MarkReported, SyncStep, TypeInv
<1>12. CASE Refuse
    <2>1. rec' \in Records
        BY Zenon, <1>12 DEF Refuse, SyncStep, TypeInv, Records
    <2> QED
        BY Zenon, <1>12, <2>1 DEF Refuse, SyncStep, TypeInv
<1>13. CASE Download \/ DownloadFails
    BY Zenon, <1>13 DEF Download, DownloadFails, SyncStep, TypeInv
<1>14. CASE WriteRecord
    <2>1. attempts' \in Nat
        BY <1>14 DEF WriteRecord, TypeInv
    <2>2. rec' \in Records
        BY <1>14, <2>1 DEF WriteRecord, SyncStep, TypeInv, Records
    <2> QED
        BY Zenon, <1>14, <2>1, <2>2 DEF WriteRecord, SyncStep, TypeInv
<1>15. CASE Spawn
    <2>1. PICK s \in Supervisors : Goto(s, "read")
        BY <1>15, Zenon DEF Spawn, Goto
    <2>2. sup' \in [Supervisors -> [at : Places, rec : Records]]
        BY Zenon, <2>1, GoesOn DEF Places
    <2> QED
        BY Zenon, <1>15, <2>2 DEF Spawn, SyncStep, TypeInv
<1>16. CASE SpawnFails
    <2>1. faults' \in Nat
        BY <1>16 DEF SpawnFails, Fault, TypeInv
    <2> QED
        BY Zenon, <1>16, <2>1 DEF SpawnFails, SyncStep, TypeInv
<1>17. ASSUME NEW s \in Supervisors, Supervise(s) PROVE TypeInv'
    <2>1. UNCHANGED <<assigned, attempts, restarts>> /\ faults' \in Nat
        BY <1>17, SupEffects DEF SupKeeps, Fault, TypeInv
    <2>2. proc' \in Any /\ item' \in Any /\ backlog' \subseteq Any /\ rollback' \in Records
        BY Zenon, <1>17, SupEffects, Fresh DEF SupProcess, agentVars, TypeInv
    <2>3. rec' \in Records
        BY Zenon, <1>17, SupEffects, Verdicts, FailedRestore DEF SupRecord, TypeInv
    <2>4. sup' \in [Supervisors -> [at : Places, rec : Records]]
        <3>1. [at |-> "stop", rec |-> rec] \in [at : Places, rec : Records]
            BY DEF TypeInv, Places
        <3> QED
            BY Zenon, <1>17, <3>1, SupEffects, GoesOn, Exits DEF SupMoves, TypeInv
    <2>5. wired' \in Any
        BY <1>17, SupEffects DEF SupWired, TypeInv, Records
    <2> QED
        BY <2>1, <2>2, <2>3, <2>4, <2>5 DEF TypeInv
<1>18. CASE UNCHANGED vars
    BY <1>18 DEF vars, serverVars, attemptVars, agentVars, boundVars, TypeInv
<1> QED
    BY Zenon, <1>1, <1>2, <1>3, <1>4, <1>5, <1>6, <1>7, <1>8, <1>9, <1>10, <1>11, <1>12, <1>13, <1>14,
       <1>15, <1>16, <1>17, <1>18 DEF Next, AgentStep

-------------------------------------------------------------------------------
(***************************************************************************)
(* Syncs and attempts.                                                     *)
(***************************************************************************)

\* What was true of a record stays true while attempts are only added.
LEMMA StillSound ==
    ASSUME TypeInv, NEW r \in Records, Sound(r), attempts' \in Nat, attempts <= attempts'
    PROVE  \A q : q = r => Sound(q)'
<1>1. r.n \in Nat
    BY Zenon DEF Records
<1> QED
    BY <1>1 DEF Sound, TypeInv

\* A step that touches neither the supervisors nor what they have read.
LEMMA SupFrame ==
    ASSUME TypeInv, SyncInv, UNCHANGED sup, attempts' \in Nat, attempts <= attempts'
    PROVE  \A s \in Supervisors : Supervised(s)' => Sound(sup[s].rec)'
<1> SUFFICES ASSUME NEW s \in Supervisors, Supervised(s)' PROVE Sound(sup[s].rec)'
    OBVIOUS
<1>1. Sound(sup[s].rec) /\ sup[s].rec \in Records
    BY Zenon DEF SyncInv, Supervised, TypeInv
<1>2. sup'[s].rec = sup[s].rec
    OBVIOUS
<1> QED
    BY Zenon, <1>1, <1>2, StillSound

\* The record and the attempts stay as they are.
LEMMA RecFrame ==
    ASSUME TypeInv, SyncInv, UNCHANGED <<rec, attempts>>
    PROVE  rec'.status = "pending" => Sound(rec)'
BY Zenon DEF SyncInv, Sound

\* The kinds of steps there are.
LEMMA Kinds ==
    ASSUME [Next]_vars
    PROVE  Outside \/ (AgentCrash \/ Reboot) \/ \E s \in Supervisors : Supervise(s)
BY Zenon DEF Next, AgentStep, Outside, Quiet

\* What a quiet step may change: only a process that has checked in goes on
\* syncing, and only a download that fails takes a build away.
LEMMA QuietEffects ==
    ASSUME Builds, TypeInv, SyncInv, Quiet
    PROVE  QuietKeeps /\ QuietSync /\ OutBuilt
<1>1. CASE \E v \in Version \cup {None} : Assign(v)
    BY Zenon, <1>1 DEF Assign, SyncStep, SyncInv, serverVars, attemptVars, agentVars,
       boundVars, QuietKeeps, QuietSync, OutBuilt
<1>2. CASE \E v \in Version \cup {None} : SyncBegin(v)
    BY Zenon, <1>2, Absent DEF SyncBegin, SyncStep, SyncInv, serverVars, attemptVars, agentVars,
       boundVars, QuietKeeps, QuietSync, OutBuilt
<1>3. CASE \E n \in Attempt : Deadline(n)
    BY Zenon, <1>3 DEF Deadline, SyncStep, SyncInv, serverVars, attemptVars, agentVars,
       boundVars, QuietKeeps, QuietSync, OutBuilt
<1>4. CASE CheckinLost
    BY <1>4 DEF CheckinLost, SyncStep, SyncInv, serverVars, attemptVars, agentVars,
       boundVars, QuietKeeps, QuietSync, OutBuilt
<1>5. CASE Reconcile
    BY Zenon, <1>5, Absent DEF Reconcile, SyncStep, SyncInv, serverVars, attemptVars, agentVars,
       boundVars, QuietKeeps, QuietSync, OutBuilt
<1>6. CASE ReportRollback \/ ReportFails
    BY Zenon, <1>6 DEF ReportRollback, ReportFails, SyncStep, SyncInv, serverVars, attemptVars, agentVars,
       boundVars, QuietKeeps, QuietSync, OutBuilt
<1>7. CASE SyncDecide
    BY <1>7 DEF SyncDecide, Decide, TypeInv, Any, SyncStep, SyncInv, serverVars, attemptVars, agentVars,
       boundVars, QuietKeeps, QuietSync, OutBuilt
<1>8. CASE SyncNothing
    BY <1>8 DEF SyncNothing, SyncStep, SyncInv, serverVars, attemptVars, agentVars,
       boundVars, QuietKeeps, QuietSync, OutBuilt
<1>9. CASE Download
    BY Zenon, <1>9 DEF Download, SyncStep, SyncInv, serverVars, attemptVars, agentVars,
       boundVars, QuietKeeps, QuietSync, OutBuilt
<1>10. CASE DownloadFails
    BY Zenon, <1>10 DEF DownloadFails, SyncStep, SyncInv, serverVars, attemptVars, agentVars,
       boundVars, QuietKeeps, QuietSync, OutBuilt
<1>11. CASE UNCHANGED vars
    BY <1>11 DEF vars, SyncStep, SyncInv, serverVars, attemptVars, agentVars,
       boundVars, QuietKeeps, QuietSync, OutBuilt
<1> QED
    BY Zenon, <1>1, <1>2, <1>3, <1>4, <1>5, <1>6, <1>7, <1>8, <1>9, <1>10, <1>11 DEF Quiet

\* Every step keeps what a sync and an attempt rest on.
LEMMA SyncSteps ==
    ASSUME Builds, TypeInv, SyncInv, [Next]_vars
    PROVE  SyncInv'
<1>A. attempts \in Nat /\ attempts <= attempts
    BY DEF TypeInv
<1>1. CASE Quiet
    <2>1. UNCHANGED <<sup, rec, attempts, wired, proc>>
        BY Zenon, <1>1, QuietEffects DEF QuietKeeps
    <2> QED
        BY Zenon, <1>A, <1>1, <2>1, QuietEffects, SupFrame, RecFrame DEF QuietSync, SyncInv
<1>2. CASE CheckinAnswered
    <2>1. UNCHANGED <<sup, attempts, wired, proc, at, item, rollback>> /\ proc \in Works
        BY <1>2 DEF CheckinAnswered, boundVars
    <2>2. rec' = rec \/ rec'.status = "succeeded"
        BY Zenon, <1>2 DEF CheckinAnswered, CheckedIn, TypeInv, Records
    <2> QED
        BY Zenon, <1>A, <2>1, <2>2, SupFrame, RecFrame DEF SyncInv
<1>3. CASE Abandon \/ Refuse \/ SpawnFails
    <2>1. UNCHANGED <<sup, attempts, wired, proc, rollback>> /\ rec'.status # "pending"
        BY <1>3, Absent DEF Abandon, Refuse, SpawnFails, SyncStep, attemptVars
    <2>2. /\ at' \in {at, "idle"} /\ backlog' = backlog /\ (at' = at => item' = item)
        BY Zenon, <1>3 DEF Abandon, Refuse, SpawnFails, SyncStep
    <2> QED
        BY Zenon, <1>A, <2>1, <2>2, SupFrame DEF SyncInv
<1>4. CASE MarkReported
    <2>1. UNCHANGED <<sup, attempts, wired, proc, backlog>> /\ at = "mark" /\ at' = "item"
        BY Zenon, <1>4 DEF MarkReported, SyncStep
    <2>2. rollback'.status = "absent"
        BY <1>4, Absent DEF MarkReported
    <2>3. rec' = rec \/ rec'.status \in {"absent", "rolled_back"}
        BY <1>4 DEF MarkReported, SyncInv, TypeInv, Records
    <2> QED
        BY Zenon, <1>A, <2>1, <2>2, <2>3, SupFrame, RecFrame DEF SyncInv
<1>5. CASE WriteRecord
    <2>1. UNCHANGED <<sup, wired, proc, backlog, item, rollback>> /\ at = "record" /\ at' = "spawn"
          /\ attempts' = attempts + 1
        BY <1>5 DEF WriteRecord, SyncStep
    <2>2. attempts' \in Nat /\ attempts <= attempts' /\ attempts' <= attempts'
        BY <2>1 DEF TypeInv
    <2>3. rec' = [n |-> attempts', from |-> proc, to |-> item, status |-> "pending",
                  reported |-> FALSE]
        BY <1>5 DEF WriteRecord
    <2>4. Sound(rec)'
        BY Zenon, <2>1, <2>2, <2>3 DEF Sound, SyncInv
    <2> QED
        BY Zenon, <2>1, <2>2, <2>4, SupFrame DEF SyncInv
<1>6. CASE Spawn
    <2>1. UNCHANGED <<rec, attempts, wired, proc, backlog, rollback>> /\ at = "spawn"
          /\ at' = "idle"
        BY <1>6 DEF Spawn, SyncStep
    <2>2. PICK s \in Supervisors : Goto(s, "read")
        BY <1>6, Zenon DEF Spawn, Goto
    <2>3. \A t \in Supervisors : Supervised(t)' => t # s /\ sup'[t] = sup[t]
        BY <2>2, GoesOn DEF Supervised, Places
    <2>4. \A t \in Supervisors : Supervised(t)' => Sound(sup[t].rec)'
        BY <2>1, <2>3 DEF SyncInv, Sound, Supervised
    <2> QED
        BY Zenon, <2>1, <2>4, RecFrame DEF SyncInv
<1>7. CASE AgentCrash
    <2>1. UNCHANGED <<rec, attempts, wired, sup>> /\ at' = "idle" /\ backlog' = {}
          /\ rollback'.status = "absent"
        BY Zenon, <1>7, Absent, Fresh DEF AgentCrash, attemptVars
    <2> QED
        BY <1>A, <2>1, SupFrame, RecFrame DEF SyncInv
<1>8. CASE Reboot
    <2>1. UNCHANGED <<rec, attempts, wired>> /\ at' = "idle" /\ backlog' = {}
          /\ rollback'.status = "absent"
        BY Zenon, <1>8, Absent, Fresh DEF Reboot, attemptVars
    <2>2. \A s \in Supervisors : sup'[s].at = "none"
        BY <1>8 DEF Reboot, NoSup
    <2> QED
        BY Zenon, <2>1, <2>2, RecFrame DEF SyncInv, Supervised
<1>9. ASSUME NEW s \in Supervisors, Supervise(s) PROVE SyncInv'
    <2>1. UNCHANGED attempts
        BY <1>9, SupEffects DEF SupKeeps
    <2>2. \/ UNCHANGED <<proc, at, item, backlog, rollback>>
          \/ at' = "idle" /\ backlog' = {} /\ rollback'.status = "absent"
        BY Zenon, <1>9, SupEffects, Absent, Fresh DEF SupProcess, agentVars
    <2>3. \/ UNCHANGED rec \/ rec' = NoRecord \/ rec' = RolledBack(s)
          \/ sup[s].at \in {"undo_stop", "undo_repoint", "undo_start"} /\ RestoreFails(s)
        BY Zenon, <1>9, SupEffects DEF SupRecord
    <2>4. \/ UNCHANGED wired
          \/ sup[s].at \in {"repoint", "undo_repoint"} /\ wired' \in {sup[s].rec.to, sup[s].rec.from}
        BY Zenon, <1>9, SupEffects DEF SupWired
    <2>5. wired' \in Version
        BY Zenon, <2>4 DEF SyncInv, Sound, Supervised, Builds
    <2>6. rec'.status = "pending" => Sound(rec)'
        <3>1. CASE UNCHANGED rec
            BY Zenon, <2>1, <3>1, RecFrame
        <3>2. CASE rec' = NoRecord \/ rec' = RolledBack(s)
            BY <3>2, Absent, Verdicts
        <3>3. CASE sup[s].at \in {"undo_stop", "undo_repoint", "undo_start"} /\ RestoreFails(s)
            <4>1. rec' = sup[s].rec \/ rec'.status = "rolled_back"
                BY Zenon, <3>3, FailedRestore, Verdicts
            <4>2. Sound(sup[s].rec)
                BY Zenon, <3>3 DEF SyncInv, Supervised
            <4> QED
                BY <2>1, <4>1, <4>2 DEF Sound
        <3> QED
            BY Zenon, <2>3, <3>1, <3>2, <3>3
    <2>7. \A t \in Supervisors : Supervised(t)' => Sound(sup[t].rec)'
        <3>1. \/ /\ sup[s].at = "read" /\ rec.status = "pending"
                 /\ sup' = [sup EXCEPT ![s] = [at |-> "stop", rec |-> rec]]
              \/ sup[s].at \notin {"none", "read"} /\ \E place \in Places : Goto(s, place)
              \/ Exit(s)
            BY <1>9, SupEffects DEF SupMoves
        <3>2. \A t \in Supervisors : t # s => sup'[t] = sup[t]
            BY <3>1, GoesOn, Exits DEF TypeInv
        <3>3. Supervised(s)' => Sound(sup[s].rec)'
            <4>1. CASE /\ rec.status = "pending"
                       /\ sup' = [sup EXCEPT ![s] = [at |-> "stop", rec |-> rec]]
                BY Zenon, <2>1, <4>1 DEF SyncInv, TypeInv, Sound
            <4>2. CASE sup[s].at \notin {"none", "read"} /\ \E place \in Places : Goto(s, place)
                BY Zenon, <2>1, <4>2, GoesOn DEF SyncInv, Supervised, Sound
            <4>3. CASE Exit(s)
                BY Zenon, <4>3, Exits DEF Supervised
            <4> QED
                BY Zenon, <3>1, <4>1, <4>2, <4>3
        <3> QED
            BY <2>1, <3>2, <3>3 DEF SyncInv, Supervised, Sound
    <2> QED
        BY Zenon, <2>2, <2>5, <2>6, <2>7 DEF SyncInv
<1> QED
    BY <1>1, <1>2, <1>3, <1>4, <1>5, <1>6, <1>7, <1>8, <1>9, Kinds DEF Outside

-------------------------------------------------------------------------------
(***************************************************************************)
(* Whatever supervisors there are.                                         *)
(***************************************************************************)

\* Every step keeps to genuine builds (stage).
LEMMA GenuineSteps ==
    ASSUME Builds, TypeInv, SyncInv, GenuineInv, [Next]_vars
    PROVE  GenuineInv'
<1>1. CASE Quiet
    BY <1>1, QuietEffects DEF QuietKeeps, QuietSync, GenuineInv, OnlyGenuine, Supervised
<1>2. CASE CheckinAnswered
    <2>1. UNCHANGED <<sup, wired, proc, at, item>>
        BY <1>2 DEF CheckinAnswered
    <2>2. rec' = rec \/ rec'.status = "succeeded"
        BY Zenon, <1>2 DEF CheckinAnswered, CheckedIn, TypeInv, Records
    <2> QED
        BY <2>1, <2>2 DEF GenuineInv, OnlyGenuine, Supervised
<1>3. CASE Abandon \/ Refuse \/ SpawnFails
    <2>1. UNCHANGED <<sup, wired, proc>> /\ rec'.status # "pending"
        BY <1>3, Absent DEF Abandon, Refuse, SpawnFails, SyncStep, attemptVars
    <2>2. at' \in {at, "idle"} /\ (at' = at => item' = item)
        BY Zenon, <1>3 DEF Abandon, Refuse, SpawnFails, SyncStep
    <2> QED
        BY <2>1, <2>2 DEF GenuineInv, OnlyGenuine, Supervised
<1>4. CASE MarkReported
    <2>1. UNCHANGED <<sup, wired, proc>> /\ at' = "item"
        BY <1>4 DEF MarkReported, SyncStep
    <2>2. rec' = rec \/ rec'.status \in {"absent", "rolled_back"}
        BY Zenon, <1>4 DEF MarkReported, SyncInv, TypeInv, Records
    <2> QED
        BY Zenon, <2>1, <2>2 DEF GenuineInv, OnlyGenuine, Supervised
<1>5. CASE WriteRecord
    <2>1. UNCHANGED <<sup, wired, proc, item>> /\ at = "record" /\ at' = "spawn"
        BY Zenon, <1>5 DEF WriteRecord, SyncStep
    <2>2. rec'.from = proc /\ rec'.to = item
        BY Zenon, <1>5 DEF WriteRecord
    <2>3. proc # None
        BY <2>1 DEF SyncInv, Builds
    <2> QED
        BY Zenon, <2>1, <2>2, <2>3 DEF GenuineInv, OnlyGenuine, Supervised, Good
<1>6. CASE Spawn
    <2>1. UNCHANGED <<rec, wired, proc>> /\ at' = "idle"
        BY <1>6 DEF Spawn, SyncStep
    <2>2. PICK s \in Supervisors : Goto(s, "read")
        BY <1>6, Zenon DEF Spawn, Goto
    <2>3. \A t \in Supervisors : Supervised(t)' => Supervised(t) /\ sup'[t] = sup[t]
        BY <2>2, GoesOn DEF Supervised, Places
    <2> QED
        BY Zenon, <2>1, <2>3 DEF GenuineInv, OnlyGenuine
<1>7. CASE AgentCrash \/ Reboot
    <2>1. UNCHANGED <<rec, wired>> /\ at' = "idle" /\ (proc' # None => proc' = wired)
        BY Zenon, <1>7, Fresh DEF AgentCrash, Reboot
    <2>2. \A t \in Supervisors : Supervised(t)' => Supervised(t) /\ sup'[t] = sup[t]
        BY <1>7 DEF AgentCrash, Reboot, NoSup, Supervised
    <2> QED
        BY <2>1, <2>2 DEF GenuineInv, OnlyGenuine, Good
<1>8. ASSUME NEW s \in Supervisors, Supervise(s) PROVE GenuineInv'
    <2>1. \/ UNCHANGED <<proc, at, item>>
          \/ at' = "idle" /\ (proc' # None => proc' = wired)
        BY <1>8, SupEffects, Fresh DEF SupProcess, agentVars
    <2>2. OnlyGenuine'
        BY Zenon, <1>8, SupEffects DEF SupWired, GenuineInv, OnlyGenuine, Supervised, Good
    <2>3. rec'.status = "pending" => rec'.from \in Good /\ rec'.to \in Good
        <3>1. CASE UNCHANGED rec
            BY <3>1 DEF GenuineInv
        <3>2. CASE rec' = NoRecord \/ rec' = RolledBack(s)
            BY Zenon, <3>2, Absent, Verdicts
        <3>3. CASE sup[s].at \in {"undo_stop", "undo_repoint", "undo_start"} /\ RestoreFails(s)
            <4>1. rec' = sup[s].rec \/ rec'.status = "rolled_back"
                BY Zenon, <3>3, FailedRestore, Verdicts
            <4> QED
                BY Zenon, <3>3, <4>1 DEF GenuineInv, Supervised
        <3> QED
            BY Zenon, <1>8, <3>1, <3>2, <3>3, SupEffects DEF SupRecord
    <2>4. \A t \in Supervisors :
            Supervised(t)' => \/ Supervised(t) /\ sup'[t].rec = sup[t].rec
                              \/ rec.status = "pending" /\ sup'[t].rec = rec
        BY <1>8, SupEffects, GoesOn, Exits DEF SupMoves, Supervised, TypeInv
    <2> QED
        BY Zenon, <2>1, <2>2, <2>3, <2>4 DEF GenuineInv, OnlyGenuine, Good
<1> QED
    BY Zenon, <1>1, <1>2, <1>3, <1>4, <1>5, <1>6, <1>7, <1>8, Kinds DEF Outside

\* Every step leaves a pending record watched (abandon, Supervise, rollback).
LEMMA WatchSteps ==
    ASSUME Builds, TypeInv, SyncInv, WatchInv, [Next]_vars
    PROVE  WatchInv'
<1>1. CASE Quiet
    BY Zenon, <1>1, QuietEffects DEF QuietKeeps, QuietSync, WatchInv
<1>2. CASE CheckinAnswered
    <2>1. UNCHANGED <<sup, wired, at, restarts>>
        BY <1>2 DEF CheckinAnswered, boundVars
    <2>2. rec' = rec \/ rec'.status = "succeeded"
        BY <1>2 DEF CheckinAnswered, CheckedIn, TypeInv, Records
    <2> QED
        BY Zenon, <2>1, <2>2 DEF WatchInv
<1>3. CASE Abandon \/ Refuse \/ SpawnFails
    <2>1. rec'.status # "pending"
        BY <1>3, Absent DEF Abandon, Refuse, SpawnFails
    <2> QED
        BY Zenon, <2>1 DEF WatchInv
<1>4. CASE MarkReported
    <2>1. UNCHANGED <<sup, wired, restarts>> /\ at = "mark"
        BY Zenon, <1>4 DEF MarkReported, SyncStep
    <2>2. rec' = rec \/ rec'.status \in {"absent", "rolled_back"}
        BY Zenon, <1>4 DEF MarkReported, SyncInv, TypeInv, Records
    <2> QED
        BY Zenon, <2>1, <2>2 DEF WatchInv
<1>5. CASE WriteRecord
    BY Zenon, <1>5 DEF WriteRecord, WatchInv
<1>6. CASE Spawn
    <2>1. PICK s \in Supervisors : Goto(s, "read")
        BY <1>6, Zenon DEF Spawn, Goto
    <2>2. sup'[s].at = "read"
        BY Zenon, <2>1, GoesOn DEF Places
    <2> QED
        BY Zenon, <2>2 DEF WatchInv
<1>7. CASE AgentCrash \/ Reboot
    <2>1. restarts' # 0
        BY <1>7 DEF AgentCrash, Reboot, TypeInv
    <2> QED
        BY <2>1 DEF WatchInv
<1>8. ASSUME NEW s \in Supervisors, Supervise(s) PROVE WatchInv'
    <2>1. CASE SupPrune(s)
        <3>1. UNCHANGED <<rec, wired, at, restarts>> /\ Exit(s) /\ sup[s].at = "prune"
            BY <2>1 DEF SupPrune, SupStep, agentVars
        <3>2. \A t \in Supervisors : sup[t].at \notin {"none", "prune"} => sup'[t] = sup[t]
            BY Zenon, <3>1, Exits
        <3> QED
            BY Zenon, <3>1, <3>2 DEF WatchInv
    <2>2. CASE sup'[s].at \notin {"none", "prune"}
        BY Zenon, <2>2 DEF WatchInv
    <2>3. CASE rec'.status # "pending"
        BY <2>3 DEF WatchInv
    <2>4. CASE RestoreFails(s) /\ UNCHANGED wired
        <3>1. rec'.status = "pending" => wired = rec'.to
            BY Zenon, <2>4, FailedRestore, Verdicts
        <3> QED
            BY Zenon, <2>4, <3>1 DEF WatchInv
    <2>5. \/ SupPrune(s) \/ sup'[s].at \notin {"none", "prune"} \/ rec'.status # "pending"
          \/ RestoreFails(s) /\ UNCHANGED wired
        <3>1. CASE SupRead(s)
            BY <3>1, Exits DEF SupRead, TypeInv
        <3>2. CASE SupSettle(s)
            BY <3>2, Absent DEF SupSettle
        <3>3. CASE SupStop(s) \/ SupVerdict(s)
            BY Zenon, <3>3, Verdicts, GoesOn DEF SupStop, SupVerdict, Places
        <3>4. CASE SupRepoint(s) \/ SupStart(s) \/ SupPoll(s) \/ SupCheck(s)
            BY Zenon, <3>4, GoesOn DEF SupRepoint, SupStart, SupPoll, SupCheck, Places
        <3>5. CASE UndoStop(s) \/ UndoRepoint(s) \/ UndoStart(s)
            BY Zenon, <3>5, GoesOn DEF UndoStop, UndoRepoint, UndoStart, Places
        <3> QED
            BY Zenon, <1>8, <3>1, <3>2, <3>3, <3>4, <3>5 DEF Supervise
    <2> QED
        BY Zenon, <2>1, <2>2, <2>3, <2>4, <2>5
<1> QED
    BY Zenon, <1>1, <1>2, <1>3, <1>4, <1>5, <1>6, <1>7, <1>8, Kinds DEF Outside

-------------------------------------------------------------------------------
(***************************************************************************)
(* One supervisor at a time.                                               *)
(***************************************************************************)

\* What a step outside the supervisors may change.
LEMMA OutsideEffects ==
    ASSUME TypeInv, SyncInv, Builds, Outside
    PROVE  OutKeeps /\ OutSup /\ OutBuilt /\ OutRecord /\ OutSync
<1>1. CASE Quiet
    BY <1>1, QuietEffects DEF QuietKeeps, QuietSync, OutKeeps, OutSup, OutRecord, OutSync
<1>2. CASE CheckinAnswered
    BY Zenon, <1>2 DEF CheckinAnswered, boundVars, OutKeeps, OutSup, OutBuilt, OutRecord, OutSync
<1>3. CASE Abandon
    BY <1>3, Absent DEF Abandon, boundVars, OutKeeps, OutSup, OutBuilt, OutRecord, OutSync
<1>4. CASE Refuse
    BY Zenon, <1>4 DEF Refuse, SyncStep, OutKeeps, OutSup, OutBuilt, OutRecord, OutSync
<1>5. CASE MarkReported
    BY <1>5 DEF MarkReported, SyncStep, OutKeeps, OutSup, OutBuilt, OutRecord, OutSync
<1>6. CASE WriteRecord
    BY Zenon, <1>6 DEF WriteRecord, SyncStep, OutKeeps, OutSup, OutBuilt, OutRecord, OutSync
<1>7. CASE Spawn
    <2>1. UNCHANGED <<wired, proc, restarts, faults, built, rec, backlog>> /\ at = "spawn" /\ at' = "idle"
        BY Zenon, <1>7 DEF Spawn, SyncStep
    <2> QED
        BY Zenon, <1>7, <2>1 DEF OutKeeps, OutSup, OutBuilt, OutRecord, OutSync
<1>8. CASE SpawnFails
    BY <1>8, Absent DEF SpawnFails, SyncStep, SyncInv, Fault, OutKeeps, OutSup, OutBuilt, OutRecord,
       OutSync
<1> QED
    BY <1>1, <1>2, <1>3, <1>4, <1>5, <1>6, <1>7, <1>8 DEF Outside

\* MarkReported rewrites a record that says rolled back, and keeps its verdict.
LEMMA Marks ==
    ASSUME TypeInv, SyncInv, MarkReported
    PROVE  \/ rec' = rec
           \/ /\ rec'.status = rec.status /\ rec'.to = rec.to
              /\ rec'.status \in {"absent", "rolled_back"}
BY Zenon DEF MarkReported, SyncInv, TypeInv, Records

\* A staged attempt goes back to the agent that staged it.
LEMMA Stages ==
    ASSUME TypeInv, SyncInv, WriteRecord
    PROVE  /\ at = "record" /\ proc \in Works /\ rec'.status = "pending" /\ rec'.from = proc
           /\ rec'.to = item /\ item # proc /\ rec'.n = attempts + 1
BY Zenon DEF WriteRecord, SyncStep, SyncInv

\* A check-in settles the attempt at the build that checks in.
LEMMA ChecksIn ==
    ASSUME TypeInv, SyncInv, CheckinAnswered
    PROVE  /\ proc \in Works
           /\ \/ rec' = rec /\ ~(rec.status = "pending" /\ rec.to = proc)
              \/ rec.status = "pending" /\ rec.to = proc /\ rec'.status = "succeeded"
BY DEF CheckinAnswered, CheckedIn, TypeInv, Records

\* A supervisor starts beside a working agent.
LEMMA Spawns ==
    ASSUME TypeInv, SyncInv, Spawn
    PROVE  /\ UNCHANGED <<rec, built, faults>> /\ at = "spawn" /\ proc \in Works /\ at' = "idle"
           /\ \E s \in Supervisors : Goto(s, "read")
BY Zenon DEF Spawn, SyncStep, SyncInv, Goto

\* Every step keeps the service where its supervisor says it is.
LEMMA PlaceSteps ==
    ASSUME Builds, OneSupervisor, TypeInv, SyncInv, PlaceInv, [Next]_vars
    PROVE  PlaceInv'
<1>1. CASE Outside
    <2>1. UNCHANGED <<wired, proc>> /\ (UNCHANGED sup \/ Spawn)
        BY Zenon, <1>1, OutsideEffects DEF OutKeeps, OutSup
    <2>2. \A v : v \in {proc, wired} /\ Available(v) => Available(v)'
        <3>1. proc \in Works => proc = wired
            BY Zenon DEF PlaceInv, Builds
        <3> QED
            BY <1>1, <3>1, OutsideEffects DEF OutBuilt, Available
    <2>3. rec'.status = "rolled_back" => rec.status = "rolled_back"
        BY Zenon, <1>1, OutsideEffects, Marks, Stages, ChecksIn DEF OutRecord
    <2>4. CASE UNCHANGED sup
        BY Zenon, <2>1, <2>2, <2>3, <2>4 DEF PlaceInv, Supervised
    <2>5. CASE Spawn
        <3>1. PICK s \in Supervisors : Goto(s, "read")
            BY Zenon, <2>5, Spawns
        <3>2. \A t \in Supervisors : sup'[t].at = "read"
            BY Zenon, <3>1, GoesOn DEF OneSupervisor, Places
        <3>3. proc = wired /\ Available(wired)
            BY Zenon, <2>5, Spawns DEF PlaceInv, Builds
        <3> QED
            BY Zenon, <2>1, <2>2, <3>2, <3>3 DEF PlaceInv, Supervised
    <2> QED
        BY <2>1, <2>4, <2>5
<1>2. CASE AgentCrash \/ Reboot
    <2>1. /\ UNCHANGED <<rec, wired, built>>
          /\ (UNCHANGED sup /\ proc # None) \/ (\A t \in Supervisors : sup'[t].at = "none")
        BY <1>2 DEF AgentCrash, Reboot, NoSup
    <2>2. proc' \in {None, wired} /\ (proc' # None => Available(proc'))
        BY <1>2, Fresh DEF AgentCrash, Reboot
    <2> QED
        BY <2>1, <2>2 DEF PlaceInv, Supervised, Available
<1>3. ASSUME NEW s \in Supervisors, Supervise(s) PROVE PlaceInv'
    <2>1. \A t \in Supervisors : t = s
        BY Zenon DEF OneSupervisor
    <2>a. ASSUME Exit(s), UNCHANGED <<wired, proc, built>> PROVE PlaceInv'
        <3>1. \A t \in Supervisors : sup'[t].at = "none"
            BY Zenon, <2>1, <2>a, Exits
        <3> QED
            BY Zenon, <2>a, <3>1 DEF PlaceInv, Supervised, Available
    <2>2. CASE SupRead(s)
        <3>1. CASE sup' = [sup EXCEPT ![s] = [at |-> "stop", rec |-> rec]] /\ rec.status = "pending"
            BY <2>1, <2>2, <3>1 DEF SupRead, SupStep, PlaceInv, Supervised, Available, agentVars, TypeInv
        <3> QED
            BY Zenon, <2>a, <2>2, <3>1 DEF SupRead, agentVars
    <2>3. CASE SupStop(s)
        <3>1. CASE StopService /\ Goto(s, "repoint") /\ UNCHANGED rec
            BY <2>1, <2>3, <3>1, GoesOn, Fresh DEF SupStop, SupStep, PlaceInv, Supervised, Places
        <3> QED
            BY Zenon, <2>a, <2>3, <3>1 DEF SupStop, agentVars
    <2>4. CASE SupRepoint(s)
        BY <2>1, <2>4, GoesOn DEF SupRepoint, SupStep, PlaceInv, Supervised, Available, agentVars, Places
    <2>5. CASE SupStart(s)
        BY <2>1, <2>5, GoesOn, Fresh DEF SupStart, SupStep, PlaceInv, Supervised, Available,
           agentVars, Places
    <2>6. CASE SupPoll(s) \/ SupCheck(s)
        BY <2>1, <2>6, GoesOn DEF SupPoll, SupCheck, SupStep, PlaceInv, Supervised, Available,
           agentVars, Places
    <2>7. CASE SupSettle(s)
        BY <2>1, <2>7, GoesOn, Absent DEF SupSettle, SupStep, PlaceInv, Supervised, Available,
           agentVars, Places
    <2>8. CASE SupPrune(s)
        BY <2>1, <2>8, Exits DEF SupPrune, SupStep, PlaceInv, Supervised, Available, agentVars
    <2>9. CASE UndoStop(s)
        <3>1. CASE StopService /\ Goto(s, "undo_repoint") /\ UNCHANGED rec
            BY <2>1, <2>9, <3>1, GoesOn, Fresh DEF UndoStop, SupStep, PlaceInv, Supervised, Places
        <3> QED
            BY Zenon, <2>a, <2>9, <3>1 DEF UndoStop, RestoreFails, agentVars
    <2>10. CASE UndoRepoint(s)
        <3>1. CASE wired' = sup[s].rec.from /\ Goto(s, "undo_start") /\ UNCHANGED rec
            BY <2>1, <2>10, <3>1, GoesOn DEF UndoRepoint, SupStep, PlaceInv, Supervised, agentVars, Places
        <3> QED
            BY Zenon, <2>a, <2>10, <3>1 DEF UndoRepoint, RestoreFails, agentVars
    <2>11. CASE UndoStart(s)
        <3>1. CASE /\ Goto(s, "verdict") /\ UNCHANGED rec
                   /\ StartService \/ UNCHANGED agentVars
            BY <2>1, <2>11, <3>1, GoesOn, Fresh DEF UndoStart, SupStep, PlaceInv, Supervised, Available,
               agentVars, Places
        <3> QED
            BY Zenon, <2>a, <2>11, <3>1 DEF UndoStart, RestoreFails, agentVars
    <2>12. CASE SupVerdict(s)
        BY Zenon, <2>a, <2>12 DEF SupVerdict, agentVars
    <2> QED
        BY Zenon, <1>3, <2>2, <2>3, <2>4, <2>5, <2>6, <2>7, <2>8, <2>9, <2>10, <2>11, <2>12 DEF Supervise
<1> QED
    BY Zenon, <1>1, <1>2, <1>3, Kinds

\* Every step but a failure of the service manager keeps what is known before the
\* first one.
LEMMA CalmSteps ==
    ASSUME Builds, OneSupervisor, TypeInv, SyncInv, PlaceInv, CalmInv, [Next]_vars
    PROVE  CalmInv'
<1>1. CASE Outside
    <2> SUFFICES ASSUME faults' = 0 PROVE CalmInv'
        BY Zenon DEF CalmInv
    <2>1. faults = 0 /\ UNCHANGED <<wired, proc>>
        BY <1>1, OutsideEffects DEF OutKeeps, TypeInv
    <2>2. proc \in Works => proc = wired
        BY Zenon DEF PlaceInv, Builds
    <2>3. rec'.status = "pending" => rec' = rec \/ (rec'.from = wired /\ rec'.to # proc)
        BY <1>1, <2>2, OutsideEffects, Marks, Stages, ChecksIn DEF OutRecord
    <2>4. (rec.status = "pending" /\ at = "spawn" => rec.from = wired)'
        <3>1. rec' = rec /\ rec'.status = "pending" => ~WriteRecord
            <4>1. rec.status = "pending" => rec.n <= attempts /\ attempts \in Nat
                BY Zenon DEF SyncInv, Sound, TypeInv
            <4>2. attempts \in Nat => attempts + 1 > attempts
                OBVIOUS
            <4> QED
                BY <4>1, <4>2, Stages
        <3> QED
            BY <1>1, <2>1, <2>3, <3>1, OutsideEffects DEF OutSync, CalmInv
    <2>5. (rec.status = "pending" /\ rec.to = proc => at = "idle" /\ backlog = {})'
        BY Zenon, <1>1, <2>1, <2>3, OutsideEffects, ChecksIn DEF OutSync, CalmInv
    <2>6. CASE UNCHANGED sup
        BY Zenon, <2>1, <2>3, <2>4, <2>5, <2>6 DEF CalmInv
    <2>7. CASE Spawn
        <3>1. PICK s \in Supervisors : Goto(s, "read")
            BY <2>7, Spawns
        <3>2. \A t \in Supervisors : sup'[t].at = "read"
            BY <3>1, GoesOn DEF OneSupervisor, Places
        <3>3. rec'.status = "pending" => rec'.from = wired
            BY Zenon, <2>1, <2>7, Spawns DEF CalmInv
        <3> QED
            BY Zenon, <2>1, <2>4, <2>5, <3>2, <3>3 DEF CalmInv
    <2> QED
        BY <1>1, <2>6, <2>7, OutsideEffects DEF OutSup
<1>2. CASE AgentCrash \/ Reboot
    <2>1. /\ UNCHANGED <<rec, wired, faults>>
          /\ UNCHANGED sup \/ (\A t \in Supervisors : sup'[t].at = "none")
        BY <1>2 DEF AgentCrash, Reboot, NoSup
    <2>2. at' = "idle" /\ backlog' = {}
        BY Zenon, <1>2, Fresh DEF AgentCrash, Reboot
    <2> QED
        BY <2>1, <2>2 DEF CalmInv
<1>3. ASSUME NEW s \in Supervisors, Supervise(s) PROVE CalmInv'
    <2> SUFFICES ASSUME faults' = 0 PROVE CalmInv'
        BY Zenon DEF CalmInv
    <2>1. \A t \in Supervisors : t = s
        BY DEF OneSupervisor
    <2>2. faults = 0 /\ ~Fault
        BY <1>3, SupEffects DEF SupKeeps, Fault, TypeInv
    <2>3. \/ UNCHANGED <<proc, at, backlog>>
          \/ at' = "idle" /\ backlog' = {}
        BY Zenon, <1>3, SupEffects, Fresh DEF SupProcess, agentVars
    <2>4. rec'.status = "pending" => UNCHANGED rec
        <3>1. CASE RestoreFails(s) /\ (UndoStop(s) \/ UndoRepoint(s) \/ UndoStart(s))
            <4>3. sup'[s].at = "none"
                BY <3>1, FailedRestore, Exits
            <4>1. UndoStart(s)
                BY Zenon, <2>2, <3>1, <4>3, GoesOn DEF UndoStop, UndoRepoint, Places
            <4>2. wired # sup[s].rec.to
                BY Zenon, <4>1 DEF UndoStart, SupStep, PlaceInv, SyncInv, Supervised, Sound
            <4> QED
                BY Zenon, <3>1, <4>2, FailedRestore, Verdicts
        <3> QED
            BY Zenon, <1>3, <3>1, SupEffects, Absent, Verdicts DEF SupRecord
    <2>5. wired' # wired => at = "idle"
        BY Zenon, <1>3, SupEffects DEF SupWired, PlaceInv, SyncInv, Builds
    <2>6. (rec.status = "pending" /\ at = "spawn" => rec.from = wired)'
        BY Zenon, <2>2, <2>3, <2>4, <2>5 DEF CalmInv
    <2>7. (rec.status = "pending" /\ rec.to = proc => at = "idle" /\ backlog = {})'
        BY Zenon, <2>2, <2>3, <2>4 DEF CalmInv
    <2>8. (/\ sup[s].at \in {"read", "stop"} /\ rec.status = "pending" => rec.from = wired
           /\ sup[s].at \in {"stop", "repoint"} => wired = sup[s].rec.from
           /\ sup[s].at \in {"undo_stop", "undo_repoint"} => wired = sup[s].rec.to)'
        <3>1. CASE SupRead(s)
            <4>1. UNCHANGED <<wired, rec>> /\ sup[s].at = "read"
                BY Zenon, <3>1 DEF SupRead, SupStep
            <4>2. \/ sup'[s].at = "none"
                  \/ sup'[s].at = "stop" /\ sup'[s].rec = rec /\ rec.status = "pending"
                BY <3>1, Exits DEF SupRead, TypeInv
            <4> QED
                BY Zenon, <2>2, <4>1, <4>2 DEF CalmInv
        <3>2. CASE SupStop(s)
            BY Zenon, <2>2, <3>2, GoesOn DEF SupStop, SupStep, CalmInv, Places
        <3>3. CASE SupRepoint(s) \/ SupStart(s) \/ SupCheck(s) \/ SupPoll(s) \/ SupSettle(s)
            BY Zenon, <2>2, <3>3, GoesOn DEF SupRepoint, SupStart, SupCheck, SupPoll, SupSettle, SupStep,
               PlaceInv, Places
        <3>4. CASE SupPrune(s) \/ SupVerdict(s)
            BY <3>4, Exits DEF SupPrune, SupVerdict
        <3>5. CASE UndoStop(s)
            BY Zenon, <2>2, <3>5, GoesOn DEF UndoStop, SupStep, CalmInv, Places
        <3>6. CASE UndoRepoint(s) \/ UndoStart(s)
            BY Zenon, <2>2, <3>6, GoesOn, Exits DEF UndoRepoint, UndoStart, RestoreFails, Places
        <3> QED
            BY Zenon, <1>3, <3>1, <3>2, <3>3, <3>4, <3>5, <3>6 DEF Supervise
    <2> QED
        BY Zenon, <2>1, <2>6, <2>7, <2>8 DEF CalmInv
<1> QED
    BY <1>1, <1>2, <1>3, Kinds

\* A step that writes rolled_back leaves the service elsewhere (rollback).
LEMMA OffSteps ==
    ASSUME Builds, OneSupervisor, TypeInv, SyncInv, PlaceInv, CalmInv, RolledBackIsOff, [Next]_vars
    PROVE  RolledBackIsOff'
<1>1. CASE Outside
    <2>1. UNCHANGED wired /\ (faults' < 2 => faults < 2)
        BY <1>1, OutsideEffects DEF OutKeeps, TypeInv
    <2>2. rec'.status = "rolled_back" => rec.status = "rolled_back" /\ rec'.to = rec.to
        BY Zenon, <1>1, OutsideEffects, Marks, Stages, ChecksIn DEF OutRecord
    <2> QED
        BY <2>1, <2>2 DEF RolledBackIsOff
<1>2. CASE AgentCrash \/ Reboot
    BY <1>2 DEF AgentCrash, Reboot, RolledBackIsOff
<1>3. ASSUME NEW s \in Supervisors, Supervise(s) PROVE RolledBackIsOff'
    <2> SUFFICES ASSUME rec'.status = "rolled_back", faults' < 2 PROVE wired' # rec'.to
        BY Zenon DEF RolledBackIsOff
    <2>1. faults < 2 /\ (Fault => faults = 0)
        BY <1>3, SupEffects DEF SupKeeps, Fault, TypeInv
    <2>2. sup[s].at # "read" => Supervised(s) /\ Sound(sup[s].rec) /\ rec.status # "rolled_back"
        BY Zenon, <1>3, SupEffects DEF SupKeeps, Supervised, SyncInv, PlaceInv
    <2>3. CASE SupRead(s)
        BY Zenon, <2>1, <2>3 DEF SupRead, RolledBackIsOff
    <2>4. CASE SupStop(s)
        <3>1. Fault /\ rec' = RolledBack(s) /\ UNCHANGED wired /\ sup[s].at = "stop"
            BY Zenon, <2>2, <2>4 DEF SupStop, SupStep
        <3>2. wired = sup[s].rec.from
            BY Zenon, <2>1, <3>1 DEF CalmInv
        <3> QED
            BY Zenon, <2>2, <3>1, <3>2, Verdicts DEF Sound
    <2>5. CASE UndoStop(s) \/ UndoRepoint(s) \/ UndoStart(s)
        <3>1. RestoreFails(s) /\ UNCHANGED wired
            BY Zenon, <2>2, <2>5 DEF UndoStop, UndoRepoint, UndoStart, SupStep
        <3> QED
            BY Zenon, <2>2, <2>5, <3>1, FailedRestore, Verdicts DEF Sound, UndoStop, UndoRepoint, UndoStart,
               SupStep
    <2>6. CASE SupVerdict(s)
        BY Zenon, <2>2, <2>6, Verdicts DEF SupVerdict, SupStep, PlaceInv, Sound
    <2>7. CASE SupRepoint(s) \/ SupStart(s) \/ SupPoll(s) \/ SupCheck(s) \/ SupSettle(s) \/ SupPrune(s)
        BY Zenon, <2>2, <2>7, Absent DEF SupRepoint, SupStart, SupPoll, SupCheck, SupSettle, SupPrune, SupStep
    <2> QED
        BY Zenon, <1>3, <2>3, <2>4, <2>5, <2>6, <2>7 DEF Supervise
<1> QED
    BY <1>1, <1>2, <1>3, Kinds

\* No step takes the build to go back to (DownloadFails, SpawnFails, pruneOldBuilds).
LEMMA KeptSteps ==
    ASSUME Builds, OneSupervisor, TypeInv, SyncInv, PlaceInv, CalmInv, RestorePointKept, [Next]_vars
    PROVE  RestorePointKept'
<1> SUFFICES ASSUME NEW t \in Supervisors, faults' = 0, Supervised(t)', rec' = sup'[t].rec
             PROVE  Available(sup[t].rec.from)'
    BY DEF RestorePointKept, Supervised
<1>1. CASE Outside
    <2>1. faults = 0 /\ UNCHANGED <<wired, proc>>
        BY <1>1, OutsideEffects DEF OutKeeps, TypeInv
    <2>2. ~Spawn
        <3>1. ASSUME NEW s \in Supervisors, Goto(s, "read") PROVE FALSE
            BY <3>1, GoesOn DEF OneSupervisor, Places, Supervised
        <3> QED
            BY <3>1, Spawns
    <2>3. UNCHANGED sup /\ Supervised(t) /\ Sound(sup[t].rec)
        BY Zenon, <1>1, <2>2, OutsideEffects DEF OutSup, Supervised, SyncInv
    <2>4. UNCHANGED rec
        <3>1. rec'.status = "pending" /\ rec'.n <= attempts /\ attempts \in Nat
            BY <2>3 DEF Sound, TypeInv
        <3>2. ~WriteRecord
            BY <3>1, Stages
        <3> QED
            BY <1>1, <3>1, <3>2, OutsideEffects, Marks, ChecksIn DEF OutRecord
    <2>5. Available(sup[t].rec.from)
        BY <2>1, <2>3, <2>4 DEF RestorePointKept, Supervised
    <2>6. CASE UNCHANGED built \/ built \subseteq built'
        BY Zenon, <2>3, <2>5, <2>6 DEF Available
    <2>7. CASE proc \in Works /\ item # proc /\ built' = built \ {item} /\ at # "idle"
        <3>1. proc = wired
            BY <2>7 DEF PlaceInv, Builds
        <3>2. wired # sup[t].rec.to
            BY Zenon, <2>1, <2>3, <2>4, <2>7, <3>1 DEF CalmInv, Sound
        <3>3. sup[t].at \in Places
            BY DEF TypeInv
        <3>4. wired = sup[t].rec.from
            BY <2>1, <2>3, <2>7, <3>1, <3>2, <3>3 DEF PlaceInv, CalmInv, Supervised, Places, Builds
        <3> QED
            BY <2>3, <2>5, <2>7, <3>1, <3>4 DEF Available
    <2> QED
        BY Zenon, <1>1, <2>6, <2>7, OutsideEffects DEF OutBuilt
<1>2. CASE AgentCrash \/ Reboot
    <2>1. UNCHANGED <<rec, built, faults, sup>>
        BY <1>2 DEF AgentCrash, Reboot, NoSup, Supervised
    <2> QED
        BY <2>1, Zenon DEF RestorePointKept, Supervised, Available
<1>3. ASSUME NEW s \in Supervisors, Supervise(s) PROVE Available(sup[t].rec.from)'
    <2>1. s = t
        BY Zenon DEF OneSupervisor
    <2>2. faults = 0
        BY <1>3, SupEffects DEF SupKeeps, Fault, TypeInv
    <2>3. ~Exit(s)
        BY <2>1, Exits DEF Supervised
    <2>4. UNCHANGED built
        BY Zenon, <1>3, <2>3, SupEffects DEF SupBuilt, SupPrune
    <2>5. CASE sup[s].at = "read" /\ rec.status = "pending" /\ UNCHANGED wired
               /\ sup' = [sup EXCEPT ![s] = [at |-> "stop", rec |-> rec]]
        BY Zenon, <2>1, <2>2, <2>4, <2>5 DEF PlaceInv, CalmInv, Available, TypeInv
    <2>6. CASE sup[s].at \notin {"none", "read"} /\ \E place \in Places : Goto(s, place)
        <3>1. sup'[t].rec = sup[t].rec /\ Supervised(t) /\ Sound(sup[t].rec)
            BY Zenon, <2>1, <2>6, GoesOn DEF Supervised, SyncInv
        <3>2. UNCHANGED rec
            BY Zenon, <1>3, <2>1, <2>3, <3>1, SupEffects, Absent, Verdicts, FailedRestore DEF SupRecord, Sound
        <3> QED
            BY Zenon, <2>2, <2>4, <3>1, <3>2 DEF RestorePointKept, Supervised, Available
    <2> QED
        BY Zenon, <1>3, <2>3, <2>5, <2>6, SupEffects DEF SupMoves, SupWired
<1> QED
    BY <1>1, <1>2, <1>3, Kinds

\* Every step but a failure or a restart leaves a working build running where the
\* supervisor relies on one.
LEMMA LiveSteps ==
    ASSUME Builds, OneSupervisor, TypeInv, SyncInv, PlaceInv, CalmInv, LiveInv, [Next]_vars
    PROVE  LiveInv'
<1> SUFFICES ASSUME NEW t \in Supervisors, faults' = 0, restarts' = 0
    PROVE  (/\ sup[t].at \in {"read", "stop", "settle", "prune", "verdict"} => proc \in Works
            /\ sup[t].at \in {"stop", "repoint", "start"} => rec.status # "succeeded"
            /\ sup[t].at \in {"poll", "check"} /\ rec.status = "succeeded" => proc \in Works)'
    BY Zenon DEF LiveInv
<1>1. CASE Outside
    <2>1. faults = 0 /\ restarts = 0 /\ UNCHANGED <<wired, proc>>
        BY <1>1, OutsideEffects DEF OutKeeps, TypeInv
    <2>2. CASE UNCHANGED sup
        <3>1. rec'.status = "succeeded" =>
                 \/ rec.status = "succeeded"
                 \/ rec.status = "pending" /\ rec.to = proc /\ proc \in Works
            BY Zenon, <1>1, OutsideEffects, Marks, Stages, ChecksIn DEF OutRecord
        <3>2. rec.status = "pending" /\ rec.to = proc /\ proc \in Works =>
                 sup[t].at \notin {"stop", "repoint", "start"}
            BY Zenon, <2>1 DEF PlaceInv, CalmInv, SyncInv, Sound, Builds
        <3> QED
            BY Zenon, <2>1, <2>2, <3>1, <3>2 DEF LiveInv
    <2>3. CASE Spawn
        <3>1. PICK s \in Supervisors : Goto(s, "read")
            BY Zenon, <2>3, Spawns
        <3>2. sup'[t].at = "read"
            BY Zenon, <3>1, GoesOn DEF OneSupervisor, Places
        <3> QED
            BY Zenon, <2>1, <2>3, <3>2, Spawns
    <2> QED
        BY Zenon, <1>1, <2>2, <2>3, OutsideEffects DEF OutSup
<1>2. CASE AgentCrash \/ Reboot
    BY <1>2 DEF AgentCrash, Reboot, TypeInv
<1>3. ASSUME NEW s \in Supervisors, Supervise(s)
      PROVE  (/\ sup[t].at \in {"read", "stop", "settle", "prune", "verdict"} => proc \in Works
              /\ sup[t].at \in {"stop", "repoint", "start"} => rec.status # "succeeded"
              /\ sup[t].at \in {"poll", "check"} /\ rec.status = "succeeded" => proc \in Works)'
    <2>1. s = t
        BY Zenon DEF OneSupervisor
    <2>2. faults = 0 /\ restarts = 0 /\ ~Fault
        BY <1>3, SupEffects DEF SupKeeps, Fault, TypeInv
    <2>3. CASE Exit(s)
        BY <2>1, <2>3, Exits
    <2>4. CASE SupRead(s)
        BY <2>1, <2>2, <2>3, <2>4 DEF SupRead, SupStep, LiveInv, agentVars, TypeInv
    <2>5. CASE SupStop(s) \/ SupRepoint(s)
        BY Zenon, <2>1, <2>2, <2>5, GoesOn DEF SupStop, SupRepoint, SupStep, LiveInv, Places
    <2>6. CASE SupStart(s)
        BY Zenon, <2>1, <2>2, <2>6, GoesOn DEF SupStart, SupStep, LiveInv, Places
    <2>7. CASE SupPoll(s) \/ SupCheck(s) \/ SupSettle(s)
        BY <2>1, <2>2, <2>7, GoesOn, Absent DEF SupPoll, SupCheck, SupSettle, SupStep, LiveInv,
           agentVars, Places
    <2>8. CASE UndoStop(s) \/ UndoRepoint(s)
        BY Zenon, <2>1, <2>2, <2>8, GoesOn DEF UndoStop, UndoRepoint, Places
    <2>9. CASE UndoStart(s) /\ ~Exit(s)
        <3>1. sup[s].at = "undo_start" /\ StartService /\ Goto(s, "verdict")
            BY <2>2, <2>9, FailedRestore DEF UndoStart, SupStep, PlaceInv
        <3>2. wired \in Works /\ proc' = wired
            BY Zenon, <3>1 DEF PlaceInv, SyncInv, Supervised, Sound, StartService, Process
        <3> QED
            BY Zenon, <2>1, <3>1, <3>2, GoesOn DEF Places
    <2>10. CASE SupPrune(s) \/ SupVerdict(s)
        BY <2>3, <2>10 DEF SupPrune, SupVerdict
    <2> QED
        BY Zenon, <1>3, <2>3, <2>4, <2>5, <2>6, <2>7, <2>8, <2>9, <2>10 DEF Supervise
<1> QED
    BY Zenon, <1>1, <1>2, <1>3, Kinds

\* No step ends an update with a device that a failed download did not strand.
LEMMA StrandedSteps ==
    ASSUME Builds, OneSupervisor, TypeInv, SyncInv, PlaceInv, CalmInv, LiveInv, NotStranded,
           [Next]_vars
    PROVE  NotStranded'
<1> SUFFICES ASSUME Unsupervised', restarts' = 0, faults' = 0
             PROVE  proc' \in Works \/ ~Available(wired)'
    BY Zenon DEF NotStranded
<1>1. CASE Outside
    <2>1. faults = 0 /\ restarts = 0 /\ UNCHANGED <<wired, proc>>
        BY <1>1, OutsideEffects DEF OutKeeps, TypeInv
    <2>2. ~Spawn
        <3>1. ASSUME NEW s \in Supervisors, Goto(s, "read") PROVE FALSE
            BY <3>1, GoesOn DEF Unsupervised, NoSup, Places
        <3> QED
            BY <3>1, Spawns
    <2>3. Unsupervised
        BY Zenon, <1>1, <2>2, OutsideEffects DEF OutSup, Unsupervised
    <2>4. proc \in Works \/ ~Available(wired)
        BY Zenon, <2>1, <2>3 DEF NotStranded
    <2> QED
        BY Zenon, <1>1, <2>1, <2>4, OutsideEffects DEF OutBuilt, Available
<1>2. CASE AgentCrash \/ Reboot
    BY <1>2 DEF AgentCrash, Reboot, TypeInv
<1>3. ASSUME NEW s \in Supervisors, Supervise(s) PROVE proc' \in Works \/ ~Available(wired)'
    <2>1. faults = 0 /\ restarts = 0 /\ ~Fault
        BY <1>3, SupEffects DEF SupKeeps, Fault, TypeInv
    <2>2. sup'[s].at = "none"
        BY DEF Unsupervised, NoSup
    <2>3. CASE SupRead(s) \/ SupPrune(s) \/ SupVerdict(s)
        BY Zenon, <2>1, <2>3 DEF SupRead, SupPrune, SupVerdict, SupStep, LiveInv, agentVars
    <2>4. CASE UndoStart(s)
        BY Zenon, <2>1, <2>2, <2>4, GoesOn DEF UndoStart, SupStep, Available, Places
    <2>5. CASE \/ SupStop(s) \/ SupRepoint(s) \/ SupStart(s) \/ SupPoll(s) \/ SupCheck(s)
               \/ SupSettle(s) \/ UndoStop(s) \/ UndoRepoint(s)
        BY Zenon, <2>1, <2>2, <2>5, GoesOn DEF SupStop, SupRepoint, SupStart, SupPoll, SupCheck, SupSettle,
           UndoStop, UndoRepoint, Places
    <2> QED
        BY <1>3, <2>3, <2>4, <2>5 DEF Supervise
<1> QED
    BY Zenon, <1>1, <1>2, <1>3, Kinds

-------------------------------------------------------------------------------
(***************************************************************************)
(* The theorems.                                                           *)
(***************************************************************************)

\* The first agent runs the build it was installed with, and nothing is under way.
LEMMA Start == ASSUME Builds, Init PROVE SoloInv
<1>1. NoRecord \in Records /\ NoRecord.status = "absent"
    BY Absent
<1>2. /\ \A s \in Supervisors : sup[s] = NoSup /\ sup[s].at = "none"
      /\ sup \in [Supervisors -> [at : Places, rec : Records]]
    <2>1. NoSup \in [at : Places, rec : Records] /\ NoSup.at = "none"
        BY <1>1 DEF NoSup, Places
    <2> QED
        BY Zenon, <2>1 DEF Init
<1>3. TypeInv
    BY Zenon, <1>1, <1>2 DEF Init, TypeInv, Any, Builds
<1>4. SyncInv
    BY Zenon, <1>1, <1>2 DEF Init, SyncInv, Supervised, Builds
<1>5. GenuineInv /\ WatchInv
    BY <1>1, <1>2 DEF Init, GenuineInv, OnlyGenuine, WatchInv, Supervised, Good
<1>6. PlaceInv /\ CalmInv /\ LiveInv
    BY <1>1, <1>2 DEF Init, PlaceInv, CalmInv, LiveInv, Supervised, Available
<1>7. RolledBackIsOff /\ RestorePointKept /\ NotStranded
    BY Zenon, <1>1, <1>2 DEF Init, RolledBackIsOff, RestorePointKept, NotStranded, Builds
<1> QED
    BY <1>3, <1>4, <1>5, <1>6, <1>7 DEF SoloInv, Inv

\* The invariant holds from the start and every step keeps it, however many
\* supervisors share the service and update.json.
THEOREM Invariance == ASSUME Builds PROVE Spec => []Inv
<1>1. Init => Inv
    BY Zenon, Start DEF SoloInv
<1>2. Inv /\ [Next]_vars => Inv'
    BY Zenon, TypeSteps, SyncSteps, GenuineSteps, WatchSteps DEF Inv
<1> QED
    BY <1>1, <1>2, PTL DEF Spec

\* The service is only ever pointed at a build that was installed or that
\* verified (stage), by whichever supervisor repoints it.
THEOREM OnlyVerifiedRuns == ASSUME Builds PROVE Spec => []OnlyGenuine
<1>1. Inv => OnlyGenuine
    BY Zenon DEF Inv, GenuineInv
<1> QED
    BY <1>1, Invariance, PTL

\* Without a restart, a pending update.json has a supervisor, a Sync about to spawn
\* one, or is settled by the build that is wired (abandon, Supervise, rollback).
THEOREM PendingIsWatched == ASSUME Builds PROVE Spec => []Watched
<1>1. Inv => Watched
    <2>1. NoSup.at = "none"
        BY Zenon DEF NoSup
    <2> QED
        BY <2>1 DEF Inv, WatchInv, Watched, Unsupervised
<1> QED
    BY <1>1, Invariance, PTL

\* With one supervisor at a time its place, the service and update.json agree.
THEOREM SoloInvariance == ASSUME Builds, OneSupervisor PROVE Spec => []SoloInv
<1>1. Init => SoloInv
    BY Zenon, Start
<1>2. SoloInv /\ [Next]_vars => SoloInv'
    <2> SUFFICES ASSUME SoloInv, [Next]_vars PROVE SoloInv'
        OBVIOUS
    <2>1. Inv'
        BY Zenon, TypeSteps, SyncSteps, GenuineSteps, WatchSteps DEF SoloInv, Inv
    <2>2. PlaceInv' /\ CalmInv' /\ LiveInv'
        BY Zenon, PlaceSteps, CalmSteps, LiveSteps DEF SoloInv, Inv
    <2>3. RolledBackIsOff' /\ RestorePointKept' /\ NotStranded'
        BY OffSteps, KeptSteps, StrandedSteps DEF SoloInv, Inv
    <2> QED
        BY Zenon, <2>1, <2>2, <2>3 DEF SoloInv
<1> QED
    BY <1>1, <1>2, PTL DEF Spec

\* A record that says rolled back is not about the build that is wired, unless the
\* service manager failed twice (rollback, stillOnNewBuild).
THEOREM RolledBackIsTrue == ASSUME Builds, OneSupervisor PROVE Spec => []RolledBackIsOff
<1>1. SoloInv => RolledBackIsOff
    BY Zenon DEF SoloInv
<1> QED
    BY <1>1, SoloInvariance, PTL

\* As long as an attempt is the pending one and the service manager has not failed,
\* the build to go back to stays on disk (stage, abandon, pruneOldBuilds).
THEOREM CanGoBack == ASSUME Builds, OneSupervisor PROVE Spec => []RestorePointKept
<1>1. SoloInv => RestorePointKept
    BY Zenon DEF SoloInv
<1> QED
    BY <1>1, SoloInvariance, PTL

\* No update ends on a build that cannot check in, or on none, while the build the
\* service is wired to is there (Supervise, rollback).
THEOREM NobodyStranded == ASSUME Builds, OneSupervisor PROVE Spec => []NotStranded
<1>1. SoloInv => NotStranded
    BY Zenon DEF SoloInv
<1> QED
    BY <1>1, SoloInvariance, PTL

===============================================================================
