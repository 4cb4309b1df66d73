-------------------------------- MODULE Apps --------------------------------
(* The agent's app syncer (internal/agent/apps): one assigned app, its       *)
(* versions and intents, the goroutine each check-in starts for it, what the *)
(* agent remembers (AppState) and what is really on the machine.             *)
(* The steps of one Sync are separate: the machine's user, other check-ins   *)
(* and a stop of the agent come between any two of them.                     *)
EXTENDS Integers, Sequences, SequencesExt

CONSTANTS Versions,      \* versions of the app, from 1
          Definitions,   \* the apps considered: functions from Versions to definitions
          MaxAttempts,   \* maxAttempts of scheduler.go
          MaxWaiting,    \* check-ins waiting for the syncer's mutex
          MaxEdits,      \* changes of the assignment
          MaxTouches,    \* changes the machine's user makes
          MaxFaults,     \* failed requests, failed installers, lost reports, stops
          None

VARIABLES app,      \* what each version is: its installer, detection rule, uninstall_previous
          usable,   \* whether a version is signed and this machine has its installer
          want,     \* the assignment: a version and an intent
          waiting,  \* items of check-ins whose Sync waits for the mutex
          open,     \* whether a maintenance window is open
          run,      \* the Sync holding the mutex
          machine,  \* the version installed (0 for none), and who installed it
          st,       \* AppState in the agent's store
          server,   \* the last result the server has
          edits, touches, faults,
          lost      \* the last report did not arrive

vars == <<app, usable, want, waiting, open, run, machine, st, server, edits, touches, faults,
          lost>>
budget == <<edits, touches, faults>>

Intents == {"install", "uninstall"}
Items == [version : Versions, intent : Intents]

Fault == faults < MaxFaults /\ faults' = faults + 1
Fine == UNCHANGED faults

-----------------------------------------------------------------------------
(* What installers do. *)

\* Whether version v is detected: winget looks for the package, a detection
\* rule for one product code or for at least a version.
Detected(has, v) ==
    CASE app[v].rule = "package" -> has # 0
      [] app[v].rule = "product" -> has = v
      [] app[v].rule = "atLeast" -> has >= v

\* What an exit code of winget's means: it tells a missing package from a failure.
Classify(code) ==
    CASE code \in {"ok", "reboot"} -> "succeeded"
      [] code = "absent" -> "not installed"
      [] OTHER -> "failed"

\* A package's success codes are its author's, and say nothing of what is missing.
Outcome(v, code) ==
    IF app[v].kind = "winget" THEN Classify(code)
    ELSE IF code \in {"ok", "reboot"} THEN "succeeded" ELSE "failed"

Present(by, v) == [has |-> v, by |-> by]

\* An installer that works, or (a fault) fails or is killed at its timeout,
\* before or after it has done its work.
InstallRun(v) ==
    \/ \E code \in {"ok", "reboot"} : Fine /\ run' = [run EXCEPT !.at = "finish", !.code = code]
                                           /\ machine' = Present("agent", v)
    \/ /\ Fault
       /\ run' = [run EXCEPT !.at = "finish", !.code = "failed"]
       /\ machine' \in {machine, Present("agent", v)}

Gone == [has |-> 0, by |-> "agent"]

\* winget removes the package whatever its version; a package's own uninstall
\* removes its own version and fails when that is not there.
UninstallRun(v, worked) ==
    LET there == IF app[v].kind = "winget" THEN machine.has # 0 ELSE machine.has = v
        failed(code) == [run EXCEPT !.at = "finish", !.code = code]
    IN  \/ there /\ Fine /\ machine' = Gone /\ run' = worked
        \/ ~there /\ Fine /\ UNCHANGED machine
              /\ run' = IF Outcome(v, "absent") = "not installed" /\ worked.at # "finish" THEN worked
                        ELSE failed("absent")
        \/ Fault /\ machine' \in {machine, IF there THEN Gone ELSE machine} /\ run' = failed("failed")

-----------------------------------------------------------------------------
(* scheduler.go *)

Fresh(item, s) == s.version # item.version \/ s.intent # item.intent
Wanted(item) == item.intent = "install"

Decide(item, s) ==
    CASE Fresh(item, s) \/ s.seen = 0 -> "detect"
      [] s.failures >= MaxAttempts -> "none"
      [] s.installed # Wanted(item) -> item.intent
      [] s.seen = 2 -> "detect"
      [] OTHER -> "none"

At(item, s) == [item |-> item, st |-> s, at |-> Decide(item, s), code |-> "ok"]

-----------------------------------------------------------------------------
(* The world around the agent. *)

Edit == /\ edits < MaxEdits /\ edits' = edits + 1
        /\ want' \in Items \ {want}
        /\ UNCHANGED <<app, usable, waiting, open, run, machine, st, server, touches, faults, lost>>

\* The user installs, upgrades or removes the app.
Touch == /\ touches < MaxTouches /\ touches' = touches + 1
         /\ machine' \in {[has |-> v, by |-> "user"] : v \in {0} \cup Versions} \ {machine}
         /\ UNCHANGED <<app, usable, want, waiting, open, run, st, server, edits, faults, lost>>

WindowMoves == /\ open' = ~open
               /\ UNCHANGED <<app, usable, want, waiting, run, machine, st, server, budget, lost>>

\* An hour passes: DetectEvery.
HourPasses == /\ st.seen = 1 /\ run = None
              /\ st' = [st EXCEPT !.seen = 2]
              /\ UNCHANGED <<app, usable, want, waiting, open, run, machine, server, budget, lost>>

\* The agent stops and starts again, perhaps with App Installer now there.
Restart == /\ Fault
           /\ waiting' = <<>> /\ run' = None
           /\ usable' \in {usable, [v \in Versions |-> TRUE]}
           /\ UNCHANGED <<app, want, open, machine, st, server, edits, touches, lost>>

-----------------------------------------------------------------------------
(* syncer.go *)

\* A check-in: dispatch starts a Sync of its items, which waits for the mutex.
Checkin == /\ Len(waiting) < MaxWaiting
           /\ waiting' = Append(waiting, want)
           /\ UNCHANGED <<app, usable, want, open, run, machine, st, server, budget, lost>>

\* Sync takes the mutex, in any order of those waiting, and looks at the clock once.
Sync(k) ==
    /\ run = None
    /\ waiting' = RemoveAt(waiting, k)
    /\ run' = IF open /\ Decide(waiting[k], st) # "none" THEN At(waiting[k], st) ELSE None
    /\ UNCHANGED <<app, usable, want, open, machine, st, server, budget, lost>>

\* The state is written, then the result reported: the report may be lost.
Remember(s) == st' = s /\ run' = None
ReportAppResult(item, status) ==
    \/ Fine /\ lost' = FALSE
         /\ server' = [version |-> item.version, intent |-> item.intent, status |-> status]
    \/ Fault /\ lost' = TRUE /\ UNCHANGED server

FetchFails == /\ run # None /\ run.at # "finish"
              /\ Fault /\ run' = None
              /\ UNCHANGED <<app, usable, want, waiting, open, machine, st, server, edits, touches, lost>>

Started(at) == run # None /\ run.at = at

\* Version v of the app is not signed, or nothing here can install its kind.
ReportUnavailable ==
    LET item == run.item
        s == run.st
    IN  IF s.version = item.version /\ s.status = "failed"
        THEN /\ run' = None /\ Fine
             /\ UNCHANGED <<st, server, lost>>
        ELSE /\ Remember([s EXCEPT !.version = item.version, !.intent = item.intent,
                                   !.status = "failed", !.settled = FALSE])
             /\ ReportAppResult(item, "failed")

Unusable == /\ run # None /\ run.at \in {"detect", "install", "uninstall"}
            /\ ~usable[run.item.version]
            /\ ReportUnavailable
            /\ UNCHANGED <<app, usable, want, waiting, open, machine, edits, touches>>

\* Mutant: what was settled before is not forgotten when the instruction is new.
SeenStillSettled(item, s) ==
    [s EXCEPT !.version = item.version, !.intent = item.intent, !.seen = 1,
              !.installed = Detected(machine.has, item.version),
              !.failures = IF Fresh(item, s) THEN 0 ELSE @]

\* What a detection that gave an answer makes of the state, Settled aside.
Seen(item, s) ==
    [s EXCEPT !.version = item.version, !.intent = item.intent, !.seen = 1,
              !.installed = Detected(machine.has, item.version),
              !.failures = IF Fresh(item, s) THEN 0 ELSE @,
              !.settled = IF Fresh(item, s) THEN FALSE ELSE @]

\* A detection that failed leaves what is remembered alone.
DetectFails ==
    /\ Started("detect") /\ Fault
    /\ run' = None
    /\ UNCHANGED <<app, usable, want, waiting, open, machine, st, server, edits, touches, lost>>

Detect ==
    /\ Started("detect") /\ usable[run.item.version]
    /\ LET item == run.item
           seen == Seen(item, run.st)
           settled == seen.installed = Wanted(item)
           next == [seen EXCEPT !.settled = settled]
           again == Decide(item, next)
       IN  IF settled /\ ~seen.settled
           THEN Remember(next) /\ ReportAppResult(item, "succeeded")
           ELSE /\ st' = next
                /\ run' = IF again \in {"none", "detect"} THEN None
                          ELSE [run EXCEPT !.st = next, !.at = again]
                /\ Fine /\ UNCHANGED <<server, lost>>
    /\ UNCHANGED <<app, usable, want, waiting, open, machine, edits, touches>>

\* uninstall_previous: only a version this agent installed.
PreviousFirst(item, s) == app[item.version].previous /\ s.by \notin {0, item.version}

RemovePrevious ==
    /\ Started("install") /\ usable[run.item.version] /\ PreviousFirst(run.item, run.st)
    /\ IF ~usable[run.st.by]
       THEN ReportUnavailable /\ UNCHANGED machine
       ELSE /\ UninstallRun(run.st.by, [run EXCEPT !.st.by = 0])
            /\ UNCHANGED <<st, server, lost>>
    /\ UNCHANGED <<app, usable, want, waiting, open, edits, touches>>

Install ==
    /\ Started("install") /\ usable[run.item.version] /\ ~PreviousFirst(run.item, run.st)
    /\ InstallRun(run.item.version)
    /\ UNCHANGED <<app, usable, want, waiting, open, st, server, edits, touches, lost>>

Uninstall ==
    /\ Started("uninstall") /\ usable[run.item.version]
    /\ UninstallRun(run.item.version, [run EXCEPT !.at = "finish"])
    /\ UNCHANGED <<app, usable, want, waiting, open, st, server, edits, touches, lost>>

FailuresAfter(item, s) == IF Fresh(item, s) THEN 1 ELSE s.failures + 1

\* finish: the state first, then the report.
Finish ==
    /\ Started("finish")
    /\ LET item == run.item
           s == run.st
           worked == Outcome(item.version, run.code) = "succeeded"
           status == IF worked THEN "succeeded" ELSE "failed"
           base == [s EXCEPT !.version = item.version, !.intent = item.intent, !.status = status]
       IN  /\ Remember(IF worked
                       THEN [base EXCEPT !.failures = 0, !.installed = Wanted(item), !.seen = 1,
                                         !.by = IF Wanted(item) THEN item.version ELSE 0,
                                         !.settled = TRUE]
                       ELSE [base EXCEPT !.failures = FailuresAfter(item, s), !.settled = FALSE])
           /\ ReportAppResult(item, status)
    /\ UNCHANGED <<app, usable, want, waiting, open, machine, edits, touches>>

-----------------------------------------------------------------------------
Never == [version |-> 0, intent |-> "install", seen |-> 0, installed |-> FALSE, failures |-> 0,
          settled |-> FALSE, by |-> 0, status |-> ""]

Init == /\ app \in Definitions
        /\ usable \in [Versions -> BOOLEAN]
        /\ want = [version |-> 1, intent |-> "install"]
        /\ machine \in {[has |-> v, by |-> "user"] : v \in {0} \cup Versions}
        /\ waiting = <<>> /\ open = TRUE /\ run = None /\ st = Never /\ server = None
        /\ edits = 0 /\ touches = 0 /\ faults = 0
        /\ lost = FALSE

Step == FetchFails \/ Unusable \/ DetectFails \/ Detect \/ RemovePrevious \/ Install \/ Uninstall \/ Finish

Next == Edit \/ Touch \/ WindowMoves \/ HourPasses \/ Restart \/ Checkin
        \/ (\E k \in 1..Len(waiting) : Sync(k)) \/ Step

Spec == Init /\ [][Next]_vars

-----------------------------------------------------------------------------

(* An app remembered as settled is one whose success under this version and  *)
(* intent the server has been told of, if the report arrived: a repeated     *)
(* detection stays quiet, a new instruction does not.                        *)
SettledIsReported ==
    run = None /\ st.settled /\ ~lost =>
        /\ server = [version |-> st.version, intent |-> st.intent, status |-> "succeeded"]
        /\ st.installed = (st.intent = "install")

=============================================================================
