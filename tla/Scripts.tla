------------------------------- MODULE Scripts -------------------------------
(* The agent's script scheduler (internal/agent/scripts): one deployed       *)
(* script, the goroutine each check-in starts for it, the state kept in the  *)
(* agent's store and the run itself: detection, remediation, detection.      *)
EXTENDS Integers, Sequences, SequencesExt

CONSTANTS Versions,     \* versions of the script, from 1
          Options,      \* the deployment options considered
          Bodies,       \* the scripts considered: functions from Versions to what a version is
          MaxWaiting,   \* check-ins waiting for the scheduler's mutex
          MaxEdits,     \* new versions deployed
          MaxDrift,     \* times the machine leaves the state the script wants
          MaxFaults,    \* timeouts, failed requests, lost reports, stops
          None

VARIABLES opts,      \* the deployment's options
          script,    \* what each version is: signed, with or without detection
          want,      \* the version deployed now
          waiting,   \* versions named by check-ins whose Sync waits for the mutex
          user,      \* whether somebody is signed in
          run,       \* the Sync holding the mutex
          st,        \* ItemState in the agent's store
          cache,     \* the version whose body is cached, 0 for none
          good,      \* whether the machine is as the script wants it
          last,      \* the last report the server has
          edits, drift, faults,
          ran,       \* how often each version was started, counted up to 2
          stray      \* a stop, or an older check-in overtaken, made a run repeat

vars == <<opts, script, want, waiting, user, run, st, cache, good, last, edits, drift, faults,
          ran, stray>>
fixed == <<opts, script>>
ghosts == <<ran, stray>>

Fault == faults < MaxFaults /\ faults' = faults + 1
Fine == UNCHANGED faults

-----------------------------------------------------------------------------
(* The world around the agent. *)

Edit == /\ edits < MaxEdits /\ edits' = edits + 1
        /\ want' \in {v \in Versions : v > want}
        /\ UNCHANGED <<fixed, waiting, user, run, st, cache, good, last, drift, faults, ghosts>>

Drift == /\ drift < MaxDrift /\ drift' = drift + 1
         /\ good' = ~good
         /\ UNCHANGED <<fixed, want, waiting, user, run, st, cache, last, edits, faults,
                        ran, stray>>

UserComesOrGoes == /\ opts.user /\ user' = ~user
                   /\ UNCHANGED <<fixed, want, waiting, run, st, cache, good, last, edits, drift, faults, ghosts>>

\* interval_hours pass since the last run.
IntervalPasses == /\ opts.recurring /\ st.ran = 1 /\ run = None
                  /\ st' = [st EXCEPT !.ran = 2]
                  /\ UNCHANGED <<fixed, want, waiting, user, run, cache, good, last, edits, drift, faults,
                                 ran, stray>>

\* The agent stops while a script runs, or cannot write its state after it.
Stop == /\ Fault
        /\ run' = None /\ waiting' = <<>>
        /\ stray' = (stray \/ run # None)
        /\ UNCHANGED <<fixed, want, user, st, cache, good, last, edits, drift, ran>>

-----------------------------------------------------------------------------
(* scheduler.go *)

\* Mutant: a deployment that failed is run again whatever its frequency.
DecideRetry(v, s) ==
    /\ opts.user => user
    /\ \/ s.ran = 0
       \/ s.version # v /\ opts.rerun
       \/ s.version = v /\ s.failures > 0 /\ s.failures < opts.retries
       \/ s.version = v /\ ~(s.failures > 0 /\ s.failures >= opts.retries) /\ opts.recurring /\ s.ran = 2

Decide(v, s) ==
    /\ opts.user => user
    /\ \/ s.ran = 0
       \/ s.version # v /\ opts.rerun
       \/ s.version = v /\ ~(s.failures > 0 /\ s.failures >= opts.retries) /\ opts.recurring /\ s.ran = 2

-----------------------------------------------------------------------------
(* runner.go *)

Checkin == /\ Len(waiting) < MaxWaiting
           /\ waiting' = Append(waiting, want)
           /\ UNCHANGED <<fixed, want, user, run, st, cache, good, last, edits, drift, faults, ghosts>>

\* Sync takes the mutex, in any order of those waiting, and decides.
Sync(k) ==
    /\ run = None
    /\ waiting' = RemoveAt(waiting, k)
    /\ run' = IF Decide(waiting[k], st)
              THEN [version |-> waiting[k], st |-> st, at |-> "fetch", status |-> "", remediated |-> FALSE,
                    phase |-> ""]
              ELSE None
    /\ UNCHANGED <<fixed, want, user, st, cache, good, last, edits, drift, faults, ghosts>>

Started(at) == run # None /\ run.at = at

\* body, and the check of its signature, cached or not.
Body(v) == script[v].signed

\* Caching a version drops every other version of the script.
CacheScript(v) == cache' = v

\* The body is fetched unless it is cached, and then cached. A body that is not signed is refused; detection, if there is one, comes first.
Fetch ==
    /\ Started("fetch")
    /\ \/ /\ cache # run.version /\ Fault
          /\ run' = None /\ UNCHANGED <<cache, ran, stray>>
       \/ /\ Fine
          /\ CacheScript(run.version)
          /\ LET v == run.version
                 at == IF script[v].detection THEN "detect" ELSE "script"
             IN  IF Body(v)
                 THEN /\ run' = [run EXCEPT !.at = at]
                      /\ ran' = [ran EXCEPT ![v] = IF @ = 2 THEN 2 ELSE @ + 1]
                 ELSE /\ run' = [run EXCEPT !.at = "record", !.status = "failed", !.phase = "script"]
                      /\ UNCHANGED ran
          /\ stray' = (stray \/ (st.ran # 0 /\ run.version < st.version))
    /\ UNCHANGED <<fixed, want, waiting, user, st, good, last, edits, drift>>

Report(status, phase, remediated) ==
    [run EXCEPT !.at = "record", !.status = status, !.phase = phase, !.remediated = remediated]

\* The first detection: exit 0 and there is nothing to do; an error ends the run.
Detect ==
    /\ Started("detect")
    /\ \/ Fine /\ run' = IF good THEN Report("succeeded", "detection", FALSE) ELSE [run EXCEPT !.at = "remediate"]
       \/ Fault /\ run' = Report("failed", "detection", FALSE)
    /\ UNCHANGED <<fixed, want, waiting, user, st, cache, good, last, edits, drift, ghosts>>

\* The remediation: it may fix the machine or not, whatever its exit code; an
\* error or a timeout ends the run.
Remediate ==
    /\ Started("remediate")
    /\ \/ Fine /\ good' \in {TRUE, good} /\ run' = [run EXCEPT !.at = "again"]
       \/ Fault /\ good' \in {TRUE, good} /\ run' = Report("failed", "remediation", FALSE)
    /\ UNCHANGED <<fixed, want, waiting, user, st, cache, last, edits, drift, ghosts>>

\* The second detection decides.
DetectAgain ==
    /\ Started("again")
    /\ \/ Fine /\ run' = IF good THEN Report("succeeded", "detection", TRUE)
                         ELSE Report("failed", "detection", FALSE)
       \/ Fault /\ run' = Report("failed", "detection", FALSE)
    /\ UNCHANGED <<fixed, want, waiting, user, st, cache, good, last, edits, drift, ghosts>>

\* A script without detection: its exit code decides.
RunScript ==
    /\ Started("script")
    /\ \/ Fine /\ good' = TRUE /\ run' = Report("succeeded", "script", FALSE)
       \/ Fault /\ good' \in {TRUE, good} /\ run' = Report("failed", "script", FALSE)
    /\ UNCHANGED <<fixed, want, waiting, user, st, cache, last, edits, drift, ghosts>>

\* How often version v has failed in a row before this run.
FailuresBefore(v, s) == IF s.version = v THEN s.failures ELSE 0

\* The state is recorded, then the run reported; a report that fails is lost.
Record ==
    /\ Started("record")
    /\ LET v == run.version
           failed == run.status # "succeeded"
       IN  st' = [version |-> v, ran |-> 1, failures |-> IF failed THEN FailuresBefore(v, run.st) + 1 ELSE 0]
    /\ \/ Fine /\ last' = [version |-> run.version, status |-> run.status, phase |-> run.phase,
                           remediated |-> run.remediated]
       \/ Fault /\ UNCHANGED last
    /\ run' = None
    /\ UNCHANGED <<fixed, want, waiting, user, cache, good, edits, drift, ran, stray>>

-----------------------------------------------------------------------------
Init == /\ opts \in Options
        /\ script \in Bodies
        /\ want = 1 /\ waiting = <<>> /\ user = FALSE /\ run = None
        /\ st = [version |-> 0, ran |-> 0, failures |-> 0]
        /\ cache = 0 /\ good = FALSE /\ last = None
        /\ edits = 0 /\ drift = 0 /\ faults = 0
        /\ ran = [v \in Versions |-> 0] /\ stray = FALSE

Step == Fetch \/ Detect \/ Remediate \/ DetectAgain \/ RunScript \/ Record

Next == Edit \/ Drift \/ UserComesOrGoes \/ IntervalPasses \/ Stop \/ Checkin
        \/ (\E k \in 1..Len(waiting) : Sync(k)) \/ Step
Spec == Init /\ [][Next]_vars
-----------------------------------------------------------------------------

(* A script deployed once runs once on a device for each of its versions,    *)
(* unless the agent stopped in the middle of it or an older check-in's Sync  *)
(* got the mutex after a newer one's.                                        *)
OncePerVersion == ~opts.recurring /\ ~stray => \A v \in Versions : ran[v] <= 1

=============================================================================
