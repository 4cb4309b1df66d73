------------------------------ MODULE MCServer ------------------------------
(***************************************************************************)
(* What the server's replicas do by themselves, for TLC: open and rotate   *)
(* what is sealed, and send alerts, scheduled reports and the audit log.   *)
(***************************************************************************)
EXTENDS SecretKey, Integers, TLC

CONSTANTS
    Off,   \* the value of a variable of a part that is left out
    None, p1, p2

VARIABLES
    scene,   \* which of the parts this behaviour is about
    rules, channels, facts, state, deliveries, lock, run, told, missed,
    unsure, twice, edits, changes, faults,
    zone, now, rows, tx, jobLock, asked, tries, redo, reportsEdits,
    reportsFaults,
    configured, streamNow, log, cursor, start, down, got, job,
    streamJobLock, prune, streamFaults

MCFacts ==
    {[kind |-> "device_stale", key |-> "d1", part |-> 2], [kind |-> "deployment_failed", key |-> "d1", part |-> "app"],
     [kind |-> "deployment_failed", key |-> "d2", part |-> "script"]}

\* Rules made and edited, within their limits and beyond, turned off and on.
Asks(k, ps, c, on) == [kind |-> k, params |-> ps, channel |-> c, enabled |-> on]
MCRequests ==
    {Asks("device_stale", [hours |-> 1], 1, None), Asks("deployment_failed", None, 1, None),
     Asks("deployment_failed", [item_kind |-> "app"], None, None), Asks(None, [hours |-> 9], None, None),
     Asks(None, None, None, FALSE), Asks(None, None, None, TRUE)}

Al == INSTANCE Alerts WITH
    Rules <- {1}, Channels <- {1}, Replicas <- {p1, p2}, Facts <- MCFacts,
    Requests <- MCRequests, maxStaleHours <- 3, SMTPConfigured <- TRUE,
    MaxEdits <- 5, MaxChanges <- 3, MaxFaults <- 2

\* Daily and weekly reports; the clock stays, or moves once in the night.
MCSchedules ==
    {[weekly |-> FALSE, weekday |-> 0, hour |-> h] : h \in {0, 1}} \cup {[weekly |-> TRUE, weekday |-> 1, hour |-> 0]}
MCZones ==
    {[at |-> 0, shift |-> 0, after |-> FALSE]}
    \cup {[at |-> c[1], shift |-> c[2], after |-> x] : c \in {<<6, 1>>, <<7, 1>>, <<7, -1>>}, x \in BOOLEAN}

Rep == INSTANCE Reports WITH
    Reports <- {1, 2}, Replicas <- {p1, p2}, HoursPerDay <- 3,
    DaysPerWeek <- 2, Zones <- MCZones, Schedules <- MCSchedules,
    MaxTime <- 8, MaxEdits <- 2, MaxFaults <- 1, edits <- reportsEdits,
    faults <- reportsFaults

Str == INSTANCE AuditStream WITH
    Entries <- {1, 2, 3}, Replicas <- {p1, p2}, Lag <- 2, Batch <- 2,
    MaxBatches <- 2, Horizon <- 2, PruneBatch <- 1, PruneBatches <- 2,
    TxMax <- 1, Skew <- 1, MaxTime <- 4, MaxFaults <- 1, now <- streamNow,
    jobLock <- streamJobLock, faults <- streamFaults

alertsVars ==
    <<rules, channels, facts, state, deliveries, lock, run, told, missed,
      unsure, twice, edits, changes, faults>>

reportsVars ==
    <<zone, now, rows, tx, jobLock, asked, tries, redo, reportsEdits,
      reportsFaults>>

streamVars ==
    <<configured, streamNow, log, cursor, start, down, got, job,
      streamJobLock, prune, streamFaults>>

alertsOff ==
    rules = Off /\ channels = Off /\ facts = Off /\ state = Off /\
    deliveries = Off /\ lock = Off /\ run = Off /\ told = Off /\
    missed = Off /\ unsure = Off /\ twice = Off /\ edits = Off /\
    changes = Off /\ faults = Off

reportsOff ==
    zone = Off /\ now = Off /\ rows = Off /\ tx = Off /\ jobLock = Off /\
    asked = Off /\ tries = Off /\ redo = Off /\ reportsEdits = Off /\
    reportsFaults = Off

streamOff ==
    configured = Off /\ streamNow = Off /\ log = Off /\ cursor = Off /\
    start = Off /\ down = Off /\ got = Off /\ job = Off /\
    streamJobLock = Off /\ prune = Off /\ streamFaults = Off

-----------------------------------------------------------------------------
\* A behaviour is about one part; the variables of the others are Off,
\* and those of SecretKey stay as they start.
MCInit ==
    \/ /\ scene = "key" /\ Init
       /\ alertsOff /\ reportsOff /\ streamOff
    \/ /\ scene = "alerts" /\ Al!Init
       /\ Init /\ ~plain /\ reportsOff /\ streamOff
    \/ /\ scene = "reports" /\ Rep!Init
       /\ Init /\ ~plain /\ alertsOff /\ streamOff
    \/ /\ scene = "stream" /\ Str!Init
       /\ Init /\ ~plain /\ alertsOff /\ reportsOff

InKey ==
    /\ scene = "key"
    /\ UNCHANGED <<scene, alertsVars, reportsVars, streamVars>>
    /\ Next

InAlerts ==
    /\ scene = "alerts"
    /\ UNCHANGED <<scene, vars, reportsVars, streamVars>>
    /\ Al!Next

InReports ==
    /\ scene = "reports"
    /\ UNCHANGED <<scene, vars, alertsVars, streamVars>>
    /\ Rep!Next

InStream ==
    /\ scene = "stream"
    /\ UNCHANGED <<scene, vars, alertsVars, reportsVars>>
    /\ Str!Next

MCNext == InKey \/ InAlerts \/ InReports \/ InStream

OnTime == \A r \in {p1, p2} : job[r].at # "idle" => job[r].before <= streamNow - 2
Alone == \E r \in {p1, p2} : job[r].at = "idle"
Count(s) == Cardinality({e \in 1 .. 3 : log[e].state = s})

\* The stream of one sink, syslog with batches of several entries or the webhook
\* with retention and clocks that differ; or of both, one run at a time.
Few ==
    scene = "stream" =>
       CASE configured = {Str!Syslog} -> prune.at = "idle" /\ OnTime /\ Count("open") <= 1
         [] configured = {Str!Webhook} ->
              /\ down = {} /\ (log[3].state = "absent" \/ Count("pruned") > 0)
              /\ Count("pruned") > 0 \/ prune.at # "idle" => OnTime /\ Alone
         [] OTHER ->
              /\ prune.at = "idle" /\ OnTime /\ Count("absent") > 0 /\ Alone

Symmetry == Permutations({p1, p2})

-----------------------------------------------------------------------------
\* A device that is still in trouble on the next pass is not a second message,
\* on however many replicas the sweeper runs: a subject is announced again only
\* after its all-clear was due, or when the message that carried it could not
\* be marked as sent (evaluateRule, MarkAlertsNotified, WithAdvisoryLock).
NotASecondMessage == scene = "alerts" => Al!NotASecondMessage

\* For one due time a report is sent, or tried and its failure kept, once: not
\* by two replicas, not every few minutes while the relay is down, not once for
\* every day the server was off - unless the transaction that sent it was
\* rolled back, or a request wrote an earlier due time over a later one
\* (SendDue, DueReports).
NotASecondTime == scene = "reports" => Rep!NotASecondTime

\* Nothing is skipped (auditStreamLag's comment): once a sink's cursor has
\* passed an entry the sink has received it, however late its transaction
\* committed and whatever failed in between, unless retention removed it first.
NothingSkipped == scene = "stream" => Str!NothingSkipped
=============================================================================
