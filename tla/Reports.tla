------------------------------ MODULE Reports ------------------------------
(***************************************************************************)
(* The scheduled reports: when a schedule next falls (reports.Schedule),   *)
(* the job that sends what is due in one transaction (Service.SendDue),    *)
(* "Send now" (Service.SendNow) and the administrator's requests           *)
(* (adminapi/reports.go).                                                  *)
(*                                                                         *)
(* A message leaves when it is sent, and a transaction's writes are seen   *)
(* when it commits: nothing takes a message back.                          *)
(***************************************************************************)
EXTENDS Clock, FiniteSets, FiniteSetsExt

CONSTANTS
    Reports,        \* the reports there may be
    Replicas,       \* the servers that run the job
    Zones,          \* time zones: [at, shift, after]
    Schedules,      \* what an administrator may ask for: [weekly, weekday, hour]
    None,
    MaxTime,        \* the clock
    MaxEdits,       \* requests administrators make
    MaxFaults       \* statements, commits and job locks that fail

VARIABLES
    now,
    rows,       \* scheduled_reports
    tx,         \* each replica's transaction
    jobLock,    \* the replica holding the job's advisory lock
    asked,      \* an administrator's request between its read and its write
    tries,      \* how often the job sent or tried each report for one due time
    redo,       \* reports whose try was undone, or whose due time was put back
    edits,
    faults

vars == <<zone, now, rows, tx, jobLock, asked, tries, redo, edits, faults>>

---------------------------------------------------------------------------
(* The schedule *)

\* Schedule.Next: today's hour and then each day's after it, for one day more
\* than a week.
On(s, t) == ~s.weekly \/ Day(t) % DaysPerWeek = s.weekday

Tried(days, s, t) ==
    {i \in 0 .. DaysPerWeek : days[i] > t /\ On(s, days[i])}

NextRun(s, t) ==
    LET days[i \in 0 .. DaysPerWeek] ==
            Date(IF i = 0 THEN Day(t) ELSE Day(days[i - 1]) + 1, s.hour)
        fits == Tried(days, s, t)
    IN  IF fits = {} THEN None ELSE days[Min(fits)]

---------------------------------------------------------------------------
Closed == [at |-> "closed"]

Init ==
    /\ zone \in Zones
    /\ now = HoursPerDay
    /\ rows = [r \in Reports |-> None]
    /\ tx = [p \in Replicas |-> Closed]
    /\ jobLock = None
    /\ asked = None
    /\ tries = [r \in Reports |-> [due |-> 0, count |-> 0]]
    /\ redo = {}
    /\ edits = 0
    /\ faults = 0

Edit  == edits < MaxEdits /\ edits' = edits + 1
Fault == faults < MaxFaults /\ faults' = faults + 1

\* The rows a transaction has locked.
Claimed(p) == IF tx[p].at = "closed" THEN {} ELSE tx[p].claimed
Locked == UNION {Claimed(p) : p \in Replicas}

Tick ==
    /\ now < MaxTime
    /\ now' = now + 1
    /\ UNCHANGED <<zone, rows, tx, jobLock, asked, tries, redo, edits, faults>>

---------------------------------------------------------------------------
(* The job *)

\* DueReports: the enabled reports due, but for those another transaction has
\* locked.
DueReportsUnlocked == {r \in Reports : rows[r] # None /\ rows[r].enabled /\ rows[r].next <= now}
DueReports == DueReportsUnlocked \ Locked

Begin(p) ==
    /\ tx[p].at = "closed"
    /\ jobLock = None
    /\ DueReports # {}
    /\ jobLock' = p
    /\ tx' = [tx EXCEPT ![p] = [at |-> "open", now |-> now, claimed |-> DueReports, todo |-> DueReports,
                                read |-> [r \in DueReports |-> rows[r]], writes |-> [r \in {} |-> None]]]
    /\ UNCHANGED <<zone, now, rows, asked, tries, redo, edits, faults>>

\* The connection that holds the job's lock is lost, and the job goes on.
LoseJobLock ==
    /\ jobLock # None
    /\ jobLock' = None
    /\ Fault
    /\ UNCHANGED <<zone, now, rows, tx, asked, tries, redo, edits>>

\* The transaction ends.  Rolled back, it forgets what it sent.
End(p) ==
    /\ tx' = [tx EXCEPT ![p] = Closed]
    /\ jobLock' = IF jobLock = p THEN None ELSE jobLock

Rollback(p, tried) == End(p) /\ redo' = redo \cup tried

Earliest(p) == CHOOSE r \in tx[p].todo : \A o \in tx[p].todo : tx[p].read[r].next <= tx[p].read[o].next

\* Tries are counted up to two: more say nothing more.
Try(r, due) == tries' = [tries EXCEPT ![r] = IF @.due = due THEN [due |-> due, count |-> 2]
                                               ELSE [due |-> due, count |-> 1]]

\* One report: it is sent, or the relay refuses it, and either way its next
\* time is worked out and the run recorded.  A schedule with no next time ends
\* the transaction with an error.
RetryAtOnce(p, r) == tx[p].read[r].next
AfterSend(p, r) == NextRun(tx[p].read[r].sched, tx[p].now)

Send(p) ==
    LET r == Earliest(p)
        old == tx[p].read[r]
        next == AfterSend(p, r)
    IN  /\ tx[p].at = "open"
        /\ tx[p].todo # {}
        /\ Try(r, old.next)
        /\ \E failed \in BOOLEAN :
              \/ /\ next # None
                 /\ tx' = [tx EXCEPT ![p].todo = @ \ {r},
                                     ![p].writes = [q \in DOMAIN @ \cup {r} |->
                                                      IF q = r THEN [old EXCEPT !.next = next, !.failed = failed]
                                                      ELSE @[q]]]
                 /\ UNCHANGED <<jobLock, redo>>
              \/ next = None /\ ~failed /\ Rollback(p, DOMAIN tx[p].writes \cup {r})
        /\ UNCHANGED <<zone, now, rows, asked, edits, faults>>

\* A statement of the report's fails, which aborts the transaction: recording
\* the run fails too.
SendAborts(p) ==
    /\ tx[p].at = "open"
    /\ tx[p].todo # {}
    /\ Rollback(p, DOMAIN tx[p].writes)
    /\ Fault
    /\ UNCHANGED <<zone, now, rows, asked, tries, edits>>

Commit(p) ==
    /\ tx[p].at = "open"
    /\ tx[p].todo = {}
    /\ rows' = [r \in Reports |-> IF r \in DOMAIN tx[p].writes THEN tx[p].writes[r] ELSE rows[r]]
    /\ End(p)
    /\ UNCHANGED <<zone, now, asked, tries, redo, edits, faults>>

\* The server stops, or the commit fails.
CommitFails(p) ==
    /\ tx[p].at = "open"
    /\ Rollback(p, DOMAIN tx[p].writes)
    /\ Fault
    /\ UNCHANGED <<zone, now, rows, asked, tries, edits>>

---------------------------------------------------------------------------
(* The administrators' requests.  A write waits for the row's lock. *)

Row(s, on, next) == [sched |-> s, enabled |-> on, next |-> next, failed |-> FALSE]

\* A schedule with no next time is refused.
createReport(r, s, on, next) ==
    /\ rows[r] = None
    /\ asked # None => asked.id # r
    /\ next # None
    /\ rows' = [rows EXCEPT ![r] = Row(s, on, next)]
    /\ tries' = [tries EXCEPT ![r] = [due |-> 0, count |-> 0]]
    /\ redo' = redo \ {r}
    /\ Edit
    /\ UNCHANGED <<zone, now, tx, jobLock, asked, faults>>

updateReport(r, s, on, next) ==
    /\ asked = None
    /\ rows[r] # None
    /\ next # None
    /\ asked' = [kind |-> "update", id |-> r, row |-> Row(s, on, next)]
    /\ Edit
    /\ UNCHANGED <<zone, now, rows, tx, jobLock, tries, redo, faults>>

\* SendNow sends the row it read and records the run with the next time it
\* read.
SendNow(r) ==
    /\ asked = None
    /\ rows[r] # None
    /\ asked' = [kind |-> "send", id |-> r, row |-> rows[r]]
    /\ Edit
    /\ UNCHANGED <<zone, now, rows, tx, jobLock, tries, redo, faults>>

\* The write of an update keeps the last error; that of a send now keeps the
\* definition and, as far as it knows, the next time.
RecordReportRun(r, row, failed) == [rows[r] EXCEPT !.next = row.next, !.failed = failed]
UpdateReport(r, row) == [row EXCEPT !.failed = rows[r].failed]

Write ==
    /\ asked # None
    /\ asked.id \notin Locked
    /\ asked' = None
    /\ LET r == asked.id
       IN  \/ /\ rows[r] = None
              /\ UNCHANGED <<rows, redo>>
           \/ /\ rows[r] # None
              /\ \/ asked.kind = "update" /\ rows' = [rows EXCEPT ![r] = UpdateReport(r, asked.row)]
                 \/ /\ asked.kind = "send"
                    /\ \E failed \in BOOLEAN : rows' = [rows EXCEPT ![r] = RecordReportRun(r, asked.row, failed)]
              /\ redo' = IF asked.row.next < rows[r].next THEN redo \cup {r} ELSE redo
    /\ UNCHANGED <<zone, now, tx, jobLock, tries, edits, faults>>

\* The report is deleted, or the compliance policy it is about.
deleteReport(r) ==
    /\ rows[r] # None
    /\ r \notin Locked
    /\ rows' = [rows EXCEPT ![r] = None]
    /\ Edit
    /\ UNCHANGED <<zone, now, tx, jobLock, asked, tries, redo, faults>>

Next ==
    \/ Tick
    \/ \E p \in Replicas : Begin(p) \/ Send(p) \/ SendAborts(p) \/ Commit(p) \/ CommitFails(p)
    \/ LoseJobLock
    \/ /\ edits < MaxEdits
       /\ \E s \in Schedules : \E next \in {NextRun(s, now)} : \E r \in Reports, on \in BOOLEAN :
             createReport(r, s, on, next) \/ updateReport(r, s, on, next)
    \/ \E r \in Reports : SendNow(r) \/ deleteReport(r)
    \/ Write

---------------------------------------------------------------------------
(* Properties *)

\* For one due time a report is sent, or tried and its failure kept, once: not
\* by two replicas, not every few minutes while the relay is down, not once for
\* every day the server was off - unless the transaction that sent it was
\* rolled back, or a request wrote an earlier due time over a later one
\* (SendDue, DueReports).
NotASecondTime == \A r \in Reports \ redo : tries[r].count <= 1

=============================================================================
