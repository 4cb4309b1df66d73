---------------------------- MODULE AuditStream ----------------------------
(***************************************************************************)
(* The audit log on its way out: the job that copies new entries to each   *)
(* destination (sweeper/auditstream.go, with the syslog and webhook sinks  *)
(* of auditstream/), and the retention job that deletes old ones           *)
(* (sweeper/retention.go).                                                 *)
(*                                                                         *)
(* An entry is stamped when its transaction starts and seen when the       *)
(* transaction commits, so entries appear out of the order of their times. *)
(* Entries are numbers, and stand for their ids: their order is the ids'.  *)
(* A job works on the connection that holds its advisory lock: when the    *)
(* connection is lost its statements fail, and what it was sending goes on.*)
(***************************************************************************)
EXTENDS Integers, Sequences, FiniteSets, FiniteSetsExt, SequencesExt

CONSTANTS
    Entries,        \* the ids of the entries there may be
    Replicas,       \* the servers that run the jobs
    None,
    Lag,            \* auditStreamLag
    Batch,          \* auditStreamBatch
    MaxBatches,     \* auditStreamMaxBatches
    Horizon,        \* Retention.Audit
    PruneBatch,     \* Retention.BatchSize
    PruneBatches,   \* Retention.MaxBatches
    TxMax,          \* the longest a transaction that writes an entry runs
    Skew,           \* how far a server's clock is ahead of the database's
    MaxTime,        \* the clock
    MaxFaults       \* what goes wrong

VARIABLES
    configured, \* the sinks the server's settings name, which never change
    now,
    log,        \* audit_log: each entry's time and what became of it
    cursor,     \* audit_stream_cursors
    start,      \* the cursor each sink was first given
    down,       \* the sinks that answer nothing
    got,        \* what each sink received, by first arrival
    job,        \* each replica's run of audit.stream
    jobLock,    \* the replica whose connection holds that job's lock
    prune,      \* the run of retention.prune
    faults

vars == <<configured, now, log, cursor, start, down, got, job, jobLock, prune, faults>>

\* The sinks in the order FromConfig lists them.
Syslog  == 1
Webhook == 2
Sinks   == {Syslog, Webhook}
FromConfig == SUBSET Sinks \ {{}}

---------------------------------------------------------------------------
Idle   == [at |-> "idle"]
Absent == [at |-> 0, state |-> "absent"]

Init ==
    /\ configured \in FromConfig
    /\ now = 0
    /\ log = [e \in Entries |-> Absent]
    /\ cursor = [s \in Sinks |-> None]
    /\ start = [s \in Sinks |-> None]
    /\ down = {}
    /\ got = [s \in Sinks |-> <<>>]
    /\ job = [p \in Replicas |-> Idle]
    /\ jobLock = None
    /\ prune = Idle
    /\ faults = 0

Fault == faults < MaxFaults /\ faults' = faults + 1

\* (at, id) < (at, id), as PostgreSQL compares rows.
Before(a, b) == a[1] < b[1] \/ (a[1] = b[1] /\ a[2] < b[2])
Place(e) == <<log[e].at, e>>

streaming == <<cursor, start, got, job, jobLock>>

---------------------------------------------------------------------------
(* The log: requests write entries in their transactions (InsertAudit) *)

BeginTx(e) ==
    /\ log[e].state = "absent"
    /\ log' = [log EXCEPT ![e] = [at |-> now, state |-> "open"]]
    /\ UNCHANGED <<configured, now, streaming, down, prune, faults>>

CommitTx(e) ==
    /\ log[e].state = "open"
    /\ log' = [log EXCEPT ![e].state = "stored"]
    /\ UNCHANGED <<configured, now, streaming, down, prune, faults>>

Tick ==
    /\ now < MaxTime
    /\ \A e \in Entries : log[e].state = "open" => now - log[e].at < TxMax
    /\ now' = now + 1
    /\ UNCHANGED <<configured, log, streaming, down, prune, faults>>

---------------------------------------------------------------------------
(* The stream *)

Stored == {e \in Entries : log[e].state = "stored"}

OldestFirst(S) == SetToSortSeq(S, LAMBDA a, b : Before(Place(a), Place(b)))

AuditAfterWhole(c, before, limit) ==
    OldestFirst({e \in Stored : Before(c, Place(e)) /\ log[e].at < before})

AuditAfter(c, before, limit) ==
    LET all == AuditAfterWhole(c, before, limit)
    IN  SubSeq(all, 1, Min({limit, Len(all)}))

\* The run's "before": the lag behind the server's clock.
StreamToNow(clock)  == clock + 1
StreamBefore(clock) == clock - Lag

\* A statement needs the connection that holds the lock.
Connected(p) == jobLock = p

\* A sink's turn begins.
Turn(s, before) ==
    [at |-> "cursor", sink |-> s, before |-> before, c |-> None, batch |-> <<>>, round |-> 0]

Starts(p) ==
    /\ job[p].at = "idle"
    /\ jobLock = None
    /\ jobLock' = p
    /\ \E ahead \in 0 .. Skew :
         job' = [job EXCEPT ![p] = Turn(Min(configured), StreamBefore(now + ahead))]
    /\ UNCHANGED <<configured, now, log, cursor, start, down, got, prune, faults>>

\* The run is over, and lets its lock go.
Ends(p) ==
    /\ job' = [job EXCEPT ![p] = Idle]
    /\ jobLock' = IF jobLock = p THEN None ELSE jobLock

\* streamAudit is done with a sink, for better or worse: the next one's turn.
Left(p) == {s \in configured : s > job[p].sink}

NextSink(p, ok) ==
    IF Left(p) = {}
    THEN Ends(p)
    ELSE job' = [job EXCEPT ![p] = Turn(Min(Left(p)), job[p].before)] /\ UNCHANGED jobLock

\* A sink seen for the first time starts from the lag before now.
ReadCursor(p) ==
    /\ job[p].at = "cursor"
    /\ Connected(p)
    /\ LET s == job[p].sink
       IN  IF cursor[s] = None
           THEN /\ cursor' = [cursor EXCEPT ![s] = <<job[p].before, 0>>]
                /\ start' = [start EXCEPT ![s] = <<job[p].before, 0>>]
                /\ NextSink(p, TRUE)
           ELSE /\ job' = [job EXCEPT ![p].at = "read", ![p].c = cursor[s]]
                /\ UNCHANGED <<cursor, start, jobLock>>
    /\ UNCHANGED <<configured, now, log, down, got, prune, faults>>

ReadBatch(p) ==
    /\ job[p].at = "read"
    /\ Connected(p)
    /\ LET batch == AuditAfter(job[p].c, job[p].before, Batch)
       IN  IF batch = <<>>
           THEN NextSink(p, TRUE)
           ELSE job' = [job EXCEPT ![p].at = "send", ![p].batch = batch, ![p].c = None] /\ UNCHANGED jobLock
    /\ UNCHANGED <<configured, now, log, cursor, start, down, got, prune, faults>>

\* The first entries of a batch arrive at a sink.
Arrive(s, entries) ==
    /\ got' = [got EXCEPT ![s] = @ \o SelectSeq(entries, LAMBDA e : e \notin Range(got[s]))]

\* Send succeeds when the sink has taken the whole batch.  A message syslog's
\* connection accepted and the network then lost, as UDP may, counts as taken.
Sent(p) ==
    /\ job[p].at = "send"
    /\ job[p].sink \notin down
    /\ Arrive(job[p].sink, job[p].batch)
    /\ job' = [job EXCEPT ![p].at = "sent"]
    /\ UNCHANGED <<configured, now, log, cursor, start, down, jobLock, prune, faults>>

\* What a sink may have taken of a batch whose Send failed: syslog is written
\* entry by entry, and a webhook is posted the batch and may have taken it
\* before its answer was lost.
Taken(s, batch) ==
    IF s = Syslog THEN {SubSeq(batch, 1, n) : n \in 0 .. Len(batch)} ELSE {<<>>, batch}

SendFails(p) ==
    /\ job[p].at = "send"
    /\ IF job[p].sink \in down
       THEN UNCHANGED <<got, faults>>
       ELSE /\ Fault
            /\ \E part \in Taken(job[p].sink, job[p].batch) : Arrive(job[p].sink, part)
    /\ NextSink(p, FALSE)
    /\ UNCHANGED <<configured, now, log, cursor, start, down, prune>>

\* What follows a batch: the cursor is moved to its last entry, and a short
\* batch, or the last one allowed, ends the sink's turn.
Moved(p) == Place(Last(job[p].batch))

MoveCursor(p, more) ==
    cursor' = [cursor EXCEPT ![job[p].sink] = Moved(p)]

SetAuditCursor(p) ==
    LET more == Len(job[p].batch) = Batch /\ job[p].round + 1 < MaxBatches
    IN  /\ job[p].at = "sent"
        /\ Connected(p)
        /\ MoveCursor(p, more)
        /\ IF more
           THEN /\ job' = [job EXCEPT ![p].at = "read", ![p].c = Moved(p),
                                      ![p].round = @ + 1, ![p].batch = <<>>]
                /\ UNCHANGED jobLock
           ELSE NextSink(p, TRUE)
        /\ UNCHANGED <<configured, now, log, start, down, got, prune, faults>>

\* A statement fails on a connection that lives on.
StatementFails(p) ==
    /\ job[p].at \in {"cursor", "read", "sent"}
    /\ Connected(p)
    /\ Fault
    /\ NextSink(p, FALSE)
    /\ UNCHANGED <<configured, now, log, cursor, start, down, got, prune>>

\* The connection and with it the lock are lost; every later statement fails,
\* for this sink and the next.
LoseConnection(p) ==
    /\ jobLock = p
    /\ jobLock' = None
    /\ Fault
    /\ UNCHANGED <<configured, now, log, cursor, start, down, got, job, prune>>

Disconnected(p) ==
    /\ job[p].at \in {"cursor", "read", "sent"}
    /\ ~ Connected(p)
    /\ Ends(p)
    /\ UNCHANGED <<configured, now, log, cursor, start, down, got, prune, faults>>

\* The server stops in the middle of a run.
Crash(p) ==
    /\ job[p].at # "idle"
    /\ Fault
    /\ Ends(p)
    /\ UNCHANGED <<configured, now, log, cursor, start, down, got, prune>>

GoesDown(s) ==
    /\ s \in configured \ down
    /\ Fault
    /\ down' = down \cup {s}
    /\ UNCHANGED <<configured, now, log, streaming, prune>>

ComesUp(s) ==
    /\ s \in down
    /\ down' = down \ {s}
    /\ UNCHANGED <<configured, now, log, streaming, prune, faults>>

---------------------------------------------------------------------------
(* Retention *)

\* DeleteAuditBefore: some of the entries stored before the cutoff, as many as
\* the limit allows.
DeleteAuditBefore(cutoff, limit) ==
    LET old == {e \in Stored : log[e].at < cutoff}
    IN  {gone \in SUBSET old : Cardinality(gone) = Min({limit, Cardinality(old)})}

PruneStarts ==
    /\ prune.at = "idle"
    /\ now > Horizon
    /\ prune' = [at |-> "prune", cutoff |-> now - Horizon, removed |-> 0, round |-> 0]
    /\ UNCHANGED <<configured, now, log, streaming, down, faults>>

PruneStep ==
    /\ prune.at = "prune"
    /\ \E gone \in DeleteAuditBefore(prune.cutoff, PruneBatch) :
         /\ log' = [e \in Entries |-> IF e \in gone THEN [log[e] EXCEPT !.state = "pruned"] ELSE log[e]]
         /\ prune' = [prune EXCEPT !.removed = @ + Cardinality(gone),
                                   !.round = @ + 1,
                                   !.at = IF Cardinality(gone) < PruneBatch \/ prune.round + 1 = PruneBatches
                                          THEN "trace" ELSE "prune"]
    /\ UNCHANGED <<configured, now, streaming, down, faults>>

\* The run's own entry, written when anything was removed.
PruneTrace ==
    /\ prune.at = "trace"
    /\ IF prune.removed = 0
       THEN UNCHANGED log
       ELSE \E e \in Entries : log[e].state = "absent" /\ log' = [log EXCEPT ![e] = [at |-> now, state |-> "stored"]]
    /\ prune' = Idle
    /\ UNCHANGED <<configured, now, streaming, down, faults>>

\* A table's deletion fails, and the run ends there.
PruneFails ==
    /\ prune.at # "idle"
    /\ Fault
    /\ prune' = Idle
    /\ UNCHANGED <<configured, now, log, streaming, down>>

---------------------------------------------------------------------------
Stream(p) ==
    \/ Starts(p) \/ ReadCursor(p) \/ ReadBatch(p) \/ Sent(p)
    \/ SetAuditCursor(p) \/ Disconnected(p)

Next ==
    \/ \E e \in Entries : BeginTx(e) \/ CommitTx(e)
    \/ Tick
    \/ \E p \in Replicas :
         \/ Stream(p) \/ SendFails(p) \/ StatementFails(p) \/ LoseConnection(p) \/ Crash(p)
    \/ \E s \in Sinks : GoesDown(s) \/ ComesUp(s)
    \/ PruneStarts \/ PruneStep \/ PruneTrace \/ PruneFails

Spec == Init /\ [][Next]_vars

---------------------------------------------------------------------------
(* Properties *)

\* The entries a sink is owed: those after the place it was started at.
Owed(s) == {e \in Entries : log[e].state \in {"stored", "pruned"} /\ start[s] # None /\ Before(start[s], Place(e))}

\* Nothing is skipped (auditStreamLag's comment): once a sink's cursor has
\* passed an entry the sink has received it, however late its transaction
\* committed and whatever failed in between, unless retention removed it first.
NothingSkipped ==
    \A s \in Sinks : \A e \in Owed(s) :
        (~ Before(cursor[s], Place(e)) /\ log[e].state = "stored") => e \in Range(got[s])

=============================================================================
