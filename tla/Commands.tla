------------------------------- MODULE Commands -------------------------------
(***************************************************************************)
(* One device's command queue, end to end: the server's commands table     *)
(* (server/commands, server/store/commands.go), the agent's session        *)
(* (check-in loop and worker goroutine) and the agent's bbolt file, which  *)
(* is all that survives a crash of the agent.                              *)
(*                                                                         *)
(* A command is the number of its creation: ids are UUIDv7, so the server  *)
(* lists pending commands and bbolt lists queued results in this order.    *)
(* The two goroutines are processes with a program counter each; a step is *)
(* one bbolt transaction, one server transaction or one critical section.  *)
(* A request to the server is answered, or it is applied and the answer is *)
(* lost, or it is lost, or the agent gives up and the server applies it    *)
(* later (late).  The device stays enrolled; payloads are left out.        *)
(***************************************************************************)
EXTENDS Naturals, Sequences, FiniteSets

CONSTANTS
    N,            \* how many commands are ever queued for the device
    QueueCap,     \* capacity of Session.work (64)
    Outcomes,     \* the statuses Executor.Execute may return
    MaxCrashes,   \* bound: agent crashes
    MaxFaults,    \* bound: failed bbolt transactions
    MaxLate,      \* bound: requests given up on and still on their way
    LongOutages   \* whether the agent may be down longer than ledgerRetention

ResultStatuses == {"succeeded", "failed", "timed_out"}

ASSUME NAssumption == N \in Nat
ASSUME QueueCapAssumption == QueueCap \in Nat \ {0}
ASSUME OutcomesAssumption == Outcomes \subseteq ResultStatuses
ASSUME BoundsAssumption == MaxCrashes \in Nat /\ MaxFaults \in Nat /\ MaxLate \in Nat
ASSUME LongOutagesAssumption == LongOutages \in BOOLEAN

Cmd   == 1 .. N
NoCmd == 0

\* "none": not yet created; "pruned": deleted by the retention job.
Open     == {"queued", "delivered", "running"}
Terminal == ResultStatuses \cup {"expired"}
Statuses == {"none", "pruned"} \cup Open \cup Terminal

\* A result says which code path made it: Execute returned, Execute panicked,
\* or enqueue found the command started by an agent that is gone.
NoResult      == [status |-> "none", by |-> "none"]
RestartResult == [status |-> "failed", by |-> "restart"]
PanicResult   == [status |-> "failed", by |-> "panic"]
RunResults    == [status : Outcomes, by : {"run"}]
Results       == RunResults \cup {RestartResult, PanicResult}

Procs == {"loop", "worker"}

\* Where a goroutine can be between two steps.
Points == {"idle", "flush", "checkin", "enqueue", "mark", "start", "execute",
           "running", "queue", "complete", "release"}

VARIABLES
    status,    \* commands.status
    stored,    \* command_results, NoResult when there is no row
    lapsed,    \* the commands with expires_at <= now
    late,      \* requests the agent gave up on that the server has yet to apply
    ledger,    \* bbolt: state of each ledger entry, "none" when absent
    outbox,    \* bbolt: queued results
    pc,        \* where each goroutine is
    job,       \* the command each goroutine is handling
    res,       \* the result each goroutine passes to finish
    work,      \* Session.work, a buffered channel
    inflight,  \* Session.inflight
    resp,      \* commands of the check-in answer not yet enqueued
    flusher,   \* who holds flushMu
    batch,     \* the results FlushResults read and has not yet dealt with
    sent,      \* the result the server has answered for, about to be deleted
    executed,  \* history: how often Execute was entered for each command
    outcome,   \* history: what finish was told when Execute ended
    crashes,   \* counts Crash, for MaxCrashes
    faults     \* counts failed bbolt transactions, for MaxFaults

serverVars  == <<status, stored, lapsed, late>>
diskVars    == <<ledger, outbox>>
flushVars   == <<flusher, batch, sent>>
queueVars   == <<work, inflight>>
historyVars == <<executed, outcome, crashes>>
agentVars == <<diskVars, pc, job, res, queueVars, resp, flushVars, historyVars,
               faults>>
vars == <<serverVars, agentVars>>

Oldest(S) == {c \in S : \A d \in S : c <= d}   \* a singleton, unless S is empty
Held(box) == {c \in Cmd : box[c] # NoResult}
EmptyBox  == [c \in Cmd |-> NoResult]

TypeOK ==
    /\ status \in [Cmd -> Statuses]
    /\ stored \in [Cmd -> Results \cup {NoResult}]
    /\ lapsed \subseteq Cmd
    /\ late \subseteq Cmd \X (Results \cup {NoResult})
    /\ ledger \in [Cmd -> {"none", "started", "completed"}]
    /\ outbox \in [Cmd -> Results \cup {NoResult}]
    /\ pc \in [Procs -> Points]
    /\ job \in [Procs -> Cmd \cup {NoCmd}]
    /\ res \in [Procs -> Results \cup {NoResult}]
    /\ work \in Seq(Cmd) /\ Len(work) <= QueueCap
    /\ inflight \subseteq Cmd
    /\ resp \subseteq Cmd
    /\ flusher \in Procs \cup {"none"}
    /\ batch \in [Cmd -> Results \cup {NoResult}]
    /\ sent \in Cmd \cup {NoCmd}
    /\ executed \in [Cmd -> Nat]
    /\ outcome \in [Cmd -> Results \cup {NoResult}]
    /\ crashes \in 0 .. MaxCrashes
    /\ faults \in 0 .. MaxFaults

Init ==
    /\ status = [c \in Cmd |-> "none"]
    /\ stored = EmptyBox
    /\ lapsed = {}
    /\ late = {}
    /\ ledger = [c \in Cmd |-> "none"]
    /\ outbox = EmptyBox
    /\ pc = [p \in Procs |-> "idle"]
    /\ job = [p \in Procs |-> NoCmd]
    /\ res = [p \in Procs |-> NoResult]
    /\ work = <<>>
    /\ inflight = {}
    /\ resp = {}
    /\ flusher = "none"
    /\ batch = EmptyBox
    /\ sent = NoCmd
    /\ executed = [c \in Cmd |-> 0]
    /\ outcome = EmptyBox
    /\ crashes = 0
    /\ faults = 0

-------------------------------------------------------------------------------
(* The server. *)

\* ExpireCommands: queued and delivered commands past their TTL.
ExpireCommands(st) ==
    [c \in Cmd |-> IF st[c] \in {"queued", "delivered"} /\ c \in lapsed
                   THEN "expired" ELSE st[c]]

PendingCommands(st) == {c \in Cmd : st[c] \in Open}

MarkCommandsDelivered(st) ==
    [c \in Cmd |-> IF st[c] = "queued" THEN "delivered" ELSE st[c]]

\* Service.Start: a command that cannot move to running is left alone, and the
\* agent is answered as if it had.
Start(c) ==
    /\ status' = [status EXCEPT ![c] =
                    IF @ \in {"queued", "delivered"} THEN "running" ELSE @]
    /\ UNCHANGED <<stored, lapsed>>

\* A wrong Complete that stores the result of a command it cannot complete.
CompleteStoresAnyway(c, r) ==
    /\ status' = [status EXCEPT ![c] = IF @ \in Open THEN r.status ELSE @]
    /\ stored' = [stored EXCEPT ![c] = r]
    /\ UNCHANGED lapsed

\* A wrong Complete that lets a late result undo an expiry.
CompleteUndoesExpiry(c, r) ==
    /\ status' = [status EXCEPT ![c] = IF @ \in Open \cup {"expired"} THEN r.status ELSE @]
    /\ stored' = [stored EXCEPT ![c] = IF status[c] \in Open \cup {"expired"} THEN r ELSE @]
    /\ UNCHANGED lapsed

\* Service.Complete: the first result of an open command is kept; any other
\* submission is answered as a success (or 404 once pruned) and changes nothing.
Complete(c, r) ==
    /\ status' = [status EXCEPT ![c] = IF @ \in Open THEN r.status ELSE @]
    /\ stored' = [stored EXCEPT ![c] = IF status[c] \in Open THEN r ELSE @]
    /\ UNCHANGED lapsed

\* An administrator queues the next command.
Queue(c) ==
    /\ status[c] = "none"
    /\ \A d \in Cmd : d < c => status[d] # "none"
    /\ status' = [status EXCEPT ![c] = "queued"]
    /\ UNCHANGED <<stored, lapsed, late, agentVars>>

\* Time passes expires_at.
Lapse(c) ==
    /\ status[c] # "none" /\ c \notin lapsed
    /\ lapsed' = lapsed \cup {c}
    /\ UNCHANGED <<status, stored, late, agentVars>>

\* The sweeper's commands.expire job.
ExpireJob ==
    /\ status' = ExpireCommands(status)
    /\ status' # status
    /\ UNCHANGED <<stored, lapsed, late, agentVars>>

\* The retention job deletes a finished command with its result.
Prune(c) ==
    /\ status[c] \in Terminal
    /\ status' = [status EXCEPT ![c] = "pruned"]
    /\ stored' = [stored EXCEPT ![c] = NoResult]
    /\ UNCHANGED <<lapsed, late, agentVars>>

\* The server applies a request whose sender has stopped waiting: a result, or
\* (with no result) the report that a command started.
Arrive(c, r) ==
    /\ <<c, r>> \in late
    /\ IF r = NoResult THEN Start(c) ELSE Complete(c, r)
    /\ late' = late \ {<<c, r>>}
    /\ UNCHANGED agentVars

-------------------------------------------------------------------------------
(* The agent: FlushResults, run by either goroutine under flushMu. *)

DiskFault == faults < MaxFaults /\ faults' = faults + 1

\* The client's 60-second timeout: the agent hears an error, the server may
\* still apply the request, at once or much later.
GiveUp(c, r) ==
    /\ Cardinality(late) < MaxLate
    /\ late' = late \cup {<<c, r>>}
    /\ UNCHANGED <<status, stored, lapsed>>

\* Where a goroutine goes once FlushResults returns, with or without an error.
AfterFlush(p) == [pc EXCEPT ![p] = IF p = "loop" THEN "checkin" ELSE "release"]

FlushReturn ==
    /\ pc' = AfterFlush(flusher)
    /\ flusher' = "none"
    /\ batch' = EmptyBox
    /\ sent' = NoCmd

\* Take the mutex and read the queued results.
FlushBegin(p) ==
    /\ pc[p] = "flush" /\ flusher = "none"
    /\ \/ flusher' = p /\ batch' = outbox /\ UNCHANGED <<pc, faults>>
       \/ DiskFault /\ pc' = AfterFlush(p) /\ UNCHANGED <<flusher, batch>>
    /\ UNCHANGED <<serverVars, diskVars, job, res, queueVars, resp, sent, historyVars>>

Submitting == flusher # "none" /\ sent = NoCmd

\* The server answers: success, or 404 for a command it no longer has.
SubmitAnswered ==
    /\ Submitting
    /\ \E c \in Oldest(Held(batch)) : Complete(c, batch[c]) /\ sent' = c
    /\ UNCHANGED <<late, diskVars, pc, job, res, queueVars, resp, flusher, batch,
                   historyVars, faults>>

\* Any other error ends the flush; the results stay queued.
SubmitFailed ==
    /\ Submitting
    /\ \E c \in Oldest(Held(batch)) :
         UNCHANGED serverVars \/ GiveUp(c, batch[c])
    /\ FlushReturn
    /\ UNCHANGED <<diskVars, job, res, queueVars, resp, historyVars, faults>>

DeleteResult ==
    /\ sent # NoCmd
    /\ \/ /\ outbox' = [outbox EXCEPT ![sent] = NoResult]
          /\ batch' = [batch EXCEPT ![sent] = NoResult]
          /\ sent' = NoCmd
          /\ UNCHANGED <<pc, flusher, faults>>
       \/ DiskFault /\ FlushReturn /\ UNCHANGED outbox
    /\ UNCHANGED <<serverVars, ledger, job, res, queueVars, resp, historyVars>>

FlushDone ==
    /\ flusher # "none" /\ sent = NoCmd /\ Held(batch) = {}
    /\ FlushReturn
    /\ UNCHANGED <<serverVars, diskVars, job, res, queueVars, resp, historyVars,
                   faults>>

-------------------------------------------------------------------------------
(* finish, called by enqueue and by run. *)

\* The recovered panic of a run goes on to release its command, a run that
\* returned to send its result first.
FinishReturn(p) ==
    /\ pc' = [pc EXCEPT ![p] = IF p = "loop" THEN "enqueue"
                               ELSE IF res[p] = PanicResult THEN "release" ELSE "flush"]
    /\ res' = [res EXCEPT ![p] = NoResult]
    /\ job' = IF p = "loop" THEN [job EXCEPT ![p] = NoCmd] ELSE job

QueueResult(p) ==
    /\ pc[p] = "queue"
    /\ \/ /\ outbox' = [outbox EXCEPT ![job[p]] = res[p]]
          /\ pc' = [pc EXCEPT ![p] = "complete"]
          /\ UNCHANGED <<job, res, faults>>
       \/ DiskFault /\ FinishReturn(p) /\ UNCHANGED outbox
    /\ UNCHANGED <<serverVars, ledger, queueVars, resp, flushVars, historyVars>>

MarkCompleted(p) ==
    /\ pc[p] = "complete"
    /\ FinishReturn(p)
    /\ \/ ledger' = [ledger EXCEPT ![job[p]] = "completed"] /\ UNCHANGED faults
       \/ DiskFault /\ UNCHANGED ledger
    /\ UNCHANGED <<serverVars, outbox, queueVars, resp, flushVars, historyVars>>

-------------------------------------------------------------------------------
(* The check-in loop. *)

\* The interval passes, or the wait on the server says there is work.
BeginCheckin ==
    /\ pc["loop"] = "idle"
    /\ pc' = [pc EXCEPT !["loop"] = "flush"]
    /\ UNCHANGED <<serverVars, diskVars, job, res, queueVars, resp, flushVars,
                   historyVars, faults>>

\* Service.Deliver, in one transaction.
Deliver ==
    /\ status' = MarkCommandsDelivered(ExpireCommands(status))
    /\ UNCHANGED <<stored, lapsed, late>>

CheckinAnswered ==
    /\ pc["loop"] = "checkin"
    /\ Deliver
    /\ resp' = PendingCommands(ExpireCommands(status))
    /\ pc' = [pc EXCEPT !["loop"] = "enqueue"]
    /\ UNCHANGED <<diskVars, job, res, queueVars, flushVars, historyVars, faults>>

CheckinFailed ==
    /\ pc["loop"] = "checkin"
    /\ Deliver \/ UNCHANGED serverVars
    /\ pc' = [pc EXCEPT !["loop"] = "idle"]
    /\ UNCHANGED <<diskVars, job, res, queueVars, resp, flushVars, historyVars,
                   faults>>

\* enqueue, for the next command of the answer.
EnqueueSkip(c) ==
    /\ \/ c \in inflight /\ UNCHANGED faults
       \/ c \notin inflight /\ ledger[c] = "completed" /\ UNCHANGED faults
       \/ /\ c \notin inflight /\ ledger[c] = "none"
          /\ Len(work) = QueueCap /\ UNCHANGED faults
       \/ c \notin inflight /\ DiskFault
    /\ UNCHANGED <<pc, job, res, queueVars>>

\* A wrong enqueue that ignores a command an earlier agent began.
EnqueueForgets(c) ==
    /\ c \notin inflight /\ ledger[c] = "started"
    /\ UNCHANGED <<pc, job, res, queueVars, faults>>

EnqueueRestarted(c) ==
    /\ c \notin inflight /\ ledger[c] = "started"
    /\ pc' = [pc EXCEPT !["loop"] = "queue"]
    /\ job' = [job EXCEPT !["loop"] = c]
    /\ res' = [res EXCEPT !["loop"] = RestartResult]
    /\ UNCHANGED <<queueVars, faults>>

\* A wrong enqueue that does not record what it put on the channel.
EnqueueUntracked(c) ==
    /\ c \notin inflight /\ ledger[c] = "none" /\ Len(work) < QueueCap
    /\ work' = Append(work, c)
    /\ UNCHANGED <<pc, job, res, inflight, faults>>

EnqueuePush(c) ==
    /\ c \notin inflight /\ ledger[c] = "none" /\ Len(work) < QueueCap
    /\ work' = Append(work, c)
    /\ inflight' = inflight \cup {c}
    /\ UNCHANGED <<pc, job, res, faults>>

Enqueue ==
    /\ pc["loop"] = "enqueue"
    /\ \E c \in Oldest(resp) :
         /\ EnqueueSkip(c) \/ EnqueueRestarted(c) \/ EnqueuePush(c)
         /\ resp' = resp \ {c}
    /\ UNCHANGED <<serverVars, diskVars, flushVars, historyVars>>

EndCheckin ==
    /\ pc["loop"] = "enqueue" /\ resp = {}
    /\ pc' = [pc EXCEPT !["loop"] = "idle"]
    /\ UNCHANGED <<serverVars, diskVars, job, res, queueVars, resp, flushVars,
                   historyVars, faults>>

-------------------------------------------------------------------------------
(* The worker goroutine: worker and run. *)

Take ==
    /\ pc["worker"] = "idle" /\ work # <<>>
    /\ job' = [job EXCEPT !["worker"] = Head(work)]
    /\ work' = Tail(work)
    /\ pc' = [pc EXCEPT !["worker"] = "mark"]
    /\ UNCHANGED <<serverVars, diskVars, res, inflight, resp, flushVars,
                   historyVars, faults>>

\* MarkStarted keeps an entry that is already there; run ignores what it says.
MarkStarted ==
    /\ pc["worker"] = "mark"
    /\ \/ /\ ledger' = [ledger EXCEPT ![job["worker"]] =
                          IF @ = "none" THEN "started" ELSE @]
          /\ pc' = [pc EXCEPT !["worker"] = "start"]
          /\ UNCHANGED faults
       \/ DiskFault /\ pc' = [pc EXCEPT !["worker"] = "release"] /\ UNCHANGED ledger
    /\ UNCHANGED <<serverVars, outbox, job, res, queueVars, resp, flushVars,
                   historyVars>>

\* Whether or not the server heard, the command runs.
StartCommand ==
    /\ pc["worker"] = "start"
    /\ LET c == job["worker"] IN
         \/ Start(c) /\ UNCHANGED late
         \/ UNCHANGED serverVars \/ GiveUp(c, NoResult)
    /\ pc' = [pc EXCEPT !["worker"] = "execute"]
    /\ UNCHANGED <<diskVars, job, res, queueVars, resp, flushVars, historyVars,
                   faults>>

Execute ==
    /\ pc["worker"] = "execute"
    /\ executed' = [executed EXCEPT ![job["worker"]] = @ + 1]
    /\ pc' = [pc EXCEPT !["worker"] = "running"]
    /\ UNCHANGED <<serverVars, diskVars, job, res, queueVars, resp, flushVars,
                   outcome, crashes, faults>>

ExecuteReturn ==
    /\ pc["worker"] = "running"
    /\ \E r \in RunResults \cup {PanicResult} :
         /\ res' = [res EXCEPT !["worker"] = r]
         /\ outcome' = [outcome EXCEPT ![job["worker"]] = r]
    /\ pc' = [pc EXCEPT !["worker"] = "queue"]
    /\ UNCHANGED <<serverVars, diskVars, job, queueVars, resp, flushVars,
                   executed, crashes, faults>>

\* run's deferred function.
Release ==
    /\ pc["worker"] = "release"
    /\ inflight' = inflight \ {job["worker"]}
    /\ job' = [job EXCEPT !["worker"] = NoCmd]
    /\ pc' = [pc EXCEPT !["worker"] = "idle"]
    /\ UNCHANGED <<serverVars, diskVars, res, work, resp, flushVars, historyVars,
                   faults>>

\* The agent stops at any point and is started again; Session.Start prunes the
\* ledger entries older than ledgerRetention, whatever their state.
Crash ==
    /\ crashes < MaxCrashes
    /\ crashes' = crashes + 1
    /\ pc' = [p \in Procs |-> "idle"]
    /\ job' = [p \in Procs |-> NoCmd]
    /\ res' = [p \in Procs |-> NoResult]
    /\ work' = <<>> /\ inflight' = {} /\ resp' = {}
    /\ flusher' = "none" /\ batch' = EmptyBox /\ sent' = NoCmd
    /\ \E old \in IF LongOutages THEN SUBSET Cmd ELSE {{}} :
         ledger' = [c \in Cmd |-> IF c \in old THEN "none" ELSE ledger[c]]
    /\ UNCHANGED <<serverVars, outbox, executed, outcome, faults>>

-------------------------------------------------------------------------------

LoopStep == BeginCheckin \/ CheckinAnswered \/ CheckinFailed \/ Enqueue \/ EndCheckin

WorkerStep == Take \/ MarkStarted \/ StartCommand \/ Execute \/ ExecuteReturn \/ Release

FlushStep == SubmitAnswered \/ SubmitFailed \/ DeleteResult \/ FlushDone

ProcStep(p) == FlushBegin(p) \/ QueueResult(p) \/ MarkCompleted(p)

Next ==
    \/ \E c \in Cmd : Queue(c) \/ Lapse(c) \/ Prune(c)
    \/ ExpireJob
    \/ \E c \in Cmd, r \in Results \cup {NoResult} : Arrive(c, r)
    \/ LoopStep
    \/ WorkerStep
    \/ FlushStep
    \/ \E p \in Procs : ProcStep(p)
    \/ Crash

Spec == Init /\ [][Next]_vars

\* The goroutines are scheduled, and a network that works again and again gets
\* a request answered.  Crashes and bbolt failures are bounded by their caps.
Fairness ==
    /\ WF_vars(LoopStep) /\ WF_vars(WorkerStep) /\ WF_vars(FlushStep)
    /\ \A p \in Procs : WF_vars(QueueResult(p)) /\ WF_vars(MarkCompleted(p))
                        /\ SF_vars(FlushBegin(p))
    /\ SF_vars(CheckinAnswered) /\ SF_vars(SubmitAnswered)

FairSpec == Spec /\ Fairness

-------------------------------------------------------------------------------
(* Properties. *)

\* However often a command is delivered, and wherever the agent crashes, the
\* executor is entered for it at most once (session.enqueue, the ledger).
AtMostOnce == \A c \in Cmd : executed[c] <= 1

\* Once the ledger says completed, the result waits in the bbolt queue until the
\* server has settled the command: no crash, lost answer or concurrent flush
\* leaves the server waiting for a result the agent no longer has
\* (session.finish, session.FlushResults).
NoResultDropped ==
    \A c \in Cmd : ledger[c] = "completed" /\ status[c] \in Open => outbox[c] # NoResult

\* A result on the server came from this device's handling of the command: one
\* that Execute produced is exactly what Execute returned, one that says the
\* agent restarted belongs to a command the ledger shows was begun, and the
\* command's status is the result's (commands.Complete).
StoredIsTrue ==
    \A c \in Cmd : stored[c] # NoResult =>
        /\ status[c] = stored[c].status
        /\ stored[c].by \in {"run", "panic"} => stored[c] = outcome[c]
        /\ ledger[c] # "none"

SettledKept ==
    \A c \in Cmd : status[c] \in Terminal =>
        \/ status'[c] = status[c] /\ stored'[c] = stored[c]
        \/ status'[c] = "pruned" /\ stored'[c] = NoResult

\* A settled command stays as it was settled, whatever late, duplicated or
\* reordered reports arrive, until retention deletes it (commands.Complete,
\* commands.Start, store.ExpireCommands).
SettledStays == [][SettledKept]_vars

\* Every command queued is settled in the end: it runs, or the agent says it
\* was cut short, or it expires.
EventuallySettled ==
    \A c \in Cmd : (status[c] = "queued") ~> (status[c] \in Terminal \cup {"pruned"})

\* finish says it "stores a result before marking the command done, so a crash
\* in between leaves the result to be sent rather than losing it": what Execute
\* returned leaves the queue only by being sent, never by being replaced.
QueuedResultKept ==
    [][\A c \in Cmd : outbox[c].by = "run" => outbox'[c] \in {outbox[c], NoResult}]_vars

-------------------------------------------------------------------------------
(* The inductive invariant behind AtMostOnce, NoResultDropped and StoredIsTrue *)
(* when no outage outlasts the ledger.                                         *)

\* Which program points belong to which goroutine, and what they hold.
ControlInv ==
    /\ pc["loop"] \in {"idle", "flush", "checkin", "enqueue", "queue", "complete"}
    /\ pc["worker"] \in {"idle", "mark", "start", "execute", "running", "queue",
                         "complete", "flush", "release"}
    /\ (pc["worker"] = "idle") <=> (job["worker"] = NoCmd)
    /\ (pc["loop"] \in {"queue", "complete"}) <=> (job["loop"] # NoCmd)
    /\ \A p \in Procs : (pc[p] \in {"queue", "complete"}) <=> (res[p] # NoResult)
    /\ flusher \in Procs => pc[flusher] = "flush"
    /\ flusher = "none" => sent = NoCmd
    /\ sent # NoCmd => batch[sent] # NoResult

\* What is waiting in the channel has not begun, and nobody else has it.
QueueInv ==
    /\ \A i \in 1 .. Len(work) :
         work[i] \in inflight /\ ledger[work[i]] = "none" /\ work[i] # job["worker"]
    /\ \A i, j \in 1 .. Len(work) : work[i] = work[j] => i = j
    /\ job["worker"] # NoCmd => job["worker"] \in inflight
    /\ job["loop"] # NoCmd => job["loop"] \notin inflight /\ ledger[job["loop"]] # "none"

\* How far a command has come, by the ledger and the worker's program counter.
RunInv ==
    /\ \A c \in Cmd : executed[c] > 0 => ledger[c] # "none"
    /\ \A c \in Cmd : executed[c] <= 1
    /\ \A c \in Cmd : executed[c] = 0 => outcome[c] = NoResult
    /\ pc["worker"] = "mark" => ledger[job["worker"]] = "none"
    /\ pc["worker"] \in {"start", "execute"} =>
         ledger[job["worker"]] # "none" /\ executed[job["worker"]] = 0
    /\ pc["worker"] = "running" =>
         /\ ledger[job["worker"]] # "none" /\ executed[job["worker"]] = 1
         /\ outcome[job["worker"]] = NoResult
    /\ pc["worker"] \in {"queue", "complete"} => ledger[job["worker"]] # "none"

\* Nothing is held about a command that was never queued.
CreatedInv ==
    \A c \in Cmd : status[c] = "none" =>
        /\ ledger[c] = "none" /\ c \notin inflight /\ c \notin resp
        /\ outbox[c] = NoResult /\ batch[c] = NoResult
        /\ \A r \in Results \cup {NoResult} : <<c, r>> \notin late

\* r is a result this device may report of c.
Honest(c, r) ==
    /\ r.by \in {"run", "panic"} => r = outcome[c]
    /\ ledger[c] # "none"

\* Every copy of a result, wherever it is, is one the device may report.
HonestInv ==
    /\ \A c \in Cmd : outbox[c] # NoResult => Honest(c, outbox[c])
    /\ \A c \in Cmd : batch[c] # NoResult => Honest(c, batch[c])
    /\ \A c \in Cmd : stored[c] # NoResult => Honest(c, stored[c])
    /\ \A c \in Cmd, r \in Results : <<c, r>> \in late => Honest(c, r)
    /\ \A p \in Procs : res[p] # NoResult => Honest(job[p], res[p])
    /\ \A c \in Cmd : stored[c] # NoResult => status[c] = stored[c].status

\* A completed command is settled or its result is still queued.
KeptInv ==
    /\ NoResultDropped
    /\ \A p \in Procs : pc[p] = "complete" /\ status[job[p]] \in Open =>
         outbox[job[p]] # NoResult
    /\ sent # NoCmd => status[sent] \notin Open

IInv ==
    /\ TypeOK /\ ControlInv /\ QueueInv /\ RunInv
    /\ CreatedInv /\ HonestInv /\ KeptInv
===============================================================================
