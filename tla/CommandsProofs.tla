--------------------------- MODULE CommandsProofs -----------------------------
(***************************************************************************)
(* The theorems about Commands: the inductive invariant IInv; from it      *)
(* AtMostOnce, NoResultDropped, StoredIsTrue and SettledStays; and that    *)
(* Commands implements CommandPromise.  All of them hold for any number of *)
(* commands, any channel capacity and any number of crashes, disk failures *)
(* and late requests, while no outage outlasts the agent's ledger.         *)
(*                                                                         *)
(* First facts about the definitions and what leaves each part of IInv     *)
(* alone; then one lemma for each action, of the server, FlushResults,     *)
(* finish, the check-in loop and the worker; then the theorems.            *)
(***************************************************************************)
EXTENDS CommandsRefinement, TLAPS

\* What the provers need to know of results: none of them is NoResult, and each
\* carries a result status.
LEMMA ResultFacts ==
    /\ RestartResult \in Results /\ PanicResult \in Results
    /\ RunResults \subseteq Results
    /\ RestartResult.by = "restart"
    /\ RestartResult.by \notin {"run", "panic"}
    /\ NoResult \notin Results
    /\ \A r \in Results : r # NoResult /\ r.status \in ResultStatuses
                          /\ r.status \in Statuses /\ r.status \notin Open \cup {"none"}
<1>1. RestartResult \in Results /\ PanicResult \in Results /\ RunResults \subseteq Results
  BY Zenon DEF Results
<1>2. RestartResult.by = "restart" /\ RestartResult.by \notin {"run", "panic"}
  BY Zenon DEF RestartResult
<1>3. ASSUME NEW r \in Results
      PROVE  r # NoResult /\ r.status \in ResultStatuses
             /\ r.status \in Statuses /\ r.status \notin Open \cup {"none"}
  <2>1. CASE r \in RunResults
    <3>1. r.status \in Outcomes /\ r.by = "run"
      BY Zenon, <2>1 DEF RunResults
    <3>2. NoResult.by = "none"
      BY Zenon DEF NoResult
    <3> QED BY Zenon, <3>1, <3>2, OutcomesAssumption DEF ResultStatuses, Statuses, Open, Terminal
  <2>2. CASE r = RestartResult
    <3>1. r.status = "failed" /\ r.by = "restart"
      BY <2>2 DEF RestartResult
    <3>2. NoResult.by = "none"
      BY DEF NoResult
    <3> QED BY Zenon, <3>1, <3>2 DEF ResultStatuses, Statuses, Open, Terminal
  <2>3. CASE r = PanicResult
    <3>1. r.status = "failed" /\ r.by = "panic"
      BY <2>3 DEF PanicResult
    <3>2. NoResult.by = "none"
      BY Zenon DEF NoResult
    <3> QED BY Zenon, <3>1, <3>2 DEF ResultStatuses, Statuses, Open, Terminal
  <2> QED BY Zenon, <2>1, <2>2, <2>3 DEF Results
<1> QED BY <1>1, <1>2, <1>3

LEMMA CmdFacts == Cmd \subseteq Nat /\ NoCmd \notin Cmd
BY NAssumption DEF Cmd, NoCmd

USE DEF Procs, agentVars, serverVars, diskVars, flushVars, queueVars, historyVars

LEMMA InitIInv == Init => IInv
<1> SUFFICES ASSUME Init PROVE IInv
  OBVIOUS
<1>1. TypeOK
  BY BoundsAssumption, QueueCapAssumption DEF Init, TypeOK, EmptyBox, Statuses, Points
<1>2. ControlInv /\ QueueInv
  BY DEF Init, ControlInv, QueueInv, EmptyBox
<1>3. RunInv
  BY DEF Init, RunInv, EmptyBox
<1>4. CreatedInv
  BY Zenon DEF Init, CreatedInv, EmptyBox
<1>5. HonestInv
  BY DEF Init, HonestInv, EmptyBox
<1>6. KeptInv
  BY DEF Init, KeptInv, NoResultDropped, EmptyBox, Open
<1> QED BY Zenon, <1>1, <1>2, <1>3, <1>4, <1>5, <1>6 DEF IInv

-------------------------------------------------------------------------------
(* What leaves each part of the invariant alone. *)

LEMMA ControlFrame ==
    ASSUME ControlInv, UNCHANGED <<pc, job, res, flusher, batch, sent>>
    PROVE  ControlInv'
BY DEF ControlInv

LEMMA QueueFrame ==
    ASSUME QueueInv, UNCHANGED <<work, inflight, ledger, job>>
    PROVE  QueueInv'
BY DEF QueueInv

LEMMA RunFrame ==
    ASSUME RunInv, UNCHANGED <<executed, outcome, ledger>>,
           pc'["worker"] = pc["worker"], job'["worker"] = job["worker"]
    PROVE  RunInv'
BY Zenon DEF RunInv

LEMMA CreatedFrame ==
    ASSUME CreatedInv, UNCHANGED <<ledger, outbox>>,
           \A c \in Cmd : status'[c] = "none" => status[c] = "none",
           inflight' \subseteq inflight, late' \subseteq late,
           \A c \in resp' : c \in resp \/ status'[c] # "none",
           \A c \in Cmd : batch'[c] \in {batch[c], outbox[c], NoResult}
    PROVE  CreatedInv'
BY DEF CreatedInv

LEMMA HonestFrame ==
    ASSUME HonestInv, UNCHANGED <<outbox, stored, ledger, outcome>>,
           \A c \in Cmd : stored[c] # NoResult => status'[c] = status[c],
           late' \subseteq late,
           \A c \in Cmd : batch'[c] \in {batch[c], outbox[c], NoResult},
           \A p \in Procs : res'[p] # NoResult => res'[p] = res[p] /\ job'[p] = job[p]
    PROVE  HonestInv'
BY DEF HonestInv, Honest

LEMMA KeptFrame ==
    ASSUME TypeOK, ControlInv, KeptInv, UNCHANGED <<ledger, outbox>>,
           sent' \in {sent, NoCmd},
           \A c \in Cmd : status'[c] \in Open => status[c] \in Open,
           \A p \in Procs : pc'[p] = "complete" => pc[p] = "complete" /\ job'[p] = job[p]
    PROVE  KeptInv'
<1>1. \A p \in Procs : pc[p] = "complete" => job[p] \in Cmd
  BY Zenon DEF TypeOK, ControlInv
<1> QED BY <1>1 DEF KeptInv, NoResultDropped, TypeOK

\* A command the server settled is settled with a result status.
LEMMA StoredNotOpen ==
    ASSUME IInv, NEW c \in Cmd, stored[c] # NoResult
    PROVE  status[c] \in ResultStatuses /\ status[c] \notin Open \cup {"none"}
BY Zenon, ResultFacts DEF IInv, TypeOK, HonestInv

\* What has begun, waits or is held anywhere is a command the server created.
LEMMA UncreatedIdle ==
    ASSUME IInv, NEW c \in Cmd, status[c] = "none"
    PROVE  /\ ledger[c] = "none" /\ sent # c /\ stored[c] = NoResult
           /\ \A p \in Procs : pc[p] \in {"queue", "complete"} => job[p] # c
<1>1. ledger[c] = "none" /\ batch[c] = NoResult
  BY Zenon DEF IInv, CreatedInv
<1>2. sent # c
  BY Zenon, <1>1, CmdFacts DEF IInv, ControlInv
<1>3. stored[c] = NoResult
  BY Zenon, StoredNotOpen
<1>4. \A p \in Procs : pc[p] \in {"queue", "complete"} => job[p] # c
  BY <1>1, CmdFacts DEF IInv, QueueInv, RunInv
<1> QED BY Zenon, <1>1, <1>2, <1>3, <1>4

-------------------------------------------------------------------------------
(* The server's steps. *)

LEMMA ServerFrame ==
    ASSUME IInv, UNCHANGED agentVars
    PROVE  ControlInv' /\ QueueInv' /\ RunInv'
BY ControlFrame, QueueFrame, RunFrame DEF IInv

LEMMA QueueStep == ASSUME IInv, NEW c \in Cmd, Queue(c) PROVE IInv'
<1>1. TypeOK'
  BY Zenon DEF IInv, Queue, TypeOK, Statuses, Open
<1>2. ControlInv' /\ QueueInv' /\ RunInv'
  BY Zenon, ServerFrame DEF Queue
<1>3. \A d \in Cmd : status'[d] = IF d = c THEN "queued" ELSE status[d]
  BY Zenon DEF IInv, Queue, TypeOK
<1>4. CreatedInv'
  BY Zenon, <1>3, CreatedFrame DEF IInv, Queue
<1>5. HonestInv'
  BY Zenon, <1>3, HonestFrame, UncreatedIdle DEF IInv, Queue
<1>6. KeptInv'
  BY <1>3, UncreatedIdle DEF IInv, Queue, KeptInv, NoResultDropped
<1> QED BY <1>1, <1>2, <1>4, <1>5, <1>6 DEF IInv

LEMMA LapseStep == ASSUME IInv, NEW c \in Cmd, Lapse(c) PROVE IInv'
<1>1. TypeOK'
  BY Zenon DEF IInv, Lapse, TypeOK
<1>2. ControlInv' /\ QueueInv' /\ RunInv'
  BY ServerFrame DEF Lapse
<1>3. CreatedInv' /\ HonestInv' /\ KeptInv'
  BY Zenon, CreatedFrame, HonestFrame, KeptFrame DEF IInv, Lapse
<1> QED BY <1>1, <1>2, <1>3 DEF IInv

LEMMA PruneStep == ASSUME IInv, NEW c \in Cmd, Prune(c) PROVE IInv'
<1>1. TypeOK'
  BY Zenon DEF IInv, Prune, TypeOK, Statuses
<1>2. ControlInv' /\ QueueInv' /\ RunInv'
  BY Zenon, ServerFrame DEF Prune
<1>3. \A d \in Cmd : /\ status'[d] = IF d = c THEN "pruned" ELSE status[d]
                     /\ stored'[d] = IF d = c THEN NoResult ELSE stored[d]
  BY DEF IInv, Prune, TypeOK
<1>4. CreatedInv'
  BY <1>3, CreatedFrame DEF IInv, Prune
<1>5. HonestInv'
  BY <1>3 DEF IInv, Prune, HonestInv, Honest
<1>6. KeptInv'
  BY <1>3, KeptFrame DEF IInv, Prune, Open
<1> QED BY Zenon, <1>1, <1>2, <1>4, <1>5, <1>6 DEF IInv

\* What the server's bulk updates do to every row.
LEMMA BulkRows ==
    ASSUME TypeOK, NEW st,
           \/ st = ExpireCommands(status)
           \/ st = MarkCommandsDelivered(ExpireCommands(status))
    PROVE  /\ st \in [Cmd -> Statuses]
           /\ \A d \in Cmd : /\ status[d] \notin Open => st[d] = status[d]
                             /\ st[d] = "none" => status[d] = "none"
<1>1. \A d \in Cmd : ExpireCommands(status)[d] \in {status[d], "expired"}
  BY Zenon DEF ExpireCommands
<1>2. \A d \in Cmd : status[d] \notin Open => ExpireCommands(status)[d] = status[d]
  BY Zenon DEF ExpireCommands, Open
<1>3. ExpireCommands(status) \in [Cmd -> Statuses]
  BY Zenon DEF TypeOK, ExpireCommands, Statuses, Terminal
<1>4. \A d \in Cmd : MarkCommandsDelivered(ExpireCommands(status))[d]
                       \in {ExpireCommands(status)[d], "delivered"}
  BY DEF MarkCommandsDelivered
<1>5. \A d \in Cmd : status[d] \notin Open =>
        MarkCommandsDelivered(ExpireCommands(status))[d] = status[d]
  BY Zenon, <1>2 DEF MarkCommandsDelivered, Open
<1>6. MarkCommandsDelivered(ExpireCommands(status)) \in [Cmd -> Statuses]
  BY <1>3 DEF MarkCommandsDelivered, Statuses, Open
<1> QED BY Zenon, <1>1, <1>2, <1>3, <1>4, <1>5, <1>6

LEMMA ExpireJobStep == ASSUME IInv, ExpireJob PROVE IInv'
<1>1. /\ status' \in [Cmd -> Statuses]
      /\ \A d \in Cmd : /\ status[d] \notin Open => status'[d] = status[d]
                        /\ status'[d] = "none" => status[d] = "none"
  BY BulkRows DEF IInv, ExpireJob
<1>2. TypeOK'
  BY Zenon, <1>1 DEF IInv, ExpireJob, TypeOK
<1>3. ControlInv' /\ QueueInv' /\ RunInv'
  BY ServerFrame DEF ExpireJob
<1>4. CreatedInv'
  BY <1>1, CreatedFrame DEF IInv, ExpireJob
<1>5. HonestInv'
  BY Zenon, <1>1, HonestFrame, StoredNotOpen DEF IInv, ExpireJob
<1>6. KeptInv'
  BY Zenon, <1>1, KeptFrame DEF IInv, ExpireJob
<1> QED BY <1>2, <1>3, <1>4, <1>5, <1>6 DEF IInv

\* What the server's two report handlers do to every row.
LEMMA StartRows ==
    ASSUME TypeOK, NEW c \in Cmd, Start(c)
    PROVE  /\ status' \in [Cmd -> Statuses]
           /\ \A d \in Cmd :
                \/ status'[d] = status[d]
                \/ status'[d] = "running" /\ status[d] \in Open
           /\ UNCHANGED <<stored, lapsed>>
<1>1. status' = [status EXCEPT ![c] =
                   IF status[c] \in {"queued", "delivered"} THEN "running" ELSE status[c]]
  BY Zenon DEF Start
<1>2. (IF status[c] \in {"queued", "delivered"} THEN "running" ELSE status[c]) \in Statuses
  BY Zenon DEF TypeOK, Statuses, Open
<1>3. status' \in [Cmd -> Statuses]
  BY Zenon, <1>1, <1>2 DEF TypeOK
<1>4. \A d \in Cmd :
        \/ status'[d] = status[d]
        \/ status'[d] = "running" /\ status[d] \in Open
  BY Zenon, <1>1 DEF TypeOK, Open
<1>5. UNCHANGED <<stored, lapsed>>
  BY Zenon DEF Start
<1> QED BY Zenon, <1>3, <1>4, <1>5

LEMMA CompleteRows ==
    ASSUME TypeOK, NEW c \in Cmd, NEW r \in Results, Complete(c, r)
    PROVE  /\ status' \in [Cmd -> Statuses]
           /\ stored' \in [Cmd -> Results \cup {NoResult}]
           /\ \A d \in Cmd :
                \/ status'[d] = status[d] /\ stored'[d] = stored[d]
                \/ /\ d = c /\ status[c] \in Open
                   /\ status'[d] = r.status /\ stored'[d] = r
           /\ status'[c] \notin Open
           /\ UNCHANGED lapsed
<1>1. r.status \in Statuses /\ r.status \notin Open
  BY Zenon, ResultFacts
<1> QED BY <1>1 DEF TypeOK, Complete

\* Complete stores only what the device may report.
LEMMA CompleteHonest ==
    ASSUME IInv, NEW c \in Cmd, NEW r \in Results, Complete(c, r), Honest(c, r),
           UNCHANGED <<outbox, batch, res, job, ledger, outcome>>, late' \subseteq late
    PROVE  HonestInv'
<1>1. \A d \in Cmd : \/ status'[d] = status[d] /\ stored'[d] = stored[d]
                     \/ d = c /\ status'[d] = r.status /\ stored'[d] = r
  BY CompleteRows DEF IInv
<1>2. \A d \in Cmd : stored'[d] # NoResult =>
        Honest(d, stored'[d]) /\ status'[d] = stored'[d].status
  BY <1>1 DEF IInv, HonestInv
<1> QED BY <1>2 DEF IInv, HonestInv, Honest

LEMMA ArriveStep ==
    ASSUME IInv, NEW c \in Cmd, NEW r \in Results \cup {NoResult}, Arrive(c, r)
    PROVE  IInv'
<1>0. late' \subseteq late /\ UNCHANGED agentVars
  BY Zenon DEF Arrive
<1>1. ControlInv' /\ QueueInv' /\ RunInv'
  BY Zenon, <1>0, ServerFrame
<1>2. CASE r = NoResult
  <2>0. Start(c)
    BY Zenon, <1>2 DEF Arrive
  <2>1. TypeOK'
    BY Zenon, <1>0, <2>0, StartRows DEF IInv, TypeOK
  <2>2. CreatedInv'
    BY Zenon, <1>0, <2>0, StartRows, CreatedFrame DEF IInv
  <2>3. HonestInv'
    BY Zenon, <1>0, <2>0, StartRows, StoredNotOpen, HonestFrame DEF IInv
  <2>4. KeptInv'
    BY Zenon, <1>0, <2>0, StartRows, KeptFrame DEF IInv
  <2> QED BY Zenon, <1>1, <2>1, <2>2, <2>3, <2>4 DEF IInv
<1>3. CASE r # NoResult
  <2>0. r \in Results /\ Complete(c, r) /\ Honest(c, r)
    BY <1>3 DEF IInv, Arrive, HonestInv
  <2>1. TypeOK'
    BY Zenon, <1>0, <2>0, CompleteRows DEF IInv, TypeOK
  <2>2. CreatedInv'
    <3>1. \A d \in Cmd : status'[d] = "none" => status[d] = "none"
      BY <2>0, CompleteRows, ResultFacts DEF IInv
    <3> QED BY Zenon, <1>0, <3>1, CreatedFrame DEF IInv
  <2>3. HonestInv'
    BY Zenon, <1>0, <2>0, CompleteHonest
  <2>4. KeptInv'
    BY Zenon, <1>0, <2>0, CompleteRows, ResultFacts, KeptFrame DEF IInv
  <2> QED BY <1>1, <2>1, <2>2, <2>3, <2>4 DEF IInv
<1> QED BY Zenon, <1>2, <1>3

-------------------------------------------------------------------------------
(* FlushResults. *)

LEMMA FlushBeginStep == ASSUME IInv, NEW p \in Procs, FlushBegin(p) PROVE IInv'
<1>1. CASE flusher' = p /\ batch' = outbox /\ UNCHANGED <<pc, faults>>
  <2>1. TypeOK'
    BY Zenon, <1>1 DEF IInv, FlushBegin, TypeOK
  <2>2. ControlInv'
    BY Zenon, <1>1 DEF IInv, FlushBegin, ControlInv
  <2>3. QueueInv' /\ RunInv'
    BY Zenon, <1>1, QueueFrame, RunFrame DEF IInv, FlushBegin
  <2>4. CreatedInv' /\ HonestInv' /\ KeptInv'
    BY Zenon, <1>1, CreatedFrame, HonestFrame, KeptFrame DEF IInv, FlushBegin
  <2> QED BY <2>1, <2>2, <2>3, <2>4 DEF IInv
<1>2. CASE DiskFault /\ pc' = AfterFlush(p) /\ UNCHANGED <<flusher, batch>>
  <2>0. /\ pc' \in [Procs -> Points] /\ faults' \in 0 .. MaxFaults
        /\ \A q \in Procs : pc'[q] = IF q # p THEN pc[q]
                                      ELSE IF p = "loop" THEN "checkin" ELSE "release"
    BY <1>2, BoundsAssumption DEF IInv, TypeOK, Points, DiskFault, AfterFlush
  <2>1. TypeOK'
    BY Zenon, <1>2, <2>0 DEF IInv, FlushBegin, TypeOK
  <2>2. ControlInv'
    BY <1>2, <2>0 DEF IInv, FlushBegin, ControlInv
  <2>3. QueueInv'
    BY Zenon, QueueFrame DEF IInv, FlushBegin
  <2>4. RunInv'
    BY Zenon, <2>0 DEF IInv, FlushBegin, RunInv
  <2>5. CreatedInv' /\ HonestInv' /\ KeptInv'
    BY Zenon, <1>2, <2>0, CreatedFrame, HonestFrame, KeptFrame DEF IInv, FlushBegin
  <2> QED BY <2>1, <2>2, <2>3, <2>4, <2>5 DEF IInv
<1> QED BY <1>1, <1>2 DEF FlushBegin

LEMMA SubmitAnsweredStep == ASSUME IInv, SubmitAnswered PROVE IInv'
<1>0. PICK c \in Cmd : /\ batch[c] \in Results /\ Honest(c, batch[c])
                       /\ Complete(c, batch[c]) /\ sent' = c
  BY Zenon DEF IInv, TypeOK, HonestInv, SubmitAnswered, Oldest, Held
<1>1. TypeOK'
  BY Zenon, <1>0, CompleteRows DEF IInv, SubmitAnswered, TypeOK
<1>2. ControlInv'
  BY <1>0, ResultFacts DEF IInv, SubmitAnswered, Submitting, ControlInv
<1>3. QueueInv' /\ RunInv'
  BY Zenon, QueueFrame, RunFrame DEF IInv, SubmitAnswered
<1>4. CreatedInv'
  BY <1>0, CompleteRows, ResultFacts, CreatedFrame DEF IInv, SubmitAnswered
<1>5. HonestInv'
  <2>1. UNCHANGED <<outbox, batch, late, res, job, ledger, outcome>>
    BY DEF SubmitAnswered
  <2> QED BY <1>0, <2>1, CompleteHonest
<1>6. KeptInv'
  <2>1. \A d \in Cmd : status'[d] \in Open => status[d] \in Open
    BY <1>0, CompleteRows, ResultFacts DEF IInv
  <2>2. status'[c] \notin Open
    BY Zenon, <1>0, CompleteRows DEF IInv
  <2>3. \A p \in Procs : pc[p] = "complete" => job[p] \in Cmd
    BY Zenon DEF IInv, TypeOK, ControlInv
  <2> QED BY Zenon, <1>0, <2>1, <2>2, <2>3 DEF IInv, SubmitAnswered, KeptInv, NoResultDropped
<1> QED BY Zenon, <1>1, <1>2, <1>3, <1>4, <1>5, <1>6 DEF IInv

\* FlushResults returns: its goroutine goes on, the batch is gone.
LEMMA FlushReturnFacts ==
    ASSUME IInv, flusher # "none", FlushReturn, UNCHANGED <<job, res>>
    PROVE  /\ pc' \in [Procs -> Points]
           /\ \A p \in Procs : \/ pc'[p] = pc[p]
                               \/ /\ p = flusher /\ pc[p] = "flush"
                                  /\ pc'[p] = IF p = "loop" THEN "checkin" ELSE "release"
           /\ batch' \in [Cmd -> Results \cup {NoResult}]
           /\ \A c \in Cmd : batch'[c] = NoResult
           /\ flusher' = "none" /\ sent' = NoCmd
           /\ ControlInv'
<1>1. flusher \in Procs /\ pc[flusher] = "flush"
  BY Zenon DEF IInv, TypeOK, ControlInv
<1>2. pc' = [pc EXCEPT ![flusher] = IF flusher = "loop" THEN "checkin" ELSE "release"]
  BY DEF FlushReturn, AfterFlush
<1>3. pc' \in [Procs -> Points]
  BY Zenon, <1>1, <1>2 DEF IInv, TypeOK, Points
<1>4. \A p \in Procs : \/ pc'[p] = pc[p]
                       \/ /\ p = flusher /\ pc[p] = "flush"
                          /\ pc'[p] = IF p = "loop" THEN "checkin" ELSE "release"
  BY Zenon, <1>1, <1>2 DEF IInv, TypeOK
<1>5. /\ batch' \in [Cmd -> Results \cup {NoResult}] /\ \A c \in Cmd : batch'[c] = NoResult
      /\ flusher' = "none" /\ sent' = NoCmd
  BY Zenon DEF FlushReturn, EmptyBox
<1>6. ControlInv'
  BY <1>4, <1>5 DEF IInv, ControlInv
<1> QED BY Zenon, <1>3, <1>4, <1>5, <1>6

LEMMA FlushEnds ==
    ASSUME IInv, flusher # "none", FlushReturn, faults' \in 0 .. MaxFaults,
           UNCHANGED <<serverVars, diskVars, job, res, queueVars, resp, historyVars>>
    PROVE  IInv'
<1>1. TypeOK'
  BY Zenon, FlushReturnFacts DEF IInv, TypeOK
<1>2. ControlInv'
  BY Zenon, FlushReturnFacts
<1>3. QueueInv'
  BY QueueFrame DEF IInv
<1>4. RunInv'
  BY Zenon, FlushReturnFacts DEF IInv, RunInv
<1>5. CreatedInv' /\ HonestInv'
  BY Zenon, FlushReturnFacts, CreatedFrame, HonestFrame DEF IInv
<1>6. KeptInv'
  BY FlushReturnFacts, KeptFrame DEF IInv
<1> QED BY Zenon, <1>1, <1>2, <1>3, <1>4, <1>5, <1>6 DEF IInv

LEMMA SubmitFailedStep == ASSUME IInv, SubmitFailed PROVE IInv'
<1>0. flusher # "none" /\ FlushReturn /\ faults' \in 0 .. MaxFaults
  BY Zenon DEF IInv, TypeOK, SubmitFailed, Submitting
<1>1. CASE UNCHANGED serverVars
  BY Zenon, <1>0, <1>1, FlushEnds DEF SubmitFailed
<1>2. ASSUME NEW c \in Cmd, batch[c] # NoResult, GiveUp(c, batch[c])
      PROVE  IInv'
  <2>0. /\ late' = late \cup {<<c, batch[c]>>} /\ UNCHANGED <<status, stored, lapsed>>
        /\ batch[c] \in Results /\ Honest(c, batch[c]) /\ status[c] # "none"
    BY Zenon, <1>2 DEF IInv, TypeOK, GiveUp, HonestInv, CreatedInv
  <2>1. TypeOK'
    <3>1. late' \subseteq Cmd \X (Results \cup {NoResult})
      BY <2>0 DEF IInv, TypeOK
    <3>2. UNCHANGED <<diskVars, job, res, queueVars, resp, historyVars, faults>>
      BY DEF SubmitFailed
    <3> QED BY Zenon, <1>0, <2>0, <3>1, <3>2, FlushReturnFacts DEF IInv, TypeOK
  <2>2. ControlInv'
    BY Zenon, <1>0, FlushReturnFacts DEF SubmitFailed
  <2>3. QueueInv'
    BY QueueFrame DEF IInv, SubmitFailed
  <2>4. RunInv'
    BY Zenon, <1>0, FlushReturnFacts DEF IInv, RunInv, SubmitFailed
  <2>5. CreatedInv'
    BY Zenon, <1>0, <2>0, FlushReturnFacts DEF IInv, CreatedInv, SubmitFailed
  <2>6. HonestInv'
    BY Zenon, <1>0, <2>0, FlushReturnFacts DEF IInv, HonestInv, Honest, SubmitFailed
  <2>7. KeptInv'
    BY Zenon, <1>0, <2>0, FlushReturnFacts, KeptFrame DEF IInv, SubmitFailed
  <2> QED BY Zenon, <2>1, <2>2, <2>3, <2>4, <2>5, <2>6, <2>7 DEF IInv
<1> QED BY <1>1, <1>2 DEF SubmitFailed, Oldest, Held

LEMMA DeleteResultStep == ASSUME IInv, DeleteResult PROVE IInv'
<1>0. sent \in Cmd /\ flusher # "none" /\ status[sent] \notin Open
  BY Zenon DEF IInv, TypeOK, ControlInv, KeptInv, DeleteResult
<1>1. CASE DiskFault /\ FlushReturn /\ UNCHANGED outbox
  <2>1. faults' \in 0 .. MaxFaults
    BY <1>1, BoundsAssumption DEF IInv, TypeOK, DiskFault
  <2> QED BY <1>0, <1>1, <2>1, FlushEnds DEF DeleteResult
<1>2. CASE /\ outbox' = [outbox EXCEPT ![sent] = NoResult]
           /\ batch' = [batch EXCEPT ![sent] = NoResult]
           /\ sent' = NoCmd
           /\ UNCHANGED <<pc, flusher, faults>>
  <2>0. \A c \in Cmd : /\ outbox'[c] = IF c = sent THEN NoResult ELSE outbox[c]
                       /\ batch'[c] = IF c = sent THEN NoResult ELSE batch[c]
    BY <1>0, <1>2 DEF IInv, TypeOK
  <2>1. TypeOK'
    BY Zenon, <1>2 DEF IInv, TypeOK, DeleteResult
  <2>2. ControlInv'
    BY <1>0, <1>2 DEF IInv, ControlInv, DeleteResult
  <2>3. QueueInv' /\ RunInv'
    BY Zenon, <1>2, QueueFrame, RunFrame DEF IInv, DeleteResult
  <2>4. CreatedInv'
    BY <2>0 DEF IInv, CreatedInv, DeleteResult
  <2>5. HonestInv'
    BY <2>0 DEF IInv, HonestInv, Honest, DeleteResult
  <2>6. KeptInv'
    <3>1. \A p \in Procs : pc[p] = "complete" => job[p] \in Cmd
      BY DEF IInv, TypeOK, ControlInv
    <3> QED BY <1>0, <1>2, <2>0, <3>1 DEF IInv, KeptInv, NoResultDropped, DeleteResult
  <2> QED BY Zenon, <2>1, <2>2, <2>3, <2>4, <2>5, <2>6 DEF IInv
<1> QED BY Zenon, <1>1, <1>2 DEF DeleteResult

LEMMA FlushDoneStep == ASSUME IInv, FlushDone PROVE IInv'
<1>1. faults' \in 0 .. MaxFaults
  BY Zenon DEF IInv, TypeOK, FlushDone
<1> QED BY <1>1, FlushEnds DEF FlushDone

-------------------------------------------------------------------------------
(* finish. *)

\* finish returns: the other goroutine is as it was, this one goes on.
LEMMA FinishFacts ==
    ASSUME IInv, NEW p \in Procs, pc[p] \in {"queue", "complete"}, FinishReturn(p),
           UNCHANGED flushVars
    PROVE  /\ pc' \in [Procs -> Points]
           /\ res' \in [Procs -> Results \cup {NoResult}]
           /\ job' \in [Procs -> Cmd \cup {NoCmd}]
           /\ \A q \in Procs : q # p => pc'[q] = pc[q] /\ res'[q] = res[q] /\ job'[q] = job[q]
           /\ res'[p] = NoResult /\ pc'[p] \in {"enqueue", "release", "flush"}
           /\ p = "loop" => job'[p] = NoCmd
           /\ p = "worker" => job'[p] = job[p]
           /\ ControlInv'
<1>1. /\ res' \in [Procs -> Results \cup {NoResult}]
      /\ \A q \in Procs : res'[q] = IF q = p THEN NoResult ELSE res[q]
  BY Zenon DEF IInv, TypeOK, FinishReturn
<1>2. /\ job' \in [Procs -> Cmd \cup {NoCmd}]
      /\ \A q \in Procs : job'[q] = IF q = p /\ p = "loop" THEN NoCmd ELSE job[q]
  BY Zenon DEF IInv, TypeOK, FinishReturn
<1>3. PICK next \in {"enqueue", "release", "flush"} :
        /\ pc' = [pc EXCEPT ![p] = next]
        /\ (p = "loop") <=> (next = "enqueue")
  BY Zenon DEF FinishReturn
<1>4. /\ pc' \in [Procs -> Points]
      /\ \A q \in Procs : pc'[q] = IF q = p THEN next ELSE pc[q]
  BY Zenon, <1>3 DEF IInv, TypeOK, Points
<1>5. ControlInv'
  <2>1. flusher # p
    BY DEF IInv, ControlInv
  <2>2. CASE p = "loop"
    BY <1>1, <1>2, <1>3, <1>4, <2>1, <2>2 DEF IInv, ControlInv
  <2>3. CASE p = "worker"
    BY <1>1, <1>2, <1>3, <1>4, <2>1, <2>3 DEF IInv, ControlInv
  <2> QED BY <2>2, <2>3
<1> QED BY Zenon, <1>1, <1>2, <1>3, <1>4, <1>5

\* The command finish is called for has begun.
LEMMA FinishJob ==
    ASSUME IInv, NEW p \in Procs, pc[p] \in {"queue", "complete"}
    PROVE  /\ job[p] \in Cmd /\ res[p] \in Results /\ Honest(job[p], res[p])
           /\ ledger[job[p]] # "none" /\ status[job[p]] # "none"
<1>1. job[p] \in Cmd /\ res[p] \in Results
  BY Zenon DEF IInv, TypeOK, ControlInv
<1>2. Honest(job[p], res[p])
  BY Zenon, <1>1, ResultFacts DEF IInv, HonestInv
<1> QED BY <1>1, <1>2 DEF Honest, IInv, CreatedInv

LEMMA QueueResultStep == ASSUME IInv, NEW p \in Procs, QueueResult(p) PROVE IInv'
<1>0. pc[p] = "queue"
  BY Zenon DEF QueueResult
<1>1. CASE DiskFault /\ FinishReturn(p) /\ UNCHANGED outbox
  <2>0. faults' \in 0 .. MaxFaults
    BY <1>1, BoundsAssumption DEF IInv, TypeOK, DiskFault
  <2>1. TypeOK'
    BY Zenon, <1>0, <1>1, <2>0, FinishFacts DEF IInv, TypeOK, QueueResult
  <2>2. ControlInv'
    BY Zenon, <1>0, <1>1, FinishFacts DEF QueueResult
  <2>3. QueueInv'
    BY <1>0, <1>1, FinishFacts DEF IInv, QueueInv, QueueResult
  <2>4. RunInv'
    BY <1>0, <1>1, FinishFacts DEF IInv, RunInv, QueueResult
  <2>5. CreatedInv' /\ HonestInv'
    BY Zenon, <1>0, <1>1, FinishFacts, CreatedFrame, HonestFrame DEF IInv, QueueResult
  <2>6. KeptInv'
    BY <1>0, <1>1, FinishFacts, KeptFrame DEF IInv, QueueResult
  <2> QED BY Zenon, <2>1, <2>2, <2>3, <2>4, <2>5, <2>6 DEF IInv
<1>2. CASE /\ outbox' = [outbox EXCEPT ![job[p]] = res[p]]
           /\ pc' = [pc EXCEPT ![p] = "complete"]
           /\ UNCHANGED <<job, res, faults>>
  <2>0. /\ job[p] \in Cmd /\ res[p] \in Results /\ Honest(job[p], res[p])
        /\ ledger[job[p]] # "none" /\ status[job[p]] # "none"
    BY <1>0, FinishJob
  <2>a. \A c \in Cmd : outbox'[c] = IF c = job[p] THEN res[p] ELSE outbox[c]
    BY <1>2, <2>0 DEF IInv, TypeOK
  <2>b. \A q \in Procs : pc'[q] = IF q = p THEN "complete" ELSE pc[q]
    BY Zenon, <1>2 DEF IInv, TypeOK
  <2>1. TypeOK'
    BY Zenon, <1>2, <2>0 DEF IInv, TypeOK, Points, QueueResult
  <2>2. ControlInv'
    BY <1>0, <1>2, <2>b DEF IInv, ControlInv, QueueResult
  <2>3. QueueInv'
    BY Zenon, <1>2, QueueFrame DEF IInv, QueueResult
  <2>4. RunInv'
    BY <1>0, <1>2, <2>b DEF IInv, RunInv, QueueResult
  <2>5. CreatedInv'
    BY Zenon, <2>0, <2>a DEF IInv, CreatedInv, QueueResult
  <2>6. HonestInv'
    BY <1>2, <2>0, <2>a DEF IInv, HonestInv, Honest, QueueResult
  <2>7. KeptInv'
    BY <1>2, <2>0, <2>a, <2>b, ResultFacts DEF IInv, KeptInv, NoResultDropped, QueueResult
  <2> QED BY <2>1, <2>2, <2>3, <2>4, <2>5, <2>6, <2>7 DEF IInv
<1> QED BY <1>1, <1>2 DEF QueueResult

LEMMA MarkCompletedStep == ASSUME IInv, NEW p \in Procs, MarkCompleted(p) PROVE IInv'
<1>0. /\ pc[p] = "complete" /\ FinishReturn(p) /\ UNCHANGED flushVars
      /\ job[p] \in Cmd /\ ledger[job[p]] # "none" /\ status[job[p]] # "none"
  BY FinishJob DEF MarkCompleted
<1>a. \A c \in Cmd : /\ (ledger'[c] = "none") <=> (ledger[c] = "none")
                     /\ c # job[p] => ledger'[c] = ledger[c]
  BY <1>0 DEF IInv, TypeOK, MarkCompleted
<1>1. TypeOK'
  <2>1. ledger' \in [Cmd -> {"none", "started", "completed"}]
    BY Zenon, <1>0 DEF IInv, TypeOK, MarkCompleted
  <2>2. faults' \in 0 .. MaxFaults
    BY BoundsAssumption DEF IInv, TypeOK, DiskFault, MarkCompleted
  <2> QED BY Zenon, <1>0, <2>1, <2>2, FinishFacts DEF IInv, TypeOK, MarkCompleted
<1>2. ControlInv'
  BY Zenon, <1>0, FinishFacts
<1>3. QueueInv'
  <2>1. \A i \in 1 .. Len(work) : work[i] \in Cmd
    BY DEF IInv, TypeOK
  <2>2. \A q \in Procs : job'[q] = job[q] \/ (q = "loop" /\ job'[q] = NoCmd)
    BY Zenon, <1>0, FinishFacts
  <2>3. job["loop"] # NoCmd => job["loop"] \in Cmd
    BY Zenon DEF IInv, TypeOK
  <2> QED BY <1>0, <1>a, <2>1, <2>2, <2>3 DEF IInv, QueueInv, MarkCompleted
<1>4. RunInv'
  <2>1. job'["worker"] = job["worker"]
    BY <1>0, FinishFacts
  <2>2. pc'["worker"] = pc["worker"] \/ pc'["worker"] \in {"enqueue", "release", "flush"}
    BY Zenon, <1>0, FinishFacts
  <2>3. pc["worker"] # "idle" => job["worker"] \in Cmd
    BY DEF IInv, TypeOK, ControlInv
  <2> QED BY <1>a, <2>1, <2>2, <2>3 DEF IInv, RunInv, MarkCompleted
<1>5. CreatedInv'
  BY <1>a DEF IInv, CreatedInv, MarkCompleted
<1>6. HonestInv'
  <2>1. \A q \in Procs : res'[q] # NoResult =>
          res'[q] = res[q] /\ job'[q] = job[q] /\ job[q] \in Cmd
    BY <1>0, FinishFacts DEF IInv, TypeOK, ControlInv
  <2> QED BY <1>a, <2>1 DEF IInv, HonestInv, Honest, MarkCompleted
<1>7. KeptInv'
  <2>1. \A q \in Procs : pc'[q] = "complete" => pc[q] = "complete" /\ job'[q] = job[q]
    BY <1>0, FinishFacts
  <2>2. status[job[p]] \in Open => outbox[job[p]] # NoResult
    BY Zenon, <1>0 DEF IInv, KeptInv
  <2> QED BY <1>0, <1>a, <2>1, <2>2 DEF IInv, KeptInv, NoResultDropped, MarkCompleted
<1> QED BY Zenon, <1>1, <1>2, <1>3, <1>4, <1>5, <1>6, <1>7 DEF IInv

-------------------------------------------------------------------------------
(* The check-in loop. *)

LEMMA LoopMove ==
    ASSUME IInv, NEW next \in {"idle", "flush", "enqueue"},
           pc["loop"] \in {"idle", "checkin", "enqueue"},
           pc' = [pc EXCEPT !["loop"] = next],
           UNCHANGED <<diskVars, job, res, queueVars, flushVars, historyVars>>
    PROVE  /\ pc' \in [Procs -> Points]
           /\ \A p \in Procs : pc'[p] = "complete" => pc[p] = "complete"
           /\ ControlInv' /\ QueueInv' /\ RunInv'
<1>1. pc'["loop"] = next /\ pc'["worker"] = pc["worker"]
  BY Zenon DEF IInv, TypeOK
<1>2. pc' \in [Procs -> Points]
  BY Zenon DEF IInv, TypeOK, Points
<1>3. ControlInv'
  BY <1>1 DEF IInv, ControlInv
<1>4. QueueInv' /\ RunInv'
  BY Zenon, <1>1, QueueFrame, RunFrame DEF IInv
<1> QED BY Zenon, <1>1, <1>2, <1>3, <1>4

LEMMA BeginCheckinStep == ASSUME IInv, BeginCheckin PROVE IInv'
<1>1. /\ pc' \in [Procs -> Points]
      /\ \A p \in Procs : pc'[p] = "complete" => pc[p] = "complete"
      /\ ControlInv' /\ QueueInv' /\ RunInv'
  BY LoopMove DEF BeginCheckin
<1>2. TypeOK'
  BY Zenon, <1>1 DEF IInv, TypeOK, BeginCheckin
<1>3. CreatedInv' /\ HonestInv' /\ KeptInv'
  BY Zenon, <1>1, CreatedFrame, HonestFrame, KeptFrame DEF IInv, BeginCheckin
<1> QED BY Zenon, <1>1, <1>2, <1>3 DEF IInv

LEMMA EndCheckinStep == ASSUME IInv, EndCheckin PROVE IInv'
<1>1. /\ pc' \in [Procs -> Points]
      /\ \A p \in Procs : pc'[p] = "complete" => pc[p] = "complete"
      /\ ControlInv' /\ QueueInv' /\ RunInv'
  BY LoopMove DEF EndCheckin
<1>2. TypeOK'
  BY Zenon, <1>1 DEF IInv, TypeOK, EndCheckin
<1>3. CreatedInv' /\ HonestInv' /\ KeptInv'
  BY Zenon, <1>1, CreatedFrame, HonestFrame, KeptFrame DEF IInv, EndCheckin
<1> QED BY Zenon, <1>1, <1>2, <1>3 DEF IInv

\* A check-in the server handled, whether or not the answer gets back.
LEMMA DeliverRows ==
    ASSUME IInv, Deliver \/ UNCHANGED serverVars
    PROVE  /\ status' \in [Cmd -> Statuses]
           /\ \A d \in Cmd : /\ status[d] \notin Open => status'[d] = status[d]
                             /\ status'[d] = "none" => status[d] = "none"
           /\ UNCHANGED <<stored, lapsed, late>>
<1>1. CASE Deliver
  BY <1>1, BulkRows DEF IInv, Deliver
<1>2. CASE UNCHANGED serverVars
  BY <1>2 DEF IInv, TypeOK
<1> QED BY <1>1, <1>2

LEMMA CheckinAnsweredStep == ASSUME IInv, CheckinAnswered PROVE IInv'
<1>0. Deliver
  BY Zenon DEF CheckinAnswered
<1>1. /\ pc' \in [Procs -> Points]
      /\ \A p \in Procs : pc'[p] = "complete" => pc[p] = "complete"
      /\ ControlInv' /\ QueueInv' /\ RunInv'
  BY Zenon, LoopMove DEF CheckinAnswered
<1>2. resp' \subseteq Cmd /\ \A c \in resp' : status[c] \in Open
  BY Zenon DEF CheckinAnswered, PendingCommands, ExpireCommands, Open
<1>3. TypeOK'
  BY Zenon, <1>0, <1>1, <1>2, DeliverRows DEF IInv, TypeOK, CheckinAnswered
<1>4. CreatedInv'
  BY Zenon, <1>0, <1>2, DeliverRows, CreatedFrame DEF IInv, CheckinAnswered, Open
<1>5. HonestInv'
  BY Zenon, <1>0, DeliverRows, StoredNotOpen, HonestFrame DEF IInv, CheckinAnswered
<1>6. KeptInv'
  BY Zenon, <1>0, <1>1, DeliverRows, KeptFrame DEF IInv, CheckinAnswered
<1> QED BY Zenon, <1>1, <1>3, <1>4, <1>5, <1>6 DEF IInv

LEMMA CheckinFailedStep == ASSUME IInv, CheckinFailed PROVE IInv'
<1>0. Deliver \/ UNCHANGED serverVars
  BY Zenon DEF CheckinFailed
<1>1. /\ pc' \in [Procs -> Points]
      /\ \A p \in Procs : pc'[p] = "complete" => pc[p] = "complete"
      /\ ControlInv' /\ QueueInv' /\ RunInv'
  BY Zenon, LoopMove DEF CheckinFailed
<1>2. TypeOK'
  BY Zenon, <1>0, <1>1, DeliverRows DEF IInv, TypeOK, CheckinFailed
<1>3. CreatedInv'
  BY Zenon, <1>0, DeliverRows, CreatedFrame DEF IInv, CheckinFailed
<1>4. HonestInv'
  BY <1>0, DeliverRows, StoredNotOpen, HonestFrame DEF IInv, CheckinFailed
<1>5. KeptInv'
  BY Zenon, <1>0, <1>1, DeliverRows, KeptFrame DEF IInv, CheckinFailed
<1> QED BY <1>1, <1>2, <1>3, <1>4, <1>5 DEF IInv

LEMMA EnqueueSkipStep ==
    ASSUME IInv, Enqueue, NEW c \in resp, EnqueueSkip(c), resp' = resp \ {c}
    PROVE  IInv'
<1>1. faults' \in 0 .. MaxFaults
  BY BoundsAssumption DEF IInv, TypeOK, DiskFault, EnqueueSkip
<1>2. UNCHANGED <<serverVars, diskVars, flushVars, historyVars, pc, job, res, queueVars>>
  BY Zenon DEF Enqueue, EnqueueSkip
<1>3. TypeOK'
  BY Zenon, <1>1, <1>2 DEF IInv, TypeOK
<1>4. ControlInv' /\ QueueInv' /\ RunInv'
  BY Zenon, <1>2, ControlFrame, QueueFrame, RunFrame DEF IInv
<1>5. CreatedInv' /\ HonestInv' /\ KeptInv'
  BY Zenon, <1>2, CreatedFrame, HonestFrame, KeptFrame DEF IInv
<1> QED BY <1>3, <1>4, <1>5 DEF IInv

LEMMA EnqueueRestartedStep ==
    ASSUME IInv, Enqueue, NEW c \in resp, EnqueueRestarted(c), resp' = resp \ {c}
    PROVE  IInv'
<1>0. c \in Cmd /\ c \notin inflight /\ ledger[c] = "started" /\ pc["loop"] = "enqueue"
  BY DEF IInv, TypeOK, Enqueue, EnqueueRestarted
<1>1. UNCHANGED <<serverVars, diskVars, flushVars, historyVars, queueVars, faults>>
  BY Zenon DEF Enqueue, EnqueueRestarted
<1>2. /\ pc' \in [Procs -> Points] /\ job' \in [Procs -> Cmd \cup {NoCmd}]
      /\ res' \in [Procs -> Results \cup {NoResult}]
  BY Zenon, <1>0, ResultFacts DEF IInv, TypeOK, Points, EnqueueRestarted
<1>3. \A p \in Procs : /\ pc'[p] = IF p = "loop" THEN "queue" ELSE pc[p]
                       /\ job'[p] = IF p = "loop" THEN c ELSE job[p]
                       /\ res'[p] = IF p = "loop" THEN RestartResult ELSE res[p]
  BY DEF IInv, TypeOK, EnqueueRestarted
<1>4. TypeOK'
  BY Zenon, <1>1, <1>2 DEF IInv, TypeOK
<1>5. ControlInv'
  BY <1>0, <1>1, <1>3, ResultFacts, CmdFacts DEF IInv, ControlInv
<1>6. QueueInv'
  BY <1>0, <1>1, <1>3 DEF IInv, QueueInv
<1>7. RunInv'
  BY <1>1, <1>3, RunFrame DEF IInv
<1>8. CreatedInv'
  BY Zenon, <1>1, CreatedFrame DEF IInv
<1>9. HonestInv'
  <2>1. \A p \in Procs : res'[p] # NoResult =>
          /\ res'[p].by \in {"run", "panic"} => res'[p] = outcome[job'[p]]
          /\ ledger[job'[p]] # "none"
    BY <1>0, <1>3, ResultFacts DEF IInv, HonestInv, Honest
  <2> QED BY Zenon, <1>1, <2>1 DEF IInv, HonestInv, Honest
<1>10. KeptInv'
  BY Zenon, <1>1, <1>3, KeptFrame DEF IInv
<1> QED BY Zenon, <1>4, <1>5, <1>6, <1>7, <1>8, <1>9, <1>10 DEF IInv

LEMMA EnqueuePushStep ==
    ASSUME IInv, Enqueue, NEW c \in resp, EnqueuePush(c), resp' = resp \ {c}
    PROVE  IInv'
<1>0. /\ c \in Cmd /\ c \notin inflight /\ ledger[c] = "none" /\ status[c] # "none"
      /\ work' = Append(work, c) /\ inflight' = inflight \cup {c}
  BY DEF IInv, TypeOK, CreatedInv, EnqueuePush
<1>1. UNCHANGED <<serverVars, diskVars, flushVars, historyVars, pc, job, res, faults>>
  BY Zenon DEF Enqueue, EnqueuePush
<1>2. TypeOK'
  BY <1>0, <1>1, QueueCapAssumption DEF IInv, TypeOK, EnqueuePush
<1>3. ControlInv' /\ RunInv'
  BY <1>1, ControlFrame, RunFrame DEF IInv
<1>4. QueueInv'
  <2>1. /\ Len(work') = Len(work) + 1 /\ Len(work) \in Nat
        /\ work'[Len(work) + 1] = c
        /\ \A i \in 1 .. Len(work) : work'[i] = work[i] /\ work[i] \in inflight
    BY <1>0 DEF IInv, TypeOK, QueueInv
  <2>2. \A i \in 1 .. Len(work') : i \in 1 .. Len(work) \/ i = Len(work) + 1
    BY <2>1
  <2>3. c # job["worker"] /\ job["loop"] = NoCmd
    BY <1>0, CmdFacts DEF IInv, QueueInv, ControlInv, Enqueue
  <2>4. \A i \in 1 .. Len(work') :
          work'[i] \in inflight' /\ ledger[work'[i]] = "none" /\ work'[i] # job["worker"]
    BY <1>0, <2>1, <2>2, <2>3 DEF IInv, QueueInv
  <2>5. \A i, j \in 1 .. Len(work') : work'[i] = work'[j] => i = j
    BY <1>0, <2>1, <2>2 DEF IInv, QueueInv
  <2> QED BY Zenon, <1>0, <1>1, <2>3, <2>4, <2>5 DEF IInv, QueueInv
<1>5. CreatedInv'
  BY <1>0, <1>1 DEF IInv, CreatedInv
<1>6. HonestInv' /\ KeptInv'
  BY Zenon, <1>1, HonestFrame, KeptFrame DEF IInv
<1> QED BY Zenon, <1>2, <1>3, <1>4, <1>5, <1>6 DEF IInv

LEMMA EnqueueStep == ASSUME IInv, Enqueue PROVE IInv'
BY Zenon, EnqueueSkipStep, EnqueueRestartedStep, EnqueuePushStep DEF Enqueue, Oldest

-------------------------------------------------------------------------------
(* The worker. *)

LEMMA TakeStep == ASSUME IInv, Take PROVE IInv'
<1>0. /\ work \in Seq(Cmd) /\ work # <<>> /\ Head(work) = work[1] /\ work[1] \in Cmd
      /\ Len(work') = Len(work) - 1 /\ Len(work) \in Nat
      /\ \A i \in 1 .. Len(work') : work'[i] = work[i + 1]
  BY DEF IInv, TypeOK, Take
<1>1. \A p \in Procs : /\ pc'[p] = IF p = "worker" THEN "mark" ELSE pc[p]
                       /\ job'[p] = IF p = "worker" THEN work[1] ELSE job[p]
  BY Zenon, <1>0 DEF IInv, TypeOK, Take
<1>2. TypeOK'
  BY <1>0, QueueCapAssumption DEF IInv, TypeOK, Points, Take
<1>3. ControlInv'
  BY <1>0, <1>1, CmdFacts DEF IInv, ControlInv, Take
<1>4. 1 \in 1 .. Len(work) /\ \A i \in 1 .. Len(work') : i + 1 \in 1 .. Len(work) /\ i + 1 # 1
  BY <1>0
<1>5. QueueInv'
  <2>1. UNCHANGED <<ledger, inflight>> /\ job'["worker"] = work[1] /\ job'["loop"] = job["loop"]
    BY <1>1 DEF Take
  <2>2. \A i \in 1 .. Len(work') : work'[i] \in inflight /\ ledger[work'[i]] = "none"
    BY <1>0, <1>4 DEF IInv, QueueInv
  <2>3. \A i \in 1 .. Len(work') : work'[i] # work[1]
    BY <1>0, <1>4 DEF IInv, QueueInv
  <2>4. ASSUME NEW i \in 1 .. Len(work'), NEW j \in 1 .. Len(work'), work'[i] = work'[j]
        PROVE  i = j
    <3>1. i + 1 \in 1 .. Len(work) /\ j + 1 \in 1 .. Len(work) /\ work[i + 1] = work[j + 1]
      BY Zenon, <1>0, <1>4, <2>4
    <3>2. i + 1 = j + 1
      BY Zenon, <3>1 DEF IInv, QueueInv
    <3> QED BY <3>2
  <2>5. work[1] \in inflight
    BY Zenon, <1>4 DEF IInv, QueueInv
  <2> QED BY Zenon, <2>1, <2>2, <2>3, <2>4, <2>5 DEF IInv, QueueInv
<1>6. RunInv'
  BY <1>0, <1>1, <1>4 DEF IInv, RunInv, QueueInv, Take
<1>7. CreatedInv'
  BY CreatedFrame DEF IInv, Take
<1>8. HonestInv'
  BY <1>1, HonestFrame DEF IInv, ControlInv, Take
<1>9. KeptInv'
  BY <1>1, KeptFrame DEF IInv, Take
<1> QED BY <1>2, <1>3, <1>5, <1>6, <1>7, <1>8, <1>9 DEF IInv

LEMMA WorkerMove ==
    ASSUME IInv, NEW next \in {"start", "execute", "running", "release"},
           pc["worker"] \in {"mark", "start", "execute"},
           pc' = [pc EXCEPT !["worker"] = next],
           UNCHANGED <<job, res, flushVars>>
    PROVE  /\ pc' \in [Procs -> Points] /\ pc'["worker"] = next
           /\ job["worker"] \in Cmd
           /\ \A p \in Procs : pc'[p] = "complete" => pc[p] = "complete"
           /\ \A p \in Procs : res[p] # NoResult => job[p] \in Cmd
           /\ ControlInv'
<1>1. pc' \in [Procs -> Points] /\ pc'["loop"] = pc["loop"] /\ pc'["worker"] = next
  BY Zenon DEF IInv, TypeOK, Points
<1>2. job["worker"] \in Cmd /\ \A p \in Procs : res[p] # NoResult => job[p] \in Cmd
  BY Zenon DEF IInv, TypeOK, ControlInv
<1>3. ControlInv'
  BY <1>1 DEF IInv, ControlInv
<1> QED BY Zenon, <1>1, <1>2, <1>3

LEMMA MarkStartedStep == ASSUME IInv, MarkStarted PROVE IInv'
<1>0. PICK next \in {"start", "release"} :
        /\ pc' = [pc EXCEPT !["worker"] = next]
        /\ next = "start" => ledger' = [ledger EXCEPT ![job["worker"]] =
                                          IF ledger[job["worker"]] = "none"
                                          THEN "started" ELSE ledger[job["worker"]]]
        /\ next = "release" => UNCHANGED ledger
  BY DEF MarkStarted
<1>1. /\ pc' \in [Procs -> Points] /\ pc'["worker"] = next
      /\ job["worker"] \in Cmd
      /\ \A p \in Procs : pc'[p] = "complete" => pc[p] = "complete"
      /\ \A p \in Procs : res[p] # NoResult => job[p] \in Cmd
      /\ ControlInv'
  BY Zenon, <1>0, WorkerMove DEF MarkStarted
<1>2. ledger[job["worker"]] = "none"
  BY DEF IInv, RunInv, MarkStarted
<1>3. /\ ledger' \in [Cmd -> {"none", "started", "completed"}]
      /\ \A c \in Cmd : c # job["worker"] => ledger'[c] = ledger[c]
      /\ next = "start" => ledger'[job["worker"]] = "started"
      /\ next = "release" => ledger'[job["worker"]] = ledger[job["worker"]]
  BY Zenon, <1>0, <1>1, <1>2 DEF IInv, TypeOK
<1>4. faults' \in 0 .. MaxFaults
  BY BoundsAssumption DEF IInv, TypeOK, DiskFault, MarkStarted
<1>5. TypeOK'
  BY Zenon, <1>1, <1>3, <1>4 DEF IInv, TypeOK, MarkStarted
<1>6. QueueInv'
  <2>1. \A i \in 1 .. Len(work) : work[i] \in Cmd /\ work[i] # job["worker"]
    BY Zenon DEF IInv, TypeOK, QueueInv
  <2>2. job["loop"] # NoCmd => job["loop"] \in Cmd /\ job["loop"] # job["worker"]
    BY Zenon, <1>1, CmdFacts DEF IInv, TypeOK, QueueInv
  <2>3. UNCHANGED <<work, inflight, job>>
    BY Zenon DEF MarkStarted
  <2>4. \A i \in 1 .. Len(work) : ledger'[work[i]] = "none"
    BY Zenon, <1>3, <2>1 DEF IInv, QueueInv
  <2>5. job["loop"] # NoCmd => ledger'[job["loop"]] # "none"
    BY <1>3, <2>2 DEF IInv, QueueInv
  <2> QED BY <2>3, <2>4, <2>5 DEF IInv, QueueInv
<1>7. executed[job["worker"]] = 0
  <2>1. executed[job["worker"]] \in Nat /\ ~(executed[job["worker"]] > 0)
    BY <1>1, <1>2 DEF IInv, TypeOK, RunInv
  <2> QED BY <2>1
<1>8. RunInv'
  <2>1. UNCHANGED <<executed, outcome, job>>
    BY DEF MarkStarted
  <2>2. \A c \in Cmd : executed[c] > 0 => ledger'[c] # "none"
    BY <1>3, <1>7 DEF IInv, RunInv
  <2>3. pc'["worker"] = "start" => ledger'[job["worker"]] # "none"
    BY Zenon, <1>1, <1>3
  <2>4. pc'["worker"] \in {"start", "release"}
    BY Zenon, <1>1
  <2> QED BY Zenon, <1>7, <2>1, <2>2, <2>3, <2>4 DEF IInv, RunInv
<1>9. CreatedInv'
  <2>1. UNCHANGED <<status, inflight, resp, outbox, batch, late>>
    BY DEF MarkStarted
  <2>2. job["worker"] \in inflight
    BY <1>1, CmdFacts DEF IInv, QueueInv
  <2>3. \A c \in Cmd : status[c] = "none" => c # job["worker"]
    BY Zenon, <2>2 DEF IInv, CreatedInv
  <2> QED BY <1>3, <2>1, <2>3 DEF IInv, CreatedInv
<1>10. HonestInv'
  <2>1. UNCHANGED <<status, stored, late, outbox, batch, res, job, outcome>>
    BY Zenon DEF MarkStarted
  <2>2. \A c \in Cmd : ledger[c] # "none" => ledger'[c] # "none"
    BY Zenon, <1>2, <1>3
  <2>3. \A p \in Procs : res[p] # NoResult => ledger'[job[p]] # "none"
    BY <1>1, <2>2 DEF IInv, HonestInv, Honest
  <2> QED BY <2>1, <2>2, <2>3 DEF IInv, HonestInv, Honest
<1>11. KeptInv'
  BY <1>1, <1>2, <1>3 DEF IInv, KeptInv, NoResultDropped, MarkStarted
<1> QED BY Zenon, <1>1, <1>5, <1>6, <1>8, <1>9, <1>10, <1>11 DEF IInv

LEMMA StartCommandStep == ASSUME IInv, StartCommand PROVE IInv'
<1>1. /\ pc' \in [Procs -> Points] /\ pc'["worker"] = "execute"
      /\ job["worker"] \in Cmd
      /\ \A p \in Procs : pc'[p] = "complete" => pc[p] = "complete"
      /\ ControlInv'
  BY WorkerMove DEF StartCommand
<1>2. QueueInv'
  BY Zenon, QueueFrame DEF IInv, StartCommand
<1>3. RunInv'
  BY <1>1 DEF IInv, RunInv, StartCommand
<1>4. status[job["worker"]] # "none"
  BY Zenon, <1>1, CmdFacts DEF IInv, QueueInv, CreatedInv
<1>5. CASE Start(job["worker"]) /\ UNCHANGED late
  <2>1. TypeOK'
    BY Zenon, <1>1, <1>5, StartRows DEF IInv, TypeOK, StartCommand
  <2>2. CreatedInv'
    BY Zenon, <1>1, <1>5, StartRows, CreatedFrame DEF IInv, StartCommand
  <2>3. HonestInv'
    BY <1>1, <1>5, StartRows, StoredNotOpen, HonestFrame DEF IInv, StartCommand
  <2>4. KeptInv'
    BY <1>1, <1>5, StartRows, KeptFrame DEF IInv, StartCommand
  <2> QED BY <1>1, <1>2, <1>3, <2>1, <2>2, <2>3, <2>4 DEF IInv
<1>6. CASE UNCHANGED serverVars
  <2>1. TypeOK'
    BY Zenon, <1>1, <1>6 DEF IInv, TypeOK, StartCommand
  <2>2. CreatedInv' /\ HonestInv' /\ KeptInv'
    BY Zenon, <1>1, <1>6, CreatedFrame, HonestFrame, KeptFrame DEF IInv, StartCommand
  <2> QED BY Zenon, <1>1, <1>2, <1>3, <2>1, <2>2 DEF IInv
<1>7. CASE GiveUp(job["worker"], NoResult)
  <2>0. late' = late \cup {<<job["worker"], NoResult>>} /\ UNCHANGED <<status, stored, lapsed>>
    BY <1>7 DEF GiveUp
  <2>a. late' \subseteq Cmd \X (Results \cup {NoResult})
    BY <1>1, <2>0 DEF IInv, TypeOK
  <2>1. TypeOK'
    BY Zenon, <1>1, <2>0, <2>a DEF IInv, TypeOK, StartCommand
  <2>2. CreatedInv'
    BY Zenon, <1>4, <2>0 DEF IInv, CreatedInv, StartCommand
  <2>3. HonestInv'
    BY Zenon, <2>0, ResultFacts DEF IInv, HonestInv, Honest, StartCommand
  <2>4. KeptInv'
    BY Zenon, <1>1, <2>0, KeptFrame DEF IInv, StartCommand
  <2> QED BY <1>1, <1>2, <1>3, <2>1, <2>2, <2>3, <2>4 DEF IInv
<1> QED BY Zenon, <1>5, <1>6, <1>7 DEF StartCommand

LEMMA ExecuteStep == ASSUME IInv, Execute PROVE IInv'
<1>1. /\ pc' \in [Procs -> Points] /\ pc'["worker"] = "running"
      /\ job["worker"] \in Cmd
      /\ \A p \in Procs : pc'[p] = "complete" => pc[p] = "complete"
      /\ ControlInv'
  BY WorkerMove DEF Execute
<1>2. executed[job["worker"]] = 0 /\ ledger[job["worker"]] # "none"
  BY DEF IInv, RunInv, Execute
<1>3. /\ executed' \in [Cmd -> Nat]
      /\ \A c \in Cmd : executed'[c] = IF c = job["worker"] THEN 1 ELSE executed[c]
  <2>1. executed \in [Cmd -> Nat] /\ executed' = [executed EXCEPT ![job["worker"]] = @ + 1]
    BY Zenon DEF IInv, TypeOK, Execute
  <2> QED BY <1>1, <1>2, <2>1
<1>4. TypeOK'
  BY Zenon, <1>1, <1>3 DEF IInv, TypeOK, Execute
<1>5. QueueInv'
  BY QueueFrame DEF IInv, Execute
<1>6. RunInv'
  <2>1. UNCHANGED <<ledger, outcome, job>>
    BY Zenon DEF Execute
  <2>2. \A c \in Cmd : /\ executed'[c] > 0 => ledger[c] # "none"
                       /\ executed'[c] <= 1
                       /\ executed'[c] = 0 => outcome[c] = NoResult
    BY <1>1, <1>2, <1>3 DEF IInv, RunInv
  <2>3. executed'[job["worker"]] = 1 /\ outcome[job["worker"]] = NoResult
    BY <1>1, <1>2, <1>3 DEF IInv, RunInv
  <2> QED BY <1>1, <1>2, <2>1, <2>2, <2>3 DEF RunInv
<1>7. CreatedInv' /\ HonestInv' /\ KeptInv'
  BY <1>1, CreatedFrame, HonestFrame, KeptFrame DEF IInv, Execute
<1> QED BY Zenon, <1>1, <1>4, <1>5, <1>6, <1>7 DEF IInv

LEMMA ExecuteReturnStep == ASSUME IInv, ExecuteReturn PROVE IInv'
<1>0. PICK r \in Results : /\ res' = [res EXCEPT !["worker"] = r]
                           /\ outcome' = [outcome EXCEPT ![job["worker"]] = r]
  BY Zenon, ResultFacts DEF ExecuteReturn
<1>a. pc["worker"] = "running" /\ pc' = [pc EXCEPT !["worker"] = "queue"]
  BY DEF ExecuteReturn
<1>b. UNCHANGED <<serverVars, diskVars, job, queueVars, resp, flushVars, executed, crashes,
                  faults>>
  BY Zenon DEF ExecuteReturn
<1>1. /\ job["worker"] \in Cmd /\ ledger[job["worker"]] # "none"
      /\ executed[job["worker"]] = 1 /\ outcome[job["worker"]] = NoResult
  BY Zenon, <1>a DEF IInv, TypeOK, ControlInv, RunInv
<1>2. \A p \in Procs : /\ pc'[p] = IF p = "worker" THEN "queue" ELSE pc[p]
                       /\ res'[p] = IF p = "worker" THEN r ELSE res[p]
  BY <1>0, <1>a DEF IInv, TypeOK
<1>3. \A c \in Cmd : outcome'[c] = IF c = job["worker"] THEN r ELSE outcome[c]
  BY <1>0, <1>1 DEF IInv, TypeOK
<1>4. TypeOK'
  <2>1. pc' \in [Procs -> Points]
    BY <1>a DEF IInv, TypeOK, Points
  <2>2. res' \in [Procs -> Results \cup {NoResult}] /\ outcome' \in [Cmd -> Results \cup {NoResult}]
    BY Zenon, <1>0, <1>1 DEF IInv, TypeOK
  <2> QED BY <1>b, <2>1, <2>2 DEF IInv, TypeOK
<1>5. ControlInv'
  <2>1. /\ pc'["worker"] = "queue" /\ res'["worker"] = r /\ r # NoResult
        /\ pc'["loop"] = pc["loop"] /\ res'["loop"] = res["loop"]
    BY Zenon, <1>2, ResultFacts
  <2>2. UNCHANGED <<job, flusher, batch, sent>> /\ job["worker"] # NoCmd
    BY <1>b, <1>1, CmdFacts
  <2>3. flusher \in Procs => flusher # "worker"
    BY <1>a DEF IInv, ControlInv
  <2> QED BY <2>1, <2>2, <2>3 DEF IInv, ControlInv
<1>6. QueueInv'
  BY <1>b, QueueFrame DEF IInv
<1>7. RunInv'
  <2>1. pc'["worker"] = "queue" /\ UNCHANGED <<ledger, executed, job>>
    BY <1>b, <1>2
  <2>2. \A c \in Cmd : executed[c] = 0 => outcome'[c] = NoResult
    BY <1>1, <1>3 DEF IInv, RunInv
  <2> QED BY Zenon, <1>1, <2>1, <2>2 DEF IInv, RunInv
<1>8. CreatedInv'
  BY Zenon, <1>b, CreatedFrame DEF IInv
<1>9. HonestInv'
  \* No copy of a result of this run is about: its outcome was still NoResult.
  <2>1. \A c \in Cmd, x \in Results : Honest(c, x) =>
          (x.by \in {"run", "panic"} => x = outcome'[c]) /\ ledger'[c] # "none"
    BY Zenon, <1>b, <1>1, <1>3, ResultFacts DEF Honest
  <2>2. \A c \in Cmd : /\ outbox[c] \in Results \cup {NoResult}
                       /\ batch[c] \in Results \cup {NoResult}
                       /\ stored[c] \in Results \cup {NoResult}
    BY Zenon DEF IInv, TypeOK
  <2>3. \A p \in Procs : res'[p] # NoResult =>
          /\ res'[p].by \in {"run", "panic"} => res'[p] = outcome'[job[p]]
          /\ ledger'[job[p]] # "none"
    <3>1. res["loop"] # NoResult =>
            job["loop"] \in Cmd /\ res["loop"] \in Results /\ Honest(job["loop"], res["loop"])
      BY DEF IInv, TypeOK, ControlInv, HonestInv
    <3> QED BY <1>b, <1>1, <1>2, <1>3, <2>1, <3>1
  <2> QED BY <1>b, <2>1, <2>2, <2>3 DEF IInv, HonestInv, Honest
<1>10. KeptInv'
  BY Zenon, <1>b, <1>2, KeptFrame DEF IInv
<1> QED BY <1>4, <1>5, <1>6, <1>7, <1>8, <1>9, <1>10 DEF IInv

LEMMA ReleaseStep == ASSUME IInv, Release PROVE IInv'
<1>1. \A p \in Procs : /\ pc'[p] = IF p = "worker" THEN "idle" ELSE pc[p]
                       /\ job'[p] = IF p = "worker" THEN NoCmd ELSE job[p]
  BY Zenon DEF IInv, TypeOK, Release
<1>2. TypeOK'
  BY Zenon DEF IInv, TypeOK, Points, Release
<1>3. ControlInv'
  <2>1. pc["worker"] = "release" /\ UNCHANGED <<res, flushVars>>
    BY DEF Release
  <2> QED BY Zenon, <1>1, <2>1, CmdFacts DEF IInv, ControlInv
<1>4. QueueInv'
  BY <1>1, CmdFacts DEF IInv, TypeOK, QueueInv, Release
<1>5. RunInv'
  <2>1. pc'["worker"] = "idle" /\ UNCHANGED <<ledger, executed, outcome>>
    BY <1>1 DEF Release
  <2> QED BY Zenon, <2>1 DEF IInv, RunInv
<1>6. CreatedInv'
  BY Zenon, CreatedFrame DEF IInv, Release
<1>7. HonestInv'
  BY <1>1, HonestFrame DEF IInv, ControlInv, Release
<1>8. KeptInv'
  BY <1>1, KeptFrame DEF IInv, Release
<1> QED BY <1>2, <1>3, <1>4, <1>5, <1>6, <1>7, <1>8 DEF IInv

\* The agent is started again.  Nothing the invariant needs is in memory.
LEMMA CrashStep == ASSUME IInv, LongOutages = FALSE, Crash PROVE IInv'
<1>1. UNCHANGED ledger
  BY DEF IInv, TypeOK, Crash
<1>2. /\ \A p \in Procs : pc'[p] = "idle" /\ job'[p] = NoCmd /\ res'[p] = NoResult
      /\ \A c \in Cmd : batch'[c] = NoResult
      /\ batch' \in [Cmd -> Results \cup {NoResult}]
  BY DEF Crash, EmptyBox
<1>3. TypeOK'
  <2>1. /\ pc' \in [Procs -> Points] /\ job' \in [Procs -> Cmd \cup {NoCmd}]
        /\ res' \in [Procs -> Results \cup {NoResult}]
    BY Zenon DEF Crash, Points
  <2>2. work' \in Seq(Cmd) /\ Len(work') <= QueueCap
    BY QueueCapAssumption DEF Crash
  <2>3. crashes' \in 0 .. MaxCrashes
    BY BoundsAssumption DEF IInv, TypeOK, Crash
  <2>4. /\ inflight' = {} /\ resp' = {} /\ flusher' = "none" /\ sent' = NoCmd
        /\ UNCHANGED <<serverVars, outbox, executed, outcome, faults>>
    BY Zenon DEF Crash
  <2> QED BY Zenon, <1>1, <1>2, <2>1, <2>2, <2>3, <2>4 DEF IInv, TypeOK
<1>4. ControlInv' /\ QueueInv'
  <2>1. flusher' = "none" /\ sent' = NoCmd /\ work' = <<>>
    BY DEF Crash
  <2>2. ControlInv'
    BY Zenon, <1>2, <2>1 DEF ControlInv
  <2>3. QueueInv'
    BY <1>2, <2>1 DEF QueueInv
  <2> QED BY <2>2, <2>3
<1>5. RunInv'
  BY Zenon, <1>1, <1>2 DEF IInv, RunInv, Crash
<1>6. CreatedInv' /\ HonestInv' /\ KeptInv'
  BY Zenon, <1>1, <1>2, CreatedFrame, HonestFrame, KeptFrame DEF IInv, Crash
<1> QED BY <1>3, <1>4, <1>5, <1>6 DEF IInv

-------------------------------------------------------------------------------
(* The theorems. *)

\* IInv is inductive while no outage outlasts the ledger.
LEMMA NextStep ==
    ASSUME LongOutages = FALSE, IInv, [Next]_vars
    PROVE  IInv'
<1>1. CASE \E c \in Cmd : Queue(c) \/ Lapse(c) \/ Prune(c)
  BY <1>1, QueueStep, LapseStep, PruneStep
<1>2. CASE ExpireJob
  BY <1>2, ExpireJobStep
<1>3. CASE \E c \in Cmd, r \in Results \cup {NoResult} : Arrive(c, r)
  BY <1>3, ArriveStep
<1>4. CASE LoopStep
  BY <1>4, BeginCheckinStep, CheckinAnsweredStep, CheckinFailedStep, EnqueueStep,
     EndCheckinStep DEF LoopStep
<1>5. CASE WorkerStep
  BY <1>5, TakeStep, MarkStartedStep, StartCommandStep, ExecuteStep, ExecuteReturnStep,
     ReleaseStep DEF WorkerStep
<1>6. CASE FlushStep
  BY <1>6, SubmitAnsweredStep, SubmitFailedStep, DeleteResultStep, FlushDoneStep
     DEF FlushStep
<1>7. CASE \E p \in Procs : ProcStep(p)
  BY <1>7, FlushBeginStep, QueueResultStep, MarkCompletedStep DEF ProcStep
<1>8. CASE Crash
  BY Zenon, <1>8, CrashStep
<1>9. CASE UNCHANGED vars
  <2>1. TypeOK'
    BY <1>9 DEF vars, IInv, TypeOK
  <2>2. ControlInv' /\ QueueInv' /\ RunInv' /\ CreatedInv'
    BY Zenon, <1>9 DEF vars, IInv, ControlInv, QueueInv, RunInv, CreatedInv
  <2>3. HonestInv' /\ KeptInv'
    BY Zenon, <1>9 DEF vars, IInv, HonestInv, Honest, KeptInv, NoResultDropped
  <2> QED BY Zenon, <2>1, <2>2, <2>3 DEF IInv
<1> QED BY <1>1, <1>2, <1>3, <1>4, <1>5, <1>6, <1>7, <1>8, <1>9 DEF Next

\* Agent and server keep IInv at every step, for any number of commands, crashes,
\* bbolt failures and late requests, while no outage outlasts ledgerRetention.
THEOREM Invariance == ASSUME LongOutages = FALSE PROVE Spec => []IInv
<1>1. Init => IInv
  BY InitIInv
<1>2. IInv /\ [Next]_vars => IInv'
  BY Zenon, NextStep
<1> QED BY <1>1, <1>2, PTL DEF Spec

\* The executor is entered at most once for a command, however often it is
\* delivered and wherever the agent crashes (session.enqueue, state.MarkStarted).
THEOREM ExecutedAtMostOnce == ASSUME LongOutages = FALSE PROVE Spec => []AtMostOnce
<1>1. IInv => AtMostOnce
  BY Zenon DEF IInv, RunInv, AtMostOnce
<1> QED BY <1>1, Invariance, PTL

\* A command the ledger calls completed is settled on the server or has its
\* result in the agent's queue (session.finish, session.FlushResults).
THEOREM ResultsKept == ASSUME LongOutages = FALSE PROVE Spec => []NoResultDropped
<1>1. IInv => NoResultDropped
  BY DEF IInv, KeptInv
<1> QED BY <1>1, Invariance, PTL

\* A result on the server is the one Execute returned, or the restart notice of
\* a command that was begun, and agrees with the command's status
\* (commands.Complete).
THEOREM StoredResultsTrue == ASSUME LongOutages = FALSE PROVE Spec => []StoredIsTrue
<1>1. IInv => StoredIsTrue
  BY DEF IInv, HonestInv, Honest, StoredIsTrue
<1> QED BY <1>1, Invariance, PTL

\* The server's bulk updates leave a settled row alone.
LEMMA BulkKeepsSettled ==
    ASSUME TypeOK, NEW d \in Cmd, status[d] \notin Open
    PROVE  /\ ExpireCommands(status)[d] = status[d]
           /\ MarkCommandsDelivered(ExpireCommands(status))[d] = status[d]
BY Zenon DEF TypeOK, ExpireCommands, MarkCommandsDelivered, Open

\* No step changes a settled command but the one that deletes it
\* (commands.Complete, commands.Start, store.ExpireCommands).
THEOREM SettledIsFinal == ASSUME LongOutages = FALSE PROVE Spec => SettledStays
<1> DEFINE Same(d) == status'[d] = status[d] /\ stored'[d] = stored[d]
           Gone(d) == status'[d] = "pruned" /\ stored'[d] = NoResult
<1>1. ASSUME IInv, Next, NEW d \in Cmd, status[d] \in Terminal
      PROVE  Same(d) \/ Gone(d)
  <2> USE DEF IInv
  <2>0. status[d] \notin Open /\ status[d] # "none"
    BY Zenon, <1>1 DEF Terminal, Open, ResultStatuses
  <2>1. CASE \E c \in Cmd : Queue(c) \/ Lapse(c)
    BY <1>1, <2>0, <2>1 DEF TypeOK, Queue, Lapse
  <2>2. CASE \E c \in Cmd : Prune(c)
    BY <1>1, <2>2 DEF TypeOK, Prune
  <2>3. CASE ExpireJob
    BY <1>1, <2>0, <2>3, BulkKeepsSettled DEF ExpireJob
  <2>4. CASE \E c \in Cmd, r \in Results \cup {NoResult} : Arrive(c, r)
    <3>1. PICK c \in Cmd, r \in Results \cup {NoResult} : Arrive(c, r)
      BY Zenon, <2>4
    <3>2. CASE r = NoResult
      <4>1. Start(c)
        BY Zenon, <3>1, <3>2 DEF Arrive
      <4> QED BY <1>1, <2>0, <4>1, StartRows
    <3>3. CASE r # NoResult
      <4>1. r \in Results /\ Complete(c, r)
        BY Zenon, <3>1, <3>3 DEF Arrive
      <4> QED BY Zenon, <1>1, <2>0, <4>1, CompleteRows
    <3> QED BY <3>2, <3>3
  <2>5. CASE CheckinAnswered \/ CheckinFailed
    <3>1. Deliver \/ UNCHANGED serverVars
      BY <2>5 DEF CheckinAnswered, CheckinFailed
    <3> QED BY <1>1, <2>0, <3>1, BulkKeepsSettled DEF Deliver
  <2>6. CASE StartCommand
    <3>1. job["worker"] \in Cmd
      BY Zenon, <1>1, <2>6 DEF TypeOK, ControlInv, StartCommand
    <3>2. Start(job["worker"]) \/ UNCHANGED <<status, stored>>
      BY <2>6 DEF StartCommand, GiveUp
    <3> QED BY Zenon, <1>1, <2>0, <3>1, <3>2, StartRows
  <2>7. CASE SubmitAnswered
    <3>1. PICK c \in Cmd : batch[c] \in Results /\ Complete(c, batch[c])
      BY <1>1, <2>7 DEF TypeOK, SubmitAnswered, Oldest, Held
    <3> QED BY Zenon, <1>1, <2>0, <3>1, CompleteRows
  <2>8. CASE SubmitFailed
    BY Zenon, <2>8 DEF SubmitFailed, GiveUp
  <2>9. CASE BeginCheckin \/ Enqueue \/ EndCheckin \/ DeleteResult \/ FlushDone \/ Crash
    BY Zenon, <2>9 DEF BeginCheckin, Enqueue, EndCheckin, DeleteResult, FlushDone, Crash
  <2>10. CASE Take \/ MarkStarted \/ Execute \/ ExecuteReturn \/ Release
    BY Zenon, <2>10 DEF Take, MarkStarted, Execute, ExecuteReturn, Release
  <2>11. CASE \E p \in Procs : ProcStep(p)
    BY Zenon, <2>11 DEF ProcStep, FlushBegin, QueueResult, MarkCompleted
  <2> QED BY Zenon, <1>1, <2>1, <2>2, <2>3, <2>4, <2>5, <2>6, <2>7, <2>8, <2>9, <2>10, <2>11
          DEF Next, LoopStep, WorkerStep, FlushStep
<1>2. IInv /\ [Next]_vars => [SettledKept]_vars
  BY <1>1 DEF SettledKept
<1> QED BY <1>2, Invariance, PTL DEF Spec, SettledStays

-------------------------------------------------------------------------------
(* Commands implements CommandPromise. *)

\* What CommandPromise sees of a status.
LEMMA PhaseFacts ==
    /\ PhaseOf("none") = "none" /\ PhaseOf("pruned") = "forgotten"
    /\ PhaseOf("queued") = "open" /\ PhaseOf("expired") = "settled"
    /\ \A s \in Open : PhaseOf(s) = "open"
    /\ \A s \in Terminal : PhaseOf(s) = "settled"
BY DEF PhaseOf, Open, Terminal, ResultStatuses

\* A row that was created is one CommandPromise knows as issued.
LEMMA PhaseCreated ==
    ASSUME IInv, NEW c \in Cmd, status[c] # "none"
    PROVE  PhaseOf(status[c]) # "none"
<1>1. status[c] \in Statuses
  BY DEF IInv, TypeOK
<1>2. status[c] = "pruned" \/ status[c] \in Open \/ status[c] \in Terminal
  BY Zenon, <1>1 DEF Statuses
<1> QED BY <1>2, PhaseFacts

\* CommandPromise sees nothing of a step that leaves these three alone.
LEMMA PromiseStutter ==
    ASSUME UNCHANGED <<status, stored, executed>>
    PROVE  UNCHANGED Promise!vars
BY Zenon DEF Promise!vars, phase, verdict

\* A row moved from one open status to another is not seen, and one that
\* expires is settled: what Start, Deliver and the expire job do.
LEMMA PromiseExpire ==
    ASSUME UNCHANGED <<stored, executed>>,
           \A c \in Cmd : \/ status'[c] = status[c]
                          \/ status[c] \in Open /\ status'[c] \in Open \cup {"expired"}
    PROVE  [Promise!Next]_Promise!vars
<1> DEFINE S == {c \in Cmd : status[c] \in Open /\ status'[c] = "expired"}
<1>0. "expired" \notin Open
  BY DEF Open
<1>1. ASSUME NEW c \in Cmd
      PROVE  /\ phase'[c] = IF c \in S THEN "settled" ELSE phase[c]
             /\ verdict'[c] = IF c \in S THEN "expired" ELSE verdict[c]
             /\ c \in S => phase[c] = "open"
  <2>1. phase'[c] = PhaseOf(status'[c]) /\ phase[c] = PhaseOf(status[c])
    BY Zenon DEF phase
  <2>2. verdict'[c] = VerdictOf(status'[c], stored[c]) /\ verdict[c] = VerdictOf(status[c], stored[c])
    BY Zenon DEF verdict
  <2>3. CASE c \in S
    BY Zenon, <2>1, <2>2, <2>3, PhaseFacts DEF VerdictOf
  <2>4. CASE c \notin S /\ status'[c] = status[c]
    BY Zenon, <2>1, <2>2, <2>4
  <2>5. CASE c \notin S /\ status[c] \in Open /\ status'[c] \in Open
    BY Zenon, <1>0, <2>1, <2>2, <2>5, PhaseFacts DEF VerdictOf
  <2> QED BY Zenon, <2>3, <2>4, <2>5
<1>2. phase' = [c \in Cmd |-> IF c \in S THEN "settled" ELSE phase[c]]
  BY Zenon, <1>1 DEF phase
<1>3. verdict' = [c \in Cmd |-> IF c \in S THEN "expired" ELSE verdict[c]]
  BY Zenon, <1>1 DEF verdict
<1>4. S \in SUBSET Cmd /\ Promise!Expire(S)
  BY <1>1, <1>2, <1>3 DEF Promise!Expire
<1> QED BY Zenon, <1>4 DEF Promise!Next

\* What a result may say of a run: Execute was entered for it.
LEMMA HonestRan ==
    ASSUME IInv, NEW c \in Cmd, NEW r \in Results, Honest(c, r)
    PROVE  r.by \in {"run", "panic"} => executed[c] = 1
<1>1. executed[c] \in Nat /\ executed[c] <= 1
  BY DEF IInv, TypeOK, RunInv
<1>2. executed[c] = 0 => outcome[c] = NoResult
  BY Zenon DEF IInv, RunInv
<1>3. r # NoResult
  BY ResultFacts
<1> QED BY <1>1, <1>2, <1>3 DEF Honest

\* Complete settles an open command with the result it is given, and changes
\* nothing of any other.
LEMMA PromiseSettle ==
    ASSUME IInv, NEW c \in Cmd, NEW r \in Results, Honest(c, r), Complete(c, r),
           UNCHANGED executed
    PROVE  [Promise!Next]_Promise!vars
<1>1. status \in [Cmd -> Statuses] /\ stored \in [Cmd -> Results \cup {NoResult}]
  BY DEF IInv, TypeOK
<1>2. CASE status[c] \notin Open
  <2>1. UNCHANGED <<status, stored>>
    BY <1>1, <1>2 DEF Complete
  <2> QED BY <2>1, PromiseStutter
<1>3. CASE status[c] \in Open
  <2>1. status' = [status EXCEPT ![c] = r.status] /\ stored' = [stored EXCEPT ![c] = r]
    BY <1>1, <1>3 DEF Complete
  <2>2. r.status \in Terminal /\ r.status # "expired" /\ r.by \in {"run", "panic", "restart"}
    <3>1. r.status \in ResultStatuses
      BY Zenon, ResultFacts
    <3>2. r.by \in {"run", "panic", "restart"}
      BY DEF Results, RunResults, RestartResult, PanicResult
    <3> QED BY Zenon, <3>1, <3>2 DEF Terminal, ResultStatuses
  <2>3. phase[c] = "open" /\ phase' = [phase EXCEPT ![c] = "settled"]
    <3>1. PhaseOf(status[c]) = "open" /\ PhaseOf(r.status) = "settled"
      BY <1>3, <2>2, PhaseFacts
    <3> QED BY Zenon, <1>1, <2>1, <3>1 DEF phase
  <2>4. verdict' = [verdict EXCEPT ![c] = r.by]
    <3>1. VerdictOf(r.status, r) = r.by
      BY <2>2 DEF VerdictOf
    <3> QED BY Zenon, <1>1, <2>1, <3>1 DEF verdict
  <2>5. Promise!Settle(c, r.by)
    BY Zenon, <2>3, <2>4, HonestRan DEF Promise!Settle
  <2> QED BY <2>2, <2>5 DEF Promise!Next
<1> QED BY Zenon, <1>2, <1>3

\* Every step of Commands is one of CommandPromise or changes nothing it sees.
LEMMA PromiseStep ==
    ASSUME IInv, [Next]_vars
    PROVE  [Promise!Next]_Promise!vars
<1> USE DEF IInv
<1>0. /\ status \in [Cmd -> Statuses] /\ stored \in [Cmd -> Results \cup {NoResult}]
      /\ executed \in [Cmd -> Nat]
  BY DEF TypeOK
<1>1. CASE \E c \in Cmd : Queue(c)
  <2>1. PICK c \in Cmd : Queue(c)
    BY <1>1
  <2>2. phase[c] = "none" /\ phase' = [phase EXCEPT ![c] = "open"]
    BY Zenon, <1>0, <2>1, PhaseFacts DEF Queue, phase
  <2>3. verdict' = verdict
    BY Zenon, <1>0, <2>1 DEF Queue, verdict, VerdictOf
  <2>4. Promise!Issue(c)
    BY Zenon, <2>1, <2>2, <2>3 DEF Promise!Issue, Queue
  <2> QED BY <2>4 DEF Promise!Next
<1>2. CASE \E c \in Cmd : Prune(c)
  <2>1. PICK c \in Cmd : Prune(c)
    BY <1>2
  <2>2. phase[c] = "settled" /\ phase' = [phase EXCEPT ![c] = "forgotten"]
    BY Zenon, <1>0, <2>1, PhaseFacts DEF Prune, phase
  <2>3. VerdictOf("pruned", NoResult) = "none"
    BY Zenon DEF VerdictOf, NoResult
  <2>4. verdict' = [verdict EXCEPT ![c] = "none"]
    BY Zenon, <1>0, <2>1, <2>3 DEF Prune, verdict
  <2>5. Promise!Forget(c)
    BY <2>1, <2>2, <2>4 DEF Promise!Forget, Prune
  <2> QED BY <2>5 DEF Promise!Next
<1>3. CASE ExpireJob \/ CheckinAnswered \/ CheckinFailed
  <2>1. UNCHANGED <<stored, executed>>
    BY Zenon, <1>3 DEF ExpireJob, CheckinAnswered, CheckinFailed, Deliver
  <2>2. \/ status' = status \/ status' = ExpireCommands(status)
        \/ status' = MarkCommandsDelivered(ExpireCommands(status))
    BY Zenon, <1>3 DEF ExpireJob, CheckinAnswered, CheckinFailed, Deliver
  <2>3. ASSUME NEW c \in Cmd
        PROVE  \/ status'[c] = status[c]
               \/ status[c] \in Open /\ status'[c] \in Open \cup {"expired"}
    BY <1>0, <2>2 DEF ExpireCommands, MarkCommandsDelivered, Open
  <2> QED BY <2>1, <2>3, PromiseExpire
<1>4. CASE \E c \in Cmd, r \in Results \cup {NoResult} : Arrive(c, r)
  <2>1. PICK c \in Cmd, r \in Results \cup {NoResult} : Arrive(c, r)
    BY <1>4
  <2>2. UNCHANGED executed
    BY <2>1 DEF Arrive
  <2>3. CASE r = NoResult
    <3>1. Start(c)
      BY Zenon, <2>1, <2>3 DEF Arrive
    <3>2. \A d \in Cmd : \/ status'[d] = status[d]
                         \/ status[d] \in Open /\ status'[d] \in Open \cup {"expired"}
      BY <3>1, StartRows DEF Open
    <3> QED BY Zenon, <2>2, <3>1, <3>2, PromiseExpire DEF Start
  <2>4. CASE r # NoResult
    <3>1. r \in Results /\ Complete(c, r) /\ Honest(c, r)
      BY Zenon, <2>1, <2>4 DEF Arrive, HonestInv
    <3> QED BY <2>2, <3>1, PromiseSettle
  <2> QED BY Zenon, <2>3, <2>4
<1>5. CASE StartCommand
  <2>1. job["worker"] \in Cmd /\ UNCHANGED executed
    BY <1>5 DEF TypeOK, ControlInv, StartCommand
  <2>2. CASE Start(job["worker"])
    <3>1. \A d \in Cmd : \/ status'[d] = status[d]
                         \/ status[d] \in Open /\ status'[d] \in Open \cup {"expired"}
      BY Zenon, <2>1, <2>2, StartRows DEF Open
    <3> QED BY Zenon, <2>1, <2>2, <3>1, PromiseExpire DEF Start
  <2>3. CASE UNCHANGED <<status, stored>>
    BY <2>1, <2>3, PromiseStutter
  <2> QED BY <1>5, <2>2, <2>3 DEF StartCommand, GiveUp
<1>6. CASE SubmitAnswered
  <2>1. PICK c \in Cmd : batch[c] # NoResult /\ Complete(c, batch[c])
    BY Zenon, <1>6 DEF SubmitAnswered, Oldest, Held
  <2>2. batch[c] \in Results /\ Honest(c, batch[c])
    BY <2>1 DEF TypeOK, HonestInv
  <2>3. UNCHANGED executed
    BY <1>6 DEF SubmitAnswered
  <2> QED BY <2>1, <2>2, <2>3, PromiseSettle
<1>7. CASE Execute
  <2>1. /\ job["worker"] \in Cmd /\ executed[job["worker"]] = 0
        /\ ledger[job["worker"]] # "none"
    BY <1>7 DEF TypeOK, ControlInv, RunInv, Execute
  <2>2. status[job["worker"]] # "none"
    BY Zenon, <2>1 DEF CreatedInv
  <2>3. phase[job["worker"]] # "none"
    BY Zenon, <2>1, <2>2, PhaseCreated DEF phase
  <2>4. UNCHANGED <<phase, verdict>>
    BY <1>7 DEF Execute, phase, verdict
  <2>5. executed' = [executed EXCEPT ![job["worker"]] = 1]
    BY <1>0, <1>7, <2>1 DEF Execute
  <2>6. Promise!Run(job["worker"])
    BY <2>1, <2>3, <2>4, <2>5 DEF Promise!Run
  <2> QED BY Zenon, <2>1, <2>6 DEF Promise!Next
<1>8. CASE \/ BeginCheckin \/ Enqueue \/ EndCheckin \/ DeleteResult \/ FlushDone \/ Crash
           \/ SubmitFailed \/ \E c \in Cmd : Lapse(c)
  <2>1. UNCHANGED <<status, stored, executed>>
    BY Zenon, <1>8 DEF BeginCheckin, Enqueue, EndCheckin, DeleteResult, FlushDone, Crash,
                SubmitFailed, GiveUp, Lapse
  <2> QED BY <2>1, PromiseStutter
<1>9. CASE Take \/ MarkStarted \/ ExecuteReturn \/ Release \/ \E p \in Procs : ProcStep(p)
  <2>1. UNCHANGED <<status, stored, executed>>
    BY Zenon, <1>9 DEF Take, MarkStarted, ExecuteReturn, Release, ProcStep, FlushBegin,
                QueueResult, MarkCompleted
  <2> QED BY <2>1, PromiseStutter
<1>10. CASE UNCHANGED vars
  BY <1>10, PromiseStutter DEF vars
<1> QED BY Zenon, <1>1, <1>2, <1>3, <1>4, <1>5, <1>6, <1>7, <1>8, <1>9, <1>10
        DEF Next, LoopStep, WorkerStep, FlushStep

\* The agent's session and ledger and the server's commands service implement
\* CommandPromise: one run at most, one verdict, and no verdict that claims a
\* run that did not happen (session.run, commands.Complete).
THEOREM PromiseKept == ASSUME LongOutages = FALSE PROVE Spec => KeepsPromise
<1>1. Init => Promise!Init
  <2>1. VerdictOf("none", NoResult) = "none"
    BY DEF VerdictOf, NoResult
  <2> QED BY <2>1, PhaseFacts DEF Init, EmptyBox, Promise!Init, phase, verdict
<1>2. IInv /\ [Next]_vars => [Promise!Next]_Promise!vars
  BY PromiseStep
<1> QED BY <1>1, <1>2, Invariance, PTL DEF Spec, KeepsPromise, Promise!Spec
===============================================================================
