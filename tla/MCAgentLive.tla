---------------------------- MODULE MCAgentLive -----------------------------
(***************************************************************************)
(* What the agent gets done in the end, for TLC: commands, updates of      *)
(* itself and the recovery key; and the identity it needs for all of it,   *)
(* in a network that breaks no connection without the server noticing.     *)
(***************************************************************************)
EXTENDS Identity, Sequences, TLC

CONSTANTS
    a1

VARIABLES
    scene,   \* which of the parts this behaviour is about
    status, stored, lapsed, late, ledger, outbox, pc, job, res,
    commandsWork, inflight, resp, flusher, batch, sent, executed, outcome,
    commandsCrashes, commandsFaults,
    assigned, verdict, wired, built, rec, updateDue, attempts, proc, boot,
    rollback, backlog, at, item, sup, proved, assigns, restarts,
    updateFaults,
    volume, handler, key, volumeLate, minted, missed, revealed, audited

Cmds == INSTANCE Commands WITH
    N <- 1, QueueCap <- 1, Outcomes <- {"succeeded", "failed"},
    MaxCrashes <- 1, MaxFaults <- 1, MaxLate <- 1, LongOutages <- FALSE,
    work <- commandsWork, crashes <- commandsCrashes,
    faults <- commandsFaults

Update == INSTANCE SelfUpdate WITH
    Version <- 1 .. 3, Boot <- 1, Works <- {1, 3}, Genuine <- {2, 3},
    None <- 0, Supervisors <- {1}, MaxAttempts <- 2, MaxAssigns <- 2,
    MaxRestarts <- 0, MaxFaults <- 0, due <- updateDue,
    faults <- updateFaults

Vol == INSTANCE BitLocker WITH
    MaxVolume <- 3, late <- volumeLate

commandsVars ==
    <<status, stored, lapsed, late, ledger, outbox, pc, job, res,
      commandsWork, inflight, resp, flusher, batch, sent, executed, outcome,
      commandsCrashes, commandsFaults>>

updateVars ==
    <<assigned, verdict, wired, built, rec, updateDue, attempts, proc, boot,
      rollback, backlog, at, item, sup, proved, assigns, restarts,
      updateFaults>>

volumeVars ==
    <<volume, handler, key, volumeLate, minted, missed, revealed, audited>>

-----------------------------------------------------------------------------
\* A behaviour is about one part; the others stay as they start.
MCInit ==
    /\ scene \in {"commands", "update", "identity", "volume"}
    /\ Cmds!Init
    /\ Update!Init
    /\ Init
    /\ Vol!Init
    /\ scene # "volume" => ~volume.on

InCommands ==
    /\ scene = "commands"
    /\ UNCHANGED <<scene, updateVars, vars, volumeVars>>
    /\ Cmds!Next

InUpdate ==
    /\ scene = "update"
    /\ UNCHANGED <<scene, commandsVars, vars, volumeVars>>
    /\ Update!Next

InIdentity ==
    /\ scene = "identity"
    /\ UNCHANGED <<scene, commandsVars, updateVars, volumeVars>>
    /\ Next

InVolume ==
    /\ scene = "volume"
    /\ UNCHANGED <<scene, commandsVars, updateVars, vars>>
    /\ Vol!Next

MCNext ==
    InCommands \/ InUpdate \/ InIdentity \/ InVolume

-----------------------------------------------------------------------------
\* Each part is fair in the way its own module says and why.

commandsFair ==
    /\ WF_commandsVars(scene = "commands" /\ Cmds!LoopStep)
    /\ WF_commandsVars(scene = "commands" /\ Cmds!WorkerStep)
    /\ WF_commandsVars(scene = "commands" /\ Cmds!FlushStep)
    /\ \A p \in Cmds!Procs :
         /\ WF_commandsVars(scene = "commands" /\ Cmds!QueueResult(p))
         /\ WF_commandsVars(scene = "commands" /\ Cmds!MarkCompleted(p))
         /\ SF_commandsVars(scene = "commands" /\ Cmds!FlushBegin(p))
    /\ SF_commandsVars(scene = "commands" /\ Cmds!CheckinAnswered)
    /\ SF_commandsVars(scene = "commands" /\ Cmds!SubmitAnswered)

updateFair ==
    /\ \A s \in {1} : WF_updateVars(scene = "update" /\ Update!Supervise(s))
    /\ \A n \in Update!Attempt :
         WF_updateVars(scene = "update" /\ Update!Deadline(n))
    /\ WF_updateVars(scene = "update" /\ Update!AgentStep)
    /\ SF_updateVars(scene = "update" /\ Update!ReportRollback)
    /\ SF_updateVars(scene = "update" /\ Update!CheckinAnswered)

volumeFair ==
    /\ WF_volumeVars(scene = "volume" /\ Vol!TestBitLocker)
    /\ WF_volumeVars(scene = "volume" /\ Vol!SetBitLocker)
    /\ WF_volumeVars(scene = "volume" /\ Vol!EscrowRecoveryKey)
    /\ SF_volumeVars(scene = "volume"
                     /\ Vol!EscrowRecoveryKey /\ key' = handler.holds)

MCSpec ==
    /\ MCInit
    /\ [][MCNext]_<<scene, commandsVars, updateVars, vars, volumeVars>>
    /\ commandsFair /\ updateFair /\ volumeFair

\* Every command queued is settled in the end: it runs, or the agent says it
\* was cut short, or it expires.
EventuallySettled == scene = "commands" => Cmds!EventuallySettled

\* A pending attempt is resolved in the end.
PendingResolved == scene = "update" => Update!PendingResolved

\* The drive ends up encrypted with its recovery password in escrow, however
\* often requests fail and somebody decrypts it, except where the password
\* changed while an earlier one was escrowed and its own escrow failed, was
\* not made, or was overtaken by one that was given up on.
RecoveryKeyEscrowed == scene = "volume" => Vol!RecoveryKeyEscrowed
=============================================================================
