-------------------------------- MODULE Escrow --------------------------------
(***************************************************************************)
(* The local administrator password a rotate_local_admin_password command  *)
(* sets, which the device hands to the server before it sets it            *)
(* (agent/executor/rotate.go, server/laps, store/adminpasswords.go), and   *)
(* the administrator who reads it back (adminapi/adminpasswords.go).       *)
(*                                                                         *)
(* A command generates one password, so a password is its command's        *)
(* number.  One account is rotated.  A request is answered, or given up on *)
(* and applied later or never.  The worker runs one command at a time;     *)
(* bbolt survives a crash of the agent.                                    *)
(***************************************************************************)
EXTENDS Naturals, FiniteSets

CONSTANTS
    N,            \* how many rotations are ever queued for the account
    MaxCrashes    \* bound: agent crashes

Cmds == 1 .. N
Nobody == 0
States == {"none", "pending", "active", "superseded", "abandoned"}

VARIABLES
    status,     \* commands.status
    row,        \* local_admin_passwords.state of the command's password
    request,    \* the escrow request of each command
    ledger,     \* bbolt: the ledger
    queued,     \* bbolt: the queued result
    worker,     \* where the worker is
    cmd,        \* the command it runs
    result,     \* what that command came to
    machine,    \* whose password the account has
    cut,        \* passwords set by a run that a crash of the agent ended
    crashes

VARIABLES
    revealed,   \* what was handed to an administrator
    audited     \* what the audit log says was

server  == <<status, row>>
bolt    == <<ledger, queued>>
agent   == <<worker, cmd, result>>
laps    == <<server, request, bolt, agent, machine, cut, crashes>>
reading == <<revealed, audited>>
vars    == <<laps, reading>>

-----------------------------------------------------------------------------
\* The agent runs a rotation.

Least(S) == CHOOSE c \in S : \A d \in S : c <= d

\* MarkStarted, then StartCommand, whose failure is only logged.
Run ==
    /\ worker = "idle"
    /\ LET waiting == {c \in Cmds : ledger[c] = "new" /\ status[c] = "delivered"} IN
       /\ waiting # {}
       /\ cmd' = Least(waiting)
    /\ ledger' = [ledger EXCEPT ![cmd'] = "started"]
    /\ \/ status' = [status EXCEPT ![cmd'] = "running"]
       \/ UNCHANGED status
    /\ worker' = "escrow"
    /\ UNCHANGED <<row, request, queued, result, machine, cut, crashes, reading>>

FinishWith(r) == worker' = "queue" /\ result' = r

SetThenEscrow ==
    /\ worker = "escrow"
    /\ machine' = cmd
    /\ request' = [request EXCEPT ![cmd] = "sent"]
    /\ worker' = "waiting"
    /\ UNCHANGED <<server, bolt, cmd, result, cut, crashes, reading>>

\* A bad payload or no built-in account ends it; else the new password is
\* sent, and nothing is set until the answer is there.
RotateAdminPassword ==
    /\ worker = "escrow"
    /\ \/ /\ request' = [request EXCEPT ![cmd] = "sent"]
          /\ worker' = "waiting"
          /\ UNCHANGED result
       \/ FinishWith("failed") /\ UNCHANGED request
    /\ UNCHANGED <<server, bolt, cmd, machine, cut, crashes, reading>>

\* The answer is acted on, or the call fails with the request under way.
EscrowAnswered ==
    /\ worker = "waiting"
    /\ \/ request[cmd] = "stored" /\ worker' = "set" /\ UNCHANGED result
       \/ FinishWith("failed")
    /\ UNCHANGED <<server, request, bolt, cmd, machine, cut, crashes, reading>>

SetPassword ==
    /\ worker = "set"
    /\ \/ machine' = cmd /\ FinishWith("succeeded")
       \/ FinishWith("failed") /\ UNCHANGED machine
    /\ UNCHANGED <<server, request, bolt, cmd, cut, crashes, reading>>

\* finish: the result is queued, and only then the command marked completed.
QueueResult ==
    /\ worker = "queue"
    /\ queued' = [queued EXCEPT ![cmd] = result]
    /\ worker' = "complete"
    /\ UNCHANGED <<server, request, ledger, cmd, result, machine, cut, crashes, reading>>

MarkCompleted ==
    /\ worker = "complete"
    /\ ledger' = [ledger EXCEPT ![cmd] = "completed"]
    /\ worker' = "idle"
    /\ UNCHANGED <<server, request, queued, cmd, result, machine, cut, crashes, reading>>

Crash ==
    /\ worker # "idle"
    /\ crashes < MaxCrashes
    /\ crashes' = crashes + 1
    /\ cut' = IF machine = cmd THEN cut \cup {cmd} ELSE cut
    /\ worker' = "idle"
    /\ UNCHANGED <<server, request, bolt, cmd, result, machine, reading>>

\* A command delivered again that an agent now gone had started.
Redelivered(c) ==
    /\ worker = "idle"
    /\ ledger[c] = "started"
    /\ status[c] \in {"delivered", "running"}
    /\ cmd' = c
    /\ FinishWith("failed")
    /\ UNCHANGED <<server, request, bolt, machine, cut, crashes, reading>>

-----------------------------------------------------------------------------
\* The server takes an escrow.

\* The command must be the device's and running when it is read.
Escrow(c) ==
    /\ request[c] = "sent"
    /\ request' = [request EXCEPT ![c] = IF status[c] = "running" THEN "checked"
                                         ELSE "refused"]
    /\ UNCHANGED <<server, bolt, agent, machine, cut, crashes, reading>>

\* The row and its audit entry, in one transaction that may fail.  A row that
\* is no longer pending is left alone, and the device is told all is well.
UpsertPendingAdminPassword(c) ==
    /\ request[c] = "checked"
    /\ \/ /\ row' = [row EXCEPT ![c] = IF row[c] = "none" THEN "pending" ELSE row[c]]
          /\ request' = [request EXCEPT ![c] = "stored"]
       \/ /\ request' = [request EXCEPT ![c] = "refused"]
          /\ UNCHANGED row
    /\ UNCHANGED <<status, bolt, agent, machine, cut, crashes, reading>>

ActivateOnly(c, succeeded) ==
    [row EXCEPT ![c] = IF row[c] # "pending" THEN row[c]
                       ELSE IF succeeded THEN "active" ELSE "abandoned"]

\* SettleAdminPassword: a pending password becomes the account's active one
\* and supersedes the last, or is abandoned.
Settle(c, succeeded) ==
    [d \in Cmds |->
        IF row[c] # "pending" THEN row[d]
        ELSE IF d = c THEN IF succeeded THEN "active" ELSE "abandoned"
        ELSE IF row[d] = "active" /\ succeeded THEN "superseded" ELSE row[d]]

\* FlushResults sends the results in the commands' order; Complete records one
\* and settles its password in the same transaction, unless it already did.
\* A result whose answer is lost stays queued.
Complete ==
    LET waiting == {c \in Cmds : queued[c] # "none"} IN
    /\ waiting # {}
    /\ LET c == Least(waiting) IN
       /\ IF status[c] \in {"delivered", "running"}
          THEN /\ status' = [status EXCEPT ![c] = queued[c]]
               /\ row' = Settle(c, queued[c] = "succeeded")
          ELSE UNCHANGED server
       /\ \/ queued' = [queued EXCEPT ![c] = "none"]
          \/ UNCHANGED queued
    /\ UNCHANGED <<request, ledger, agent, machine, cut, crashes, reading>>

-----------------------------------------------------------------------------
\* An administrator reads a secret back.

\* The value is opened, and handed over only after the audit entry is in, which
\* may fail.
Reveal(c) ==
    \/ audited' = audited \cup {c} /\ revealed' = revealed \cup {c}
    \/ UNCHANGED reading

\* Whatever the row's state, once the caller's scope and the reason are checked.
RevealAdminPassword(c) ==
    /\ row[c] # "none"
    /\ Reveal(c)
    /\ UNCHANGED laps

-----------------------------------------------------------------------------
Init ==
    /\ status = [c \in Cmds |-> "delivered"]
    /\ row = [c \in Cmds |-> "none"]
    /\ request = [c \in Cmds |-> "none"]
    /\ ledger = [c \in Cmds |-> "new"]
    /\ queued = [c \in Cmds |-> "none"]
    /\ worker = "idle" /\ cmd = Nobody /\ result = "none"
    /\ machine = Nobody /\ cut = {} /\ crashes = 0
    /\ revealed = {} /\ audited = {}

Worker == \/ Run \/ RotateAdminPassword \/ EscrowAnswered \/ SetPassword
          \/ QueueResult \/ MarkCompleted \/ \E c \in Cmds : Redelivered(c)

Next ==
    \/ Worker \/ Crash \/ Complete
    \/ \E c \in Cmds : Escrow(c) \/ UpsertPendingAdminPassword(c)
    \/ \E c \in Cmds : RevealAdminPassword(c)

Spec == Init /\ [][Next]_vars

-----------------------------------------------------------------------------
\* Everything has its type, and what the server answered as stored is stored.
TypeOK ==
    /\ status \in [Cmds -> {"delivered", "running", "succeeded", "failed"}]
    /\ row \in [Cmds -> States]
    /\ request \in [Cmds -> {"none", "sent", "checked", "stored", "refused"}]
    /\ ledger \in [Cmds -> {"new", "started", "completed"}]
    /\ queued \in [Cmds -> {"none", "succeeded", "failed"}]
    /\ worker \in {"idle", "escrow", "waiting", "set", "queue", "complete"}
    /\ cmd \in Cmds \cup {Nobody} /\ result \in {"none", "succeeded", "failed"}
    /\ machine \in Cmds \cup {Nobody} /\ cut \subseteq Cmds
    /\ \A c \in Cmds : request[c] = "stored" => row[c] # "none"

\* The password an account has is one the server can reveal: it is escrowed
\* before it is set, whatever is lost, late or interrupted.
PasswordKnown == machine # Nobody => row[machine] # "none"

\* Once the result of the command that set it is delivered, the password the
\* account has is the one shown as active, and the only one, whatever other
\* commands are under way, late or repeated; unless the agent did not live to
\* report it.
ActiveIsSet ==
    (/\ machine # Nobody /\ machine \notin cut
     /\ queued[machine] = "none" /\ (worker = "idle" \/ cmd # machine))
        => row[machine] = "active" /\ \A c \in Cmds : row[c] = "active" => c = machine

SettledOnceStep ==
    \A c \in Cmds : \/ row'[c] = row[c]
                    \/ row[c] \in {"none", "pending"}
                    \/ row[c] = "active" /\ row'[c] = "superseded"

\* A password that was superseded or abandoned never becomes current again,
\* and one in use is only ever replaced: duplicated and late requests included.
SettledOnce == [][SettledOnceStep]_vars

=============================================================================
