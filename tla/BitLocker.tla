------------------------------ MODULE BitLocker ------------------------------
(***************************************************************************)
(* The recovery password of a device's system drive: the BitLocker handler *)
(* of the agent's policy engine (agent/policy/handler_bitlocker.go), the   *)
(* server's escrow of it and the administrator who reads it back           *)
(* (server/bitlocker, store/bitlocker.go, adminapi/bitlocker.go).          *)
(*                                                                         *)
(* A recovery password is the number of its creation.  A request is        *)
(* answered, or given up on and applied later or never.  Somebody at the   *)
(* machine may decrypt the drive or change its recovery password.          *)
(***************************************************************************)
EXTENDS Naturals

CONSTANT MaxVolume     \* bound: recovery passwords the volume ever has

Nobody == 0

VARIABLES
    volume,     \* [on, password] of the system drive
    handler,    \* where the handler is, and the password it is sending
    key,        \* bitlocker_keys: the volume's recovery password, Nobody if none
    late,       \* recovery passwords in requests the agent gave up on
    minted,     \* how many recovery passwords there have been
    missed,     \* whether the escrowed one fell behind in a way Test cannot see
    revealed,   \* what was handed to an administrator
    audited     \* what the audit log says was

reading == <<revealed, audited>>
vars    == <<volume, handler, key, late, minted, missed, reading>>

-----------------------------------------------------------------------------
\* The BitLocker handler: Test, and Set when Test found work to do.

\* What Test makes of what it read.  HasRecoveryKey asks for the volume's key
\* by the volume's name; that the key is the volume's present one it cannot say.
Compliant == volume.on /\ volume.password # Nobody /\ key # Nobody

TestBitLocker ==
    /\ handler.at = "idle"
    /\ handler' = [at |-> IF Compliant THEN "idle" ELSE "set", holds |-> Nobody]
    /\ UNCHANGED <<volume, key, late, minted, missed, reading>>

\* Encryption is started where it is off, a recovery password added where
\* there is none, and what the volume then has is what is sent.
SetBitLocker ==
    /\ handler.at = "set"
    /\ minted < MaxVolume \/ volume.password # Nobody
    /\ LET new == IF volume.password = Nobody THEN minted + 1 ELSE volume.password IN
       /\ volume' = [on |-> TRUE, password |-> new]
       /\ minted' = IF new > minted THEN new ELSE minted
       /\ handler' = [at |-> "escrow", holds |-> new]
    /\ UNCHANGED <<key, late, missed, reading>>

KeepFirstKey(password) ==
    key' = IF key = Nobody THEN password ELSE key

\* The volume's row is replaced, whatever it holds.
UpsertBitLockerKey(password) == key' = password

EscrowRecoveryKey ==
    /\ handler.at = "escrow"
    /\ \/ UpsertBitLockerKey(handler.holds) /\ UNCHANGED <<late, missed>>
       \/ /\ late' = late \cup {handler.holds}
          /\ missed' = (missed \/ key \notin {Nobody, handler.holds})
          /\ UNCHANGED key
    /\ handler' = [at |-> "idle", holds |-> Nobody]
    /\ UNCHANGED <<volume, minted, reading>>

\* A request given up on arrives, or never does.
LateEscrow(password) ==
    /\ password \in late
    /\ late' = late \ {password}
    /\ \/ UpsertBitLockerKey(password)
          /\ missed' = (missed \/ password # volume.password)
       \/ UNCHANGED <<key, missed>>
    /\ UNCHANGED <<volume, handler, minted, reading>>

\* Somebody at the machine decrypts the drive, takes the recovery password
\* away, or puts another in its place.
Decrypt ==
    /\ volume.on /\ minted < MaxVolume
    /\ volume' = [on |-> FALSE, password |-> Nobody]
    /\ missed' = (missed \/ handler.at = "escrow")
    /\ UNCHANGED <<handler, key, late, minted, reading>>

ReplaceRecoveryPassword ==
    /\ volume.on /\ minted < MaxVolume
    /\ minted' = minted + 1
    /\ volume' = [volume EXCEPT !.password = minted + 1]
    /\ missed' = (missed \/ key # Nobody \/ handler.at = "escrow" \/ late # {})
    /\ UNCHANGED <<handler, key, late, reading>>

-----------------------------------------------------------------------------

\* The value is opened, and handed over only after the audit entry is in, which
\* may fail.
Reveal ==
    \/ audited' = audited \cup {key} /\ revealed' = revealed \cup {key}
    \/ UNCHANGED reading

\* Once the caller's scope and the reason are checked.
RevealBitLockerKey ==
    /\ key # Nobody
    /\ Reveal
    /\ UNCHANGED <<volume, handler, key, late, minted, missed>>

-----------------------------------------------------------------------------
Init ==
    /\ volume \in {[on |-> FALSE, password |-> Nobody], [on |-> TRUE, password |-> Nobody]}
    /\ handler = [at |-> "idle", holds |-> Nobody]
    /\ key = Nobody /\ late = {} /\ minted = 0 /\ missed = FALSE
    /\ revealed = {} /\ audited = {}

Next ==
    \/ TestBitLocker \/ SetBitLocker \/ EscrowRecoveryKey
    \/ \E password \in late : LateEscrow(password)
    \/ Decrypt \/ ReplaceRecoveryPassword
    \/ RevealBitLockerKey

\* The policy loop runs at every check-in, and requests do not fail for ever.
Fairness ==
    /\ WF_vars(TestBitLocker) /\ WF_vars(SetBitLocker)
    /\ WF_vars(EscrowRecoveryKey)
    /\ SF_vars(EscrowRecoveryKey /\ key' = handler.holds)

Spec == Init /\ [][Next]_vars /\ Fairness

-----------------------------------------------------------------------------

\* The drive ends up encrypted with its recovery password in escrow, however
\* often requests fail and somebody decrypts it, except where the password
\* changed while an earlier one was escrowed and its own escrow failed, was
\* not made, or was overtaken by one that was given up on.
RecoveryKeyEscrowed ==
    <>[](\/ volume.on /\ volume.password # Nobody /\ key = volume.password
         \/ missed
         \/ minted = MaxVolume /\ volume.password = Nobody)

=============================================================================
