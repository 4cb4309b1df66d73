----------------------------- MODULE EscrowProofs -----------------------------
(***************************************************************************)
(* The theorems about Escrow: for any number of rotations and crashes, the *)
(* password an account has is one the server can reveal, it is the one     *)
(* shown as active once its result is in, and a settled password stays     *)
(* settled.                                                                *)
(*                                                                         *)
(* PasswordKnown and ActiveIsSet are not inductive: both depend on the     *)
(* order in which commands are run and results are sent, which OrderInv    *)
(* states, and on where the result of the command that set the password    *)
(* is, which HandedInv states.                                             *)
(***************************************************************************)
EXTENDS Escrow, WellFoundedInduction, TLAPS

Undecided == {"delivered", "running"}

\* Commands are run in their order, and one not begun has left no trace.
OrderInv ==
    /\ \A c \in Cmds : ledger[c] = "new" => status[c] = "delivered" /\ queued[c] = "none"
    /\ \A c, d \in Cmds : c < d /\ ledger[d] # "new" => ledger[c] # "new"
    /\ worker # "idle" => cmd \in Cmds /\ ledger[cmd] = "started"
    /\ machine # Nobody => ledger[machine] # "new"
    /\ \A c \in cut : ledger[c] # "new"

\* What holds of the command that is being run.
RunInv ==
    /\ worker \in {"escrow", "waiting", "set"} =>
         /\ \A d \in Cmds : cmd < d => ledger[d] = "new"
         /\ cmd # machine /\ cmd \notin cut
         /\ status[cmd] \in Undecided /\ queued[cmd] = "none"
    /\ worker = "set" => request[cmd] = "stored"
    /\ worker = "queue" /\ result = "succeeded" =>
         /\ cmd = machine /\ cmd \notin cut
         /\ status[cmd] \in Undecided /\ queued[cmd] = "none"
    /\ worker \in {"queue", "complete"} => result \in {"succeeded", "failed"}

\* What the server holds of a command whose result it does not have.
RowInv ==
    /\ \A c \in Cmds : status[c] \in Undecided => row[c] \in {"none", "pending"}
    /\ \A c \in Cmds : queued[c] = "succeeded" => request[c] = "stored" /\ c <= machine
    /\ machine # Nobody => request[machine] = "stored"

\* Where the news that the account's password was set has got to.
HandedInv ==
    machine # Nobody /\ machine \notin cut =>
        /\ ledger[machine] = "completed" \/ (worker \in {"queue", "complete"} /\ cmd = machine)
        /\ worker = "queue" /\ cmd = machine => result = "succeeded"
        /\ \/ worker = "queue" /\ cmd = machine
           \/ status[machine] \in Undecided /\ queued[machine] = "succeeded"
           \/ /\ status[machine] \notin Undecided /\ row[machine] = "active"
              /\ \A c \in Cmds : row[c] = "active" => c = machine
              /\ \A c \in Cmds : queued[c] = "succeeded" => status[c] \notin Undecided

Inv == TypeOK /\ OrderInv /\ RunInv /\ RowInv /\ HandedInv

-------------------------------------------------------------------------------
(* The least command of a set. *)

LEMMA CmdFacts == ASSUME N \in Nat PROVE Cmds \subseteq Nat /\ Nobody \notin Cmds
BY DEF Cmds, Nobody

LEMMA LeastFacts ==
    ASSUME N \in Nat, NEW S \in SUBSET Cmds, S # {}
    PROVE  Least(S) \in S /\ \A d \in S : Least(S) <= d
<1>1. S \subseteq Nat
  BY Zenon, CmdFacts
<1>2. \E x \in S : \A y \in S : <<y, x>> \notin OpToRel(<, Nat)
  BY Zenon, <1>1, NatLessThanWellFounded, WFMin
<1>3. PICK x \in S : \A y \in S : <<y, x>> \notin OpToRel(<, Nat)
  BY Zenon, <1>2
<1>4. ASSUME NEW y \in S PROVE x <= y
  <2>1. <<y, x>> \in Nat \X Nat => ~(y < x)
    BY Zenon, <1>3 DEF OpToRel
  <2> QED BY <1>1, <2>1
<1> QED BY <1>4 DEF Least

-------------------------------------------------------------------------------
(* Inv is inductive: one lemma per step. *)

USE DEF server, bolt, agent, laps, reading, Undecided

LEMMA InitInv == ASSUME N \in Nat, Init PROVE Inv
<1>1. TypeOK
  BY Zenon DEF Init, TypeOK, States
<1>2. OrderInv /\ RunInv
  BY Zenon DEF Init, OrderInv, RunInv
<1>3. RowInv /\ HandedInv
  BY Zenon DEF Init, RowInv, HandedInv
<1> QED BY <1>1, <1>2, <1>3 DEF Inv

LEMMA RunStep == ASSUME N \in Nat, Inv, Run PROVE Inv'
<1> DEFINE waiting == {c \in Cmds : ledger[c] = "new" /\ status[c] = "delivered"}
<1> USE DEF Inv
<1>1. /\ cmd' \in Cmds /\ ledger[cmd'] = "new" /\ status[cmd'] = "delivered"
      /\ \A d \in waiting : cmd' <= d
  <2>1. waiting \in SUBSET Cmds /\ waiting # {} /\ cmd' = Least(waiting)
    BY Zenon DEF Run
  <2> HIDE DEF waiting
  <2>2. cmd' \in waiting /\ \A d \in waiting : cmd' <= d
    BY <2>1, LeastFacts
  <2> QED BY Zenon, <2>2 DEF waiting
<1>2. \A d \in Cmds : d < cmd' => ledger[d] # "new"
  BY <1>1, CmdFacts DEF OrderInv
<1>3. ledger' = [ledger EXCEPT ![cmd'] = "started"]
  BY Zenon DEF Run
<1>4. \/ status' = [status EXCEPT ![cmd'] = "running"]
      \/ UNCHANGED status
  BY Zenon DEF Run
<1>5. /\ worker = "idle" /\ worker' = "escrow"
      /\ UNCHANGED <<row, request, queued, result, machine, cut, crashes>>
  BY Zenon DEF Run
<1>6. TypeOK'
  BY <1>1, <1>3, <1>4, <1>5 DEF TypeOK
<1>7. OrderInv'
  BY <1>1, <1>2, <1>3, <1>4, <1>5, CmdFacts DEF OrderInv, TypeOK
<1>8. RunInv'
  BY <1>1, <1>2, <1>3, <1>4, <1>5, CmdFacts DEF OrderInv, RunInv, TypeOK
<1>9. RowInv'
  BY <1>1, <1>4, <1>5 DEF RowInv, TypeOK
<1>10. HandedInv'
  BY <1>1, <1>3, <1>4, <1>5 DEF OrderInv, HandedInv, TypeOK
<1> QED BY <1>6, <1>7, <1>8, <1>9, <1>10

LEMMA RotateStep == ASSUME N \in Nat, Inv, RotateAdminPassword PROVE Inv'
<1> USE DEF Inv, RotateAdminPassword, FinishWith
<1>1. TypeOK'
  BY DEF TypeOK, OrderInv
<1>2. OrderInv'
  BY CmdFacts DEF OrderInv, RunInv, TypeOK
<1>3. RunInv'
  BY CmdFacts DEF RunInv, OrderInv, HandedInv, TypeOK
<1>4. RowInv'
  BY CmdFacts DEF RowInv, RunInv, OrderInv, TypeOK
<1>5. HandedInv'
  BY CmdFacts DEF HandedInv, RunInv, OrderInv, TypeOK
<1> QED BY Zenon, <1>1, <1>2, <1>3, <1>4, <1>5

LEMMA AnsweredStep == ASSUME N \in Nat, Inv, EscrowAnswered PROVE Inv'
<1> USE DEF Inv, EscrowAnswered, FinishWith
<1>1. TypeOK'
  BY DEF TypeOK, OrderInv
<1>2. OrderInv'
  BY CmdFacts DEF OrderInv, RunInv, TypeOK
<1>3. RunInv'
  BY CmdFacts DEF RunInv, OrderInv, HandedInv, TypeOK
<1>4. RowInv'
  BY CmdFacts DEF RowInv, RunInv, OrderInv, TypeOK
<1>5. HandedInv'
  BY CmdFacts DEF HandedInv, RunInv, OrderInv, TypeOK
<1> QED BY <1>1, <1>2, <1>3, <1>4, <1>5

LEMMA SetStep == ASSUME N \in Nat, Inv, SetPassword PROVE Inv'
<1> USE DEF Inv, SetPassword, FinishWith
<1>1. TypeOK'
  BY DEF TypeOK, OrderInv
<1>2. OrderInv'
  BY CmdFacts DEF OrderInv, RunInv, TypeOK
<1>3. RunInv'
  BY Zenon, CmdFacts DEF RunInv, OrderInv, HandedInv, TypeOK
<1>4. RowInv'
  BY CmdFacts DEF RowInv, RunInv, OrderInv, TypeOK
<1>5. HandedInv'
  BY CmdFacts DEF HandedInv, RunInv, OrderInv, TypeOK
<1> QED BY Zenon, <1>1, <1>2, <1>3, <1>4, <1>5

LEMMA QueueStep == ASSUME N \in Nat, Inv, QueueResult PROVE Inv'
<1> USE DEF Inv, QueueResult
<1>1. TypeOK'
  BY DEF TypeOK, OrderInv
<1>2. OrderInv'
  BY CmdFacts DEF OrderInv, RunInv, TypeOK
<1>3. RunInv'
  BY Zenon, CmdFacts DEF RunInv, OrderInv, HandedInv, TypeOK
<1>4. RowInv'
  BY CmdFacts DEF RowInv, RunInv, OrderInv, TypeOK
<1>5. HandedInv'
  BY CmdFacts DEF HandedInv, RunInv, OrderInv, TypeOK
<1> QED BY Zenon, <1>1, <1>2, <1>3, <1>4, <1>5

LEMMA MarkStep == ASSUME N \in Nat, Inv, MarkCompleted PROVE Inv'
<1> USE DEF Inv, MarkCompleted
<1>1. TypeOK'
  BY DEF TypeOK, OrderInv
<1>2. OrderInv'
  BY CmdFacts DEF OrderInv, RunInv, TypeOK
<1>3. RunInv'
  BY Zenon, CmdFacts DEF RunInv, OrderInv, HandedInv, TypeOK
<1>4. RowInv'
  BY CmdFacts DEF RowInv, RunInv, OrderInv, TypeOK
<1>5. HandedInv'
  BY CmdFacts DEF HandedInv, RunInv, OrderInv, TypeOK
<1> QED BY <1>1, <1>2, <1>3, <1>4, <1>5

LEMMA CrashStep == ASSUME N \in Nat, Inv, Crash PROVE Inv'
<1> USE DEF Inv, Crash
<1>1. TypeOK'
  BY DEF TypeOK, OrderInv
<1>2. OrderInv'
  BY CmdFacts DEF OrderInv, RunInv, TypeOK
<1>3. RunInv'
  BY Zenon, CmdFacts DEF RunInv, OrderInv, HandedInv, TypeOK
<1>4. RowInv'
  BY CmdFacts DEF RowInv, RunInv, OrderInv, TypeOK
<1>5. HandedInv'
  BY CmdFacts DEF HandedInv, RunInv, OrderInv, TypeOK
<1> QED BY Zenon, <1>1, <1>2, <1>3, <1>4, <1>5

LEMMA RedeliveredStep == ASSUME N \in Nat, Inv, NEW c \in Cmds, Redelivered(c) PROVE Inv'
<1> USE DEF Inv, Redelivered, FinishWith
<1>1. TypeOK'
  BY DEF TypeOK, OrderInv
<1>2. OrderInv'
  BY CmdFacts DEF OrderInv, RunInv, TypeOK
<1>3. RunInv'
  BY Zenon, CmdFacts DEF RunInv, OrderInv, HandedInv, TypeOK
<1>4. RowInv'
  BY CmdFacts DEF RowInv, RunInv, OrderInv, TypeOK
<1>5. HandedInv'
  BY CmdFacts DEF HandedInv, RunInv, OrderInv, TypeOK
<1> QED BY Zenon, <1>1, <1>2, <1>3, <1>4, <1>5

LEMMA EscrowStep == ASSUME N \in Nat, Inv, NEW c \in Cmds, Escrow(c) PROVE Inv'
<1> USE DEF Inv, Escrow
<1>1. TypeOK'
  BY DEF TypeOK, OrderInv
<1>2. OrderInv'
  BY CmdFacts DEF OrderInv, RunInv, TypeOK
<1>3. RunInv'
  BY CmdFacts DEF RunInv, OrderInv, HandedInv, TypeOK
<1>4. RowInv'
  BY CmdFacts DEF RowInv, RunInv, OrderInv, TypeOK
<1>5. HandedInv'
  BY CmdFacts DEF HandedInv, RunInv, OrderInv, TypeOK
<1> QED BY Zenon, <1>1, <1>2, <1>3, <1>4, <1>5

LEMMA UpsertStep == ASSUME N \in Nat, Inv, NEW c \in Cmds, UpsertPendingAdminPassword(c) PROVE Inv'
<1> USE DEF Inv, UpsertPendingAdminPassword, States
<1>1. TypeOK'
  BY DEF TypeOK, OrderInv
<1>2. OrderInv'
  BY CmdFacts DEF OrderInv, RunInv, TypeOK
<1>3. RunInv'
  BY CmdFacts DEF RunInv, OrderInv, HandedInv, TypeOK
<1>4. RowInv'
  BY CmdFacts DEF RowInv, RunInv, OrderInv, TypeOK
<1>5. HandedInv'
  BY CmdFacts DEF HandedInv, RunInv, OrderInv, TypeOK
<1> QED BY <1>1, <1>2, <1>3, <1>4, <1>5

LEMMA RevealStep == ASSUME N \in Nat, Inv, NEW c \in Cmds, RevealAdminPassword(c) PROVE Inv'
<1> USE DEF Inv, RevealAdminPassword
<1>1. TypeOK'
  BY DEF TypeOK, OrderInv
<1>2. OrderInv'
  BY CmdFacts DEF OrderInv, RunInv, TypeOK
<1>3. RunInv'
  BY Zenon, CmdFacts DEF RunInv, OrderInv, HandedInv, TypeOK
<1>4. RowInv'
  BY CmdFacts DEF RowInv, RunInv, OrderInv, TypeOK
<1>5. HandedInv'
  BY CmdFacts DEF HandedInv, RunInv, OrderInv, TypeOK
<1> QED BY <1>1, <1>2, <1>3, <1>4, <1>5

LEMMA CompleteStep == ASSUME N \in Nat, Inv, Complete PROVE Inv'
<1> DEFINE waiting == {c \in Cmds : queued[c] # "none"}
           c == Least(waiting)
<1> USE DEF Inv
<1>1. c \in Cmds /\ queued[c] # "none" /\ \A d \in Cmds : d < c => queued[d] = "none"
  <2>1. waiting \in SUBSET Cmds /\ waiting # {}
    BY Zenon DEF Complete
  <2>2. c \in waiting /\ \A d \in waiting : c <= d
    <3> HIDE DEF waiting
    <3> QED BY <2>1, LeastFacts
  <2> QED BY <2>2, CmdFacts
<1>2. /\ queued' = [queued EXCEPT ![c] = "none"] \/ UNCHANGED queued
      /\ UNCHANGED <<request, ledger, worker, cmd, result, machine, cut, crashes>>
  BY Zenon DEF Complete
<1>3. \/ UNCHANGED <<status, row>>
      \/ /\ status[c] \in Undecided
         /\ status' = [status EXCEPT ![c] = queued[c]]
         /\ row' = Settle(c, queued[c] = "succeeded")
  BY Zenon DEF Complete
<1>a. UNCHANGED <<status, row>> => status[c] \notin Undecided
  BY <1>1 DEF Complete, TypeOK
<1> HIDE DEF c
<1>4. TypeOK'
  BY <1>1, <1>2, <1>3 DEF TypeOK, Settle, States
<1>5. OrderInv'
  BY <1>1, <1>2, <1>3 DEF OrderInv, TypeOK
<1>6. RunInv'
  BY <1>1, <1>2, <1>3 DEF OrderInv, RunInv, TypeOK
<1>7. RowInv'
  BY <1>1, <1>2, <1>3 DEF RowInv, TypeOK, Settle
<1>8. HandedInv'
  <2> SUFFICES ASSUME machine # Nobody, machine \notin cut
               PROVE  HandedInv'
    BY Zenon, <1>2 DEF HandedInv
  <2>1. machine \in Cmds
    BY DEF TypeOK
  <2>2. CASE worker = "queue" /\ cmd = machine
    BY Zenon, <1>2, <2>2 DEF HandedInv
  <2>3. CASE ~(worker = "queue" /\ cmd = machine) /\ UNCHANGED <<status, row>>
    BY <1>1, <1>2, <1>a, <2>1, <2>3 DEF HandedInv, TypeOK
  <2>4. CASE /\ ~(worker = "queue" /\ cmd = machine) /\ c = machine
             /\ ~ UNCHANGED <<status, row>>
    <3>1. queued[c] = "succeeded" /\ row[c] = "pending"
      BY Zenon, <1>1, <1>3, <2>4 DEF HandedInv, RowInv, TypeOK
    <3>2. \A d \in Cmds : queued'[d] = "succeeded" => d = c
      BY <1>1, <1>2, <2>4, CmdFacts DEF RowInv, TypeOK
    <3>3. \A d \in Cmds : row'[d] = "active" <=> d = c
      BY <1>1, <1>3, <2>4, <3>1 DEF Settle
    <3>4. status'[c] = "succeeded"
      BY Zenon, <1>1, <1>3, <2>4, <3>1 DEF TypeOK
    <3> QED BY Zenon, <1>1, <1>2, <2>1, <2>4, <3>2, <3>3, <3>4 DEF HandedInv
  <2>5. CASE /\ ~(worker = "queue" /\ cmd = machine) /\ c # machine
             /\ ~ UNCHANGED <<status, row>>
    <3>1. status'[machine] = status[machine] /\ queued'[machine] = queued[machine]
      BY <1>1, <1>2, <1>3, <2>1, <2>5 DEF TypeOK
    <3>2. CASE status[machine] \in Undecided
      BY Zenon, <1>2, <2>5, <3>1, <3>2 DEF HandedInv
    <3>3. CASE status[machine] \notin Undecided
      <4>1. queued[c] = "failed"
        BY Zenon, <1>1, <1>3, <2>5, <3>3 DEF HandedInv, TypeOK
      <4>2. \A d \in Cmds : row'[d] = "active" <=> row[d] = "active"
        BY <1>1, <1>3, <2>5, <4>1 DEF Settle, TypeOK
      <4>3. \A d \in Cmds : queued'[d] = "succeeded" => status'[d] \notin Undecided
        BY <1>1, <1>2, <1>3, <2>5, <3>3, <4>1 DEF HandedInv, TypeOK
      <4> QED BY Zenon, <1>2, <2>1, <2>5, <3>1, <3>3, <4>2, <4>3 DEF HandedInv
    <3> QED BY <3>2, <3>3
  <2> QED BY Zenon, <2>2, <2>3, <2>4, <2>5
<1> QED BY <1>4, <1>5, <1>6, <1>7, <1>8

LEMMA NextStep == ASSUME N \in Nat, Inv, [Next]_vars PROVE Inv'
<1>1. CASE Worker
  BY <1>1, RunStep, RotateStep, AnsweredStep, SetStep, QueueStep, MarkStep,
     RedeliveredStep DEF Worker
<1>2. CASE Crash \/ Complete
  BY <1>2, CrashStep, CompleteStep
<1>3. CASE \E c \in Cmds : Escrow(c) \/ UpsertPendingAdminPassword(c)
  BY <1>3, EscrowStep, UpsertStep
<1>4. CASE \E c \in Cmds : RevealAdminPassword(c)
  BY <1>4, RevealStep
<1>5. CASE UNCHANGED vars
  BY <1>5 DEF vars, Inv, TypeOK, OrderInv, RunInv, RowInv, HandedInv
<1> QED BY Zenon, <1>1, <1>2, <1>3, <1>4, <1>5 DEF Next

-------------------------------------------------------------------------------

\* Agent and server keep Inv, for any number of rotations and of crashes.
THEOREM Invariance == ASSUME N \in Nat PROVE Spec => []Inv
<1>1. Init => Inv
  BY InitInv
<1>2. Inv /\ [Next]_vars => Inv'
  BY NextStep
<1> QED BY <1>1, <1>2, PTL DEF Spec

\* The password an account has is always one the server has in escrow: rotate.go
\* sets nothing before the server's answer, and no row is ever removed.
THEOREM Known == ASSUME N \in Nat PROVE Spec => []PasswordKnown
<1>1. Inv => PasswordKnown
  BY DEF Inv, RowInv, TypeOK, PasswordKnown
<1> QED BY <1>1, Invariance, PTL

\* Once its result is in, the password that was set is the active one and the
\* only one, though results are sent again and requests come late
\* (store.SettleAdminPassword, session.FlushResults).
THEOREM ActiveAndSetAgree == ASSUME N \in Nat PROVE Spec => []ActiveIsSet
<1>1. Inv => ActiveIsSet
  BY DEF Inv, HandedInv, ActiveIsSet
<1> QED BY <1>1, Invariance, PTL

\* A superseded or abandoned password never becomes current again, and an active
\* one is only ever superseded (UpsertPendingAdminPassword, SettleAdminPassword).
THEOREM SettledForGood == ASSUME N \in Nat PROVE Spec => SettledOnce
<1>1. ASSUME Inv, Next PROVE SettledOnceStep
  <2>1. CASE Complete
    <3>1. \/ UNCHANGED row
          \/ \E c, b : row' = Settle(c, b)
      BY <2>1 DEF Complete
    <3> QED BY <3>1 DEF SettledOnceStep, Settle
  <2>2. CASE \E c \in Cmds : UpsertPendingAdminPassword(c)
    BY <1>1, <2>2 DEF UpsertPendingAdminPassword, Inv, TypeOK, SettledOnceStep
  <2>3. CASE UNCHANGED row
    BY Zenon, <2>3 DEF SettledOnceStep
  <2>4. Complete \/ (\E c \in Cmds : UpsertPendingAdminPassword(c)) \/ UNCHANGED row
    BY Zenon, <1>1 DEF Next, Worker, Run, RotateAdminPassword, EscrowAnswered, SetPassword,
                QueueResult, MarkCompleted, Redelivered, Crash, Escrow, RevealAdminPassword
  <2> QED BY <2>1, <2>2, <2>3, <2>4
<1>2. Inv /\ [Next]_vars => [SettledOnceStep]_vars
  BY <1>1
<1> QED BY <1>2, Invariance, PTL DEF Spec, SettledOnce

===============================================================================
