---------------------------- MODULE CommandPromise ----------------------------
(***************************************************************************)
(* What the command queue promises whoever queued a command, with no       *)
(* network, agent, ledger or crash in sight: a command issued runs at most *)
(* once; it is settled once, with a verdict that claims a run only if      *)
(* there was one; and the verdict stands until the command is forgotten.   *)
(***************************************************************************)
EXTENDS Naturals

CONSTANT Cmd

VARIABLES phase, ran, verdict

vars == <<phase, ran, verdict>>

Init ==
    /\ phase = [c \in Cmd |-> "none"]
    /\ ran = [c \in Cmd |-> 0]
    /\ verdict = [c \in Cmd |-> "none"]

Issue(c) ==
    /\ phase[c] = "none"
    /\ phase' = [phase EXCEPT ![c] = "open"]
    /\ UNCHANGED <<ran, verdict>>

\* A run may come after the verdict: a command that expires after it was
\* delivered may still be carried out.
Run(c) ==
    /\ phase[c] # "none" /\ ran[c] = 0
    /\ ran' = [ran EXCEPT ![c] = 1]
    /\ UNCHANGED <<phase, verdict>>

Settle(c, v) ==
    /\ phase[c] = "open"
    /\ v \in {"run", "panic"} => ran[c] = 1
    /\ phase' = [phase EXCEPT ![c] = "settled"]
    /\ verdict' = [verdict EXCEPT ![c] = v]
    /\ UNCHANGED ran

\* Several commands may expire together.
Expire(S) ==
    /\ \A c \in S : phase[c] = "open"
    /\ phase' = [c \in Cmd |-> IF c \in S THEN "settled" ELSE phase[c]]
    /\ verdict' = [c \in Cmd |-> IF c \in S THEN "expired" ELSE verdict[c]]
    /\ UNCHANGED ran

Forget(c) ==
    /\ phase[c] = "settled"
    /\ phase' = [phase EXCEPT ![c] = "forgotten"]
    /\ verdict' = [verdict EXCEPT ![c] = "none"]
    /\ UNCHANGED ran

Next ==
    \/ \E c \in Cmd : Issue(c) \/ Run(c) \/ Forget(c)
    \/ \E c \in Cmd, v \in {"run", "panic", "restart"} : Settle(c, v)
    \/ \E S \in SUBSET Cmd : Expire(S)

Spec == Init /\ [][Next]_vars
===============================================================================
