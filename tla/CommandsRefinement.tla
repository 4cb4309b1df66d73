-------------------------- MODULE CommandsRefinement --------------------------
(* How a state of Commands is read as a state of CommandPromise. *)
EXTENDS Commands

PhaseOf(s) ==
    CASE s = "none"       -> "none"
      [] s \in Open       -> "open"
      [] s \in Terminal   -> "settled"
      [] s = "pruned"     -> "forgotten"

VerdictOf(s, r) == IF s = "expired" THEN "expired" ELSE r.by

phase   == [c \in Cmd |-> PhaseOf(status[c])]
verdict == [c \in Cmd |-> VerdictOf(status[c], stored[c])]

Promise == INSTANCE CommandPromise WITH ran <- executed

\* The agent's session and ledger and the server's commands service together
\* keep CommandPromise: one run at most, one verdict, and no verdict that
\* claims a run that did not happen.
KeepsPromise == Promise!Spec
===============================================================================
