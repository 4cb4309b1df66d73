------------------------------- MODULE Policy -------------------------------
(* The agent's configuration profiles (agent/policy): every check-in starts  *)
(* a Sync in a goroutine of its own, which fetches the profiles it was told  *)
(* of and then, one at a time, reconciles the machine with them: apply, undo *)
(* what was removed, remember, report.  What outlives the process is the     *)
(* machine, the state from before Retune's first change, the record of each  *)
(* profile and the cached versions.                                          *)
EXTENDS Naturals, Sequences, FiniteSets, Functions

CONSTANTS Profiles,
          Identities,  \* Setting.Identity: what two profiles can disagree about
          Fields,      \* the values a setting of one identity may name
          Definitions, \* the sets of profile versions considered
          Syncs,       \* check-ins whose goroutine may be running at once
          MaxEdits,    \* bound on changes of assignment
          MaxDrift,    \* bound on changes by the machine's user
          MaxFaults,   \* bound on failures and crashes
          None

VARIABLES def,      \* each profile's versions: settings by identity, and whether signed
          target,   \* the server's assignment: version and revert_on_removal
          syncs,    \* each Sync before its reconcile: what it was told, what it fetched
          run,      \* the reconcile that holds the lock
          machine,  \* the value of each field: up to MaxDrift if the user's, else Retune's
          prior,    \* priorRecord of each identity
          records,  \* Record of each profile
          cache,    \* the cached version of each profile, 0 for none
          edits, drift, faults,
          lost      \* ghost: identities set without their prior state recorded

bounds == <<edits, drift, faults>>
vars == <<def, target, syncs, run, machine, prior, records, cache, bounds, lost>>

Settings(p, v) == def[p][v].settings
IsUsers(value) == value <= MaxDrift

\* One failure more.
Fault == faults < MaxFaults /\ faults' = faults + 1

-----------------------------------------------------------------------------
\* The server's side: what a check-in answers, as far as profiles go.
Assign(p, v, revert) ==
    /\ edits < MaxEdits
    /\ target[p] # [version |-> v, revert |-> revert]
    /\ target' = [target EXCEPT ![p] = [version |-> v, revert |-> revert]]
    /\ edits' = edits + 1
    /\ UNCHANGED <<def, syncs, run, machine, prior, records, cache, drift, faults, lost>>

Unassign(p) ==
    /\ target[p] # None
    /\ target' = [target EXCEPT ![p] = None]
    /\ UNCHANGED <<def, syncs, run, machine, prior, records, cache, bounds, lost>>

\* The user, or other software, changes a value to one of their own.
Drift(i, f) ==
    /\ drift < MaxDrift
    /\ drift' = drift + 1
    /\ machine' = [machine EXCEPT ![i][f] = drift + 1]
    /\ run' = IF run = None THEN None ELSE [run EXCEPT !.drifted = @ \cup {i}]
    /\ UNCHANGED <<def, target, syncs, prior, records, cache, edits, faults, lost>>

-----------------------------------------------------------------------------

\* A check-in hands its items to the syncer and does not wait for it; an
\* empty list is handed over too.
Dispatch(s) ==
    /\ syncs[s] = None
    /\ syncs' = [syncs EXCEPT ![s] =
         [items |-> Restrict(target, {p \in Profiles : target[p] # None}), fetched |-> None]]
    /\ UNCHANGED <<def, target, run, machine, prior, records, cache, bounds, lost>>

\* A version that is not cached is fetched and cached.  The server refuses one
\* no longer assigned; a refusal or a failure leaves the profile out.
Fetch(s) ==
    /\ syncs[s] # None /\ syncs[s].fetched = None
    /\ LET items   == syncs[s].items
           missing == {p \in DOMAIN items : cache[p] # items[p].version}
           refused == {p \in missing : target[p] = None}
       IN \E failed \in SUBSET missing :
            /\ refused \subseteq failed
            /\ IF failed = refused THEN UNCHANGED faults ELSE Fault
            /\ syncs' = [syncs EXCEPT ![s].fetched = DOMAIN items \ failed]
            /\ cache' = [p \in Profiles |->
                           IF p \in missing \ failed THEN items[p].version ELSE cache[p]]
    /\ UNCHANGED <<def, target, run, machine, prior, records, edits, drift, lost>>

\* An agent built to require operations signatures holds what is not signed.
Held(p, v) == ~def[p][v].signed

-----------------------------------------------------------------------------
\* What the profiles of a reconcile ask for, by identity.
Active == {p \in DOMAIN run.assigned : ~Held(p, run.assigned[p].version)}
Claimed(p) == DOMAIN Settings(p, run.assigned[p].version)
Claims(i) == {p \in Active : i \in Claimed(p)}
Wants(i) == {Settings(p, run.assigned[p].version)[i] : p \in Claims(i)}
StillClaimed == UNION {Claimed(p) : p \in DOMAIN run.assigned}

\* Plan: claims that differ are a conflict.
Conflict(i) == Cardinality(Wants(i)) > 1
Setting(i) == CHOOSE s \in Wants(i) : TRUE

Matches(i, s) == \A f \in DOMAIN s : machine[i][f] = s[f]

\* Reconcile begins, once the one before is over.
Begin(s) ==
    /\ run = None /\ syncs[s] # None /\ syncs[s].fetched # None
    /\ run' = [sync |-> s, step |-> "apply",
               assigned |-> Restrict(syncs[s].items, syncs[s].fetched),
               results |-> [i \in Identities |-> None], drifted |-> {}]
    /\ UNCHANGED <<def, target, syncs, machine, prior, records, cache, bounds, lost>>

ToApply == {i \in Identities : Claims(i) # {} /\ run.results[i] = None}
Result(i, status) == run' = [run EXCEPT !.results[i] = status]

\* apply, when the setting stands as it is: agreed on nowhere, met already,
\* not for this machine, or beyond the handler.
Leave(i) ==
    /\ run # None /\ run.step = "apply" /\ i \in ToApply
    /\ \/ Conflict(i) /\ Result(i, "conflict") /\ UNCHANGED faults
       \/ ~Conflict(i) /\ Matches(i, Setting(i)) /\ Result(i, "compliant") /\ UNCHANGED faults
       \/ ~Conflict(i) /\ \E status \in {"not_applicable", "error"} : Result(i, status) /\ Fault
    /\ UNCHANGED <<def, target, syncs, machine, prior, records, cache, edits, drift, lost>>

RememberEveryTime(i) ==
    prior' = [prior EXCEPT ![i] = [setting |-> Setting(i), state |-> machine[i]]]

\* rememberPrior: only the first time.
RememberPrior(i) ==
    prior' = [prior EXCEPT ![i] =
                IF @ = None THEN [setting |-> Setting(i), state |-> machine[i]] ELSE @]

Write(i, s, fs) ==
    machine' = [machine EXCEPT ![i] = [f \in Fields |-> IF f \in fs THEN s[f] ELSE @[f]]]

\* The second test, after Set has written the fields fs.
Retest(i, s, fs) ==
    IF \A f \in DOMAIN s \ fs : machine[i][f] = s[f] THEN "remediated" ELSE "error"

\* apply, when the machine does not match: remember, set and test again.  The
\* prior state may fail to be written, which is only logged; the handler may
\* fail half way, or say it succeeded and have changed nothing.
Remediate(i) ==
    /\ run # None /\ run.step = "apply" /\ i \in ToApply
    /\ ~Conflict(i) /\ ~Matches(i, Setting(i))
    /\ LET s == Setting(i)
       IN \/ RememberPrior(i) /\ Write(i, s, DOMAIN s) /\ Result(i, "remediated")
             /\ UNCHANGED <<lost, faults>>
          \/ prior[i] = None /\ UNCHANGED prior /\ Write(i, s, DOMAIN s)
             /\ Result(i, "remediated") /\ lost' = lost \cup {i} /\ Fault
          \/ \E fs \in SUBSET DOMAIN s :
               /\ RememberPrior(i) /\ Write(i, s, fs) /\ Fault /\ UNCHANGED lost
               /\ \E status \in {"error", Retest(i, s, fs)} : Result(i, status)
    /\ UNCHANGED <<def, target, syncs, records, cache, edits, drift>>

Applied ==
    /\ run # None /\ run.step = "apply" /\ ToApply = {}
    /\ run' = [run EXCEPT !.step = "forget"]
    /\ UNCHANGED <<def, target, syncs, machine, prior, records, cache, bounds, lost>>

-----------------------------------------------------------------------------

Removed == {p \in Profiles : records[p] # None /\ p \notin DOMAIN run.assigned}

\* The identities a removed profile's revert restores.
ToRevert(p) ==
    IF records[p].revert
    THEN {i \in records[p].identities : prior[i] # None /\ i \notin StillClaimed}
    ELSE {}

\* revert: the fields of the setting first applied, put back.
Restored(i) == [f \in Fields |-> IF f \in DOMAIN prior[i].setting
                                 THEN prior[i].state[f] ELSE machine[i][f]]

\* forgetRemoved, for one profile.  A revert that fails is only logged, and
\* keeps the prior state; so does one whose prior state is not deleted.
Forget(p) ==
    /\ run # None /\ run.step = "forget" /\ p \in Removed
    /\ \E failed \in SUBSET ToRevert(p), kept \in SUBSET ToRevert(p) :
         /\ failed \subseteq kept
         /\ IF kept = {} THEN UNCHANGED faults ELSE Fault
         /\ machine' = [i \in Identities |->
                          IF i \in ToRevert(p) \ failed THEN Restored(i) ELSE machine[i]]
         /\ prior' = [i \in Identities |-> IF i \in ToRevert(p) \ kept THEN None ELSE prior[i]]
    /\ records' = [records EXCEPT ![p] = None]
    /\ UNCHANGED <<def, target, syncs, run, cache, edits, drift, lost>>

\* The records cannot be read, or one not deleted: the rest is left.
ForgetFails ==
    /\ run # None /\ run.step = "forget" /\ Removed # {}
    /\ Fault
    /\ run' = [run EXCEPT !.step = "record"]
    /\ UNCHANGED <<def, target, syncs, machine, prior, records, cache, edits, drift, lost>>

\* SetProfileRecord for every active profile; one that fails is only logged.
Remember ==
    /\ run # None
    /\ \/ run.step = "forget" /\ Removed = {}
       \/ run.step = "record"
    /\ \E failed \in SUBSET Active :
         /\ IF failed = {} THEN UNCHANGED faults ELSE Fault
         /\ records' = [p \in Profiles |->
              IF p \in Active \ failed
              THEN [identities |-> Claimed(p), revert |-> run.assigned[p].revert]
              ELSE records[p]]
    /\ run' = [run EXCEPT !.step = "report"]
    /\ UNCHANGED <<def, target, syncs, machine, prior, cache, edits, drift, lost>>

\* ReportProfileStatus sends each profile the results of its settings, a held
\* one errors for all of them; a report that fails is made again next time.
Report ==
    /\ run # None /\ run.step = "report"
    /\ syncs' = [syncs EXCEPT ![run.sync] = None]
    /\ run' = None
    /\ UNCHANGED <<def, target, machine, prior, records, cache, bounds, lost>>

\* The agent stops: what was under way is gone.
Crash ==
    /\ Fault
    /\ syncs' = [s \in Syncs |-> None] /\ run' = None
    /\ UNCHANGED <<def, target, machine, prior, records, cache, edits, drift, lost>>

-----------------------------------------------------------------------------
Init ==
    /\ def \in Definitions
    /\ target = [p \in Profiles |-> None]
    /\ syncs = [s \in Syncs |-> None]
    /\ run = None
    /\ machine = [i \in Identities |-> [f \in Fields |-> 0]]
    /\ prior = [i \in Identities |-> None]
    /\ records = [p \in Profiles |-> None]
    /\ cache = [p \in Profiles |-> 0]
    /\ edits = 0 /\ drift = 0 /\ faults = 0
    /\ lost = {}

Reconcile ==
    \/ \E i \in Identities : Leave(i) \/ Remediate(i)
    \/ Applied
    \/ \E p \in Profiles : Forget(p)
    \/ ForgetFails
    \/ Remember
    \/ Report

Next ==
    \/ \E p \in Profiles :
         \/ \E v \in DOMAIN def[p], revert \in BOOLEAN : Assign(p, v, revert)
         \/ Unassign(p)
    \/ \E i \in Identities, f \in Fields : Drift(i, f)
    \/ \E s \in Syncs : Dispatch(s) \/ Fetch(s) \/ Begin(s)
    \/ Reconcile
    \/ Crash

Spec == Init /\ [][Next]_vars
-----------------------------------------------------------------------------

\* Every version that sets an identity names the same fields of it.
SameFields(i) ==
    \A p, q \in Profiles : \A v \in DOMAIN def[p], w \in DOMAIN def[q] :
        i \in DOMAIN Settings(p, v) \cap DOMAIN Settings(q, w) =>
            DOMAIN Settings(p, v)[i] = DOMAIN Settings(q, w)[i]

\* A value of Retune's can be put back to one of the user's: the state
\* recorded first is kept through drift, edits, conflicts, crashes and reverts
\* (rememberPrior, "so a revert restores the original rather than whatever
\* Retune last wrote").  Not where recording it failed, nor where a later
\* version names fields the first did not.
AlwaysRevertible ==
    \A i \in Identities \ lost : SameFields(i) =>
        \A f \in Fields : ~IsUsers(machine[i][f]) =>
            /\ prior[i] # None
            /\ f \in DOMAIN prior[i].setting
            /\ IsUsers(prior[i].state[f])

=============================================================================
