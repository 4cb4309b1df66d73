-------------------------------- MODULE Fleet --------------------------------
(***************************************************************************)
(* How what a device reports reaches its group and its compliance state:   *)
(* inventory ingestion (inventory/service.go), derived group membership    *)
(* (groups/service.go) and compliance evaluation (compliance/service.go),  *)
(* with the sweeper's jobs, an administrator's edits and the evaluation    *)
(* pass an administrator starts, all running at once over one store.       *)
(*                                                                         *)
(* One derived group and one policy assigned to it.  A device's inventory  *)
(* is a value; the group's rule and the policy are the sets of values they *)
(* match and accept.  Transactions run at READ COMMITTED: each statement   *)
(* sees what is committed, so the reads of one evaluation are separate     *)
(* steps, and writes are held back until the commit.                       *)
(***************************************************************************)
EXTENDS Naturals, FiniteSets, FiniteSetsExt

CONSTANTS
    Devices, Values, None,
    GroupRules,     \* the rules a group may have: subsets of Values \cup {None}
    Policies,       \* the contents a policy may have: subsets of Values
    Builtin,        \* the group is the built-in one, which has no rule
    Workers,        \* which of the goroutines below run
    MaxChanges,     \* bound on the machines' changes
    MaxEdits,       \* bound on the administrators' edits
    MaxFaults       \* bound on failed statements, lost replies and restarts

VARIABLES
    machine,        \* what is really on each device
    inv,            \* device_inventory, None before the first upload
    acked,          \* the agent's hash is the stored one
    aged,           \* the stored inventory is RefreshAfter old
    active,         \* devices with status active
    rule,           \* device_groups.rule
    member,         \* group_members
    policy,         \* compliance_policies.rules, None when there is no such policy
    assigned,       \* the assignment of the policy to the group
    comp,           \* device_compliance
    mirror,         \* device_item_status rows of kind compliance
    at,             \* each goroutine's place
    lock,           \* who holds the row of each device until it commits
    deleting,       \* a Delete in progress: None, or the mirror rows it removed
    evaluating,     \* Service.evaluating for the policy
    left            \* what is left of the bounds

vars == <<machine, inv, acked, aged, active, rule, member, policy, assigned, comp,
          mirror, at, lock, deleting, evaluating, left>>

Idle == [pc |-> "idle", dev |-> None, todo |-> {}, val |-> None, state |-> None, rule |-> {}, ids |-> {}]

Match(r) == {d \in active : inv[d] \in r}

\* Evaluate over the facts read; no inventory is unknown.
Verdict(p, v) == IF v = None THEN "unknown" ELSE IF v \in p THEN "compliant" ELSE "non_compliant"

Effective(d) == d \in member /\ assigned

\* What the compliance tables should say of d.
Expected(d) ==
    IF Effective(d) /\ policy # None THEN Verdict(policy, inv[d]) ELSE None

Init ==
    /\ machine \in [Devices -> Values]
    /\ inv = [d \in Devices |-> None]
    /\ acked = {} /\ aged = {}
    /\ active = Devices
    /\ rule \in GroupRules
    /\ member = {}
    /\ policy \in Policies
    /\ assigned = TRUE
    /\ comp = [d \in Devices |-> None]
    /\ mirror = [d \in Devices |-> None]
    /\ at = [w \in {"ingest", "sweep", "pass", "groups", "admin"} |-> Idle]
    /\ lock = [d \in Devices |-> None]
    /\ deleting = None
    /\ evaluating = FALSE
    /\ left = [changes |-> MaxChanges, edits |-> MaxEdits, faults |-> MaxFaults]

Spend(what) == left[what] > 0 /\ left' = [left EXCEPT ![what] = @ - 1]

Go(w, pc) == at' = [at EXCEPT ![w].pc = pc]

-----------------------------------------------------------------------------
(* Inventory: Due, Ingest and the reply.                                   *)

Due(d) == inv[d] = None \/ d \notin acked \/ d \in aged

\* The document is stored in a transaction of its own.
Ingest(d) ==
    /\ "ingest" \in Workers
    /\ at["ingest"].pc = "idle" /\ d \in active /\ Due(d)
    /\ inv' = [inv EXCEPT ![d] = machine[d]]
    /\ aged' = aged \ {d}
    /\ acked' = acked \ {d}
    /\ at' = [at EXCEPT !["ingest"] = [Idle EXCEPT !.pc = "groups", !.dev = d]]
    /\ UNCHANGED <<machine, active, rule, member, policy, assigned, comp, mirror,
                   lock, deleting, evaluating, left>>

\* Groups.EvaluateDevice: the derived groups and what their rules match now...
MatchDevice ==
    /\ at["ingest"].pc = "groups"
    /\ at' = [at EXCEPT !["ingest"].pc = "member", !["ingest"].ids = Match(rule)]
    /\ UNCHANGED <<machine, inv, acked, aged, active, rule, member, policy, assigned,
                   comp, mirror, lock, deleting, evaluating, left>>

\* ... and SetDeviceGroupMembership for this device.
SetDevice ==
    /\ at["ingest"].pc = "member"
    /\ LET d == at["ingest"].dev
       IN  member' = IF d \in at["ingest"].ids THEN member \cup {d} ELSE member \ {d}
    /\ Go("ingest", "items")
    /\ UNCHANGED <<machine, inv, acked, aged, active, rule, policy, assigned, comp,
                   mirror, lock, deleting, evaluating, left>>

-----------------------------------------------------------------------------
(* Compliance.EvaluateDevice, run by ingest, the sweep and the pass.       *)

Evaluators == {"ingest", "sweep", "pass"}

\* The next device of a sweep or a pass; an ingest has only its own.
Advance(w) ==
    IF at[w].todo = {} THEN Idle
    ELSE LET d == Min(at[w].todo)
         IN  [at[w] EXCEPT !.pc = "items", !.dev = d, !.todo = @ \ {d}]

\* The agent is told its inventory was stored only when the ingest is done.
Reply(w) == acked' = IF w = "ingest" THEN acked \cup {at[w].dev} ELSE acked

\* The pass over: the policy leaves Service.evaluating.
EndPass(w) == evaluating' = (evaluating /\ ~ (w = "pass" /\ at[w].todo = {}))

Done(w) == at' = [at EXCEPT ![w] = Advance(w)] /\ Reply(w) /\ EndPass(w)

\* No policy applies: every row goes, in both tables.
NotAssigned(w) ==
    /\ at[w].pc = "items" /\ ~ Effective(at[w].dev) /\ lock[at[w].dev] = None
    /\ comp' = [comp EXCEPT ![at[w].dev] = None]
    /\ mirror' = [mirror EXCEPT ![at[w].dev] = None]
    /\ Done(w)
    /\ UNCHANGED <<machine, inv, aged, active, rule, member, policy, assigned, lock,
                   deleting, left>>

\* EffectiveItems names the policy.
ReadItems(w) ==
    /\ at[w].pc = "items" /\ Effective(at[w].dev)
    /\ Go(w, "facts")
    /\ UNCHANGED <<machine, inv, acked, aged, active, rule, member, policy, assigned,
                   comp, mirror, lock, deleting, evaluating, left>>

buildFacts(w) ==
    /\ at[w].pc = "facts"
    /\ at' = [at EXCEPT ![w].pc = "score", ![w].val = inv[at[w].dev]]
    /\ UNCHANGED <<machine, inv, acked, aged, active, rule, member, policy, assigned,
                   comp, mirror, lock, deleting, evaluating, left>>

\* The policy is not there: it is skipped, and its rows are dropped.
evaluateOneMissing(w) ==
    /\ at[w].pc = "score" /\ policy = None /\ lock[at[w].dev] = None
    /\ comp' = [comp EXCEPT ![at[w].dev] = None]
    /\ mirror' = [mirror EXCEPT ![at[w].dev] = None]
    /\ Done(w)
    /\ UNCHANGED <<machine, inv, aged, active, rule, member, policy, assigned, lock,
                   deleting, left>>

\* The verdict of the policy as it is now on the facts read before.
evaluateOne(w) ==
    /\ at[w].pc = "score" /\ policy # None
    /\ at' = [at EXCEPT ![w].pc = "write", ![w].val = None, ![w].state = Verdict(policy, at[w].val)]
    /\ UNCHANGED <<machine, inv, acked, aged, active, rule, member, policy, assigned,
                   comp, mirror, lock, deleting, evaluating, left>>

\* UpsertDeviceCompliance and SetItemStatus take the row, waiting for whoever
\* holds it.
Upsert(w) ==
    /\ at[w].pc = "write" /\ lock[at[w].dev] = None /\ policy # None
    /\ lock' = [lock EXCEPT ![at[w].dev] = w]
    /\ Go(w, "commit")
    /\ UNCHANGED <<machine, inv, acked, aged, active, rule, member, policy, assigned,
                   comp, mirror, deleting, evaluating, left>>

\* The policy was deleted meanwhile: the foreign key refuses the row, and the
\* device's evaluation fails.
UpsertRefused(w) ==
    /\ at[w].pc = "write" /\ lock[at[w].dev] = None /\ policy = None
    /\ Done(w)
    /\ UNCHANGED <<machine, inv, aged, active, rule, member, policy, assigned, comp,
                   mirror, lock, deleting, left>>

Commit(w) ==
    /\ at[w].pc = "commit"
    /\ comp' = [comp EXCEPT ![at[w].dev] = at[w].state]
    /\ mirror' = [mirror EXCEPT ![at[w].dev] = at[w].state]
    /\ lock' = [lock EXCEPT ![at[w].dev] = None]
    /\ Done(w)
    /\ UNCHANGED <<machine, inv, aged, active, rule, member, policy, assigned,
                   deleting, left>>

\* A statement fails: the transaction is rolled back, the error is logged and
\* the next device is taken.
EvaluationFails(w) ==
    /\ at[w].pc \in {"items", "facts", "score", "write", "commit"}
    /\ Spend("faults")
    /\ lock' = [d \in Devices |-> IF lock[d] = w THEN None ELSE lock[d]]
    /\ Done(w)
    /\ UNCHANGED <<machine, inv, aged, active, rule, member, policy, assigned, comp,
                   mirror, deleting>>

EvaluateDevice(w) ==
    \/ NotAssigned(w) \/ ReadItems(w) \/ buildFacts(w) \/ evaluateOneMissing(w)
    \/ evaluateOne(w) \/ Upsert(w) \/ UpsertRefused(w) \/ Commit(w)

-----------------------------------------------------------------------------
(* What starts evaluations, and group evaluation.                          *)

\* The sweeper's compliance job: EvaluateActive over every active device.
EvaluateActive ==
    /\ "sweep" \in Workers
    /\ at["sweep"].pc = "idle" /\ active # {}
    /\ at' = [at EXCEPT !["sweep"] = [Idle EXCEPT !.pc = "items", !.dev = Min(active),
                                                  !.todo = active \ {Min(active)}]]
    /\ UNCHANGED <<machine, inv, acked, aged, active, rule, member, policy, assigned,
                   comp, mirror, lock, deleting, evaluating, left>>

\* ActiveDevicesForItem
Reached == IF assigned THEN member \cap active ELSE {}

\* StartPolicyEvaluation with no pass running: the goroutine is started; with
\* no device to score it ends at once.
StartPolicyEvaluation ==
    /\ "pass" \in Workers
    /\ policy # None /\ ~ evaluating
    /\ Spend("edits")
    /\ evaluating' = (Reached # {})
    /\ at' = IF Reached = {} THEN at
             ELSE [at EXCEPT !["pass"] = [Idle EXCEPT !.pc = "items", !.dev = Min(Reached),
                                                      !.todo = Reached \ {Min(Reached)}]]
    /\ UNCHANGED <<machine, inv, acked, aged, active, rule, member, policy, assigned,
                   comp, mirror, lock, deleting>>

\* A second request while one runs: "not a queued second pass, because the
\* pass already running will read the same edited policy".
StartRefused ==
    /\ policy # None /\ evaluating
    /\ Spend("edits")
    /\ UNCHANGED <<machine, inv, acked, aged, active, rule, member, policy, assigned,
                   comp, mirror, at, lock, deleting, evaluating>>

\* EvaluateGroup, by the sweeper's job (with the rule it listed) or after an
\* Update (with the rule it saved): what the rule matches...
SweepGroups ==
    /\ "groups" \in Workers
    /\ at["groups"].pc = "idle"
    /\ at' = [at EXCEPT !["groups"] = [Idle EXCEPT !.pc = "match", !.rule = rule]]
    /\ UNCHANGED <<machine, inv, acked, aged, active, rule, member, policy, assigned,
                   comp, mirror, lock, deleting, evaluating, left>>

MatchGroup(w) ==
    /\ at[w].pc = "match"
    /\ at' = [at EXCEPT ![w].pc = "set", ![w].ids = Match(at[w].rule)]
    /\ UNCHANGED <<machine, inv, acked, aged, active, rule, member, policy, assigned,
                   comp, mirror, lock, deleting, evaluating, left>>

\* Members are added and none removed.
SetMembersOnlyAdds(w) ==
    /\ at[w].pc = "set"
    /\ member' = member \cup at[w].ids
    /\ at' = [at EXCEPT ![w] = Idle]
    /\ UNCHANGED <<machine, inv, acked, aged, active, rule, policy, assigned, comp,
                   mirror, lock, deleting, evaluating, left>>

\* ... and SetGroupMembers, in one transaction.
SetMembers(w) ==
    /\ at[w].pc = "set"
    /\ member' = at[w].ids
    /\ at' = [at EXCEPT ![w] = Idle]
    /\ UNCHANGED <<machine, inv, acked, aged, active, rule, policy, assigned, comp,
                   mirror, lock, deleting, evaluating, left>>

-----------------------------------------------------------------------------
(* Administrators.                                                         *)

\* groups.Update: the new rule, then EvaluateGroup with it.
UpdateGroup ==
    /\ "admin" \in Workers
    /\ ~ Builtin /\ at["admin"].pc = "idle"
    /\ Spend("edits")
    /\ \E r \in GroupRules \ {rule} :
           /\ rule' = r
           /\ at' = [at EXCEPT !["admin"] = [Idle EXCEPT !.pc = "match", !.rule = r]]
    /\ UNCHANGED <<machine, inv, acked, aged, active, member, policy, assigned, comp,
                   mirror, lock, deleting, evaluating>>

\* compliance.Update: edited in place; nothing is re-evaluated by it.
UpdatePolicy ==
    /\ policy # None /\ deleting = None
    /\ Spend("edits")
    /\ policy' \in Policies \ {policy}
    /\ UNCHANGED <<machine, inv, acked, aged, active, rule, member, assigned, comp,
                   mirror, at, lock, deleting, evaluating>>

\* createAssignment (which does not look whether the policy exists) and its
\* removal.
Assign ==
    /\ deleting = None
    /\ Spend("edits")
    /\ assigned' = ~ assigned
    /\ UNCHANGED <<machine, inv, acked, aged, active, rule, member, policy, comp,
                   mirror, at, lock, deleting, evaluating>>

\* Delete: the assignments, the verdicts and the mirrored rows it can see go;
\* a row somebody holds is waited for.
Delete ==
    /\ policy # None /\ deleting = None
    /\ \A d \in Devices : mirror[d] # None => lock[d] = None
    /\ Spend("edits")
    /\ deleting' = {d \in Devices : mirror[d] # None}
    /\ lock' = [d \in Devices |-> IF mirror[d] # None THEN "admin" ELSE lock[d]]
    /\ UNCHANGED <<machine, inv, acked, aged, active, rule, member, policy, assigned,
                   comp, mirror, at, evaluating>>

\* The policy row last, which waits for every verdict being inserted; then the
\* commit, with device_compliance cascading.
DeleteCommit ==
    /\ deleting # None
    /\ \A d \in Devices : lock[d] \in {None, "admin"}
    /\ policy' = None
    /\ assigned' = FALSE
    /\ comp' = [d \in Devices |-> None]
    /\ mirror' = [d \in Devices |-> IF d \in deleting THEN None ELSE mirror[d]]
    /\ lock' = [d \in Devices |-> None]
    /\ deleting' = None
    /\ UNCHANGED <<machine, inv, acked, aged, active, rule, member, at, evaluating,
                   left>>

\* A device is retired.
Retire(d) ==
    /\ d \in active
    /\ Spend("edits")
    /\ active' = active \ {d}
    /\ UNCHANGED <<machine, inv, acked, aged, rule, member, policy, assigned, comp,
                   mirror, at, lock, deleting, evaluating>>

-----------------------------------------------------------------------------
(* The machines, the clock, and faults.                                    *)

Change(d) ==
    /\ Spend("changes")
    /\ machine' \in {[machine EXCEPT ![d] = v] : v \in Values \ {machine[d]}}
    /\ UNCHANGED <<inv, acked, aged, active, rule, member, policy, assigned, comp,
                   mirror, at, lock, deleting, evaluating>>

Age(d) ==
    /\ inv[d] # None /\ d \notin aged /\ inv[d] # machine[d]
    /\ aged' = aged \cup {d}
    /\ UNCHANGED <<machine, inv, acked, active, rule, member, policy, assigned, comp,
                   mirror, at, lock, deleting, evaluating, left>>

\* Group evaluation fails: membership stays as it was, and an ingest goes on.
GroupsFail(w) ==
    /\ at[w].pc \in {"groups", "member", "match", "set"}
    /\ Spend("faults")
    /\ at' = [at EXCEPT ![w] = IF w = "ingest" THEN [@ EXCEPT !.pc = "items"] ELSE Idle]
    /\ UNCHANGED <<machine, inv, acked, aged, active, rule, member, policy, assigned,
                   comp, mirror, lock, deleting, evaluating>>

\* The server stops and starts: every goroutine is gone, transactions are
\* rolled back, and nobody remembers the pass.
Restart ==
    /\ \E w \in DOMAIN at : at[w].pc # "idle"
    /\ Spend("faults")
    /\ at' = [w \in DOMAIN at |-> Idle]
    /\ lock' = [d \in Devices |-> None]
    /\ deleting' = None
    /\ evaluating' = FALSE
    /\ UNCHANGED <<machine, inv, acked, aged, active, rule, member, policy, assigned,
                   comp, mirror>>

Next ==
    \/ \E d \in Devices : Ingest(d) \/ Retire(d) \/ Change(d) \/ Age(d)
    \/ MatchDevice \/ SetDevice
    \/ \E w \in Evaluators : EvaluateDevice(w) \/ EvaluationFails(w)
    \/ EvaluateActive \/ StartPolicyEvaluation \/ StartRefused \/ SweepGroups
    \/ \E w \in {"groups", "admin"} : MatchGroup(w) \/ SetMembers(w)
    \/ \E w \in {"ingest", "groups", "admin"} : GroupsFail(w)
    \/ UpdateGroup \/ UpdatePolicy \/ Assign \/ Delete \/ DeleteCommit \/ Restart

\* Uploads are made at check-ins, which come round; the jobs run on tickers;
\* a goroutine that is running goes on, and a transaction ends.
Fairness ==
    /\ \A d \in Devices : WF_vars(Ingest(d)) /\ WF_vars(Age(d))
    /\ WF_vars(MatchDevice) /\ WF_vars(SetDevice)
    /\ \A w \in Evaluators : SF_vars(EvaluateDevice(w))
    /\ WF_vars(EvaluateActive) /\ WF_vars(SweepGroups)
    /\ \A w \in {"groups", "admin"} : WF_vars(MatchGroup(w) \/ SetMembers(w))
    /\ WF_vars(DeleteCommit)

Spec == Init /\ [][Next]_vars /\ Fairness

-----------------------------------------------------------------------------

\* Once machines, administrators and failures rest, every derived group holds
\* exactly the devices its rule matches, and every active device has exactly
\* the verdict of its policies on what is really on it.
FleetSettles ==
    <>[](/\ member = Match(rule)
         /\ \A d \in active : /\ inv[d] = machine[d]
                              /\ comp[d] = Expected(d)
                              /\ mirror[d] = comp[d])

=============================================================================
