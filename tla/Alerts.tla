------------------------------- MODULE Alerts -------------------------------
(***************************************************************************)
(* Alert rules and their delivery: internal/server/alerts, the alert        *)
(* handlers of adminapi/alerts.go, store/alerts.go, and the sweeper's       *)
(* RunOnce, which runs EvaluateAll on one replica at a time.                *)
(*                                                                         *)
(* A fact is something wrong in the fleet: its kind, the key of the subject *)
(* it is about, and what a rule's parameter can narrow (a policy, the hours *)
(* of silence, an item's kind).  EvaluateAll runs outside a transaction, on *)
(* the connection that holds the lock: each statement stands when a later   *)
(* one fails.  The wording of a message, the 30 days a delivery is kept and *)
(* the sealing of a channel's secret (module SecretKey) are left out.       *)
(***************************************************************************)
EXTENDS Naturals, FiniteSets

CONSTANTS
    Rules, Channels, Replicas,
    Facts,          \* records [kind, key, part]
    Requests,       \* what an administrator may ask for: [kind, params, channel, enabled],
                    \* each None to leave it as it is; params is a function of field names
    maxStaleHours,
    SMTPConfigured, \* whether the deployment has a relay
    MaxEdits,       \* bound: requests of administrators
    MaxChanges,     \* bound: changes of the fleet
    MaxFaults,      \* bound: crashes, failed statements and failed deliveries
    None

VARIABLES
    rules,          \* alert_rules: rule -> None or [kind, params, channel, enabled]
    channels,       \* notification_channels: channel -> None or [kind, enabled]
    facts,          \* what is wrong in the fleet now
    state,          \* alert_state: {[rule, key, notified]}
    deliveries,     \* the latest alert_deliveries row of a rule: "none", "ok", "failed"
    lock,           \* the replica holding the advisory lock, or None
    run,            \* replica -> its pass
    told,           \* <<rule, key>> whose recipients were last told it is firing
    missed,         \* <<rule, key>> cleared without its all-clear arriving
    unsure,         \* <<rule, key>> sent, and not marked as sent
    twice,          \* <<rule, key>> announced again for no such reason
    edits, changes, faults

data == <<rules, channels, facts, state, deliveries, lock, run>>
ghosts == <<told, missed, unsure, twice>>
vars == <<data, ghosts, edits, changes, faults>>

Kinds == {"device_non_compliant", "device_stale", "deployment_failed", "agent_rollout_halted"}
itemKinds == {"script", "app", "profile", "agent"}
Idle == [at |-> "idle", todo |-> {}, rule |-> None, newly |-> {}, resolved |-> {}]

-----------------------------------------------------------------------------
(* rules.go *)

allowedFields(kind) == CASE kind = "device_non_compliant" -> {"policy_id"}
                         [] kind = "device_stale" -> {"hours"}
                         [] kind = "deployment_failed" -> {"item_kind"}
                         [] OTHER -> {}
ParseParams(kind, p) ==
    /\ kind \in Kinds
    /\ DOMAIN p \subseteq allowedFields(kind)
    /\ kind = "device_stale" => "hours" \in DOMAIN p /\ p.hours \in 1 .. maxStaleHours
    /\ (kind = "deployment_failed" /\ "item_kind" \in DOMAIN p) => p.item_kind \in itemKinds

firing(kind, p) ==
    {f.key : f \in {g \in facts : /\ g.kind = kind
                                  /\ kind = "device_stale" => g.part >= p.hours
                                  /\ (kind # "device_stale" /\ DOMAIN p # {}) =>
                                         g.part = p[CHOOSE field \in DOMAIN p : TRUE]}}

-----------------------------------------------------------------------------
(* adminapi/alerts.go *)

Admin == edits < MaxEdits /\ edits' = edits + 1 /\ UNCHANGED <<changes, faults>>
Keep(new, old) == IF new = None THEN old ELSE new
Blank == [kind |-> "", params |-> None, channel |-> None, enabled |-> TRUE]

alertRuleFrom(req, base) ==
    LET rule == [kind |-> Keep(req.kind, base.kind),
                 params |-> Keep(Keep(req.params, base.params), [f \in {} |-> 0]),
                 channel |-> Keep(req.channel, base.channel),
                 enabled |-> Keep(req.enabled, base.enabled)]
    IN  IF /\ ParseParams(rule.kind, rule.params)
           /\ rule.channel # None /\ channels[rule.channel] # None
        THEN rule ELSE None

\* A rule's id is new: no pass is about it.
About(m) == {x.id : x \in run[m].todo}
            \cup (IF run[m].at \in {"deliver", "mark"} THEN {run[m].rule.id} ELSE {})
createAlertRule(r) ==
    /\ rules[r] = None /\ Admin
    /\ \A m \in Replicas : r \notin About(m)
    /\ \E req \in Requests : rules' = [rules EXCEPT ![r] = alertRuleFrom(req, Blank)]
    /\ UNCHANGED <<channels, facts, state, deliveries, lock, run, ghosts>>
updateAlertRule(r) ==
    /\ rules[r] # None /\ Admin
    /\ \E req \in Requests :
           LET rule == alertRuleFrom(req, rules[r])
           IN  rules' = [rules EXCEPT ![r] = IF rule = None THEN @ ELSE rule]
    /\ UNCHANGED <<channels, facts, state, deliveries, lock, run, ghosts>>
\* The rule's state and deliveries cascade.
deleteAlertRule(r) ==
    /\ rules[r] # None /\ Admin
    /\ rules' = [rules EXCEPT ![r] = None]
    /\ state' = {s \in state : s.rule # r}
    /\ deliveries' = [deliveries EXCEPT ![r] = "none"]
    /\ told' = {t \in told : t[1] # r} /\ missed' = {t \in missed : t[1] # r}
    /\ unsure' = {t \in unsure : t[1] # r}
    /\ UNCHANGED <<channels, facts, lock, run, twice>>
\* An email channel no relay could deliver for is refused.
validChannelConfig(kind) == kind = "email" => SMTPConfigured
createNotificationChannel(c) ==
    /\ channels[c] = None /\ Admin
    /\ \E kind \in {"email", "webhook"}, on \in BOOLEAN :
           /\ validChannelConfig(kind)
           /\ channels' = [channels EXCEPT ![c] = [kind |-> kind, enabled |-> on]]
    /\ UNCHANGED <<rules, facts, state, deliveries, lock, run, ghosts>>
updateNotificationChannel(c) ==
    /\ channels[c] # None /\ Admin
    /\ validChannelConfig(channels[c].kind)
    /\ channels' = [channels EXCEPT ![c].enabled = ~@]
    /\ UNCHANGED <<rules, facts, state, deliveries, lock, run, ghosts>>
\* The foreign key of a rule restricts: ErrInUse.
deleteNotificationChannel(c) ==
    /\ channels[c] # None /\ Admin
    /\ \A r \in Rules : rules[r] # None => rules[r].channel # c
    /\ channels' = [channels EXCEPT ![c] = None]
    /\ UNCHANGED <<rules, facts, state, deliveries, lock, run, ghosts>>

Change(f) ==
    /\ changes < MaxChanges /\ changes' = changes + 1
    /\ facts' = IF f \in facts THEN facts \ {f} ELSE facts \cup {f}
    /\ UNCHANGED <<rules, channels, state, deliveries, lock, run, ghosts, edits, faults>>

-----------------------------------------------------------------------------
(* sweeper.RunOnce and alerts.EvaluateAll, a statement at a time *)

Fault == faults < MaxFaults /\ faults' = faults + 1
Fine == faults' = faults
At(m, p) == run[m].at = p
Goto(m, p) == run' = [run EXCEPT ![m].at = p]
Next1(m) == run' = [run EXCEPT ![m] = [Idle EXCEPT !.at = "next", !.todo = run[m].todo]]
Step == UNCHANGED <<edits, changes>>
Pairs(r, keys) == {<<r, k>> : k \in keys}

\* Mutant: a replica does not wait for the lock.
WithAdvisoryLockAnyway(m) ==
    /\ At(m, "idle") /\ Fine
    /\ lock' = m /\ Goto(m, "list")
    /\ UNCHANGED <<rules, channels, facts, state, deliveries, ghosts>> /\ Step
\* WithAdvisoryLock: a replica that finds the lock taken skips the tick.
WithAdvisoryLock(m) ==
    /\ At(m, "idle") /\ lock = None /\ Fine
    /\ lock' = m /\ Goto(m, "list")
    /\ UNCHANGED <<rules, channels, facts, state, deliveries, ghosts>> /\ Step

ListAlertRules(m) ==
    /\ At(m, "list") /\ Fine
    /\ run' = [run EXCEPT ![m].at = "next",
                          ![m].todo = {[id |-> r, rule |-> rules[r]] :
                                         r \in {x \in Rules : rules[x] # None /\ rules[x].enabled}}]
    /\ UNCHANGED <<rules, channels, facts, state, deliveries, lock, ghosts>> /\ Step

\* What the message calls new: not seen, or seen and never announced.
Newly(found, known) == {k \in found : \A s \in known : s.key = k => ~s.notified}
Resolved(found, known) == {s.key : s \in {x \in known : x.key \notin found /\ x.notified}}

\* evaluateRule up to its message.  Inserting fails when the rule has been
\* deleted, or in the middle: what is inserted stays.
evaluateRule(m) ==
    /\ At(m, "next")
    /\ \E x \in run[m].todo :
           LET found == firing(x.rule.kind, x.rule.params)
               known == {s \in state : s.rule = x.id}
               fresh(keys) == {[rule |-> x.id, key |-> k, notified |-> FALSE] :
                                 k \in {l \in keys : \A s \in known : s.key # l}}
               failed(keys) ==
                   /\ state' = state \cup fresh(keys)
                   /\ run' = [run EXCEPT ![m].todo = @ \ {x}]
               new  == Newly(found, known)
               gone == Resolved(found, known)
           IN  \/ /\ rules[x.id] = None /\ found # {} /\ Fine
                  /\ failed({})
               \/ /\ rules[x.id] # None /\ Fault
                  /\ \E keys \in SUBSET found : keys # found /\ failed(keys)
               \/ /\ rules[x.id] # None \/ found = {}
                  /\ Fine
                  /\ state' = (state \ {s \in known : s.key \notin found}) \cup fresh(found)
                  /\ run' = [run EXCEPT ![m] =
                                IF new \cup gone = {} THEN [@ EXCEPT !.todo = @ \ {x}]
                                ELSE [at |-> "deliver", todo |-> run[m].todo \ {x}, rule |-> x,
                                      newly |-> new, resolved |-> gone]]
    /\ UNCHANGED <<rules, channels, facts, deliveries, lock, ghosts>> /\ Step

\* What becomes of one message: the subjects new and gone in it.
Arrives(new, gone) == /\ told' = (told \ gone) \cup new
                      /\ twice' = twice \cup ((new \cap told) \ (unsure \cup missed))
                      /\ missed' = missed \ (new \cup gone)
                      /\ unsure' = unsure \cup new
Lost(gone) == missed' = missed \cup gone /\ UNCHANGED <<told, twice, unsure>>
\* Any 2xx is success.  A refusal means the receiver took nothing; a timeout
\* says nothing of what it took.
postWebhook(new, gone, ok) ==
    \/ ok /\ Fine /\ Arrives(new, gone)
    \/ ~ok /\ Fault /\ (Lost(gone) \/ Arrives(new, gone))
\* The relay has the message once it answers the end of DATA: an error before
\* that sends nothing, and one of QUIT after it is an error all the same.
SMTPSend(new, gone, ok) ==
    \/ ok /\ Fine /\ Arrives(new, gone)
    \/ ~ok /\ Fault /\ (Lost(gone) \/ Arrives(new, gone))
InsertAlertDelivery(r, ok) ==
    deliveries' = [deliveries EXCEPT ![r] = IF rules[r] = None THEN "none"
                                            ELSE IF ok THEN "ok" ELSE "failed"]

\* The channel is read now, and a disabled one takes nothing.  Whatever comes
\* of it, the rows of the subjects that cleared are gone.
Deliver(m) ==
    /\ At(m, "deliver")
    /\ LET r    == run[m].rule.id
           new  == IF rules[r] = None THEN {} ELSE Pairs(r, run[m].newly)
           gone == IF rules[r] = None THEN {} ELSE Pairs(r, run[m].resolved)
           ch   == channels[run[m].rule.rule.channel]
       IN  \/ /\ IF ch = None THEN TRUE ELSE ~ch.enabled
              /\ Fine /\ Lost(gone) /\ UNCHANGED deliveries
              /\ Next1(m)
           \/ /\ IF ch = None THEN FALSE ELSE ch.enabled
              /\ \E ok \in BOOLEAN :
                     /\ IF ch.kind = "email" THEN SMTPSend(new, gone, ok)
                        ELSE postWebhook(new, gone, ok)
                     /\ InsertAlertDelivery(r, ok)
                     /\ IF ok /\ rules[r] # None THEN Goto(m, "mark") ELSE Next1(m)
    /\ UNCHANGED <<rules, channels, facts, state, lock>> /\ Step

MarkAlertsNotified(m) ==
    /\ At(m, "mark")
    /\ LET r == run[m].rule.id
       IN  \/ /\ Fine
              /\ state' = {IF s.rule = r /\ s.key \in run[m].newly THEN [s EXCEPT !.notified = TRUE]
                           ELSE s : s \in state}
              /\ unsure' = unsure \ Pairs(r, run[m].newly)
           \/ Fault /\ UNCHANGED <<state, unsure>>
    /\ Next1(m)
    /\ UNCHANGED <<rules, channels, facts, deliveries, lock, told, missed, twice>> /\ Step

EndPass(m) ==
    /\ At(m, "next") /\ run[m].todo = {} /\ Fine
    /\ lock' = IF lock = m THEN None ELSE lock
    /\ run' = [run EXCEPT ![m] = Idle]
    /\ UNCHANGED <<rules, channels, facts, state, deliveries, ghosts>> /\ Step

\* The replica stops, or its connection does: its lock goes with it.
Crash(m) ==
    /\ ~At(m, "idle") /\ Fault
    /\ lock' = IF lock = m THEN None ELSE lock
    /\ run' = [run EXCEPT ![m] = Idle]
    /\ missed' = missed \cup (IF At(m, "deliver") /\ rules[run[m].rule.id] # None THEN Pairs(run[m].rule.id, run[m].resolved) ELSE {})
    /\ UNCHANGED <<rules, channels, facts, state, deliveries, told, unsure, twice>> /\ Step

-----------------------------------------------------------------------------
Init ==
    /\ rules = [r \in Rules |-> None] /\ channels = [c \in Channels |-> None]
    /\ facts = {} /\ state = {} /\ deliveries = [r \in Rules |-> "none"]
    /\ lock = None /\ run = [m \in Replicas |-> Idle]
    /\ told = {} /\ missed = {} /\ unsure = {} /\ twice = {}
    /\ edits = 0 /\ changes = 0 /\ faults = 0

Pass(m) == WithAdvisoryLock(m) \/ ListAlertRules(m) \/ evaluateRule(m) \/ Deliver(m)
           \/ MarkAlertsNotified(m) \/ EndPass(m)
Next ==
    \/ \E r \in Rules : createAlertRule(r) \/ updateAlertRule(r) \/ deleteAlertRule(r)
    \/ \E c \in Channels : createNotificationChannel(c) \/ updateNotificationChannel(c)
                           \/ deleteNotificationChannel(c)
    \/ \E f \in Facts : Change(f)
    \/ \E m \in Replicas : Pass(m) \/ Crash(m)

Spec == Init /\ [][Next]_vars

-----------------------------------------------------------------------------

\* A device that is still in trouble on the next pass is not a second message,
\* on however many replicas the sweeper runs: a subject is announced again only
\* after its all-clear was due, or when the message that carried it could not
\* be marked as sent (evaluateRule, MarkAlertsNotified, WithAdvisoryLock).
NotASecondMessage == twice = {}

=============================================================================
