------------------------------ MODULE Approvals ------------------------------
(***************************************************************************)
(* What one administrator may do alone, and what waits for a second one:   *)
(* new versions of a script, profile or app (server/scripts, profiles and  *)
(* apps, whose services are alike), including it in a group, growing the   *)
(* group, changing its rule, and ad-hoc PowerShell                         *)
(* (adminapi/approvals.go, approvalholds.go, groups.go, commands.go).      *)
(*                                                                         *)
(* A handler reads whether its request must wait, and acts in a later      *)
(* transaction.  An approval is decided in one transaction, carried out in *)
(* another, and its result recorded in a third; a crash or a failed query  *)
(* may end a handler between any two.  A call of a service is one step     *)
(* here; Library takes its reads and writes apart.  Approvals are on.      *)
(* `lone' remembers what one person did alone, and `raced' that a request  *)
(* acted on an answer that no longer held when it acted.                   *)
(***************************************************************************)
EXTENDS Naturals, Sequences, FiniteSets

CONSTANTS
    Admins, Devices,
    Static, Dynamic,    \* the groups of each kind
    Threshold,          \* how many devices one administrator reaches alone
    Ids,                \* bound: approvals ever asked for
    MaxVersions,        \* bound: versions of the item
    None

ASSUME ThresholdAssumption == Threshold \in Nat
ASSUME DevicesAssumption == IsFiniteSet(Devices)
ASSUME GroupsAssumption == Static \cap Dynamic = {}

Groups == Static \cup Dynamic
Contents == {"x", "y"}
Modes == {"include", "exclude"}

VARIABLES
    item,       \* None once deleted, else [current, versions]
    groups,     \* the groups that exist
    assigned,   \* the item's assignments: <<group, mode>>
    members,    \* group_members of the static groups
    active,     \* the devices that are not retired
    sent,       \* run_powershell commands of the last hour: <<by, device, approval>>
    approvals,  \* None, or a row of the table
    call,       \* the request each administrator has in flight
    runs,       \* how often each approval was carried out
    lone,       \* what stands by one person's word
    raced

data == <<item, groups, assigned, members, active, sent>>
vars == <<data, approvals, call, runs, lone, raced>>

Idle == [pc |-> "idle"]

-----------------------------------------------------------------------------
\* What waits.

HasCode(g) == <<g, "include">> \in assigned

\* The item's includes: an unbounded group, or the distinct devices.
ItemReach ==
    LET in == {g \in groups : HasCode(g)} IN
    [unbounded |-> in \cap Dynamic # {},
     devices   |-> Cardinality(UNION {members[g] : g \in in \cap Static})]

ItemNeedsApproval == ItemReach.unbounded \/ ItemReach.devices > Threshold

AssignmentNeedsApproval(g, mode) ==
    /\ mode = "include"
    /\ g \in Static => Cardinality(members[g]) > Threshold

MemberNeedsApprovalLate(g, d) ==
    /\ g \in Static
    /\ HasCode(g)
    /\ d \notin members[g]
    /\ Cardinality(members[g]) > Threshold
MemberNeedsApproval(g, d) ==
    /\ g \in Static
    /\ HasCode(g)
    /\ d \notin members[g]
    /\ Cardinality(members[g]) + 1 > Threshold

\* A rule that did not change never waits.
RuleNeedsApproval(g, changed) == changed /\ g \in Dynamic /\ HasCode(g)

\* Commands an approval's recorded result names do not count.
RecentCommandReach(p, adding) ==
    {d \in Devices : \E a \in Ids \cup {None} :
        <<p, d, a>> \in sent /\ (a = None \/ approvals[a].result = None)} \cup adding

CommandNeedsApproval(p, type, ds) ==
    \/ type = "wipe"
    \/ type = "run_powershell" /\ Cardinality(RecentCommandReach(p, ds)) > Threshold

Ops ==
    [kind : {"version"}, content : Contents]
        \cup [kind : {"assignment"}, g : Groups, mode : Modes]
        \cup [kind : {"group_member"}, g : Static, d : Devices]
        \cup [kind : {"group_rule"}, g : Dynamic, changed : BOOLEAN]
        \cup [kind : {"command"}, type : {"run_powershell"}, ds : SUBSET Devices \ {{}}]
        \cup [kind : {"command"}, type : {"wipe"}, ds : {{d} : d \in Devices}]

NeedsApproval(p, op) ==
    CASE op.kind = "version"      -> ItemNeedsApproval
      [] op.kind = "assignment"   -> AssignmentNeedsApproval(op.g, op.mode)
      [] op.kind = "group_member" -> MemberNeedsApproval(op.g, op.d)
      [] op.kind = "group_rule"   -> RuleNeedsApproval(op.g, op.changed)
      [] op.kind = "command"      -> CommandNeedsApproval(p, op.type, op.ds)

\* The handlers: what each refuses, and the answer it goes on.
Checked(p, op) ==
    /\ call[p] = Idle
    /\ call' = [call EXCEPT ![p] =
                   [pc |-> IF NeedsApproval(p, op) THEN "hold" ELSE "act", op |-> op]]
    /\ UNCHANGED <<data, approvals, runs, lone, raced>>

AskVersion(p, op) == op.kind = "version" /\ Checked(p, op)

AskAssignment(p, op) == op.kind = "assignment" /\ op.g \in groups /\ Checked(p, op)

AskMember(p, op) == op.kind = "group_member" /\ op.g \in groups /\ Checked(p, op)

AskRule(p, op) == op.kind = "group_rule" /\ op.g \in groups /\ Checked(p, op)

\* A held command is checked in full, so that nobody is asked to approve what
\* could never run.
AskCommand(p, op) ==
    /\ op.kind = "command"
    /\ NeedsApproval(p, op) => op.ds \subseteq active
    /\ Checked(p, op)

Ask(p, op) ==
    \/ AskVersion(p, op)
    \/ AskAssignment(p, op)
    \/ AskMember(p, op)
    \/ AskRule(p, op)
    \/ AskCommand(p, op)

Answer(p) == call' = [call EXCEPT ![p] = Idle]

-----------------------------------------------------------------------------
\* The item and its versions.

Latest == Len(item.versions)
IsNew(content) == content # item.versions[item.current].content

\* update: a new version is numbered after the latest stored, and is current
\* at once unless it is held.  Equal content only renames.
Stored(p, content, hold) ==
    [current  |-> IF hold THEN item.current ELSE Latest + 1,
     versions |-> Append(item.versions, [content |-> content, by |-> p])]

UpdateHeld(p) ==
    /\ call[p].pc = "hold" /\ call[p].op.kind = "version"
    /\ IF item # None /\ IsNew(call[p].op.content)
       THEN /\ Latest < MaxVersions
            /\ item' = Stored(p, call[p].op.content, TRUE)
            /\ call' = [call EXCEPT ![p] =
                   [pc |-> "stored", op |-> [kind |-> "version", version |-> Latest + 1]]]
       ELSE UNCHANGED item /\ Answer(p)
    /\ UNCHANGED <<groups, assigned, members, active, sent, approvals, runs, lone, raced>>

Acting(p, kind) ==
    /\ call[p].pc = "act" /\ call[p].op.kind = kind
    /\ raced' = (raced \/ NeedsApproval(p, call[p].op))

Update(p) ==
    /\ Acting(p, "version")
    /\ IF item # None /\ IsNew(call[p].op.content)
       THEN /\ Latest < MaxVersions
            /\ item' = Stored(p, call[p].op.content, FALSE)
            /\ lone' = lone \cup {<<"version">>}
       ELSE UNCHANGED <<item, lone>>
    /\ Answer(p)
    /\ UNCHANGED <<groups, assigned, members, active, sent, approvals, runs>>

\* Approving out of order never rolls back.
Promote(v) ==
    /\ item # None
    /\ v \in 1 .. Latest
    /\ v > item.current

Delete ==
    /\ item # None
    /\ item' = None
    /\ assigned' = {}
    /\ lone' = lone \ {<<"include", g>> : g \in Groups}
    /\ UNCHANGED <<groups, members, active, sent, approvals, call, runs, raced>>

-----------------------------------------------------------------------------
\* Groups and assignments.

\* The group is looked up again; the item is not.
SaveAssignment(g, mode) ==
    /\ g \in groups
    /\ assigned' = assigned \cup {<<g, mode>>}

CreateAssignment(p) ==
    LET op == call[p].op IN
    /\ Acting(p, "assignment")
    /\ IF op.g \in groups
       THEN /\ SaveAssignment(op.g, op.mode)
            /\ lone' = IF op.mode = "include" THEN lone \cup {<<"include", op.g>>} ELSE lone
       ELSE UNCHANGED <<assigned, lone>>
    /\ Answer(p)
    /\ UNCHANGED <<item, groups, members, active, sent, approvals, runs>>

DeleteAssignment(g, mode) ==
    /\ <<g, mode>> \in assigned
    /\ assigned' = assigned \ {<<g, mode>>}
    /\ lone' = IF mode = "include" THEN lone \ {<<"include", g>>} ELSE lone
    /\ UNCHANGED <<item, groups, members, active, sent, approvals, call, runs, raced>>

AddGroupMember(g, d) ==
    /\ g \in groups
    /\ members' = [members EXCEPT ![g] = @ \cup {d}]

AddMember(p) ==
    LET op == call[p].op IN
    /\ Acting(p, "group_member")
    /\ IF op.g \in groups
       THEN /\ AddGroupMember(op.g, op.d)
            /\ lone' = IF op.d \in members[op.g] THEN lone
                       ELSE lone \cup {<<"member", op.g, op.d>>}
       ELSE UNCHANGED <<members, lone>>
    /\ Answer(p)
    /\ UNCHANGED <<item, groups, assigned, active, sent, approvals, runs>>

RemoveMember(g, d) ==
    /\ g \in groups \cap Static
    /\ d \in members[g]
    /\ members' = [members EXCEPT ![g] = @ \ {d}]
    /\ lone' = lone \ {<<"member", g, d>>}
    /\ UNCHANGED <<item, groups, assigned, active, sent, approvals, call, runs, raced>>

UpdateGroup(p) ==
    LET op == call[p].op IN
    /\ Acting(p, "group_rule")
    /\ lone' = IF op.g \in groups /\ op.changed THEN lone \cup {<<"rule", op.g>>} ELSE lone
    /\ Answer(p)
    /\ UNCHANGED <<data, approvals, runs>>

DeleteGroup(g) ==
    /\ g \in groups
    /\ groups' = groups \ {g}
    /\ assigned' = {a \in assigned : a[1] # g}
    /\ members' = IF g \in Static THEN [members EXCEPT ![g] = {}] ELSE members
    /\ lone' = {f \in lone : Len(f) = 1 \/ f[2] # g}
    /\ UNCHANGED <<item, active, sent, approvals, call, runs, raced>>

-----------------------------------------------------------------------------
\* Ad-hoc PowerShell, one device after the other; the first that is not active
\* ends the request with what was queued before it.

QueueCommands(p) ==
    LET op == call[p].op IN
    /\ Acting(p, "command")
    /\ IF op.ds = {} THEN UNCHANGED sent /\ Answer(p)
       ELSE \E d \in op.ds :
              IF d \in active
              THEN /\ sent' = sent \cup {<<p, d, None>>}
                   /\ call' = [call EXCEPT ![p].op.ds = @ \ {d}]
              ELSE UNCHANGED sent /\ Answer(p)
    /\ UNCHANGED <<item, groups, assigned, members, active, approvals, runs, lone>>

HourPasses ==
    /\ sent # {}
    /\ sent' = {}
    /\ UNCHANGED <<item, groups, assigned, members, active, approvals, call, runs, lone, raced>>

Retire(d) ==
    /\ d \in active
    /\ active' = active \ {d}
    /\ UNCHANGED <<item, groups, assigned, members, sent, approvals, call, runs, lone, raced>>

-----------------------------------------------------------------------------
\* Approvals.

CreateApproval(p, a, op) ==
    /\ approvals[a] = None
    /\ approvals' = [approvals EXCEPT ![a] =
           [op |-> op, requester |-> p, status |-> "pending", overdue |-> FALSE,
            by |-> None, result |-> None]]

HoldForApproval(p, a) ==
    /\ \/ call[p].pc = "hold" /\ call[p].op.kind # "version"
       \/ call[p].pc = "stored"
    /\ CreateApproval(p, a, call[p].op)
    /\ Answer(p)
    /\ UNCHANGED <<data, runs, lone, raced>>

\* approvalTTL passes.
Lapse(a) ==
    /\ approvals[a] # None
    /\ approvals[a].status = "pending"
    /\ ~approvals[a].overdue
    /\ approvals' = [approvals EXCEPT ![a].overdue = TRUE]
    /\ UNCHANGED <<data, call, runs, lone, raced>>

\* Before a list or a decision.
ExpireApprovals ==
    LET due == {a \in Ids : approvals[a] # None /\ approvals[a].status = "pending"
                                                /\ approvals[a].overdue} IN
    /\ due # {}
    /\ approvals' = [a \in Ids |->
           IF a \in due THEN [approvals[a] EXCEPT !.status = "expired"] ELSE approvals[a]]
    /\ UNCHANGED <<data, call, runs, lone, raced>>

\* Nobody approves their own request; anybody may reject it.
MayDecide(p, a, approve) == approve => approvals[a].requester # p

DecideAny(p, a, status) ==
    approvals' = [approvals EXCEPT ![a].status = status, ![a].by = p]
DecideApproval(p, a, status) ==
    /\ approvals[a].status = "pending"
    /\ ~approvals[a].overdue
    /\ approvals' = [approvals EXCEPT ![a].status = status, ![a].by = p]

Decide(p, a, approve) ==
    /\ call[p] = Idle
    /\ approvals[a] # None
    /\ MayDecide(p, a, approve)
    /\ DecideApproval(p, a, IF approve THEN "approved" ELSE "rejected")
    /\ IF approve THEN call' = [call EXCEPT ![p] = [pc |-> "replay", id |-> a, saw |-> lone]]
                  ELSE UNCHANGED call
    /\ UNCHANGED <<data, runs, lone, raced>>

\* What the request itself puts in place, and what stands already that the
\* second person lets through with it.
Makes(op) ==
    CASE op.kind = "version"      -> {<<"version">>}
      [] op.kind = "assignment"   -> {<<"include", op.g>>}
      [] op.kind = "group_member" -> {<<"member", op.g, op.d>>}
      [] op.kind = "group_rule"   -> {<<"rule", op.g>>}
      [] OTHER                    -> {}
RestsOn(op) ==
    CASE op.kind = "assignment"   -> {<<"version">>, <<"rule", op.g>>}
      [] op.kind = "group_member" -> {<<"version">>}
      [] OTHER                    -> {}

Seconded(a, saw) ==
    LET op == approvals[a].op IN
    /\ lone' = lone \ (Makes(op) \cup RestsOn(op))
    /\ raced' = (raced \/ ~((RestsOn(op) \cap lone) \subseteq saw))

Replaying(p, kind) ==
    /\ call[p].pc = "replay"
    /\ approvals[call[p].id].op.kind = kind
    /\ runs' = [runs EXCEPT ![call[p].id] = @ + 1]
    /\ UNCHANGED approvals

Replayed(p, status) ==
    call' = [call EXCEPT ![p] = [pc |-> "result", id |-> call[p].id, status |-> status]]

CarriedOut(p) == Replayed(p, "approved") /\ Seconded(call[p].id, call[p].saw)
Failed(p)     == Replayed(p, "failed") /\ UNCHANGED <<data, lone, raced>>

ReplayVersion(p) ==
    /\ Replaying(p, "version")
    /\ LET v == approvals[call[p].id].op.version IN
       IF Promote(v)
       THEN /\ item' = [item EXCEPT !.current = v]
            /\ CarriedOut(p)
            /\ UNCHANGED <<groups, assigned, members, active, sent>>
       ELSE Failed(p)

ReplayAssignment(p) ==
    /\ Replaying(p, "assignment")
    /\ LET op == approvals[call[p].id].op IN
       IF op.g \in groups
       THEN /\ SaveAssignment(op.g, op.mode)
            /\ CarriedOut(p)
            /\ UNCHANGED <<item, groups, members, active, sent>>
       ELSE Failed(p)

ReplayGroupMember(p) ==
    /\ Replaying(p, "group_member")
    /\ LET op == approvals[call[p].id].op IN
       IF op.g \in groups
       THEN /\ AddGroupMember(op.g, op.d)
            /\ CarriedOut(p)
            /\ UNCHANGED <<item, groups, assigned, active, sent>>
       ELSE Failed(p)

ReplayGroupRule(p) ==
    /\ Replaying(p, "group_rule")
    /\ IF approvals[call[p].id].op.g \in groups
       THEN CarriedOut(p) /\ UNCHANGED data
       ELSE Failed(p)

\* As the requester; what was queued before a failure stays queued.
ReplayCommand(p) ==
    /\ Replaying(p, "command")
    /\ LET a == call[p].id
           op == approvals[a].op IN
       \E done \in SUBSET op.ds :
          /\ done \subseteq active
          /\ (done # op.ds) => ~(op.ds \subseteq active)
          /\ sent' = IF op.type = "wipe" THEN sent
                     ELSE sent \cup {<<approvals[a].requester, d, a>> : d \in done}
          /\ Replayed(p, IF done = op.ds THEN "approved" ELSE "failed")
    /\ UNCHANGED <<item, groups, assigned, members, active, lone, raced>>

SetApprovalResult(p) ==
    /\ call[p].pc = "result"
    /\ approvals' = [approvals EXCEPT ![call[p].id].status = call[p].status,
                                      ![call[p].id].result = "recorded"]
    /\ Answer(p)
    /\ UNCHANGED <<data, runs, lone, raced>>

\* A crash, a timeout or a failed query ends the handler where it is.
Cut(p) ==
    /\ call[p] # Idle
    /\ Answer(p)
    /\ UNCHANGED <<data, approvals, runs, lone, raced>>

-----------------------------------------------------------------------------
\* One version, written by somebody, and perhaps included in a dynamic group
\* by an approval of the past.
Init ==
    /\ \E p \in Admins : item = [current |-> 1, versions |-> <<[content |-> "x", by |-> p]>>]
    /\ groups = Groups
    /\ assigned \in SUBSET (Dynamic \X {"include"})
    /\ members = [g \in Static |-> {}]
    /\ active = Devices
    /\ sent = {}
    /\ approvals = [a \in Ids |-> None]
    /\ call = [p \in Admins |-> Idle]
    /\ runs = [a \in Ids |-> 0]
    /\ lone = IF assigned = {} THEN {<<"version">>} ELSE {}
    /\ raced = FALSE

Handle(p) ==
    \/ UpdateHeld(p)
    \/ Update(p)
    \/ CreateAssignment(p)
    \/ AddMember(p)
    \/ UpdateGroup(p)
    \/ QueueCommands(p)
    \/ ReplayVersion(p)
    \/ ReplayAssignment(p)
    \/ ReplayGroupMember(p)
    \/ ReplayGroupRule(p)
    \/ ReplayCommand(p)
    \/ SetApprovalResult(p)
    \/ Cut(p)

ApprovalSteps ==
    \/ \E p \in Admins, a \in Ids : HoldForApproval(p, a)
    \/ \E p \in Admins, a \in Ids, approve \in BOOLEAN : Decide(p, a, approve)
    \/ \E a \in Ids : Lapse(a)
    \/ ExpireApprovals

\* Every step, when the requests made are those of ops.
StepsOver(ops) ==
    \/ \E p \in Admins, op \in ops : Ask(p, op)
    \/ \E p \in Admins : Handle(p)
    \/ ApprovalSteps
    \/ Delete
    \/ \E g \in Groups, mode \in Modes : DeleteAssignment(g, mode)
    \/ \E g \in Static, d \in Devices : RemoveMember(g, d)
    \/ \E g \in Groups : DeleteGroup(g)
    \/ \E d \in Devices : Retire(d)
    \/ HourPasses

Next == StepsOver(Ops)

Spec == Init /\ [][Next]_vars

-----------------------------------------------------------------------------

Wide(g) == g \in Static => Cardinality(members[g]) > Threshold

Overseen(g) ==
    item # None /\ HasCode(g) /\ Wide(g) =>
        /\ <<"version">> \notin lone
        /\ g \in Dynamic => {<<"include", g>>, <<"rule", g>>} \cap lone = {}
        /\ g \in Static =>
             \/ <<"include", g>> \notin lone
             \/ Cardinality({d \in members[g] : <<"member", g, d>> \in lone}) <= Threshold

\* A dynamic group, or one of more devices than the threshold, runs nothing
\* that one administrator chose alone: not the version, and not the include
\* with its rule, or more members than the threshold, unless a request acted
\* on a check that a concurrent one had made stale.
TwoPeople == raced \/ \A g \in groups : Overseen(g)

\* An approved request is carried out at most once, however many administrators
\* decide it, and never by the word of the person who asked, nor once it was
\* rejected or had expired.
CarriedOutOnce ==
    \A a \in Ids : runs[a] > 0 =>
        /\ runs[a] = 1
        /\ approvals[a].status \in {"approved", "failed"}
        /\ approvals[a].by # approvals[a].requester

=============================================================================
