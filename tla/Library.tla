------------------------------ MODULE Library ------------------------------
(* The library of items an administrator keeps on the server - scripts,      *)
(* configuration profiles and apps - and how one reaches a device: versions, *)
(* their signatures and sealed secrets, the check-in that offers an item,    *)
(* the requests that fetch it and the reports that come back.  Agent builds, *)
(* which have no versions of their own, travel the same way.                 *)
(*                                                                           *)
(* Transactions run at PostgreSQL's default isolation and lock no row they   *)
(* read, so an update is two steps: what it reads, and what it then writes.  *)
EXTENDS Naturals, Sequences, FiniteSets

CONSTANTS Admins,       \* administrators editing the item at once
          Bodies,       \* a version's contents: sets of setting identities
          Passes,       \* passphrases a profile setting may carry
          MaxVersions,  \* bound on the versions stored
          None

VARIABLES kind,      \* the item's kind; constant
          keys,      \* whether the server has operations keys; constant
          current,   \* the item's current version, 0 when there is no item
          versions,  \* its stored versions, in order
          tx,        \* each administrator's open transaction
          assigned,  \* whether the device has the item
          build,     \* an agent build the device can run exists
          device,    \* what the device was offered, holds and runs
          report,    \* a result on its way to the server
          status,    \* the server's summary for the device
          settings,  \* its per-setting results, for a profile
          history,   \* the last result recorded, for a script or an app
          been,      \* ghost: versions that have been current
          overlap    \* ghost: a transaction wrote what it read stale

edits == <<current, versions, tx, been, overlap>>
fleet == <<assigned, build, device, report, status, settings, history>>
vars == <<kind, keys, edits, fleet>>

Kinds == {"script", "profile", "app", "agent"}
Contents == [body : Bodies, pass : IF kind = "profile" THEN Passes ELSE {None}]
Signatures == Contents \cup {None}

-----------------------------------------------------------------------------
(* Building a version from a request.  A request's passphrase may be left    *)
(* blank; `now` is the contents the item has now, None for a new item.       *)

\* The secrets of the settings the item has now are carried over to the blanks.
Prepare(in, now) ==
    [body |-> in.body,
     pass |-> IF in.pass = None /\ now # None THEN now.pass ELSE in.pass]

ScriptContent(in) == [body |-> in.body, pass |-> None]
AppContent(in) == [body |-> in.body, pass |-> None]

Candidate(in, now) ==
    CASE kind = "script" -> ScriptContent(in)
      [] kind = "app" -> AppContent(in)
      [] OTHER -> Prepare(in, now)

\* ValidateSettings: a setting that needs a passphrase has one.
Valid(content) == content.pass \in IF kind = "profile" THEN Passes ELSE {None}

\* What identifies stored settings: a sealed secret counts by its MAC.
VersionHash(content) == content

\* What a device is sent, secrets opened, and what a signature is checked against.
ForAgent(version) == version.content

CheckSignature(content, sig) == keys => sig = content

\* A request without a signature keeps the one its unchanged contents have.
KeptSignature(in, content, version) ==
    IF in.sig = None /\ VersionHash(version.content) = VersionHash(content)
      THEN version.sig ELSE in.sig

IsNew(content, sig, version) ==
    \/ VersionHash(version.content) # VersionHash(content)
    \/ version.sig # sig

Requests == [body : Bodies, pass : IF kind = "profile" THEN Passes \cup {None} ELSE {None},
             sig : Signatures]

-----------------------------------------------------------------------------
(* Operations of the three services.                                         *)

Idle(a) == tx[a] = None

Create(in) ==
    LET content == Candidate(in, None)
    IN  /\ been = {}
        /\ Valid(content)
        /\ CheckSignature(content, in.sig)
        /\ current' = 1
        /\ versions' = <<[content |-> content, sig |-> in.sig]>>
        /\ been' = {1}
        /\ UNCHANGED <<kind, keys, tx, overlap, fleet>>

\* What update reads: the item, the version it has now.  Nothing is locked.
BeginUpdate(a, in, hold) ==
    LET now == versions[current]
        content == Candidate(in, now.content)
        sig == KeptSignature(in, content, now)
    IN  /\ current > 0 /\ Idle(a)
        /\ Valid(content)
        /\ CheckSignature(content, sig)
        /\ tx' = [tx EXCEPT ![a] =
             [read |-> current, latest |-> Len(versions), hold |-> hold, to |-> current,
              new |-> IsNew(content, sig, now),
              version |-> [content |-> content, sig |-> sig]]]
        /\ UNCHANGED <<kind, keys, current, versions, been, overlap, fleet>>

Abort(a) == /\ ~Idle(a)
            /\ tx' = [tx EXCEPT ![a] = None]
            /\ UNCHANGED <<kind, keys, current, versions, been, overlap, fleet>>

\* The row is written whole, with the current version as it was read.
WriteItem(a, number) ==
    /\ current' = IF current = 0 THEN 0 ELSE number
    /\ been' = been \cup ({current'} \ {0})
    /\ overlap' = (overlap \/ current # tx[a].read)

\* What update writes.  A version that took the number first aborts it.
CommitUpdate(a) ==
    LET t == tx[a]
    IN  /\ ~Idle(a)
        /\ t.new => /\ current > 0
                    /\ Len(versions) = t.latest
                    /\ Len(versions) < MaxVersions
        /\ versions' = IF t.new THEN Append(versions, t.version) ELSE versions
        /\ WriteItem(a, IF t.new /\ ~t.hold THEN t.latest + 1 ELSE t.to)
        /\ tx' = [tx EXCEPT ![a] = None]
        /\ UNCHANGED <<kind, keys, fleet>>

PromoteAny(a, n) ==
    /\ current > 0 /\ Idle(a) /\ n \in DOMAIN versions
    /\ tx' = [tx EXCEPT ![a] =
         [read |-> current, latest |-> Len(versions), hold |-> FALSE, to |-> n,
          new |-> FALSE, version |-> versions[n]]]
    /\ UNCHANGED <<kind, keys, current, versions, been, overlap, fleet>>

\* An approved version becomes current, unless a newer one already is; its
\* transaction reads and writes the item the same way.
Promote(a, n) ==
    /\ current > 0 /\ Idle(a) /\ n \in DOMAIN versions
    /\ n > current
    /\ tx' = [tx EXCEPT ![a] =
         [read |-> current, latest |-> Len(versions), hold |-> FALSE, to |-> n,
          new |-> FALSE, version |-> versions[n]]]
    /\ UNCHANGED <<kind, keys, current, versions, been, overlap, fleet>>

Delete ==
    /\ current > 0
    /\ current' = 0 /\ versions' = <<>>
    /\ assigned' = "no"
    /\ UNCHANGED <<kind, keys, tx, been, overlap, build, device, report, status, settings, history>>

-----------------------------------------------------------------------------
(* What the device is offered at a check-in.                                 *)

\* An include whose rollout has not reached the device gives it the item
\* without offering it.
EffectiveItems == IF assigned = "in" THEN {kind} ELSE {}
DeviceHasItem == assigned # "no"

ItemVersion == IF kind = "agent" THEN 1 ELSE current
Exists == current > 0

NotYetCurrent(n) == ~Exists \/ n > ItemVersion

Record(s, n) == status' = [status |-> s, version |-> n]

MarkAgentCurrent == Record("succeeded", 1)
NoBuildFor == Record("failed", 1)

\* The summary, by what the check-in learns: a device running an assigned
\* build has it, however it got there, and a script for the signed-in user
\* waits when nobody is signed in.
CheckinStatus(user) ==
    CASE kind = "agent" /\ device.runs -> MarkAgentCurrent
      [] kind = "agent" /\ ~device.runs /\ ~build -> NoBuildFor
      [] kind = "script" /\ ~user -> Record("pending", ItemVersion)
      [] OTHER -> UNCHANGED status

Checkin(user) ==
    LET offered == EffectiveItems # {} /\ Exists
    IN  /\ IF offered THEN CheckinStatus(user) ELSE UNCHANGED status
        /\ device' = [device EXCEPT !.want =
             IF offered /\ (kind = "agent" => build) THEN ItemVersion ELSE 0]
        /\ UNCHANGED <<kind, keys, edits, assigned, build, report, settings, history>>

-----------------------------------------------------------------------------
(* The device's requests: it may only read, and only report on, what it has  *)
(* been given.                                                               *)

Holds(n, content) == device' = [device EXCEPT !.has = [n |-> n, body |-> content.body]]

ScriptVersion ==
    /\ kind = "script" /\ DeviceHasItem /\ ~NotYetCurrent(device.want)
    /\ Holds(device.want, versions[device.want].content)

ProfileVersion ==
    /\ kind = "profile" /\ DeviceHasItem /\ ~NotYetCurrent(device.want)
    /\ Holds(device.want, ForAgent(versions[device.want]))

AssignedAppVersion == DeviceHasItem /\ ~NotYetCurrent(device.want)

AppVersion ==
    /\ kind = "app" /\ AssignedAppVersion
    /\ Holds(device.want, versions[device.want].content)

AgentVersion ==
    /\ kind = "agent" /\ DeviceHasItem /\ build
    /\ Holds(1, versions[1].content)

Fetch ==
    /\ device.want > 0
    /\ ScriptVersion \/ ProfileVersion \/ AppVersion \/ AgentVersion
    /\ UNCHANGED <<kind, keys, edits, assigned, build, report, status, settings, history>>

\* The device does what the version it holds says, and sends what came of it.
Outcome == IF kind = "profile" THEN [device.has.body -> {"compliant", "error", "conflict"}]
           ELSE {"succeeded", "failed"}

Act ==
    /\ device.has # None /\ report = None
    /\ \E o \in Outcome :
         /\ report' = [n |-> device.has.n, outcome |-> o]
         /\ device' = [device EXCEPT !.runs = @ \/ (kind = "agent" /\ o = "succeeded")]
    /\ UNCHANGED <<kind, keys, edits, assigned, build, status, settings, history>>

\* The run and the summary are one transaction.
RecordRun ==
    /\ history' = report
    /\ Record(report.outcome, report.n)
    /\ UNCHANGED settings

RecordInstall ==
    /\ history' = report
    /\ Record(report.outcome, report.n)
    /\ UNCHANGED settings

\* A conflict outranks a failure.
RollUp(results) ==
    CASE \E i \in DOMAIN results : results[i] = "conflict" -> "conflict"
      [] \E i \in DOMAIN results : results[i] = "error" -> "failed"
      [] OTHER -> "succeeded"

\* Results of settings the profile no longer has are cleared.
RecordStatus ==
    /\ settings' = report.outcome
    /\ Record(RollUp(report.outcome), report.n)
    /\ UNCHANGED history

RecordAgentResult ==
    /\ Record(report.outcome, report.n)
    /\ UNCHANGED <<history, settings>>

\* A report on an item the device no longer has is refused, and dropped.
Refused == UNCHANGED <<status, settings, history>>

ScriptRun == kind = "script" /\ IF DeviceHasItem THEN RecordRun ELSE Refused
AppResult == kind = "app" /\ IF DeviceHasItem THEN RecordInstall ELSE Refused
ProfileStatus == kind = "profile" /\ IF DeviceHasItem THEN RecordStatus ELSE Refused
AgentVersionResult == kind = "agent" /\ IF DeviceHasItem THEN RecordAgentResult ELSE Refused

Deliver ==
    /\ report # None
    /\ ScriptRun \/ AppResult \/ ProfileStatus \/ AgentVersionResult
    /\ report' = None
    /\ UNCHANGED <<kind, keys, edits, assigned, build, device>>

LoseReport ==
    /\ report # None /\ report' = None
    /\ UNCHANGED <<kind, keys, edits, assigned, build, device, status, settings, history>>

-----------------------------------------------------------------------------
\* Assignments, rollouts and group memberships, as the device sees them.
Assign(to) ==
    /\ current > 0 /\ assigned # to /\ assigned' = to
    /\ UNCHANGED <<kind, keys, edits, build, device, report, status, settings, history>>

ChangeBuild ==
    /\ kind = "agent" /\ build' = ~build
    /\ UNCHANGED <<kind, keys, edits, assigned, device, report, status, settings, history>>

Init ==
    /\ kind \in Kinds /\ keys \in BOOLEAN
    /\ current = 0 /\ versions = <<>> /\ been = {} /\ overlap = FALSE
    /\ tx = [a \in Admins |-> None]
    /\ assigned = "no" /\ build = FALSE
    /\ device = [want |-> 0, has |-> None, runs |-> FALSE]
    /\ report = None /\ status = None /\ settings = <<>> /\ history = None

Edit == \/ \E in \in Requests : Create(in)
        \/ /\ kind # "agent"
           /\ \/ \E a \in Admins, in \in Requests, hold \in BOOLEAN : BeginUpdate(a, in, hold)
              \/ \E a \in Admins : CommitUpdate(a) \/ Abort(a)
              \/ \E a \in Admins, n \in 1..MaxVersions : Promote(a, n)
        \/ Delete

Reach == \/ \E user \in BOOLEAN : Checkin(user)
         \/ Fetch \/ Act \/ Deliver \/ LoseReport
         \/ \E to \in {"no", "waiting", "in"} : Assign(to)
         \/ ChangeBuild

Next == Edit \/ Reach
Spec == Init /\ [][Next]_vars

-----------------------------------------------------------------------------

NeverRolledBackStep ==
    current' # 0 /\ current # 0 /\ ~overlap' => current' >= current

\* The current version only goes up, unless a transaction wrote back one it read
\* before another committed (Promote refuses an older version: "approving it
\* would roll devices back").
NeverRolledBack == [][NeverRolledBackStep]_vars

=============================================================================
