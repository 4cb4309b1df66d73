------------------------------ MODULE Handlers ------------------------------
(* The setting handlers of the agent (agent/policy/handler_*.go): what each  *)
(* reads, compares, writes and puts back, over a small machine of its kind,  *)
(* driven the way Reconciler.apply and revert drive them: Test; Get, Set and *)
(* Test again; and, when the profile is gone, Revert to what Get found.      *)
EXTENDS Naturals, FiniteSets, Sequences, SequencesExt

CONSTANT None

VARIABLES kind, setting,
          found,    \* the machine before Retune touched it
          machine,  \* the machine now
          prior,    \* what Get recorded, once it has
          status    \* how far the setting has come

vars == <<kind, setting, found, machine, prior, status>>

Done(m) == [m |-> m, ok |-> TRUE]
Failed(m) == [m |-> m, ok |-> FALSE]

-----------------------------------------------------------------------------
\* file: the contents and mode, or no file; a path through a link is refused
\* by every operation; a file over MaxFileBytes is not held on to.
Files == {[link |-> l, file |-> f] : l \in BOOLEAN,
            f \in {None} \cup [content : {"x", "y", "big"}, mode : {"644", "600"}]}
FileSettings == [ensure : {"absent", "present"}, content : {None, "x", "big"}]
ValidateFile(s) == IF s.ensure = "absent" THEN s.content = None ELSE s.content # "big"

FileTestFails(m) == m.link
FileTest(m, s) == IF s.ensure = "absent" THEN m.file = None
                  ELSE m.file # None /\ m.file.content = s.content

FileGet(m) ==
    IF m.file = None THEN [exists |-> FALSE, data |-> None]
    ELSE [exists |-> TRUE, data |-> IF m.file.content = "big" THEN None ELSE m.file]

\* Writing over a file keeps its mode.
WriteFile(m, content, mode) ==
    [m EXCEPT !.file = [content |-> content, mode |-> IF @ = None THEN mode ELSE @.mode]]
FileSet(m, s) == {Done(IF s.ensure = "absent" THEN [m EXCEPT !.file = None]
                       ELSE WriteFile(m, s.content, "644"))}
FileRevert(m, was) ==
    {Done(IF ~was.exists THEN [m EXCEPT !.file = None]
          ELSE IF was.data = None THEN m
          ELSE WriteFile(m, was.data.content, was.data.mode))}

-----------------------------------------------------------------------------
\* registry: one value of one key, reached only while its hive is loaded.
Class(t) == CASE t \in {"sz", "expand_sz"} -> "string"
              [] t \in {"dword", "qword"} -> "number"
              [] OTHER -> t
RegTypes == {"sz", "expand_sz", "dword", "qword", "multi_sz", "binary"}
\* The number 3 stands for one that takes more than 32 bits.
Wide == 3
RegValues == {v \in [type : RegTypes, data : {1, 2, Wide}] : v.type = "dword" => v.data # Wide}
Keys == {[hive |-> h, value |-> v] : h \in BOOLEAN, v \in {None} \cup RegValues}
RegSettings == [ensure : {"absent", "present"}, value : {None} \cup [type : RegTypes, data : {1, Wide}]]
\* The data of a number is read as 64 bits whatever its type.
ValidateRegistry(s) ==
    IF s.ensure = "absent" THEN s.value = None ELSE s.value # None /\ s.value.type # "binary"

\* A value of another class cannot be read as the wanted one.
RegTestFails(m, s) ==
    \/ ~m.hive
    \/ /\ s.ensure = "present" /\ m.value # None
       /\ Class(m.value.type) # Class(s.value.type)
RegTest(m, s) == IF s.ensure = "absent" THEN m.value = None
                 ELSE m.value # None /\ m.value.data = s.value.data
RegGet(m) == [exists |-> m.value # None, data |-> m.value]
TooWide(v) == v # None /\ v.type = "dword" /\ v.data = Wide
RegSet(m, s) == {IF m.hive /\ ~TooWide(s.value) THEN Done([m EXCEPT !.value = s.value]) ELSE Failed(m)}
\* A value of a type the agent cannot write cannot be put back.
RegRevert(m, was) ==
    {IF ~m.hive \/ (was.exists /\ was.data.type = "binary") THEN Failed(m)
     ELSE Done([m EXCEPT !.value = was.data])}

-----------------------------------------------------------------------------
\* service: startup type and state; a disabled service cannot be started, and
\* one that is asked to may not get there within waitFor's 30 seconds.
Services == {None} \cup [startup : {"automatic", "manual", "disabled", "boot"},
                         state : {"running", "stopped", "start_pending", "stop_pending"}]
ServiceSettings == [startup : {"", "automatic", "disabled"}, state : {"", "running", "stopped"}]
ValidateService(s) ==
    /\ s.startup # "" \/ s.state # ""
    /\ ~(s.startup = "disabled" /\ s.state = "running")

ServiceTest(m, s) ==
    /\ s.startup # "" => m.startup = s.startup
    /\ s.state # "" => (s.state = "running") = (m.state = "running")

\* Get does not tell a service that is starting from one that runs.
ServiceGet(m) ==
    IF m = None THEN [exists |-> FALSE, data |-> None]
    ELSE [exists |-> TRUE,
          data |-> [startup |-> IF m.startup = "boot" THEN "" ELSE m.startup,
                    state |-> IF m.state \in {"running", "start_pending"} THEN "running" ELSE "stopped"]]

StartupSet(m, s) == IF s.startup = "" THEN m ELSE [m EXCEPT !.startup = s.startup]

\* startService, stopService and waitFor.
Reach(m, state, pending) ==
    IF m.state = state THEN {Done(m)}
    ELSE IF state = "running" /\ m.state # pending /\ m.startup = "disabled" THEN {Failed(m)}
    ELSE {Done([m EXCEPT !.state = state]), Failed([m EXCEPT !.state = pending])}
StateSet(m, s) ==
    CASE s.state = "running" -> Reach(m, "running", "start_pending")
      [] s.state = "stopped" -> Reach(m, "stopped", "stop_pending")
      [] OTHER -> {Done(m)}

ServiceSet(m, s) == StateSet(StartupSet(m, s), s)
ServiceRevert(m, was) == IF was.exists THEN ServiceSet(m, was.data) ELSE {Done(m)}

-----------------------------------------------------------------------------
\* local group: members are compared without their domain; the built-in
\* Administrator is never removed.
Members == [domain : {"pc", "contoso"}, name : {"administrator", "ops"}] \cup
           {[domain |-> "pc", name |-> "bob"]}
Groups == {None} \cup SUBSET Members
GroupSettings == [members : {ms \in SUBSET Members : Cardinality(ms) <= 2}, exact : BOOLEAN]
ValidateGroup(s) == s.members # {} \/ s.exact

HasMember(ms, member) == \E got \in ms : got.name = member.name

GroupTest(m, s) ==
    /\ \A want \in s.members : HasMember(m, want)
    /\ s.exact => \A got \in m : got.name = "administrator" \/ HasMember(s.members, got)
GroupGet(m) == [exists |-> m # None, data |-> m]

Added(m, s) == {want \in s.members : ~HasMember(m, want)}

GroupSet(m, s) ==
    {Done((m \cup Added(m, s)) \
          {got \in m : s.exact /\ got.name # "administrator" /\ ~HasMember(s.members, got)})}
GroupRevert(m, was) ==
    IF was.exists THEN GroupSet(m, [members |-> was.data, exact |-> TRUE]) ELSE {Done(m)}

-----------------------------------------------------------------------------
\* firewall_rule: the rules of one display name, in the order the lookup finds
\* them; it takes the first.  Retune's are the ones in its group.
Rule(ours, enabled, says) == [ours |-> ours, enabled |-> enabled, says |-> says]
Says == [protocol : {"", "tcp", "any"}, port : {"", "80"}]
Rules == {<<>>} \cup {<<Rule(o, e, x)>> : o, e \in BOOLEAN,
                       x \in {y \in Says : y.protocol # "" /\ (y.port # "" => y.protocol = "tcp")}}
RuleSettings == [ensure : {"absent", "present"}, says : Says]
ValidateFirewallRule(s) == s.ensure = "present" => ~(s.says.port # "" /\ s.says.protocol = "any")

CmdletProtocol(p) == IF p = "tcp" THEN p ELSE "any"
RuleMatches(got, s) == got.port = s.port /\ got.protocol = CmdletProtocol(s.protocol)

RuleTest(m, s) ==
    IF s.ensure = "absent" THEN m # <<>> => ~m[1].ours
    ELSE m # <<>> /\ RuleMatches(m[1].says, s.says)
RuleGet(m) == [exists |-> m # <<>>, data |-> IF m = <<>> THEN None ELSE m[1]]
RemoveOurs(m) == SelectSeq(m, LAMBDA r : ~r.ours)

\* New-NetFirewallRule takes a port only with a protocol that has them.
CreateRule(m, says) ==
    LET protocol == CmdletProtocol(says.protocol)
    IN IF says.port # "" /\ protocol = "any" THEN Failed(m)
       ELSE Done(Append(m, Rule(TRUE, TRUE, [says EXCEPT !.protocol = protocol])))

RuleSet(m, s) ==
    {IF m # <<>> /\ ~m[1].ours THEN Failed(m)
     ELSE IF s.ensure = "absent" THEN Done(RemoveOurs(m))
     ELSE CreateRule(RemoveOurs(m), s.says)}
RuleRevert(m, was) ==
    {IF was.exists THEN CreateRule(RemoveOurs(m), was.data.says)
     ELSE Done(IF m # <<>> /\ m[1].ours THEN RemoveOurs(m) ELSE m)}

\* firewall_profile: on or off.
ProfileSet(m, s) == {Done(s)}
ProfileRevert(m, was) == ProfileSet(m, was.data)

-----------------------------------------------------------------------------
\* defender: preferences by name, a setting naming some; Tamper Protection
\* lets a write succeed and change nothing, which Set reads back.
Preferences == {"realtime", "cloud"}
Partial(D, R) == UNION {[S -> R] : S \in SUBSET D}
ValidateDefender(s) == DOMAIN s # {}
Override(m, s) == [p \in DOMAIN m |-> IF p \in DOMAIN s THEN s[p] ELSE m[p]]
Defenders == [values : [Preferences -> {0, 1}], tamper : BOOLEAN]

DefenderTest(m, s) == \A p \in DOMAIN s : m.values[p] = s[p]
DefenderGet(m, s) == [exists |-> TRUE, data |-> [p \in DOMAIN s |-> m.values[p]]]
DefenderWrite(m, s) == IF m.tamper THEN m ELSE [m EXCEPT !.values = Override(@, s)]

DefenderSet(m, s) ==
    LET now == DefenderWrite(m, s) IN {IF DefenderTest(now, s) THEN Done(now) ELSE Failed(now)}
DefenderRevert(m, was) == {Done(DefenderWrite(m, was.data))}

-----------------------------------------------------------------------------
\* windows_update: the policy values a setting's options stand for, each one
\* read, written and put back by the registry handler, in order.
Options == {"quality_deferral", "pause_quality", "auto_restart", "quality_deadline", "grace"}
PolicyValues == {"DeferQuality", "DeferQualityDays", "PauseQualityStart", "NoAutoReboot",
                 "SetDeadline", "DeadlineQuality", "GracePeriod"}

ValidateWindowsUpdate(s) ==
    /\ "grace" \in DOMAIN s => "quality_deadline" \in DOMAIN s
    /\ DOMAIN s \ {"grace"} # {}

\* UpdatePolicyValues: pausing turns deferral on, at zero days; restarting
\* automatically is phrased the other way round; a grace period counts only
\* with a deadline.
UpdatePolicyValues(s) ==
    LET names(n) == CASE n \in {"DeferQuality", "DeferQualityDays"} ->
                             DOMAIN s \cap {"quality_deferral", "pause_quality"} # {}
                      [] n = "PauseQualityStart" -> "pause_quality" \in DOMAIN s
                      [] n = "NoAutoReboot" -> "auto_restart" \in DOMAIN s
                      [] n \in {"SetDeadline", "DeadlineQuality"} -> "quality_deadline" \in DOMAIN s
                      [] OTHER -> {"quality_deadline", "grace"} \subseteq DOMAIN s
        value(n) == CASE n = "DeferQualityDays" ->
                             IF "quality_deferral" \in DOMAIN s THEN s["quality_deferral"] ELSE 0
                      [] n = "PauseQualityStart" -> s["pause_quality"]
                      [] n = "NoAutoReboot" -> 1 - s["auto_restart"]
                      [] n = "DeadlineQuality" -> s["quality_deadline"]
                      [] n = "GracePeriod" -> s["grace"]
                      [] OTHER -> 1
    IN [n \in {v \in PolicyValues : names(v)} |-> value(n)]

Updates == [PolicyValues -> {None, 0, 1}]
UpdateTest(m, s) == \A n \in DOMAIN UpdatePolicyValues(s) : m[n] = UpdatePolicyValues(s)[n]
UpdateGetNothing(m, s) == [exists |-> FALSE, data |-> [n \in DOMAIN UpdatePolicyValues(s) |-> None]]

UpdateGet(m, s) ==
    LET values == [n \in DOMAIN UpdatePolicyValues(s) |-> m[n]]
    IN [exists |-> \E n \in DOMAIN values : values[n] # None, data |-> values]
UpdateSet(m, s) == {Done(Override(m, UpdatePolicyValues(s)))}
UpdateRevert(m, was) == {Done(Override(m, was.data))}

-----------------------------------------------------------------------------
\* certificate: in the store or not.  Removed again unless it was there before.
CertificateSet(m) == {Done(TRUE)}
CertificateRevert(m, was) == {Done(IF was.exists THEN m ELSE FALSE)}

\* wifi: the profile of one network; a machine with no wireless adapter has
\* nothing to configure.  A network with a passphrase needs it, an 802.1X one
\* its server names and roots, or the profile is not rendered.
Networks == [security : {"open", "personal", "enterprise"}, key : {"", "k"}, roots : {{}, {"r"}}]
WiFis == {[adapter |-> a, net |-> n] : a \in BOOLEAN, n \in {None} \cup Networks}

ValidateOneX(s) == s.key = "" /\ s.roots # {}

ValidateWiFi(s) ==
    CASE s.security = "enterprise" -> ValidateOneX(s)
      [] s.security = "personal" -> s.key # "" /\ s.roots = {}
      [] OTHER -> s.key = "" /\ s.roots = {}

RenderOneX(s) == s.roots # {}
Renders(s) == CASE s.security = "open" -> TRUE
                [] s.security = "personal" -> s.key # ""
                [] OTHER -> RenderOneX(s)
RenderWLANProfile(s) ==
    [s EXCEPT !.key = IF s.security = "personal" THEN @ ELSE "",
              !.roots = IF s.security = "enterprise" THEN @ ELSE {}]

OneXMatches(have, want) == want.security = "enterprise" => have.roots = want.roots
\* The installed profile is read before the wanted one is rendered.
WiFiTestFails(m, s) == ~m.adapter \/ (m.net # None /\ ~Renders(s))
WiFiTest(m, s) ==
    LET w == RenderWLANProfile(s)
    IN /\ m.net # None
       /\ m.net.security = w.security
       /\ (IF m.net.security = "personal" THEN m.net.key ELSE "") = w.key
       /\ OneXMatches(m.net, w)
WiFiGet(m) == [exists |-> m.net # None, data |-> m.net]
WiFiAdd(m, profile) == Done([m EXCEPT !.net = profile])
WiFiSet(m, s) == {IF Renders(s) THEN WiFiAdd(m, RenderWLANProfile(s)) ELSE Failed(m)}
WiFiRevert(m, was) == {IF was.exists THEN WiFiAdd(m, was.data) ELSE Done([m EXCEPT !.net = None])}

\* vpn: one connection; it may have several authentication methods, and only
\* the first is ever written.
VPNs == {None} \cup [server : {"a", "b"}, split : BOOLEAN, auth : {<<"eap">>, <<"eap", "mschap">>}]
VPNSettings == [server : {"", "a"}, split : BOOLEAN, auth : {<<>>, <<"eap">>}]
ValidateVPN(s) == s.server # "" /\ s.auth # <<>>

VPNTest(m, s) == m # None /\ m = s
VPNGet(m) == [exists |-> m # None, data |-> m]
VPNApply(m, c) == IF c.auth = <<>> THEN Failed(m) ELSE Done([c EXCEPT !.auth = <<Head(@)>>])
VPNSet(m, s) == {VPNApply(m, s)}
VPNRevert(m, was) == {IF was.exists THEN VPNApply(m, was.data) ELSE Done(None)}

-----------------------------------------------------------------------------
Kinds == {"file", "registry", "service", "group", "firewall_rule", "firewall_profile",
          "defender", "windows_update", "certificate", "wifi", "vpn"}

Machines(k) ==
    CASE k = "file" -> Files [] k = "registry" -> Keys [] k = "service" -> Services
      [] k = "group" -> Groups [] k = "firewall_rule" -> Rules
      [] k \in {"firewall_profile", "certificate"} -> BOOLEAN
      [] k = "defender" -> Defenders
      [] k = "windows_update" -> {m \in Updates : m["SetDeadline"] = m["DeadlineQuality"]
                                                  /\ m["DeferQuality"] = m["DeferQualityDays"]}
      [] k = "wifi" -> WiFis
      [] OTHER -> VPNs
Settings(k) ==
    CASE k = "file" -> FileSettings [] k = "registry" -> RegSettings [] k = "service" -> ServiceSettings
      [] k = "group" -> GroupSettings [] k = "firewall_rule" -> RuleSettings
      [] k = "firewall_profile" -> BOOLEAN [] k = "certificate" -> {TRUE}
      [] k = "defender" -> Partial(Preferences, {0, 1})
      [] k = "windows_update" -> Partial(Options, {0, 1})
      [] k = "wifi" -> Networks
      [] OTHER -> VPNSettings

\* Setting.Validate: the server keeps no profile with a setting it refuses.
Validate(k, s) ==
    CASE k = "file" -> ValidateFile(s) [] k = "registry" -> ValidateRegistry(s)
      [] k = "service" -> ValidateService(s) [] k = "group" -> ValidateGroup(s)
      [] k = "firewall_rule" -> ValidateFirewallRule(s) [] k = "defender" -> ValidateDefender(s)
      [] k = "windows_update" -> ValidateWindowsUpdate(s)
      [] k = "wifi" -> ValidateWiFi(s) [] k = "vpn" -> ValidateVPN(s)
      [] OTHER -> TRUE

TestFails ==
    CASE kind = "file" -> FileTestFails(machine)
      [] kind = "registry" -> RegTestFails(machine, setting)
      [] kind \in {"service", "group"} -> machine = None
      [] kind = "wifi" -> WiFiTestFails(machine, setting)
      [] OTHER -> FALSE
Test(m) ==
    CASE kind = "file" -> FileTest(m, setting)
      [] kind = "registry" -> RegTest(m, setting)
      [] kind = "service" -> ServiceTest(m, setting)
      [] kind = "group" -> GroupTest(m, setting)
      [] kind = "firewall_rule" -> RuleTest(m, setting)
      [] kind = "defender" -> DefenderTest(m, setting)
      [] kind = "windows_update" -> UpdateTest(m, setting)
      [] kind = "wifi" -> WiFiTest(m, setting)
      [] kind = "vpn" -> VPNTest(m, setting)
      [] OTHER -> m = setting
Get ==
    CASE kind = "file" -> FileGet(machine)
      [] kind = "registry" -> RegGet(machine)
      [] kind = "service" -> ServiceGet(machine)
      [] kind = "group" -> GroupGet(machine)
      [] kind = "firewall_rule" -> RuleGet(machine)
      [] kind = "defender" -> DefenderGet(machine, setting)
      [] kind = "windows_update" -> UpdateGet(machine, setting)
      [] kind = "certificate" -> [exists |-> machine, data |-> None]
      [] kind = "wifi" -> WiFiGet(machine)
      [] kind = "vpn" -> VPNGet(machine)
      [] OTHER -> [exists |-> TRUE, data |-> machine]
Sets ==
    CASE kind = "file" -> FileSet(machine, setting)
      [] kind = "registry" -> RegSet(machine, setting)
      [] kind = "service" -> ServiceSet(machine, setting)
      [] kind = "group" -> GroupSet(machine, setting)
      [] kind = "firewall_rule" -> RuleSet(machine, setting)
      [] kind = "defender" -> DefenderSet(machine, setting)
      [] kind = "windows_update" -> UpdateSet(machine, setting)
      [] kind = "certificate" -> CertificateSet(machine)
      [] kind = "wifi" -> WiFiSet(machine, setting)
      [] kind = "vpn" -> VPNSet(machine, setting)
      [] OTHER -> ProfileSet(machine, setting)
Reverts ==
    CASE kind = "file" -> FileRevert(machine, prior)
      [] kind = "registry" -> RegRevert(machine, prior)
      [] kind = "service" -> ServiceRevert(machine, prior)
      [] kind = "group" -> GroupRevert(machine, prior)
      [] kind = "firewall_rule" -> RuleRevert(machine, prior)
      [] kind = "defender" -> DefenderRevert(machine, prior)
      [] kind = "windows_update" -> UpdateRevert(machine, prior)
      [] kind = "certificate" -> CertificateRevert(machine, prior)
      [] kind = "wifi" -> WiFiRevert(machine, prior)
      [] kind = "vpn" -> VPNRevert(machine, prior)
      [] OTHER -> ProfileRevert(machine, prior)

-----------------------------------------------------------------------------
Init ==
    /\ kind \in Kinds
    /\ found \in Machines(kind) /\ machine = found
    /\ setting \in {s \in Settings(kind) : Validate(kind, s)}
    /\ prior = None /\ status = "assigned"

\* apply, when there is nothing to do or nothing can be done.
Leave ==
    /\ status \in {"assigned", "error"}
    /\ \/ TestFails /\ status' = "error"
       \/ ~TestFails /\ Test(machine) /\ status' = "compliant"
    /\ UNCHANGED <<kind, setting, found, machine, prior>>

\* apply: Get the first time, Set, and Test again.
Apply ==
    /\ status \in {"assigned", "error"} /\ ~TestFails /\ ~Test(machine)
    /\ prior' = IF prior = None THEN Get ELSE prior
    /\ \E r \in Sets :
         /\ machine' = r.m
         /\ status' = IF r.ok /\ Test(r.m) THEN "remediated" ELSE "error"
    /\ UNCHANGED <<kind, setting, found>>

\* The profile is gone and asked for its settings to be undone.
Revert ==
    /\ status \in {"compliant", "remediated", "error"} /\ prior # None
    /\ \E r \in Reverts :
         machine' = r.m /\ status' = IF r.ok THEN "reverted" ELSE "kept"
    /\ UNCHANGED <<kind, setting, found, prior>>

Next == Leave \/ Apply \/ Revert
Spec == Init /\ [][Next]_vars
-----------------------------------------------------------------------------

\* What Revert cannot bring back: contents too large to record, a type the
\* agent cannot write, a service that was in between states or is disabled,
\* members with the same name in another domain, an Administrator it added,
\* a rule that was switched off, and a connection's second authentication method.
Unrestorable ==
    \/ kind = "file" /\ found.file # None /\ found.file.content = "big"
    \/ kind = "service" /\ (found.startup = "boot" \/ found.startup = "disabled"
                              \/ found.state \in {"start_pending", "stop_pending"})
    \/ kind = "group" /\ \E a, b \in found \cup setting.members :
         a.name = b.name /\ (a # b \/ (a.name = "administrator" /\ a \notin found))
    \/ kind = "firewall_rule" /\ found # <<>> /\ (~found[1].enabled \/ ~found[1].ours)
    \/ kind = "defender" /\ found.tamper
    \/ kind = "vpn" /\ found # None /\ Len(found.auth) > 1

\* A revert that succeeds leaves the machine as it was found (Reverter).
RevertRestores == status = "reverted" /\ ~Unrestorable => machine = found

=============================================================================
