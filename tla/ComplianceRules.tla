-------------------------- MODULE ComplianceRules --------------------------
(***************************************************************************)
(* The rule engine of compliance policies (compliance/rules.go), with the  *)
(* life of one policy document and one device around it: an administrator  *)
(* saves the document (strict parse, canonical encoding), the device       *)
(* reports facts, time passes, and an evaluation turns rules, facts and    *)
(* the clock into a verdict.                                               *)
(*                                                                         *)
(* A rule document is a sequence of [type, fields]; every rule type has at *)
(* most one parameter, so a parsed rule is [type, p].  Text is a sequence  *)
(* of its parts: a dotted number is the sequence of its segments, with -1  *)
(* for a segment that is not a number, and <<>> is the empty string.       *)
(* Wrong stands for a JSON value of another type, and for a refused parse. *)
(***************************************************************************)
EXTENDS Integers, Sequences, FiniteSetsExt, SequencesExt

CONSTANTS
    Documents,      \* the documents an administrator may send
    FactsFor(_),    \* the facts a device may have, for a sequence of rule types
    MaxHours, MaxDays, MaxSignatureDays, MaxAdmins, MaxNameLen, MaxRules,
    MaxReleases,    \* most entries of "minimums"
    Day,            \* hours in a day, scaled down with the clock
    ScanStale,      \* updateScanStale, in hours
    MaxNow,         \* bound on the clock
    None, Wrong

VARIABLES
    draft,          \* the document being sent
    stored,         \* compliance_policies.rules, None before the first save
    facts,          \* what the server knows about the device
    now,            \* the server's clock, in hours
    verdict         \* the device_compliance state of the last evaluation

vars == <<draft, stored, facts, now, verdict>>

FirewallProfiles == <<"domain", "private", "public">>

-----------------------------------------------------------------------------
(* Dotted numbers.                                                         *)

dottedNumeric(s) == s # <<>> /\ \A i \in DOMAIN s : s[i] >= 0

Segment(s, i) == IF i \in DOMAIN s THEN s[i] ELSE 0

\* Negative, zero or positive; only called on dotted numbers.
CompareDotted(a, b) ==
    LET n == Max({Len(a), Len(b)})
        differ == {i \in 1..n : Segment(a, i) # Segment(b, i)}
    IN  IF differ = {} THEN 0
        ELSE Segment(a, Min(differ)) - Segment(b, Min(differ))

-----------------------------------------------------------------------------
(* Parsing: ParseRules, parseRule and the field readers.                   *)

allowedFields ==
    [os_build_min                 |-> {"build"},
     os_build_min_per_release     |-> {"minimums"},
     agent_version_min            |-> {"version"},
     bitlocker                    |-> {"volumes"},
     tpm                          |-> {"min_version"},
     checked_in_within            |-> {"hours"},
     inventory_within             |-> {"hours"},
     updates_within               |-> {"days"},
     no_pending_reboot            |-> {},
     max_local_admins             |-> {"count"},
     max_missing_security_updates |-> {"count"},
     forbidden_software           |-> {"name"},
     required_software            |-> {"name"},
     profile_applied              |-> {"profile_id"},
     defender_realtime            |-> {},
     defender_signatures_within   |-> {"days"},
     firewall_enabled             |-> {"profiles"}]

Types == DOMAIN allowedFields

stringField(m, key) == IF key \in DOMAIN m THEN m[key] ELSE <<>>

\* An absent number is refused by every caller, so it reads as Wrong.
intField(m, key) == IF key \in DOMAIN m THEN m[key] ELSE Wrong

ParseDotted(text) == IF text # Wrong /\ dottedNumeric(text) THEN text ELSE Wrong

ParseMinimums(m) ==
    LET table == IF "minimums" \in DOMAIN m THEN m.minimums ELSE Wrong
        Fits(base) == /\ dottedNumeric(base) /\ Len(base) = 1
                      /\ dottedNumeric(table[base]) /\ Len(table[base]) = 2
                      /\ table[base][1] = base[1]
    IN  IF /\ table # Wrong
           /\ Cardinality(DOMAIN table) \in 1..MaxReleases
           /\ \A base \in DOMAIN table : Fits(base)
        THEN table ELSE Wrong

ParseVolumes(text) == IF text \in {<<"system">>, <<"all">>} THEN text ELSE Wrong

ParseMinVersion(text) ==
    IF text # Wrong /\ (text = <<>> \/ dottedNumeric(text)) THEN text ELSE Wrong

ParseBounded(n, low, high) == IF n # Wrong /\ n \in low..high THEN n ELSE Wrong

ParseName(text) ==
    IF text # Wrong /\ Len(text) \in 1..MaxNameLen THEN text ELSE Wrong

\* uuid.Parse accepts several spellings of one id: <<id, spelling>>.
ParseProfileID(text) == IF text # Wrong /\ Len(text) = 2 THEN text[1] ELSE Wrong

\* The profiles named, once each, in the order first named; <<>> when the
\* field is absent, which means all three.
ParseProfiles(m) ==
    IF "profiles" \notin DOMAIN m THEN <<>>
    ELSE IF \/ m.profiles = Wrong
            \/ m.profiles = <<>>
            \/ ~ ToSet(m.profiles) \subseteq ToSet(FirewallProfiles)
         THEN Wrong
         ELSE FoldLeft(LAMBDA out, name :
                           IF name \in ToSet(out) THEN out ELSE Append(out, name),
                       <<>>, m.profiles)

ParseParameter(type, m) ==
    CASE type = "os_build_min" -> ParseDotted(stringField(m, "build"))
      [] type = "os_build_min_per_release" -> ParseMinimums(m)
      [] type = "agent_version_min" -> ParseDotted(stringField(m, "version"))
      [] type = "bitlocker" -> ParseVolumes(stringField(m, "volumes"))
      [] type = "tpm" -> ParseMinVersion(stringField(m, "min_version"))
      [] type \in {"checked_in_within", "inventory_within"} ->
             ParseBounded(intField(m, "hours"), 1, MaxHours)
      [] type = "updates_within" -> ParseBounded(intField(m, "days"), 1, MaxDays)
      [] type \in {"max_local_admins", "max_missing_security_updates"} ->
             ParseBounded(intField(m, "count"), 0, MaxAdmins)
      [] type \in {"forbidden_software", "required_software"} ->
             ParseName(stringField(m, "name"))
      [] type = "profile_applied" -> ParseProfileID(stringField(m, "profile_id"))
      [] type = "defender_signatures_within" ->
             ParseBounded(intField(m, "days"), 1, MaxSignatureDays)
      [] type = "firewall_enabled" -> ParseProfiles(m)
      [] OTHER -> None      \* no_pending_reboot and defender_realtime take none

parseRule(raw) ==
    IF raw.type \notin Types \/ ~ DOMAIN raw.fields \subseteq allowedFields[raw.type]
    THEN Wrong
    ELSE LET p == ParseParameter(raw.type, raw.fields)
         IN  IF p = Wrong THEN Wrong ELSE [type |-> raw.type, p |-> p]

ParseRules(raw) ==
    LET parsed == [i \in DOMAIN raw |-> parseRule(raw[i])]
    IN  IF Len(raw) \in 1..MaxRules /\ \A i \in DOMAIN raw : parsed[i] # Wrong
        THEN parsed ELSE Wrong

-----------------------------------------------------------------------------
(* The canonical encoding: Rule.MarshalJSON and MarshalRules.              *)

\* The one field the type has; tpm and firewall_enabled omit it when empty.
Marshal(rule) ==
    LET omitted == rule.type \in {"tpm", "firewall_enabled"} /\ rule.p = <<>>
    IN  [type |-> rule.type,
         fields |-> [f \in (IF omitted THEN {} ELSE allowedFields[rule.type]) |->
                       IF f = "profile_id" THEN <<rule.p, "canonical">> ELSE rule.p]]

MarshalRules(rules) == [i \in DOMAIN rules |-> Marshal(rules[i])]

-----------------------------------------------------------------------------
(* Evaluation of one rule: "met", "non_compliant" or "unknown".            *)

\* A limit that holds when known, and is unknown otherwise.
Judge(known, met) ==
    IF ~ known THEN "unknown" ELSE IF met THEN "met" ELSE "non_compliant"

evalOSBuildMin(p, f) ==
    Judge(dottedNumeric(f.build), CompareDotted(f.build, p) >= 0)

evalOSBuildMinPerRelease(p, f) ==
    IF f.inv = None \/ f.inv.build = <<>> \/ f.inv.ubr = None \/ f.inv.build \notin DOMAIN p
    THEN "unknown"
    ELSE LET full == Append(f.inv.build, f.inv.ubr)
         IN  Judge(dottedNumeric(full), CompareDotted(full, p[f.inv.build]) >= 0)

evalAgentVersionMin(p, f) ==
    Judge(dottedNumeric(f.agent), CompareDotted(f.agent, p) >= 0)

systemVolume(disks) == SelectSeq(disks, LAMBDA d : d.name = "C:")

bitlockerFailure(disk) == Judge(disk.bitlocker \in {"on", "off"}, disk.bitlocker = "on")

evalBitLocker(p, f) ==
    IF f.inv = None THEN "unknown"
    ELSE IF p = <<"system">>
         THEN LET found == systemVolume(f.inv.disks)
              IN  IF found = <<>> THEN "unknown" ELSE bitlockerFailure(found[1])
         ELSE Judge(/\ f.inv.disks # <<>>
                    /\ \A d \in ToSet(f.inv.disks) : d.bitlocker # "unknown",
                    \A d \in ToSet(f.inv.disks) : d.bitlocker # "off")

evalTPM(p, f) ==
    IF f.inv = None THEN "unknown"
    ELSE IF ~ f.inv.tpm.present THEN "non_compliant"
    ELSE IF p = <<>> THEN "met"
    ELSE Judge(dottedNumeric(f.inv.tpm.version), CompareDotted(f.inv.tpm.version, p) >= 0)

\* evalCheckedInWithin, evalInventoryWithin, evalUpdatesWithin: an age limit.
Within(since, limit) == Judge(since # None, since # None => now - since <= limit)

evalCheckedInWithin(p, f) == Within(f.seen, p)

evalInventoryWithin(p, f) == Within(f.received, p)

evalUpdatesWithin(p, f) ==
    Within(IF f.inv = None THEN None ELSE f.inv.updated, p * Day)

evalNoPendingReboot(f) == Judge(f.inv # None, f.inv # None => ~ f.inv.reboot)

evalMaxLocalAdmins(p, f) ==
    IF f.inv = None THEN "unknown" ELSE Judge(f.inv.admins # 0, f.inv.admins <= p)

softwareGap(f) == f.inv = None \/ (f.inv # None => f.inv.software = {})

\* Some installed package contains the name.
matchSoftware(installed, name) ==
    \E s \in installed : \E i, j \in DOMAIN s : SubSeq(s, i, j) = name

evalForbiddenSoftware(p, f) ==
    IF softwareGap(f) THEN "unknown" ELSE Judge(TRUE, ~ matchSoftware(f.inv.software, p))

evalRequiredSoftware(p, f) ==
    IF softwareGap(f) THEN "unknown" ELSE Judge(TRUE, matchSoftware(f.inv.software, p))

evalProfileApplied(p, f) ==
    IF p \notin DOMAIN f.profiles THEN "unknown"
    ELSE Judge(f.profiles[p] # "pending", f.profiles[p] = "succeeded")

defenderOf(f) == IF f.inv = None THEN None ELSE f.inv.defender

evalDefenderRealtime(f) ==
    LET d == defenderOf(f)
    IN  IF d = None THEN "unknown" ELSE Judge(d.normal, d.antivirus /\ d.realtime)

evalDefenderSignaturesWithin(p, f) ==
    LET d == defenderOf(f)
    IN  Within(IF d = None THEN None ELSE d.updated, p * Day)

evalFirewallEnabled(p, f) ==
    IF f.inv = None \/ (f.inv # None => f.inv.firewall = None) THEN "unknown"
    ELSE LET names == ToSet(IF p = <<>> THEN FirewallProfiles ELSE p)
             reported == DOMAIN f.inv.firewall
         IN  IF \E name \in names \cap reported : ~ f.inv.firewall[name]
             THEN "non_compliant"
             ELSE Judge(names \subseteq reported, TRUE)

evalMaxMissingSecurityUpdates(p, f) ==
    IF f.inv = None \/ (f.inv # None => f.inv.scan = None) THEN "unknown"
    ELSE Judge(~ f.inv.scan.error /\ now - f.inv.scan.at <= ScanStale,
               f.inv.scan.missing <= p)

evaluateRule(rule, f) ==
    CASE rule.type = "os_build_min" -> evalOSBuildMin(rule.p, f)
      [] rule.type = "os_build_min_per_release" -> evalOSBuildMinPerRelease(rule.p, f)
      [] rule.type = "agent_version_min" -> evalAgentVersionMin(rule.p, f)
      [] rule.type = "bitlocker" -> evalBitLocker(rule.p, f)
      [] rule.type = "tpm" -> evalTPM(rule.p, f)
      [] rule.type = "checked_in_within" -> evalCheckedInWithin(rule.p, f)
      [] rule.type = "inventory_within" -> evalInventoryWithin(rule.p, f)
      [] rule.type = "updates_within" -> evalUpdatesWithin(rule.p, f)
      [] rule.type = "no_pending_reboot" -> evalNoPendingReboot(f)
      [] rule.type = "max_local_admins" -> evalMaxLocalAdmins(rule.p, f)
      [] rule.type = "forbidden_software" -> evalForbiddenSoftware(rule.p, f)
      [] rule.type = "required_software" -> evalRequiredSoftware(rule.p, f)
      [] rule.type = "profile_applied" -> evalProfileApplied(rule.p, f)
      [] rule.type = "defender_realtime" -> evalDefenderRealtime(f)
      [] rule.type = "defender_signatures_within" -> evalDefenderSignaturesWithin(rule.p, f)
      [] rule.type = "firewall_enabled" -> evalFirewallEnabled(rule.p, f)
      [] rule.type = "max_missing_security_updates" ->
             evalMaxMissingSecurityUpdates(rule.p, f)

\* The first failure decides.
EvaluateFirst(rules, f) ==
    LET failures == SelectSeq([i \in DOMAIN rules |-> evaluateRule(rules[i], f)],
                              LAMBDA s : s # "met")
    IN  IF failures = <<>> THEN "compliant" ELSE failures[1]

Evaluate(rules, f) ==
    LET states == {evaluateRule(rules[i], f) : i \in DOMAIN rules}
    IN  IF "non_compliant" \in states THEN "non_compliant"
        ELSE IF "unknown" \in states THEN "unknown" ELSE "compliant"

complianceRank == [compliant |-> 0, unknown |-> 1, non_compliant |-> 2]

\* ComplianceOverall and ComplianceCounts: the worst of a device's rows.
ComplianceOverall(states) ==
    IF states = {} THEN "not_evaluated"
    ELSE CHOOSE s \in states : \A t \in states : complianceRank[t] <= complianceRank[s]

-----------------------------------------------------------------------------
Init ==
    /\ draft \in Documents
    /\ stored = None
    /\ facts \in FactsFor([i \in DOMAIN draft |-> draft[i].type])
    /\ now = 0
    /\ verdict = "not_evaluated"

\* Create or Update: validate, and keep the rules in canonical form.
Save ==
    /\ ParseRules(draft) # Wrong
    /\ stored' = MarshalRules(ParseRules(draft))
    /\ UNCHANGED <<draft, facts, now, verdict>>

\* The document is refused and nothing is kept.
Refuse ==
    /\ ParseRules(draft) = Wrong
    /\ UNCHANGED vars

\* The device reports afresh.
Hear ==
    /\ facts' \in FactsFor([i \in DOMAIN draft |-> draft[i].type])
    /\ UNCHANGED <<draft, stored, now, verdict>>

Tick ==
    /\ now < MaxNow
    /\ now' = now + 1
    /\ UNCHANGED <<draft, stored, facts, verdict>>

\* evaluateOne: rules that no longer parse are unknown.
Score ==
    /\ stored # None
    /\ verdict' = LET rules == ParseRules(stored)
                  IN  IF rules = Wrong THEN "unknown" ELSE Evaluate(rules, facts)
    /\ UNCHANGED <<draft, stored, facts, now>>

Next == Save \/ Refuse \/ Hear \/ Tick \/ Score

Spec == Init /\ [][Next]_vars

-----------------------------------------------------------------------------
Rules == IF stored = None THEN <<>> ELSE ParseRules(stored)

\* Evaluate's roll-up and ComplianceOverall's agree: the rules of one policy
\* split over two policies give the device the same overall state.
SplittingChangesNothing ==
    Rules # <<>> /\ Rules # Wrong =>
        \A n \in 1..Len(Rules) - 1 :
            ComplianceOverall({Evaluate(SubSeq(Rules, 1, n), facts),
                               Evaluate(SubSeq(Rules, n + 1, Len(Rules)), facts)})
            = Evaluate(Rules, facts)

=============================================================================
