------------------------------ MODULE MCDevice ------------------------------
(***************************************************************************)
(* A device as the server knows it, for TLC: how it gets, renews and loses *)
(* its identity, the rules a compliance policy judges it by, and the rules *)
(* that select it into groups.                                             *)
(***************************************************************************)
EXTENDS Identity, Sequences, TLC

CONSTANTS
    Off,   \* the value of a variable of a part that is left out
    Wrong, Null, a1

VARIABLES
    scene,   \* which of the parts this behaviour is about
    draft, stored, facts, now, verdict,
    rule, typed, meant, matched

\* Rules at and around their limits, by type, and devices that tell them apart.
R(type, fields) == [type |-> type, fields |-> fields]

Singles ==
    {R("os_build_min", [build |-> b]) : b \in {<<>>, <<1, 2>>, <<1, -1>>, Wrong}}
    \cup {R("os_build_min_per_release", [minimums |-> m]) :
            m \in {Wrong, (<<1>> :> <<1, 5>>), (<<1>> :> <<1, 5>> @@ <<2>> :> <<2, 3>>),
                   (<<1>> :> <<2, 5>>), (<<1, 2>> :> <<1, 2>>)}}
    \cup {R("agent_version_min", [version |-> v]) : v \in {<<1>>, <<1, 2>>, <<1, 2, 0>>}}
    \cup {R("bitlocker", [volumes |-> v]) : v \in {<<"system">>, <<"all">>, <<"some">>, <<>>}}
    \cup {R("tpm", <<>>), R("tpm", [min_version |-> <<>>]), R("tpm", [min_version |-> <<2, 0>>])}
    \cup {R(t, [hours |-> h]) : t \in {"checked_in_within", "inventory_within"},
                                h \in {0, 1, 2, 3, Wrong}}
    \cup {R("updates_within", [days |-> d]) : d \in {0, 1, 2}}
    \cup {R("no_pending_reboot", <<>>), R("no_pending_reboot", [hours |-> 1])}
    \cup {R(t, [count |-> c]) : t \in {"max_local_admins", "max_missing_security_updates"},
                                c \in {0, 1, 2}}
    \cup {R("max_local_admins", <<>>)}
    \cup {R(t, [name |-> n]) : t \in {"forbidden_software", "required_software"},
                               n \in {<<>>, <<1>>, <<1, 2>>, <<1, 2, 1>>}}
    \cup {R("profile_applied", [profile_id |-> i]) :
            i \in {<<>>, <<1, "canonical">>, <<1, "urn">>}}
    \cup {R("defender_realtime", <<>>)}
    \cup {R("defender_signatures_within", [days |-> d]) : d \in {0, 1, 2}}
    \cup {R("firewall_enabled", <<>>)}
    \cup {R("firewall_enabled", [profiles |-> p]) :
            p \in {<<>>, <<"public">>, <<"public", "public", "domain">>, <<"home">>, Wrong}}
    \cup {R("", <<>>), R("os_version_min", <<>>)}

MCDocuments ==
    {<<r>> : r \in Singles} \cup {<<>>}
    \cup {<<R("no_pending_reboot", <<>>), R("max_local_admins", [count |-> 1]), r>> :
            r \in {R("no_pending_reboot", <<>>), R("os_version_min", <<>>)}}
    \cup {<<R("max_local_admins", [count |-> 1]), R("no_pending_reboot", <<>>)>>,
          <<R("bitlocker", [volumes |-> <<"all">>]), R("checked_in_within", [hours |-> 1])>>}

Plain == [build |-> <<>>, ubr |-> None, disks |-> <<>>,
          tpm |-> [present |-> FALSE, version |-> <<>>], updated |-> None,
          reboot |-> FALSE, admins |-> 0, software |-> {}, defender |-> None,
          firewall |-> None, scan |-> None]

Device(has) == [build |-> <<>>, agent |-> <<>>, seen |-> None, inv |-> has,
                received |-> IF has = None THEN None ELSE 0, profiles |-> <<>>]

Dotted == {<<>>, <<1>>, <<1, 0>>, <<1, 2>>, <<1, 2, 0>>, <<1, 3>>, <<2>>, <<1, -1>>}

Disk(n, b) == [name |-> n, bitlocker |-> b]

Disks == {<<>>} \cup {<<Disk(n, b)>> : n \in {"C:", "D:"}, b \in {"on", "off", "unknown"}}
         \cup {<<Disk("D:", b), Disk("C:", c)>> : b, c \in {"on", "off", "unknown"}}

About(type) ==
    CASE type = "os_build_min" -> {[Device(None) EXCEPT !.build = b] : b \in Dotted}
      [] type = "agent_version_min" -> {[Device(None) EXCEPT !.agent = b] : b \in Dotted}
      [] type = "os_build_min_per_release" ->
           {Device([Plain EXCEPT !.build = b, !.ubr = u]) :
              b \in {<<>>, <<1>>, <<2>>, <<3>>}, u \in {None, 4, 5}} \cup {Device(None)}
      [] type = "bitlocker" ->
           {Device([Plain EXCEPT !.disks = d]) : d \in Disks} \cup {Device(None)}
      [] type = "tpm" ->
           {Device([Plain EXCEPT !.tpm = [present |-> b, version |-> v]]) :
              b \in BOOLEAN, v \in {<<>>, <<1, 2>>, <<2>>}} \cup {Device(None)}
      [] type = "checked_in_within" -> {[Device(None) EXCEPT !.seen = t] : t \in {None, 0, 1}}
      [] type = "inventory_within" -> {Device(None), Device(Plain)}
      [] type = "updates_within" ->
           {Device([Plain EXCEPT !.updated = t]) : t \in {None, -1, 0}} \cup {Device(None)}
      [] type \in {"no_pending_reboot", "max_local_admins"} ->
           {Device([Plain EXCEPT !.reboot = b, !.admins = n]) : b \in BOOLEAN, n \in 0..2}
           \cup {Device(None)}
      [] type \in {"forbidden_software", "required_software"} ->
           {Device([Plain EXCEPT !.software = s]) :
              s \in SUBSET {<<1, 2>>, <<2>>, <<2, 1>>}} \cup {Device(None)}
      [] type = "profile_applied" ->
           {[Device(None) EXCEPT !.profiles = p] :
              p \in {<<>>} \cup {(1 :> s) : s \in {"pending", "succeeded", "failed", "conflict"}}}
      [] type \in {"defender_realtime", "defender_signatures_within"} ->
           {Device([Plain EXCEPT !.defender =
                     [normal |-> n, antivirus |-> a, realtime |-> r, updated |-> u]]) :
              n, a, r \in BOOLEAN, u \in {None, -1, 0}} \cup {Device(None), Device(Plain)}
      [] type = "firewall_enabled" ->
           {Device([Plain EXCEPT !.firewall = w]) :
              w \in {None} \cup UNION {[s -> BOOLEAN] : s \in SUBSET {"domain", "private", "public"}}}
           \cup {Device(None)}
      [] type = "max_missing_security_updates" ->
           {Device([Plain EXCEPT !.scan = [error |-> e, at |-> t, missing |-> m]]) :
              e \in BOOLEAN, t \in {-1, 0}, m \in 0..2} \cup {Device(None), Device(Plain)}
      [] OTHER -> {Device(None)}

MCFactsFor(types) == IF types = <<>> THEN {Device(None)} ELSE About(types[1])

Cr == INSTANCE ComplianceRules WITH
    Documents <- MCDocuments, FactsFor <- MCFactsFor, MaxHours <- 2,
    MaxDays <- 1, MaxSignatureDays <- 1, MaxAdmins <- 1, MaxNameLen <- 2,
    MaxRules <- 2, MaxReleases <- 1, Day <- 2, ScanStale <- 2, MaxNow <- 4

\* Devices that a rule may tell apart, conditions to build rules from, and pieces
\* of text, well-formed and not, to write them with.
Dev(live, name, gb, days, has) ==
    [active |-> live, hostname |-> name, ram |-> gb, seen |-> days, software |-> has]
Pkg(v) == [name |-> <<"x">>, version |-> v]
RuleDevices ==
    <<Dev(TRUE, <<"x">>, Null, Null, {}),
      Dev(TRUE, <<"x", "'">>, 90, 0, {Pkg(<<"1", ".", "9">>)}),
      Dev(TRUE, <<"2">>, 20, 90, {Pkg(<<"1", ".", "1", "0">>), Pkg(<<"x">>)}),
      Dev(FALSE, <<"x">>, 90, 0, {Pkg(<<"1", ".", "9">>)})>>
RulePieces ==
    {<<"hostname">>, <<"ram_gb", " ">>, <<"LIKE">>, <<"'">>, <<"'", "x">>, <<"=">>, <<"<">>, <<"!">>, <<"2">>,
     <<"-", ".">>, <<"has_software", "(">>, <<"'", ")">>, <<",">>, <<"(">>, <<")">>, <<" ", "AND", " ">>,
     <<"NOT", " ">>, <<"%">>, <<"'", "x", "'", ",", "'", "<", "'", ",", "'", "1">>,
     <<"hostname", "=", "'", "x", "'">>}
On(field, op, text, number) ==
    [node |-> "compare", field |-> field, op |-> op, text |-> text, number |-> number]
RuleConditions ==
    {On("hostname", "LIKE", <<"x", "%">>, 0), On("hostname", "=", <<"x", "'">>, 0),
     On("last_seen_days", "<=", <<>>, 20), On("ram_gb", "!=", <<>>, 0),
     [node |-> "software", name |-> <<"x">>, op |-> ">=", version |-> <<"1", ".", "9">>]}

Gr == INSTANCE GroupRules WITH
    Devices <- RuleDevices, Conditions <- RuleConditions,
    Pieces <- RulePieces, MaxPieces <- 4, MaxNodes <- 6,
    MaxRuleLength <- 40, MaxRuleDepth <- 3

rulesVars ==
    <<draft, stored, facts, now, verdict>>

groupsVars ==
    <<rule, typed, meant, matched>>

rulesOff ==
    draft = Off /\ stored = Off /\ facts = Off /\ now = Off /\ verdict = Off

groupsOff ==
    rule = Off /\ typed = Off /\ meant = Off /\ matched = Off

-----------------------------------------------------------------------------
\* A behaviour is about one part; the variables of the others are Off,
\* and those of Identity stay as they start.
MCInit ==
    \/ /\ scene = "identity" /\ Init
       /\ rulesOff /\ groupsOff
    \/ /\ scene = "rules" /\ Cr!Init
       /\ Init /\ groupsOff
    \/ /\ scene = "groups" /\ Gr!Init
       /\ Init /\ rulesOff

InIdentity ==
    /\ scene = "identity"
    /\ UNCHANGED <<scene, rulesVars, groupsVars>>
    /\ Next

InRules ==
    /\ scene = "rules"
    /\ UNCHANGED <<scene, vars, groupsVars>>
    /\ Cr!Next

InGroups ==
    /\ scene = "groups"
    /\ UNCHANGED <<scene, vars, rulesVars>>
    /\ Gr!Next

MCNext == InIdentity \/ InRules \/ InGroups

-----------------------------------------------------------------------------
\* Evaluate's roll-up and ComplianceOverall's agree: the rules of one policy
\* split over two policies give the device the same overall state.
SplittingChangesNothing == scene = "rules" => Cr!SplittingChangesNothing

\* A rule selects the devices its expression is true of, and NOT the rest of
\* the active ones, though a device may have no inventory and no last_seen_at
\* and SQL calls what it cannot compare neither true nor false (compile).
SelectsWhatItSays == scene = "groups" => Gr!SelectsWhatItSays
=============================================================================
