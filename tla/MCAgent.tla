------------------------------ MODULE MCAgent -------------------------------
(***************************************************************************)
(* What the agent does on the machine, for TLC: the rotation of the        *)
(* administrator's password, policy profiles and the handlers of their     *)
(* settings, apps, and scripts.                                            *)
(***************************************************************************)
EXTENDS Escrow, Sequences, TLC

CONSTANTS
    Off,   \* the value of a variable of a part that is left out
    None, p, q, i, j, x, y

VARIABLES
    scene,   \* which of the parts this behaviour is about
    def, target, syncs, run, policyMachine, prior, records, cache, edits,
    drift, faults, lost,
    kind, setting, found, handlersMachine, handlersPrior, handlersStatus,
    app, usable, want, waiting, open, appsRun, appsMachine, st, appsServer,
    appsEdits, touches, appsFaults, appsLost,
    opts, script, scriptsWant, scriptsWaiting, user, scriptsRun, scriptsSt,
    scriptsCache, good, last, scriptsEdits, scriptsDrift, scriptsFaults,
    ran, stray

\* The settings of profiles: the same one, different ones, ones that overlap, and
\* a version of each kind that is not signed.
A == [f \in {x} |-> 8]
B == [f \in {x} |-> 9]
AA == [f \in {x, y} |-> 8]
V(settings, signed) == [settings |-> settings, signed |-> signed]
On(id, s) == id :> s
Profiles ==
    {(p :> <<V(On(i, A), TRUE), V(On(i, B), TRUE)>>) @@ (q :> <<V(On(i, A), TRUE)>>),
     (p :> <<V(On(i, A), TRUE), V(On(j, A), FALSE)>>) @@ (q :> <<V(On(i, A) @@ On(j, B), TRUE)>>),
     (p :> <<V(On(i, A), TRUE), V(On(i, AA), TRUE)>>) @@ (q :> <<V(On(j, A), FALSE)>>)}

Pol == INSTANCE Policy WITH
    Profiles <- {p, q}, Identities <- {i, j}, Fields <- {x, y},
    Definitions <- Profiles, Syncs <- {1, 2}, MaxEdits <- 2, MaxDrift <- 1,
    MaxFaults <- 1, machine <- policyMachine

Hand == INSTANCE Handlers WITH
    machine <- handlersMachine, prior <- handlersPrior,
    status <- handlersStatus

AppDefinitions ==
    {<<d, d>> : d \in {[kind |-> "winget", rule |-> "package", previous |-> FALSE],
                       [kind |-> "package", rule |-> "product", previous |-> TRUE],
                       [kind |-> "package", rule |-> "atLeast", previous |-> FALSE]}}

App == INSTANCE Apps WITH
    Versions <- {1, 2}, Definitions <- AppDefinitions, MaxAttempts <- 2,
    MaxWaiting <- 2, MaxEdits <- 1, MaxTouches <- 1, MaxFaults <- 2,
    run <- appsRun, machine <- appsMachine, server <- appsServer,
    edits <- appsEdits, faults <- appsFaults, lost <- appsLost

\* Once or again and again, with retries or none, run again by hand or not, as
\* the system or as the user.
ScriptOptions ==
    {[recurring |-> r, retries |-> n, rerun |-> TRUE, user |-> FALSE] : r \in BOOLEAN, n \in {0, 2}}
    \cup {[recurring |-> TRUE, retries |-> 2, rerun |-> FALSE, user |-> FALSE],
          [recurring |-> FALSE, retries |-> 2, rerun |-> TRUE, user |-> TRUE]}
Is(signed, detection) == [signed |-> signed, detection |-> detection]
ScriptBodies ==
    {<<Is(TRUE, TRUE), Is(TRUE, TRUE)>>, <<Is(TRUE, FALSE), Is(TRUE, FALSE)>>,
     <<Is(TRUE, TRUE), Is(FALSE, TRUE)>>, <<Is(FALSE, FALSE), Is(TRUE, TRUE)>>}

Script == INSTANCE Scripts WITH
    Versions <- {1, 2}, Options <- ScriptOptions, Bodies <- ScriptBodies,
    MaxWaiting <- 2, MaxEdits <- 1, MaxDrift <- 1, MaxFaults <- 2,
    want <- scriptsWant, waiting <- scriptsWaiting, run <- scriptsRun,
    st <- scriptsSt, cache <- scriptsCache, edits <- scriptsEdits,
    drift <- scriptsDrift, faults <- scriptsFaults

\* One sync of the profiles at a time with every fault, or two that overlap.
Scene == IF scene = "one sync" THEN syncs[2] = None ELSE faults = 0 /\ drift = 0

policyVars ==
    <<def, target, syncs, run, policyMachine, prior, records, cache, edits,
      drift, faults, lost>>

handlersVars ==
    <<kind, setting, found, handlersMachine, handlersPrior, handlersStatus>>

appsVars ==
    <<app, usable, want, waiting, open, appsRun, appsMachine, st,
      appsServer, appsEdits, touches, appsFaults, appsLost>>

scriptsVars ==
    <<opts, script, scriptsWant, scriptsWaiting, user, scriptsRun,
      scriptsSt, scriptsCache, good, last, scriptsEdits, scriptsDrift,
      scriptsFaults, ran, stray>>

policyOff ==
    def = Off /\ target = Off /\ syncs = Off /\ run = Off /\
    policyMachine = Off /\ prior = Off /\ records = Off /\ cache = Off /\
    edits = Off /\ drift = Off /\ faults = Off /\ lost = Off

handlersOff ==
    kind = Off /\ setting = Off /\ found = Off /\ handlersMachine = Off /\
    handlersPrior = Off /\ handlersStatus = Off

appsOff ==
    app = Off /\ usable = Off /\ want = Off /\ waiting = Off /\
    open = Off /\ appsRun = Off /\ appsMachine = Off /\ st = Off /\
    appsServer = Off /\ appsEdits = Off /\ touches = Off /\
    appsFaults = Off /\ appsLost = Off

scriptsOff ==
    opts = Off /\ script = Off /\ scriptsWant = Off /\
    scriptsWaiting = Off /\ user = Off /\ scriptsRun = Off /\
    scriptsSt = Off /\ scriptsCache = Off /\ good = Off /\ last = Off /\
    scriptsEdits = Off /\ scriptsDrift = Off /\ scriptsFaults = Off /\
    ran = Off /\ stray = Off

-----------------------------------------------------------------------------
\* A behaviour is about one part; the variables of the others are Off,
\* and those of Escrow stay as they start.
MCInit ==
    \/ /\ scene = "password" /\ Init
       /\ policyOff /\ handlersOff /\ appsOff /\ scriptsOff
    \/ /\ scene \in {"one sync", "two syncs"} /\ Pol!Init
       /\ Init /\ handlersOff /\ appsOff /\ scriptsOff
    \/ /\ scene = "handlers" /\ Hand!Init
       /\ Init /\ policyOff /\ appsOff /\ scriptsOff
    \/ /\ scene = "apps" /\ App!Init
       /\ Init /\ policyOff /\ handlersOff /\ scriptsOff
    \/ /\ scene = "scripts" /\ Script!Init
       /\ Init /\ policyOff /\ handlersOff /\ appsOff

InPassword ==
    /\ scene = "password"
    /\ UNCHANGED <<scene, policyVars, handlersVars, appsVars, scriptsVars>>
    /\ Next

InPolicy ==
    /\ scene \in {"one sync", "two syncs"}
    /\ UNCHANGED <<scene, vars, handlersVars, appsVars, scriptsVars>>
    /\ Pol!Next /\ Scene'

InHandlers ==
    /\ scene = "handlers"
    /\ UNCHANGED <<scene, vars, policyVars, appsVars, scriptsVars>>
    /\ Hand!Next

InApps ==
    /\ scene = "apps"
    /\ UNCHANGED <<scene, vars, policyVars, handlersVars, scriptsVars>>
    /\ App!Next

InScripts ==
    /\ scene = "scripts"
    /\ UNCHANGED <<scene, vars, policyVars, handlersVars, appsVars>>
    /\ Script!Next

MCNext == InPassword \/ InPolicy \/ InHandlers \/ InApps \/ InScripts

-----------------------------------------------------------------------------
\* A value of Retune's can be put back to one of the user's: the state
\* recorded first is kept through drift, edits, conflicts, crashes and reverts
\* (rememberPrior, "so a revert restores the original rather than whatever
\* Retune last wrote").  Not where recording it failed, nor where a later
\* version names fields the first did not.
AlwaysRevertible == scene \in {"one sync", "two syncs"} => Pol!AlwaysRevertible

\* A revert that succeeds leaves the machine as it was found (Reverter).
RevertRestores == scene = "handlers" => Hand!RevertRestores

(* An app remembered as settled is one whose success under this version and  *)
(* intent the server has been told of, if the report arrived: a repeated     *)
(* detection stays quiet, a new instruction does not.                        *)
SettledIsReported == scene = "apps" => App!SettledIsReported

(* A script deployed once runs once on a device for each of its versions,    *)
(* unless the agent stopped in the middle of it or an older check-in's Sync  *)
(* got the mutex after a newer one's.                                        *)
OncePerVersion == scene = "scripts" => Script!OncePerVersion
=============================================================================
