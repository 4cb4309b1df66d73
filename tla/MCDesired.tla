----------------------------- MODULE MCDesired ------------------------------
(***************************************************************************)
(* What devices are to have, for TLC: changes that wait for a second       *)
(* administrator, the library's items and versions, the uploaded packages, *)
(* and the maintenance windows.                                            *)
(***************************************************************************)
EXTENDS Approvals, Integers, Sequences, TLC

CONSTANTS
    Off,   \* the value of a variable of a part that is left out
    p, q, d, e, s, y, r1, r2, i, j, k, u, n1, n2, Unreadable

VARIABLES
    scene,   \* which of the parts this behaviour is about
    kind, keys, current, versions, tx, libraryAssigned, build, device,
    report, status, settings, history, been, overlap,
    files, part, upload, packagesCall, packagesVersions, prune, errors, late,
    zone, now, rows, windowsAssigned, checkin, items, changed, edits, faults

Lib == INSTANCE Library WITH
    Admins <- {p, q}, Bodies <- {{i}, {i, j}}, Passes <- {s, u},
    MaxVersions <- 3, assigned <- libraryAssigned

Pack == INSTANCE Packages WITH
    Hashes <- {i, k}, Admins <- {p}, Ids <- {1}, MaxErrors <- 1,
    call <- packagesCall, versions <- packagesVersions

\* Every kind of window where the clock moves, and a few where it does not.
MCRequests(z) ==
    IF z.shift # 0
    THEN [days : {{}, {0}, {1}}, start : {0, 1, 3}, length : {0, 1, 3, 4}]
    ELSE {[days |-> {}, start |-> 3, length |-> 3], [days |-> {1}, start |-> 3, length |-> 3],
          [days |-> {}, start |-> 4, length |-> 1]}

\* One window at a time where the clock moves.
MCMaxEdits(z) == IF z.shift # 0 THEN 1 ELSE 4

\* The clock goes forward or back once, or stays as it is.
MCZones ==
    [at : {5, 7, 8, 9}, shift : {-1, 1}, after : BOOLEAN] \cup {[at |-> 0, shift |-> 0, after |-> TRUE]}

Win == INSTANCE Windows WITH
    HoursPerDay <- 4, DaysPerWeek <- 2, Ids <- {1, 2}, Names <- {n1, n2},
    Requests <- MCRequests, Zones <- MCZones, MaxTime <- 14,
    MaxEdits <- MCMaxEdits, MaxFaults <- 1, assigned <- windowsAssigned

\* The operations asked for: versions only, with two requests side by side; with
\* a group that selects by rule, or one that gains members; or commands.
Asked ==
    {op \in Ops :
       CASE scene = "order" -> op.kind = "version"
         [] scene = "scope" -> op.kind \in {"version", "group_rule"} \/ (op.kind = "assignment" /\ op.g = y)
         [] scene = "growth" -> op.kind \in {"version", "group_member"} \/ (op.kind = "assignment" /\ op.g = s /\ op.mode = "include")
         [] scene = "commands" -> op.kind = "command"}

ApprovalsNext ==
    /\ StepsOver(Asked)
    /\ scene = "order" => UNCHANGED <<groups, active, members>>
    /\ scene = "scope" => UNCHANGED <<active, members>>
    /\ scene = "growth" => UNCHANGED active
    /\ scene = "commands" => UNCHANGED <<item, groups>>
    /\ approvals'[r2] # None => scene = "order" /\ approvals'[r1] # None
    /\ scene # "order" /\ item' # None => Len(item'.versions) <= 2

\* Two administrators edit; or one does, and what was made reaches a device.
LibraryNext ==
    \/ scene = "edit" /\ Lib!Edit
    \/ /\ scene = "reach" /\ Lib!Edit
       /\ tx'[q] = None
       /\ Len(versions') <= 2
       /\ (tx'[p] # None => tx'[p].version.sig = None /\ report = None)
       /\ \A n \in DOMAIN versions' : versions'[n].sig = None /\ versions'[n].content.pass = versions'[1].content.pass
    \/ scene = "reach" /\ Lib!Reach /\ \A x \in {p, q} : tx[x] = None

libraryVars ==
    <<kind, keys, current, versions, tx, libraryAssigned, build, device,
      report, status, settings, history, been, overlap>>

packagesVars ==
    <<files, part, upload, packagesCall, packagesVersions, prune, errors,
      late>>

windowsVars ==
    <<zone, now, rows, windowsAssigned, checkin, items, changed, edits,
      faults>>

libraryOff ==
    kind = Off /\ keys = Off /\ current = Off /\ versions = Off /\
    tx = Off /\ libraryAssigned = Off /\ build = Off /\ device = Off /\
    report = Off /\ status = Off /\ settings = Off /\ history = Off /\
    been = Off /\ overlap = Off

packagesOff ==
    files = Off /\ part = Off /\ upload = Off /\ packagesCall = Off /\
    packagesVersions = Off /\ prune = Off /\ errors = Off /\ late = Off

windowsOff ==
    zone = Off /\ now = Off /\ rows = Off /\ windowsAssigned = Off /\
    checkin = Off /\ items = Off /\ changed = Off /\ edits = Off /\
    faults = Off

-----------------------------------------------------------------------------
\* A behaviour is about one part; the variables of the others are Off,
\* and those of Approvals stay as they start.
MCInit ==
    \/ /\ scene \in {"order", "scope", "growth", "commands"} /\ Init /\ (assigned # {} <=> scene = "order")
       /\ libraryOff /\ packagesOff /\ windowsOff
    \/ /\ scene \in {"edit", "reach"} /\ Lib!Init /\ (scene = "edit" => kind # "agent") /\ keys = (scene = "edit")
       /\ Init /\ assigned = {} /\ item.versions[1].by = p /\ packagesOff /\
          windowsOff
    \/ /\ scene = "packages" /\ Pack!Init
       /\ Init /\ assigned = {} /\ item.versions[1].by = p /\ libraryOff /\
          windowsOff
    \/ /\ scene = "windows" /\ Win!Init
       /\ Init /\ assigned = {} /\ item.versions[1].by = p /\ libraryOff /\
          packagesOff

InApprovals ==
    /\ scene \in {"order", "scope", "growth", "commands"}
    /\ UNCHANGED <<scene, libraryVars, packagesVars, windowsVars>>
    /\ ApprovalsNext

InLibrary ==
    /\ scene \in {"edit", "reach"}
    /\ UNCHANGED <<scene, vars, packagesVars, windowsVars>>
    /\ LibraryNext

InPackages ==
    /\ scene = "packages"
    /\ UNCHANGED <<scene, vars, libraryVars, windowsVars>>
    /\ Pack!Next

InWindows ==
    /\ scene = "windows"
    /\ UNCHANGED <<scene, vars, libraryVars, packagesVars>>
    /\ Win!Next

MCNext == InApprovals \/ InLibrary \/ InPackages \/ InWindows

\* Approvals not overtaken by another request for the same thing; windows on any
\* day where the clock moves, and on the first where check-ins carry them.
Few ==
    CASE scene \in {"order", "scope", "growth", "commands"} -> ~raced
      [] scene = "windows" ->
           IF zone.shift # 0
           THEN checkin = None /\ items = None /\ rows[2] = None
           ELSE now <= 5
      [] OTHER -> TRUE

Symmetry == Permutations({p, q}) \cup Permutations({d, e})

-----------------------------------------------------------------------------
\* The current version only goes up, unless a transaction wrote back one it read
\* before another committed (Promote refuses an older version: "approving it
\* would roll devices back").
NeverRolledBack ==
    [][(scene \in {"edit", "reach"}) => Lib!NeverRolledBackStep]_libraryVars

\* A stored app version's package is there for devices to download, except one
\* removed by a pass that had listed it before the version touched it.
PackageStands == scene = "packages" => Pack!PackageStands

\* A stored window is open exactly when its openings say so, on its days, past
\* midnight and across a change of the clock - unless the clock jumps over
\* midnight or over the window's own hour, or goes forward while a window of a
\* whole day is open (Window.Contains).
ContainsWhatItSays == scene = "windows" => Win!ContainsWhatItSays
=============================================================================
