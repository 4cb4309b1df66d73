------------------------------ MODULE Windows ------------------------------
(***************************************************************************)
(* Maintenance windows: the administrator's requests (adminapi/windows.go),*)
(* the check-in that carries a device's windows to it (agentapi/handler.go)*)
(* and the gate each of the agent's three syncers applies to one           *)
(* check-in's items (protocol/window.go).                                  *)
(***************************************************************************)
EXTENDS Clock, FiniteSets

CONSTANTS
    Ids,            \* the windows there may be
    Names,
    Requests(_),    \* schedules asked for in a zone: [days, start, length]
    Unreadable,     \* a schedule the agent cannot read
    Zones,          \* the time zones a device may be in
    None,
    MaxTime,        \* the clock
    MaxEdits(_),    \* requests administrators make, by zone
    MaxFaults       \* windows a check-in fails to read, or the agent does

VARIABLES
    now,
    rows,       \* maintenance_windows
    assigned,   \* the windows assigned to the device
    checkin,    \* the check-in being answered: what is left to read and what was
    items,      \* the windows among the last check-in's items, until it is synced
    changed,    \* when the device was last changed, None before that
    edits,
    faults

vars == <<zone, now, rows, assigned, checkin, items, changed, edits, faults>>

---------------------------------------------------------------------------
(* protocol.Window *)

\* Window.Validate: a start that is a time of day, and a length of at most one.
Validate(w) == w.start \in 0 .. (HoursPerDay - 1) /\ w.length \in 1 .. HoursPerDay

onDay(w, t) == w.days = {} \/ (Day(t) % DaysPerWeek) \in w.days

\* Window.Contains: today's opening, or yesterday's, as the moment's own hour a
\* day earlier gives yesterday.
OpeningsToday(w, t) == {Date(Day(t), w.start)}
Openings(w, t) ==
    {Date(Day(Date(Day(t) - back, Hour(t))), w.start) : back \in {0, 1}}

Contains(w, t) ==
    \E open \in Openings(w, t) : onDay(w, open) /\ open <= t /\ t < open + w.length

\* WindowsFrom and Windows.Open: with no window any time will do, and one that
\* cannot be read counts as assigned and is never open.
Assigned(ws) == ws # {}

Open(ws, t) == Assigned(ws) => \E w \in ws \ {Unreadable} : Contains(w, t)

---------------------------------------------------------------------------
Init ==
    /\ zone \in Zones
    /\ now = 0
    /\ rows = [i \in Ids |-> None]
    /\ assigned = {}
    /\ checkin = None
    /\ items = None
    /\ changed = None
    /\ edits = 0
    /\ faults = 0

Edit  == edits < MaxEdits(zone) /\ edits' = edits + 1
Fault == faults < MaxFaults /\ faults' = faults + 1

Tick ==
    /\ now < MaxTime
    /\ now' = now + 1
    /\ UNCHANGED <<zone, rows, assigned, checkin, items, changed, edits, faults>>

---------------------------------------------------------------------------
(* The administrator.  A request that does not validate, or takes a name that
   is taken, is refused and changes nothing. *)

NameTaken(i, name) == \E o \in Ids \ {i} : rows[o] # None /\ rows[o].name = name

Save(i, name, w) ==
    /\ Edit
    /\ Validate(w)
    /\ ~ NameTaken(i, name)
    /\ rows' = [rows EXCEPT ![i] = [name |-> name, schedule |-> w]]
    /\ UNCHANGED <<zone, now, assigned, checkin, items, changed, faults>>

createWindow(i, name, w) == rows[i] = None /\ Save(i, name, w)
updateWindow(i, name, w) == rows[i] # None /\ Save(i, name, w)

\* The window's assignments go with it.
deleteWindow(i) ==
    /\ rows[i] # None
    /\ Edit
    /\ rows' = [rows EXCEPT ![i] = None]
    /\ assigned' = assigned \ {i}
    /\ UNCHANGED <<zone, now, checkin, items, changed, faults>>

\* Nothing asks whether the window exists.
Assign(i) ==
    /\ i \notin assigned
    /\ Edit
    /\ assigned' = assigned \cup {i}
    /\ UNCHANGED <<zone, now, rows, checkin, items, changed, faults>>

Unassign(i) ==
    /\ i \in assigned
    /\ Edit
    /\ assigned' = assigned \ {i}
    /\ UNCHANGED <<zone, now, rows, checkin, items, changed, faults>>

---------------------------------------------------------------------------
(* A check-in: the effective items are read first, and then each window *)

StartCheckin ==
    /\ checkin = None
    /\ checkin' = [left |-> assigned, read |-> {}]
    /\ items' = None
    /\ UNCHANGED <<zone, now, rows, assigned, changed, edits, faults>>

Read(i, ws) == checkin' = [left |-> checkin.left \ {i}, read |-> checkin.read \cup ws]

\* GetMaintenanceWindow finds the window, finds none, or fails; a window it
\* does not get is left out.
ReadWindow(i) ==
    /\ checkin # None
    /\ i \in checkin.left
    /\ \/ /\ rows[i] # None
          /\ Read(i, {rows[i].schedule})
          /\ UNCHANGED faults
       \/ /\ rows[i] # None
          /\ Fault
          /\ Read(i, {Unreadable})
       \/ /\ rows[i] = None
          /\ Read(i, {})
          /\ UNCHANGED faults
       \/ /\ rows[i] # None
          /\ Fault
          /\ Read(i, {})
    /\ UNCHANGED <<zone, now, rows, assigned, items, changed, edits>>

\* The answer reaches the device, or is lost.
EndCheckin ==
    /\ checkin # None
    /\ checkin.left = {}
    /\ checkin' = None
    /\ \E answer \in {checkin.read, None} : items' = answer
    /\ UNCHANGED <<zone, now, rows, assigned, changed, edits, faults>>

\* Sync, of scripts, apps or the agent's own builds: outside the windows
\* nothing is done, and inside them what is due is.
Sync ==
    /\ items # None
    /\ items' = None
    /\ changed' = IF Open(items, now) THEN now ELSE changed
    /\ UNCHANGED <<zone, now, rows, assigned, checkin, edits, faults>>

Next ==
    \/ Tick
    \/ \E i \in Ids :
         \/ \E name \in Names, w \in Requests(zone) : createWindow(i, name, w) \/ updateWindow(i, name, w)
         \/ deleteWindow(i) \/ Assign(i) \/ Unassign(i) \/ ReadWindow(i)
    \/ StartCheckin \/ EndCheckin \/ Sync

Spec == Init /\ [][Next]_vars

---------------------------------------------------------------------------
(* Properties *)

\* A window's openings as an administrator reads them: from its hour on each of
\* its days, for its length, past midnight or not (README, "Maintenance
\* windows").
Covers(w, t) ==
    \E day \in (Day(t) - 2) .. Day(t) :
        LET open == Date(day, w.start)
        IN  /\ w.days = {} \/ (day % DaysPerWeek) \in w.days
            /\ open <= t /\ t < open + w.length

\* The clock goes forward and jumps over midnight, or over the window's hour.
Jumps(w) == zone.shift > 0 /\ zone.at % HoursPerDay \in {0, w.start}

\* A stored window is open exactly when its openings say so, on its days, past
\* midnight and across a change of the clock - unless the clock jumps over
\* midnight or over the window's own hour, or goes forward while a window of a
\* whole day is open (Window.Contains).
ContainsWhatItSays ==
    \A i \in Ids : rows[i] # None =>
        LET w == rows[i].schedule
        IN  (~Jumps(w) /\ w.length <= HoursPerDay - zone.shift) => (Contains(w, now) = Covers(w, now))

=============================================================================
