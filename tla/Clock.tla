------------------------------- MODULE Clock -------------------------------
(***************************************************************************)
(* The times of day of a time zone, as Go's time package has them.  Time   *)
(* counts hours; a day has HoursPerDay of them and a week DaysPerWeek      *)
(* days, both smaller than the real ones.  A zone moves its clock once, by *)
(* zone.shift hours at the moment zone.at.                                 *)
(***************************************************************************)
EXTENDS Integers

CONSTANTS
    HoursPerDay,
    DaysPerWeek

VARIABLE
    zone    \* the time zone, which never changes: [at, shift, after]

\* What a clock in the zone shows, in hours since the first midnight.
Local(t) == IF t < zone.at THEN t ELSE t + zone.shift

\* time.Date: the moment a clock shows an hour.  One the clock skips, or shows
\* twice, is taken in the zone before the change or in the one after it.
Date(day, hour) ==
    LET shown == day * HoursPerDay + hour
        before == shown
        after == shown - zone.shift
    IN  CASE before < zone.at /\ after < zone.at -> before
          [] before >= zone.at /\ after >= zone.at -> after
          [] OTHER -> IF zone.after THEN after ELSE before

Day(t)  == Local(t) \div HoursPerDay
Hour(t) == Local(t) % HoursPerDay
=============================================================================
