------------------------------ MODULE SlotTime ------------------------------
(***************************************************************************)
(* Calendar time as the filesystem spool sees it.  A crash is filed under  *)
(* <date>/dated/<hour>/<minute slot>; the scanner captures the current     *)
(* slot and date once per round and decides with them which slots are      *)
(* still being written.  Slot names are zero padded, so that comparing     *)
(* strings is comparing numbers: a slot is a pair of numbers here.         *)
(***************************************************************************)
EXTENDS Integers

CONSTANTS MaxDay, MaxHour, MaxMinute  \* bounds of the calendar

ASSUME CalendarAssumption == MaxDay \in Nat /\ MaxHour \in Nat /\ MaxMinute \in Nat

Day    == 0 .. MaxDay
Hour   == 0 .. MaxHour
Minute == 0 .. MaxMinute
Slot   == Hour \X Minute
Time   == [day : Day, hour : Hour, minute : Minute]

FirstTime == [day |-> 0, hour |-> 0, minute |-> 0]
LastTime  == [day |-> MaxDay, hour |-> MaxHour, minute |-> MaxMinute]

\* The clock, one minute slot further.
NextTime(t) ==
    IF t.minute < MaxMinute THEN [t EXCEPT !.minute = @ + 1]
    ELSE IF t.hour < MaxHour THEN [day |-> t.day, hour |-> t.hour + 1, minute |-> 0]
    ELSE [day |-> t.day + 1, hour |-> 0, minute |-> 0]

\* currentSlot: the hour, and the minute with its slice of seconds.
SlotOf(t) == <<t.hour, t.minute>>

StrictlyGreaterSlot(l, r) == l[1] >= r[1] /\ l[2] > r[2]

\* greaterThanEqualsSlot compares component by component, which is not the
\* order of time: <<1, 0>> comes after <<0, 1>> and is not greater than it.
GreaterThanEqualsSlot(l, r) == l[1] >= r[1] /\ l[2] >= r[2]

SkipAnyDay(day, slot, curDay, curSlot) == GreaterThanEqualsSlot(slot, curSlot)

\* A scan that captured curSlot and curDay leaves the slot of that day alone.
SkipSlot(day, slot, curDay, curSlot) ==
    GreaterThanEqualsSlot(slot, curSlot) /\ day >= curDay

\* Slot s of day d lies before the moment t.
Earlier(d, s, t) ==
    \/ d < t.day
    \/ d = t.day /\ s[1] < t.hour
    \/ d = t.day /\ s[1] = t.hour /\ s[2] < t.minute
=============================================================================
