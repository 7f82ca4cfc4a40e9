-------------------------- MODULE MCOvernightRunner --------------------------
(* Small instances of OvernightRunner for TLC: the nights of a small         *)
(* calendar.                                                                 *)
EXTENDS OvernightRunner, NightCalendar

\* The result of a night in units of the stop line.
WinOrLose == {-1, 1}

-----------------------------------------------------------------------------
(* Wednesday to Thursday, a long holiday, Tuesday to Wednesday.             *)
HolidayWeek ==
    [last |-> 9, holidays |-> {0, 1, 4, 7}, special |-> <<>>, exDays |-> {},
     requireEx |-> 10, coin |-> [d \in 0..9 |-> 1]]
NightsBy(method) ==
    {i \in Nights : NightsOf(HolidayWeek)[i].method = method}
ASSUME NightsOfHolidayWeek ==
    /\ N = Len(NightsOf(HolidayWeek))
    /\ LimitNights = NightsBy("B") /\ SkipNights = NightsBy("none")

=============================================================================
