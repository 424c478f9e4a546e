------------------------------ MODULE Calendar ------------------------------
(***************************************************************************)
(* The date arithmetic of Utils/DateExt.swift: where the current month,    *)
(* the previous month and the current year begin.  An instant is an        *)
(* integer (a count of some unit of absolute time, as Swift's Date is a    *)
(* count of seconds); only the order of instants and the differences       *)
(* between month starts and UTC offsets matter, so a unit may stand for    *)
(* any length of time.                                                     *)
(*                                                                         *)
(* The calendar itself (Foundation's Calendar, the time zone database) is  *)
(* given by constants: the instants at which a month or a year begins in   *)
(* the device's time zone, and the zone's offset from GMT at each of them. *)
(***************************************************************************)
EXTENDS Integers, FiniteSets, FiniteSetsExt

CONSTANTS
    Instants,     \* the instants the clock and the date picker can show
    MonthStarts,  \* the instants at which a month begins, local midnight of the 1st
    YearStarts,   \* those of them that begin a year
    UtcOffset     \* UtcOffset[m]: the zone's distance from GMT at month start m

(* The month start at or before t, and the month start before that one:    *)
(* what Calendar.date(from:) returns for the components [year, month] of t *)
(* and for the same components with the month decremented.                 *)
MonthStart(t) == Max({m \in MonthStarts : m <= t})
PreviousMonthStart(t) == Max({m \in MonthStarts : m < MonthStart(t)})
YearStart(t) == Max({y \in YearStarts : y <= t})

(* Every instant lies in a year and in a month that the constants know,    *)
(* and the month before it is known too.  A change of offset (a change to  *)
(* or from summer time) never exceeds the length of a month.               *)
ASSUME CalendarAssumption ==
    /\ IsFiniteSet(MonthStarts) /\ MonthStarts \subseteq Int
    /\ YearStarts \subseteq MonthStarts
    /\ Instants \subseteq Int
    /\ UtcOffset \in [MonthStarts -> Int]
    /\ \A t \in Instants :
          /\ \E y \in YearStarts : y <= t
          /\ \E m \in MonthStarts : m < MonthStart(t)
    /\ \A m, n \in MonthStarts : m < n => m + UtcOffset[m] < n + UtcOffset[n]

(* toLocal adds the offset to an instant that is already absolute.         *)
ToLocal(date) == date + UtcOffset[date]

StartOfMonth(t) == ToLocal(MonthStart(t))
StartOfPreviousMonth(t) == ToLocal(PreviousMonthStart(t))
StartOfYear(t) == ToLocal(YearStart(t))

=============================================================================
