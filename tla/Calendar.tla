------------------------------ MODULE Calendar -----------------------------
(***************************************************************************)
(* The date of get_datetime() (kernel/datetime.c): seconds since 1970 in   *)
(* the local zone to a calendar date.  The seconds are kept as days and    *)
(* seconds of the day, which is what the divisions of the code make of     *)
(* them (a count of seconds passes 2^31 in 2038 and TLC's integers with    *)
(* it; the code's are 64 bits).                                            *)
(***************************************************************************)
EXTENDS Naturals

CONSTANT NDAYS   \* bound: days for which the clock is watched

VARIABLES day0, days, sod   \* first day, day and second of the day

calVars == <<day0, days, sod>>

SecsPerDay == 24 * 3600

is_leap4(year) == year % 4 = 0                                \* mutant
is_leap(year) == year % 4 = 0 /\ (year % 100 # 0 \/ year % 400 = 0)

days_in_month(year) ==
    <<31, IF is_leap(year) THEN 29 ELSE 28, 31, 30, 31, 30, 31, 31, 30, 31, 30, 31>>

RECURSIVE YearOf(_, _)
YearOf(d, year) ==
    LET n == IF is_leap(year) THEN 366 ELSE 365
    IN IF d < n THEN [year |-> year, days |-> d] ELSE YearOf(d - n, year + 1)

MonthGoesOn(d, n) == d >= n

RECURSIVE MonthOf(_, _, _)
MonthOf(d, dim, month) ==
    IF MonthGoesOn(d, dim[month]) THEN MonthOf(d - dim[month], dim, month + 1)
    ELSE [month |-> month, day |-> d + 1]

get_datetime(d, s) ==
    LET y == YearOf(d, 1970)
        m == MonthOf(y.days, days_in_month(y.year), 1)
    IN [second |-> s % 60, minute |-> (s \div 60) % 60, hour |-> s \div 3600,
        year |-> y.year, month |-> m.month, day |-> m.day]

\* The clock advances; only the seconds around midnight are of interest.
Tick ==
    /\ days < day0 + NDAYS
    /\ \/ /\ sod \in {0, SecsPerDay - 2}
          /\ sod' = sod + 1 /\ UNCHANGED days
       \/ sod = 1 /\ sod' = SecsPerDay - 2 /\ UNCHANGED days
       \/ sod = SecsPerDay - 1 /\ sod' = 0 /\ days' = days + 1
    /\ UNCHANGED day0

calInit(firstdays) == day0 \in firstdays /\ days = day0 /\ sod = 0
calNext == Tick

-----------------------------------------------------------------------------
Date(r) == <<r.year, r.month, r.day>>
Last0(y, m) ==
    CASE m \in {4, 6, 9, 11} -> 30
      [] m = 2 -> IF y \in {2000, 2004, 2008, 2024, 2028, 2096, 2104} THEN 29 ELSE 28
      [] OTHER -> 31
NextDate(y, m, d) ==
    IF d < Last0(y, m) THEN <<y, m, d + 1>>
    ELSE IF m < 12 THEN <<y, m + 1, 1>> ELSE <<y + 1, 1, 1>>

(* All day long get_datetime() (datetime.c:25-54) gives one date, and from *)
(* midnight on the date after it by the Gregorian calendar, through the    *)
(* ends of months, leap days and the centuries that have none.             *)
DatesFollow ==
    LET r == get_datetime(days, sod)
        t == get_datetime(days + 1, 0)
    IN /\ Date(t) = NextDate(r.year, r.month, r.day)
       /\ <<t.hour, t.minute, t.second>> = <<0, 0, 0>>
       /\ sod = r.second + 60 * r.minute + 3600 * r.hour
       /\ r.second < 60 /\ r.minute < 60 /\ r.hour < 24
=============================================================================
