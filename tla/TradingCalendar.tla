--------------------------- MODULE TradingCalendar ----------------------------
(***************************************************************************)
(* calendar.go: the trading days of one configured year and the opening a  *)
(* lock waits for.                                                         *)
(*                                                                         *)
(* Days are numbers and day 0 is a Monday.  Of a day four moments matter:  *)
(* midnight, 06:00, the opening at 09:15, and the rest of it.              *)
(***************************************************************************)
EXTENDS Integers

DayLength == 4
Flush     == 1   \* 06:00, when Kite ends a session
Opening   == 2   \* 09:15
Never     == -1  \* the zero time

TradingDate(moment) == moment \div DayLength

\* Load: what a calendar file may say.  A special session on a weekend is the
\* reason to name one, a holiday on a weekend is harmless.
Loads(cal) ==
    /\ cal.holidays \cup cal.special \subseteq cal.first .. cal.last
    /\ cal.holidays \cap cal.special = {}

InYear(cal, day) == day \in cal.first .. cal.last

IsTradingDay(cal, day) ==
    /\ InYear(cal, day)
    /\ day \in cal.special \/ (day \notin cal.holidays /\ day % 7 < 5)

\* With the search begun on the day of the lock itself.
NextUnlockToday(cal, after) ==
    LET search[day \in cal.first .. cal.last + 1] ==
            IF day > cal.last THEN Never
            ELSE IF IsTradingDay(cal, day) THEN day * DayLength + Opening
            ELSE search[day + 1]
    IN IF InYear(cal, TradingDate(after)) THEN search[TradingDate(after)] ELSE Never

\* The loop over the days after the lock's, while they are of the year.
NextUnlock(cal, after) ==
    LET search[day \in cal.first .. cal.last + 1] ==
            IF day > cal.last THEN Never
            ELSE IF IsTradingDay(cal, day) THEN day * DayLength + Opening
            ELSE search[day + 1]
        tomorrow == TradingDate(after) + 1
    IN IF InYear(cal, tomorrow) THEN search[tomorrow] ELSE Never
===============================================================================
