----------------------------- MODULE ContestTime -----------------------------
(***************************************************************************)
(* contest_time_parse (app/contest.c): the start and end of the contest,   *)
(* given as an RFC 3339 text, as seconds since 1970.  A text is the record *)
(* of its fields; -1 is what read_digits returns for a field that is not a *)
(* number, and a field has the value its digits can express.               *)
(*                                                                         *)
(* The result is kept as whole days and the seconds left over: the int64_t *)
(* of the code is wider than the numbers the model checker computes with.  *)
(***************************************************************************)
EXTENDS Integers

\* The fields of a text of the right length.
Field == Nat \cup {-1}
Timestamps ==
    [kind : {"time"}, year : Field, month : Field, day : Field, hour : Field, minute : Field,
     second : Field, sign : STRING, offsetHour : Field, offsetMinute : Field]

Hours == 0..23
Sixty == 0..59

MonthDays == <<31, 28, 31, 30, 31, 30, 31, 31, 30, 31, 30, 31>>

BugJulianLeap(year) == year % 4 = 0

Leap(year) == year % 4 = 0 /\ (year % 100 # 0 \/ year % 400 = 0)

DaysIn(year, month) == MonthDays[month] + (IF month = 2 /\ Leap(year) THEN 1 ELSE 0)

Offset(t) ==
    (t.offsetHour * 60 + t.offsetMinute) * 60 * (IF t.sign = "-" THEN -1 ELSE 1)

\* "Z" stands for the text of 20 characters, a sign for the one of 25.
ValidOffset(t) ==
    t.sign = "Z" \/ (t.sign \in {"+", "-"} /\ t.offsetHour \in Hours /\ t.offsetMinute \in Sixty)

ValidDate(t) ==
    /\ t.year >= 1970
    /\ t.month \in 1..12
    /\ t.day >= 1
    /\ t.hour \in Hours /\ t.minute \in Sixty /\ t.second \in Sixty
    /\ t.day <= DaysIn(t.year, t.month)

YearDays(year) ==
    (year - 1970) * 365
        + ((year - 1) \div 4 - 1969 \div 4)
        - ((year - 1) \div 100 - 1969 \div 100)
        + ((year - 1) \div 400 - 1969 \div 400)

MonthsBefore(year, month) ==
    LET sum[m \in 1..12] == IF m = 1 THEN 0 ELSE sum[m - 1] + DaysIn(year, m - 1)
    IN  sum[month]

Refuse == [day |-> -1, second |-> 0]

\* The timestamp 86400 * day + second, which is below zero for dates that an
\* offset moves before 1970.
ContestTimeParse(t) ==
    LET days == YearDays(t.year) + MonthsBefore(t.year, t.month) + t.day - 1
        offset == IF t.sign = "Z" THEN 0 ELSE Offset(t)
        seconds == t.hour * 3600 + t.minute * 60 + t.second - offset
        day == days + (seconds \div 86400)
    IN  IF ~ValidOffset(t) \/ ~ValidDate(t) THEN Refuse
        ELSE IF day < 0 THEN Refuse
        ELSE [day |-> day, second |-> seconds % 86400]
==============================================================================
