-------------------------------- MODULE Calendar --------------------------------
(***************************************************************************)
(* Dates and times of the backend: what routes/analytics.rs of             *)
(* packages/core/src computes from the system clock without a library, and *)
(* what explain/transaction.rs makes of a ledger's closing time.           *)
(*                                                                         *)
(* An instant is [day, second], the days since 1970 and the seconds of     *)
(* that day: the code's one count of seconds outgrows TLC's integers in    *)
(* 2038.  A timestamp is what its text says: [date, time, zone].           *)
(***************************************************************************)
EXTENDS Integers, Sequences

-----------------------------------------------------------------------------
(* Days to dates *)

\* Mutant: the calendar of Julius Caesar.
IsLeapJulian(year) == year % 4 = 0

IsLeap(year) == (year % 4 = 0 /\ year % 100 # 0) \/ year % 400 = 0

DaysInYear(year) == IF IsLeap(year) THEN 366 ELSE 365

MonthLengths(year) ==
  <<31, IF IsLeap(year) THEN 29 ELSE 28, 31, 30, 31, 30, 31, 31, 30, 31, 30, 31>>

\* <<year, days>>: takes off one year at a time.
SplitYear[when \in Nat \X Nat] ==
  LET year == when[1]
      days == when[2] IN
    IF days < DaysInYear(year) THEN when
    ELSE SplitYear[<<year + 1, days - DaysInYear(year)>>]

\* <<year, month, days>>: takes off one month at a time, of which there are twelve.
SplitMonth[when \in Nat \X (1 .. 13) \X Nat] ==
  LET length == MonthLengths(when[1])[when[2]] IN
    IF when[2] = 13 \/ when[3] < length THEN when
    ELSE SplitMonth[<<when[1], when[2] + 1, when[3] - length>>]

DaysToYmd(days) ==
  LET year == SplitYear[<<1970, days>>]
      month == SplitMonth[<<year[1], 1, year[2]>>] IN
    [month EXCEPT ![3] = @ + 1]

FormatUnixAsIso(instant) ==
  [ date |-> DaysToYmd(instant.day),
    time |-> <<instant.second \div 3600, (instant.second \div 60) % 60, instant.second % 60>>,
    zone |-> "Z" ]

Later(instant, seconds) ==
  [ day |-> instant.day + (instant.second + seconds) \div 86400,
    second |-> (instant.second + seconds) % 86400 ]

-----------------------------------------------------------------------------
(* The window of a summary *)

\* Hours before an instant; the subtraction stops at the epoch.
HoursBefore(instant, hours) ==
  LET hour == instant.day * 24 + instant.second \div 3600 - hours IN
    IF hour < 0 THEN [day |-> 0, second |-> 0]
    ELSE [day |-> hour \div 24, second |-> (hour % 24) * 3600 + (instant.second % 3600)]

DefaultFrom(now, hours_ago) == FormatUnixAsIso(HoursBefore(now, hours_ago))

DefaultTo(now) == FormatUnixAsIso(now)

-----------------------------------------------------------------------------
(* Ledger times *)

\* format_ledger_time: the offset is cut off, not applied; seconds are dropped.
\* A text without a "T" is left as it is.
FormatLedgerTime(timestamp) ==
  IF "time" \notin DOMAIN timestamp THEN timestamp
  ELSE [ date |-> timestamp.date, time |-> SubSeq(timestamp.time, 1, 2), zone |-> "UTC" ]
=============================================================================
