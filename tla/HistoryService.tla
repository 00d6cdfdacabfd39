--------------------------- MODULE HistoryService ---------------------------
(***************************************************************************)
(* The monthly statistics of the conversion history: GetUserStats lists    *)
(* the last twelve months, and asks the clock again for each of them.      *)
(***************************************************************************)
EXTENDS Integers, Sequences

CONSTANTS
  Years,   \* years in which statistics are asked for
  Months   \* months that are listed (12 in the code)

\* DaysIn below knows the leap years of this time
YearsAssumption == Years \subseteq 1901..2099
MonthsAssumption == Months \in Nat

VARIABLES
  today,   \* the date: year, month and day
  asked,   \* the date when the request came in
  listed   \* the months that getMonthlyStats has listed so far

vars == <<today, asked, listed>>

DaysIn(m) ==
  CASE m.month = 2             -> IF m.year % 4 = 0 THEN 29 ELSE 28
    [] m.month \in {4, 6, 9, 11} -> 30
    [] OTHER                   -> 31

\* months counted from the year 0, and back
Number(d) == d.year * 12 + d.month - 1
Month(n)  == [year |-> n \div 12, month |-> (n % 12) + 1]

Dates ==
  UNION {[year : {m.year}, month : {m.month}, day : 1..DaysIn(m)] :
           m \in [year : Years, month : 1..12]}

(* Mutant of AddDate: December is taken for month 0 of the next year. *)
AddDate_NoBorrow(d, n) ==
  [year |-> IF d.month + n < 0 THEN d.year - 1 ELSE d.year, month |-> (d.month + n) % 12]

(* The month of time.AddDate(0, n, 0): a day that the month n months away  *)
(* does not have counts on into the next one.                              *)
AddDate(d, n) ==
  LET m == Month(Number(d) + n) IN
    IF d.day > DaysIn(m) THEN Month(Number(m) + 1) ELSE m

-----------------------------------------------------------------------------
(* The next month of the list.  The counts are those of conversions that   *)
(* were created between its first and its last moment.                     *)
getMonthlyStats ==
  /\ Len(listed) < Months
  /\ listed' = Append(listed, AddDate(today, Len(listed) + 1 - Months))
  /\ UNCHANGED <<today, asked>>

(* Midnight.  A request takes less than a day. *)
Tomorrow ==
  /\ today = asked /\ Len(listed) < Months
  /\ IF today.day < DaysIn(today)
     THEN today' = [today EXCEPT !.day = @ + 1]
     ELSE LET m == Month(Number(today) + 1) IN today' = [year |-> m.year, month |-> m.month, day |-> 1]
  /\ UNCHANGED <<asked, listed>>

Init == today \in Dates /\ asked = today /\ listed = <<>>

Next == getMonthlyStats \/ Tomorrow

Spec == Init /\ [][Next]_vars

-----------------------------------------------------------------------------
(* Properties *)

Complete == Len(listed) = Months

(* The months that end with the one of date d. *)
Last(d) == [k \in 1..Months |-> Month(Number(d) + k - Months)]

(* The statistics of the last months list the last months, each once, when *)
(* they are asked for in the first 28 days of a month and are complete     *)
(* within them, midnight or not.                                           *)
MonthsHold ==
  Complete /\ asked.day <= 28 /\ today.day <= 28 /\ today.month = asked.month =>
    listed = Last(asked)

(* What the code says of them: they list the last months, on whatever day  *)
(* they are asked for, if it is over by midnight.                          *)
LastMonthsListed == Complete /\ today = asked => listed = Last(asked)
=============================================================================
