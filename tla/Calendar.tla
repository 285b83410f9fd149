-------------------------------- MODULE Calendar --------------------------------
(***************************************************************************)
(* DateTime and DateTimeMask: prev() and next() look for the nearest time   *)
(* that a mask matches, by calling themselves with a time nearer to it; a   *)
(* step here is one such call.  Times are minutes in a zone without summer  *)
(* time, of a calendar whose lengths are parameters; mktime() carries a day *)
(* that the month does not have into the next month.                        *)
(***************************************************************************)
EXTENDS Integers, Sequences, FiniteSets

CONSTANTS
  Months, DaysIn(_, _),        \* DaysIn(y, m); 12, and 28 to 31
  MaxDay,                      \* 31: of the last month too
  WeekDays, Hours, Minutes,    \* 7, 24 and 60
  LastYear,                    \* bound: a search that leaves 0..LastYear stops
  MaxTokens,                   \* bound: tokens of a mask's string
  Askable                      \* bound: the times that are asked about

ASSUME CalendarAssumption ==
  /\ {Months, MaxDay, WeekDays, Hours, Minutes, LastYear} \subseteq Nat \ {0}
  /\ MaxTokens \in Nat
  /\ \A y \in 0..LastYear, m \in 1..Months :
       DaysIn(y, m) \in 1..MaxDay /\ (m = Months => DaysIn(y, m) = MaxDay)

VARIABLES
  mask,     \* the fields of the DateTimeMask; 0 is any
  tokens,   \* how many tokens were parsed
  calling,  \* "none", "prev", "next" or "done"
  asked,    \* the direction and the time of the first call
  time      \* the argument of the current call, then the result

calendarVars == <<mask, tokens, calling, asked, time>>

Invalid == -1     \* DateTime()

Dates == {d \in (0..LastYear) \X (1..Months) \X (1..MaxDay) : d[3] <= DaysIn(d[1], d[2])}
Earlier(d, e) ==
  d[1] < e[1] \/ (d[1] = e[1] /\ (d[2] < e[2] \/ (d[2] = e[2] /\ d[3] < e[3])))
DayNumber == [e \in Dates |-> Cardinality({d \in Dates : Earlier(d, e)})]
Times == 0..(Cardinality(Dates) * Hours * Minutes - 1)

(* DateTime( year, month, day, hour, min ); hours and minutes are one more    *)
(* than in the code, as the mask keeps them.                                  *)
MkTime(y, m, d, h, i) == ((DayNumber[<<y, m, 1>>] + d - 1) * Hours + h - 1) * Minutes + i - 1

DateOf == [t \in Times |-> CHOOSE d \in Dates : DayNumber[d] = t \div (Hours * Minutes)]

(* local(), and the accessors; the day of the week is one more too. *)
Local == [t \in Times |->
  [year |-> DateOf[t][1], month |-> DateOf[t][2], day |-> DateOf[t][3],
   wday |-> ((t \div (Hours * Minutes)) % WeekDays) + 1,
   hour |-> ((t \div Minutes) % Hours) + 1, min |-> (t % Minutes) + 1]]

MaskFields == <<"year", "month", "day", "wday", "hour", "min">>
Limit == [year |-> LastYear - 1, month |-> Months, day |-> MaxDay,
          wday |-> WeekDays, hour |-> Hours, min |-> Minutes]

CalendarInit ==
  /\ mask = [f \in DOMAIN Limit |-> 0] /\ tokens = 0
  /\ calling = "none" /\ asked = <<"none", Invalid>> /\ time = Invalid

(* A token of the string that parse() reads sets a field. *)
Parse(f, v) ==
  /\ calling = "none" /\ tokens < MaxTokens /\ mask[f] = 0
  /\ mask' = [mask EXCEPT ![f] = v] /\ tokens' = tokens + 1
  /\ UNCHANGED <<calling, asked, time>>

Ask(way, t) ==
  /\ calling = "none"
  /\ calling' = way /\ asked' = <<way, t>> /\ time' = t
  /\ UNCHANGED <<mask, tokens>>

Valid(f) == mask[f] # 0
Agrees(t, f) == Valid(f) => Local[t][f] = mask[f]
Matches(t) == \A f \in DOMAIN Limit : Agrees(t, f)

(* The first field in which the time is not as the mask says. *)
FirstDifference(f) ==
  \E i \in DOMAIN MaskFields :
    /\ f = MaskFields[i] /\ ~Agrees(time, f)
    /\ \A j \in 1..(i - 1) : Agrees(time, MaskFields[j])

CallAgain(t) ==
  /\ t \in Times /\ time' = t
  /\ UNCHANGED <<mask, tokens, calling, asked>>

Return(t) ==
  /\ time' = t /\ calling' = "done"
  /\ UNCHANGED <<mask, tokens, asked>>

Day == Hours * Minutes
Today == Local[time]
EndOf(y, m, d) == MkTime(y, m, d, Hours, Minutes)
StartOf(y, m, d) == MkTime(y, m, d, 1, 1)
OnDay(t, h, i) == MkTime(DateOf[t][1], DateOf[t][2], DateOf[t][3], h, i)

(* Mutant: the hour of the same day, although it is still to come. *)
HourBackToday == time

HourBack == IF Today.hour < mask.hour THEN time - Day ELSE time

PrevYear ==
  /\ FirstDifference("year")
  /\ IF Today.year > mask.year
       THEN CallAgain(EndOf(mask.year, Months, MaxDay)) ELSE Return(Invalid)

PrevMonth ==
  /\ FirstDifference("month")
  /\ IF Today.month > mask.month THEN CallAgain(EndOf(Today.year, mask.month, MaxDay))
     ELSE Today.year > 0 /\ CallAgain(EndOf(Today.year - 1, Months, MaxDay))

PrevDay ==
  /\ FirstDifference("day")
  /\ IF Today.day > mask.day THEN CallAgain(EndOf(Today.year, Today.month, mask.day))
     ELSE IF Today.month = 1
       THEN Today.year > 0 /\ CallAgain(EndOf(Today.year - 1, Months, mask.day))
     ELSE CallAgain(EndOf(Today.year, Today.month - 1, mask.day))

PrevWeekDay ==
  /\ FirstDifference("wday")
  /\ LET t == time - ((Today.wday - mask.wday) % WeekDays) * Day
     IN  t \in Times /\ CallAgain(OnDay(t, Hours, Minutes))

PrevHour ==
  /\ FirstDifference("hour")
  /\ HourBack \in Times /\ CallAgain(OnDay(HourBack, mask.hour, Minutes))

PrevMinute ==
  /\ FirstDifference("min")
  /\ IF Today.min > mask.min THEN Return(OnDay(time, Today.hour, mask.min))
     ELSE time >= Minutes /\ CallAgain(OnDay(time - Minutes, Local[time - Minutes].hour, mask.min))

(* DateTime( year() ) is DateTime( time_t ): so many seconds into 1970.  No    *)
(* mask names that year; here the first time of all stands for it, which is    *)
(* of a year before every one that a mask can name.                            *)
Epoch == 0

(* In an earlier year than the mask's it asks for a moment of 1970, and from   *)
(* there for the same one again, for ever.                                     *)
NextYear ==
  /\ FirstDifference("year")
  /\ IF Today.year < mask.year THEN CallAgain(Epoch) ELSE Return(Invalid)

NextMonth ==
  /\ FirstDifference("month")
  /\ IF Today.month < mask.month THEN CallAgain(StartOf(Today.year, mask.month, 1))
     ELSE Today.year < LastYear /\ CallAgain(StartOf(Today.year + 1, 1, 1))

NextDay ==
  /\ FirstDifference("day")
  /\ IF Today.day < mask.day THEN CallAgain(StartOf(Today.year, Today.month, mask.day))
     ELSE IF Today.month = Months
       THEN Today.year < LastYear /\ CallAgain(StartOf(Today.year + 1, 1, mask.day))
     ELSE CallAgain(StartOf(Today.year, Today.month + 1, mask.day))

NextWeekDay ==
  /\ FirstDifference("wday")
  /\ LET t == time + ((mask.wday - Today.wday) % WeekDays) * Day
     IN  t \in Times /\ CallAgain(OnDay(t, 1, 1))

NextHour ==
  /\ FirstDifference("hour")
  /\ LET t == IF Today.hour > mask.hour THEN time + Day ELSE time
     IN  t \in Times /\ CallAgain(OnDay(t, mask.hour, 1))

NextMinute ==
  /\ FirstDifference("min")
  /\ LET t == time + Minutes
     IN  IF Today.min < mask.min THEN Return(OnDay(time, Today.hour, mask.min))
         ELSE t \in Times /\ CallAgain(OnDay(t, Local[t].hour, mask.min))

Found == calling \in {"prev", "next"} /\ Matches(time) /\ Return(time)

CalendarNext ==
  \/ \E f \in DOMAIN Limit : \E v \in 1..Limit[f] : Parse(f, v)
  \/ \E way \in {"prev", "next"}, t \in Askable : Ask(way, t)
  \/ calling = "prev" /\ (PrevYear \/ PrevMonth \/ PrevDay \/ PrevWeekDay \/ PrevHour \/ PrevMinute)
  \/ calling = "next" /\ (NextYear \/ NextMonth \/ NextDay \/ NextWeekDay \/ NextHour \/ NextMinute)
  \/ Found

(* What prev() and next() return matches the mask, and no time between it and *)
(* the one asked about does; they return the invalid time only if no time on  *)
(* that side matches.  The masks combine fields that the steps change in each *)
(* other's way: a weekday step leaves the day, a day step the month.  It is   *)
(* about what is returned: some searches never return (SearchAdvances).       *)
NearestMatch ==
  calling = "done" =>
    LET Side == {t \in Times : IF asked[1] = "prev" THEN t <= asked[2] ELSE t >= asked[2]}
        Nearer == IF time = Invalid THEN Side
                  ELSE {t \in Side : IF asked[1] = "prev" THEN t > time ELSE t < time}
    IN  /\ time # Invalid => time \in Side /\ Matches(time)
        /\ \A t \in Nearer : ~Matches(t)

(* The month asked for has no such day, and mktime() carries it forward.      *)
CarriedForward ==
  \/ Valid("month") /\ Today.month > mask.month /\ DaysIn(Today.year, mask.month) < MaxDay
  \/ Valid("day") /\ Today.month > 1 /\ DaysIn(Today.year, Today.month - 1) < mask.day

(* Each call of prev() for another time goes back and each of next() forward, *)
(* so that a search comes to its end: whatever fields a step leaves alone and *)
(* whatever a later one resets.  There are two exceptions, and such searches  *)
(* may go round for ever: prev() of a day that a month does not have          *)
(* (DateTimeMask.cpp:141, 146-154), and next() with a mask of a later year,   *)
(* which always goes on from 1970 (DateTimeMask.cpp:188).                     *)
SearchAdvances ==
  [][calling # "none" /\ calling' = calling =>
       \/ calling = "prev" /\ (time' < time \/ CarriedForward)
       \/ calling = "next" /\ (time' > time \/ Today.year < mask.year)]_calendarVars
================================================================================
