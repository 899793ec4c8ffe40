----------------------------- MODULE Schedules -----------------------------
(***************************************************************************)
(* The cron expressions a page's refresh schedule is written in            *)
(* (internal/cron): parsing, the latest fire before and the first fire     *)
(* after an instant, and the longest gap between fires.  A time is a       *)
(* count of minutes since the first day of 2000, in the four-year cycles   *)
(* that hold up to 2099.  An hour and a day have as many minutes and hours *)
(* as the constants say.                                                   *)
(***************************************************************************)
EXTENDS Integers, Sequences, FiniteSets

CONSTANTS HourMinutes, DayHours,  \* 60 and 24 in the program
          SearchDays,             \* how far Prev and Next look: 8 * 366 + 1
          Reach,                  \* how far the meaning of a schedule is compared
          ScheduleInputs          \* the expressions and instants asked about

Lowest(S) == CHOOSE m \in S : \A n \in S : m <= n
Highest(S) == CHOOSE m \in S : \A n \in S : n <= m

Day == HourMinutes * DayHours
SevenDays == 7 * Day
Never == -1000000000 \* the zero time

\* Calendar days since 2000-01-01, a Saturday, in four-year cycles.
MonthStarts(leap) ==
  IF leap THEN <<0, 31, 60, 91, 121, 152, 182, 213, 244, 274, 305, 335>>
          ELSE <<0, 31, 59, 90, 120, 151, 181, 212, 243, 273, 304, 334>>
Date(d) ==
  LET r == d % 1461
      leap == r < 366
      ofYear == IF leap THEN r ELSE (r - 366) % 365
      starts == MonthStarts(leap)
      month == Cardinality({m \in 1..12 : starts[m] <= ofYear})
  IN [month |-> month, dom |-> ofYear - starts[month] + 1, dow |-> (d + 6) % 7]

---------------------------------------------------------------------------
(* Parsing.  A field is a list of items: a star, a number, a range or     *)
(* something else, each with a step (0: none is written).                 *)

Fields == << [min |-> 0, max |-> HourMinutes - 1], [min |-> 0, max |-> DayHours - 1],
             [min |-> 1, max |-> 31], [min |-> 1, max |-> 12], [min |-> 0, max |-> 7] >>

Items == [kind : STRING, lo : Int, hi : Int, step : Nat]
ItemOK(it, f) ==
  /\ it.kind \in {"star", "number", "range"}
  /\ it.step # 0 => it.step \in 1..f.max /\ it.kind # "number"
  /\ it.kind # "star" => f.min <= it.lo /\ it.hi <= f.max /\ it.lo <= it.hi

ItemValues(it, f) ==
  LET lo == IF it.kind = "star" THEN f.min ELSE it.lo
      hi == IF it.kind = "star" THEN f.max ELSE it.hi
      step == IF it.step = 0 THEN 1 ELSE it.step
  IN {v \in lo..hi : (v - lo) % step = 0}

parseField(items, f) == UNION {ItemValues(items[i], f) : i \in DOMAIN items}

\* 7 is Sunday too; a field that starts with a star leaves the day to the other.
Schedule(fields) ==
  LET sets == [i \in 1..5 |-> parseField(fields[i], Fields[i])]
  IN [minute |-> sets[1], hour |-> sets[2], dom |-> sets[3], month |-> sets[4],
      dow |-> {v % 7 : v \in sets[5]},
      domStar |-> fields[3][1].kind = "star", dowStar |-> fields[5][1].kind = "star"]

---------------------------------------------------------------------------
(* Evaluation.                                                             *)

DayMatches_Both(s, d) ==
  LET date == Date(d)
  IN date.month \in s.month /\ date.dom \in s.dom /\ date.dow \in s.dow
DayMatches(s, d) ==
  LET date == Date(d)
      dom == date.dom \in s.dom
      dow == date.dow \in s.dow
  IN /\ date.month \in s.month
     /\ IF s.domStar \/ s.dowStar THEN dom /\ dow ELSE dom \/ dow

Matches(s, t) ==
  /\ DayMatches(s, t \div Day)
  /\ (t % Day) \div HourMinutes \in s.hour
  /\ t % HourMinutes \in s.minute

\* The fires of a matching day, as minutes of the day.
OfDay(s) == {h * HourMinutes + m : h \in s.hour, m \in s.minute}

\* How many days from d, in the direction of sign, the first day with a fire is
\* (onDay: d itself still has one).
FirstDay(s, d, sign, onDay) ==
  LET ok(i) == DayMatches(s, d + sign * i) /\ (i = 0 => onDay)
  IN IF \E i \in 0..SearchDays - 1 : ok(i)
       THEN CHOOSE i \in 0..SearchDays - 1 : ok(i) /\ \A j \in 0..i - 1 : ~ok(j)
       ELSE SearchDays

Prev(s, t) ==
  LET before(i) == {m \in OfDay(s) : i = 0 => m <= t % Day}
      i == FirstDay(s, t \div Day, -1, before(0) # {})
  IN IF i = SearchDays THEN Never ELSE (t \div Day - i) * Day + Highest(before(i))

Next(s, t) ==
  LET u == t + 1
      after(i) == {m \in OfDay(s) : i = 0 => m >= u % Day}
      i == FirstDay(s, u \div Day, 1, after(0) # {})
  IN IF i = SearchDays THEN Never ELSE (u \div Day + i) * Day + Lowest(after(i))

\* Parse: every item is well formed, and the schedule fires.
Parses(fields) ==
  /\ Len(fields) = 5
  /\ \A i \in 1..5 : fields[i] # <<>> /\ \A j \in DOMAIN fields[i] : ItemOK(fields[i][j], Fields[i])
  /\ Next(Schedule(fields), 0) # Never

\* The widest gap from `later` back, until a fire is a week before end.  The
\* loop's own bound, a round for every minute of the week, is never reached.
Widest(s, end) ==
  LET widest[later \in Never..end] ==
        LET earlier == Prev(s, later - 1)
            gap == later - earlier
            rest == IF earlier <= end - SevenDays THEN 0 ELSE widest[earlier]
        IN IF later = Never \/ earlier = Never THEN 0 ELSE IF rest < gap THEN gap ELSE rest
  IN widest

MaxGap(s, end) == Widest(s, end)[Prev(s, end)]

---------------------------------------------------------------------------
(* What a schedule means, minute by minute.                                *)

NamesValue(items, f, v) == \E i \in DOMAIN items : v \in ItemValues(items[i], f)

Fires(fields, t) ==
  LET date == Date(t \div Day)
      star(i) == fields[i][1].kind = "star"
      dom == NamesValue(fields[3], Fields[3], date.dom)
      dow == \E v \in 0..7 : v % 7 = date.dow /\ NamesValue(fields[5], Fields[5], v)
  IN /\ NamesValue(fields[1], Fields[1], t % HourMinutes)
     /\ NamesValue(fields[2], Fields[2], (t % Day) \div HourMinutes)
     /\ NamesValue(fields[4], Fields[4], date.month)
     /\ (star(3) \/ star(5)) => dom /\ dow
     /\ ~(star(3) \/ star(5)) => dom \/ dow

FiresBetween(fields, a, b) == {t \in a..b : Fires(fields, t)}

\* The fires whose gap counts: those of the week that ends at end, or else
\* the latest; and the widest distance to the fire before each.
Judged(F, end) ==
  LET inWeek == {t \in F : t > end - SevenDays} IN IF inWeek = {} /\ F # {} THEN {Highest(F)} ELSE inWeek
Before(F, t) == {u \in F : u < t}
WidestNeighbours(F, end) == Highest({t - Highest(Before(F, t)) : t \in Judged(F, end)})

PrevFaithful(fields, t, p) ==
  /\ p # Never => Fires(fields, p) /\ p <= t /\ FiresBetween(fields, p + 1, t) = {}
  /\ p = Never => FiresBetween(fields, t - Reach, t) = {}
NextFaithful(fields, t, n) ==
  /\ n # Never => Fires(fields, n) /\ t < n /\ FiresBetween(fields, t + 1, n - 1) = {}
  /\ n = Never => FiresBetween(fields, t + 1, t + Reach) = {}
GapFaithful(F, t, gap) ==
  (F # {} /\ \A u \in Judged(F, t) : Before(F, u) # {}) => gap = WidestNeighbours(F, t)

\* Parse, Prev, Next and MaxGap agree with the minute-by-minute meaning.
Faithful(fields, t) ==
  Parses(fields) =>
    LET s == Schedule(fields)
    IN /\ PrevFaithful(fields, t, Prev(s, t))
       /\ NextFaithful(fields, t, Next(s, t))
       /\ GapFaithful(FiresBetween(fields, t - Reach, t), t, MaxGap(s, t))

---------------------------------------------------------------------------
(* The questions, one per behaviour.  Times are of this century, so that   *)
(* nothing that a search finds is mistaken for the zero time.              *)

SchedulesAssumption ==
  /\ HourMinutes \in Nat \ {0} /\ DayHours \in Nat \ {0} /\ SearchDays \in Nat \ {0}
  /\ 2 * (SearchDays * Day) < -Never /\ SevenDays < -Never
  /\ Reach \in 0..(SearchDays - 1) * Day
  /\ ScheduleInputs \subseteq [fields : Seq(Seq(Items)), time : Nat]

VARIABLE question

SchedulesInit == question = <<>>
SchedulesNext == question = <<>> /\ \E q \in ScheduleInputs : question' = <<q>>

SchedulesHold == \A i \in DOMAIN question : Faithful(question[i].fields, question[i].time)
=============================================================================
