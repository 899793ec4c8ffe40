---------------------------- MODULE CoverageGaps ----------------------------
(***************************************************************************)
(* The search for number fields that stopped for some entities while their *)
(* rows carried on (internal/pagedata/coveragegaps.go): three passes over  *)
(* an array's rows, against the rule its comment states.                   *)
(*                                                                         *)
(* A row is a sequence of <<field, value>>; a value is [num |-> n],        *)
(* [day |-> n] for a date, [date |-> "bad"] for a date-like string that is *)
(* no date, [str |-> s], [null |-> 0] or [other |-> 0].                    *)
(***************************************************************************)
EXTENDS Integers, Sequences, FiniteSets, TLC
LOCAL INSTANCE SequencesExt

CONSTANTS CoverageGapDays, MaxFields, MaxCandidates, MaxEntities, MaxFindings

noDay == -1000
Is(v, kind) == kind \in DOMAIN v
Elems(s) == {s[i] : i \in DOMAIN s}
First(s, n) == SubSeq(s, 1, IF Len(s) < n THEN Len(s) ELSE n)
Most(S) == CHOOSE x \in S : \A y \in S : x >= y
Later(d, e) == IF d > e THEN d ELSE e
At(f, k, default) == IF k \in DOMAIN f THEN f[k] ELSE default

Get(row, k) ==
  LET ms == SelectSeq(row, LAMBDA m : m[1] = k) IN IF ms = <<>> THEN [null |-> 0] ELSE ms[1][2]
Names(rows) ==
  FoldLeft(LAMBDA ns, row : FoldLeft(LAMBDA u, m : IF Contains(u, m[1]) THEN u ELSE Append(u, m[1]), ns, row), <<>>, rows)
Values(rows, k) == {Get(rows[i], k) : i \in DOMAIN rows}
Kinds(rows, k) == UNION {DOMAIN v : v \in Values(rows, k)} \ {"null"}
Days(rows, k) == {v.day : v \in {w \in Values(rows, k) : Is(w, "day")}}

---------------------------------------------------------------------------
(* Pass 1: the row's day, the number fields and the identifier candidates. *)

Fields(rows) == First(Names(rows), MaxFields)
DateFields(rows) ==
  SelectSeq(Fields(rows), LAMBDA k : Kinds(rows, k) \cap {"day", "date"} # {} /\ Kinds(rows, k) \cap {"num", "other"} = {})
NumberFields(rows) == SelectSeq(Fields(rows), LAMBDA k : Kinds(rows, k) = {"num"})
Candidates(rows) == First(SelectSeq(Fields(rows), LAMBDA k : Kinds(rows, k) = {"str"}), MaxCandidates)

\* The first of the date fields with the most distinct days.
DateField(rows) ==
  FoldLeft(LAMBDA best, k : IF Cardinality(Days(rows, k)) > Cardinality(Days(rows, best)) THEN k ELSE best,
           DateFields(rows)[1], Tail(DateFields(rows)))

Checkable(rows) ==
  /\ DateFields(rows) # <<>> /\ Cardinality(Days(rows, DateField(rows))) >= 2
  /\ Len(NumberFields(rows)) >= 2 /\ Candidates(rows) # <<>>

Dated(rows, date) == SelectSeq(rows, LAMBDA row : Is(Get(row, date), "day"))

---------------------------------------------------------------------------
(* Pass 2: which candidate behaves like an entity over time.               *)

newCandidate == [values |-> <<>>, overflow |-> FALSE, multiDay |-> FALSE, dayFirst |-> <<>>, sharesDay |-> FALSE]

seen(c, s, day) ==
  IF c.overflow THEN c
  ELSE IF s \notin DOMAIN c.values /\ Cardinality(DOMAIN c.values) >= MaxEntities THEN [c EXCEPT !.overflow = TRUE]
  ELSE [c EXCEPT !.values = @ @@ (s :> day),
                 !.multiDay = @ \/ At(c.values, s, day) # day,
                 !.dayFirst = @ @@ (day :> s),
                 !.sharesDay = @ \/ At(c.dayFirst, day, s) # s]

Candidate(rows, date, k) ==
  FoldLeft(LAMBDA c, row : IF Is(Get(row, k), "str") THEN seen(c, Get(row, k).str, Get(row, date).day) ELSE c,
           newCandidate, Dated(rows, date))

\* The candidate with the most values, the first on a tie; "" for none.
KeyField(rows, date) ==
  LET count(k) == Cardinality(DOMAIN Candidate(rows, date, k).values)
      good(k) == LET c == Candidate(rows, date, k) IN ~c.overflow /\ c.multiDay /\ c.sharesDay
      better(best, k) == IF ~good(k) THEN best ELSE IF best = "" THEN k ELSE IF count(k) > count(best) THEN k ELSE best
  IN FoldLeft(better, "", Candidates(rows))

---------------------------------------------------------------------------
(* Pass 3: per entity and number field, the last day it arrived, the last  *)
(* day it was not zero, and whether it ever changed.                       *)

newCarry == [last |-> noDay, lastNonZero |-> noDay, first |-> 0, varies |-> FALSE]
carry(e, n, day) ==
  [last |-> Later(e.last, day), lastNonZero |-> IF n # 0 THEN Later(e.lastNonZero, day) ELSE e.lastNonZero,
   first |-> IF e.last = noDay THEN n ELSE e.first, varies |-> e.varies \/ (e.last # noDay /\ n # e.first)]

\* Per entity and number field, what its rows carried.
Carried(rows, date, key, v, f) ==
  FoldLeft(LAMBDA e, row : IF Get(row, key) = [str |-> v] /\ Is(Get(row, f), "num")
                             THEN carry(e, Get(row, f).num, Get(row, date).day) ELSE e,
           newCarry, Dated(rows, date))
Global(rows, date, f) ==
  FoldLeft(LAMBDA d, row : IF Is(Get(row, f), "num") THEN Later(d, Get(row, date).day) ELSE d, noDay, Dated(rows, date))

\* lastAny: constants and zeros are no delivery.
lastAny(rows, date, key, v) ==
  FoldLeft(LAMBDA d, f : LET e == Carried(rows, date, key, v, f) IN IF e.varies THEN Later(d, e.lastNonZero) ELSE d,
           noDay, NumberFields(rows))

Entities(rows, date, key) ==
  LET vs == {Get(row, key) : row \in Elems(Dated(rows, date))} IN {v.str : v \in {w \in vs : Is(w, "str")}}

\* The fields that stopped, each with its day and its entities (any: per
\* entity, lastAny), ...
Stops(rows, date, key, any, newest) ==
  LET delivering == {v \in DOMAIN any : any[v] # noDay /\ newest - any[v] < CoverageGapDays}
      late(f, v, last) == last # noDay /\ any[v] - last >= CoverageGapDays /\ Global(rows, date, f) - last >= CoverageGapDays
      gaps(f, last) == {v \in delivering : late(f, v, last[v])}
      of(f, last) == {[field |-> f, day |-> last[v], entities |-> {w \in gaps(f, last) : last[w] = last[v]}] : v \in gaps(f, last)}
  IN UNION {of(f, [v \in delivering |-> Carried(rows, date, key, v, f).last]) : f \in Elems(NumberFields(rows))}

\* ... and one finding for those that share both.
Findings(rows, date, any, stops) ==
  LET alike(s) == {u \in stops : u.day = s.day /\ u.entities = s.entities}
  IN {[stoppedOn |-> s.day, entities |-> s.entities, fields |-> {t.field : t \in alike(s)},
       rowsThrough |-> Most({any[v] : v \in s.entities}),
       fieldsThrough |-> Most({Global(rows, date, t.field) : t \in alike(s)})] : s \in stops}

gapsBy(rows, date, key) ==
  LET found(any) == Findings(rows, date, any, Stops(rows, date, key, any, Most({any[v] : v \in DOMAIN any} \cup {noDay})))
  IN IF key = "" THEN {} ELSE found([v \in Entities(rows, date, key) |-> lastAny(rows, date, key, v)])

arrayCoverageGaps(rows) ==
  LET by(date) == gapsBy(rows, date, KeyField(rows, date)) IN IF Checkable(rows) THEN by(DateField(rows)) ELSE {}

\* DetectCoverageGaps over one array: the findings kept are the oldest, the
\* widest first.
Before(g, h) == g.stoppedOn < h.stoppedOn \/ (g.stoppedOn = h.stoppedOn /\ Cardinality(g.entities) > Cardinality(h.entities))
DetectCoverageGaps(rows) ==
  LET kept(sorted) == [gaps |-> First(sorted, MaxFindings),
                       truncated |-> Len(Names(rows)) > MaxFields \/ Len(sorted) > MaxFindings]
  IN kept(SetToSortSeq(arrayCoverageGaps(rows), Before))

---------------------------------------------------------------------------
(* The rule, as the comment states it.                                     *)

\* The (row day, number) pairs of entity v, or of every row.
Points(rows, date, f) == {<<r, Get(rows[r], date).day, Get(rows[r], f).num>> :
                            r \in {i \in DOMAIN rows : Is(Get(rows[i], date), "day") /\ Is(Get(rows[i], f), "num")}}
PointsOf(rows, date, key, v, f) == {p \in Points(rows, date, f) : Get(rows[p[1]], key) = [str |-> v]}
LastDay(ps) == Most({p[2] : p \in ps} \cup {noDay})

DeliveryDays(rows, date, key, v) ==
  UNION {{p[2] : p \in {q \in PointsOf(rows, date, key, v, f) : q[3] # 0}} :
           f \in {g \in Elems(NumberFields(rows)) : Cardinality({p[3] : p \in PointsOf(rows, date, key, v, g)}) > 1}}

ValueDays(rows, date, k) ==
  {<<Get(rows[r], k).str, Get(rows[r], date).day>> :
     r \in {i \in DOMAIN rows : Is(Get(rows[i], k), "str") /\ Is(Get(rows[i], date), "day")}}

\* "some day holds two or more of their values, and some value spans two or
\* more days"; of those, the most values, the first in row order on a tie.
EntityField(rows, date, k) ==
  LET vd == ValueDays(rows, date, k)
  IN /\ \E p, q \in vd : p[2] = q[2] /\ p[1] # q[1]
     /\ \E p, q \in vd : p[1] = q[1] /\ p[2] # q[2]
     /\ Cardinality({p[1] : p \in vd}) <= MaxEntities
Identifies(rows, date, i) ==
  LET ks == Candidates(rows)
      n(j) == Cardinality({p[1] : p \in ValueDays(rows, date, ks[j])})
  IN /\ EntityField(rows, date, ks[i])
     /\ \A j \in DOMAIN ks : EntityField(rows, date, ks[j]) => n(j) < n(i) \/ (n(j) = n(i) /\ i <= j)

RuleGap(rows, date, key, f, v) ==
  LET last == LastDay(PointsOf(rows, date, key, v, f))
      delivered(w) == Most(DeliveryDays(rows, date, key, w) \cup {noDay})
      any == delivered(v)
      newest == Most({delivered(w) : w \in Entities(rows, date, key)})
  IN /\ PointsOf(rows, date, key, v, f) # {} /\ any # noDay
     /\ newest - any < CoverageGapDays
     /\ any - last >= CoverageGapDays
     /\ LastDay(Points(rows, date, f)) - last >= CoverageGapDays

\* Every entity and field the rule names is in exactly one finding, with the
\* day it stopped, and no other is; unless the findings are called truncated.
Told(rows, gaps, truncated) ==
  LET told == UNION {g.fields \X g.entities : g \in gaps}
      due(date, key) == {fv \in Elems(NumberFields(rows)) \X Entities(rows, date, key) : RuleGap(rows, date, key, fv[1], fv[2])}
      exact(date, key) ==
        /\ told \subseteq due(date, key)
        /\ due(date, key) \subseteq told \/ truncated
        /\ \A g \in gaps : \A f \in g.fields, v \in g.entities :
             /\ g.stoppedOn = LastDay(PointsOf(rows, date, key, v, f))
             /\ g.rowsThrough >= Most(DeliveryDays(rows, date, key, v))
        /\ \A g, h \in gaps : g # h => g.stoppedOn # h.stoppedOn \/ g.entities # h.entities
      identified(date) == \E i \in DOMAIN Candidates(rows) : Identifies(rows, date, i) /\ exact(date, Candidates(rows)[i])
  IN \/ gaps = {} /\ ~(Checkable(rows) /\ \E k \in Elems(Candidates(rows)) : EntityField(rows, DateField(rows), k))
     \/ identified(DateField(rows))

Faithful(rows) ==
  LET told(found) == Told(rows, Elems(found.gaps), found.truncated) IN told(DetectCoverageGaps(rows))
=============================================================================
