----------------------------- MODULE Profiles -----------------------------
(***************************************************************************)
(* What a payload contains, and what a refresh lost of it                  *)
(* (internal/pagedata/profile.go): the bounded profile of its arrays and   *)
(* scalars, the summary a refresh run reads, the warnings of a comparison  *)
(* and the caller's own arithmetic.                                        *)
(*                                                                         *)
(* A payload value is [obj |-> members], [arr |-> rows] or [leaf |-> v];   *)
(* an object's members and a row's fields are sequences of <<key, value>>.*)
(* A leaf is a record of one field: num, date, str or null.  Dates are     *)
(* numbers in their order.  A path is its keys joined with dots, and is    *)
(* given as the sequence of what stands between its dots: a key that has a *)
(* dot itself spells the path of a nested one.  Keys are not empty, and    *)
(* the root's path is the empty string.                                    *)
(***************************************************************************)
EXTENDS Integers, Sequences, FiniteSets
LOCAL INSTANCE SequencesExt

CONSTANTS Dotted,  \* [keys with a dot -> their parts]
          MaxArrays, MaxFields, MaxScalars, MaxDepth, MaxDistinct,  \* profile caps
          MaxWarnings,
          LongNames, LongDates, LongStamps,  \* keys, dates of a window and date scalars too long for the summary
          MaxDateFields, MaxCoverageScalars, CoverageMaxBytes

Root == <<"">>
Parts(k) == IF k \in DOMAIN Dotted THEN Dotted[k] ELSE <<k>>

Is(v, kind) == kind \in DOMAIN v
Unique(s) == FoldLeft(LAMBDA u, x : IF Contains(u, x) THEN u ELSE Append(u, x), <<>>, s)
First(s, n) == SubSeq(s, 1, IF Len(s) < n THEN Len(s) ELSE n)
Elems(s) == {s[i] : i \in DOMAIN s}
Least(S) == CHOOSE x \in S : \A y \in S : x <= y
Most(S) == CHOOSE x \in S : \A y \in S : x >= y
Total(s) == FoldLeft(LAMBDA n, x : n + x, 0, s)

---------------------------------------------------------------------------
(* ProfileData.                                                            *)

\* The values of field k, in row order, and the fields in order of appearance.
Column(rows, k) ==
  LET cells(row) == LET ms == SelectSeq(row, LAMBDA m : m[1] = k) IN [i \in DOMAIN ms |-> ms[i][2]]
  IN FoldLeft(LAMBDA c, row : c \o cells(row), <<>>, rows)
FieldNames(rows) ==
  Unique(FoldLeft(LAMBDA ks, row : ks \o [i \in DOMAIN row |-> row[i][1]], <<>>, rows))

Of(column, kind) ==
  LET vs == SelectSeq(column, LAMBDA v : Is(v, kind)) IN [i \in DOMAIN vs |-> vs[i][kind]]

\* A field of an array: what its values are.  Distinct values are tracked up
\* to a bound; only a complete set has members.
fieldProfile(column) ==
  LET nums == Of(column, "num")
      dates == Of(column, "date")
      strs == Of(column, "str")
      texts == Unique(SelectSeq(column, LAMBDA v : Is(v, "date") \/ Is(v, "str")))
      nulls == Len(Of(column, "null"))
      overflow == Len(texts) > MaxDistinct
  IN IF nums # <<>> /\ dates = <<>> /\ strs = <<>>
       THEN [kind |-> "number", sum |-> Total(nums), min |-> Least(Elems(nums)), max |-> Most(Elems(nums)), nulls |-> nulls]
     ELSE IF dates # <<>> /\ nums = <<>>
       THEN [kind |-> "date", min |-> Least(Elems(dates)), max |-> Most(Elems(dates)),
             distinct |-> Len(First(texts, MaxDistinct)), overflow |-> overflow, nulls |-> nulls]
     ELSE [kind |-> IF overflow THEN "text" ELSE "key", distinct |-> Len(First(texts, MaxDistinct)), nulls |-> nulls,
           members |-> IF overflow THEN <<>> ELSE texts]

ObjectRows(rows) ==
  LET objs == SelectSeq(rows, LAMBDA row : Is(row, "obj")) IN [i \in DOMAIN objs |-> objs[i].obj]

profileRows(rows) ==
  LET names == First(FieldNames(ObjectRows(rows)), MaxFields)
  IN [count |-> Len(rows), names |-> names,
      fields |-> [k \in Elems(names) |-> fieldProfile(Column(ObjectRows(rows), k))]]

\* The arrays and scalars under a value in document order; a branch below the
\* depth bound is one that is cut.
RECURSIVE walk(_, _, _)
walk(value, path, depth) ==
  IF depth > MaxDepth THEN <<[cut |-> TRUE]>>
  ELSE IF ~Is(value, "obj") THEN <<[path |-> path, value |-> value]>>
  ELSE FoldLeft(LAMBDA s, m : s \o walk(m[2], IF path = Root THEN Parts(m[1]) ELSE path \o Parts(m[1]), depth + 1), <<>>, value.obj)

\* Where several spell one path, the first has the place and the last the value.
ProfileData(data) ==
  LET found == walk(data, Root, 0)
      arrays == SelectSeq(found, LAMBDA e : Is(e, "value") /\ Is(e.value, "arr"))
      scalars == SelectSeq(found, LAMBDA e : Is(e, "value") /\ Is(e.value, "leaf") /\ e.path # Root)
      paths(s) == Unique([i \in DOMAIN s |-> s[i].path])
      at(s, p) == Last(SelectSeq(s, LAMBDA e : e.path = p)).value
      tables == First(arrays, MaxArrays)
      stamps == First(scalars, MaxScalars)
  IN [paths |-> paths(tables), arrays |-> [p \in Elems(paths(tables)) |-> profileRows(at(tables, p).arr)],
      stamps |-> paths(stamps), scalars |-> [p \in Elems(paths(stamps)) |-> at(stamps, p).leaf],
      capped |-> \/ \E i \in DOMAIN found : Is(found[i], "cut")
                 \/ Len(arrays) > MaxArrays \/ Len(scalars) > MaxScalars
                 \/ \E i \in DOMAIN tables : Len(FieldNames(ObjectRows(tables[i].value.arr))) > MaxFields]

---------------------------------------------------------------------------
(* BoundedCoverageProfile.  A summary is an array of date fields per path *)
(* and the date scalars; its size in bytes is counted in entries.          *)

Bytes(out) == Len(out.stamps) + FoldLeft(LAMBDA n, a : n + 1 + 2 * Len(a.names), 0, out.arrays)
fits(out) == Bytes(out) <= CoverageMaxBytes
IsLong(path) == \E i \in DOMAIN path : path[i] \in LongNames

clip(d) == IF d \in LongDates THEN [clipped |-> TRUE] ELSE [date |-> d]

\* One array of the summary: its count and its date fields, as far as they fit.
addArray(out, profile, path) ==
  LET entry == profile.arrays[path]
      dates == SelectSeq(entry.names, LAMBDA k : entry.fields[k].kind = "date")
      short == SelectSeq(dates, LAMBDA k : k \notin LongNames)
      kept == First(short, MaxDateFields)
      window(k) == [min |-> clip(entry.fields[k].min), max |-> clip(entry.fields[k].max)]
      holding(n) == [path |-> path, count |-> entry.count, names |-> First(kept, n),
                     windows |-> [k \in Elems(First(kept, n)) |-> window(k)]]
      with(n) == [out EXCEPT !.arrays = Append(@, holding(n))]
      whole == Len(kept) = Len(dates) /\ ~\E k \in Elems(kept) : LongDates \cap {entry.fields[k].min, entry.fields[k].max} # {}
      room == {n \in 0..Len(kept) : \A m \in 0..n : fits(with(m))}
  IN IF IsLong(path) THEN [out EXCEPT !.truncated = TRUE]
     ELSE IF fits(with(Len(kept))) THEN [with(Len(kept)) EXCEPT !.truncated = @ \/ ~whole]
     ELSE IF room = {} THEN [out EXCEPT !.truncated = TRUE]
     ELSE [with(Most(room)) EXCEPT !.truncated = TRUE]

addScalar(out, profile, path) ==
  LET v == profile.scalars[path]
      with == [out EXCEPT !.stamps = Append(@, path)]
  IN IF ~Is(v, "date") THEN out
     ELSE IF ~IsLong(path) /\ v.date \notin LongStamps /\ Len(out.stamps) < MaxCoverageScalars /\ fits(with) THEN with
     ELSE [out EXCEPT !.truncated = TRUE]

BoundedCoverageProfile(profile) ==
  LET empty == [arrays |-> <<>>, stamps |-> <<>>, truncated |-> profile.capped]
      arrays == FoldLeft(LAMBDA out, p : addArray(out, profile, p), empty, profile.paths)
  IN FoldLeft(LAMBDA out, p : addScalar(out, profile, p), arrays, profile.stamps)

---------------------------------------------------------------------------
(* CompareDataProfiles: the warnings of a write.  expected is the caller's *)
(* expect: row_count by array path, totals and date_range by field path.   *)

warning(code, path) == [code |-> code, path |-> path]
warnIf(cond, code, path) == IF cond THEN <<warning(code, path)>> ELSE <<>>

expectNames(expected, path) ==
  \/ path \in DOMAIN expected.row_count
  \/ \E k \in DOMAIN expected.totals \cup DOMAIN expected.date_range :
       Len(k) > Len(path) /\ SubSeq(k, 1, Len(path)) = path

fieldWarnings(b, a, path) ==
  warnIf(a.kind = "date" /\ b.kind = "date" /\ b.min < a.min, "coverage_start_regressed", path)
  \o warnIf(a.kind = "date" /\ b.kind = "date" /\ a.max < b.max, "coverage_end_regressed", path)
  \o warnIf(a.kind = "key" /\ b.kind = "key" /\ ~(Elems(b.members) \subseteq Elems(a.members)), "dimension_values_missing", path)

\* The arrays of next whose rows had a predecessor, and the fields they share.
Replaced(previous, path) == path \in DOMAIN previous.arrays /\ previous.arrays[path].count > 0
SharedFields(previous, next, path) ==
  SelectSeq(next.arrays[path].names, LAMBDA k : k \in DOMAIN previous.arrays[path].fields)

arrayWarnings(previous, next, expected, path) ==
  LET after == next.arrays[path]
  IN IF ~Replaced(previous, path)
       THEN warnIf(after.names # <<>> /\ after.count > 0 /\ ~expectNames(expected, path), "coverage_unverified", path)
       ELSE LET before == previous.arrays[path]
            IN warnIf(after.count < before.count, "row_count_dropped", path)
               \o FoldLeft(LAMBDA w, k : w \o fieldWarnings(before.fields[k], after.fields[k], path \o Parts(k)),
                           <<>>, SharedFields(previous, next, path))

Restated(previous, next, path, k) ==
  LET a == next.arrays[path].fields[k]
      b == previous.arrays[path].fields[k]
  IN /\ a.kind = "date" /\ b.kind = "date" /\ a.min = b.min /\ a.max = b.max
     /\ next.arrays[path].count = previous.arrays[path].count

staleRefreshWarnings(same, previous, next) ==
  IF same THEN <<warning("data_unchanged", Root)>>
  ELSE LET one(w, path) ==
             IF ~Replaced(previous, path) THEN w
             ELSE FoldLeft(LAMBDA u, k : u \o warnIf(Restated(previous, next, path, k), "coverage_did_not_advance", path \o Parts(k)),
                           w, SharedFields(previous, next, path))
       IN FoldLeft(one, <<>>, next.paths)

capWarnings_Silent(w) == First(w, MaxWarnings)
capWarnings(w) ==
  IF Len(w) <= MaxWarnings THEN w ELSE Append(First(w, MaxWarnings), warning("warnings_truncated", Root))

CompareDataProfiles(previous, next, expected, same) ==
  LET losses == FoldLeft(LAMBDA w, p : w \o arrayWarnings(previous, next, expected, p), <<>>, next.paths)
      regressed == {w.path : w \in {x \in Elems(losses) : x.code \in {"coverage_start_regressed", "coverage_end_regressed"}}}
      lead == SelectSeq(staleRefreshWarnings(same, previous, next), LAMBDA w : w.path \notin regressed)
  IN capWarnings(lead \o losses)

---------------------------------------------------------------------------
(* AssertExpectedProfile.  Tolerances are in hundredths.                   *)

fieldAt(profile, path) ==
  IF Len(path) > 1 /\ Front(path) \in DOMAIN profile.arrays /\ Last(path) \in DOMAIN profile.arrays[Front(path)].fields
    THEN profile.arrays[Front(path)].fields[Last(path)] ELSE [kind |-> "none"]

Distance(a, b) == IF a > b THEN a - b ELSE b - a
WithinTolerance(sum, wanted, tolerance) ==
  LET slack == Distance(wanted, 0) * tolerance
  IN 100 * Distance(sum, wanted) <= (IF slack = 0 THEN tolerance ELSE slack)

AssertExpectedProfile(profile, expected) ==
  /\ expected.tolerance \in 0..100
  /\ \A p \in DOMAIN expected.row_count : p \in DOMAIN profile.arrays /\ profile.arrays[p].count = expected.row_count[p]
  /\ \A p \in DOMAIN expected.totals :
       LET f == fieldAt(profile, p) IN f.kind = "number" /\ WithinTolerance(f.sum, expected.totals[p], expected.tolerance)
  /\ \A p \in DOMAIN expected.date_range :
       LET f == fieldAt(profile, p) IN f.kind = "date" /\ <<f.min, f.max>> = expected.date_range[p]

---------------------------------------------------------------------------
(* The reference: the payloads themselves, without profiles.               *)

\* What the keys along a path lead to, each way of splitting it, in document
\* order; a path that several arrays spell means the last of them.
RECURSIVE Lookup(_, _)
Lookup(value, path) ==
  IF path = <<>> THEN <<value>>
  ELSE IF ~Is(value, "obj") THEN <<>>
  ELSE LET under(m) == IF IsPrefix(Parts(m[1]), path) THEN Lookup(m[2], SubSeq(path, Len(Parts(m[1])) + 1, Len(path))) ELSE <<>>
       IN FlattenSeq([j \in DOMAIN value.obj |-> under(value.obj[j])])

ArraysAt(data, path) == SelectSeq(IF path = Root THEN <<data>> ELSE Lookup(data, path), LAMBDA v : Is(v, "arr"))
RowsAt(data, path) == IF ArraysAt(data, path) = <<>> THEN {} ELSE {Last(ArraysAt(data, path)).arr}
Cells(rows, k) == Elems(Column(ObjectRows(rows), k))
Days(rows, k) == {v.date : v \in {c \in Cells(rows, k) : Is(c, "date")}}
Texts(rows, k) == {c \in Cells(rows, k) : Is(c, "date") \/ Is(c, "str")}
Numeric(rows, k) == \E c \in Cells(rows, k) : Is(c, "num")
Dated(rows, k) == Days(rows, k) # {} /\ ~Numeric(rows, k)
Listing(rows, k) ==
  ~Dated(rows, k) /\ (Numeric(rows, k) => Texts(rows, k) # {}) /\ Cardinality(Texts(rows, k)) <= MaxDistinct

\* What next lost of the rows previous had under path, in the fields that both
\* have.
Lost(was, now, path) ==
  Elems(warnIf(Len(now) < Len(was), "row_count_dropped", path))
  \cup {warning("coverage_start_regressed", path \o Parts(k)) :
          k \in {j \in Elems(FieldNames(ObjectRows(now))) : Dated(was, j) /\ Dated(now, j) /\ Least(Days(was, j)) < Least(Days(now, j))}}
  \cup {warning("coverage_end_regressed", path \o Parts(k)) :
          k \in {j \in Elems(FieldNames(ObjectRows(now))) : Dated(was, j) /\ Dated(now, j) /\ Most(Days(now, j)) < Most(Days(was, j))}}
  \cup {warning("dimension_values_missing", path \o Parts(k)) :
          k \in {j \in Elems(FieldNames(ObjectRows(now))) : Listing(was, j) /\ Listing(now, j) /\ ~(Texts(was, j) \subseteq Texts(now, j))}}

\* Over the paths at which both have an array: an array that is gone, or a
\* field that is, is not compared.
Losses(previous, next) ==
  UNION {UNION {UNION {Lost(was, now, p) : was \in {r \in RowsAt(previous, p) : r # <<>>}} : now \in RowsAt(next, p)} :
         p \in Elems(ProfileData(next).paths)}

LossCodes == {"row_count_dropped", "coverage_start_regressed", "coverage_end_regressed", "dimension_values_missing"}

\* Every loss in what both payloads have is warned of, unless the answer says
\* that warnings are missing; every loss that is warned of happened, and none
\* is of an array or a field that next has not; a refresh that changed nothing
\* says so first, whatever is cut off.
CompareFaithful(previous, next, expected) ==
  LET p == ProfileData(previous)
      n == ProfileData(next)
      told == CompareDataProfiles(p, n, expected, previous = next)
      losses == Losses(previous, next)
      codes == {w.code : w \in Elems(told)}
  IN ~p.capped /\ ~n.capped =>
       /\ losses \subseteq Elems(told) \/ "warnings_truncated" \in codes
       /\ {w \in Elems(told) : w.code \in LossCodes} \subseteq losses
       /\ \A w \in losses : \E q \in DOMAIN n.arrays : w.path \in {q} \cup {q \o Parts(k) : k \in DOMAIN n.arrays[q].fields}
       /\ previous = next => told[1].code = "data_unchanged"
       /\ \A w \in Elems(told) : w.code = "coverage_did_not_advance" =>
            \A x \in losses : x.code \in {"coverage_start_regressed", "coverage_end_regressed"} => x.path # w.path
       /\ Len(told) <= MaxWarnings + 1

\* What is not called truncated is complete, what is shown is true, and the
\* summary keeps its bound.
CoverageFaithful(data) ==
  LET p == ProfileData(data)
      out == BoundedCoverageProfile(p)
      dateFields(path) == {k \in DOMAIN p.arrays[path].fields : p.arrays[path].fields[k].kind = "date"}
  IN /\ fits(out)
     /\ \A i \in DOMAIN out.arrays :
          LET a == out.arrays[i]
          IN \A rows \in RowsAt(data, a.path) :
               /\ a.count = Len(rows)
               /\ \A k \in Elems(a.names) : /\ a.windows[k].min \in {[date |-> Least(Days(rows, k))], [clipped |-> TRUE]}
                                            /\ a.windows[k].max \in {[date |-> Most(Days(rows, k))], [clipped |-> TRUE]}
     /\ ~out.truncated =>
          /\ {a.path : a \in Elems(out.arrays)} = DOMAIN p.arrays
          /\ \A a \in Elems(out.arrays) : Elems(a.names) = dateFields(a.path)
          /\ ~\E a \in Elems(out.arrays) : [clipped |-> TRUE] \in UNION {{a.windows[k].min, a.windows[k].max} : k \in Elems(a.names)}
          /\ {q \in DOMAIN p.scalars : Is(p.scalars[q], "date")} = Elems(out.stamps)

\* A payload that passes the caller's arithmetic has the rows, sums and dates
\* the caller stated.
ExpectFaithful(data, expected) ==
  AssertExpectedProfile(ProfileData(data), expected) =>
    /\ \A p \in DOMAIN expected.row_count : \A rows \in RowsAt(data, p) : Len(rows) = expected.row_count[p]
    /\ \A p \in DOMAIN expected.totals : \A rows \in RowsAt(data, Front(p)) :
         LET sum == Total(Of(Column(ObjectRows(rows), Last(p)), "num"))
             wanted == expected.totals[p]
         IN \/ 100 * Distance(sum, wanted) <= Distance(wanted, 0) * expected.tolerance
            \/ Distance(wanted, 0) * expected.tolerance = 0 /\ 100 * Distance(sum, wanted) <= expected.tolerance
    /\ \A p \in DOMAIN expected.date_range : \A rows \in RowsAt(data, Front(p)) :
         expected.date_range[p] = <<Least(Days(rows, Last(p))), Most(Days(rows, Last(p)))>>
=============================================================================
