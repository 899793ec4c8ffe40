----------------------------- MODULE JsonValues -----------------------------
(***************************************************************************)
(* The JSON value model (internal/jsonv) and the canonical form documents *)
(* are hashed over (internal/pagedata): ordered objects with JavaScript's *)
(* key order, the parser, the writer, equality.  A token is a string; a   *)
(* string token or a key stands for its text, Index gives the number of   *)
(* those that are array indices, and Order ranks all of them by their     *)
(* code units.  A number is the double its token is rounded to, which may *)
(* be an infinity or the negative zero, and a double is named by its       *)
(* shortest spelling.                                                      *)
(***************************************************************************)
EXTENDS Integers, Sequences, FiniteSets
LOCAL INSTANCE SequencesExt
LOCAL INSTANCE Functions

CONSTANTS Strings, Literals,  \* tokens: string tokens; true, false and null
          Double,             \* [number tokens -> the doubles they are read as]
          Index,              \* [array-index keys -> Nat]
          Order,              \* the strings in code-unit order
          IndexThreshold,     \* an object longer than this keeps an index
          MaxDepth

Null == [lit |-> "null"]
Lit(w) == [lit |-> w]
Num(d) == [num |-> d]
Str(s) == [str |-> s]
Arr(items) == [items |-> items]
IsObject(v) == "keys" \in DOMAIN v
IsArray(v) == "items" \in DOMAIN v
IsNumber(v) == "num" \in DOMAIN v

IsInf(d) == d \in {"Infinity", "-Infinity"}
IsZero(d) == d \in {"0", "-0"}

---------------------------------------------------------------------------
(* Object.  index: where each key is, once there are many.                 *)

NoIndex == <<>>
NewObject == [keys |-> <<>>, vals |-> <<>>, index |-> NoIndex, nidx |-> 0]

IsArrayIndex(k) == k \in DOMAIN Index

Scan(keys, k) == IF k \in Range(keys) THEN CHOOSE i \in DOMAIN keys : keys[i] = k ELSE 0

find(o, k) ==
  IF o.index # NoIndex THEN (IF k \in DOMAIN o.index THEN o.index[k] ELSE 0) ELSE Scan(o.keys, k)

reindex(keys) == [k \in Range(keys) |-> Scan(keys, k)]

Set(o, k, v) ==
  LET i == find(o, k)
      keys == Append(o.keys, k)
  IN IF i # 0 THEN [o EXCEPT !.vals[i] = v]
     ELSE [keys |-> keys, vals |-> Append(o.vals, v),
           nidx |-> o.nidx + (IF IsArrayIndex(k) THEN 1 ELSE 0),
           index |-> IF o.index # NoIndex \/ Len(keys) > IndexThreshold
                       THEN [x \in DOMAIN o.index \cup Range(keys) |-> IF x \in DOMAIN o.index THEN o.index[x] ELSE Scan(keys, x)]
                       ELSE NoIndex]

Delete_KeepsIndex(o, k) ==
  LET i == find(o, k)
  IN IF i = 0 THEN o
     ELSE [o EXCEPT !.keys = RemoveAt(@, i), !.vals = RemoveAt(@, i),
                    !.nidx = @ - (IF IsArrayIndex(k) THEN 1 ELSE 0)]
Delete(o, k) ==
  LET i == find(o, k)
  IN IF i = 0 THEN o
     ELSE [keys |-> RemoveAt(o.keys, i), vals |-> RemoveAt(o.vals, i),
           nidx |-> o.nidx - (IF IsArrayIndex(k) THEN 1 ELSE 0),
           index |-> IF o.index = NoIndex THEN NoIndex ELSE reindex(RemoveAt(o.keys, i))]

\* Array-index keys first, ascending, then the others as they were inserted.
Keys(o) ==
  IF o.nidx = 0 THEN o.keys
  ELSE SortSeq(SelectSeq(o.keys, IsArrayIndex), LAMBDA a, b : Index[a] < Index[b])
       \o SelectSeq(o.keys, LAMBDA k : ~IsArrayIndex(k))

Value(o, k) == o.vals[find(o, k)]

---------------------------------------------------------------------------
(* The parser: from position i, the value and where it ends; 0: an error.  *)

Bad == [at |-> 0, value |-> Null]
Token(ts, i) == IF i <= Len(ts) THEN ts[i] ELSE "end"

RECURSIVE value(_, _, _), members(_, _, _, _), elements(_, _, _, _)

\* After "{" or ",": a member.
members(ts, i, depth, o) ==
  IF Token(ts, i) \notin Strings \/ Token(ts, i + 1) # ":" THEN Bad
  ELSE LET v == value(ts, i + 2, depth + 1)
           with == Set(o, ts[i], v.value)
       IN IF v.at = 0 THEN Bad
          ELSE CASE Token(ts, v.at) = "," -> members(ts, v.at + 1, depth, with)
                 [] Token(ts, v.at) = "}" -> [at |-> v.at + 1, value |-> with]
                 [] OTHER -> Bad

elements(ts, i, depth, items) ==
  LET v == value(ts, i, depth + 1)
      with == Append(items, v.value)
  IN IF v.at = 0 THEN Bad
     ELSE CASE Token(ts, v.at) = "," -> elements(ts, v.at + 1, depth, with)
            [] Token(ts, v.at) = "]" -> [at |-> v.at + 1, value |-> Arr(with)]
            [] OTHER -> Bad

value(ts, i, depth) ==
  IF depth > MaxDepth THEN Bad
  ELSE LET t == Token(ts, i)
       IN CASE t = "{" -> IF Token(ts, i + 1) = "}" THEN [at |-> i + 2, value |-> NewObject]
                          ELSE members(ts, i + 1, depth, NewObject)
            [] t = "[" -> IF Token(ts, i + 1) = "]" THEN [at |-> i + 2, value |-> Arr(<<>>)]
                          ELSE elements(ts, i + 1, depth, <<>>)
            [] t \in Strings -> [at |-> i + 1, value |-> Str(t)]
            [] t \in Literals -> [at |-> i + 1, value |-> Lit(t)]
            [] t \in DOMAIN Double -> [at |-> i + 1, value |-> Num(Double[t])]
            [] OTHER -> Bad

\* Nothing may follow the value.
Parse(ts) == LET v == value(ts, 1, 0) IN IF v.at = Len(ts) + 1 THEN v ELSE Bad
Parses(ts) == Parse(ts).at # 0

---------------------------------------------------------------------------
(* The writer, the keys as JavaScript lists them; and the canonical form,  *)
(* the keys sorted, which has no number that is not finite.                *)

Commas(parts) == FlattenSeq([i \in DOMAIN parts |-> IF i = 1 THEN parts[i] ELSE <<",">> \o parts[i]])

\* Both zeros are written alike.
FormatNumber(d) == IF IsZero(d) THEN "0" ELSE d
writeNumber(d) == IF IsInf(d) THEN "null" ELSE FormatNumber(d)

RECURSIVE Stringify(_)
Stringify(v) ==
  CASE IsObject(v) ->
         LET ks == Keys(v)
         IN <<"{">> \o Commas([i \in DOMAIN ks |-> <<ks[i], ":">> \o Stringify(Value(v, ks[i]))]) \o <<"}">>
    [] IsArray(v) -> <<"[">> \o Commas([i \in DOMAIN v.items |-> Stringify(v.items[i])]) \o <<"]">>
    [] "str" \in DOMAIN v -> <<v.str>>
    [] IsNumber(v) -> <<writeNumber(v.num)>>
    [] OTHER -> <<v.lit>>

Rank(k) == CHOOSE i \in DOMAIN Order : Order[i] = k
Sorted(o) == SortSeq(Keys(o), LAMBDA a, b : Rank(a) < Rank(b))

\* The error of a number that is not finite ends the whole form.
Refused == <<>>
RECURSIVE CanonicalJSON(_)
CanonicalJSON(v) ==
  LET ks == Sorted(v)
      parts == IF IsObject(v) THEN [i \in DOMAIN ks |-> CanonicalJSON(Value(v, ks[i]))]
               ELSE [i \in DOMAIN v.items |-> CanonicalJSON(v.items[i])]
  IN CASE IsObject(v) -> IF Refused \in Range(parts) THEN Refused
                         ELSE <<"{">> \o Commas([i \in DOMAIN ks |-> <<ks[i], ":">> \o parts[i]]) \o <<"}">>
       [] IsArray(v) -> IF Refused \in Range(parts) THEN Refused ELSE <<"[">> \o Commas(parts) \o <<"]">>
       [] IsNumber(v) -> IF IsInf(v.num) THEN Refused ELSE <<FormatNumber(v.num)>>
       [] OTHER -> Stringify(v)

\* Deep equality, whatever the order of the keys; the zeros are equal.
RECURSIVE Equal(_, _)
Equal(a, b) ==
  CASE IsObject(a) -> /\ IsObject(b) /\ Len(a.keys) = Len(b.keys)
                      /\ \A i \in DOMAIN a.keys : LET j == find(b, a.keys[i]) IN j # 0 /\ Equal(a.vals[i], b.vals[j])
    [] IsArray(a) -> IsArray(b) /\ Len(a.items) = Len(b.items) /\ \A i \in DOMAIN a.items : Equal(a.items[i], b.items[i])
    [] IsNumber(a) -> IsNumber(b) /\ (a.num = b.num \/ (IsZero(a.num) /\ IsZero(b.num)))
    [] OTHER -> a = b

---------------------------------------------------------------------------
(* What they should mean.                                                  *)

\* The JSON texts, by the grammar: the sequences of tokens ts[i..j].
RECURSIVE IsValue(_, _), IsList(_, _)
IsValue(ts, depth) ==
  /\ depth <= MaxDepth /\ ts # <<>>
  /\ \/ Len(ts) = 1 /\ ts[1] \in Strings \cup Literals \cup DOMAIN Double
     \/ ts[1] = "{" /\ Last(ts) = "}" /\ Len(ts) >= 2
        /\ (Len(ts) = 2 \/ IsList(SubSeq(ts, 2, Len(ts) - 1), [depth |-> depth + 1, keyed |-> TRUE]))
     \/ ts[1] = "[" /\ Last(ts) = "]" /\ Len(ts) >= 2
        /\ (Len(ts) = 2 \/ IsList(SubSeq(ts, 2, Len(ts) - 1), [depth |-> depth + 1, keyed |-> FALSE]))
IsList(ts, how) ==
  LET item(xs) == IF how.keyed THEN Len(xs) > 2 /\ xs[1] \in Strings /\ xs[2] = ":" /\ IsValue(SubSeq(xs, 3, Len(xs)), how.depth)
                  ELSE IsValue(xs, how.depth)
  IN \/ item(ts)
     \/ \E i \in DOMAIN ts : /\ ts[i] = "," /\ item(SubSeq(ts, 1, i - 1))
                             /\ IsList(SubSeq(ts, i + 1, Len(ts)), how)

\* An object after a history of sets and deletes is the map the history
\* leaves, whether or not it keeps an index, and lists its keys in the order
\* of their last insertion, the array indices before the rest.
RECURSIVE After(_)
After(ops) ==
  IF ops = <<>> THEN NewObject
  ELSE LET o == After(Front(ops))
           op == Last(ops)
       IN IF op.value = "gone" THEN Delete(o, op.key) ELSE Set(o, op.key, Num(op.value))

ObjectFaithful(ops) ==
  LET o == After(ops)
      touching(k) == {i \in DOMAIN ops : ops[i].key = k}
      latest(k) == CHOOSE i \in touching(k) : \A j \in touching(k) : j <= i
      has(k) == touching(k) # {} /\ ops[latest(k)].value # "gone"
      gone(k) == {i \in touching(k) : ops[i].value = "gone"}
      inserted(k) == CHOOSE i \in touching(k) \ gone(k) :
                       /\ \A g \in gone(k) : g < i
                       /\ \A j \in touching(k) \ gone(k) : j < i => \E g \in gone(k) : j < g /\ g < i
      ks == Keys(o)
      before(a, b) == IF IsArrayIndex(a) /\ IsArrayIndex(b) THEN Index[a] < Index[b]
                      ELSE IsArrayIndex(a) \/ (~IsArrayIndex(b) /\ inserted(a) < inserted(b))
  IN /\ Range(ks) = {k \in Strings : has(k)} /\ Len(ks) = Cardinality(Range(ks))
     /\ \A i, j \in DOMAIN ks : i < j => before(ks[i], ks[j])
     /\ \A k \in Strings : IF has(k) THEN Value(o, k) = Num(ops[latest(k)].value) ELSE find(o, k) = 0

\* A value with no number that is not finite, and a value with null for each.
RECURSIVE IsFinite(_), Nulled(_)
IsFinite(v) ==
  CASE IsObject(v) -> \A i \in DOMAIN v.vals : IsFinite(v.vals[i])
    [] IsArray(v) -> \A i \in DOMAIN v.items : IsFinite(v.items[i])
    [] OTHER -> ~IsNumber(v) \/ ~IsInf(v.num)
Nulled(v) ==
  CASE IsObject(v) -> [v EXCEPT !.vals = [i \in DOMAIN v.vals |-> Nulled(v.vals[i])]]
    [] IsArray(v) -> Arr([i \in DOMAIN v.items |-> Nulled(v.items[i])])
    [] OTHER -> IF IsFinite(v) THEN v ELSE Null

\* The parser accepts the grammar.  What it reads back from what the writer
\* wrote is what it had read, but for the literals out of a double's range,
\* each of which reads back as null; and writing that again changes nothing.
TextFaithful(ts) ==
  /\ Parses(ts) <=> IsValue(ts, 0)
  /\ Parses(ts) => LET v == Parse(ts).value
                       again == Stringify(v)
                   IN /\ Parses(again) /\ Stringify(Parse(again).value) = again
                      /\ Equal(Nulled(v), Parse(again).value)
                      /\ Equal(v, Parse(again).value) <=> IsFinite(v)

\* A document has a canonical form exactly when its numbers are finite, it
\* reads back as an equal document, and two documents have one form exactly
\* when they are equal: a semantic hash tells apart no two that Equal does not.
CanonFaithful(ts, us) ==
  Parses(ts) /\ Parses(us) =>
    LET v == Parse(ts).value
        w == Parse(us).value
        one == CanonicalJSON(v)
        other == CanonicalJSON(w)
    IN /\ one = Refused <=> ~IsFinite(v)
       /\ IsFinite(v) => Parses(one) /\ Equal(Parse(one).value, v)
       /\ IsFinite(v) /\ IsFinite(w) => ((one = other) <=> Equal(v, w))
=============================================================================
