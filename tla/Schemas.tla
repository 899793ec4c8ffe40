------------------------------ MODULE Schemas ------------------------------
(***************************************************************************)
(* JSON Schema 2020-12 with Ajv's observable behaviour                     *)
(* (internal/pagedata/schema.go, validate.go): which schemas compile in    *)
(* strict mode, and what a compiled one says of a value.                   *)
(*                                                                         *)
(* A schema is [bool |-> b] or a record from keywords to their values.     *)
(* A value is a record of one field named for its type; numbers count      *)
(* halves, so 1 is not an integer.  A pattern is the set of the strings it *)
(* matches.  A document has one base URI: a reference is "#" or a name in   *)
(* the root's defs, dynamicRef the same through dynamicAnchor.  Errors are *)
(* the keywords that report them, in order.  "dependencies" is the two     *)
(* dependent keywords in one and is left out.                              *)
(***************************************************************************)
EXTENDS Integers, Sequences, FiniteSets
LOCAL INSTANCE SequencesExt

CONSTANTS Size,              \* [strings -> Nat]: their lengths in code points
          Formats,           \* [formats -> [kind, valid, rank]]; no rank: no order
          MaxRefHops, MaxValidateDepth

Has(s, k) == k \in DOMAIN s
IsBool(s) == Has(s, "bool")

---------------------------------------------------------------------------
(* The keyword tables.                                                     *)

GroupType == <<"", "number", "string", "array", "object">>
GroupRules ==
  << <<"dynamicAnchor", "dynamicRef", "ref", "type", "nullable", "const", "enum", "not", "anyOf", "oneOf", "allOf",
       "if", "then", "else">>,
     <<"maximum", "exclusiveMinimum", "multipleOf", "format">>,
     <<"maxLength", "minLength", "pattern", "format", "formatMaximum">>,
     <<"maxItems", "minItems", "prefixItems", "items", "contains", "uniqueItems", "maxContains", "minContains",
       "unevaluatedItems">>,
     <<"maxProperties", "minProperties", "required", "propertyNames", "additionalProperties", "properties",
       "patternProperties", "dependentRequired", "dependentSchemas", "unevaluatedProperties">> >>
RuleKeywords == UNION {{GroupRules[g][i] : i \in DOMAIN GroupRules[g]} : g \in 1..5}
Known == RuleKeywords \cup {"defs", "title"}

\* definition.type of a typed keyword: the types of the groups it is in.
KeywordTypes(k) == {GroupType[g] : g \in {h \in 2..5 : k \in {GroupRules[h][i] : i \in DOMAIN GroupRules[h]}}}

HasRules(s) == DOMAIN s \cap RuleKeywords # {}
RefOnly(s) == DOMAIN s \cap RuleKeywords = {"ref"}
AlwaysValid(s) == IF IsBool(s) THEN s.bool ELSE ~HasRules(s)
Unknown(s) == ~IsBool(s) /\ ~(DOMAIN s \subseteq Known)

Types(s) ==
  LET declared == IF Has(s, "type") THEN s.type ELSE <<>>
  IN IF Has(s, "nullable") /\ s.nullable /\ ~Contains(declared, "null") THEN Append(declared, "null") ELSE declared
TypesContradict(s) ==
  /\ Has(s, "nullable")
  /\ IF Has(s, "type") THEN Contains(s.type, "null") /\ ~s.nullable ELSE TRUE

Value(s, k, default) == IF Has(s, k) THEN s[k] ELSE default
Image(f) == {f[k] : k \in DOMAIN f}

\* The subschemas under the keywords that apply them to the same value, and
\* under those that descend into it.
InPlace(s) ==
  UNION {Image(Value(s, k, <<>>)) : k \in {"anyOf", "oneOf", "allOf", "dependentSchemas"}}
  \cup {s[k] : k \in {"not", "if", "then", "else"} \cap DOMAIN s}
Within(s) ==
  UNION {Image(Value(s, k, <<>>)) : k \in {"prefixItems", "properties", "patternProperties"}}
  \cup {s[k] : k \in {"items", "contains", "unevaluatedItems", "unevaluatedProperties", "additionalProperties",
                      "propertyNames"} \cap DOMAIN s}

RECURSIVE HasRef(_)
HasRef(s) ==
  DOMAIN s \cap {"ref", "dynamicRef", "dynamicAnchor"} # {} \/ \E t \in InPlace(s) \cup Within(s) : HasRef(t)

---------------------------------------------------------------------------
(* References.                                                             *)

Root(r) == [ok |-> TRUE, root |-> TRUE, node |-> r]

RECURSIVE Resolve(_, _, _)
Resolve(r, ref, hops) ==
  IF hops > MaxRefHops THEN [ok |-> FALSE]
  ELSE IF ref = "#" THEN Root(r)
  ELSE IF ref \notin DOMAIN Value(r, "defs", <<>>) THEN [ok |-> FALSE]
  ELSE LET own == [ok |-> TRUE, root |-> FALSE, node |-> r.defs[ref]]
       IN IF RefOnly(own.node)
            THEN LET inner == Resolve(r, own.node.ref, hops + 1)
                 IN IF inner.ok /\ ~inner.root THEN inner ELSE own
            ELSE own

Dynamic(r, ref) ==
  IF ref \in DOMAIN Value(r, "defs", <<>>) /\ Has(r.defs[ref], "dynamicAnchor")
    THEN [ok |-> TRUE, root |-> FALSE, node |-> r.defs[ref]] ELSE Root(r)

Inline(t) == ~t.root /\ ~HasRef(t.node)

---------------------------------------------------------------------------
(* Compilation.  State of one schema's compilation: the types the context *)
(* allows, the property names seen so far (`defined', shared by reference  *)
(* with the schemas in the same place until a descent replaces it), and    *)
(* what all of them share: the schemas compiled apart and those visited.   *)

Start(types, defined, done, info) ==
  [ok |-> TRUE, types |-> types, defined |-> defined, shared |-> defined, mine |-> FALSE, done |-> done, info |-> info]
Refuse(c) == [c EXCEPT !.ok = FALSE]
Define(c, names) == [c EXCEPT !.defined = names, !.shared = IF c.mine THEN @ ELSE names]

IncludesType(ts, t) == Contains(ts, t) \/ (t = "integer" /\ Contains(ts, "number"))
Applicable(ts, t) == Contains(ts, t) \/ (t = "number" /\ Contains(ts, "integer"))

\* strictTypes, first half: what the schema's own types make of the context's.
Narrow(context, types) ==
  IF types = <<>> THEN context
  ELSE IF context = <<>> THEN types
  ELSE LET kept(t) == IncludesType(types, t) \/ (Contains(types, "integer") /\ t = "number")
           one(t) == IF IncludesType(types, t) THEN t ELSE "integer"
           rest == SelectSeq(context, kept)
       IN [i \in DOMAIN rest |-> one(rest[i])]
StrictTypes(s, context) ==
  LET types == Types(s)
      now == Narrow(context, types)
  IN /\ context # <<>> => \A i \in DOMAIN types : IncludesType(context, types[i])
     /\ Len(types) > 1 => Len(types) = 2 /\ Contains(types, "null")
     /\ \A k \in DOMAIN s \cap RuleKeywords :
          KeywordTypes(k) # {} => \E t \in KeywordTypes(k) : Applicable(now, t)

MinContains(s) == Value(s, "minContains", 1)

\* Strict mode's conditions on one keyword of s, apart from its subschemas.
KeywordCompiles(s, k, defined) ==
  CASE k = "enum" -> s.enum # <<>>
    [] k = "if" -> Has(s, "then") \/ Has(s, "else")
    [] k \in {"then", "else"} -> Has(s, "if")
    [] k = "format" -> s.format \in DOMAIN Formats
    [] k = "formatMaximum" -> Has(s, "format") /\ s.format \in DOMAIN Formats /\ Formats[s.format].rank # <<>>
    [] k = "prefixItems" ->
         /\ Has(s, "minItems") /\ s.minItems = Len(s.prefixItems)
         /\ \/ Has(s, "maxItems") /\ s.maxItems = Len(s.prefixItems)
            \/ Has(s, "items") /\ s.items = [bool |-> FALSE]
    [] k = "contains" ->
         IF Has(s, "maxContains") THEN MinContains(s) <= s.maxContains ELSE MinContains(s) # 0
    [] k \in {"maxContains", "minContains"} -> Has(s, "contains")
    [] k = "required" -> \A i \in DOMAIN s.required : s.required[i] \in DOMAIN Value(s, "properties", <<>>) \cup defined
    [] k = "patternProperties" ->
         \/ /\ Has(s, "additionalProperties")
            /\ \A p \in DOMAIN s.patternProperties : AlwaysValid(s.patternProperties[p])
         \/ \A p \in DOMAIN s.patternProperties : p \cap DOMAIN Value(s, "properties", <<>>) = {}
    [] OTHER -> TRUE

\* The clauses of an `if' that can fail; without one the `if' is not compiled.
Clauses(s) == {k \in {"then", "else"} \cap DOMAIN s : ~AlwaysValid(s[k])}

RECURSIVE Compile(_, _, _), CompileRef(_, _, _)

\* A subschema of the same value (types and names carry over), or of a part
\* of it (the names start anew, for the parent too).
Sub(r, c, s) ==
  IF ~c.ok \/ Unknown(s) THEN Refuse(c)
  ELSE LET t == Compile(r, s, Start(c.types, c.defined, c.done, c.info))
       IN [Define(c, t.shared) EXCEPT !.ok = t.ok, !.done = t.done, !.info = t.info]
SubData(r, c, s, types) ==
  IF ~c.ok \/ Unknown(s) THEN Refuse(c)
  ELSE IF AlwaysValid(s) THEN c
  ELSE LET t == Compile(r, s, Start(types, {}, c.done, c.info))
       IN [c EXCEPT !.defined = t.shared, !.mine = TRUE, !.ok = t.ok, !.done = t.done, !.info = t.info]

SubAll(r, c, ss) == FoldLeft(LAMBDA a, s : Sub(r, a, s), c, SelectSeq(ss, LAMBDA s : ~AlwaysValid(s) \/ Unknown(s)))
SubMap(r, c, f, Op(_, _, _)) == FoldLeft(LAMBDA a, k : Op(r, a, f[k]), c, SetToSeq(DOMAIN f))
Descend(r, c, s) == SubData(r, c, s, <<>>)

CompileKeyword(r, s, c, k) ==
  IF ~c.ok \/ ~KeywordCompiles(s, k, c.defined) THEN Refuse(c)
  ELSE CASE k = "ref" -> CompileRef(r, c, Resolve(r, s.ref, 0))
         [] k = "dynamicRef" -> CompileRef(r, c, Dynamic(r, s.dynamicRef))
         [] k = "not" -> SubAll(r, c, <<s.not>>)
         [] k = "anyOf" -> FoldLeft(LAMBDA a, t : Sub(r, a, t), c, s.anyOf)
         [] k \in {"oneOf", "allOf"} -> SubAll(r, c, s[k])
         [] k = "if" ->
              SubAll(r, IF Clauses(s) = {} THEN c ELSE Sub(r, c, s["if"]), <<Value(s, "then", <<>>), Value(s, "else", <<>>)>>)
         [] k = "prefixItems" -> FoldLeft(LAMBDA a, t : Descend(r, a, t), c, s.prefixItems)
         [] k \in {"items", "unevaluatedItems", "unevaluatedProperties", "additionalProperties"} ->
              IF IsBool(s[k]) THEN c ELSE Descend(r, c, s[k])
         [] k = "contains" -> Descend(r, c, s.contains)
         [] k = "propertyNames" -> SubData(r, c, s.propertyNames, <<"string">>)
         [] k = "dependentSchemas" -> SubAll(r, c, SetToSeq(Image(s.dependentSchemas)))
         [] k = "properties" ->
              FoldLeft(LAMBDA a, p : LET b == Descend(r, a, s.properties[p])
                                     IN IF AlwaysValid(s.properties[p]) THEN b ELSE Define(b, b.defined \cup {p}),
                       Define(c, c.defined \cup DOMAIN s.properties), SetToSeq(DOMAIN s.properties))
         [] k = "patternProperties" -> SubMap(r, c, s.patternProperties, Descend)
         [] OTHER -> c

Compile(r, s, c) ==
  IF IsBool(s) THEN c
  ELSE IF Unknown(s) THEN Refuse(c)
  ELSE IF ~HasRules(s) THEN c
  ELSE IF TypesContradict(s) THEN Refuse(c)
  ELSE LET seen == [c EXCEPT !.info = @ \cup {s}]
       IN IF RefOnly(s) THEN CompileRef(r, seen, Resolve(r, s.ref, 0))
          ELSE IF ~StrictTypes(s, c.types) THEN Refuse(seen)
          ELSE LET group(a, g) == FoldLeft(LAMBDA b, k : CompileKeyword(r, s, b, k), a,
                                           SelectSeq(GroupRules[g], LAMBDA k : Has(s, k)))
               IN FoldLeft(group, [seen EXCEPT !.types = Narrow(c.types, Types(s))], <<1, 2, 3, 4, 5>>)

CompileRef(r, c, t) ==
  IF ~t.ok THEN Refuse(c)
  ELSE IF t.root THEN c
  ELSE IF Inline(t) THEN [Sub(r, [c EXCEPT !.types = <<>>], t.node) EXCEPT !.types = c.types]
  ELSE IF t.node \in c.done THEN c
  ELSE LET e == Compile(r, t.node, Start(<<>>, {}, c.done \cup {t.node}, c.info))
       IN [c EXCEPT !.ok = e.ok, !.done = e.done, !.info = e.info]

\* checkRefCycles: the schemas the validator applies to the value it is at.
RefEdges(r, s) ==
  {t.node : t \in {u \in (IF Has(s, "ref") THEN {Resolve(r, s.ref, 0)} ELSE {})
                         \cup (IF Has(s, "dynamicRef") THEN {Dynamic(r, s.dynamicRef)} ELSE {}) : u.ok}}
Edges_NoCombinators(r, s) == RefEdges(r, s)
Edges(r, s) == RefEdges(r, s) \cup InPlace(s)

RECURSIVE Reachable(_, _, _)
Reachable(r, info, S) ==
  LET T == S \cup UNION {Edges(r, s) : s \in S \cap info}
  IN IF T = S THEN S ELSE Reachable(r, info, T)

RefCycle(r, info) == \E s \in info : s \in Reachable(r, info, Edges(r, s))

Compiles(r) == LET c == Compile(r, r, Start(<<>>, {}, {}, {})) IN c.ok /\ ~RefCycle(r, c.info)

---------------------------------------------------------------------------
(* Validation: errors, what was evaluated, and whether it went too deep.   *)

Nothing == [allProps |-> FALSE, props |-> {}, allItems |-> FALSE, items |-> 0]
merge(e, o) ==
  [allProps |-> e.allProps \/ o.allProps, props |-> e.props \cup o.props,
   allItems |-> e.allItems \/ o.allItems, items |-> IF o.items > e.items THEN o.items ELSE e.items]

Clean == [errs |-> <<>>, ev |-> Nothing, deep |-> FALSE]
add(a, k) == [a EXCEPT !.errs = Append(@, k)]
addIf(a, cond, k) == IF cond THEN add(a, k) ELSE a
Valid(v) == v.errs = <<>>

\* The errors and the evaluations of a branch, or its evaluations alone.
With(a, v) == [errs |-> a.errs \o v.errs, ev |-> merge(a.ev, v.ev), deep |-> a.deep \/ v.deep]
Noted(a, v) == [a EXCEPT !.ev = merge(@, v.ev), !.deep = @ \/ v.deep]
Errors(a, v) == [a EXCEPT !.errs = @ \o v.errs, !.deep = @ \/ v.deep]
Deep(a, vs) == [a EXCEPT !.deep = @ \/ \E i \in DOMAIN vs : vs[i].deep]

dataIs(t, d) == IF t = "integer" THEN Has(d, "number") /\ d.number % 2 = 0 ELSE Has(d, t)
DefinedProp(s, p) ==
  p \in DOMAIN Value(s, "properties", <<>>) \/ \E pat \in DOMAIN Value(s, "patternProperties", <<>>) : p \in pat

\* The pair of equal items found from the end; with scalar item types only
\* the items of those types are compared.
Duplicates(s, arr) ==
  LET types == IF Has(s, "items") /\ ~IsBool(s.items) THEN Types(s.items) ELSE <<>>
      scalar == types # <<>> /\ ~Contains(types, "object") /\ ~Contains(types, "array")
      compared == {i \in DOMAIN arr : scalar => \E t \in DOMAIN types : dataIs(types[t], arr[i])}
  IN {<<i, j>> \in compared \X compared : i < j /\ arr[i] = arr[j]}

RECURSIVE Node(_, _, _, _)

Call(r, t, d, n) ==
  LET v == Node(r, t.node, d, n) IN IF Inline(t) \/ Valid(v) THEN v ELSE [v EXCEPT !.ev = Nothing]

\* Keywords that apply schemas to the same value.
Combine(r, s, k, d, n, a) ==
  CASE k = "ref" -> With(a, Call(r, Resolve(r, s.ref, 0), d, n))
    [] k = "dynamicRef" -> With(a, Call(r, Dynamic(r, s.dynamicRef), d, n))
    [] k = "not" ->
         LET v == Node(r, s.not, d, n) IN addIf(Deep(a, <<v>>), AlwaysValid(s.not) \/ Valid(v), k)
    [] k = "anyOf" ->
         LET vs == [i \in DOMAIN s.anyOf |-> Node(r, s.anyOf[i], d, n)]
             passing == SelectSeq(vs, Valid)
         IN IF passing # <<>> THEN FoldLeft(Noted, Deep(a, vs), passing) ELSE add(FoldLeft(Errors, a, vs), k)
    [] k = "oneOf" ->
         LET vs == [i \in DOMAIN s.oneOf |-> IF AlwaysValid(s.oneOf[i]) THEN Clean ELSE Node(r, s.oneOf[i], d, n)]
             passing == SelectSeq(vs, Valid)
         IN IF Len(passing) = 1 THEN Noted(Deep(a, vs), passing[1]) ELSE add(FoldLeft(Errors, a, vs), k)
    [] k = "allOf" -> FoldLeft(LAMBDA b, t : With(b, Node(r, t, d, n)), a, SelectSeq(s.allOf, LAMBDA t : ~AlwaysValid(t)))
    [] k = "if" /\ Clauses(s) # {} ->
         LET v == Node(r, s["if"], d, n)
             clause == IF Valid(v) THEN "then" ELSE "else"
             noted == Noted(a, v)
         IN IF clause \notin Clauses(s) THEN noted
            ELSE LET w == Node(r, s[clause], d, n)
                 IN IF Valid(w) THEN Noted(noted, w) ELSE add(Errors(noted, w), k)
    [] k = "dependentSchemas" ->
         LET one(b, p) == LET v == Node(r, s.dependentSchemas[p], d, n) IN IF Valid(v) THEN Noted(b, v) ELSE Errors(b, v)
         IN FoldLeft(one, a, SetToSeq({p \in DOMAIN s.dependentSchemas \cap DOMAIN d.object : ~AlwaysValid(s.dependentSchemas[p])}))
    [] OTHER -> a

\* Keywords that look at a scalar, or at the size of a value.
Scalar(s, k, group, d, a) ==
  CASE k = "const" -> addIf(a, d # s.const, k)
    [] k = "enum" -> addIf(a, ~Contains(s.enum, d), k)
    [] k = "maximum" -> addIf(a, d.number > s.maximum, k)
    [] k = "exclusiveMinimum" -> addIf(a, d.number <= s.exclusiveMinimum, k)
    [] k = "multipleOf" -> addIf(a, d.number % s.multipleOf # 0, k)
    [] k = "format" /\ Formats[s.format].kind = group -> addIf(a, d \notin Formats[s.format].valid, k)
    [] k = "maxLength" -> addIf(a, Size[d.string] > s.maxLength, k)
    [] k = "minLength" -> addIf(a, Size[d.string] < s.minLength, k)
    [] k = "pattern" -> addIf(a, d.string \notin s.pattern, k)
    [] k = "formatMaximum" ->
         LET rank == Formats[s.format].rank
         IN addIf(a, d.string \in DOMAIN rank /\ rank[d.string] > rank[s.formatMaximum], k)
    [] k = "maxItems" -> addIf(a, Len(d.array) > s.maxItems, k)
    [] k = "minItems" -> addIf(a, Len(d.array) < s.minItems, k)
    [] k = "uniqueItems" -> addIf(a, s.uniqueItems /\ Duplicates(s, d.array) # {}, k)
    [] k = "maxProperties" -> addIf(a, Cardinality(DOMAIN d.object) > s.maxProperties, k)
    [] k = "minProperties" -> addIf(a, Cardinality(DOMAIN d.object) < s.minProperties, k)
    [] k = "required" -> FoldLeft(LAMBDA b, p : addIf(b, p \notin DOMAIN d.object, k), a, s.required)
    [] k = "dependentRequired" ->
         LET one(b, p) == FoldLeft(LAMBDA e, q : addIf(e, q \notin DOMAIN d.object, k), b, s.dependentRequired[p])
         IN FoldLeft(one, a, SetToSeq(DOMAIN s.dependentRequired \cap DOMAIN d.object))
    [] OTHER -> a

\* contains: the items counted until the answer is known.
ContainsItems(r, s, d, n, a) ==
  LET low == MinContains(s)
      arr == d.array
      high == Value(s, "maxContains", Len(arr))
      all == [i \in DOMAIN arr |-> Node(r, s.contains, arr[i], n)]
      count(m) == Cardinality({i \in 1..m : Valid(all[i])})
      vs == SubSeq(all, 1, Cardinality({i \in DOMAIN arr : count(i - 1) <= high}))
      fits == low <= count(Len(arr)) /\ count(Len(arr)) <= high
  IN addIf(IF fits THEN Deep(a, vs) ELSE FoldLeft(Errors, a, vs), ~fits, "contains")

\* Keywords that apply schemas to the parts of an array or an object.
Inside(r, s, k, d, n, a) ==
  LET items(b, t, from) == FoldLeft(LAMBDA e, i : Errors(e, Node(r, t, d.array[i], n)), b,
                                    [j \in 1..Len(d.array) - from |-> from + j])
      members(b, t, ps) == FoldLeft(LAMBDA e, p : Errors(e, Node(r, t, d.object[p], n)), b, SetToSeq(ps))
      no(t) == t = [bool |-> FALSE]
  IN CASE k = "prefixItems" ->
            LET few == IF Len(d.array) < Len(s.prefixItems) THEN Len(d.array) ELSE Len(s.prefixItems)
                b == FoldLeft(LAMBDA e, i : Errors(e, Node(r, s.prefixItems[i], d.array[i], n)), a, [i \in 1..few |-> i])
            IN [b EXCEPT !.ev = merge(@, [Nothing EXCEPT !.items = Len(s.prefixItems)])]
       [] k = "items" ->
            LET start == Len(Value(s, "prefixItems", <<>>))
                b == IF no(s.items) /\ Has(s, "prefixItems") THEN addIf(a, Len(d.array) > start, k)
                     ELSE IF AlwaysValid(s.items) THEN a ELSE items(a, s.items, start)
            IN [b EXCEPT !.ev.allItems = TRUE]
       [] k = "contains" -> [ContainsItems(r, s, d, n, a) EXCEPT !.ev.allItems = TRUE]
       [] k = "unevaluatedItems" /\ ~a.ev.allItems ->
            LET b == IF no(s.unevaluatedItems) THEN addIf(a, Len(d.array) > a.ev.items, k)
                     ELSE items(a, s.unevaluatedItems, IF a.ev.items < Len(d.array) THEN a.ev.items ELSE Len(d.array))
            IN [b EXCEPT !.ev.allItems = TRUE]
       [] k = "propertyNames" ->
            FoldLeft(LAMBDA b, p : LET v == Node(r, s.propertyNames, [string |-> p], n)
                                   IN addIf(Errors(b, v), ~Valid(v), k), a, SetToSeq(DOMAIN d.object))
       [] k = "additionalProperties" ->
            LET open == {p \in DOMAIN d.object : ~DefinedProp(s, p)}
                b == IF no(s.additionalProperties) THEN addIf(a, open # {}, k) ELSE members(a, s.additionalProperties, open)
            IN [b EXCEPT !.ev.allProps = TRUE]
       [] k = "properties" ->
            LET b == FoldLeft(LAMBDA e, p : members(e, s.properties[p], {p}), a, SetToSeq(DOMAIN s.properties \cap DOMAIN d.object))
            IN [b EXCEPT !.ev.props = @ \cup DOMAIN s.properties]
       [] k = "patternProperties" ->
            LET b == FoldLeft(LAMBDA e, pat : members(e, s.patternProperties[pat], pat \cap DOMAIN d.object), a,
                              SetToSeq(DOMAIN s.patternProperties))
            IN [b EXCEPT !.ev.props = @ \cup (UNION DOMAIN s.patternProperties \cap DOMAIN d.object)]
       [] k = "unevaluatedProperties" /\ ~a.ev.allProps ->
            LET open == DOMAIN d.object \ a.ev.props
                b == IF no(s.unevaluatedProperties) THEN addIf(a, open # {}, k) ELSE members(a, s.unevaluatedProperties, open)
            IN [b EXCEPT !.ev.allProps = TRUE]
       [] OTHER -> a

Group(r, s, d, n, a, g) ==
  LET used == SelectSeq(GroupRules[g], LAMBDA k : Has(s, k))
      t == GroupType[g]
  IN IF used = <<>> THEN a
     ELSE IF g > 1 /\ ~dataIs(t, d) THEN addIf(a, Types(s) = <<t>>, "type")
     ELSE FoldLeft(LAMBDA b, k : Inside(r, s, k, d, n, Scalar(s, k, t, d, Combine(r, s, k, d, n, b))), a, used)

\* The type is checked up front unless its one group reports it.
Check(s) ==
  /\ Types(s) # <<>>
  /\ ~\E g \in 2..5 : Types(s) = <<GroupType[g]>> /\ \E i \in DOMAIN GroupRules[g] : Has(s, GroupRules[g][i])

Node(r, s, d, depth) ==
  LET n == depth + 1
  IN IF n > MaxValidateDepth THEN [Clean EXCEPT !.deep = TRUE]
     ELSE IF IsBool(s) THEN addIf(Clean, ~s.bool, "false schema")
     ELSE IF ~HasRules(s) THEN Clean
     ELSE IF RefOnly(s) THEN Call(r, Resolve(r, s.ref, 0), d, n)
     ELSE FoldLeft(LAMBDA a, g : Group(r, s, d, n, a, g),
                   addIf(Clean, Check(s) /\ ~\E i \in DOMAIN Types(s) : dataIs(Types(s)[i], d), "type"),
                   <<1, 2, 3, 4, 5>>)

Validate(r, d) == Node(r, r, d, 0)

---------------------------------------------------------------------------
(* What a schema means.  Where Ajv's annotations differ from the           *)
(* specification's, `evaluated' is Ajv's: an `if' counts also when it      *)
(* fails, if a clause can fail; `contains' evaluates every item.  And      *)
(* `uniqueItems' is Ajv's: where `items' names scalar types only, the      *)
(* items of a tuple that have another type may repeat.                     *)

RECURSIVE Satisfies(_, _, _), EvaluatedProps(_, _, _), EvaluatedItems(_, _, _)

\* The schemas that contribute what they evaluated on d to what s does.
Contributors(r, s, d) ==
  LET holding(ts) == {i \in DOMAIN ts : Satisfies(r, ts[i], d)}
      target(t) == IF Inline(t) \/ Satisfies(r, t.node, d) THEN {t.node} ELSE {}
  IN UNION {(IF Has(s, "ref") THEN target(Resolve(r, s.ref, 0)) ELSE {}),
            (IF Has(s, "dynamicRef") THEN target(Dynamic(r, s.dynamicRef)) ELSE {}),
            Image(Value(s, "allOf", <<>>)),
            (IF Has(s, "anyOf") THEN {s.anyOf[i] : i \in holding(s.anyOf)} ELSE {}),
            (IF Has(s, "oneOf") /\ Cardinality(holding(s.oneOf)) = 1 THEN {s.oneOf[i] : i \in holding(s.oneOf)} ELSE {}),
            (IF Has(s, "if") /\ Clauses(s) # {} THEN {s["if"]} ELSE {}),
            {s[k] : k \in {c \in Clauses(s) : Has(s, "if") /\ Satisfies(r, s["if"], d) = (c = "then") /\ Satisfies(r, s[c], d)}},
            (IF Has(s, "dependentSchemas") /\ Has(d, "object")
               THEN {s.dependentSchemas[p] : p \in {q \in DOMAIN s.dependentSchemas \cap DOMAIN d.object :
                                                      Satisfies(r, s.dependentSchemas[q], d)}} ELSE {})}

EvaluatedBefore(r, s, d) ==
  UNION {EvaluatedProps(r, t, d) : t \in Contributors(r, s, d)}
  \cup DOMAIN Value(s, "properties", <<>>) \cup UNION DOMAIN Value(s, "patternProperties", <<>>)
  \cup (IF Has(s, "additionalProperties") THEN DOMAIN d.object ELSE {})
EvaluatedProps(r, s, d) ==
  IF IsBool(s) THEN {} ELSE IF Has(s, "unevaluatedProperties") THEN DOMAIN d.object ELSE EvaluatedBefore(r, s, d)

EvaluatedItemsBefore(r, s, d) ==
  UNION {EvaluatedItems(r, t, d) : t \in Contributors(r, s, d)} \cup DOMAIN Value(s, "prefixItems", <<>>)
  \cup (IF Has(s, "items") \/ Has(s, "contains") THEN DOMAIN d.array ELSE {})
EvaluatedItems(r, s, d) ==
  IF IsBool(s) THEN {} ELSE IF Has(s, "unevaluatedItems") THEN DOMAIN d.array ELSE EvaluatedItemsBefore(r, s, d)

\* The items no two of which may be equal: all, but those of the tuple that
\* have none of the scalar types `items' declares.
Comparable(s, arr) ==
  LET declared == IF Has(s, "items") /\ ~IsBool(s.items) THEN Image(Types(s.items)) ELSE {}
  IN IF declared = {} \/ {"object", "array"} \cap declared # {} THEN DOMAIN arr
     ELSE {i \in DOMAIN arr : i \in DOMAIN Value(s, "prefixItems", <<>>) => \E t \in declared : dataIs(t, arr[i])}

SatisfiesArray(r, s, arr, d) ==
  LET all(k, I) == Has(s, k) => \A i \in I : Satisfies(r, s[k], arr[i])
  IN /\ Has(s, "maxItems") => Len(arr) <= s.maxItems
     /\ Has(s, "minItems") => Len(arr) >= s.minItems
     /\ \A i \in DOMAIN Value(s, "prefixItems", <<>>) \cap DOMAIN arr : Satisfies(r, s.prefixItems[i], arr[i])
     /\ all("items", DOMAIN arr \ DOMAIN Value(s, "prefixItems", <<>>))
     /\ Has(s, "contains") => Cardinality({i \in DOMAIN arr : Satisfies(r, s.contains, arr[i])})
                                \in MinContains(s)..Value(s, "maxContains", Len(arr))
     /\ Has(s, "uniqueItems") /\ s.uniqueItems => \A i, j \in Comparable(s, arr) : arr[i] = arr[j] => i = j
     /\ Has(s, "unevaluatedItems") => all("unevaluatedItems", DOMAIN arr \ EvaluatedItemsBefore(r, s, d))

SatisfiesObject(r, s, o, d) ==
  LET all(k, P) == Has(s, k) => \A p \in P : Satisfies(r, s[k], o[p])
  IN /\ Has(s, "maxProperties") => Cardinality(DOMAIN o) <= s.maxProperties
     /\ Has(s, "minProperties") => Cardinality(DOMAIN o) >= s.minProperties
     /\ Image(Value(s, "required", <<>>)) \subseteq DOMAIN o
     /\ Has(s, "propertyNames") => \A p \in DOMAIN o : Satisfies(r, s.propertyNames, [string |-> p])
     /\ \A p \in DOMAIN Value(s, "properties", <<>>) \cap DOMAIN o : Satisfies(r, s.properties[p], o[p])
     /\ \A pat \in DOMAIN Value(s, "patternProperties", <<>>) :
          \A p \in pat \cap DOMAIN o : Satisfies(r, s.patternProperties[pat], o[p])
     /\ all("additionalProperties", {p \in DOMAIN o : ~DefinedProp(s, p)})
     /\ \A p \in DOMAIN Value(s, "dependentRequired", <<>>) \cap DOMAIN o : Image(s.dependentRequired[p]) \subseteq DOMAIN o
     /\ \A p \in DOMAIN Value(s, "dependentSchemas", <<>>) \cap DOMAIN o : Satisfies(r, s.dependentSchemas[p], d)
     /\ Has(s, "unevaluatedProperties") => all("unevaluatedProperties", DOMAIN o \ EvaluatedBefore(r, s, d))

Satisfies(r, s, d) ==
  IF IsBool(s) THEN s.bool
  ELSE /\ Types(s) # <<>> => \E t \in Image(Types(s)) : dataIs(t, d)
       /\ Has(s, "ref") => Satisfies(r, Resolve(r, s.ref, 0).node, d)
       /\ Has(s, "dynamicRef") => Satisfies(r, Dynamic(r, s.dynamicRef).node, d)
       /\ Has(s, "const") => d = s.const
       /\ Has(s, "enum") => \E e \in Image(s.enum) : e = d
       /\ Has(s, "not") => ~Satisfies(r, s.not, d)
       /\ Has(s, "anyOf") => \E t \in Image(s.anyOf) : Satisfies(r, t, d)
       /\ Has(s, "oneOf") => Cardinality({i \in DOMAIN s.oneOf : Satisfies(r, s.oneOf[i], d)}) = 1
       /\ \A t \in Image(Value(s, "allOf", <<>>)) : Satisfies(r, t, d)
       /\ Has(s, "if") => LET c == IF Satisfies(r, s["if"], d) THEN "then" ELSE "else"
                          IN Has(s, c) => Satisfies(r, s[c], d)
       /\ Has(d, "number") => /\ Has(s, "maximum") => d.number <= s.maximum
                              /\ Has(s, "exclusiveMinimum") => d.number > s.exclusiveMinimum
                              /\ Has(s, "multipleOf") => \E q \in -9..9 : d.number = q * s.multipleOf
       /\ Has(d, "string") => /\ Has(s, "maxLength") => Size[d.string] <= s.maxLength
                              /\ Has(s, "minLength") => Size[d.string] >= s.minLength
                              /\ Has(s, "pattern") => d.string \in s.pattern
                              /\ Has(s, "formatMaximum") =>
                                   LET rank == Formats[s.format].rank
                                   IN d.string \in DOMAIN rank => rank[d.string] <= rank[s.formatMaximum]
       /\ Has(s, "format") /\ dataIs(Formats[s.format].kind, d) => d \in Formats[s.format].valid
       /\ Has(d, "array") => SatisfiesArray(r, s, d.array, d)
       /\ Has(d, "object") => SatisfiesObject(r, s, d.object, d)

\* Validation of a schema that compiled ends, and finds errors exactly when
\* the value does not satisfy the schema; without a tuple before it, typed
\* `items' leaves no repetition.
Faithful(r, data) ==
  Compiles(r) =>
    \A d \in data :
      LET v == Validate(r, d)
      IN /\ ~v.deep /\ (Valid(v) <=> Satisfies(r, r, d))
         /\ Valid(v) /\ Has(d, "array") /\ Value(r, "uniqueItems", FALSE) /\ ~Has(r, "prefixItems") => IsInjective(d.array)
=============================================================================
