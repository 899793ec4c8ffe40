---------------------------- MODULE MCAlgorithms ----------------------------
(***************************************************************************)
(* The pure algorithms, each against its reference definition: a          *)
(* behaviour picks one input, and the invariants compare what the         *)
(* algorithm makes of it with what it should mean.                        *)
(***************************************************************************)
EXTENDS Integers, Sequences, FiniteSets, SequencesExt, TLC

VARIABLE input

nl == "n"
P == INSTANCE Patching WITH Newline <- nl, MaxEdits <- 2, MaxExpectedCount <- 3, MaxResultBytes <- 5,
       MaxMatches <- 2, MaxContextLines <- 2, MaxCustomContextChars <- 4
J == INSTANCE JsonValues WITH Strings <- {"a", "2", "10"}, Literals <- {"null"}, Double <- ("0" :> "0") @@ ("-0" :> "-0") @@ ("1" :> "1") @@ ("1e0" :> "1") @@ ("1e999" :> "Infinity"), Index <- ("2" :> 2) @@ ("10" :> 10),
       Order <- <<"10", "2", "a">>, IndexThreshold <- 1, MaxDepth <- 2

C == INSTANCE Schemas WITH Size <- ("a" :> 1) @@ ("b" :> 2),
       Formats <- [date |-> [kind |-> "string", valid |-> {[string |-> "a"]}, rank |-> ("a" :> 1)],
                   int32 |-> [kind |-> "number", valid |-> {[number |-> 2]}, rank |-> <<>>]],
       MaxRefHops <- 2, MaxValidateDepth <- 20

R == INSTANCE Profiles WITH Dotted <- ("a.b" :> <<"a", "b">>), MaxArrays <- 2, MaxFields <- 3, MaxScalars <- 2, MaxDepth <- 2, MaxDistinct <- 2, MaxWarnings <- 2,
       LongNames <- {"long"}, LongDates <- {3}, LongStamps <- {3}, MaxDateFields <- 1, MaxCoverageScalars <- 1, CoverageMaxBytes <- 5

G == INSTANCE CoverageGaps WITH CoverageGapDays <- 1, MaxFields <- 5, MaxCandidates <- 2, MaxEntities <- 2, MaxFindings <- 1

At(algorithm) == input = [kind |-> algorithm]

Strings(A, lo, hi) == UNION {[1..n -> A] : n \in lo..hi}

---------------------------------------------------------------------------
Edit(f, r, n) == [find |-> f, replace |-> r, count |-> n]
PickPatch ==
  At("patches") /\ \E text \in Strings({"a", "b"}, 0, 4), f \in Strings({"a", "b"}, 1, 2), r \in {<<>>, <<"a">>, <<"b", "a", "b">>},
     n \in 0..2, e \in {<<>>, <<Edit(<<"a">>, <<>>, 1)>>, <<Edit(<<"b">>, <<"a", "a">>, 2)>>} :
    input' = [kind |-> "patch", text |-> text, edits |-> <<Edit(f, r, n)>> \o e]

PickSearch ==
  At("searches") /\ \E text \in Strings({"a", nl}, 0, 5), q \in Strings({"a", nl}, 1, 2), limit \in 0..2, lines \in {1, 2}, chars \in {0, 1, 3} :
    input' = [kind |-> "search", text |-> text, query |-> q, limit |-> limit, lines |-> lines, chars |-> chars]

PickObject ==
  At("objects") /\ \E ops \in Strings([key : {"a", "2", "10"}, value : {"0", "1", "gone"}], 1, 4) :
    input' = [kind |-> "object", ops |-> ops]

PickText ==
  At("texts") /\ \E ts \in Strings({"{", "}", "[", "]", ",", ":", "a", "1"}, 0, 4) \cup Strings({"{", "}", ":", "a", "1e999"}, 5, 5)
                               \cup Strings({"[", "]", ",", "1", "1e999"}, 5, 5) \cup Strings({"[", ",", "]", "-0"}, 5, 6) : input' = [kind |-> "text", tokens |-> ts]

Members == {<<>>, <<"a", ":", "0">>, <<"a", ":", "-0">>, <<"2", ":", "1e0">>, <<"a", ":", "1e999">>, <<"10", ":", "[", "1e999", ",", "null", "]">>, <<"2", ":", "1">>, <<"10", ":", "[", "]">>, <<"10", ":", "[", "1", ",", "0", "]">>,
            <<"a", ":", "{", "2", ":", "0", "}">>}
Objects == {<<"{">> \o m \o (IF m = <<>> \/ n = <<>> THEN <<>> ELSE <<",">>) \o n \o <<"}">> : m, n \in Members}
PickPair == At("pairs") /\ \E ts, us \in Objects : input' = [kind |-> "pair", one |-> ts, other |-> us]

---------------------------------------------------------------------------
(* Managed data: schemas and values, payloads before and after a refresh.  *)

\* JSON data of every type, and schemas of each family of keywords.
B(b) == [bool |-> b]
Type(t) == [type |-> <<t>>]
N(n) == [number |-> n]
Str(w) == [string |-> w]
Data == {N(0), N(1), N(2), Str("a"), Str("b"), [null |-> 0], [boolean |-> TRUE]}
        \cup {[array |-> x] : x \in {<<>>, <<N(2)>>, <<N(2), N(2)>>, <<N(1), Str("a")>>, <<Str("a"), N(1), N(1)>>, <<Str("a"), Str("a")>>, <<Str("a"), Str("b")>>}}
        \cup {[object |-> o] : o \in {<<>>, "a" :> N(2), "b" :> N(2), "a" :> Str("a"), ("a" :> N(2)) @@ ("b" :> Str("b")),
                                    "a" :> [object |-> "a" :> N(2)], "b" :> [object |-> "a" :> Str("b")]}}

Optional(k, X) == {<<>>} \cup {k :> x : x \in X}
Numbers == {Type(t) @@ m : t \in {"number", "integer"}, m \in {"maximum" :> 1, "exclusiveMinimum" :> 0, "multipleOf" :> 2, "format" :> "int32"}}
Texts == {Type("string") @@ m : m \in {"maxLength" :> 1, "minLength" :> 2, "pattern" :> {"b"}, "format" :> "date",
                                     [format |-> "date", formatMaximum |-> "a"], [format |-> "int32", formatMaximum |-> "a"]}}
Leaves == {B(TRUE), B(FALSE), <<>>, Type("number"), Type("integer") @@ ("nullable" :> TRUE), Type("string"), [type |-> <<"number", "string">>],
           [const |-> N(2)], [enum |-> <<N(0), Str("a")>>], [maximum |-> 1], ("x" :> 0) @@ Type("number"), Type("number") @@ ("maximum" :> 1)}
Shapes == {Type("object") @@ ("properties" :> p) @@ r : p \in {"a" :> Type("number"), "b" :> B(TRUE), "a" :> (Type("object") @@ ("properties" :> ("a" :> Type("string"))))},
                                                      r \in Optional("required", {<<"a">>})}
Combined(T) ==
  {k :> <<x, y>> : k \in {"allOf", "anyOf", "oneOf"}, x, y \in T} \cup {"not" :> x : x \in T}
  \cup {("if" :> x) @@ t @@ e : x \in T, t \in Optional("then", T), e \in Optional("else", T)}
Arrays == {Type("array") @@ p @@ i @@ c @@ u : p \in Optional("prefixItems", {<<Type("string"), B(TRUE)>>}) \cup {[prefixItems |-> <<Type("number")>>, minItems |-> 1, maxItems |-> 1],
                                                  [prefixItems |-> <<Type("number")>>, minItems |-> 1],
                                                  [prefixItems |-> <<Type("string"), Type("string")>>, minItems |-> 2, maxItems |-> 2]},
             i \in Optional("items", {B(FALSE), B(TRUE), Type("number")}),
             c \in {<<>>} \cup {("contains" :> x) @@ lo @@ hi : x \in {Type("number"), B(TRUE)}, lo \in Optional("minContains", {0, 2}), hi \in Optional("maxContains", {1})},
             u \in {<<>>, "uniqueItems" :> TRUE, "unevaluatedItems" :> B(FALSE), "unevaluatedItems" :> Type("string")}}
Objects2 == {Type("object") @@ p @@ t @@ q @@ o : p \in Optional("properties", {"a" :> Type("number")}), t \in Optional("patternProperties", {{"b"} :> Type("string"), {"a", "b"} :> B(TRUE)}),
             q \in Optional("additionalProperties", {B(FALSE), Type("number")}) \cup Optional("unevaluatedProperties", {B(FALSE), Type("number")}),
             o \in {<<>>, "propertyNames" :> (Type("string") @@ ("pattern" :> {"a"})), "maxProperties" :> 1, "minProperties" :> 1, "required" :> <<"a">>, "dependentRequired" :> ("b" :> <<"a">>),
                    "dependentSchemas" :> ("b" :> (Type("object") @@ [properties |-> "a" :> Type("string"), required |-> <<"a">>])),
                    "dependentSchemas" :> ("b" :> (Type("object") @@ ("required" :> <<"a">>)))}}
Referring == {"ref" :> x : x \in {"a", "b", "#"}} \cup {k :> <<"ref" :> x, Type("number")>> : k \in {"allOf", "anyOf"}, x \in {"a", "b", "#"}}
             \cup {Type("object") @@ ("properties" :> ("a" :> ("ref" :> x))) @@ u : x \in {"a", "b", "#"}, u \in Optional("unevaluatedProperties", {B(FALSE)})}
             \cup {"not" :> ("dynamicRef" :> x) : x \in {"a", "#"}} \cup {Type("number"), Type("object") @@ [dynamicAnchor |-> "a", properties |-> "a" :> Type("number")], B(FALSE)}
SchemaInputs ==
  Numbers \cup Texts \cup Leaves \cup Shapes \cup Combined(Leaves)
  \cup {Type("object") @@ c @@ u : c \in Combined(Shapes \cup {B(TRUE)}), u \in Optional("unevaluatedProperties", {B(FALSE)})}
  \cup Arrays \cup Objects2 \cup {("defs" :> (("a" :> x) @@ ("b" :> y))) @@ r : x, r \in Referring, y \in {"ref" :> "a", "anyOf" :> <<"ref" :> "b", Type("number")>>, Type("number"),
                                                                   Type("object") @@ ("properties" :> ("a" :> ("ref" :> "b")))}}
\* Payloads: an array of rows, with another array, scalars or a nest beside it.
Row(ms) == [obj |-> ms]
Cell(k, v) == <<k, v>>
Day(n) == Cell("d", [date |-> n])
Kind(w) == Cell("k", [str |-> w])
Amount(n) == Cell("v", [num |-> n])
Rows == {Row(<<Day(1), Kind("x"), Amount(1)>>), Row(<<Day(2), Kind("y"), Amount(2)>>), Row(<<Day(3), Kind("z")>>), Row(<<Day(2), Cell("k", [null |-> 0])>>),
         Row(<<Kind("x"), Cell("d", [num |-> 1])>>), [leaf |-> [num |-> 1]]}
MoreRows == {Row(<<Cell("a", [num |-> 1]), Day(1), Cell("e", [date |-> 2]), Cell("long", [date |-> 2])>>), Row(<<Cell("long", [date |-> 1])>>), Row(<<Day(1), Cell("e", [date |-> 2])>>)}
TablesOf(T, n) == {[arr |-> x] : x \in UNION {[1..m -> T] : m \in 0..n}}
Payload(x) == [obj |-> <<<<"r", x>>>>]
Leaf(v) == [leaf |-> v]
Beside == {<<>>, <<<<"s", Leaf([date |-> 1])>>>>, <<<<"s", Leaf([date |-> 3])>>, <<"t", Leaf([date |-> 1])>>, <<"u", Leaf([num |-> 1])>>>>,
           <<<<"o", [obj |-> <<<<"q", [arr |-> <<Row(<<Day(1)>>), Leaf([num |-> 1])>>]>>, <<"w", [arr |-> <<>>]>>>>]>>>>,
           <<<<"o", [obj |-> <<<<"p", [obj |-> <<<<"m", Leaf([num |-> 1])>>>>]>>>>]>>>>, <<<<"long", [arr |-> <<Row(<<Day(1)>>)>>]>>>>}
\* Arrays under a key with a dot, a nested one that spells the same path, or both.
Under(k, x) == <<<<k, x>>>>
Few == {[arr |-> x] : x \in {<<Row(<<Day(1), Kind("x")>>)>>, <<Row(<<Day(2), Cell("a.b", [date |-> 1])>>), Row(<<Kind("y")>>)>>}}
Twins == {[obj |-> p \o q] : p \in {<<>>, Under("a.b", Leaf([date |-> 1]))} \cup {Under("a.b", x) : x \in Few},
                            q \in {<<>>} \cup {Under("a", [obj |-> Under("b", x)]) : x \in Few \cup {Leaf([date |-> 2])}}}
Payloads == {[obj |-> <<<<"r", x>>>> \o b] : x \in TablesOf(Rows \cup MoreRows, 2), b \in Beside} \cup Twins \cup {[arr |-> <<Row(<<Day(1)>>)>>], Leaf([num |-> 1])}
NoExpect == [row_count |-> <<>>, totals |-> <<>>, date_range |-> <<>>, tolerance |-> 0]
Expects == {[NoExpect EXCEPT !.row_count = <<"r">> :> n] : n \in 0..2}
           \cup {[NoExpect EXCEPT !.totals = <<"r", "v">> :> n, !.tolerance = t] : n \in {0, 2, 3}, t \in {-1, 0, 40, 100}}
           \cup {[NoExpect EXCEPT !.date_range = <<"r", "d">> :> <<1, n>>] : n \in {1, 2}}
\* Rows of an array of deliveries: a day, an entity, and the numbers they carry.
Delivery(day, entity, numbers) == <<<<"d", [day |-> day]>>, <<"k", [str |-> entity]>>>> \o numbers
Carrying(f, n) == <<<<f, [num |-> n]>>>>
Deliveries ==
  {Delivery(1, "p", Carrying("x", 1) \o Carrying("y", 1)), Delivery(3, "p", Carrying("x", 2)), Delivery(3, "p", Carrying("x", 1)), Delivery(3, "p", Carrying("x", 0) \o Carrying("y", 1)),
   Delivery(2, "p", Carrying("x", 2) \o Carrying("z", 1)), Delivery(1, "q", Carrying("x", 1) \o Carrying("y", 2)), Delivery(3, "q", Carrying("y", 1) \o Carrying("z", 1)),
   Delivery(3, "q", <<>>), Delivery(2, "q", Carrying("x", 2) \o <<<<"z", [str |-> "p"]>>>>), Delivery(3, "r", Carrying("z", 1)),
   <<<<"d", [date |-> "bad"]>>, <<"k", [str |-> "p"]>>>> \o Carrying("y", 1)}

PickPayload == At("payloads") /\ \E p \in Payloads : input' = [kind |-> "payload", data |-> p]
PickRefresh ==
  At("refreshes") /\ \E x, y \in TablesOf(Rows, 2), e \in {NoExpect, [NoExpect EXCEPT !.row_count = <<"r">> :> 1]} :
    input' = [kind |-> "refresh", previous |-> Payload(x), next |-> Payload(y), expect |-> e]
PickTwins ==
  At("refreshes") /\ \E x, y \in Twins : input' = [kind |-> "refresh", previous |-> x, next |-> y, expect |-> NoExpect]

PickSchema == At("schemas") /\ \E s \in SchemaInputs : ~C!IsBool(s) /\ input' = [kind |-> "schema", schema |-> s]
PickRows == At("deliveries") /\ \E rows \in Strings(Deliveries, 0, 4) : input' = [kind |-> "rows", rows |-> rows]

---------------------------------------------------------------------------
(* Patterns, put together from pieces, with the strings to match ("a",     *)
(* "b", a digit and the end of a line).                                    *)

Ascii == ("a" :> 97) @@ ("b" :> 98) @@ ("n" :> 110) @@ ("d" :> 100) @@ ("u" :> 117) @@ ("x" :> 120) @@ ("k" :> 107) @@ ("c" :> 99)
         @@ ("0" :> 48) @@ ("1" :> 49) @@ ("2" :> 50) @@ ("3" :> 51) @@ ("6" :> 54) @@ ("p" :> 112) @@ ("7" :> 55) @@ ("8" :> 56) @@ ("f" :> 102) @@ ("D" :> 68)
         @@ ("^" :> 94) @@ ("$" :> 36) @@ ("." :> 46) @@ ("*" :> 42) @@ ("+" :> 43) @@ ("?" :> 63) @@ ("(" :> 40) @@ (")" :> 41)
         @@ ("[" :> 91) @@ ("]" :> 93) @@ ("{" :> 123) @@ ("}" :> 125) @@ ("|" :> 124) @@ ("\\" :> 92) @@ ("/" :> 47)
         @@ ("," :> 44) @@ ("-" :> 45) @@ ("=" :> 61) @@ ("!" :> 33) @@ ("<" :> 60) @@ (">" :> 62) @@ (":" :> 58)
Surrogate == 126..127
Lowercase == <<"p">> :> <<[lo |-> 97, hi |-> 122]>>

X == INSTANCE Patterns WITH Code <- Ascii, Rune <- (0..130) \ Surrogate, Surrogates <- Surrogate, Astral <- 128,
       Tables <- Lowercase, RE2Knows <- {}, MaxNesting <- 3, MaxRepeat <- 2, MaxPatternChars <- 13, MaxCount <- 9

Pieces == {<<"a">>, <<".">>, <<"(">>, <<"(", "?", "=">>, <<")">>, <<"|">>, <<"*">>, <<"?">>, <<"{", "2">>, <<"}">>, <<",">>, <<"^">>,
           <<"\\", "1">>, <<"\\", "b">>, <<"[">>, <<"]">>}
Concat(ss) == FlattenSeq(ss)
Some(S, lo, hi) == {Concat(t) : t \in UNION {[1..n -> S] : n \in lo..hi}}

Openings == {<<"(">>, <<"(", "?", ":">>, <<"(", "?", "!">>, <<"(", "?", "<", "=">>}
Bodies(n) == Some({<<"a">>, <<"[", "a", "b", "]">>, <<"|">>, <<"*">>, <<"+", "?">>}, 0, n)
Quantifiers == {<<>>, <<"*">>, <<"{", "2", ",", "}">>, <<"{", "3", "}">>, <<"?", "?">>}
Close(o, b, q) == o \o b \o <<")">> \o q
Patterns ==
  Some(Pieces, 0, 3)
  \cup {Close(o, b, q) : o \in Openings, b \in Bodies(3), q \in Quantifiers}
  \cup {Close(<<"(", "b">>, Close(o, b, q) \o t, <<"+">>) : o \in Openings, b \in Bodies(2), q \in {<<>>, <<"*">>}, t \in {<<>>, <<"|", "b">>, <<"a">>}}

Esc(src, u, r) == [src |-> <<"\\">> \o src, unicode |-> u, rune |-> r]
Escapes ==
  {Esc(<<"x", "6", "1">>, u, 97) : u \in BOOLEAN} \cup {Esc(<<"u", "0", "0", "6", "1">>, u, 97) : u \in BOOLEAN}
  \cup {Esc(<<"n">>, u, 10) : u \in BOOLEAN} \cup {Esc(<<"0">>, u, 0) : u \in BOOLEAN} \cup {Esc(<<"c", "b">>, u, 2) : u \in BOOLEAN}
  \cup {Esc(<<"u", "{", "0", "6", "1", "}">>, TRUE, 97), Esc(<<"u", "0", "0", "7", "x">>, TRUE, -1), Esc(<<"x", "7", "?">>, TRUE, -1),
        Esc(<<"u", "{", "6", "1", "6", "}">>, TRUE, -1), Esc(<<"1", "2">>, TRUE, -1), Esc(<<"1", "2">>, FALSE, 10), Esc(<<"6">>, FALSE, 6),
        Esc(<<"0", "1">>, TRUE, -1), Esc(<<"0", "1">>, FALSE, 1), Esc(<<"8">>, FALSE, 56), Esc(<<"a">>, FALSE, 97), Esc(<<"a">>, TRUE, -1),
        Esc(<<"u", "0", "0", "7", "6">>, FALSE, 118), Esc(<<"u", "0", "0", "7", "f">>, TRUE, 127)}

Matched == {<<>>, <<97>>, <<98>>, <<98, 97>>, <<97, 97, 97>>, <<10>>, <<97, 97, 98, 98>>}
Ranges == UNION {[1..n -> {X!R(lo, hi) : lo \in {0, 124, 126, 128}, hi \in {0, 1, 125, 126, 128, 130}}] : n \in 0..2}

PatternInputs == [pattern : Patterns] \cup [echo : Bodies(4)] \cup [escape : Escapes]
          \cup {[ranges |-> rs] : rs \in {r \in Ranges : \A i \in DOMAIN r : r[i].lo <= r[i].hi}}

PatternsFaithful(in) ==
  CASE "pattern" \in DOMAIN in -> X!PatternFaithful(in.pattern, Matched)
    [] "echo" \in DOMAIN in -> X!EchoFaithful(in.echo, Matched)
    [] "escape" \in DOMAIN in -> X!EscapeFaithful(in.escape)
    [] "ranges" \in DOMAIN in -> X!RangesFaithful(in.ranges)

---------------------------------------------------------------------------
(* Hosts: addresses around every edge of the ranges, and environment files *)
(* put together from the fragments that make one hard to read.             *)

IP == INSTANCE ClientAddresses WITH Subnet <- 56
Env == INSTANCE EnvFiles WITH Keys <- {"A", "B", "K"}, Newline <- "n", SecretKeys <- {"K"}

Zero(n) == [i \in 1..n |-> 0]
IPv4 == {IP!V4(w) : w \in {<<2560, 1>>, <<2560, 257>>, <<2561, 1>>, <<32512, 1>>, <<0, 1>>}}
IPv6 == {IP!V6(Zero(5) \o w, d) : w \in {<<65535, 2560, 1>>, <<65535, 32512, 1>>, <<0, 2560, 1>>, <<0, 0, 1>>, <<0, 0, 0>>, <<1, 2560, 1>>}, d \in BOOLEAN}
        \cup {IP!V6(w \o l \o r, FALSE) : w \in {<<8193, 0, 0>>, <<0, 0, 8193>>, <<8193, 7, 0>>, <<0, 0, 0>>},
                                         l \in {<<0, 0>>, <<255, 9>>, <<256, 9>>, <<513, 0>>}, r \in {<<0, 0, 0>>, <<7, 7, 1>>}}
Addresses == IPv4 \cup IPv6 \cup {IP!Junk(<<1>>), IP!Junk(<<2, 3>>)}

TrustRanges == {<<n, <<>>>> : n \in {IP!Whole, 8, 24, 31, 32, 33, 56, 104, 120, 128, 0}}
          \cup {<<IP!Mask, m>> : m \in {<<65280, 0>>, <<65535, 65535>>, <<65535, 1>>, <<0, 0>>}}
Settings == {{IP!Entry(ip, r[1], r[2])} : ip \in IPv4 \cup {a \in IPv6 : ~a.dotted}, r \in TrustRanges}
            \cup {{}, {IP!Entry(IP!V4(<<32512, 1>>), 8, <<>>), IP!Entry(IP!V6(Zero(7) \o <<1>>, FALSE), 128, <<>>)}}

Fragments == {<<>>, <<"A", "=", "x", "n">>, <<" ", "A", "=", "\"", "x", "n", "B", "=", "y", "\"", "n">>, <<"B", "=", "'", "\\", "'", "n">>,
              <<"#", "'", "A", "=", "n">>, <<"B", "=", "x", "#", "\"", "n">>, <<"A", "=", "\\", "\"", "n">>, <<"A", "=", "\"", "\\", "\"", "n", "\"">>,
              <<"n">>, <<"B", "=", "\"">>, <<"B", "=", "x", " ", "#", "\"", "n">>, <<"B", "=", "y", "\\", "n", "A", "=", "n">>, <<"x", "=", "y">>}
EnvTexts == {f \o g \o h : f, g, h \in Fragments}
Up(k, v) == [key |-> k, value |-> v]
Updates == {<<Up("A", <<"v">>)>>, <<Up("K", <<"$", "\"">>), Up("B", <<"#", "\\">>)>>, <<Up("B", <<>>), Up("K", <<"'">>)>>}

ShownLines == {<<"K", "=", "s">>, <<" ", "K", "=", "\"", "s", "\"">>, <<"B", "=", "/", "/", "u", ":", "s", "@", "h">>,
               <<"B", "=", "/", "/", ":", "s", "@", "s", "@", "h", "/", "x">>, <<"A", "=", "/", "/", "h", " ", "/", "/", "u", ":", "s", "@">>,
               <<"#", "K", "=", "s">>, <<"A", "=", "x">>, <<"x">>,
               <<"K", "=", "\"", "x", "n", "y", "=", "s", "\"">>, <<"K", "=", "'", "s", "n", "s", "'">>, <<"A", "=", "\"", "n", "K", "=", "\"">>,
               <<"A", "=", "/", "/", "u", ":", "s", "@", " ", "/", "/", "u", ":", "s", "@">>, <<"B", "=", "x", " ", "/", "/", "h", ":", "1">>}
Shown == {f \o <<"n">> \o g \o e : f, g \in ShownLines, e \in {<<>>, <<"n">>}}

Proxy == IP!V4(<<32512, 1>>)
Peers == {Proxy, IP!V4(<<2560, 1>>)}
Behind == {IP!Entry(Proxy, 8, <<>>)}

Headers == UNION {[1..n -> {IP!Space, IP!Comma, 1, 2}] : n \in 0..5}
Values == UNION {[1..n -> {"\"", "\\", "$", "x", " ", "#", "'"}] : n \in 0..3}

HostFaithful(i) ==
  CASE i.of = "key" -> IP!KeysIsolate(i.a, i.b)
    [] i.of = "trust" -> IP!TrustFaithful(i.b, i.a)
    [] i.of = "header" -> IP!HeaderFaithful(Behind, i.a, i.b, <<3>>)
    [] i.of = "value" -> Env!QuoteExact(i.a)
    [] i.of = "merge" -> Env!MergeFaithful(i.a, i.b)
    [] i.of = "show" -> Env!RedactFaithful(i.a, "s")

PickPattern == At("patterns") /\ \E e \in PatternInputs : input' = [kind |-> "pattern", pattern |-> e]
Host(of, a, b) == input' = [kind |-> "host", host |-> [of |-> of, a |-> a, b |-> b]]
PickHost ==
  At("hosts") /\ \/ \E a, b \in Addresses : Host("key", a, b)
                 \/ \E a \in Addresses, s \in Settings : Host("trust", a, s)
                 \/ \E p \in Peers, h \in Headers : Host("header", p, h)
                 \/ \E v \in Values : Host("value", v, <<>>)
                 \/ \E t \in EnvTexts, u \in Updates : Host("merge", t, u)
                 \/ \E t \in Shown : Host("show", t, <<>>)

---------------------------------------------------------------------------
Init == input \in [kind : {"patches", "searches", "objects", "texts", "pairs", "payloads", "refreshes", "schemas", "deliveries", "patterns",
                         "hosts"}]
Next == PickPatch \/ PickSearch \/ PickObject \/ PickText \/ PickPair \/ PickPayload \/ PickRefresh \/ PickTwins \/ PickSchema \/ PickRows
        \/ PickPattern \/ PickHost
Spec == Init /\ [][Next]_input

---------------------------------------------------------------------------
\* A patch changes exactly the places its anchors name (pagepatch.ApplyEdits),
\* and a search shows the leftmost of them in bounded excerpts (FindMatches).
\* Objects keep JavaScript's order, the parser accepts JSON, and the canonical
\* form is one for equal documents (jsonv.Object, Parse, Equal, CanonicalJSON).
DocumentsFaithful ==
  /\ input.kind = "patch" => P!EditsFaithful(input.text, input.edits)
  /\ input.kind = "search" => P!SearchFaithful(input.text, input.query, input.limit, input.lines, input.chars)
  /\ input.kind = "object" => J!ObjectFaithful(input.ops)
  /\ input.kind = "text" => J!TextFaithful(input.tokens)
  /\ input.kind = "pair" => J!CanonFaithful(input.one, input.other)

\* A schema that compiles never recurses without end, and accepts exactly the
\* values Ajv's reading of JSON Schema gives it, in which a tuple's items of
\* other types than `items' may repeat (compileValidator, Validate); its patterns
\* mean what JavaScript makes of them, whichever engine runs them, and the
\* screen refuses what it is for (jsregex.go, pattern.go).
SchemasFaithful ==
  /\ input.kind = "schema" => C!Faithful(input.schema, Data)
  /\ input.kind = "pattern" => PatternsFaithful(input.pattern)

\* Of the arrays and fields that two payloads share, by the dotted paths a
\* profile has for them, every loss is warned of or the answer says that warnings
\* are missing; the summary is complete or says it is not, and an expect that
\* passes is true of the rows (profile.go).  What is gone altogether is not
\* compared, and of two arrays that spell one path only the later is profiled.
\* A number field that stopped for some of its entities is found, with its day,
\* and nothing else is (coveragegaps.go).
ProfilesFaithful ==
  /\ input.kind = "rows" => G!Faithful(input.rows)
  /\ input.kind = "refresh" => R!CompareFaithful(input.previous, input.next, input.expect)
  /\ input.kind = "payload" => R!CoverageFaithful(input.data) /\ \A e \in Expects : R!ExpectFaithful(input.data, e)

\* A client's budgets are its own and nothing it sends moves it to another's
\* (clientip, ratelimit.IPKey); a merge into the environment file keeps all it
\* was not asked to change, and of a file whose values are each on one line
\* `pages env` shows all but its secrets (ops/envfile).
HostsFaithful == input.kind = "host" => HostFaithful(input.host)
=============================================================================
