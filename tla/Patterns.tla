------------------------------ MODULE Patterns ------------------------------
(***************************************************************************)
(* JavaScript's regular expressions (pagedata/jsregex.go) and the screen    *)
(* of a schema's patterns (pattern.go).  A pattern is a sequence of         *)
(* one-character strings, with Code the code points; it is parsed to a      *)
(* tree, and the tree is either written as an RE2 expression or run by a    *)
(* backtracking matcher.  A tree is a record whose field "is" says which.   *)
(*                                                                         *)
(* The matcher calls a continuation for each way a node can match, in       *)
(* order, and undoes the captures when it fails: here the ways are a        *)
(* sequence.  Its budget of steps is left out.  The tables behind \p{..}    *)
(* are a constant.                                                         *)
(***************************************************************************)
EXTENDS Integers, Sequences, FiniteSets, SequencesExt

CONSTANTS Code,          \* the code point of each character
          Rune,          \* 0..MaxRune, with the surrogates
          Surrogates, Astral,
          Tables,        \* the body of a \p{..} -> its ranges
          RE2Knows,      \* the bodies RE2 has a name for
          MaxNesting,    \* 500
          MaxRepeat,     \* 1000, RE2's bound
          MaxPatternChars, MaxCount

Letter == {"a", "b", "n"}
Digit == {c \in DOMAIN Code : Code[c] \in 48..57}
SyntaxChar == {"^", "$", "\\", ".", "*", "+", "?", "(", ")", "[", "]", "{", "}", "|", "/"}

R(lo, hi) == [lo |-> lo, hi |-> hi]
jsSpaceRanges == <<R(9, 13), R(32, 32)>>
jsDigitRanges == <<R(48, 57)>>
jsWordRanges  == <<R(48, 57), R(65, 90), R(95, 95), R(97, 122)>>

In(ranges, r) == \E x \in Range(ranges) : r \in x.lo..x.hi

MaxRune == CHOOSE r \in Rune : \A q \in Rune : q <= r
FirstSurrogate == CHOOSE r \in Surrogates : \A q \in Surrogates : r <= q
LastSurrogate  == CHOOSE r \in Surrogates : \A q \in Surrogates : q <= r

\* Sorted, merged, and without the surrogates.
Sound(ranges) ==
  FlattenSeq([i \in DOMAIN ranges |->
    LET x == ranges[i]
    IN IF x.hi < FirstSurrogate \/ x.lo > LastSurrogate THEN <<x>>
       ELSE (IF x.lo < FirstSurrogate THEN <<R(x.lo, FirstSurrogate - 1)>> ELSE <<>>)
            \o (IF x.hi > LastSurrogate THEN <<R(LastSurrogate + 1, x.hi)>> ELSE <<>>)])

Join(out, x) ==
  IF out # <<>> /\ x.lo <= Last(out).hi + 1
  THEN IF x.hi > Last(out).hi THEN [out EXCEPT ![Len(out)].hi = x.hi] ELSE out
  ELSE Append(out, x)

NormalizeRanges(ranges) == FoldLeft(Join, <<>>, SortSeq(Sound(ranges), LAMBDA x, y : x.lo < y.lo))

ComplementRanges(ranges) ==
  LET walk == FoldLeft(LAMBDA w, x : [out |-> IF x.lo > w.next THEN Append(w.out, R(w.next, x.lo - 1)) ELSE w.out,
                                      next |-> x.hi + 1],
                       [out |-> <<>>, next |-> 0], NormalizeRanges(ranges))
  IN IF walk.next <= MaxRune THEN Append(walk.out, R(walk.next, MaxRune)) ELSE walk.out

---------------------------------------------------------------------------
(* The trees.                                                              *)

Alt(alts)       == [is |-> "alt", alts |-> alts]
Sequ(items)     == [is |-> "seq", items |-> items]
Char(r)         == [is |-> "char", rune |-> r]
Never           == [is |-> "never"]
Dot             == [is |-> "dot"]
Boundary(kind)    == [is |-> "assert", kind |-> kind]
SetOf(rs, ps, neg) == [is |-> "set", ranges |-> NormalizeRanges(rs), props |-> ps, negate |-> neg]
Group(c, n)     == [is |-> "group", capture |-> c, node |-> n]
Look(behind, neg, n) == [is |-> "look", behind |-> behind, negate |-> neg, node |-> n]
Ref(index, name) == [is |-> "ref", index |-> index, name |-> name]
Repeat(n, q, caps) == [is |-> "repeat", node |-> n, min |-> q.min, max |-> q.max, lazy |-> q.lazy, caps |-> caps]
Unbounded == -1

Literal(c) == IF Code[c] \in Surrogates THEN Never ELSE Char(Code[c])
LiteralRune(r) == IF r \in Surrogates THEN Never ELSE Char(r)

Has(s, r) == (In(s.ranges, r) \/ \E p \in Range(s.props) : In(Tables[p.name], r) # p.neg) # s.negate

---------------------------------------------------------------------------
(* The parser.  g is the pattern, its mode, and what the scan before it     *)
(* found; a place in it is [at, caps, names], at = 0 after an error.        *)

Peek(g, i) == IF i \in DOMAIN g.src THEN g.src[i] ELSE "end"

\* Counts the capturing groups, which decide what a \1 and a \k mean.
Prescan(src) ==
  FoldLeft(LAMBDA w, i :
      LET c == src[i]
          at(k) == IF i + k <= Len(src) THEN src[i + k] ELSE "end"
          named == at(1) = "?" /\ at(2) = "<" /\ at(3) \notin {"=", "!", "end"}
      IN CASE w.skip -> [w EXCEPT !.skip = FALSE]
           [] ~w.skip /\ c = "\\" -> [w EXCEPT !.skip = TRUE]
           [] ~w.skip /\ c # "\\" /\ w.class -> [w EXCEPT !.class = c # "]"]
           [] ~w.skip /\ c = "[" /\ ~w.class -> [w EXCEPT !.class = TRUE]
           [] ~w.skip /\ c = "(" /\ ~w.class ->
                [w EXCEPT !.groups = @ + (IF at(1) # "?" \/ named THEN 1 ELSE 0), !.named = @ \/ named]
           [] OTHER -> w,
    [skip |-> FALSE, class |-> FALSE, groups |-> 0, named |-> FALSE], [i \in DOMAIN src |-> i])

Context(src, unicode) ==
  LET s == Prescan(src) IN [src |-> src, unicode |-> unicode, groups |-> s.groups, named |-> s.named]

Failed(p) == p.at = 0
To(p, i) == [p EXCEPT !.at = i]

\* The end of the run of characters in S that starts at i.
RunEnd(g, i, S) == CHOOSE e \in i..Len(g.src) + 1 : Peek(g, e) \notin S /\ \A j \in i..e - 1 : Peek(g, j) \in S
Number(g, i, e) ==
  LET v == FoldLeft(LAMBDA n, c : 10 * n + Code[c] - 48, 0, SubSeq(g.src, i, e - 1))
  IN IF v > MaxCount THEN MaxCount ELSE v

NoBraces == [ok |-> FALSE]
\* {n}, {n,} or {n,m} at i.
Braces(g, i) ==
  LET lo == RunEnd(g, i + 1, Digit)
      comma == Peek(g, lo) = ","
      hi == IF comma THEN RunEnd(g, lo + 1, Digit) ELSE lo
      hasHi == comma /\ hi > lo + 1
  IN IF lo = i + 1 \/ Peek(g, hi) # "}" THEN NoBraces
     ELSE LET min == Number(g, i + 1, lo)
          IN [ok |-> TRUE, min |-> min, next |-> hi + 1,
              max |-> IF ~comma THEN min ELSE IF ~hasHi THEN Unbounded ELSE Number(g, lo + 1, hi)]

\* The quantifier at i, if there is one: how often, and what follows it.
Quantifier(g, i) ==
  LET c == Peek(g, i)
      b == Braces(g, i)
      q(min, max, next) == [found |-> TRUE, min |-> min, max |-> max, lazy |-> Peek(g, next) = "?",
                            next |-> IF Peek(g, next) = "?" THEN next + 1 ELSE next]
      none(next) == [found |-> FALSE, next |-> next]
  IN CASE c = "*" -> q(0, Unbounded, i + 1)
       [] c = "+" -> q(1, Unbounded, i + 1)
       [] c = "?" -> q(0, 1, i + 1)
       [] c = "{" -> IF ~b.ok THEN none(IF g.unicode THEN 0 ELSE i)
                     ELSE IF b.max # Unbounded /\ b.max < b.min THEN none(0)
                     ELSE q(b.min, b.max, b.next)
       [] OTHER -> none(i)

---------------------------------------------------------------------------
(* Escapes.  A rune read is [at, rune].                                    *)

At(i, r) == [at |-> i, rune |-> r]
HexValue(c) == IF c \in Digit THEN Code[c] - 48 ELSE Code[c] - 87
Hex == Digit \cup {c \in DOMAIN Code : Code[c] \in 97..102}

\* n hexadecimal digits at i; at = 0 when they are not there.
HexDigits(g, i, n) ==
  IF \A k \in i..i + n - 1 : Peek(g, k) \in Hex
  THEN At(i + n, FoldLeft(LAMBDA v, c : 16 * v + HexValue(c), 0, SubSeq(g.src, i, i + n - 1)))
  ELSE At(0, 0)

LegacyOctal(g, i) ==
  LET value(n) == FoldLeft(LAMBDA v, c : 8 * v + Code[c] - 48, 0, SubSeq(g.src, i, i + n - 1))
      fits == {n \in 1..3 : (\A k \in i..i + n - 1 : Peek(g, k) \in Digit /\ Code[Peek(g, k)] <= 55) /\ value(n) <= 255}
      n == CHOOSE n \in fits : \A m \in fits : m <= n
  IN IF fits = {} THEN At(i + 1, Code[g.src[i]]) ELSE At(i + n, value(n))

Control == [f |-> 12, n |-> 10, r |-> 13, t |-> 9, v |-> 11]

\* The character of an escape whose letter is at i.
CharEscape(g, i, inClass) ==
  LET c == g.src[i]
      next == Peek(g, i + 1)
      strict(other) == IF g.unicode THEN At(0, 0) ELSE other
      hex(n) == HexDigits(g, i + 1, n)
      closing == RunEnd(g, i + 2, Hex)
  IN CASE c \in DOMAIN Control -> At(i + 1, Control[c])
       [] c = "c" -> IF next \in Letter \/ (inClass /\ ~g.unicode /\ next \in Digit) THEN At(i + 2, Code[next] % 32)
                     ELSE strict(At(i, Code["\\"]))
       [] c = "0" -> IF next \notin Digit THEN At(i + 1, 0) ELSE strict(LegacyOctal(g, i))
       [] c = "x" -> IF hex(2).at # 0 THEN hex(2) ELSE strict(At(i + 1, Code["x"]))
       [] c = "u" ->
            IF g.unicode /\ next = "{"
            THEN IF closing = i + 2 \/ Peek(g, closing) # "}" \/ HexDigits(g, i + 2, closing - i - 2).rune > MaxRune THEN At(0, 0)
                 ELSE At(closing + 1, HexDigits(g, i + 2, closing - i - 2).rune)
            ELSE IF hex(4).at # 0 THEN hex(4) ELSE strict(At(i + 1, Code["u"]))
       [] OTHER -> IF ~g.unicode \/ c \in SyntaxChar \/ (inClass /\ c = "-") THEN At(i + 1, Code[c]) ELSE At(0, 0)

Sets == [d |-> jsDigitRanges, D |-> ComplementRanges(jsDigitRanges), w |-> jsWordRanges, W |-> ComplementRanges(jsWordRanges),
         s |-> jsSpaceRanges, S |-> ComplementRanges(jsSpaceRanges)]

\* \p{..} with its letter at i.
Property(g, i) ==
  LET end == RunEnd(g, i + 2, DOMAIN Code \ {"}"})
      body == SubSeq(g.src, i + 2, end - 1)
  IN IF Peek(g, i + 1) # "{" \/ Peek(g, end) = "end" \/ body \notin DOMAIN Tables THEN [at |-> 0]
     ELSE [at |-> end + 1, prop |-> [name |-> body, neg |-> g.src[i] = "P"]]

\* A term is [at, caps, names, node, kind].
Term(p, i, n, kind) == [at |-> i, caps |-> p.caps, names |-> p.names, node |-> n, kind |-> kind]
NoTerm(p) == Term(p, 0, Never, "atom")

Escape(g, p) ==
  LET i == p.at + 1
      c == Peek(g, i)
      pr == Property(g, i)
      digits == RunEnd(g, i, Digit)
      n == Number(g, i, digits)
      close == RunEnd(g, i + 1, DOMAIN Code \ {">"})
      r == CharEscape(g, i, FALSE)
  IN CASE c = "end" -> NoTerm(p)
       [] c \in {"b", "B"} -> Term(p, i + 1, Boundary(c), "assertion")
       [] c \in {"p", "P"} ->
            IF ~g.unicode THEN Term(p, i + 1, Literal(c), "atom")
            ELSE IF pr.at = 0 THEN NoTerm(p) ELSE Term(p, pr.at, SetOf(<<>>, <<pr.prop>>, FALSE), "atom")
       [] c \in Digit \ {"0"} ->
            IF n <= g.groups THEN Term(p, digits, Ref(n, <<>>), "atom")
            ELSE IF g.unicode THEN NoTerm(p)
            ELSE LET o == LegacyOctal(g, i) IN Term(p, o.at, LiteralRune(o.rune), "atom")
       [] c = "k" /\ (g.unicode \/ g.named) ->
            IF Peek(g, i + 1) # "<" \/ Peek(g, close) = "end" THEN NoTerm(p)
            ELSE Term(p, close + 1, Ref(0, SubSeq(g.src, i + 2, close - 1)), "atom")
       [] c \in DOMAIN Sets -> Term(p, i + 1, SetOf(Sets[c], <<>>, FALSE), "atom")
       [] OTHER -> IF r.at = 0 THEN NoTerm(p) ELSE Term(p, r.at, LiteralRune(r.rune), "atom")

---------------------------------------------------------------------------
(* Classes.  A member is [at, rune] or a set of them, [at, ranges, props].  *)

IsSet(m) == "ranges" \in DOMAIN m
ClassAtom(g, i) ==
  LET c == Peek(g, i + 1)
  IN IF g.src[i] # "\\" THEN At(i + 1, Code[g.src[i]])
     ELSE CASE c = "end" -> At(0, 0)
            [] c = "b" -> At(i + 2, 8)
            [] c = "-" /\ g.unicode -> At(i + 2, Code["-"])
            [] c \in {"p", "P"} /\ g.unicode ->
                 LET pr == Property(g, i + 1)
                 IN IF pr.at = 0 THEN At(0, 0) ELSE [at |-> pr.at, ranges |-> <<>>, props |-> <<pr.prop>>]
            [] c \in Digit \ {"0"} -> IF g.unicode THEN At(0, 0) ELSE LegacyOctal(g, i + 1)
            [] c = "k" /\ g.unicode -> At(0, 0)
            [] c \in DOMAIN Sets -> [at |-> i + 2, ranges |-> Sets[c], props |-> <<>>]
            [] OTHER -> CharEscape(g, i + 1, TRUE)

\* What a member by itself adds; half of a pair of code units can match nothing.
Ranges(g, m) ==
  IF IsSet(m) THEN m.ranges
  ELSE IF ~g.unicode /\ m.rune >= Astral THEN <<>> ELSE <<R(m.rune, m.rune)>>

single(g, lo, set) ==
  [set EXCEPT !.at = lo.at, !.ranges = @ \o Ranges(g, lo), !.props = @ \o (IF IsSet(lo) THEN lo.props ELSE <<>>)]

span(g, lo, hi, set) ==
  LET sets == IsSet(lo) \/ IsSet(hi)
  IN IF hi.at = 0 \/ (sets /\ g.unicode) \/ (~sets /\ hi.rune < lo.rune) THEN [set EXCEPT !.at = 0]
     ELSE [set EXCEPT !.at = hi.at, !.ranges = @ \o IF sets THEN Ranges(g, lo) \o Ranges(g, hi) \o <<R(Code["-"], Code["-"])>>
                                                   ELSE <<R(lo.rune, hi.rune)>>]

\* A member by itself, or with a "-" and another one after it.
member(g, lo, set) ==
  IF lo.at = 0 THEN [set EXCEPT !.at = 0]
  ELSE IF Peek(g, lo.at) = "-" /\ Peek(g, lo.at + 1) \notin {"]", "end"} THEN span(g, lo, ClassAtom(g, lo.at + 1), set)
  ELSE single(g, lo, set)

RECURSIVE members(_, _, _), onward(_, _)
onward(g, set) == IF set.at = 0 THEN set ELSE members(g, set.at, set)
members(g, i, set) ==
  CASE Peek(g, i) = "end" -> [set EXCEPT !.at = 0]
    [] Peek(g, i) = "]" -> [set EXCEPT !.at = i + 1]
    [] OTHER -> onward(g, member(g, ClassAtom(g, i), set))

Class(g, p) ==
  LET negate == Peek(g, p.at + 1) = "^"
      closed(m) == Term(p, m.at, SetOf(m.ranges, m.props, negate), "atom")
  IN closed(members(g, p.at + (IF negate THEN 2 ELSE 1), [at |-> 0, ranges |-> <<>>, props |-> <<>>]))

---------------------------------------------------------------------------
(* Groups, terms, alternatives.                                            *)

\* What a group opens with: how to wrap its tree, and where its body starts.
Opening(g, p) ==
  LET at(k) == Peek(g, p.at + k)
      close == RunEnd(g, p.at + 3, Letter \cup {"_", "$"} \cup Digit)
      name == SubSeq(g.src, p.at + 3, close - 1)
      opens(as, i, kind) == [as |-> as, neg |-> FALSE, kind |-> kind, p |-> To(p, i)]
      captures(i, names) == [as |-> "group", neg |-> FALSE, kind |-> "atom", p |-> [at |-> i, caps |-> p.caps + 1, names |-> names]]
      index == [n \in {name} |-> p.caps + 1]
      with == [n \in DOMAIN p.names \cup {name} |-> IF n = name THEN index[n] ELSE p.names[n]]
  IN CASE at(1) # "?" -> captures(p.at + 1, p.names)
       [] at(1) = "?" /\ at(2) \in {"=", "!"} -> [opens("ahead", p.at + 3, "lookahead") EXCEPT !.neg = at(2) = "!"]
       [] at(1) = "?" /\ at(2) = "<" /\ at(3) \in {"=", "!"} -> [opens("behind", p.at + 4, "assertion") EXCEPT !.neg = at(3) = "!"]
       [] at(1) = "?" /\ at(2) = ":" -> opens("plain", p.at + 3, "atom")
       [] at(1) = "?" /\ at(2) = "<" /\ at(3) \notin {"=", "!"} ->
            IF Peek(g, close) # ">" \/ name = <<>> \/ Head(name) \in Digit \/ name \in DOMAIN p.names THEN opens("plain", 0, "atom")
            ELSE captures(close + 1, with)
       [] OTHER -> opens("plain", 0, "atom")

RECURSIVE disjunction(_, _, _, _), alternative(_, _, _, _), group(_, _, _), atom(_, _, _)

\* A group is closed by the ")" its disjunction stops at.
Wrapped(o, n) ==
  CASE o.as \in {"ahead", "behind"} -> Look(o.as = "behind", o.neg, n)
    [] o.as = "plain" -> Group(0, n)
    [] o.as = "group" -> Group(o.p.caps, n)
group(g, p, depth) ==
  LET closed(o, inner) == IF Failed(inner) \/ Peek(g, inner.at) # ")" THEN NoTerm(p)
                          ELSE Term(inner, inner.at + 1, Wrapped(o, inner.node), o.kind)
      opened(o) == IF Failed(o.p) THEN NoTerm(p) ELSE closed(o, disjunction(g, o.p, depth + 1, <<>>))
  IN opened(Opening(g, p))

atom(g, p, depth) ==
  LET c == Peek(g, p.at)
  IN CASE c \in {"^", "$"} -> Term(p, p.at + 1, Boundary(c), "assertion")
       [] c = "." -> Term(p, p.at + 1, Dot, "atom")
       [] c \in {"*", "+", "?"} -> NoTerm(p)
       [] c = "{" -> IF Braces(g, p.at).ok \/ g.unicode THEN NoTerm(p) ELSE Term(p, p.at + 1, Literal(c), "atom")
       [] c \in {"}", "]"} -> IF g.unicode THEN NoTerm(p) ELSE Term(p, p.at + 1, Literal(c), "atom")
       [] c = "(" -> group(g, p, depth)
       [] c = "[" -> Class(g, p)
       [] c = "\\" -> Escape(g, p)
       [] OTHER -> Term(p, p.at + 1, Literal(c), "atom")

\* The terms up to a "|", a ")" or the end, each with its quantifier.
Quantified(p, t, q) == IF q.found THEN Repeat(t.node, q, (p.caps + 1)..t.caps) ELSE t.node
alternative(g, p, depth, items) ==
  LET halved == IF ~g.unicode /\ Code[g.src[p.at]] >= Astral THEN <<Never>> ELSE <<>>
      refused(t, q) == q.next = 0 \/ (q.found /\ (t.kind = "assertion" \/ (t.kind = "lookahead" /\ g.unicode)))
      goOn(t, q) == IF refused(t, q) THEN NoTerm(p)
                    ELSE alternative(g, [at |-> q.next, caps |-> t.caps, names |-> t.names], depth,
                                     items \o halved \o <<Quantified(p, t, q)>>)
      after(t) == IF Failed(t) THEN NoTerm(p) ELSE goOn(t, Quantifier(g, t.at))
  IN IF Peek(g, p.at) \in {"|", ")", "end"} THEN Term(p, p.at, Sequ(items), "atom") ELSE after(atom(g, p, depth))

disjunction(g, p, depth, alts) ==
  LET ended(s, all) == Term(s, s.at, IF Len(all) = 1 THEN all[1] ELSE Alt(all), "atom")
      after(s, all) ==
        IF Failed(s) THEN NoTerm(p)
        ELSE IF Peek(g, s.at) = "|" THEN disjunction(g, [at |-> s.at + 1, caps |-> s.caps, names |-> s.names], depth, all)
        ELSE ended(s, all)
      with(s) == after(s, Append(alts, s.node))
  IN IF depth > MaxNesting THEN NoTerm(p) ELSE with(alternative(g, p, depth, <<>>))

\* The nodes of a tree.
RECURSIVE Nodes(_)
Nodes(n) ==
  {n} \cup (CASE n.is = "alt" -> UNION {Nodes(a) : a \in Range(n.alts)}
              [] n.is = "seq" -> UNION {Nodes(a) : a \in Range(n.items)}
              [] n.is \in {"group", "look", "repeat"} -> Nodes(n.node)
              [] OTHER -> {})

\* Every name a \k refers to must be a group's.
Resolved(n, names) == \A m \in Nodes(n) : m.is = "ref" /\ m.name # <<>> => m.name \in DOMAIN names

Start == [at |-> 1, caps |-> 0, names |-> <<>>]
Parse(src, unicode) ==
  LET read(t) == [ok |-> ~Failed(t) /\ t.at = Len(src) + 1 /\ Resolved(t.node, t.names),
                  root |-> t.node, ncap |-> t.caps, names |-> t.names]
  IN read(disjunction(Context(src, unicode), Start, 0, <<>>))

---------------------------------------------------------------------------
(* RE2.  A written expression is a sequence of tokens: a bracket, an        *)
(* assertion, a set of runes, or how often to repeat.                       *)

Mark(m) == [is |-> m]
NoRE2 == <<Mark("none")>>
Open(capturing) == <<Mark(IF capturing THEN "(" ELSE "(?:")>>
Counts(n) == <<[is |-> "times", min |-> n.min, max |-> n.max, lazy |-> n.lazy]>>
LineEnds == <<R(10, 10), R(13, 13)>>

\* A repeat, a group, and an alternation inside a sequence are bracketed.
RECURSIVE WriteRE2(_)
WriteRE2(n) ==
  LET all(parts) == IF NoRE2 \in Range(parts) THEN NoRE2 ELSE FlattenSeq(parts)
      inside(w, capturing, after) == IF w = NoRE2 THEN NoRE2 ELSE Open(capturing) \o w \o <<Mark(")")>> \o after
      written(ns) == [i \in DOMAIN ns |-> WriteRE2(ns[i])]
  IN CASE n.is = "alt" -> all([i \in DOMAIN n.alts |-> LET w == WriteRE2(n.alts[i])
                                                       IN IF w = NoRE2 \/ i = 1 THEN w ELSE <<Mark("|")>> \o w])
       [] n.is = "seq" -> all([i \in DOMAIN n.items |-> LET w == WriteRE2(n.items[i])
                                                        IN IF n.items[i].is = "alt" THEN inside(w, FALSE, <<>>) ELSE w])
       [] n.is = "char" -> <<SetOf(<<R(n.rune, n.rune)>>, <<>>, FALSE)>>
       [] n.is = "never" -> <<SetOf(<<>>, <<>>, FALSE)>>
       [] n.is = "dot" -> <<SetOf(LineEnds, <<>>, TRUE)>>
       [] n.is = "assert" -> <<n>>
       [] n.is = "set" -> IF \E p \in Range(n.props) : p.name \notin RE2Knows THEN NoRE2 ELSE <<n>>
       [] n.is = "group" -> inside(WriteRE2(n.node), n.capture > 0, <<>>)
       [] n.is = "repeat" -> IF n.min > MaxRepeat \/ n.max > MaxRepeat THEN NoRE2 ELSE inside(WriteRE2(n.node), FALSE, Counts(n))
       [] OTHER -> NoRE2

\* RE2's own reading of it: "|" binds least, a count the most.
RECURSIVE Branches(_, _, _), Items(_, _, _)
Items(ts, i, items) ==
  LET t == ts[i]
      inner == Branches(ts, i + 1, <<>>)
  IN IF i > Len(ts) \/ t.is \in {"|", ")"} THEN [at |-> i, node |-> Sequ(items)]
     ELSE IF t.is \in {"(", "(?:"} THEN Items(ts, inner.at + 1, Append(items, Group(IF t.is = "(" THEN 1 ELSE 0, inner.node)))
     ELSE IF t.is = "times" THEN Items(ts, i + 1, Append(Front(items), Repeat(Last(items), t, {})))
     ELSE Items(ts, i + 1, Append(items, t))
Branches(ts, i, alts) ==
  LET s == Items(ts, i, <<>>)
  IN IF s.at <= Len(ts) /\ ts[s.at].is = "|" THEN Branches(ts, s.at + 1, Append(alts, s.node))
     ELSE [at |-> s.at, node |-> Alt(Append(alts, s.node))]
ReadRE2(ts) == Branches(ts, 1, <<>>).node

---------------------------------------------------------------------------
(* The backtracking matcher.  A way to match ends in [at, caps], with caps  *)
(* the captures, None where there is none; the ways are in the order tried. *)

None == [from |-> -1, to |-> -1]
IsWord(in, i) == i \in DOMAIN in /\ In(jsWordRanges, in[i])

RECURSIVE Ways(_, _, _, _), repeated(_, _, _, _, _)

\* One more round: captures inside start anew, and once there are enough, a
\* round that consumes nothing does not count.
iterated(re, in, n, w, count) ==
  LET fresh == [w EXCEPT !.caps = [c \in DOMAIN w.caps |-> IF c \in n.caps THEN None ELSE w.caps[c]]]
      rounds == SelectSeq(Ways(re, in, n.node, fresh), LAMBDA v : ~(v.at = w.at /\ count >= n.min))
  IN FlattenSeq([j \in DOMAIN rounds |-> repeated(re, in, n, rounds[j], count + 1)])

repeated(re, in, n, w, count) ==
  CASE count < n.min -> iterated(re, in, n, w, count)
    [] count >= n.min /\ n.max # Unbounded /\ count >= n.max -> <<w>>
    [] OTHER -> IF n.lazy THEN <<w>> \o iterated(re, in, n, w, count) ELSE iterated(re, in, n, w, count) \o <<w>>

Ways(re, in, n, w) ==
  LET i == w.at
      next == IF i < Len(in) THEN in[i + 1] ELSE -1
      if(ok) == IF ok THEN <<w>> ELSE <<>>
      eat(ok) == IF i < Len(in) /\ ok THEN <<[w EXCEPT !.at = i + 1]>> ELSE <<>>
      found == IF ~n.behind THEN Ways(re, in, n.node, w)
               ELSE FlattenSeq([d \in 1..i + 1 |-> SelectSeq(Ways(re, in, n.node, [w EXCEPT !.at = i + 1 - d]), LAMBDA v : v.at = i)])
      cap == w.caps[IF n.name = <<>> THEN n.index ELSE re.names[n.name]]
      size == cap.to - cap.from
      inner == Ways(re, in, n.node, w)
  IN CASE n.is = "char" -> eat(next = n.rune)
       [] n.is = "set" -> eat(Has(n, next))
       [] n.is = "dot" -> eat(~In(LineEnds, next))
       [] n.is = "never" -> <<>>
       [] n.is = "assert" -> if(CASE n.kind = "^" -> i = 0
                                  [] n.kind = "$" -> i = Len(in)
                                  [] n.kind = "b" -> IsWord(in, i) # IsWord(in, i + 1)
                                  [] n.kind = "B" -> IsWord(in, i) = IsWord(in, i + 1))
       [] n.is = "seq" -> FoldLeft(LAMBDA ws, x : FlattenSeq([j \in DOMAIN ws |-> Ways(re, in, x, ws[j])]), <<w>>, n.items)
       [] n.is = "alt" -> FlattenSeq([a \in DOMAIN n.alts |-> Ways(re, in, n.alts[a], w)])
       [] n.is = "group" -> IF n.capture = 0 THEN inner
                            ELSE [j \in DOMAIN inner |-> [inner[j] EXCEPT !.caps[n.capture] = [from |-> i, to |-> inner[j].at]]]
       [] n.is = "look" -> IF n.negate THEN if(found = <<>>)
                           ELSE IF found = <<>> THEN <<>> ELSE <<[Head(found) EXCEPT !.at = i]>>
       [] n.is = "ref" -> IF cap = None THEN <<w>>
                          ELSE IF i + size <= Len(in) /\ SubSeq(in, i + 1, i + size) = SubSeq(in, cap.from + 1, cap.to)
                          THEN <<[w EXCEPT !.at = i + size]>> ELSE <<>>
       [] n.is = "repeat" -> repeated(re, in, n, w, 0)

MatchString(re, in) ==
  \E start \in 0..Len(in) : Ways(re, in, re.root, [at |-> start, caps |-> [c \in 1..re.ncap |-> None]]) # <<>>

---------------------------------------------------------------------------
(* The screen: one scan over the characters, with a stack of the groups     *)
(* that are open.  An atom is what a quantifier may follow.                 *)

LiteralAtom(c) == [typ |-> "literal", char |-> c, optional |-> FALSE]
ClassOf(body)  == [typ |-> "class", body |-> body, optional |-> FALSE]
Assertion      == [typ |-> "assertion", optional |-> FALSE]
Opened(zero, i) == [body |-> <<>>, inner |-> <<>>, alternation |-> FALSE, zeroWidth |-> zero, starts |-> <<i>>]

\* Whether a class can match c: a complement is taken to match everything.
RECURSIVE matches(_, _, _, _)
matches(body, i, c, hit) ==
  LET at(k) == IF k \in DOMAIN body THEN body[k] ELSE "end"
      escaped == at(i) = "\\"
      lo == IF escaped THEN at(i + 1) ELSE at(i)
      after == IF escaped THEN i + 2 ELSE i + 1
      dashed == at(after) = "-" /\ after < Len(body)
      hi == IF at(after + 1) = "\\" THEN at(after + 2) ELSE at(after + 1)
      next == IF ~dashed THEN after ELSE IF at(after + 1) = "\\" THEN after + 3 ELSE after + 2
      covers == IF dashed THEN {lo, hi, c} \subseteq DOMAIN Code /\ Code[c] \in Code[lo]..Code[hi] ELSE lo = c
  IN IF i > Len(body) THEN IF hit THEN "some" ELSE "none"
     ELSE IF escaped /\ lo \in {"S", "D", "W"} THEN "all"
     ELSE IF escaped /\ lo \in {"s", "d", "w"} THEN matches(body, i + 2, c, hit \/ (c \in DOMAIN Code /\ In(Sets[lo], Code[c])))
     ELSE matches(body, next, c, hit \/ covers)
ClassMatchesChar(body, c) ==
  IF body # <<>> /\ body[1] = "^" THEN matches(body, 2, c, FALSE) # "some" ELSE matches(body, 1, c, FALSE) # "none"

BranchesOverlap(branches) == \E i, j \in DOMAIN branches : i < j /\ branches[i] = branches[j]

GroupIsAmbiguous(g) ==
  LET first == g.body[1]
      delimited == ~g.alternation /\ g.body # <<>> /\ first.typ = "literal" /\ ~first.optional
      eats(a) == CASE a.typ = "literal" -> a.char = first.char
                   [] a.typ = "class" -> ClassMatchesChar(a.body, first.char)
                   [] OTHER -> TRUE
  IN \/ g.alternation /\ BranchesOverlap(g.branches)
     \/ g.inner # <<>> /\ (delimited => \E a \in Range(g.inner) : eats(a))

\* A class: its body and what follows it; 0 when it does not end.
RECURSIVE classEnd(_, _)
classEnd(src, i) ==
  IF i > Len(src) THEN 0 ELSE IF src[i] = "]" THEN i ELSE classEnd(src, IF src[i] = "\\" THEN i + 2 ELSE i + 1)

\* Where the body of a group that opens at i starts, and if it is an
\* assertion; 0 for a syntax the screen does not know.
OpensAt(g, i) ==
  LET at(k) == Peek(g, i + k)
      close == RunEnd(g, i + 3, DOMAIN Code \ {">"})
  IN CASE at(1) # "?" -> [at |-> i + 1, zero |-> FALSE]
       [] at(1) = "?" /\ at(2) = ":" -> [at |-> i + 3, zero |-> FALSE]
       [] at(1) = "?" /\ at(2) \in {"=", "!"} -> [at |-> i + 3, zero |-> TRUE]
       [] at(1) = "?" /\ at(2) = "<" /\ at(3) \in {"=", "!"} -> [at |-> i + 4, zero |-> TRUE]
       [] at(1) = "?" /\ at(2) = "<" /\ at(3) \notin {"=", "!"} ->
            [at |-> IF Peek(g, close) # ">" \/ close = i + 3 THEN 0 ELSE close + 1, zero |-> FALSE]
       [] OTHER -> [at |-> 0, zero |-> FALSE]

\* The scan is at i, stack holds the open groups under a frame for the whole
\* pattern, and has says whether the last atom may still be quantified.
RECURSIVE screen(_, _, _, _)
screen(g, i, stack, has) ==
  LET c == Peek(g, i)
      top == Last(stack)
      under == Front(stack)
      prev == Last(top.body)
      \* an atom, and on
      push(a, next) == screen(g, next, Append(under, [top EXCEPT !.body = Append(@, a)]), TRUE)
      \* a class
      first == i + 1 + (IF Peek(g, i + 1) = "^" THEN 1 ELSE 0)
      from == first + (IF Peek(g, first) = "]" THEN 1 ELSE 0)
      end == classEnd(g.src, from)
      o == OpensAt(g, i)
      \* the group that ")" closes
      ends == Append(Tail(top.starts), i + 1)
      branch(k) == SubSeq(g.src, top.starts[k], ends[k] - 2)
      closed == [typ |-> IF top.zeroWidth THEN "assertion" ELSE "group", optional |-> FALSE, body |-> top.body, inner |-> top.inner,
                 alternation |-> top.alternation, branches |-> [k \in DOMAIN ends |-> branch(k)]]
      parent == Last(under)
      \* a quantifier
      b == Braces(g, i)
      brace == c = "{"
      unbounded == c \in {"+", "*"} \/ (brace /\ b.max = Unbounded)
      optional == c \in {"*", "?"} \/ (brace /\ b.min = 0)
      marked == IF has /\ optional THEN [top EXCEPT !.body[Len(top.body)].optional = TRUE] ELSE top
      counted == IF has /\ unbounded THEN [marked EXCEPT !.inner = Append(@, Last(marked.body))] ELSE marked
  IN CASE c = "end" -> Len(stack) = 1
       [] c = "\\" -> LET e == Peek(g, i + 1)
                      IN push(IF e \in {"d", "w", "s", "b", "S", "D", "W", "p", "P"} THEN ClassOf(<<c, e>>) ELSE LiteralAtom(e), i + 2)
       [] c = "[" -> IF end = 0 THEN FALSE ELSE push(ClassOf(SubSeq(g.src, i + 1, end - 1)), end + 1)
       [] c = "(" -> IF o.at = 0 THEN FALSE ELSE screen(g, o.at, Append(stack, Opened(o.zero, o.at)), FALSE)
       [] c = ")" ->
            IF Len(stack) = 1 THEN FALSE
            ELSE screen(g, i + 1, Append(Front(under), [parent EXCEPT !.body = Append(@, closed),
                                                          !.inner = IF top.inner = <<>> THEN @ ELSE Append(@, closed)]), TRUE)
       [] c \in {"+", "*", "?"} \/ (brace /\ b.ok) ->
            IF unbounded /\ has /\ prev.typ = "group" /\ GroupIsAmbiguous(prev) THEN FALSE
            ELSE screen(g, IF brace THEN b.next ELSE i + 1, Append(under, counted), FALSE)
       [] c = "|" -> screen(g, i + 1, Append(under, [top EXCEPT !.alternation = TRUE, !.starts = Append(@, i + 1)]), FALSE)
       [] c \in {"^", "$"} -> push(Assertion, i + 1)
       [] c = "." -> push(ClassOf(<<"\\", "S">>), i + 1)
       [] OTHER -> push(LiteralAtom(c), i + 1)

IsSafePattern(src) ==
  Len(src) <= MaxPatternChars /\ screen([src |-> src, unicode |-> TRUE, groups |-> 0, named |-> FALSE], 1, <<Opened(FALSE, 1)>>, FALSE)

---------------------------------------------------------------------------
(* What they should mean.                                                  *)

\* A list of ranges, normalised, is sorted with gaps between, and means the
\* same runes but for the surrogates; its complement means the others.
RangesFaithful(ranges) ==
  LET n == NormalizeRanges(ranges)
  IN /\ \A i \in 1..Len(n) - 1 : n[i].hi + 1 < n[i + 1].lo
     /\ \A r \in 0..MaxRune : /\ In(n, r) <=> r \notin Surrogates /\ In(ranges, r)
                             /\ r \notin Surrogates => (In(ComplementRanges(ranges), r) <=> ~In(n, r))

\* The strings of JavaScript's grammar, read with the u flag: where a
\* disjunction, the rest of an alternative, and a term can be.
IsQuantifier(s) ==
  LET core == IF Len(s) > 1 /\ Last(s) = "?" THEN Front(s) ELSE s
      counts == SubSeq(core, 2, Len(core) - 1)
      value(ds) == FoldLeft(LAMBDA n, c : 10 * n + Code[c] - 48, 0, ds)
      number(ds) == ds # <<>> /\ Range(ds) \subseteq Digit
  IN \/ core \in {<<"*">>, <<"+">>, <<"?">>}
     \/ /\ Len(core) > 2 /\ core[1] = "{" /\ Last(core) = "}"
        /\ \/ number(counts)
           \/ \E k \in DOMAIN counts : LET lo == SubSeq(counts, 1, k - 1)
                                         hi == SubSeq(counts, k + 1, Len(counts))
                                     IN counts[k] = "," /\ number(lo) /\ (hi = <<>> \/ (number(hi) /\ value(lo) <= value(hi)))

Cut(s, i) == [left |-> SubSeq(s, 1, i), right |-> SubSeq(s, i + 1, Len(s))]
RECURSIVE IsMembers(_)
IsMembers(s) ==
  \/ s = <<>>
  \/ s[1] \notin {"\\", "]"} /\ IsMembers(Tail(s))
  \/ Len(s) > 1 /\ s[1] = "\\" /\ s[2] \in SyntaxChar \cup DOMAIN Sets \cup {"0", "b"} /\ IsMembers(Cut(s, 2).right)

RECURSIVE IsDisjunction(_, _), IsAlternative(_, _), IsAtom(_, _)
IsDisjunction(s, groups) ==
  IsAlternative(s, groups) \/ \E i \in DOMAIN s : s[i] = "|" /\ IsAlternative(SubSeq(s, 1, i - 1), groups) /\ IsDisjunction(Cut(s, i).right, groups)
IsAssertion(s, groups) ==
  \/ s \in {<<"^">>, <<"$">>, <<"\\", "b">>, <<"\\", "B">>}
  \/ \E o \in {<<"(", "?", "=">>, <<"(", "?", "!">>, <<"(", "?", "<", "=">>, <<"(", "?", "<", "!">>} :
       IsPrefix(o, s) /\ Len(s) > Len(o) /\ Last(s) = ")" /\ IsDisjunction(SubSeq(s, Len(o) + 1, Len(s) - 1), groups)
IsAtom(s, groups) ==
  \/ Len(s) = 1 /\ (s[1] = "." \/ s[1] \notin SyntaxChar)
  \/ Len(s) = 2 /\ s[1] = "\\" /\ s[2] \in SyntaxChar \cup DOMAIN Sets \cup {"0"}
  \/ Len(s) = 2 /\ s[1] = "\\" /\ s[2] \in Digit \ {"0"} /\ Code[s[2]] - 48 <= groups
  \/ Len(s) > 1 /\ s[1] = "[" /\ Last(s) = "]" /\ IsMembers(SubSeq(s, 2, Len(s) - 1))
  \/ \E o \in {<<"(">>, <<"(", "?", ":">>} :
       IsPrefix(o, s) /\ Len(s) > Len(o) /\ Last(s) = ")" /\ IsDisjunction(SubSeq(s, Len(o) + 1, Len(s) - 1), groups)
IsAlternative(s, groups) ==
  \/ s = <<>>
  \/ \E i \in DOMAIN s :
       /\ \/ IsAssertion(Cut(s, i).left, groups) \/ IsAtom(Cut(s, i).left, groups)
          \/ \E j \in 1..i - 1 : IsQuantifier(SubSeq(s, j + 1, i)) /\ IsAtom(SubSeq(s, 1, j), groups)
       /\ IsAlternative(Cut(s, i).right, groups)

\* Where the matches of a tree that start at i can end: its language.
RECURSIVE Ends(_, _, _)
Ends(n, in, i) ==
  LET next == IF i < Len(in) THEN in[i + 1] ELSE -1
      round(S) == UNION {Ends(n.node, in, j) : j \in S}
      rounds[k \in 0..n.min] == IF k = 0 THEN {i} ELSE round(rounds[k - 1])
      more == IF n.max = Unbounded THEN Len(in) + 1 ELSE n.max - n.min
      upTo[k \in 0..more] == IF k = 0 THEN rounds[n.min] ELSE LET S == upTo[k - 1] IN S \cup round(S)
  IN CASE n.is \in {"char", "set", "dot", "never"} ->
            IF i < Len(in) /\ (CASE n.is = "char" -> next = n.rune [] n.is = "set" -> Has(n, next)
                                 [] n.is = "dot" -> next \notin {10, 13} [] n.is = "never" -> FALSE)
            THEN {i + 1} ELSE {}
       [] n.is = "assert" -> IF (CASE n.kind = "^" -> i = 0 [] n.kind = "$" -> i = Len(in)
                                   [] OTHER -> (IsWord(in, i) <=> IsWord(in, i + 1)) <=> n.kind = "B") THEN {i} ELSE {}
       [] n.is = "seq" -> FoldLeft(LAMBDA S, x : UNION {Ends(x, in, j) : j \in S}, {i}, n.items)
       [] n.is = "alt" -> UNION {Ends(a, in, i) : a \in Range(n.alts)}
       [] n.is = "group" -> Ends(n.node, in, i)
       [] n.is = "look" -> LET holds == IF n.behind THEN \E j \in 0..i : i \in Ends(n.node, in, j) ELSE Ends(n.node, in, i) # {}
                           IN IF holds # n.negate THEN {i} ELSE {}
       [] n.is = "repeat" -> upTo[more]

Accepts(n, in) == \E i \in 0..Len(in) : Ends(n, in, i) # {}

\* What the screen is for, on the tree: an unbounded repeat of a group that
\* two ways through it can share.  Deep: inside a group of its own.
Unbound(n) == n.is = "repeat" /\ n.max = Unbounded
Atomic(n) == IF n.is = "repeat" THEN n.node ELSE n
Branch(n) == IF n.is = "alt" THEN n.alts ELSE <<n>>
RECURSIVE Inner(_)
Inner(n) ==
  UNION {UNION {(IF Unbound(x) THEN {x.node} ELSE {})
                \cup (IF Atomic(x).is \in {"group", "look"} /\ Inner(Atomic(x).node) # {} THEN {Atomic(x)} ELSE {}) : x \in Range(b.items)}
         : b \in Range(Branch(n))}
\* Captures are not a difference between two alternatives' texts.
RECURSIVE Uncaptured(_)
Uncaptured(n) ==
  CASE n.is = "alt" -> Alt([i \in DOMAIN n.alts |-> Uncaptured(n.alts[i])])
    [] n.is = "seq" -> Sequ([i \in DOMAIN n.items |-> Uncaptured(n.items[i])])
    [] n.is = "group" -> [n EXCEPT !.node = Uncaptured(n.node), !.capture = IF n.capture > 0 THEN 1 ELSE 0]
    [] n.is = "look" -> [n EXCEPT !.node = Uncaptured(n.node)]
    [] n.is = "repeat" -> [n EXCEPT !.node = Uncaptured(n.node), !.caps = {}]
    [] OTHER -> n

Ambiguous(n) ==
  LET first == n.items[1]
      atom1 == Atomic(first)
      delimited == n.is = "seq" /\ n.items # <<>> /\ atom1.is = "char" /\ (first.is = "repeat" => first.min > 0)
      eats(x) == CASE x.is = "char" -> x.rune = atom1.rune
                   [] x.is = "set" -> Has(x, atom1.rune)
                   [] OTHER -> TRUE
  IN \/ \E i, j \in DOMAIN Branch(n) : i < j /\ Uncaptured(Branch(n)[i]) = Uncaptured(Branch(n)[j])
     \/ Inner(n) # {} /\ (delimited => \E x \in Inner(n) : eats(x))

Explosive(root) == \E n \in Nodes(root) : Unbound(n) /\ n.node.is = "group" /\ Ambiguous(n.node.node)

\* The screen takes a "]" that comes first in a class for a member, which
\* JavaScript does not, and a reference for the letters it is written with.
ScreenReads(src) == \A i \in DOMAIN src : ~(src[i] = "[" /\ \E k \in {1, 2} : i + k <= Len(src) /\ src[i + k] = "]" /\ src[i + 1] \in {"]", "^"})
HasRef(n) == \E m \in Nodes(n) : m.is = "ref"

\* The groups that capture, by the text: not the "(" of an assertion or in a class.
Captures(src) ==
  {i \in DOMAIN src : /\ src[i] = "(" /\ ~(i < Len(src) /\ src[i + 1] = "?")
                      /\ \A j \in 1..i - 1 : src[j] = "[" => \E k \in j + 1..i - 1 : src[k] = "]"}

\* The parser accepts JavaScript's grammar; what it accepts with the u flag
\* it reads the same without; every engine accepts the tree's language; and
\* the screen refuses the patterns it is for, and no others.
RunFaithful(re, inputs) == HasRef(re.root) \/ \A in \in inputs : MatchString(re, in) <=> Accepts(re.root, in)
WrittenFaithful(re, w, inputs) == w # NoRE2 => \A in \in inputs : MatchString(re, in) <=> Accepts(ReadRE2(w), in)
ScreenFaithful(src, root) ==
  ~HasRef(root) /\ ScreenReads(src) => (IsSafePattern(src) <=> Len(src) <= MaxPatternChars /\ ~Explosive(root))
ParsedFaithful(src, re, loose, inputs) ==
  /\ re.ok <=> IsDisjunction(src, Cardinality(Captures(src)))
  /\ re.ok => /\ loose.ok /\ loose.root = re.root
              /\ RunFaithful(re, inputs) /\ WrittenFaithful(re, WriteRE2(re.root), inputs) /\ ScreenFaithful(src, re.root)
PatternFaithful(src, inputs) ==
  LET faithful(read) == ParsedFaithful(src, read[TRUE], read[FALSE], inputs) IN faithful([u \in BOOLEAN |-> Parse(src, u)])

\* A reference matches what its group matched: `^(x)\1$` the doubled strings
\* of x, whether the group is numbered or named.
EchoFaithful(body, inputs) ==
  LET half(in) == SubSeq(in, 1, Len(in) \div 2)
      doubled(in, whole) == in = half(in) \o half(in) /\ Accepts(whole.root, half(in))
      echoes(whole, re) == re.ok = whole.ok /\ (re.ok => \A in \in inputs : MatchString(re, in) <=> doubled(in, whole))
      faithful(res) == \A k \in {"numbered", "named"} : echoes(res.whole, res[k])
      closed == [whole |-> body \o <<")">>, numbered |-> body \o <<")", "\\", "1">>,
                 named |-> <<"?", "<", "n", ">">> \o body \o <<")", "\\", "k", "<", "n", ">">>]
  IN faithful([k \in DOMAIN closed |-> Parse(<<"^", "(">> \o closed[k] \o <<"$">>, TRUE)])

\* An escape stands for one rune, or is refused with the u flag (-1).
EscapeFaithful(e) ==
  LET faithful(re) == IF e.rune = -1 THEN ~re.ok ELSE re.ok /\ re.root = Sequ(<<LiteralRune(e.rune)>>)
  IN faithful(Parse(e.src, e.unicode))
=============================================================================
