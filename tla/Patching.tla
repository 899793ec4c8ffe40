------------------------------ MODULE Patching ------------------------------
(***************************************************************************)
(* Anchored edits and literal search over a stored document               *)
(* (internal/pagepatch).  A document is a sequence of characters, Newline *)
(* among them, each of one unit.                                          *)
(***************************************************************************)
EXTENDS Integers, Sequences, FiniteSets
LOCAL INSTANCE SequencesExt

CONSTANTS Newline,
          MaxEdits, MaxExpectedCount,   \* limits of one patch
          MaxResultBytes,               \* the largest document a patch may produce
          MaxMatches, MaxContextLines, MaxCustomContextChars

LOCAL Least(S) == CHOOSE m \in S : \A n \in S : m <= n
LOCAL Between(lo, n, hi) == IF n < lo THEN lo ELSE IF n > hi THEN hi ELSE n

\* The places where needle stands in text, and the first at or after from.
Places(text, needle) ==
  {i \in 1..Len(text) - Len(needle) + 1 : SubSeq(text, i, i + Len(needle) - 1) = needle}
IndexFrom(text, needle, from) ==
  LET here == {i \in Places(text, needle) : i >= from} IN IF here = {} THEN 0 ELSE Least(here)

\* strings.Index again and again, each time after the match before.
RECURSIVE Occurrences(_, _, _)
Occurrences(text, needle, from) ==
  LET i == IndexFrom(text, needle, from)
  IN IF i = 0 THEN <<>> ELSE <<i>> \o Occurrences(text, needle, i + Len(needle))

CountOccurrences(text, needle) == IF needle = <<>> THEN 0 ELSE Len(Occurrences(text, needle, 1))

RECURSIVE Replaced(_, _, _)
Replaced(text, find, replace) ==
  LET i == IndexFrom(text, find, 1)
  IN IF i = 0 THEN text
     ELSE SubSeq(text, 1, i - 1) \o replace
          \o Replaced(SubSeq(text, i + Len(find), Len(text)), find, replace)

lineOf(text, i) == 1 + Cardinality({j \in 1..i - 1 : text[j] = Newline})

---------------------------------------------------------------------------
(* ApplyEdits: a count of 0 means 1.                                       *)

ValidateEdits(edits) ==
  /\ Len(edits) \in 1..MaxEdits
  /\ \A i \in DOMAIN edits : edits[i].find # <<>> /\ edits[i].count \in 0..MaxExpectedCount

Refused(code, index) == [ok |-> FALSE, code |-> code, index |-> index]

RECURSIVE Edited(_, _, _, _)
Edited(html, edits, index, applied) ==
  IF index > Len(edits) THEN [ok |-> TRUE, html |-> html, applied |-> applied]
  ELSE LET e == edits[index]
           expected == IF e.count = 0 THEN 1 ELSE e.count
           found == CountOccurrences(html, e.find)
           grown == Len(html) + found * (Len(e.replace) - Len(e.find))
           line == lineOf(html, IndexFrom(html, e.find, 1))
       IN IF found # expected THEN Refused("patch_anchor_mismatch", index)
          ELSE IF grown > MaxResultBytes /\ grown > Len(html) THEN Refused("patch_result_too_large", index)
          ELSE LET next == Replaced(html, e.find, e.replace)
               IN Edited(next, edits, index + 1,
                         Append(applied, [count |-> found, line |-> line, delta |-> Len(next) - Len(html)]))

ApplyEdits(source, edits) ==
  IF ValidateEdits(edits) THEN Edited(source, edits, 1, <<>>) ELSE Refused("patch_edits_invalid", 0)

---------------------------------------------------------------------------
(* FindMatches with context lines: an excerpt to copy an anchor from.      *)

\* How far a walk goes: at most budget units and lines line ends, from
\* start in the direction of sign.
Walk(text, start, sign, budget, lines) ==
  LET n == IF sign < 0 THEN start - 1 ELSE Len(text) - start + 1
      ends(k) == Cardinality({j \in 1..k : text[IF sign < 0 THEN start - j ELSE start + j - 1] = Newline})
      fits == {k \in 0..Between(0, budget, n) : ends(k) <= lines}
  IN CHOOSE k \in fits : \A j \in fits : j <= k

\* What is left of the budget after the walk back goes to the walk forward.
multilineExcerpt(source, at, length, contextLines, contextChars) ==
  LET lines == Between(1, contextLines, MaxContextLines)
      asked == IF contextChars > 0 THEN Between(1, contextChars, MaxCustomContextChars) ELSE MaxCustomContextChars
      maxChars == IF asked < length THEN length ELSE asked
      back == Walk(source, at, -1, (maxChars - length) \div 2, lines)
      forth == Walk(source, at + length, 1, maxChars - length - back, lines)
  IN [from |-> at - back, to |-> at + length + forth - 1]

FindMatches(source, query, limit, contextLines, contextChars) ==
  LET all == Occurrences(source, query, 1)
      kept == Between(1, IF limit = 0 THEN MaxMatches ELSE limit, MaxMatches)
      shown == SubSeq(all, 1, IF Len(all) < kept THEN Len(all) ELSE kept)
  IN [total |-> Len(all),
      matches |-> [i \in DOMAIN shown |->
        [offset |-> shown[i], line |-> lineOf(source, shown[i]),
         excerpt |-> multilineExcerpt(source, shown[i], Len(query), contextLines, contextChars)]],
      omitted |-> Len(all) - Len(shown)]

---------------------------------------------------------------------------
(* What an edit means: the text is cut at the anchor, leftmost first and   *)
(* without overlap, and joined again with the replacement.                 *)

Disjoint(P, needle) == \A i, j \in P : i # j => i + Len(needle) <= j \/ j + Len(needle) <= i

\* The leftmost choice: every place left out overlaps an earlier one taken.
Cut(text, needle) ==
  CHOOSE P \in SUBSET Places(text, needle) :
    /\ Disjoint(P, needle)
    /\ \A i \in Places(text, needle) \ P : \E j \in P : j < i /\ i < j + Len(needle)

\* Character i of the result comes from the text or from a replacement.
Joined(text, P, needle, replace) ==
  FlattenSeq([i \in 1..Len(text) |->
    IF i \in P THEN replace
    ELSE IF \E j \in P : j < i /\ i < j + Len(needle) THEN <<>> ELSE <<text[i]>>])

\* Each edit changes exactly the places it was promised to change in the text
\* the edits before left, the report adds up, and no document grows past the
\* limit; a refusal is one of the first edit that does not hold.
EditsFaithful(source, edits) ==
  LET r == ApplyEdits(source, edits)
      text[i \in 0..Len(edits)] ==
        IF i = 0 THEN source
        ELSE Joined(text[i - 1], Cut(text[i - 1], edits[i].find), edits[i].find, edits[i].replace)
      expected(i) == IF edits[i].count = 0 THEN 1 ELSE edits[i].count
      lands(i) == Cardinality(Cut(text[i - 1], edits[i].find)) = expected(i)
      size(i) == Len(text[i]) <= MaxResultBytes \/ Len(text[i]) <= Len(text[i - 1])
  IN ValidateEdits(edits) =>
     /\ r.ok <=> \A i \in DOMAIN edits : lands(i) /\ size(i)
     /\ r.ok => /\ r.html = text[Len(edits)]
                /\ \A i \in DOMAIN edits : r.applied[i].delta = Len(text[i]) - Len(text[i - 1])
     /\ ~r.ok => /\ \A i \in 1..r.index - 1 : lands(i) /\ size(i)
                 /\ (r.code = "patch_anchor_mismatch") <=> ~lands(r.index)

\* The matches shown are the leftmost, and an excerpt holds its match, within
\* its budget of characters and of lines on either side.
SearchFaithful(source, query, limit, contextLines, contextChars) ==
  LET r == FindMatches(source, query, limit, contextLines, contextChars)
      lineEnds(a, b) == Cardinality({j \in a..b : source[j] = Newline})
      lines == Between(1, contextLines, MaxContextLines)
      budget == IF contextChars > 0 THEN Between(1, contextChars, MaxCustomContextChars) ELSE MaxCustomContextChars
  IN /\ r.total = Cardinality(Cut(source, query)) /\ r.omitted = r.total - Len(r.matches)
     /\ \A i \in DOMAIN r.matches :
          LET m == r.matches[i]
              x == m.excerpt
          IN /\ m.offset \in Cut(source, query)
             /\ Cardinality({p \in Cut(source, query) : p < m.offset}) = i - 1
             /\ 1 <= x.from /\ x.from <= m.offset
             /\ m.offset + Len(query) - 1 <= x.to /\ x.to <= Len(source)
             /\ x.to - x.from + 1 <= (IF budget < Len(query) THEN Len(query) ELSE budget)
             /\ lineEnds(x.from, m.offset - 1) <= lines
             /\ lineEnds(m.offset + Len(query), x.to) <= lines
=============================================================================
