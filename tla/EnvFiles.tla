------------------------------ MODULE EnvFiles ------------------------------
(***************************************************************************)
(* The environment file an installation keeps its settings and secrets in  *)
(* (internal/ops/envfile): how it is read, how a bootstrap merges its own  *)
(* values into an operator's file, and what `pages env` shows of it.  A    *)
(* text is a sequence of characters; a key is one character here.          *)
(***************************************************************************)
EXTENDS Integers, Sequences, SequencesExt, FiniteSetsExt

CONSTANTS Keys,      \* the characters that spell a key
          Newline,
          SecretKeys \* the keys whose name says they hold a secret

Blank == {" ", Newline}
Escaped == {"\"", "\\", "$", "tick"}

From(s, i) == SubSeq(s, i, Len(s))

---------------------------------------------------------------------------
(* Reading.                                                                *)

\* records: a newline inside quotes does not end a record, and a '#' outside
\* them comments out the rest of the line.
RecordsStart == [quoted |-> "", escaped |-> FALSE, comment |-> FALSE, record |-> <<>>, done |-> <<>>]
ReadChar(r, c) ==
  LET q == IF r.comment \/ c \notin {"'", "\""} THEN r.quoted
           ELSE IF r.quoted = "" THEN c ELSE IF r.quoted = c THEN "" ELSE r.quoted
      grown == Append(r.record, c)
  IN CASE r.escaped -> [r EXCEPT !.escaped = FALSE, !.record = grown]
       [] ~r.escaped /\ ~r.comment /\ c = "\\" /\ r.quoted # "'" -> [r EXCEPT !.escaped = TRUE, !.record = grown]
       [] OTHER ->
            IF c = Newline /\ q = "" THEN [RecordsStart EXCEPT !.done = Append(r.done, grown)]
            ELSE [r EXCEPT !.quoted = q, !.comment = @ \/ (q = "" /\ c = "#"), !.record = grown]

Records_NoComments(text) ==
  LET r == FoldLeft(LAMBDA s, c : [ReadChar(s, c) EXCEPT !.comment = FALSE], RecordsStart, text)
  IN IF r.record = <<>> THEN r.done ELSE Append(r.done, r.record)

Records(text) ==
  LET r == FoldLeft(ReadChar, RecordsStart, text)
  IN IF r.record = <<>> THEN r.done ELSE Append(r.done, r.record)

\* The key of an assignment record ("" when it is none) and what follows "=".
Lead(rec) == LET solid == {i \in DOMAIN rec : rec[i] \notin Blank} IN IF solid = {} THEN Len(rec) + 1 ELSE Min(solid)
KeyOf(rec) ==
  LET i == Lead(rec) IN IF i < Len(rec) /\ rec[i] \in Keys /\ rec[i + 1] = "=" THEN rec[i] ELSE ""
After(rec) == From(rec, Lead(rec) + 2)

\* word: one shell word, quoted and bare segments in a row, until a blank, a
\* ';' or a comment.
WordStart == [mode |-> "bare", escaped |-> FALSE, word |-> <<>>, over |-> FALSE]
WordChar(w, c) ==
  LET Grow(t) == [w EXCEPT !.word = @ \o t, !.escaped = FALSE]
  IN CASE w.over -> w
       [] ~w.over /\ w.escaped ->
            IF c = Newline THEN Grow(<<>>)
            ELSE IF w.mode = "bare" \/ c \in Escaped THEN Grow(<<c>>) ELSE Grow(<<"\\", c>>)
       [] OTHER ->
            IF c = "\\" /\ w.mode # "'" THEN [w EXCEPT !.escaped = TRUE]
            ELSE IF w.mode = "bare" /\ c \in {"'", "\""} THEN [w EXCEPT !.mode = c]
            ELSE IF w.mode = c THEN [w EXCEPT !.mode = "bare"]
            ELSE IF w.mode = "bare" /\ (c \in Blank \cup {";"} \/ (c = "#" /\ w.word = <<>>)) THEN [w EXCEPT !.over = TRUE]
            ELSE Grow(<<c>>)
Word(s) ==
  LET w == FoldLeft(WordChar, WordStart, s)
  IN IF w.escaped /\ w.mode = "\"" THEN Append(w.word, "\\") ELSE w.word

\* The assignments of a text; the last one of a key counts.
Parse(text) ==
  LET recs == SelectSeq(Records(text), LAMBDA r : KeyOf(r) # "")
  IN [i \in DOMAIN recs |-> [key |-> KeyOf(recs[i]), value |-> Word(After(recs[i]))]]
Get(entries, k) ==
  LET at == {i \in DOMAIN entries : entries[i].key = k} IN IF at = {} THEN <<>> ELSE <<entries[Max(at)].value>>

---------------------------------------------------------------------------
(* Merging.  An update is a [key, value]; the values are single lines.     *)

Quote(value) == <<"\"">> \o FlattenSeq([i \in DOMAIN value |-> IF value[i] \in Escaped THEN <<"\\", value[i]>> ELSE <<value[i]>>]) \o <<"\"">>

Line(u) == <<u.key, "=">> \o Quote(u.value) \o <<Newline>>
Updated(updates) == {updates[i].key : i \in DOMAIN updates}
UpdateOf(updates, k) == CHOOSE u \in {updates[i] : i \in DOMAIN updates} : u.key = k

\* bash -n: every quote is closed; a '#' is a comment where a word would start.
ShellChar(s, c) ==
  CASE s.escaped -> [s EXCEPT !.escaped = FALSE, !.last = "x"]
    [] ~s.escaped /\ ~s.comment /\ c = "\\" /\ s.quoted # "'" -> [s EXCEPT !.escaped = TRUE]
    [] OTHER ->
         [quoted |-> IF s.comment \/ c \notin {"'", "\""} THEN s.quoted ELSE IF s.quoted = "" THEN c ELSE IF s.quoted = c THEN "" ELSE s.quoted,
          escaped |-> FALSE, last |-> c,
          comment |-> IF c = Newline THEN FALSE ELSE s.comment \/ (c = "#" /\ s.quoted = "" /\ s.last \in Blank \cup {";"})]
ShellEnd(text) == FoldLeft(ShellChar, [quoted |-> "", escaped |-> FALSE, comment |-> FALSE, last |-> Newline], text)
ValidShell(text) == ShellEnd(text).quoted = ""

Terminated(text) == IF text = <<>> \/ Last(text) = Newline THEN text ELSE Append(text, Newline)

Merged(original, updates) ==
  LET recs == Records(original)
      placed == {KeyOf(recs[i]) : i \in DOMAIN recs}
      kept == FlattenSeq([i \in DOMAIN recs |-> IF KeyOf(recs[i]) \in Updated(updates) THEN Line(UpdateOf(updates, KeyOf(recs[i]))) ELSE recs[i]])
      new == SelectSeq(updates, LAMBDA u : u.key \notin placed)
  IN Terminated(kept) \o FlattenSeq([i \in DOMAIN new |-> Line(new[i])])

\* <<>> when the result is refused, and the file is left as it was.
Merge(original, updates) ==
  LET result == Merged(original, updates) IN IF ValidShell(result) THEN <<result>> ELSE <<>>

---------------------------------------------------------------------------
(* Showing: `pages env`, line by line.                                     *)

Redacted == "[REDACTED]"
Lines(text) ==
  LET cuts == SetToSortSeq({0} \cup {i \in DOMAIN text : text[i] = Newline}, <)
      all == [i \in DOMAIN cuts |-> SubSeq(text, cuts[i] + 1, IF i = Len(cuts) THEN Len(text) ELSE cuts[i + 1] - 1)]
  IN IF Last(all) = <<>> THEN Front(all) ELSE all

\* "//user:password@" at the leftmost place, as long as it can be: through the
\* last '@' before a '/' or a blank; <<0, 0>> when there is none.
Userinfo(line) ==
  LET places == {<<i, j>> \in (DOMAIN line) \X (DOMAIN line) :
                   /\ j > i + 2 /\ line[i] = "/" /\ line[i + 1] = "/" /\ line[j] = "@"
                   /\ \A k \in i + 2..j - 1 : line[k] \notin Blank \cup {"/"}
                   /\ \E k \in i + 2..j - 1 : line[k] = ":"}
  IN IF places = {} THEN <<0, 0>>
     ELSE CHOOSE p \in places : \A q \in places : p[1] < q[1] \/ (p[1] = q[1] /\ p[2] >= q[2])

RedactLine(line) ==
  LET eq == IF \E i \in DOMAIN line : line[i] = "=" THEN Min({i \in DOMAIN line : line[i] = "="}) ELSE 0
      at == Userinfo(line)
      colon == Min({i \in at[1]..at[2] : line[i] = ":"})
      comment == Lead(line) <= Len(line) /\ line[Lead(line)] = "#"
  IN CASE comment \/ eq = 0 -> <<>>
       [] ~comment /\ eq # 0 /\ (\E i \in 1..eq - 1 : line[i] \in SecretKeys) -> SubSeq(line, 1, eq) \o <<Redacted, Newline>>
       [] OTHER ->
            IF at = <<0, 0>> THEN Append(line, Newline)
            ELSE SubSeq(line, 1, colon) \o <<Redacted, "@">> \o From(line, at[2] + 1) \o <<Newline>>
Redact(text) ==
  LET lines == Lines(text) IN FlattenSeq([i \in DOMAIN lines |-> RedactLine(lines[i])])

---------------------------------------------------------------------------
(* What must hold.                                                         *)

\* A quoted value is read back exactly, whatever characters it holds.
QuoteExact(value) == Word(Quote(value) \o <<Newline>>) = value /\ ValidShell(Quote(value))

\* The shell and the code agree where a comment starts, and the text does not
\* end in the middle of an escape.
Plain(text) ==
  /\ FoldLeft(LAMBDA r, c : [code |-> ReadChar(r.code, c), shell |-> ShellChar(r.shell, c),
                             same |-> r.same /\ ReadChar(r.code, c).comment = ShellChar(r.shell, c).comment],
              [code |-> RecordsStart, shell |-> ShellEnd(<<>>), same |-> TRUE], text).same
  /\ ~ShellEnd(text).escaped

\* A merge changes the keys it was given and nothing else: they have their
\* values, every other key the one it had, and every other record its bytes.
Others(text, updates) == SelectSeq(Records(text), LAMBDA r : KeyOf(r) \notin Updated(updates))
Kept(before, after, updates) ==
  /\ \A k \in Updated(updates) : Get(after, k) = <<UpdateOf(updates, k).value>>
  /\ \A k \in Keys \ Updated(updates) : Get(after, k) = Get(before, k)
MergeFaithful(original, updates) ==
  LET faithful(merge) ==
        Plain(original) /\ merge # <<>> =>
          /\ Kept(Parse(original), Parse(merge[1]), updates)
          /\ Others(merge[1], updates) = Others(Terminated(original), updates)
          /\ Merge(merge[1], updates) = merge
  IN faithful(Merge(original, updates))

\* Where every assignment is on a line of its own and no line has two
\* addresses with a password, what is shown holds no character of a secret,
\* and every assignment is shown: as it is if there was nothing to hide in it.
\* Of a value that runs over several lines, each line is looked at alone.
Passwords(line) ==
  {i \in 1..Len(line) - 1 : Userinfo(From(line, i))[1] = 1}
OneLine(text) ==
  /\ \A rec \in Range(Records(text)) : Newline \notin Range(Front(rec))
  /\ \A line \in Range(Lines(text)) : Cardinality(Passwords(line)) <= 1
Assigned(line) == KeyOf(line) # ""
RedactFaithful(text, secret) ==
  LET shown == Redact(text)
      assigned == SelectSeq(Lines(text), Assigned)
      left == SelectSeq(Lines(shown), Assigned)
  IN OneLine(text) =>
       /\ secret \notin Range(shown)
       /\ Len(left) = Len(assigned)
       /\ \A i \in DOMAIN assigned :
            /\ KeyOf(left[i]) = KeyOf(assigned[i])
            /\ secret \notin Range(assigned[i]) /\ KeyOf(assigned[i]) \notin SecretKeys => left[i] = assigned[i]
=============================================================================
