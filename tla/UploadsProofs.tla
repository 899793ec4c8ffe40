--------------------------- MODULE UploadsProofs ---------------------------
(***************************************************************************)
(* Proofs about Uploads, for every value of its constants: the inductive  *)
(* invariant IInv, the cap and the single consumption, and the reasons    *)
(* for which a row goes away or a start is refused.                       *)
(***************************************************************************)
EXTENDS Uploads, FiniteSetTheorems, SequenceTheorems, TLAPS

---------------------------------------------------------------------------
(* Types.                                                                  *)

Uploaded == [live : {TRUE}, token : Tokens, kind : load.kinds, doc : load.docs,
             chunks : Seq(Seq(Int)), received : Nat, next : Nat, expires : Nat, updated : Nat,
             ticket : {"none", "open", "used"}, ticketExpires : Nat, key : load.keys \cup {NoKey}]
Pcs == {"advisory", "cleanup", "count", "reap", "recount", "insert", "lock", "work"}
CallRecords == [op : AllOps, pc : Pcs, token : Tokens, id : Nat, now : Nat,
                gone : SUBSET Ids, up : Uploaded \cup {NoRow}, full : BOOLEAN]
Consumed == [doc : Seq(Int), kind : load.kinds, key : load.keys]

Typed ==
  /\ load \in Loads /\ clock \in Nat /\ opened \in Nat
  /\ uploads \in [Ids -> Uploaded \cup {NoRow}]
  /\ rowLock \in [Ids -> Calls \cup {Free}]
  /\ advisory \in [Tokens -> Calls \cup {Free}]
  /\ calls \in [Calls -> CallRecords \cup {Nobody}]
  /\ effects \in [Ids -> Seq(Consumed)]

---------------------------------------------------------------------------
(* The inductive invariant.                                                *)

\* A row a transaction has deleted stays its own, and was deleted for a cause:
\* it had expired, or it was stale and a start had found its token at the cap.
Cause(k, r) ==
  \/ r.expires <= k.now
  \/ k.op = "start" /\ k.full /\ r.key = NoKey /\ r.token = k.token /\ Stale(r, k.now)
GoneOK(c) ==
  \A i \in calls[c].gone : rowLock[i] = c /\ uploads[i].live /\ Cause(calls[c], uploads[i])

\* At work a call holds the row it has read, of its own token unless it came
\* with a ticket.
WorkOK(c) ==
  calls[c].pc = "work" =>
    LET k == calls[c]
    IN /\ k.id \in Ids \ k.gone /\ rowLock[k.id] = c
       /\ k.up = uploads[k.id] /\ k.up.live
       /\ k.op # "put" => k.up.token = k.token

\* A start holds its token from the cleanup on; from then on it sees no expired
\* row, after the reaper no stale one of its token, and room at the insert.
StartOK(c) ==
  LET k == calls[c]
      mine == Uncommitted(k.token, Sees(c))
  IN /\ k.op # "start" => k.pc \in {"cleanup", "lock", "work"}
     /\ k.op = "start" =>
          /\ k.pc \in {"advisory", "cleanup", "count", "reap", "recount", "insert"}
          /\ k.pc # "advisory" => advisory[k.token] = c
     /\ k.pc \in {"count", "reap", "recount", "insert"} => \A i \in Sees(c) : uploads[i].expires > k.now
     /\ k.pc \in {"advisory", "cleanup", "count"} => ~k.full
     /\ k.pc \in {"reap", "recount"} => k.full
     /\ k.pc = "recount" => \A i \in mine : ~Stale(uploads[i], k.now)
     /\ k.pc = "insert" => Cardinality(mine) < MaxActiveUploads

\* Timeouts end a transaction in time.
InTime(c) == calls[c].now <= clock /\ clock <= calls[c].now + TxSpan

CallOK(c) == GoneOK(c) /\ WorkOK(c) /\ StartOK(c) /\ InTime(c)
CallsOK == \A c \in Calls : calls[c] # Nobody => CallOK(c)

\* Ids above the last one handed out are new.
Fresh == \A i \in Ids : i > opened => ~uploads[i].live /\ effects[i] = <<>>

IInv == Typed /\ CallsOK /\ Fresh /\ ConsumedOnce /\ CapHeld

---------------------------------------------------------------------------
(* Joined, a recursive definition: the provers instantiate no induction   *)
(* theorem, so these inductions look at the least counterexample.          *)

LEMMA NatMin ==
  ASSUME NEW S \in SUBSET Nat, S # {}
  PROVE  \E n \in S : \A m \in S : n <= m
<1> DEFINE R == StrictSubsetOrdering(Nat)
           F == FiniteSubsetsOf(Nat)
           T == {0..(n - 1) : n \in S}
<1>1. IsWellFoundedOn(R, F) BY FS_StrictSubsetOrderingWellFounded
<1>2. \A n \in Nat : 0..(n-1) \in F BY FS_Interval DEF FiniteSubsetsOf
<1>3. T \subseteq F /\ T # {} BY <1>2
<1>4. \A x, y \in SUBSET Nat : x \subseteq y /\ x # y => <<x, y>> \in R BY DEF StrictSubsetOrdering
<1> HIDE DEF R, F
<1>5. PICK x \in T : \A y \in T : ~(<<y, x>> \in R) BY <1>1, <1>3, WFMin
<1>6. PICK n \in S : x = 0..(n - 1) BY <1>5
<1>7. ASSUME NEW m \in S, ~(n <= m) PROVE FALSE
  <2> DEFINE y == 0..(m - 1)
  <2>1. y \in T OBVIOUS
  <2>2. y \subseteq x /\ m \in x /\ m \notin y BY <1>6, <1>7
  <2>3. x \in SUBSET Nat /\ y \in SUBSET Nat BY <1>6
  <2> QED BY <1>4, <1>5, <2>1, <2>2, <2>3
<1> QED BY <1>7

\* g[n] joins the first n elements of s.
Running(s, g) == g = [n \in 0..Len(s) |-> IF n = 0 THEN <<>> ELSE g[n - 1] \o s[n]]

LEMMA RunningSame ==
  ASSUME NEW s \in Seq(Seq(Int)), NEW g, NEW h, Running(s, g), Running(s, h)
  PROVE  g = h
<1> DEFINE B == {n \in 0..Len(s) : g[n] # h[n]}
<1>1. Len(s) \in Nat /\ B \in SUBSET Nat OBVIOUS
<1>2. ASSUME B # {} PROVE FALSE
  <2>1. PICK n \in B : \A m \in B : n <= m BY <1>1, <1>2, NatMin
  <2>2. n \in 0..Len(s) /\ n \in Nat /\ g[n] # h[n] BY <1>1, <2>1
  <2>3. n # 0
    <3>1. g[0] = <<>> /\ h[0] = <<>> BY <1>1 DEF Running
    <3> QED BY <2>2, <3>1
  <2>4. n - 1 \in 0..Len(s) /\ ~(n <= n - 1) BY <1>1, <2>2, <2>3
  <2>5. g[n - 1] = h[n - 1] BY <2>1, <2>4
  <2>6. g[n] = g[n - 1] \o s[n] /\ h[n] = h[n - 1] \o s[n] BY <2>2, <2>3 DEF Running
  <2> QED BY <2>2, <2>5, <2>6
<1>3. \A n \in 0..Len(s) : g[n] = h[n] BY <1>2
<1>4. g = [n \in 0..Len(s) |-> g[n]] /\ h = [n \in 0..Len(s) |-> h[n]] BY DEF Running
<1> QED BY <1>3, <1>4

LEMMA RunningExists ==
  ASSUME NEW s \in Seq(Seq(Int))
  PROVE  \E g \in [0..Len(s) -> Seq(Int)] : Running(s, g)
<1> DEFINE Good(m) == \E g \in [0..m -> Seq(Int)] :
                        g[0] = <<>> /\ \A n \in 1..m : g[n] = g[n - 1] \o s[n]
           B == {m \in 0..Len(s) : ~Good(m)}
<1>1. Len(s) \in Nat /\ B \in SUBSET Nat
  <2> HIDE DEF Good
  <2> QED OBVIOUS
<1>2. Good(0)
  <2> DEFINE g == [n \in 0..0 |-> <<>>]
  <2>1. g \in [0..0 -> Seq(Int)] /\ g[0] = <<>> /\ 1..0 = {} OBVIOUS
  <2> HIDE DEF g
  <2> QED BY <2>1
<1>3. ASSUME NEW m \in 1..Len(s), Good(m - 1) PROVE Good(m)
  <2>1. PICK g \in [0..(m - 1) -> Seq(Int)] :
          g[0] = <<>> /\ \A n \in 1..(m - 1) : g[n] = g[n - 1] \o s[n]
    BY <1>3
  <2> DEFINE h == [n \in 0..m |-> IF n = m THEN g[m - 1] \o s[m] ELSE g[n]]
  <2>2. m \in Nat /\ m # 0 /\ m - 1 \in 0..(m - 1) /\ s[m] \in Seq(Int) BY <1>1
  <2>3. \A n \in 0..m : n # m => n \in 0..(m - 1) BY <2>2
  <2>4. g[m - 1] \o s[m] \in Seq(Int) BY <2>1, <2>2
  <2>5. h \in [0..m -> Seq(Int)] BY <2>1, <2>3, <2>4
  <2>6. h[0] = <<>> BY <2>1, <2>2
  <2>7. ASSUME NEW n \in 1..m PROVE h[n] = h[n - 1] \o s[n]
    <3>1. n \in 0..m /\ n - 1 \in 0..m /\ n - 1 # m BY <2>2
    <3>2. h[n - 1] = g[n - 1] BY <3>1
    <3>3. CASE n = m BY <3>1, <3>2, <3>3
    <3>4. CASE n # m
      <4>1. n \in 1..(m - 1) /\ h[n] = g[n] BY <2>2, <3>1, <3>4
      <4> QED BY <2>1, <3>2, <4>1
    <3> QED BY <3>3, <3>4
  <2> HIDE DEF h
  <2> QED BY <2>5, <2>6, <2>7
<1>4. ASSUME B # {} PROVE FALSE
  <2> HIDE DEF Good
  <2>1. PICK m \in B : \A n \in B : m <= n BY <1>1, <1>4, NatMin
  <2>2. m \in 0..Len(s) /\ m \in Nat /\ ~Good(m) BY <1>1, <2>1
  <2>3. m # 0 BY <1>2, <2>2
  <2>4. m \in 1..Len(s) /\ m - 1 \in 0..Len(s) /\ ~(m <= m - 1) BY <1>1, <2>2, <2>3
  <2>5. Good(m - 1) BY <2>1, <2>4
  <2> QED BY <1>3, <2>2, <2>4, <2>5
<1>5. Good(Len(s))
  <2> HIDE DEF Good
  <2>1. Len(s) \in 0..Len(s) BY <1>1
  <2> QED BY <1>4, <2>1
<1>6. PICK g \in [0..Len(s) -> Seq(Int)] :
        g[0] = <<>> /\ \A n \in 1..Len(s) : g[n] = g[n - 1] \o s[n]
  BY <1>5
<1>7. ASSUME NEW n \in 0..Len(s) PROVE g[n] = IF n = 0 THEN <<>> ELSE g[n - 1] \o s[n]
  <2>1. n # 0 => n \in 1..Len(s) BY <1>1
  <2> QED BY <1>6, <2>1
<1>8. g = [n \in 0..Len(s) |-> g[n]] OBVIOUS
<1> QED BY <1>7, <1>8 DEF Running

LEMMA JoinedRuns ==
  ASSUME NEW s \in Seq(Seq(Int)), NEW g, Running(s, g)
  PROVE  Joined(s) = g[Len(s)] /\ Joined(s) \in Seq(Int)
<1> DEFINE h == CHOOSE u : Running(s, u)
<1>1. Joined(s) = h[Len(s)] BY DEF Joined, Running
<1>2. Running(s, h) OBVIOUS
<1>3. h = g BY <1>2, RunningSame
<1>4. g[Len(s)] \in Seq(Int)
  <2>1. PICK f \in [0..Len(s) -> Seq(Int)] : Running(s, f) BY RunningExists
  <2>2. f = g BY <2>1, RunningSame
  <2> QED BY <2>1, <2>2
<1> QED BY <1>1, <1>3, <1>4

\* Nothing received is nothing stored.
LEMMA JoinedEmpty == Joined(<<>>) = <<>>
<1>1. <<>> \in Seq(Seq(Int)) /\ Len(<<>>) = 0 OBVIOUS
<1>2. PICK g : Running(<<>>, g) BY <1>1, RunningExists
<1>3. g[0] = <<>> BY <1>1, <1>2 DEF Running
<1> QED BY <1>1, <1>2, <1>3, JoinedRuns

\* An accepted chunk adds its bytes at the end.
LEMMA JoinedAppend ==
  ASSUME NEW s \in Seq(Seq(Int)), NEW x \in Seq(Int)
  PROVE  Joined(Append(s, x)) = Joined(s) \o x /\ Joined(s) \in Seq(Int)
<1> DEFINE t == Append(s, x)
           n == Len(s) + 1
<1>1. t \in Seq(Seq(Int)) /\ Len(t) = n /\ Len(s) \in Nat /\ t[n] = x OBVIOUS
<1>2. \A k \in 1..Len(s) : t[k] = s[k] OBVIOUS
<1> HIDE DEF t
<1>3. PICK g : Running(t, g) BY <1>1, RunningExists
<1>4. g[n] = g[n - 1] \o x /\ n - 1 = Len(s)
  <2>1. n \in 0..Len(t) /\ n # 0 /\ n - 1 = Len(s) BY <1>1
  <2>2. \A k \in 0..Len(t) : g[k] = IF k = 0 THEN <<>> ELSE g[k - 1] \o t[k] BY <1>3 DEF Running
  <2>3. g[n] = g[n - 1] \o t[n] BY <2>1, <2>2
  <2> QED BY <1>1, <2>1, <2>3
<1> DEFINE h == [k \in 0..Len(s) |-> g[k]]
<1>5. Running(s, h)
  <2>1. \A k \in 0..Len(s) : k \in 0..Len(t) BY <1>1
  <2>2. \A k \in 0..Len(s) : h[k] = IF k = 0 THEN <<>> ELSE h[k - 1] \o s[k]
    <3>1. SUFFICES ASSUME NEW k \in 0..Len(s)
          PROVE g[k] = IF k = 0 THEN <<>> ELSE h[k - 1] \o s[k]
      OBVIOUS
    <3>2. g[k] = IF k = 0 THEN <<>> ELSE g[k - 1] \o t[k] BY <1>3, <2>1 DEF Running
    <3>3. k # 0 => k \in 1..Len(s) /\ k - 1 \in 0..Len(s) BY <1>1
    <3> QED BY <1>2, <3>2, <3>3
  <2>3. h = [k \in 0..Len(s) |-> h[k]] OBVIOUS
  <2> HIDE DEF h
  <2> QED BY <2>2, <2>3 DEF Running
<1>6. h[Len(s)] = g[Len(s)] BY <1>1
<1> HIDE DEF h
<1>7. Joined(s) = g[Len(s)] /\ Joined(s) \in Seq(Int) BY <1>5, <1>6, JoinedRuns
<1>8. Joined(t) = g[n] BY <1>1, <1>3, JoinedRuns
<1> QED BY <1>4, <1>7, <1>8 DEF t

\* A body is stored as chunks of bytes.
LEMMA SplitType ==
  ASSUME NEW doc \in Seq(Int)
  PROVE  Split(doc) \in Seq(Seq(Int)) /\ Len(Split(doc)) = (Len(doc) + MaxChunk - 1) \div MaxChunk
<1> DEFINE n == (Len(doc) + MaxChunk - 1) \div MaxChunk
           part(k) == SubSeq(doc, (k - 1) * MaxChunk + 1,
                             IF k * MaxChunk < Len(doc) THEN k * MaxChunk ELSE Len(doc))
<1>1. Len(doc) \in Nat /\ MaxChunk \in Nat \ {0} BY LimitsAssumption
<1>2. n \in Nat BY <1>1
<1>3. ASSUME NEW k \in 1..n PROVE part(k) \in Seq(Int)
  <2> DEFINE a == (k - 1) * MaxChunk + 1
             b == IF k * MaxChunk < Len(doc) THEN k * MaxChunk ELSE Len(doc)
  <2>1. k \in Nat /\ k - 1 \in Nat BY <1>2
  <2>2. (k - 1) * MaxChunk \in Nat /\ k * MaxChunk \in Nat BY <1>1, <2>1
  <2>3. a \in Nat \ {0} /\ b \in Nat /\ b <= Len(doc) BY <1>1, <2>2
  <2> HIDE DEF a, b
  <2>4. \A i \in a..b : doc[i] \in Int BY <1>1, <2>3
  <2>5. a \in Int /\ b \in Int BY <2>3
  <2>6. SubSeq(doc, a, b) \in Seq(Int) BY <2>4, <2>5, SubSeqProperties
  <2> QED BY <2>6 DEF a, b
<1>4. Split(doc) = [k \in 1..n |-> part(k)] BY DEF Split
<1> HIDE DEF n, part
<1>5. Split(doc) \in [1..n -> Seq(Int)] BY <1>3, <1>4
<1>6. Split(doc) \in Seq(Seq(Int)) /\ Len(Split(doc)) = n BY <1>2, <1>5
<1> QED BY <1>6 DEF n

\* A touched row: what a write leaves of it.

LEMMA SubSeqJoin ==
  ASSUME NEW doc \in Seq(Int), NEW a \in 0..Len(doc), NEW b \in a..Len(doc)
  PROVE  SubSeq(doc, 1, a) \o SubSeq(doc, a + 1, b) = SubSeq(doc, 1, b)
<1> DEFINE x == SubSeq(doc, 1, a)
           y == SubSeq(doc, a + 1, b)
           z == SubSeq(doc, 1, b)
<1>1. a \in Nat /\ b \in Nat /\ a <= b /\ b <= Len(doc) OBVIOUS
<1>2. x \in Seq(Int) /\ Len(x) = a /\ \A i \in 1..a : x[i] = doc[i]
  <2>1. \A i \in 1..a : doc[i] \in Int BY <1>1
  <2>2. /\ x \in Seq(Int) /\ Len(x) = IF 1 <= a THEN a - 1 + 1 ELSE 0
        /\ \A i \in 1..(a - 1 + 1) : x[i] = doc[1 + i - 1]
    BY <1>1, <2>1, SubSeqProperties
  <2> HIDE DEF x
  <2> QED BY <1>1, <2>2
<1>3. z \in Seq(Int) /\ Len(z) = b /\ \A i \in 1..b : z[i] = doc[i]
  <2>1. \A i \in 1..b : doc[i] \in Int BY <1>1
  <2>2. /\ z \in Seq(Int) /\ Len(z) = IF 1 <= b THEN b - 1 + 1 ELSE 0
        /\ \A i \in 1..(b - 1 + 1) : z[i] = doc[1 + i - 1]
    BY <1>1, <2>1, SubSeqProperties
  <2> HIDE DEF z
  <2> QED BY <1>1, <2>2
<1>4. y \in Seq(Int) /\ Len(y) = b - a /\ \A i \in 1..(b - a) : y[i] = doc[a + i]
  <2>1. \A i \in (a + 1)..b : doc[i] \in Int BY <1>1
  <2>2. /\ y \in Seq(Int) /\ Len(y) = IF a + 1 <= b THEN b - (a + 1) + 1 ELSE 0
        /\ \A i \in 1..(b - (a + 1) + 1) : y[i] = doc[(a + 1) + i - 1]
    BY <1>1, <2>1, SubSeqProperties
  <2> HIDE DEF y
  <2> QED BY <1>1, <2>2
<1> HIDE DEF x, y, z
<1>5. /\ x \o y \in Seq(Int) /\ Len(x \o y) = b
      /\ \A i \in 1..b : (x \o y)[i] = IF i <= a THEN x[i] ELSE y[i - a]
  <2>1. Len(x) + Len(y) = b BY <1>1, <1>2, <1>4
  <2> QED BY <1>2, <1>4, <2>1, ConcatProperties
<1>6. ASSUME NEW i \in 1..b PROVE (x \o y)[i] = z[i]
  <2>1. CASE i <= a
    <3>1. i \in 1..a BY <1>1, <2>1
    <3> QED BY <1>2, <1>3, <1>5, <2>1, <3>1
  <2>2. CASE i > a
    <3>1. i - a \in 1..(b - a) /\ i \in Nat BY <1>1, <2>2
    <3>2. (x \o y)[i] = y[i - a] BY <1>1, <1>5, <2>2, <3>1, SMTT(60)
    <3>3. y[i - a] = doc[i] BY <1>1, <1>4, <3>1
    <3> QED BY <1>3, <3>2, <3>3
  <2>3. i <= a \/ i > a BY <1>1
  <2> QED BY <2>1, <2>2, <2>3
<1>7. x \o y = z BY <1>3, <1>5, <1>6, SeqEqual
<1> QED BY <1>7 DEF x, y, z

\* The document of a ticket PUT is the join of the chunks it is stored as.
LEMMA JoinedSplit ==
  ASSUME NEW doc \in Seq(Int)
  PROVE  Joined(Split(doc)) = doc
<1> DEFINE L == Len(doc)
           M == MaxChunk
           n == (L + M - 1) \div M
           e(k) == IF k * M < L THEN k * M ELSE L
           g == [k \in 0..n |-> SubSeq(doc, 1, e(k))]
           s == Split(doc)
<1>1. L \in Nat /\ M \in Nat \ {0} BY LimitsAssumption
<1>2. n \in Nat /\ n * M <= L + M - 1 /\ L + M - 1 < n * M + M BY <1>1
<1>3. s \in Seq(Seq(Int)) /\ Len(s) = n BY SplitType
<1>4. \A k \in 1..n : s[k] = SubSeq(doc, (k - 1) * M + 1, e(k)) BY DEF Split
<1> HIDE DEF n, s, L, M
<1>5. ASSUME NEW k \in 1..n
      PROVE  (k - 1) * M \in 0..L /\ e(k - 1) = (k - 1) * M /\ e(k) \in (k - 1) * M..L
  <2>1. k \in Nat /\ k - 1 \in Nat /\ n - k \in Nat BY <1>2
  <2>2. (k - 1) * M \in Nat /\ k * M \in Nat /\ k * M = (k - 1) * M + M BY <1>1, <2>1
  <2>3. (n - k) * M \in Nat /\ n * M = k * M + (n - k) * M BY <1>1, <1>2, <2>1
  <2>4. (k - 1) * M < L BY <1>1, <1>2, <2>1, <2>2, <2>3
  <2> QED BY <1>1, <2>2, <2>4
<1>6. e(0) = 0 /\ e(n) = L
  <2>1. 0 * M = 0 /\ n * M \in Nat BY <1>1, <1>2
  <2> QED BY <1>1, <1>2, <2>1
<1>7. \A k \in 0..n : k # 0 => k \in 1..n /\ k - 1 \in 0..n BY <1>2
<1>8. ASSUME NEW k \in 1..n PROVE SubSeq(doc, 1, e(k)) = SubSeq(doc, 1, e(k - 1)) \o s[k]
  <2> HIDE DEF e
  <2>1. s[k] = SubSeq(doc, e(k - 1) + 1, e(k)) BY <1>4, <1>5
  <2>2. e(k - 1) \in 0..L /\ e(k) \in e(k - 1)..L BY <1>5
  <2> QED BY <2>1, <2>2, SubSeqJoin DEF L
<1>9. Running(s, g)
  <2>1. SubSeq(doc, 1, 0) = <<>> BY SubSeqEmpty
  <2> HIDE DEF e
  <2>2. ASSUME NEW k \in 0..n PROVE g[k] = IF k = 0 THEN <<>> ELSE g[k - 1] \o s[k]
    BY <1>6, <1>7, <1>8, <2>1
  <2>3. g = [k \in 0..n |-> g[k]] OBVIOUS
  <2> HIDE DEF g
  <2> QED BY <1>3, <2>2, <2>3 DEF Running
<1>10. g[n] = SubSeq(doc, 1, L)
  <2> HIDE DEF e
  <2>1. n \in 0..n BY <1>2
  <2>2. g[n] = SubSeq(doc, 1, e(n)) BY <2>1
  <2> QED BY <1>6, <2>2
<1>11. SubSeq(doc, 1, L) = doc BY DEF L
<1> HIDE DEF g
<1> QED BY <1>3, <1>9, <1>10, <1>11, JoinedRuns DEF s

---------------------------------------------------------------------------
(* The shape of the steps.                                                 *)

LEMMA BoundsTyped ==
  ASSUME Typed
  PROVE  /\ load.rows \in Nat /\ IsFiniteSet(Ids) /\ Ids \subseteq Nat
         /\ load.docs \subseteq Seq(Int) /\ load.chunks \subseteq Seq(Int) /\ NoKey \notin load.keys
         /\ TTL \in Nat /\ StaleAfter \in Nat /\ TicketTTL \in Nat /\ TxSpan \in Nat
         /\ TxSpan < StaleAfter /\ StaleAfter < TTL /\ Free \notin Calls
         /\ MaxActiveUploads \in Nat \ {0} /\ MaxChunk \in Nat \ {0}
<1>1. load.rows \in Nat /\ load.docs \subseteq Seq(Int) /\ load.chunks \subseteq Seq(Int) /\ NoKey \notin load.keys
  BY LoadsAssumption, NamesAssumption DEF Typed
<1>2. IsFiniteSet(Ids) /\ Ids \subseteq Nat
  <2>1. IsFiniteSet(1..load.rows) BY <1>1, FS_Interval
  <2>2. 1..load.rows \subseteq Nat BY <1>1
  <2> QED BY <2>1, <2>2 DEF Ids
<1> QED BY <1>1, <1>2, LimitsAssumption, NamesAssumption

\* A transaction is a record; Nobody is not one.
LEMMA AtType ==
  ASSUME Typed, NEW c \in Calls, NEW p, At(c, p)
  PROVE  calls[c] \in CallRecords /\ calls[c] # Nobody /\ calls[c].pc = p
<1>1. Nobody.op = "none" BY DEF Nobody
<1> QED BY <1>1 DEF Typed, At

LEMMA RecordsRun == \A k \in CallRecords : k # Nobody
<1>1. Nobody.op = "none" BY DEF Nobody
<1>2. \A k \in CallRecords : k.op \in AllOps BY DEF CallRecords
<1> QED BY <1>1, <1>2 DEF AllOps

LEMMA LiveRow ==
  ASSUME Typed, NEW i \in Ids, uploads[i].live
  PROVE  uploads[i] \in Uploaded
BY DEF Typed, NoRow

\* What a step of one connection leaves alone: the others, and their locks.
Kept(c) ==
  /\ \A d \in Calls \ {c} : calls'[d] = calls[d]
  /\ \A i \in Ids : rowLock[i] \in Calls \ {c} => rowLock'[i] = rowLock[i]
  /\ \A t \in Tokens : advisory[t] \in Calls \ {c} => advisory'[t] = advisory[t]
  /\ UNCHANGED <<load, clock>>

\* A step inside a transaction, or its end without effect.
Local(c) ==
  /\ Typed' /\ Kept(c) /\ UNCHANGED <<uploads, opened, effects>>
  /\ calls'[c] # Nobody => CallOK(c)'

\* A row that counts its bytes and chunks right and, complete, holds the document.
Sound(row) ==
  /\ row.received = Len(Joined(row.chunks)) /\ row.next = Len(row.chunks)
  /\ row.received = Len(row.doc) => Joined(row.chunks) = row.doc

\* What a commit may do to a row: nothing; remove a deleted or cancelled one; or,
\* before it is consumed, extend its chunks or consume it.
Touches(c, i) == /\ uploads'[i].expires = calls[c].now + TTL /\ uploads'[i].updated = calls[c].now
                 /\ uploads'[i].live /\ uploads'[i].token = uploads[i].token
                 /\ uploads'[i].doc = uploads[i].doc /\ uploads'[i].kind = uploads[i].kind
Removes(c, i) ==
  /\ uploads'[i] = NoRow /\ effects'[i] = effects[i]
  /\ \/ i \in calls[c].gone
     \/ calls[c].op = "cancel" /\ calls[c].id = i /\ calls[c].token = uploads[i].token /\ uploads[i].key = NoKey
Fills(c, i) ==
  /\ Touches(c, i) /\ uploads'[i].key = NoKey /\ effects'[i] = effects[i]
  /\ \A n \in 1..Len(uploads[i].chunks) :
       n <= Len(uploads'[i].chunks) /\ uploads'[i].chunks[n] = uploads[i].chunks[n]
  /\ Sound(uploads[i]) => Sound(uploads'[i])
Consumes(c, i) ==
  /\ Touches(c, i) /\ uploads'[i].key \in load.keys
  /\ effects'[i] = Append(effects[i], [doc |-> uploads[i].doc, kind |-> uploads[i].kind,
                                       key |-> uploads'[i].key])
Writes(c, i) ==
  \/ uploads'[i] = uploads[i] /\ effects'[i] = effects[i]
  \/ /\ rowLock[i] = c /\ uploads[i].live
     /\ \/ Removes(c, i)
        \/ uploads[i].key = NoKey /\ (Fills(c, i) \/ Consumes(c, i))

Committed(c) ==
  /\ Typed' /\ Kept(c) /\ UNCHANGED opened
  /\ calls[c] # Nobody /\ calls'[c] = Nobody
  /\ \A i \in Ids : Writes(c, i)

\* The commit of a start.
Inserted(c) ==
  /\ Typed' /\ Kept(c) /\ UNCHANGED effects
  /\ calls[c] # Nobody /\ calls'[c] = Nobody /\ calls[c].op = "start" /\ calls[c].pc = "insert"
  /\ opened' = opened + 1 /\ opened' \in Ids
  /\ LET r == uploads'[opened']
     IN /\ r.live /\ r.token = calls[c].token /\ r.key = NoKey
        /\ r.expires = calls[c].now + TTL /\ r.updated = calls[c].now /\ Sound(r)
  /\ \A i \in Ids \ {opened'} : uploads'[i] = IF i \in calls[c].gone THEN NoRow ELSE uploads[i]

LEMMA NoRowDead == ~NoRow.live
BY DEF NoRow

---------------------------------------------------------------------------
(* The invariant under each shape of step.                                 *)

LEMMA LocalKeeps ==
  ASSUME IInv, NEW c \in Calls, Local(c)
  PROVE  IInv'
<1>1. Typed' /\ Kept(c) /\ UNCHANGED <<load, clock, uploads, opened, effects>> /\ Ids' = Ids
  BY DEF Local, Kept, Ids
<1>2. CallsOK'
  <2>1. SUFFICES ASSUME NEW d \in Calls, calls'[d] # Nobody PROVE CallOK(d)' BY DEF CallsOK
  <2>2. CASE d = c BY <2>1, <2>2 DEF Local
  <2>3. CASE d # c
    <3>1. calls'[d] = calls[d] BY <1>1, <2>3 DEF Kept
    <3>2. CallOK(d) BY <2>1, <3>1 DEF IInv, CallsOK
    <3>3. calls[d] \in CallRecords BY <2>1, <3>1 DEF IInv, Typed
    <3>4. GoneOK(d)'
      BY <1>1, <2>3, <3>1, <3>2, <3>3 DEF CallOK, GoneOK, Cause, Stale, Kept, CallRecords
    <3>5. WorkOK(d)' BY <1>1, <2>3, <3>1, <3>2 DEF CallOK, WorkOK, Kept
    <3>6. StartOK(d)'
      BY <1>1, <2>3, <3>1, <3>2, <3>3 DEF CallOK, StartOK, Kept, Sees, Uncommitted, Stale, CallRecords
    <3>7. InTime(d)' BY <1>1, <3>1, <3>2 DEF CallOK, InTime
    <3> QED BY <3>4, <3>5, <3>6, <3>7 DEF CallOK
  <2> QED BY <2>2, <2>3
<1>3. Fresh' /\ ConsumedOnce' /\ CapHeld'
  BY <1>1 DEF IInv, Fresh, ConsumedOnce, CapHeld, Present, Uncommitted
<1> QED BY <1>1, <1>2, <1>3 DEF IInv

\* A row written by another transaction is fresh to this one.
LEMMA WrittenFresh ==
  ASSUME IInv, NEW c \in Calls, NEW d \in Calls, calls[c] # Nobody, calls[d] # Nobody
  PROVE  /\ calls[c].now + TTL > calls[d].now
         /\ ~(calls[c].now < calls[d].now - StaleAfter)
<1>1. calls[c].now \in Nat /\ calls[d].now \in Nat /\ clock \in Nat BY DEF IInv, Typed, CallRecords
<1>2. clock <= calls[c].now + TxSpan /\ calls[d].now <= clock BY DEF IInv, CallsOK, CallOK, InTime
<1>3. /\ TTL \in Nat /\ StaleAfter \in Nat /\ TxSpan \in Nat /\ TxSpan < StaleAfter /\ StaleAfter < TTL
  BY LimitsAssumption
<1> QED BY <1>1, <1>2, <1>3

LEMMA CommittedKeeps ==
  ASSUME IInv, NEW c \in Calls, Committed(c)
  PROVE  IInv'
<1>1. /\ Typed' /\ Kept(c) /\ UNCHANGED <<load, clock, opened>> /\ Ids' = Ids
      /\ calls[c] # Nobody /\ calls'[c] = Nobody
  BY DEF Committed, Kept, Ids
<1>0. Typed BY DEF IInv
<1>b. IsFiniteSet(Ids) /\ NoKey \notin load.keys BY <1>0, BoundsTyped
<1>2. ASSUME NEW i \in Ids, uploads'[i].live
      PROVE  /\ uploads[i].live /\ uploads'[i].token = uploads[i].token
             /\ uploads'[i].key = NoKey => uploads[i].key = NoKey
             /\ uploads'[i] = uploads[i] \/ (/\ uploads'[i].expires = calls[c].now + TTL
                                              /\ uploads'[i].updated = calls[c].now)
  <2>1. Writes(c, i) BY DEF Committed
  <2> QED BY <1>2, <2>1, NoRowDead DEF Writes, Removes, Fills, Consumes, Touches
<1>3. \A i \in Ids : rowLock[i] # c => uploads'[i] = uploads[i] BY DEF Committed, Writes
<1>4. \A t : /\ Uncommitted(t, Present)' \in SUBSET Uncommitted(t, Present)
             /\ IsFiniteSet(Uncommitted(t, Present))
  <2>1. \A t : Uncommitted(t, Present)' \in SUBSET Uncommitted(t, Present)
    BY <1>1, <1>2 DEF Uncommitted, Present
  <2>2. \A t : Uncommitted(t, Present) \in SUBSET Ids BY DEF Uncommitted, Present
  <2> QED BY <1>b, <2>1, <2>2, FS_Subset
<1>5. CapHeld'
  <2>1. SUFFICES ASSUME NEW t \in Tokens PROVE Cardinality(Uncommitted(t, Present)') <= MaxActiveUploads
    BY DEF CapHeld
  <2>2. Cardinality(Uncommitted(t, Present)) <= MaxActiveUploads BY DEF IInv, CapHeld
  <2>3. /\ Cardinality(Uncommitted(t, Present)') <= Cardinality(Uncommitted(t, Present))
        /\ IsFiniteSet(Uncommitted(t, Present)')
    BY <1>4, FS_Subset
  <2>4. /\ Cardinality(Uncommitted(t, Present)) \in Nat /\ Cardinality(Uncommitted(t, Present)') \in Nat
    BY <1>4, <2>3, FS_CardinalityType
  <2> QED BY <2>2, <2>3, <2>4, LimitsAssumption
<1>6. Fresh'
  <2>1. SUFFICES ASSUME NEW i \in Ids, i > opened PROVE ~uploads'[i].live /\ effects'[i] = <<>>
    BY <1>1 DEF Fresh
  <2>2. ~uploads[i].live /\ effects[i] = <<>> BY <2>1 DEF IInv, Fresh
  <2>3. Writes(c, i) BY DEF Committed
  <2> QED BY <2>2, <2>3 DEF Writes
<1>7. ConsumedOnce'
  <2>1. SUFFICES ASSUME NEW i \in Ids
        PROVE  /\ Len(effects'[i]) <= 1
               /\ uploads'[i].live =>
                    IF uploads'[i].key = NoKey THEN effects'[i] = <<>>
                    ELSE effects'[i] = <<[doc |-> uploads'[i].doc, kind |-> uploads'[i].kind,
                                          key |-> uploads'[i].key]>>
    BY <1>1 DEF ConsumedOnce
  <2>2. /\ Len(effects[i]) <= 1
        /\ uploads[i].live =>
             IF uploads[i].key = NoKey THEN effects[i] = <<>>
             ELSE effects[i] = <<[doc |-> uploads[i].doc, kind |-> uploads[i].kind,
                                  key |-> uploads[i].key]>>
    BY DEF IInv, ConsumedOnce
  <2>3. Writes(c, i) BY DEF Committed
  <2>4. CASE uploads'[i] = uploads[i] /\ effects'[i] = effects[i] BY <2>2, <2>4
  <2>5. CASE Removes(c, i) BY <2>2, <2>5, NoRowDead DEF Removes
  <2>6. CASE uploads[i].live /\ uploads[i].key = NoKey /\ Fills(c, i)
    BY <2>2, <2>6 DEF Fills, Touches
  <2>7. CASE uploads[i].live /\ uploads[i].key = NoKey /\ Consumes(c, i)
    <3> DEFINE e == [doc |-> uploads[i].doc, kind |-> uploads[i].kind, key |-> uploads'[i].key]
    <3>1. effects[i] = <<>> /\ effects'[i] = Append(effects[i], e) BY <2>2, <2>7 DEF Consumes
    <3>2. effects'[i] = <<e>> /\ Len(effects'[i]) = 1
      <4> HIDE DEF e
      <4> QED BY <3>1
    <3>3. [doc |-> uploads'[i].doc, kind |-> uploads'[i].kind, key |-> uploads'[i].key] = e
      BY <2>7 DEF Consumes, Touches
    <3>4. uploads'[i].key # NoKey BY <1>b, <2>7 DEF Consumes
    <3> HIDE DEF e
    <3> QED BY <3>2, <3>3, <3>4
  <2> QED BY <2>3, <2>4, <2>5, <2>6, <2>7 DEF Writes
<1>8. CallsOK'
  <2>1. SUFFICES ASSUME NEW d \in Calls, calls'[d] # Nobody PROVE CallOK(d)' BY DEF CallsOK
  <2>2. d # c BY <1>1, <2>1
  <2>3. calls'[d] = calls[d] BY <1>1, <2>2 DEF Kept
  <2>4. CallOK(d) BY <2>1, <2>3 DEF IInv, CallsOK
  <2>5. calls[d] \in CallRecords BY <2>1, <2>3 DEF IInv, Typed
  <2>6. \A i \in Ids : rowLock[i] = d => uploads'[i] = uploads[i] /\ rowLock'[i] = d
    BY <1>1, <1>3, <2>2 DEF Kept
  <2>7. GoneOK(d)'
    BY <1>1, <2>3, <2>4, <2>5, <2>6 DEF CallOK, GoneOK, Cause, Stale, CallRecords
  <2>8. WorkOK(d)' BY <1>1, <2>3, <2>4, <2>6 DEF CallOK, WorkOK
  <2>9. StartOK(d)'
    <3> DEFINE k == calls[d]
               mine == Uncommitted(k.token, Sees(d))
               new == Uncommitted(k.token, Sees(d))'
    <3>1. Sees(d)' \subseteq Sees(d) BY <1>1, <1>2, <2>3 DEF Sees
    <3>2. new \in SUBSET mine BY <1>1, <1>2, <2>3, <3>1 DEF Uncommitted, Sees
    <3>3. /\ calls[c].now + TTL > k.now /\ ~(calls[c].now < k.now - StaleAfter)
      BY <1>1, <2>1, <2>3, WrittenFresh
    <3>4. k.pc \in {"count", "reap", "recount", "insert"} => \A i \in Sees(d)' : uploads'[i].expires > k.now
      <4>1. SUFFICES ASSUME k.pc \in {"count", "reap", "recount", "insert"}, NEW i \in Sees(d)'
                     PROVE  uploads'[i].expires > k.now
        OBVIOUS
      <4>2. i \in Sees(d) /\ i \in Ids /\ uploads'[i].live BY <1>1, <3>1 DEF Sees
      <4>3. uploads[i].expires > k.now BY <2>4, <4>1, <4>2 DEF CallOK, StartOK
      <4> QED BY <1>2, <3>3, <4>2, <4>3
    <3>5. k.pc = "recount" => \A i \in new : ~Stale(uploads'[i], k.now)
      <4>1. SUFFICES ASSUME k.pc = "recount", NEW i \in new PROVE ~Stale(uploads'[i], k.now)
        OBVIOUS
      <4>2. i \in mine /\ i \in Ids /\ uploads'[i].live BY <1>1, <3>2 DEF Uncommitted, Sees
      <4>3. ~Stale(uploads[i], k.now) BY <2>4, <4>1, <4>2 DEF CallOK, StartOK
      <4> QED BY <1>2, <3>3, <4>2, <4>3 DEF Stale
    <3>6. k.pc = "insert" => Cardinality(new) < MaxActiveUploads
      <4>1. mine \in SUBSET Ids BY DEF Uncommitted, Sees
      <4>2. IsFiniteSet(mine) BY <1>b, <4>1, FS_Subset
      <4>3. Cardinality(new) <= Cardinality(mine) /\ IsFiniteSet(new) BY <3>2, <4>2, FS_Subset
      <4>4. Cardinality(new) \in Nat /\ Cardinality(mine) \in Nat BY <4>2, <4>3, FS_CardinalityType
      <4>5. k.pc = "insert" => Cardinality(mine) < MaxActiveUploads BY <2>4 DEF CallOK, StartOK
      <4> HIDE DEF new, mine
      <4> QED BY <4>3, <4>4, <4>5, LimitsAssumption
    <3>7. /\ k.op # "start" => k.pc \in {"cleanup", "lock", "work"}
          /\ k.op = "start" =>
               /\ k.pc \in {"advisory", "cleanup", "count", "reap", "recount", "insert"}
               /\ k.pc # "advisory" => advisory'[k.token] = d
          /\ k.pc \in {"advisory", "cleanup", "count"} => ~k.full
          /\ k.pc \in {"reap", "recount"} => k.full
      BY <1>1, <2>2, <2>4, <2>5 DEF CallOK, StartOK, Kept, CallRecords
    <3> QED BY <2>3, <3>4, <3>5, <3>6, <3>7 DEF StartOK
  <2>10. InTime(d)' BY <1>1, <2>3, <2>4 DEF CallOK, InTime
  <2> QED BY <2>7, <2>8, <2>9, <2>10 DEF CallOK
<1> QED BY <1>1, <1>5, <1>6, <1>7, <1>8 DEF IInv

LEMMA InsertedKeeps ==
  ASSUME IInv, NEW c \in Calls, Inserted(c)
  PROVE  IInv'
<1> DEFINE n == opened'
           k == calls[c]
<1>1. /\ Typed' /\ Kept(c) /\ UNCHANGED <<load, clock, effects>> /\ Ids' = Ids
      /\ k # Nobody /\ calls'[c] = Nobody /\ k.op = "start" /\ k.pc = "insert"
      /\ n = opened + 1 /\ n \in Ids
      /\ uploads'[n].live /\ uploads'[n].token = k.token /\ uploads'[n].key = NoKey
      /\ uploads'[n].expires = k.now + TTL /\ uploads'[n].updated = k.now
      /\ \A i \in Ids \ {n} : uploads'[i] = IF i \in k.gone THEN NoRow ELSE uploads[i]
  BY DEF Inserted, Kept, Ids
<1>0. Typed /\ opened \in Nat /\ k \in CallRecords BY <1>1 DEF IInv, Typed
<1>b. IsFiniteSet(Ids) /\ Ids \subseteq Nat /\ MaxActiveUploads \in Nat \ {0} BY <1>0, BoundsTyped
<1>2. CallOK(c) BY <1>1 DEF IInv, CallsOK
<1>3. ~uploads[n].live /\ effects[n] = <<>> BY <1>0, <1>1 DEF IInv, Fresh
<1>4. n \notin k.gone BY <1>2, <1>3 DEF CallOK, GoneOK
<1> HIDE DEF n
<1>5. \A t : Uncommitted(t, Present)' \subseteq Uncommitted(t, Present \ k.gone) \cup (IF t = k.token THEN {n} ELSE {})
  BY <1>1, NoRowDead DEF Uncommitted, Present
<1>6. \A t : Uncommitted(t, Present \ k.gone) \in SUBSET Uncommitted(t, Present)
  BY DEF Uncommitted
<1>7. \A t : Uncommitted(t, Present) \in SUBSET Ids BY DEF Uncommitted, Present
<1>8. CapHeld'
  <2>1. SUFFICES ASSUME NEW t \in Tokens PROVE Cardinality(Uncommitted(t, Present)') <= MaxActiveUploads
    BY DEF CapHeld
  <2> DEFINE old == Uncommitted(t, Present)
             left == Uncommitted(t, Present \ k.gone)
             new == Uncommitted(t, Present)'
  <2>2. IsFiniteSet(old) /\ IsFiniteSet(left) BY <1>b, <1>6, <1>7, FS_Subset
  <2>3. Cardinality(old) \in Nat /\ Cardinality(left) \in Nat BY <2>2, FS_CardinalityType
  <2>4. CASE t = k.token
    <3>1. left = Uncommitted(k.token, Sees(c)) BY <2>4 DEF Uncommitted, Sees, Present
    <3>2. Cardinality(left) < MaxActiveUploads BY <1>1, <1>2, <3>1 DEF CallOK, StartOK
    <3>3. IsFiniteSet(left \cup {n}) /\ Cardinality(left \cup {n}) <= Cardinality(left) + 1
      <4> HIDE DEF left
      <4>1. IsFiniteSet(left \cup {n}) /\ Cardinality(left \cup {n}) = IF n \in left THEN Cardinality(left) ELSE Cardinality(left) + 1
        BY <2>2, FS_AddElement
      <4> QED BY <2>3, <4>1
    <3>4. new \in SUBSET (left \cup {n}) BY <1>5, <2>4
    <3>5. IsFiniteSet(new) /\ Cardinality(new) <= Cardinality(left \cup {n}) BY <3>3, <3>4, FS_Subset
    <3>6. Cardinality(new) \in Nat /\ Cardinality(left \cup {n}) \in Nat BY <3>3, <3>5, FS_CardinalityType
    <3> HIDE DEF new, left
    <3> QED BY <1>b, <2>3, <3>2, <3>3, <3>5, <3>6 DEF new
  <2>5. CASE t # k.token
    <3>1. new \in SUBSET old BY <1>5, <1>6, <2>5
    <3>2. IsFiniteSet(new) /\ Cardinality(new) <= Cardinality(old) BY <2>2, <3>1, FS_Subset
    <3>3. Cardinality(new) \in Nat BY <3>2, FS_CardinalityType
    <3>4. Cardinality(old) <= MaxActiveUploads BY DEF IInv, CapHeld
    <3> HIDE DEF new, old
    <3> QED BY <1>b, <2>3, <3>2, <3>3, <3>4 DEF new
  <2> QED BY <2>4, <2>5
<1>9. Fresh'
  <2>1. SUFFICES ASSUME NEW i \in Ids, i > opened + 1 PROVE ~uploads'[i].live /\ effects[i] = <<>>
    BY <1>1 DEF Fresh, n
  <2>2. i > opened /\ i # n /\ i \in Nat BY <1>0, <1>1, <1>b, <2>1
  <2> QED BY <1>1, <2>1, <2>2, NoRowDead DEF IInv, Fresh
<1>10. ConsumedOnce'
  <2>1. SUFFICES ASSUME NEW i \in Ids
        PROVE  /\ Len(effects[i]) <= 1
               /\ uploads'[i].live =>
                    IF uploads'[i].key = NoKey THEN effects[i] = <<>>
                    ELSE effects[i] = <<[doc |-> uploads'[i].doc, kind |-> uploads'[i].kind,
                                         key |-> uploads'[i].key]>>
    BY <1>1 DEF ConsumedOnce
  <2>2. CASE i = n BY <1>1, <1>3, <2>2 DEF IInv, ConsumedOnce
  <2>3. CASE i # n BY <1>1, <2>3, NoRowDead DEF IInv, ConsumedOnce
  <2> QED BY <2>2, <2>3
<1>11. CallsOK'
  <2>1. SUFFICES ASSUME NEW d \in Calls, calls'[d] # Nobody PROVE CallOK(d)' BY DEF CallsOK
  <2>2. d # c BY <1>1, <2>1
  <2>3. calls'[d] = calls[d] BY <1>1, <2>2 DEF Kept
  <2>4. CallOK(d) BY <2>1, <2>3 DEF IInv, CallsOK
  <2>5. calls[d] \in CallRecords BY <2>1, <2>3 DEF IInv, Typed
  <2>6. \A i \in Ids : rowLock[i] = d => i \notin k.gone /\ rowLock'[i] = d
    BY <1>1, <1>2, <2>2 DEF Kept, CallOK, GoneOK
  <2>7. \A i \in Ids : rowLock[i] = d /\ uploads[i].live => uploads'[i] = uploads[i] /\ rowLock'[i] = d
    BY <1>1, <1>3, <2>6
  <2>8. GoneOK(d)'
    <3>1. \A i \in calls[d].gone : /\ i \in Ids /\ uploads'[i] = uploads[i] /\ rowLock'[i] = d
                                  /\ uploads[i].live /\ Cause(calls[d], uploads[i])
      BY <2>4, <2>5, <2>7 DEF CallOK, GoneOK, CallRecords
    <3> QED BY <1>1, <2>3, <3>1 DEF GoneOK, Cause, Stale
  <2>9. WorkOK(d)' BY <1>1, <2>3, <2>4, <2>7 DEF CallOK, WorkOK
  <2>10. StartOK(d)'
    <3> DEFINE l == calls[d]
               mine == Uncommitted(l.token, Sees(d))
               new == Uncommitted(l.token, Sees(d))'
    <3>1. Sees(d)' \subseteq Sees(d) \cup {n} BY <1>1, <2>3, NoRowDead DEF Sees
    <3>2. \A i \in Sees(d)' : i # n => uploads'[i] = uploads[i]
      BY <1>1, NoRowDead DEF Sees
    <3>3. /\ k.now + TTL > l.now /\ ~(k.now < l.now - StaleAfter)
      BY <1>1, <2>1, <2>3, WrittenFresh
    <3>4. l.pc \in {"count", "reap", "recount", "insert"} => \A i \in Sees(d)' : uploads'[i].expires > l.now
      BY <1>1, <2>4, <3>1, <3>2, <3>3 DEF CallOK, StartOK
    \* Both starts hold their token: it is not the same.
    <3>5. l.pc \in {"recount", "insert"} => l.token # k.token
      <4>1. l.token \in Tokens BY <2>5 DEF CallRecords
      <4> QED BY <1>1, <1>2, <2>2, <2>4, <4>1 DEF CallOK, StartOK
    <3>6. l.token # k.token => new \in SUBSET mine
      BY <1>1, <2>3, <3>1, <3>2 DEF Uncommitted
    <3>7. l.pc = "recount" => \A i \in new : ~Stale(uploads'[i], l.now)
      <4>1. SUFFICES ASSUME l.pc = "recount", NEW i \in new PROVE ~Stale(uploads'[i], l.now)
        OBVIOUS
      <4>2. i \in mine BY <3>5, <3>6, <4>1
      <4>3. i \in Sees(d)' /\ i # n BY <1>1, <2>3, <3>5, <4>1 DEF Uncommitted
      <4> QED BY <2>4, <3>2, <4>1, <4>2, <4>3 DEF CallOK, StartOK, Stale
    <3>8. l.pc = "insert" => Cardinality(new) < MaxActiveUploads
      <4>1. SUFFICES ASSUME l.pc = "insert" PROVE Cardinality(new) < MaxActiveUploads OBVIOUS
      <4>2. mine \in SUBSET Ids BY DEF Uncommitted, Sees
      <4>3. IsFiniteSet(mine) BY <1>b, <4>2, FS_Subset
      <4>4. new \in SUBSET mine BY <3>5, <3>6, <4>1
      <4>5. Cardinality(new) <= Cardinality(mine) /\ IsFiniteSet(new) BY <4>3, <4>4, FS_Subset
      <4>6. Cardinality(new) \in Nat /\ Cardinality(mine) \in Nat BY <4>3, <4>5, FS_CardinalityType
      <4>7. Cardinality(mine) < MaxActiveUploads BY <2>4, <4>1 DEF CallOK, StartOK
      <4> HIDE DEF new, mine
      <4> QED BY <1>b, <4>5, <4>6, <4>7
    <3>9. /\ l.op # "start" => l.pc \in {"cleanup", "lock", "work"}
          /\ l.op = "start" =>
               /\ l.pc \in {"advisory", "cleanup", "count", "reap", "recount", "insert"}
               /\ l.pc # "advisory" => advisory'[l.token] = d
          /\ l.pc \in {"advisory", "cleanup", "count"} => ~l.full
          /\ l.pc \in {"reap", "recount"} => l.full
      BY <1>1, <2>2, <2>4, <2>5 DEF CallOK, StartOK, Kept, CallRecords
    <3> QED BY <2>3, <3>4, <3>7, <3>8, <3>9 DEF StartOK
  <2>11. InTime(d)' BY <1>1, <2>3, <2>4 DEF CallOK, InTime
  <2> QED BY <2>8, <2>9, <2>10, <2>11 DEF CallOK
<1> QED BY <1>1, <1>8, <1>9, <1>10, <1>11 DEF IInv

LEMMA TickKeeps ==
  ASSUME IInv, Tick
  PROVE  IInv'
<1>1. /\ clock' = clock + 1 /\ UNCHANGED <<load, uploads, opened, rowLock, advisory, calls, effects>>
      /\ \A c \in Calls : calls[c] # Nobody => clock < calls[c].now + TxSpan
      /\ Ids' = Ids
  BY DEF Tick, Ids
<1>2. Typed'
  <2>1. Uploaded' = Uploaded /\ Consumed' = Consumed BY <1>1 DEF Uploaded, Consumed
  <2>2. CallRecords' = CallRecords BY <1>1, <2>1 DEF CallRecords
  <2> QED BY <1>1, <2>1, <2>2 DEF IInv, Typed
<1>3. CallsOK'
  <2>1. SUFFICES ASSUME NEW c \in Calls, calls[c] # Nobody PROVE CallOK(c)' BY <1>1 DEF CallsOK
  <2>2. CallOK(c) /\ calls[c] \in CallRecords BY <2>1 DEF IInv, CallsOK, Typed
  <2>3. GoneOK(c)' /\ WorkOK(c)' BY <1>1, <2>2 DEF CallOK, GoneOK, Cause, Stale, WorkOK
  <2>4. StartOK(c)' BY <1>1, <2>2 DEF CallOK, StartOK, Sees, Uncommitted, Stale
  <2>5. InTime(c)'
    <3>1. clock \in Nat /\ calls[c].now \in Nat /\ TxSpan \in Nat
      BY <2>2, LimitsAssumption DEF IInv, Typed, CallRecords
    <3> QED BY <1>1, <2>1, <2>2, <3>1 DEF CallOK, InTime
  <2> QED BY <2>3, <2>4, <2>5 DEF CallOK
<1>4. Fresh' /\ ConsumedOnce' /\ CapHeld'
  BY <1>1 DEF IInv, Fresh, ConsumedOnce, CapHeld, Present, Uncommitted
<1> QED BY <1>2, <1>3, <1>4 DEF IInv

---------------------------------------------------------------------------
(* The steps inside a transaction.                                         *)

LEMMA SameTypes ==
  ASSUME UNCHANGED load
  PROVE  Uploaded' = Uploaded /\ Consumed' = Consumed /\ CallRecords' = CallRecords /\ Ids' = Ids
<1>1. Uploaded' = Uploaded /\ Consumed' = Consumed BY DEF Uploaded, Consumed
<1>2. Ids' = Ids BY DEF Ids
<1> QED BY <1>1, <1>2 DEF CallRecords

\* A step that changes one transaction's record, and locks that were its or free.
LEMMA MoveEffect ==
  ASSUME Typed, NEW c \in Calls, NEW r \in CallRecords \cup {Nobody},
         calls' = [calls EXCEPT ![c] = r],
         UNCHANGED <<load, clock, uploads, opened, effects>>,
         rowLock' \in [Ids -> Calls \cup {Free}], advisory' \in [Tokens -> Calls \cup {Free}],
         \A i \in Ids : rowLock[i] \in Calls \ {c} => rowLock'[i] = rowLock[i],
         \A t \in Tokens : advisory[t] \in Calls \ {c} => advisory'[t] = advisory[t]
  PROVE  /\ Typed' /\ Kept(c) /\ UNCHANGED <<uploads, opened, effects>>
         /\ calls'[c] = r
<1>1. calls'[c] = r /\ \A d \in Calls \ {c} : calls'[d] = calls[d] BY DEF Typed
<1>2. calls' \in [Calls -> CallRecords \cup {Nobody}] BY DEF Typed
<1>3. Typed' BY <1>2, SameTypes DEF Typed
<1> QED BY <1>1, <1>3 DEF Kept

\* The rows a transaction deletes become its own.
LEMMA DeleteEffect ==
  ASSUME Typed, NEW c \in Calls, calls[c] \in CallRecords, NEW rows \in SUBSET Ids, NEW pc \in Pcs,
         Delete(c, rows, pc)
  PROVE  /\ Typed' /\ Kept(c) /\ UNCHANGED <<uploads, opened, effects, advisory>>
         /\ calls'[c] \in CallRecords
         /\ calls'[c].op = calls[c].op /\ calls'[c].token = calls[c].token
         /\ calls'[c].id = calls[c].id /\ calls'[c].now = calls[c].now
         /\ calls'[c].gone = calls[c].gone \cup rows
         /\ calls'[c].pc = pc /\ calls'[c].full = calls[c].full
         /\ \A i \in Ids : rowLock'[i] = IF i \in rows THEN c ELSE rowLock[i]
<1> DEFINE g == calls[c].gone \cup rows
           r == [calls[c] EXCEPT !.gone = g, !.pc = pc]
<1>1. g \in SUBSET Ids BY DEF CallRecords
<1>2. /\ calls' = [calls EXCEPT ![c].gone = @ \cup rows, ![c].pc = pc]
      /\ rowLock' = [i \in Ids |-> IF i \in rows THEN c ELSE rowLock[i]]
      /\ UNCHANGED <<load, clock, uploads, opened, advisory, effects>>
      /\ \A i \in rows : rowLock[i] \in {Free, c}
  BY DEF Delete, MayLock
<1>3. calls' = [calls EXCEPT ![c] = r] BY <1>2 DEF Typed
<1> HIDE DEF g
<1>4. /\ r \in CallRecords /\ r.op = calls[c].op /\ r.token = calls[c].token /\ r.id = calls[c].id
      /\ r.now = calls[c].now /\ r.gone = g /\ r.pc = pc /\ r.full = calls[c].full
  BY <1>1 DEF CallRecords
<1> HIDE DEF r
<1>5. rowLock' \in [Ids -> Calls \cup {Free}] BY <1>2 DEF Typed
<1>6. \A i \in Ids : rowLock[i] \in Calls \ {c} => rowLock'[i] = rowLock[i]
  BY <1>2, NamesAssumption
<1>7. advisory' \in [Tokens -> Calls \cup {Free}] BY <1>2 DEF Typed
<1>8. /\ Typed' /\ Kept(c) /\ UNCHANGED <<uploads, opened, effects>> /\ calls'[c] = r
  BY <1>2, <1>3, <1>4, <1>5, <1>6, <1>7, MoveEffect
<1> QED BY <1>2, <1>4, <1>8 DEF g

LEMMA BeginLocal ==
  ASSUME IInv, NEW c \in Calls, NEW op \in AllOps, NEW t \in Tokens, NEW i \in Nat, Begin(c, op, t, i)
  PROVE  Local(c)
<1> DEFINE pc == IF op = "start" THEN "advisory" ELSE "cleanup"
           r == [op |-> op, pc |-> pc, token |-> t, id |-> i, now |-> clock, gone |-> {},
                 up |-> NoRow, full |-> FALSE]
<1>0. Typed /\ clock \in Nat BY DEF IInv, Typed
<1>1. pc \in Pcs BY DEF Pcs
<1> HIDE DEF pc
<1>2. /\ r \in CallRecords /\ r.op = op /\ r.pc = pc /\ r.now = clock /\ r.gone = {}
      /\ r.token = t /\ r.full = FALSE
  BY <1>0, <1>1 DEF CallRecords
<1>3. /\ calls' = [calls EXCEPT ![c] = r]
      /\ UNCHANGED <<load, clock, uploads, opened, rowLock, advisory, effects>>
  BY DEF Begin, pc
<1> HIDE DEF r
<1>4. /\ Typed' /\ Kept(c) /\ UNCHANGED <<uploads, opened, effects>> /\ calls'[c] = r
  BY <1>0, <1>2, <1>3, MoveEffect DEF Typed
<1>5. GoneOK(c)' /\ WorkOK(c)' BY <1>2, <1>4 DEF GoneOK, WorkOK, pc
<1>6. StartOK(c)' BY <1>2, <1>4 DEF StartOK, pc
<1>7. InTime(c)' BY <1>0, <1>2, <1>3, <1>4, LimitsAssumption DEF InTime
<1> QED BY <1>4, <1>5, <1>6, <1>7 DEF Local, CallOK

LEMMA RollbackLocal ==
  ASSUME IInv, NEW c \in Calls, Rollback(c)
  PROVE  Local(c)
<1>0. Typed BY DEF IInv
<1>1. /\ rowLock' = Released(c, rowLock) /\ advisory' = Released(c, advisory)
      /\ calls' = [calls EXCEPT ![c] = Nobody]
      /\ UNCHANGED <<load, clock, uploads, opened, effects>>
  BY DEF Rollback
<1>2. /\ rowLock' \in [Ids -> Calls \cup {Free}] /\ advisory' \in [Tokens -> Calls \cup {Free}]
      /\ \A i \in Ids : rowLock[i] \in Calls \ {c} => rowLock'[i] = rowLock[i]
      /\ \A t \in Tokens : advisory[t] \in Calls \ {c} => advisory'[t] = advisory[t]
  BY <1>0, <1>1 DEF Released, Typed
<1>3. /\ Typed' /\ Kept(c) /\ UNCHANGED <<uploads, opened, effects>> /\ calls'[c] = Nobody
  BY <1>0, <1>1, <1>2, MoveEffect
<1> QED BY <1>3 DEF Local

\* After the cleanup a transaction sees no row that had expired when it began.
LEMMA CleanupLocal ==
  ASSUME IInv, NEW c \in Calls, cleanupExpired(c)
  PROVE  Local(c)
<1> DEFINE k == calls[c]
           rows == {i \in Sees(c) : uploads[i].expires <= k.now}
           pc == IF k.op = "start" THEN "count" ELSE "lock"
<1>0. Typed BY DEF IInv
<1>1. At(c, "cleanup") /\ Delete(c, rows, pc) BY DEF cleanupExpired
<1>2. k \in CallRecords /\ k # Nobody /\ k.pc = "cleanup" BY <1>0, <1>1, AtType
<1>3. CallOK(c) BY <1>2 DEF IInv, CallsOK
<1>4. rows \in SUBSET Ids /\ pc \in Pcs BY DEF Sees, Pcs
<1> HIDE DEF rows, pc
<1>5. /\ Typed' /\ Kept(c) /\ UNCHANGED <<uploads, opened, effects, advisory>>
      /\ calls'[c] \in CallRecords
      /\ calls'[c].op = k.op /\ calls'[c].token = k.token /\ calls'[c].now = k.now
      /\ calls'[c].gone = k.gone \cup rows
      /\ calls'[c].pc = pc /\ calls'[c].full = k.full
      /\ \A i \in Ids : rowLock'[i] = IF i \in rows THEN c ELSE rowLock[i]
  BY <1>0, <1>1, <1>2, <1>4, DeleteEffect
<1>6. Sees(c)' = Sees(c) \ rows BY <1>5 DEF Sees, Kept, Ids
<1>t. (\A i \in Sees(c) : uploads[i].expires \in Nat) /\ k.now \in Nat
  BY <1>0, <1>2, LiveRow DEF Sees, CallRecords, Uploaded
<1>7. GoneOK(c)'
  <2>1. SUFFICES ASSUME NEW i \in k.gone \cup rows
                 PROVE  rowLock'[i] = c /\ uploads[i].live /\ Cause(calls'[c], uploads[i])
    BY <1>5 DEF GoneOK, Cause
  <2>2. CASE i \in rows BY <1>4, <1>5, <2>2 DEF rows, Sees, Cause
  <2>3. CASE i \in k.gone /\ i \notin rows
    <3>1. i \in Ids BY <1>2, <2>3 DEF CallRecords
    <3> QED BY <1>3, <1>5, <2>3, <3>1 DEF CallOK, GoneOK, Cause, Stale
  <2> QED BY <2>1, <2>2, <2>3
<1>8. WorkOK(c)' BY <1>5 DEF WorkOK, pc
<1>9. StartOK(c)'
  <2>1. \A i \in Sees(c)' : uploads[i].expires > k.now BY <1>6, <1>t DEF rows
  <2> QED BY <1>2, <1>3, <1>5, <2>1 DEF CallOK, StartOK, pc
<1>10. InTime(c)' BY <1>3, <1>5 DEF CallOK, InTime, Kept
<1> QED BY <1>5, <1>7, <1>8, <1>9, <1>10 DEF Local, CallOK

LEMMA SerializeLocal ==
  ASSUME IInv, NEW c \in Calls, SerializeStarts(c)
  PROVE  Local(c)
<1> DEFINE k == calls[c]
<1>0. Typed BY DEF IInv
<1>1. /\ At(c, "advisory") /\ advisory[k.token] = Free
      /\ advisory' = [advisory EXCEPT ![k.token] = c]
      /\ calls' = [calls EXCEPT ![c].pc = "cleanup"]
      /\ UNCHANGED <<load, clock, uploads, opened, rowLock, effects>>
  BY DEF SerializeStarts, GoTo
<1>2. k \in CallRecords /\ k # Nobody /\ k.pc = "advisory" BY <1>0, <1>1, AtType
<1>3. CallOK(c) BY <1>2 DEF IInv, CallsOK
<1>4. k.token \in Tokens /\ k.full \in BOOLEAN /\ "cleanup" \in Pcs BY <1>2 DEF CallRecords, Pcs
<1>5. /\ advisory' \in [Tokens -> Calls \cup {Free}] /\ advisory'[k.token] = c
      /\ \A t \in Tokens : advisory[t] \in Calls \ {c} => advisory'[t] = advisory[t]
  BY <1>0, <1>1, <1>4, NamesAssumption DEF Typed
<1> DEFINE r == [k EXCEPT !.pc = "cleanup"]
<1>6. calls' = [calls EXCEPT ![c] = r] BY <1>0, <1>1 DEF Typed
<1>12. /\ r \in CallRecords /\ r.op = k.op /\ r.token = k.token /\ r.now = k.now
       /\ r.gone = k.gone /\ r.pc = "cleanup" /\ r.full = k.full
  BY <1>2, <1>4 DEF CallRecords
<1> HIDE DEF r
<1>13. rowLock' \in [Ids -> Calls \cup {Free}] BY <1>0, <1>1 DEF Typed
<1>14. /\ Typed' /\ Kept(c) /\ UNCHANGED <<uploads, opened, effects>> /\ calls'[c] = r
  BY <1>0, <1>1, <1>5, <1>6, <1>12, <1>13, MoveEffect, ZenonT(120)
<1>7. /\ Typed' /\ Kept(c) /\ UNCHANGED <<uploads, opened, effects>>
      /\ calls'[c].op = k.op /\ calls'[c].token = k.token /\ calls'[c].now = k.now
      /\ calls'[c].gone = k.gone /\ calls'[c].pc = "cleanup" /\ calls'[c].full = k.full
  BY <1>12, <1>14
<1>8. GoneOK(c)' BY <1>1, <1>3, <1>7 DEF CallOK, GoneOK, Cause, Stale
<1>9. WorkOK(c)' BY <1>7 DEF WorkOK
<1>10. StartOK(c)' BY <1>3, <1>5, <1>7, <1>2 DEF CallOK, StartOK
<1>11. InTime(c)' BY <1>3, <1>7 DEF CallOK, InTime, Kept
<1> QED BY <1>7, <1>8, <1>9, <1>10, <1>11 DEF Local, CallOK

\* Count and Recount: the rows a start sees of its token have not expired, so
\* the count is theirs.
LEMMA CountIsAll ==
  ASSUME IInv, NEW c \in Calls, NEW p \in {"count", "reap", "recount", "insert"}, At(c, p)
  PROVE  countActive(c) = Cardinality(Uncommitted(calls[c].token, Sees(c)))
<1>1. calls[c] # Nobody /\ calls[c].pc = p BY AtType DEF IInv
<1>2. \A i \in Sees(c) : uploads[i].expires > calls[c].now BY <1>1 DEF IInv, CallsOK, CallOK, StartOK
<1>3. {i \in Uncommitted(calls[c].token, Sees(c)) : uploads[i].expires > calls[c].now}
        = Uncommitted(calls[c].token, Sees(c))
  BY <1>2 DEF Uncommitted
<1> QED BY <1>3 DEF countActive

LEMMA SeenFinite ==
  ASSUME Typed, NEW c \in Calls, NEW t
  PROVE  /\ IsFiniteSet(Uncommitted(t, Sees(c))) /\ Cardinality(Uncommitted(t, Sees(c))) \in Nat
<1>1. Uncommitted(t, Sees(c)) \in SUBSET Ids BY DEF Uncommitted, Sees
<1>2. IsFiniteSet(Uncommitted(t, Sees(c))) BY <1>1, BoundsTyped, FS_Subset
<1> QED BY <1>2, FS_CardinalityType

LEMMA CountLocal ==
  ASSUME IInv, NEW c \in Calls, Count(c) \/ Recount(c)
  PROVE  Local(c)
<1> DEFINE k == calls[c]
           mine == Uncommitted(k.token, Sees(c))
           room == Cardinality(mine) < MaxActiveUploads
<1>0. Typed BY DEF IInv
<1>1. PICK p \in {"count", "recount"} : At(c, p) BY DEF Count, Recount
<1>2. k \in CallRecords /\ k # Nobody /\ k.pc = p BY <1>0, <1>1, AtType
<1>3. CallOK(c) BY <1>2 DEF IInv, CallsOK
<1>4. countActive(c) = Cardinality(mine) /\ Cardinality(mine) \in Nat /\ MaxActiveUploads \in Nat
  BY <1>0, <1>1, CountIsAll, SeenFinite, LimitsAssumption
<1>6. "reap" \in Pcs /\ "insert" \in Pcs BY DEF Pcs
<1>7. PICK q \in {"reap", "insert"}, f \in BOOLEAN :
        /\ UNCHANGED <<load, clock, uploads, opened, rowLock, advisory, effects>>
        /\ calls' = [calls EXCEPT ![c] = [k EXCEPT !.pc = q, !.full = f]]
        /\ q = "insert" => room
        /\ q = "reap" => f
        /\ k.full => f
  <2>1. CASE Count(c)
    <3> DEFINE full == countActive(c) >= MaxActiveUploads
               q == IF full THEN "reap" ELSE "insert"
    <3>1. /\ calls' = [calls EXCEPT ![c].pc = q, ![c].full = full] /\ k.pc = "count"
          /\ UNCHANGED <<load, clock, uploads, opened, rowLock, advisory, effects>>
      BY <2>1, <1>0, AtType DEF Count
    <3>2. full <=> ~room BY <1>4
    <3>3. ~k.full BY <1>3, <3>1 DEF CallOK, StartOK
    <3>4. q \in {"reap", "insert"} /\ full \in BOOLEAN /\ (q = "insert" => room) /\ (q = "reap" => full)
      BY <3>2
    <3> HIDE DEF full, q
    <3>5. calls' = [calls EXCEPT ![c] = [k EXCEPT !.pc = q, !.full = full]] BY <1>0, <3>1 DEF Typed
    <3> QED BY <3>1, <3>3, <3>4, <3>5
  <2>2. CASE Recount(c)
    <3>1. /\ calls' = [calls EXCEPT ![c].pc = "insert"] /\ room
          /\ UNCHANGED <<load, clock, uploads, opened, rowLock, advisory, effects>>
      BY <1>4, <2>2 DEF Recount, GoTo
    <3> DEFINE f == k.full
    <3>2. f \in BOOLEAN BY <1>2 DEF CallRecords
    <3>3. [k EXCEPT !.pc = "insert"] = [k EXCEPT !.pc = "insert", !.full = f] BY <1>2 DEF CallRecords
    <3>4. calls' = [calls EXCEPT ![c] = [k EXCEPT !.pc = "insert", !.full = f]] BY <1>0, <3>1, <3>3 DEF Typed
    <3>5. k.full => f OBVIOUS
    <3> HIDE DEF f
    <3> QED BY <3>1, <3>2, <3>4, <3>5
  <2> QED BY <2>1, <2>2
<1> DEFINE r == [k EXCEPT !.pc = q, !.full = f]
<1>15. /\ r \in CallRecords /\ r.op = k.op /\ r.token = k.token /\ r.now = k.now
       /\ r.gone = k.gone /\ r.pc = q /\ r.full = f
  BY <1>2, <1>6 DEF CallRecords
<1>16. calls' = [calls EXCEPT ![c] = r] BY <1>7
<1> HIDE DEF r
<1>17. /\ Typed' /\ Kept(c) /\ UNCHANGED <<uploads, opened, effects>> /\ calls'[c] = r
  BY <1>0, <1>7, <1>15, <1>16, MoveEffect DEF Typed
<1>8. /\ Typed' /\ Kept(c) /\ UNCHANGED <<uploads, opened, effects>>
      /\ calls'[c].op = k.op /\ calls'[c].token = k.token /\ calls'[c].now = k.now
      /\ calls'[c].gone = k.gone /\ calls'[c].pc = q /\ calls'[c].full = f
  BY <1>15, <1>17
<1>9. k.op = "start" BY <1>2, <1>3 DEF CallOK, StartOK
<1>10. Sees(c)' = Sees(c) BY <1>8 DEF Sees, Kept, Ids
<1>11. GoneOK(c)'
  <2>1. \A i \in k.gone : /\ i \in Ids /\ rowLock[i] = c /\ uploads[i].live /\ Cause(k, uploads[i])
    BY <1>2, <1>3 DEF CallOK, GoneOK, CallRecords
  <2> QED BY <1>7, <1>8, <2>1 DEF GoneOK, Cause, Stale
<1>12. WorkOK(c)' BY <1>8 DEF WorkOK
<1>13. StartOK(c)'
  <2>1. Uncommitted(k.token, Sees(c))' = mine BY <1>8, <1>10 DEF Uncommitted
  <2> HIDE DEF mine
  <2> QED BY <1>2, <1>3, <1>7, <1>8, <1>9, <1>10, <2>1 DEF CallOK, StartOK
<1>14. InTime(c)' BY <1>3, <1>8 DEF CallOK, InTime, Kept
<1> QED BY <1>8, <1>11, <1>12, <1>13, <1>14 DEF Local, CallOK

\* The reaper takes the stale uploads of its token, after the cap was found in
\* the way; the start sees none of them afterwards.
LEMMA ReapLocal ==
  ASSUME IInv, NEW c \in Calls, Reap(c)
  PROVE  Local(c)
<1> DEFINE k == calls[c]
           rows == {i \in Uncommitted(k.token, Sees(c)) : Stale(uploads[i], k.now)}
<1>0. Typed BY DEF IInv
<1>1. At(c, "reap") /\ Delete(c, rows, "recount") BY DEF Reap
<1>2. k \in CallRecords /\ k # Nobody /\ k.pc = "reap" BY <1>0, <1>1, AtType
<1>3. CallOK(c) BY <1>2 DEF IInv, CallsOK
<1>4. rows \in SUBSET Ids /\ "recount" \in Pcs BY DEF Uncommitted, Sees, Pcs
<1>s. k.op = "start" /\ k.full BY <1>2, <1>3 DEF CallOK, StartOK
<1> HIDE DEF rows
<1>5. /\ Typed' /\ Kept(c) /\ UNCHANGED <<uploads, opened, effects, advisory>>
      /\ calls'[c] \in CallRecords
      /\ calls'[c].op = k.op /\ calls'[c].token = k.token /\ calls'[c].now = k.now
      /\ calls'[c].gone = k.gone \cup rows
      /\ calls'[c].pc = "recount" /\ calls'[c].full = k.full
      /\ \A i \in Ids : rowLock'[i] = IF i \in rows THEN c ELSE rowLock[i]
  BY <1>0, <1>1, <1>2, <1>4, DeleteEffect
<1>6. Sees(c)' = Sees(c) \ rows BY <1>5 DEF Sees, Kept, Ids
<1>7. GoneOK(c)'
  <2>1. SUFFICES ASSUME NEW i \in k.gone \cup rows
                 PROVE  rowLock'[i] = c /\ uploads[i].live /\ Cause(calls'[c], uploads[i])
    BY <1>5 DEF GoneOK, Cause, Stale
  <2>2. CASE i \in rows BY <1>4, <1>5, <1>s, <2>2 DEF rows, Uncommitted, Sees, Cause
  <2>3. CASE i \in k.gone /\ i \notin rows
    <3>1. i \in Ids BY <1>2, <2>3 DEF CallRecords
    <3> QED BY <1>3, <1>5, <2>3, <3>1 DEF CallOK, GoneOK, Cause, Stale
  <2> QED BY <2>1, <2>2, <2>3
<1>8. WorkOK(c)' BY <1>5 DEF WorkOK
<1>9. StartOK(c)'
  <2>1. \A i \in Sees(c)' : uploads'[i].expires > k.now
    BY <1>2, <1>3, <1>5, <1>6 DEF CallOK, StartOK
  <2>2. \A i \in Uncommitted(k.token, Sees(c))' : ~Stale(uploads'[i], k.now)
    BY <1>5, <1>6 DEF rows, Uncommitted
  <2> QED BY <1>2, <1>3, <1>5, <1>s, <2>1, <2>2 DEF CallOK, StartOK, Stale
<1>10. InTime(c)' BY <1>3, <1>5 DEF CallOK, InTime, Kept
<1> QED BY <1>5, <1>7, <1>8, <1>9, <1>10 DEF Local, CallOK

\* The row is locked when it is read, so it stays as it was read.
LEMMA LockLocal ==
  ASSUME IInv, NEW c \in Calls, lockUpload(c)
  PROVE  Local(c)
<1> DEFINE k == calls[c]
           u == uploads[k.id]
           r == [k EXCEPT !.pc = "work", !.up = u]
<1>0. Typed BY DEF IInv
<1>1. /\ At(c, "lock") /\ Addressed(c, k.id) /\ rowLock[k.id] \in {Free, c}
      /\ rowLock' = [rowLock EXCEPT ![k.id] = c]
      /\ calls' = [calls EXCEPT ![c].pc = "work", ![c].up = u]
      /\ UNCHANGED <<load, clock, uploads, opened, advisory, effects>>
  BY DEF lockUpload, MayLock
<1>2. k \in CallRecords /\ k # Nobody /\ k.pc = "lock" BY <1>0, <1>1, AtType
<1>3. CallOK(c) BY <1>2 DEF IInv, CallsOK
<1>4. /\ k.id \in Ids /\ u.live /\ k.id \notin k.gone
      /\ k.op # "put" => u.token = k.token
  BY <1>1 DEF Addressed, Sees
<1>5. u \in Uploaded /\ "work" \in Pcs BY <1>0, <1>4, LiveRow DEF Pcs
<1>6. calls' = [calls EXCEPT ![c] = r] BY <1>0, <1>1 DEF Typed
<1> HIDE DEF u
<1>7. /\ r \in CallRecords /\ r.op = k.op /\ r.token = k.token /\ r.now = k.now
      /\ r.gone = k.gone /\ r.pc = "work" /\ r.full = k.full /\ r.id = k.id /\ r.up = u
  BY <1>2, <1>5 DEF CallRecords
<1> HIDE DEF r
<1>8. /\ rowLock' \in [Ids -> Calls \cup {Free}] /\ rowLock'[k.id] = c
      /\ \A i \in Ids : i # k.id => rowLock'[i] = rowLock[i]
  BY <1>0, <1>1, <1>4 DEF Typed
<1>9. \A i \in Ids : rowLock[i] \in Calls \ {c} => rowLock'[i] = rowLock[i]
  BY <1>1, <1>8, NamesAssumption
<1>10. /\ Typed' /\ Kept(c) /\ UNCHANGED <<uploads, opened, effects>> /\ calls'[c] = r
  BY <1>0, <1>1, <1>6, <1>7, <1>8, <1>9, MoveEffect DEF Typed
<1>11. GoneOK(c)'
  <2>1. \A i \in k.gone : i \in Ids /\ rowLock[i] = c /\ uploads[i].live /\ Cause(k, uploads[i])
    BY <1>2, <1>3 DEF CallOK, GoneOK, CallRecords
  <2> QED BY <1>7, <1>8, <1>10, <2>1 DEF GoneOK, Cause, Stale
<1>12. WorkOK(c)' BY <1>4, <1>7, <1>8, <1>10 DEF WorkOK, Kept, Ids, u
<1>13. StartOK(c)' BY <1>2, <1>3, <1>7, <1>10 DEF CallOK, StartOK
<1>14. InTime(c)' BY <1>3, <1>7, <1>10 DEF CallOK, InTime, Kept
<1> QED BY <1>7, <1>10, <1>11, <1>12, <1>13, <1>14 DEF Local, CallOK

---------------------------------------------------------------------------
(* The commits.                                                            *)

LEMMA CommitEffect ==
  ASSUME Typed, NEW c \in Calls, NEW written \in [Ids -> Uploaded \cup {NoRow}],
         Commit(c, written), opened' \in Nat, effects' \in [Ids -> Seq(Consumed)]
  PROVE  /\ Typed' /\ Kept(c) /\ calls'[c] = Nobody
         /\ \A i \in Ids : uploads'[i] = IF i \in calls[c].gone THEN NoRow ELSE written[i]
<1>1. /\ uploads' = [i \in Ids |-> IF i \in calls[c].gone THEN NoRow ELSE written[i]]
      /\ rowLock' = Released(c, rowLock) /\ advisory' = Released(c, advisory)
      /\ calls' = [calls EXCEPT ![c] = Nobody] /\ UNCHANGED <<load, clock>>
  BY DEF Commit
<1>2. uploads' \in [Ids -> Uploaded \cup {NoRow}] BY <1>1
<1>3. /\ rowLock' \in [Ids -> Calls \cup {Free}] /\ advisory' \in [Tokens -> Calls \cup {Free}]
      /\ \A i \in Ids : rowLock[i] \in Calls \ {c} => rowLock'[i] = rowLock[i]
      /\ \A t \in Tokens : advisory[t] \in Calls \ {c} => advisory'[t] = advisory[t]
  BY <1>1 DEF Released, Typed
<1>4. /\ calls' \in [Calls -> CallRecords \cup {Nobody}] /\ calls'[c] = Nobody
      /\ \A d \in Calls \ {c} : calls'[d] = calls[d]
  BY <1>1 DEF Typed
<1>5. Typed' BY <1>1, <1>2, <1>3, <1>4, SameTypes DEF Typed
<1> QED BY <1>1, <1>3, <1>4, <1>5 DEF Kept

LEMMA InsertInserts ==
  ASSUME IInv, NEW c \in Calls, NEW kind \in load.kinds, NEW doc \in load.docs,
         NEW ticket \in {"none", "open"}, Insert(c, kind, doc, ticket)
  PROVE  Inserted(c)
<1> DEFINE k == calls[c]
           n == opened + 1
           row == [live |-> TRUE, token |-> k.token, kind |-> kind, doc |-> doc,
                   chunks |-> <<>>, received |-> 0, next |-> 0,
                   expires |-> k.now + TTL, updated |-> k.now,
                   ticket |-> ticket, ticketExpires |-> k.now + TicketTTL, key |-> NoKey]
<1>0. Typed BY DEF IInv
<1>1. /\ At(c, "insert") /\ opened < load.rows /\ opened' = n /\ UNCHANGED effects
      /\ Commit(c, [uploads EXCEPT ![n] = row])
  BY DEF Insert
<1>2. k \in CallRecords /\ k # Nobody /\ k.pc = "insert" BY <1>0, <1>1, AtType
<1>3. CallOK(c) BY <1>2 DEF IInv, CallsOK
<1>4. n \in Ids /\ n \in Nat /\ n > opened
  <2>1. opened \in Nat /\ load.rows \in Nat BY <1>0, BoundsTyped DEF Typed
  <2> QED BY <1>1, <2>1 DEF Ids
<1>5. row \in Uploaded
  <2>1. k.token \in Tokens /\ k.now \in Nat BY <1>2 DEF CallRecords
  <2>2. k.now + TTL \in Nat /\ k.now + TicketTTL \in Nat BY <2>1, LimitsAssumption
  <2>3. <<>> \in Seq(Seq(Int)) OBVIOUS
  <2> HIDE DEF k
  <2> QED BY <2>1, <2>2, <2>3 DEF Uploaded
<1>6. row.live /\ row.token = k.token /\ row.key = NoKey /\ row.expires = k.now + TTL /\ row.updated = k.now
  OBVIOUS
<1>s. Sound(row)
  <2>1. doc \in Seq(Int) BY <1>0, BoundsTyped
  <2>2. Len(doc) = 0 => doc = <<>> BY <2>1
  <2>3. row.received = 0 /\ row.next = 0 /\ row.chunks = <<>> /\ row.doc = doc /\ Len(<<>>) = 0 OBVIOUS
  <2> HIDE DEF row
  <2> QED BY <2>2, <2>3, JoinedEmpty DEF Sound
<1> HIDE DEF row
<1>7. [uploads EXCEPT ![n] = row] \in [Ids -> Uploaded \cup {NoRow}] BY <1>0, <1>4, <1>5 DEF Typed
<1>8. /\ [uploads EXCEPT ![n] = row][n] = row
      /\ \A i \in Ids \ {n} : [uploads EXCEPT ![n] = row][i] = uploads[i]
  BY <1>0, <1>4 DEF Typed
<1>9. opened' \in Nat /\ effects' \in [Ids -> Seq(Consumed)] BY <1>0, <1>1, <1>4 DEF Typed
<1> DEFINE w == [uploads EXCEPT ![n] = row]
<1> HIDE DEF w, n
<1>10. /\ Typed' /\ Kept(c) /\ calls'[c] = Nobody
       /\ \A i \in Ids : uploads'[i] = IF i \in k.gone THEN NoRow ELSE w[i]
  <2>1. w \in [Ids -> Uploaded \cup {NoRow}] /\ Commit(c, w) BY <1>1, <1>7 DEF w
  <2> QED BY <1>0, <1>9, <2>1, CommitEffect
<1>11. n \notin k.gone
  <2>1. ~uploads[n].live BY <1>4 DEF IInv, Fresh
  <2> QED BY <1>3, <2>1 DEF CallOK, GoneOK
<1>12. uploads'[n] = row /\ \A i \in Ids \ {n} : uploads'[i] = IF i \in k.gone THEN NoRow ELSE uploads[i]
  BY <1>4, <1>8, <1>10, <1>11 DEF w
<1>13. k.op = "start" BY <1>2, <1>3 DEF CallOK, StartOK
<1> QED BY <1>1, <1>2, <1>4, <1>6, <1>s, <1>10, <1>12, <1>13 DEF Inserted, n

\* A commit at work writes the row it holds.
LEMMA RowCommit ==
  ASSUME IInv, NEW c \in Calls, At(c, "work"), NEW r \in Uploaded \cup {NoRow}, CommitRow(c, r),
         UNCHANGED opened, effects' \in [Ids -> Seq(Consumed)],
         \A i \in Ids : i # calls[c].id => effects'[i] = effects[i],
         uploads'[calls[c].id] = r => Writes(c, calls[c].id)
  PROVE  Committed(c)
<1> DEFINE k == calls[c]
           n == k.id
           w == [uploads EXCEPT ![n] = r]
<1>0. Typed BY DEF IInv
<1>1. k \in CallRecords /\ k # Nobody /\ k.pc = "work" BY <1>0, AtType
<1>2. CallOK(c) BY <1>1 DEF IInv, CallsOK
<1>3. n \in Ids \ k.gone BY <1>1, <1>2 DEF CallOK, WorkOK
<1>4. w \in [Ids -> Uploaded \cup {NoRow}] /\ w[n] = r /\ \A i \in Ids : i # n => w[i] = uploads[i]
  BY <1>0, <1>3 DEF Typed
<1>5. Commit(c, w) /\ opened' \in Nat BY <1>0 DEF CommitRow, Typed
<1> HIDE DEF w
<1>6. /\ Typed' /\ Kept(c) /\ calls'[c] = Nobody
      /\ \A i \in Ids : uploads'[i] = IF i \in k.gone THEN NoRow ELSE w[i]
  BY <1>0, <1>4, <1>5, CommitEffect
<1>7. ASSUME NEW i \in Ids PROVE Writes(c, i)
  <2>1. CASE i = n BY <1>3, <1>4, <1>6, <2>1
  <2>2. CASE i # n /\ i \in k.gone
    <3>1. rowLock[i] = c /\ uploads[i].live BY <1>2, <2>2 DEF CallOK, GoneOK
    <3> QED BY <1>6, <2>2, <3>1 DEF Writes, Removes
  <2>3. CASE i # n /\ i \notin k.gone BY <1>4, <1>6, <2>3 DEF Writes
  <2> QED BY <2>1, <2>2, <2>3
<1> QED BY <1>1, <1>6, <1>7 DEF Committed

\* What a call at work knows.
LEMMA AtWork ==
  ASSUME IInv, NEW c \in Calls, At(c, "work")
  PROVE  /\ Typed /\ calls[c] \in CallRecords /\ calls[c].id \in Ids
         /\ rowLock[calls[c].id] = c
         /\ calls[c].up = uploads[calls[c].id] /\ calls[c].up.live /\ calls[c].up \in Uploaded
         /\ calls[c].op # "put" => calls[c].up.token = calls[c].token
<1>0. Typed BY DEF IInv
<1>1. calls[c] \in CallRecords /\ calls[c] # Nobody /\ calls[c].pc = "work" BY <1>0, AtType
<1>2. WorkOK(c) BY <1>1 DEF IInv, CallsOK, CallOK
<1> QED BY <1>0, <1>1, <1>2, LiveRow DEF WorkOK

\* Replays and peeks commit the row as it is.
LEMMA SameRowCommits ==
  ASSUME IInv, NEW c \in Calls, At(c, "work"), CommitRow(c, uploads[calls[c].id]),
         UNCHANGED <<opened, effects>>
  PROVE  Committed(c)
<1> DEFINE r == uploads[calls[c].id]
<1>1. r \in Uploaded \cup {NoRow} BY AtWork
<1>2. effects' \in [Ids -> Seq(Consumed)] BY DEF IInv, Typed
<1>3. uploads'[calls[c].id] = r => Writes(c, calls[c].id) BY DEF Writes
<1>4. CommitRow(c, r) OBVIOUS
<1> HIDE DEF r
<1> QED BY <1>1, <1>2, <1>3, <1>4, RowCommit

\* A touched row: what a write leaves of it.
LEMMA TouchedRow ==
  ASSUME Typed, NEW c \in Calls, calls[c] \in CallRecords, NEW r \in Uploaded
  PROVE  /\ Touched(c, r) \in Uploaded
         /\ Touched(c, r).live = r.live /\ Touched(c, r).token = r.token /\ Touched(c, r).doc = r.doc
         /\ Touched(c, r).kind = r.kind /\ Touched(c, r).key = r.key
         /\ Touched(c, r).chunks = r.chunks /\ Touched(c, r).received = r.received
         /\ Touched(c, r).next = r.next
         /\ Touched(c, r).expires = calls[c].now + TTL /\ Touched(c, r).updated = calls[c].now
<1> DEFINE x == calls[c].now + TTL
           y == calls[c].now
<1>1. x \in Nat /\ y \in Nat BY LimitsAssumption DEF CallRecords
<1>2. Touched(c, r) = [r EXCEPT !.expires = x, !.updated = y] BY DEF Touched
<1> HIDE DEF x, y
<1>3. /\ Touched(c, r) \in Uploaded
      /\ Touched(c, r).live = r.live /\ Touched(c, r).token = r.token /\ Touched(c, r).doc = r.doc
      /\ Touched(c, r).kind = r.kind /\ Touched(c, r).key = r.key
      /\ Touched(c, r).chunks = r.chunks /\ Touched(c, r).received = r.received
      /\ Touched(c, r).next = r.next
      /\ Touched(c, r).expires = x /\ Touched(c, r).updated = y
  BY <1>1, <1>2 DEF Uploaded
<1> QED BY <1>3 DEF x, y

LEMMA AppendCommits ==
  ASSUME IInv, NEW c \in Calls, NEW sequence \in Nat, NEW chunk \in load.chunks,
         AppendChunk(c, sequence, chunk)
  PROVE  Committed(c)
<1> DEFINE k == calls[c]
           u == k.up
           ch == Append(u.chunks, chunk)
           rc == u.received + Len(chunk)
           nx == sequence + 1
           v == [u EXCEPT !.chunks = ch, !.received = rc, !.next = nx]
<1>1. /\ At(c, "work") /\ u.key = NoKey /\ UNCHANGED <<opened, effects>>
      /\ \/ CommitRow(c, uploads[k.id])
         \/ sequence = u.next /\ Acceptable(u, chunk) /\ CommitRow(c, Touched(c, v))
  BY DEF AppendChunk, Working
<1>2. /\ Typed /\ k \in CallRecords /\ k.id \in Ids /\ u = uploads[k.id] /\ u.live /\ u \in Uploaded
      /\ rowLock[k.id] = c
  BY <1>1, AtWork
<1>3. CASE CommitRow(c, uploads[k.id]) BY <1>1, <1>3, SameRowCommits
<1>4. CASE sequence = u.next /\ Acceptable(u, chunk) /\ CommitRow(c, Touched(c, v))
  <2>1. chunk \in Seq(Int) BY <1>2, BoundsTyped
  <2>2. u.chunks \in Seq(Seq(Int)) /\ u.received \in Nat BY <1>2 DEF Uploaded
  <2>3. /\ ch \in Seq(Seq(Int)) /\ rc \in Nat /\ nx \in Nat
        /\ \A n \in 1..Len(u.chunks) : n <= Len(ch) /\ ch[n] = u.chunks[n]
    BY <2>1, <2>2, SMTT(60)
  <2>s. Sound(u) => rc = Len(Joined(ch)) /\ nx = Len(ch) /\ (rc = Len(u.doc) => Joined(ch) = u.doc)
    <3>1. Joined(ch) = Joined(u.chunks) \o chunk /\ Joined(u.chunks) \in Seq(Int)
      BY <2>1, <2>2, JoinedAppend
    <3>2. Len(Joined(ch)) = Len(Joined(u.chunks)) + Len(chunk) BY <2>1, <3>1
    <3>3. Len(ch) = Len(u.chunks) + 1 BY <2>1, <2>2
    <3>4. rc = Len(u.doc) => Joined(ch) = u.doc BY <1>4 DEF Acceptable
    <3>5. sequence = u.next BY <1>4
    <3> QED BY <3>2, <3>3, <3>4, <3>5 DEF Sound
  <2> HIDE DEF ch, rc, nx
  <2>4. /\ v \in Uploaded /\ v.live = u.live /\ v.token = u.token /\ v.doc = u.doc /\ v.kind = u.kind
        /\ v.key = u.key /\ v.chunks = ch /\ v.received = rc /\ v.next = nx
    BY <1>2, <2>3 DEF Uploaded
  <2> HIDE DEF v
  <2> DEFINE r == Touched(c, v)
  <2>5. /\ r \in Uploaded /\ r.live = u.live /\ r.token = u.token /\ r.doc = u.doc /\ r.kind = u.kind
        /\ r.key = u.key /\ r.chunks = ch /\ r.received = rc /\ r.next = nx
        /\ r.expires = k.now + TTL /\ r.updated = k.now
    BY <1>2, <2>4, TouchedRow
  <2>6. CommitRow(c, r) BY <1>4
  <2> HIDE DEF r
  <2>7. effects' \in [Ids -> Seq(Consumed)] /\ \A i \in Ids : effects'[i] = effects[i]
    BY <1>1, <1>2 DEF Typed
  <2>t. Sound(u) => Sound(r) BY <2>s, <2>5 DEF Sound
  <2>8. uploads'[k.id] = r => Writes(c, k.id)
    BY <1>1, <1>2, <2>3, <2>5, <2>7, <2>t, ZenonT(120) DEF Writes, Fills, Touches
  <2> QED BY <1>1, <2>5, <2>6, <2>7, <2>8, RowCommit
<1> QED BY <1>1, <1>3, <1>4

LEMMA PutCommits ==
  ASSUME IInv, NEW c \in Calls, NEW content, PutTicketContent(c, content)
  PROVE  Committed(c)
<1> DEFINE k == calls[c]
           u == k.up
           ch == Split(content)
           rc == Len(content)
           nx == Len(Split(content))
           v == [u EXCEPT !.chunks = ch, !.received = rc, !.next = nx, !.ticket = "used"]
<1>1. /\ At(c, "work") /\ u.key = NoKey /\ UNCHANGED <<opened, effects>> /\ content = u.doc
      /\ \/ CommitRow(c, uploads[k.id])
         \/ u.chunks = <<>> /\ CommitRow(c, Touched(c, v))
  BY DEF PutTicketContent, Working
<1>2. /\ Typed /\ k \in CallRecords /\ k.id \in Ids /\ u = uploads[k.id] /\ u.live /\ u \in Uploaded
      /\ rowLock[k.id] = c
  BY <1>1, AtWork
<1>3. CASE CommitRow(c, uploads[k.id]) BY <1>1, <1>3, SameRowCommits
<1>4. CASE u.chunks = <<>> /\ CommitRow(c, Touched(c, v))
  <2>1. content \in Seq(Int) BY <1>1, <1>2, BoundsTyped DEF Uploaded
  <2>2. ch \in Seq(Seq(Int)) /\ rc \in Nat /\ nx \in Nat BY <2>1, SplitType
  <2>s. rc = Len(Joined(ch)) /\ nx = Len(ch) /\ Joined(ch) = u.doc
    BY <1>1, <2>1, JoinedSplit
  <2> HIDE DEF ch, rc, nx
  <2>4. /\ v \in Uploaded /\ v.live = u.live /\ v.token = u.token /\ v.doc = u.doc /\ v.kind = u.kind
        /\ v.key = u.key /\ v.chunks = ch /\ v.received = rc /\ v.next = nx
    BY <1>2, <2>2 DEF Uploaded
  <2> HIDE DEF v
  <2> DEFINE r == Touched(c, v)
  <2>5. /\ r \in Uploaded /\ r.live = u.live /\ r.token = u.token /\ r.doc = u.doc /\ r.kind = u.kind
        /\ r.key = u.key /\ r.chunks = ch /\ r.received = rc /\ r.next = nx
        /\ r.expires = k.now + TTL /\ r.updated = k.now
    BY <1>2, <2>4, TouchedRow
  <2>6. CommitRow(c, r) BY <1>4
  <2> HIDE DEF r
  <2>7. effects' \in [Ids -> Seq(Consumed)] /\ \A i \in Ids : effects'[i] = effects[i]
    BY <1>1, <1>2 DEF Typed
  <2>t. Sound(r) BY <2>s, <2>5 DEF Sound
  <2>8. uploads'[k.id] = r => Writes(c, k.id)
    <3>1. Len(<<>>) = 0 OBVIOUS
    <3>2. \A n \in 1..Len(uploads[k.id].chunks) : FALSE BY <1>2, <1>4, <3>1
    <3> QED BY <1>1, <1>2, <2>5, <2>7, <2>t, <3>2 DEF Writes, Fills, Touches
  <2> QED BY <1>1, <2>5, <2>6, <2>7, <2>8, RowCommit
<1> QED BY <1>1, <1>3, <1>4

\* The consumer runs once: with a receipt the row replays.
LEMMA DeployCommits ==
  ASSUME IInv, NEW c \in Calls, NEW kind \in load.kinds, NEW key \in load.keys, Deploy(c, kind, key)
  PROVE  Committed(c)
<1> DEFINE k == calls[c]
           u == k.up
           v == [u EXCEPT !.key = key, !.chunks = <<>>]
           e == [doc |-> Joined(u.chunks), kind |-> kind, key |-> key]
<1>1. /\ At(c, "work") /\ UNCHANGED opened /\ u.kind = kind
      /\ \/ CommitRow(c, uploads[k.id]) /\ UNCHANGED effects
         \/ /\ u.key = NoKey /\ Verified(u) /\ CommitRow(c, Touched(c, v))
            /\ effects' = [effects EXCEPT ![k.id] = Append(@, e)]
  BY DEF Deploy, Working
<1>2. /\ Typed /\ k \in CallRecords /\ k.id \in Ids /\ u = uploads[k.id] /\ u.live /\ u \in Uploaded
      /\ rowLock[k.id] = c
  BY <1>1, AtWork
<1>3. CASE CommitRow(c, uploads[k.id]) /\ UNCHANGED effects BY <1>1, <1>3, SameRowCommits
<1>4. CASE /\ u.key = NoKey /\ Verified(u) /\ CommitRow(c, Touched(c, v))
           /\ effects' = [effects EXCEPT ![k.id] = Append(@, e)]
  <2>1. Joined(u.chunks) = u.doc BY <1>4 DEF Verified
  <2>2. e = [doc |-> u.doc, kind |-> u.kind, key |-> key] BY <1>1, <2>1
  <2>3. e \in Consumed
    <3>1. u.doc \in Seq(Int) BY <1>2, BoundsTyped DEF Uploaded
    <3> QED BY <1>1, <2>1, <3>1 DEF Consumed
  <2>4. /\ v \in Uploaded /\ v.live = u.live /\ v.token = u.token /\ v.doc = u.doc /\ v.kind = u.kind
        /\ v.key = key
    <3>1. <<>> \in Seq(Seq(Int)) OBVIOUS
    <3> QED BY <1>2, <3>1 DEF Uploaded
  <2> HIDE DEF v, e
  <2> DEFINE r == Touched(c, v)
  <2>5. /\ r \in Uploaded /\ r.live = u.live /\ r.token = u.token /\ r.doc = u.doc /\ r.kind = u.kind
        /\ r.key = key
        /\ r.expires = k.now + TTL /\ r.updated = k.now
    BY <1>2, <2>4, TouchedRow
  <2>6. CommitRow(c, r) BY <1>4
  <2> HIDE DEF r
  <2>7. /\ effects' \in [Ids -> Seq(Consumed)] /\ effects'[k.id] = Append(effects[k.id], e)
        /\ \A i \in Ids : i # k.id => effects'[i] = effects[i]
    <3>1. effects \in [Ids -> Seq(Consumed)] BY <1>2 DEF Typed
    <3>2. effects[k.id] \in Seq(Consumed) BY <1>2, <3>1
    <3>3. Append(effects[k.id], e) \in Seq(Consumed) BY <2>3, <3>2
    <3> QED BY <1>2, <1>4, <3>1, <3>3
  <2>8. uploads'[k.id] = r => Writes(c, k.id)
    <3>1. SUFFICES ASSUME uploads'[k.id] = r PROVE Consumes(c, k.id)
      BY <1>2, <1>4 DEF Writes
    <3>2. Touches(c, k.id) BY <1>2, <2>5, <3>1 DEF Touches
    <3>3. effects'[k.id] = Append(effects[k.id], [doc |-> uploads[k.id].doc, kind |-> uploads[k.id].kind,
                                                  key |-> uploads'[k.id].key])
      BY <1>2, <2>2, <2>5, <2>7, <3>1
    <3> QED BY <2>5, <3>1, <3>2, <3>3 DEF Consumes
  <2> QED BY <1>1, <2>5, <2>6, <2>7, <2>8, RowCommit
<1> QED BY <1>1, <1>3, <1>4

LEMMA CancelCommits ==
  ASSUME IInv, NEW c \in Calls, Cancel(c)
  PROVE  Committed(c)
<1> DEFINE k == calls[c]
<1>1. /\ At(c, "work") /\ k.op = "cancel" /\ k.up.key = NoKey /\ CommitRow(c, NoRow)
      /\ UNCHANGED <<opened, effects>>
  BY DEF Cancel, Working
<1>2. /\ Typed /\ k \in CallRecords /\ k.id \in Ids /\ k.up = uploads[k.id] /\ k.up.live
      /\ rowLock[k.id] = c /\ k.up.token = k.token
  BY <1>1, AtWork
<1>3. effects' \in [Ids -> Seq(Consumed)] /\ \A i \in Ids : effects'[i] = effects[i]
  BY <1>1, <1>2 DEF Typed
<1>4. uploads'[k.id] = NoRow => Writes(c, k.id)
  BY <1>1, <1>2, <1>3 DEF Writes, Removes
<1>5. NoRow \in Uploaded \cup {NoRow} OBVIOUS
<1> QED BY <1>1, <1>3, <1>4, <1>5, RowCommit

LEMMA CancelNothingCommits ==
  ASSUME IInv, NEW c \in Calls, CancelNothing(c)
  PROVE  Committed(c)
<1>1. At(c, "lock") /\ Commit(c, uploads) /\ UNCHANGED <<opened, effects>> BY DEF CancelNothing
<1>2. Typed BY DEF IInv
<1>3. calls[c] \in CallRecords /\ calls[c] # Nobody BY <1>1, <1>2, AtType
<1>4. CallOK(c) BY <1>3 DEF IInv, CallsOK
<1>5. uploads \in [Ids -> Uploaded \cup {NoRow}] /\ opened' \in Nat /\ effects' \in [Ids -> Seq(Consumed)]
  BY <1>1, <1>2 DEF Typed
<1>6. /\ Typed' /\ Kept(c) /\ calls'[c] = Nobody
      /\ \A i \in Ids : uploads'[i] = IF i \in calls[c].gone THEN NoRow ELSE uploads[i]
  BY <1>1, <1>2, <1>5, CommitEffect
<1>7. ASSUME NEW i \in Ids PROVE Writes(c, i)
  BY <1>1, <1>4, <1>6 DEF Writes, Removes, CallOK, GoneOK
<1> QED BY <1>1, <1>3, <1>6, <1>7 DEF Committed

---------------------------------------------------------------------------
(* Every step has one of the shapes.                                       *)

LEMMA InitKeeps == Init => IInv
<1> SUFFICES ASSUME Init PROVE IInv OBVIOUS
<1>1. Typed BY DEF Init, Typed
<1>2. \A i \in Ids : ~uploads[i].live /\ effects[i] = <<>> BY DEF Init, NoRow
<1>3. Fresh /\ ConsumedOnce BY <1>2 DEF Fresh, ConsumedOnce
<1>4. CallsOK BY DEF Init, CallsOK
<1>5. CapHeld
  <2>1. \A t \in Tokens : Uncommitted(t, Present) = {} BY <1>2 DEF Uncommitted, Present
  <2> QED BY <2>1, FS_EmptySet, LimitsAssumption DEF CapHeld
<1> QED BY <1>1, <1>3, <1>4, <1>5 DEF IInv

LEMMA StepShape ==
  ASSUME IInv, [Next]_vars
  PROVE  \/ \E c \in Calls : Local(c) \/ Committed(c) \/ Inserted(c)
         \/ Tick
         \/ UNCHANGED vars
<1>1. load.ops \subseteq AllOps /\ load.sequence \in Nat BY LoadsAssumption DEF IInv, Typed
<1>2. ASSUME NEW c \in Calls, cleanupExpired(c) PROVE Local(c) BY <1>2, CleanupLocal
<1>3. ASSUME NEW c \in Calls, NEW op \in load.ops, NEW t \in Tokens, NEW i \in Nat, Begin(c, op, t, i)
      PROVE  Local(c)
  BY <1>1, <1>3, BeginLocal
<1>4. ASSUME NEW c \in Calls, StartStep(c) PROVE Local(c) \/ Inserted(c)
  <2>1. CASE SerializeStarts(c) BY <2>1, SerializeLocal
  <2>2. CASE Count(c) \/ Recount(c) BY <2>2, CountLocal
  <2>3. CASE Reap(c) BY <2>3, ReapLocal
  <2>4. CASE LimitReached(c) BY <2>4, RollbackLocal DEF LimitReached
  <2>5. CASE \E k \in load.kinds, d \in load.docs, t \in {"none", "open"} : Insert(c, k, d, t)
    BY <2>5, InsertInserts
  <2> QED BY <1>4, <2>1, <2>2, <2>3, <2>4, <2>5 DEF StartStep
<1>5. ASSUME NEW c \in Calls, RowStep(c) PROVE Local(c) \/ Committed(c)
  <2>1. CASE lockUpload(c) BY <2>1, LockLocal
  <2>2. CASE \E n \in 0..load.sequence, b \in load.chunks : AppendChunk(c, n, b)
    <3>1. PICK n \in 0..load.sequence, b \in load.chunks : AppendChunk(c, n, b) BY <2>2
    <3>2. n \in Nat BY <1>1
    <3> QED BY <3>1, <3>2, AppendCommits
  <2>3. CASE \E b \in load.docs \cup load.chunks : PutTicketContent(c, b) BY <2>3, PutCommits
  <2>4. CASE \E k \in load.kinds : Peek(c, k)
    BY <2>4, SameRowCommits DEF Peek, Working
  <2>5. CASE \E k \in load.kinds, key \in load.keys : Deploy(c, k, key) BY <2>5, DeployCommits
  <2>6. CASE Cancel(c) BY <2>6, CancelCommits
  <2>7. CASE CancelNothing(c) BY <2>7, CancelNothingCommits
  <2> QED BY <1>5, <2>1, <2>2, <2>3, <2>4, <2>5, <2>6, <2>7 DEF RowStep
<1>6. ASSUME NEW c \in Calls, Rollback(c) PROVE Local(c) BY <1>6, RollbackLocal
<1>7. None \in Nat /\ \A i \in 1..opened : i \in Nat BY DEF None, IInv, Typed
<1>8. CASE Next BY <1>2, <1>3, <1>4, <1>5, <1>6, <1>7, <1>8 DEF Next
<1> QED BY <1>8

\* IInv is inductive: it holds in every reachable state, for every value of the
\* constants.
THEOREM Invariant == Spec => []IInv
<1>1. IInv /\ [Next]_vars => IInv'
  <2> SUFFICES ASSUME IInv, [Next]_vars PROVE IInv' OBVIOUS
  <2>1. CASE UNCHANGED vars
    <3>1. UNCHANGED <<load, clock, uploads, opened, rowLock, advisory, calls, effects>> /\ Ids' = Ids
      BY <2>1 DEF vars, Ids
    <3>2. Typed' BY <3>1, SameTypes DEF IInv, Typed
    <3>3. ASSUME NEW c \in Calls, CallOK(c) PROVE CallOK(c)'
      BY <3>1, <3>3 DEF CallOK, GoneOK, WorkOK, StartOK, InTime, Cause, Stale, Uncommitted, Sees
    <3>4. CallsOK' BY <3>1, <3>3 DEF IInv, CallsOK
    <3>5. Fresh' /\ ConsumedOnce' /\ CapHeld'
      BY <3>1 DEF IInv, Fresh, ConsumedOnce, CapHeld, Present, Uncommitted
    <3> QED BY <3>2, <3>4, <3>5 DEF IInv
  <2>2. CASE Tick BY <2>2, TickKeeps
  <2>3. CASE \E c \in Calls : Local(c) \/ Committed(c) \/ Inserted(c)
    BY <2>3, LocalKeeps, CommittedKeeps, InsertedKeeps
  <2> QED BY <2>1, <2>2, <2>3, StepShape
<1> QED BY <1>1, InitKeeps, PTL DEF Spec

---------------------------------------------------------------------------
(* The results.                                                            *)

\* No token ever holds more than MaxActiveUploads uncommitted uploads
\* (reserveUploadSlot), however its starts interleave with cleanups, reaps,
\* commits, cancellations, rollbacks and crashes.
THEOREM CapIsHeld == Spec => []CapHeld
<1>1. IInv => CapHeld BY DEF IInv
<1> QED BY <1>1, Invariant, PTL

\* Deploy consumes an upload at most once, and its receipt is there exactly when
\* the consumer's change is.
THEOREM ConsumedAtMostOnce == Spec => []ConsumedOnce
<1>1. IInv => ConsumedOnce BY DEF IInv
<1> QED BY <1>1, Invariant, PTL

\* Rows are removed, and starts refused with page_upload_limit, only for cause
\* (cleanupExpired, reserveUploadSlot, Cancel).
THEOREM SlotsAreFair == Spec => SlotsFair
<1> DEFINE Removed ==
      \A i \in Ids : uploads[i].live /\ ~uploads'[i].live =>
        \/ uploads[i].expires <= clock
        \/ /\ uploads[i].key = NoKey
           /\ \E c \in Calls : /\ calls[c] # Nobody /\ calls[c].token = uploads[i].token
                               /\ \/ calls[c].op = "cancel" /\ calls[c].id = i
                                  \/ /\ calls[c].op = "start" /\ calls[c].full
                                     /\ uploads[i].updated < clock - StaleAfter
           Refused ==
      \A c \in Calls : LimitReached(c) =>
        Cardinality({i \in Uncommitted(calls[c].token, Present) :
                       uploads[i].updated >= calls[c].now - StaleAfter}) >= MaxActiveUploads
<1>1. ASSUME IInv, [Next]_vars PROVE Removed
  <2>1. SUFFICES ASSUME NEW i \in Ids, uploads[i].live, ~uploads'[i].live
        PROVE  \/ uploads[i].expires <= clock
               \/ /\ uploads[i].key = NoKey
                  /\ \E c \in Calls : /\ calls[c] # Nobody /\ calls[c].token = uploads[i].token
                                      /\ \/ calls[c].op = "cancel" /\ calls[c].id = i
                                         \/ /\ calls[c].op = "start" /\ calls[c].full
                                            /\ uploads[i].updated < clock - StaleAfter
    OBVIOUS
  <2>2. Typed /\ clock \in Nat /\ StaleAfter \in Nat BY <1>1, LimitsAssumption DEF IInv, Typed
  <2>3. uploads[i] \in Uploaded BY <2>1, <2>2, LiveRow
  <2>4. uploads[i].expires \in Nat /\ uploads[i].updated \in Nat BY <2>3 DEF Uploaded
  <2>5. ASSUME NEW c \in Calls, calls[c] # Nobody, i \in calls[c].gone
        PROVE  \/ uploads[i].expires <= clock
               \/ /\ uploads[i].key = NoKey /\ calls[c].token = uploads[i].token
                  /\ calls[c].op = "start" /\ calls[c].full
                  /\ uploads[i].updated < clock - StaleAfter
    <3>1. calls[c].now \in Nat BY <2>2, <2>5 DEF Typed, CallRecords
    <3>2. GoneOK(c) /\ InTime(c) BY <1>1, <2>5 DEF IInv, CallsOK, CallOK
    <3>3. calls[c].now <= clock BY <3>2 DEF InTime
    <3>4. Cause(calls[c], uploads[i]) BY <2>5, <3>2 DEF GoneOK
    <3> QED BY <2>2, <2>4, <3>1, <3>3, <3>4 DEF Cause, Stale
  <2>6. CASE \E c \in Calls : Local(c) BY <2>1, <2>6 DEF Local
  <2>7. CASE \E c \in Calls : Committed(c)
    <3>1. PICK c \in Calls : Committed(c) BY <2>7
    <3>2. calls[c] # Nobody /\ Writes(c, i) BY <3>1 DEF Committed
    <3>3. Removes(c, i) BY <2>1, <3>2 DEF Writes, Fills, Consumes, Touches
    <3> QED BY <2>5, <3>2, <3>3 DEF Removes
  <2>8. CASE \E c \in Calls : Inserted(c)
    <3>1. PICK c \in Calls : Inserted(c) BY <2>8
    <3>2. calls[c] # Nobody /\ uploads'[opened'].live
          /\ \A j \in Ids \ {opened'} : uploads'[j] = IF j \in calls[c].gone THEN NoRow ELSE uploads[j]
      BY <3>1 DEF Inserted
    <3>3. i \in calls[c].gone BY <2>1, <3>2
    <3> QED BY <2>5, <3>2, <3>3
  <2>9. CASE Tick \/ UNCHANGED vars BY <2>1, <2>9 DEF Tick, vars
  <2> QED BY <1>1, <2>6, <2>7, <2>8, <2>9, StepShape
<1>2. ASSUME IInv PROVE Refused
  <2>1. SUFFICES ASSUME NEW c \in Calls, LimitReached(c)
        PROVE  Cardinality({i \in Uncommitted(calls[c].token, Present) :
                              uploads[i].updated >= calls[c].now - StaleAfter}) >= MaxActiveUploads
    OBVIOUS
  <2> DEFINE mine == Uncommitted(calls[c].token, Sees(c))
             busy == {i \in Uncommitted(calls[c].token, Present) :
                        uploads[i].updated >= calls[c].now - StaleAfter}
  <2>2. At(c, "recount") /\ countActive(c) >= MaxActiveUploads BY <2>1 DEF LimitReached
  <2>3. Typed BY <1>2 DEF IInv
  <2>4. calls[c] \in CallRecords /\ calls[c] # Nobody /\ calls[c].pc = "recount"
    BY <2>2, <2>3, AtType
  <2>5. countActive(c) = Cardinality(mine) BY <1>2, <2>2, CountIsAll
  <2>6. \A i \in mine : ~Stale(uploads[i], calls[c].now)
    BY <1>2, <2>4 DEF IInv, CallsOK, CallOK, StartOK
  <2>7. mine \subseteq busy
    <3>1. SUFFICES ASSUME NEW i \in mine PROVE i \in busy OBVIOUS
    <3>2. i \in Ids /\ uploads[i].live /\ i \in Uncommitted(calls[c].token, Present)
      BY DEF Uncommitted, Sees, Present
    <3>3. uploads[i].updated \in Nat BY <2>3, <3>2, LiveRow DEF Uploaded
    <3>4. calls[c].now \in Nat /\ StaleAfter \in Nat BY <2>4, LimitsAssumption DEF CallRecords
    <3> QED BY <2>6, <3>2, <3>3, <3>4 DEF Stale
  <2>8. IsFiniteSet(busy)
    <3>1. busy \in SUBSET Ids BY DEF Uncommitted, Present
    <3> QED BY <2>3, <3>1, BoundsTyped, FS_Subset
  <2>9. Cardinality(mine) <= Cardinality(busy) BY <2>7, <2>8, FS_Subset
  <2>10. Cardinality(mine) \in Nat /\ Cardinality(busy) \in Nat
    BY <2>3, <2>8, SeenFinite, FS_CardinalityType
  <2> HIDE DEF mine, busy
  <2>11. Cardinality(busy) >= MaxActiveUploads
    BY <2>2, <2>5, <2>9, <2>10, LimitsAssumption
  <2> QED BY <2>11 DEF busy
<1>3. IInv /\ IInv' /\ [Next]_vars => [Removed]_vars BY <1>1
<1>4. IInv /\ IInv' /\ [Next]_vars => [Refused]_vars BY <1>2
<1>5. Spec => [][Removed]_vars BY <1>3, Invariant, PTL DEF Spec
<1>6. Spec => [][Refused]_vars BY <1>4, Invariant, PTL DEF Spec
<1> QED BY <1>5, <1>6, PTL DEF SlotsFair, RemovedForCause, LimitTruthful

\* What an upload holds is what AppendChunk and PutTicketContent accepted: the
\* declared bytes once it is complete, kept until Deploy consumes it.
THEOREM ContentIsKept == Spec => ContentKept
<1> DEFINE Kept1(i) == uploads[i].live /\ uploads'[i].live =>
             /\ uploads[i].key # NoKey => uploads'[i] = uploads[i]
             /\ uploads'[i].key = NoKey => \A n \in 1..Len(uploads[i].chunks) :
                   n <= Len(uploads'[i].chunks) /\ uploads'[i].chunks[n] = uploads[i].chunks[n]
           Sound1(i) == (uploads[i].live /\ uploads[i].key = NoKey => Sound(uploads[i])) =>
                          (uploads'[i].live /\ uploads'[i].key = NoKey => Sound(uploads'[i]))
<1>1. ASSUME IInv, [Next]_vars, NEW i \in Ids PROVE Kept1(i) /\ Sound1(i)
  <2>1. ASSUME uploads'[i] = uploads[i] PROVE Kept1(i) /\ Sound1(i)
    <3>1. uploads[i].live => \A n \in 1..Len(uploads[i].chunks) : n <= Len(uploads[i].chunks)
      <4>1. SUFFICES ASSUME uploads[i].live PROVE Len(uploads[i].chunks) \in Nat OBVIOUS
      <4>2. uploads[i] \in Uploaded BY <1>1, <4>1, LiveRow DEF IInv
      <4> QED BY <4>2 DEF Uploaded
    <3> QED BY <2>1, <3>1
  <2>2. CASE \E c \in Calls : Local(c) BY <2>1, <2>2 DEF Local
  <2>3. CASE \E c \in Calls : Committed(c)
    <3>1. PICK c \in Calls : Committed(c) BY <2>3
    <3>2. Writes(c, i) BY <3>1 DEF Committed
    <3>3. CASE Removes(c, i) BY <3>3, NoRowDead DEF Removes
    <3>4. CASE uploads[i].live /\ uploads[i].key = NoKey /\ Fills(c, i) BY <3>4 DEF Fills
    <3>5. CASE uploads[i].live /\ uploads[i].key = NoKey /\ Consumes(c, i)
      <4>1. uploads'[i].key # NoKey BY <1>1, <3>5, BoundsTyped DEF Consumes, IInv
      <4> QED BY <3>5, <4>1
    <3> QED BY <2>1, <3>2, <3>3, <3>4, <3>5 DEF Writes
  <2>4. CASE \E c \in Calls : Inserted(c)
    <3>1. PICK c \in Calls : Inserted(c) BY <2>4
    <3>2. CASE i = opened'
      <4>1. opened \in Nat /\ opened' = opened + 1 BY <1>1, <3>1 DEF IInv, Typed, Inserted
      <4>2. ~uploads[i].live BY <1>1, <3>2, <4>1 DEF IInv, Fresh
      <4> QED BY <3>1, <3>2, <4>2 DEF Inserted
    <3>3. CASE i # opened'
      <4>1. uploads'[i] = uploads[i] \/ uploads'[i] = NoRow BY <3>1, <3>3 DEF Inserted
      <4> QED BY <2>1, <4>1, NoRowDead
    <3> QED BY <3>2, <3>3
  <2>5. CASE Tick \/ UNCHANGED vars BY <2>1, <2>5 DEF Tick, vars
  <2> HIDE DEF Kept1, Sound1
  <2> QED BY <1>1, <2>2, <2>3, <2>4, <2>5, StepShape
<1>2. Init => CompleteIsDeclared BY DEF Init, CompleteIsDeclared, NoRow
<1>3. IInv /\ CompleteIsDeclared /\ [Next]_vars => CompleteIsDeclared'
  <2>1. SUFFICES ASSUME IInv, CompleteIsDeclared, [Next]_vars PROVE CompleteIsDeclared' OBVIOUS
  <2>2. Ids' = Ids
    <3>1. UNCHANGED load
      BY <2>1, StepShape DEF Local, Committed, Inserted, Kept, Tick, vars
    <3> QED BY <3>1 DEF Ids
  <2>3. \A i \in Ids : uploads'[i].live /\ uploads'[i].key = NoKey => Sound(uploads'[i])
    BY <1>1, <2>1 DEF CompleteIsDeclared, Sound
  <2> QED BY <2>2, <2>3 DEF CompleteIsDeclared, Sound
<1>4. Spec => []CompleteIsDeclared BY <1>2, <1>3, Invariant, PTL DEF Spec
<1>5. IInv /\ [Next]_vars => [\A i \in Ids : Kept1(i)]_vars BY <1>1
<1>6. Spec => [][\A i \in Ids : Kept1(i)]_vars BY <1>5, Invariant, PTL DEF Spec
<1> QED BY <1>4, <1>6, PTL DEF ContentKept, AcceptedKept
=============================================================================
