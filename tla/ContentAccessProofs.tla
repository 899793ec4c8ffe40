------------------------ MODULE ContentAccessProofs ------------------------
(***************************************************************************)
(* Proofs about ContentAccess, for every value of its constants: who is   *)
(* let in, who pays for a wrong password, and what portals may hold.       *)
(***************************************************************************)
EXTENDS ContentAccess, FiniteSetTheorems, TLAPS

---------------------------------------------------------------------------
(* Types.                                                                  *)

Hash  == {NoHash} \cup [salt : Nat \ {0}, secret : Secrets]
Copy  == {NoCopy} \cup (Nat \ {0})
PageRow == [state : {"open", "disabled", "deleted"}, published : Nat, hash : Hash, copy : Copy]
PortalRow == [life : {"none", "live", "retired"}, hash : Hash, copy : Copy,
           home : Pages \cup {0}, members : SUBSET Pages]
Cookie == {NoCookie} \cup Nat
Jar    == [pages : [Pages -> Cookie], portals : [Portals -> Cookie]]
Turn   == [by : Calls \cup {"nobody", "timer"}, left : Nat]
Door   == [id : Portals, hash : Hash]

AtPage    == {"await page", "verify page", "record page", "clear page", "admit page"}
AtPortals == {"await portals", "verify portals", "record portals", "clear portal", "admit portal"}
Gets  == [op : {"get"}, pc : {"portals", "render"}, page : Pages, hash : Hash, jar : Jar, session : BOOLEAN]
Tries == [op : {"unlock", "unlock portal"}, pc : {"portals"} \cup AtPage \cup AtPortals,
          page : Pages \cup {0}, hash : Hash, ports : SUBSET Door, guess : Secrets, chosen : Portals \cup {0}]
Adds  == [op : {"add"}, pc : {"insert"}, page : Pages, portal : Portals, locks : SUBSET Keys]

Typed ==
  /\ mix \in Mixes /\ salts \in Nat
  /\ pages \in [Pages -> PageRow] /\ portals \in [Portals -> PortalRow]
  /\ jar \in Jar
  /\ failures \in [Keys -> Nat] /\ charged \in [Keys -> Nat] /\ owed \in [Keys -> Nat]
  /\ turns \in [Keys -> Turn]
  /\ calls \in [Calls -> {Idle} \cup Gets \cup Tries \cup Adds]

---------------------------------------------------------------------------
(* The inductive invariant.                                                *)

\* Every cookie was earned with the password its digest is of.
Earned(cookies) ==
  /\ \A p \in Pages : cookies.pages[p] # NoCookie => <<PageKey(p), cookies.pages[p]>> \in proven
  /\ \A q \in Portals : cookies.portals[q] # NoCookie => <<PortalKey(q), cookies.portals[q]>> \in proven

\* No row has a salt that is still to be drawn.
Drawn ==
  /\ \A p \in Pages : pages[p].hash.salt <= salts
  /\ \A q \in Portals : portals[q].hash.salt <= salts

\* A delay is served while a timer holds the turn, and never afterwards.
Delayed ==
  \A k \in Keys : owed[k] <= IF turns[k].by = "timer" THEN turns[k].left ELSE 0

\* The turns a request has in hand.
InHand(c) ==
  IF calls[c].pc \in {"verify page", "record page", "clear page"} THEN {PageKey(calls[c].page)}
  ELSE IF calls[c].pc \in {"verify portals", "record portals", "clear portal"} THEN PortalKeys(c)
  ELSE {}

GetOK(c) ==
  /\ Earned(calls[c].jar)
  /\ calls[c].session => <<PageKey(calls[c].page), calls[c].hash.salt>> \in proven

TryOK(c) ==
  LET k == calls[c]
  IN /\ k.pc \in {"portals"} \cup AtPage => k.page # 0
     /\ k.pc \in AtPortals => k.ports # {}
     /\ k.pc \in {"clear page", "admit page"} => <<PageKey(k.page), k.hash.salt>> \in proven
     /\ k.pc \in {"clear page", "admit page", "clear portal", "admit portal"} => k.hash # NoHash
     /\ k.pc = "clear page" => charged[PageKey(k.page)] = 0
     /\ k.pc \in {"clear portal", "admit portal"} =>
          /\ k.chosen # 0 /\ PortalKey(k.chosen) \in PortalKeys(c)
          /\ <<PortalKey(k.chosen), k.hash.salt>> \in proven
     /\ k.pc = "clear portal" => charged[PortalKey(k.chosen)] = 0

\* Under its locks an addition still has room.
AddOK(c) ==
  LET k == calls[c]
  IN /\ k.locks = {PageKey(k.page), PortalKey(k.portal)}
     /\ Fanout(k.page) < mix.fanout

CallOK(c) ==
  /\ \A k \in Keys : turns[k] = Held(c) <=> k \in InHand(c)
  /\ calls[c].op = "get" => GetOK(c)
  /\ calls[c].op \in {"unlock", "unlock portal"} => TryOK(c)
  /\ calls[c].op = "add" => AddOK(c)
CallsOK == \A c \in Calls : CallOK(c)

LocksApart ==
  \A c, d \in Calls : c # d /\ calls[c].op = "add" /\ calls[d].op = "add" => calls[c].page # calls[d].page

IInv ==
  /\ Typed /\ Earned(jar) /\ Drawn /\ Delayed /\ CallsOK /\ LocksApart
  /\ FailuresCounted /\ PortalsSound

---------------------------------------------------------------------------
(* Keys, turns, delays and sets of numbers.                                *)

LEMMA KeysApart ==
  /\ \A p \in Pages : PageKey(p) \in Keys
  /\ \A q \in Portals : PortalKey(q) \in Keys
  /\ \A k \in Keys : (\E p \in Pages : k = PageKey(p)) \/ (\E q \in Portals : k = PortalKey(q))
  /\ \A p, q : PageKey(p) # PortalKey(q)
  /\ \A p, q : PageKey(p) = PageKey(q) => p = q
  /\ \A p, q : PortalKey(p) = PortalKey(q) => p = q
BY DEF Keys, PageKey, PortalKey

LEMMA TurnsApart ==
  /\ Free \in Turn /\ Free.by = "nobody" /\ Free.left = 0
  /\ \A c \in Calls : Held(c) \in Turn /\ Held(c).by = c /\ Held(c).left = 0 /\ Held(c) # Free /\ c # "timer" /\ c # "nobody"
  /\ \A c, d \in Calls : Held(c) = Held(d) => c = d
  /\ \A d \in Nat : Timer(d) \in Turn /\ Timer(d).by = "timer" /\ Timer(d).left = d /\ Timer(d) # Free
  /\ \A c \in Calls, d \in Nat : Timer(d) # Held(c)
<1>1. \A c \in Calls : c # "timer" /\ c # "nobody" BY AccessAssumption
<1>2. Free \in Turn /\ Free.by = "nobody" /\ Free.left = 0 BY DEF Free, Turn
<1>3. \A c \in Calls : Held(c) \in Turn /\ Held(c).by = c /\ Held(c).left = 0 BY DEF Held, Turn
<1>4. \A d \in Nat : Timer(d) \in Turn /\ Timer(d).by = "timer" /\ Timer(d).left = d BY DEF Timer, Turn
<1> QED BY <1>1, <1>2, <1>3, <1>4

LEMMA NatMin ==
  ASSUME NEW S \in SUBSET Nat, S # {}
  PROVE  \E n \in S : \A m \in S : n <= m
<1> DEFINE R == StrictSubsetOrdering(Nat)
           F == FiniteSubsetsOf(Nat)
           T == {0..(n - 1) : n \in S}
<1>1. IsWellFoundedOn(R, F) BY FS_StrictSubsetOrderingWellFounded
<1>2. \A n \in Nat : 0..(n-1) \in F BY FS_Interval DEF FiniteSubsetsOf
<1>3. T \subseteq F /\ T # {} BY <1>2
<1>4. \A x, y \in SUBSET Nat : x \subseteq y /\ x # y => <<x, y>> \in R BY DEF StrictSubsetOrdering
<1> HIDE DEF R, F
<1>5. PICK x \in T : \A y \in T : ~(<<y, x>> \in R) BY <1>1, <1>3, WFMin
<1>6. PICK n \in S : x = 0..(n - 1) BY <1>5
<1>7. ASSUME NEW m \in S, ~(n <= m) PROVE FALSE
  <2> DEFINE y == 0..(m - 1)
  <2>1. y \in T OBVIOUS
  <2>2. y \subseteq x /\ m \in x /\ m \notin y BY <1>6, <1>7
  <2>3. x \in SUBSET Nat /\ y \in SUBSET Nat BY <1>6
  <2> QED BY <1>4, <1>5, <2>1, <2>2, <2>3
<1> QED BY <1>7

LEMMA LowestIn ==
  ASSUME NEW S \in SUBSET Nat, S # {}
  PROVE  Lowest(S) \in S
BY NatMin DEF Lowest

LEMMA GreatestIn ==
  ASSUME NEW M \in Nat, NEW S \in SUBSET (0..M), S # {}
  PROVE  Greatest(S) \in S
<1> DEFINE T == {M - x : x \in S}
<1>1. T \in SUBSET Nat /\ T # {}
  <2>1. \A x \in S : x \in Int /\ x <= M OBVIOUS
  <2>2. \A x \in S : M - x \in Nat BY <2>1
  <2> QED BY <2>2
<1>2. PICK t \in T : \A u \in T : t <= u BY <1>1, NatMin
<1>3. PICK x \in S : t = M - x BY <1>2
<1>4. ASSUME NEW y \in S PROVE y <= x
  <2>1. M - y \in T OBVIOUS
  <2>2. M - x <= M - y BY <1>2, <1>3, <2>1
  <2> QED BY <2>2
<1>5. \E m \in S : \A n \in S : n <= m BY <1>4
<1> QED BY <1>5 DEF Greatest

LEMMA LesserType ==
  ASSUME NEW m \in Nat, NEW n \in Nat
  PROVE  Lesser(m, n) \in Nat /\ Lesser(m, n) <= m /\ Lesser(m, n) <= n
BY DEF Lesser

LEMMA DelayType ==
  ASSUME NEW n \in Nat
  PROVE  DelayForFailures(n) \in 0..MaxDelay
<1>1. BaseDelay \in Nat \ {0} /\ MaxDelay \in Nat \ {0} BY AccessAssumption
<1>2. CASE n <= 0 BY <1>1, <1>2 DEF DelayForFailures
<1>3. CASE n > 5 BY <1>1, <1>3 DEF DelayForFailures
<1>4. CASE n > 0 /\ n <= 5
  <2>1. n - 1 \in Nat BY <1>4
  <2>2. 2^(n - 1) \in Nat
    <3>1. 2^0 \in Nat /\ 2^1 \in Nat /\ 2^2 \in Nat /\ 2^3 \in Nat /\ 2^4 \in Nat OBVIOUS
    <3>2. n - 1 = 0 \/ n - 1 = 1 \/ n - 1 = 2 \/ n - 1 = 3 \/ n - 1 = 4 BY <1>4
    <3> QED BY <3>1, <3>2, Zenon
  <2> DEFINE x == BaseDelay * 2^(n - 1)
  <2>3. x \in Nat BY <1>1, <2>2
  <2>4. DelayForFailures(n) = Lesser(MaxDelay, x) BY <1>4 DEF DelayForFailures
  <2> HIDE DEF x
  <2>5. Lesser(MaxDelay, x) \in Nat /\ Lesser(MaxDelay, x) <= MaxDelay BY <1>1, <2>3, LesserType
  <2> QED BY <1>1, <2>4, <2>5
<1> QED BY <1>2, <1>3, <1>4

LEMMA FanoutType ==
  ASSUME NEW rows, NEW p
  PROVE  IsFiniteSet(InPortals(rows, p)) /\ Cardinality(InPortals(rows, p)) \in Nat
<1>1. InPortals(rows, p) \in SUBSET Portals BY DEF InPortals
<1>2. IsFiniteSet(InPortals(rows, p)) BY <1>1, AccessAssumption, FS_Subset
<1> QED BY <1>2, FS_CardinalityType

LEMMA FanoutShrinks ==
  ASSUME NEW old, NEW new, NEW p, InPortals(new, p) \subseteq InPortals(old, p)
  PROVE  Cardinality(InPortals(new, p)) <= Cardinality(InPortals(old, p))
<1>1. InPortals(new, p) \in SUBSET InPortals(old, p) OBVIOUS
<1> QED BY <1>1, FanoutType, FS_Subset

---------------------------------------------------------------------------
(* What a step of one connection, or of nobody, leaves of the others.      *)

Stable(c) ==
  /\ UNCHANGED mix
  /\ \A d \in Calls \ {c} :
       /\ calls'[d] = calls[d]
       /\ \A k \in Keys : turns'[k] = Held(d) <=> turns[k] = Held(d)
       /\ \A k \in Keys : turns[k] = Held(d) /\ charged[k] = 0 => charged'[k] = 0
       /\ calls[d].op = "add" => Fanout(calls[d].page)' <= Fanout(calls[d].page)
  /\ proven \subseteq proven'

LEMMA EarnedStays ==
  ASSUME NEW cookies, Earned(cookies), proven \subseteq proven'
  PROVE  /\ \A p \in Pages : cookies.pages[p] # NoCookie => <<PageKey(p), cookies.pages[p]>> \in proven'
         /\ \A q \in Portals : cookies.portals[q] # NoCookie => <<PortalKey(q), cookies.portals[q]>> \in proven'
BY DEF Earned

LEMMA Kinds ==
  ASSUME Typed, NEW c \in Calls
  PROVE  /\ calls[c] = Idle => calls[c].op = "idle" /\ calls[c].pc = "idle"
         /\ calls[c].op = "get" => calls[c] \in Gets
         /\ calls[c].op \in {"unlock", "unlock portal"} => calls[c] \in Tries
         /\ calls[c].op = "add" => calls[c] \in Adds
         /\ calls[c].op \in {"idle", "get", "unlock", "unlock portal", "add"}
<1>1. calls[c] \in {Idle} \cup Gets \cup Tries \cup Adds BY DEF Typed
<1>2. Idle.op = "idle" /\ Idle.pc = "idle" BY DEF Idle
<1>3. \A k \in Gets : k.op = "get" BY DEF Gets
<1>4. \A k \in Tries : k.op \in {"unlock", "unlock portal"} BY DEF Tries
<1>5. \A k \in Adds : k.op = "add" BY DEF Adds
<1> QED BY <1>1, <1>2, <1>3, <1>4, <1>5

LEMMA OthersKeep ==
  ASSUME IInv, NEW c, Stable(c), NEW d \in Calls \ {c}
  PROVE  CallOK(d)'
<1>1. /\ calls'[d] = calls[d] /\ UNCHANGED mix /\ proven \subseteq proven'
      /\ \A k \in Keys : turns'[k] = Held(d) <=> turns[k] = Held(d)
      /\ \A k \in Keys : turns[k] = Held(d) /\ charged[k] = 0 => charged'[k] = 0
      /\ calls[d].op = "add" => Fanout(calls[d].page)' <= Fanout(calls[d].page)
  BY DEF Stable
<1>2. CallOK(d) BY DEF IInv, CallsOK
<1>3. InHand(d)' = InHand(d) /\ PortalKeys(d)' = PortalKeys(d) BY <1>1 DEF InHand, PortalKeys
<1>4. \A k \in Keys : turns'[k] = Held(d) <=> k \in InHand(d)' BY <1>1, <1>2, <1>3 DEF CallOK
<1>5. calls[d].op = "get" => GetOK(d)'
  <2>1. SUFFICES ASSUME calls[d].op = "get" PROVE GetOK(d)' OBVIOUS
  <2>2. GetOK(d) BY <1>2, <2>1 DEF CallOK
  <2>3. Earned(calls[d].jar) BY <2>2 DEF GetOK
  <2>4. Earned(calls[d].jar)' BY <1>1, <2>3, EarnedStays DEF Earned
  <2> QED BY <1>1, <2>2, <2>4 DEF GetOK
<1>6. calls[d].op \in {"unlock", "unlock portal"} => TryOK(d)'
  <2>1. SUFFICES ASSUME calls[d].op \in {"unlock", "unlock portal"} PROVE TryOK(d)' OBVIOUS
  <2>2. TryOK(d) BY <1>2, <2>1 DEF CallOK
  <2>3. calls[d] \in Tries BY <2>1, Kinds DEF IInv
  <2>4. calls[d].page \in Pages \cup {0} /\ calls[d].chosen \in Portals \cup {0} BY <2>3 DEF Tries
  <2>5. calls[d].pc = "clear page" => charged'[PageKey(calls[d].page)] = 0
    <3>1. SUFFICES ASSUME calls[d].pc = "clear page" PROVE charged'[PageKey(calls[d].page)] = 0 OBVIOUS
    <3>2. calls[d].page \in Pages /\ charged[PageKey(calls[d].page)] = 0
      BY <2>2, <2>4, <3>1 DEF TryOK, AtPage
    <3>3. PageKey(calls[d].page) \in Keys /\ PageKey(calls[d].page) \in InHand(d)
      BY <3>1, <3>2, KeysApart DEF InHand
    <3> QED BY <1>1, <1>2, <3>2, <3>3 DEF CallOK
  <2>6. calls[d].pc = "clear portal" => charged'[PortalKey(calls[d].chosen)] = 0
    <3>1. SUFFICES ASSUME calls[d].pc = "clear portal" PROVE charged'[PortalKey(calls[d].chosen)] = 0 OBVIOUS
    <3>2. /\ calls[d].chosen \in Portals /\ charged[PortalKey(calls[d].chosen)] = 0
          /\ PortalKey(calls[d].chosen) \in PortalKeys(d)
      BY <2>2, <2>4, <3>1 DEF TryOK
    <3>3. PortalKey(calls[d].chosen) \in Keys /\ PortalKey(calls[d].chosen) \in InHand(d)
      BY <3>1, <3>2, KeysApart DEF InHand
    <3> QED BY <1>1, <1>2, <3>2, <3>3 DEF CallOK
  <2> QED BY <1>1, <1>3, <2>2, <2>5, <2>6 DEF TryOK
<1>7. calls[d].op = "add" => AddOK(d)'
  <2>1. SUFFICES ASSUME calls[d].op = "add" PROVE AddOK(d)' OBVIOUS
  <2>2. AddOK(d) BY <1>2, <2>1 DEF CallOK
  <2>3. Fanout(calls[d].page)' <= Fanout(calls[d].page) /\ Fanout(calls[d].page) < mix.fanout
    BY <1>1, <2>1, <2>2 DEF AddOK
  <2>4. Fanout(calls[d].page)' \in Nat /\ Fanout(calls[d].page) \in Nat /\ mix.fanout \in Nat
    BY FanoutType, MixesAssumption DEF Fanout, IInv, Typed
  <2>5. Fanout(calls[d].page)' < mix.fanout BY <2>3, <2>4
  <2>6. calls'[d].locks = {PageKey(calls'[d].page), PortalKey(calls'[d].portal)} BY <1>1, <2>2 DEF AddOK
  <2> QED BY <1>1, <2>5, <2>6 DEF AddOK
<1> QED BY <1>1, <1>4, <1>5, <1>6, <1>7 DEF CallOK

---------------------------------------------------------------------------
(* Steps that change one request's record and nothing else.                *)

Records == {Idle} \cup Gets \cup Tries \cup Adds

LEMMA IdleOps == Idle.op = "idle" /\ Idle.pc = "idle" /\ Idle \in Records
BY DEF Idle, Records

LEMMA QuietKeeps ==
  ASSUME IInv, NEW c \in Calls, NEW r \in Records, calls' = [calls EXCEPT ![c] = r],
         UNCHANGED <<staff, tokens, jar, failures, turns, history>>,
         CallOK(c)',
         r.op = "add" => \A d \in Calls \ {c} : calls[d].op = "add" => calls[d].page # r.page
  PROVE  IInv'
<1>1. /\ UNCHANGED <<mix, pages, portals, salts, tokens, jar, failures, turns, proven, owed, charged>>
      /\ \A d \in Calls \ {c} : calls'[d] = calls[d]
      /\ calls'[c] = r
  BY DEF staff, history, IInv, Typed
<1>2. Typed' BY DEF IInv, Typed, Records, staff, history
<1>3. Stable(c)
  <2>1. \A p : Fanout(p)' = Fanout(p) /\ Fanout(p) \in Nat BY <1>1, FanoutType DEF Fanout
  <2> QED BY <1>1, <2>1 DEF Stable
<1>4. CallsOK' BY <1>3, OthersKeep DEF CallsOK
<1>5. Earned(jar)' /\ Drawn' /\ Delayed' /\ FailuresCounted' /\ PortalsSound'
  BY <1>1 DEF IInv, Earned, Drawn, Delayed, FailuresCounted, PortalsSound, Fanout
<1>6. LocksApart' BY <1>1 DEF IInv, LocksApart
<1> QED BY <1>2, <1>4, <1>5, <1>6 DEF IInv

HandPcs == {"verify page", "record page", "clear page", "verify portals", "record portals", "clear portal"}

LEMMA EmptyHands ==
  ASSUME IInv, NEW c \in Calls, calls[c].pc \notin HandPcs
  PROVE  \A k \in Keys : turns[k] # Held(c)
<1>1. InHand(c) = {} BY DEF InHand, HandPcs
<1> QED BY <1>1 DEF IInv, CallsOK, CallOK

LEMMA QuietStep ==
  ASSUME IInv, NEW c \in Calls, NEW r \in Records, calls' = [calls EXCEPT ![c] = r],
         UNCHANGED <<staff, tokens, jar, failures, turns, history>>,
         calls[c].pc \notin HandPcs, r.pc \notin HandPcs,
         r.op = "get" => Earned(r.jar) /\ (r.session => <<PageKey(r.page), r.hash.salt>> \in proven),
         r.op \in {"unlock", "unlock portal"} =>
           /\ r.pc \in {"portals", "await page", "await portals"}
           /\ r.pc \in {"portals", "await page"} => r.page # 0
           /\ r.pc = "await portals" => r.ports # {},
         r.op = "add" =>
           /\ r.locks = {PageKey(r.page), PortalKey(r.portal)}
           /\ Fanout(r.page) < mix.fanout
           /\ \A d \in Calls \ {c} : calls[d].op = "add" => calls[d].page # r.page
  PROVE  IInv'
<1>1. calls'[c] = r BY DEF IInv, Typed
<1>2. UNCHANGED <<mix, pages, portals, turns, proven, charged>> BY DEF staff, history
<1>3. \A k \in Keys : turns'[k] = Held(c) <=> k \in InHand(c)'
  <2>1. \A k \in Keys : turns[k] # Held(c) BY EmptyHands
  <2>2. InHand(c)' = {} BY <1>1 DEF InHand, HandPcs
  <2> QED BY <1>2, <2>1, <2>2
<1>4. r.op = "get" => GetOK(c)' BY <1>1, <1>2 DEF GetOK, Earned
<1>5. r.op \in {"unlock", "unlock portal"} => TryOK(c)' BY <1>1, <1>2 DEF TryOK, AtPage, AtPortals
<1>6. r.op = "add" => AddOK(c)' BY <1>1, <1>2 DEF AddOK, Fanout
<1>7. CallOK(c)' BY <1>1, <1>3, <1>4, <1>5, <1>6 DEF CallOK
<1> QED BY <1>7, QuietKeeps

LEMMA ReturnKeeps ==
  ASSUME IInv, NEW c \in Calls, Return(c), calls[c].pc \notin HandPcs,
         UNCHANGED <<staff, tokens, jar, failures, turns, history>>
  PROVE  IInv'
<1>1. Idle.pc \notin HandPcs /\ Idle.op \notin {"get", "unlock", "unlock portal", "add"}
  BY IdleOps DEF HandPcs
<1> QED BY <1>1, IdleOps, QuietStep DEF Return

LEMMA HashesTyped ==
  ASSUME IInv
  PROVE  /\ \A p \in Pages : pages[p].hash \in Hash /\ pages[p].hash.salt \in Nat /\ pages[p].hash.salt # NoCookie
         /\ \A q \in Portals : portals[q].hash \in Hash /\ portals[q].hash.salt \in Nat /\ portals[q].hash.salt # NoCookie
         /\ NoHash \in Hash
         /\ jar.pages \in [Pages -> Cookie] /\ jar.portals \in [Portals -> Cookie]
<1>1. \A h \in Hash : h.salt \in Nat /\ h.salt # NoCookie BY DEF Hash, NoHash, NoCookie
<1>2. \A p \in Pages : pages[p].hash \in Hash BY DEF IInv, Typed, PageRow
<1>3. \A q \in Portals : portals[q].hash \in Hash BY DEF IInv, Typed, PortalRow
<1>4. NoHash \in Hash BY DEF Hash
<1>5. jar.pages \in [Pages -> Cookie] /\ jar.portals \in [Portals -> Cookie] BY DEF IInv, Typed, Jar
<1> QED BY <1>1, <1>2, <1>3, <1>4, <1>5

LEMMA ServeKeeps ==
  ASSUME IInv, NEW c \in Calls, NEW p \in Pages, Serve(c, p)
  PROVE  IInv'
<1> DEFINE session == VerifySession(jar.pages[p], pages[p].hash)
           pc == IF session /\ ~(\E q \in Portals : jar.portals[q] # NoCookie) THEN "render" ELSE "portals"
           r == [op |-> "get", pc |-> pc, page |-> p, hash |-> pages[p].hash, jar |-> jar, session |-> session]
<1>1. calls[c] = Idle /\ UNCHANGED <<staff, tokens, jar, failures, turns, history>> BY DEF Serve, Begins
<1>2. calls' = [calls EXCEPT ![c] = r] BY DEF Serve
<1>3. session \in BOOLEAN /\ (session => jar.pages[p] = pages[p].hash.salt) BY DEF VerifySession
<1>4. pc \in {"portals", "render"} OBVIOUS
<1> HIDE DEF session, pc
<1>5. r \in Gets
  <2>1. jar \in Jar /\ pages[p].hash \in Hash BY HashesTyped DEF IInv, Typed
  <2> QED BY <1>3, <1>4, <2>1 DEF Gets
<1>6. r.op = "get" /\ r.pc = pc /\ r.jar = jar /\ r.session = session /\ r.page = p /\ r.hash = pages[p].hash
  OBVIOUS
<1> HIDE DEF r
<1>7. Earned(r.jar) BY <1>6 DEF IInv
<1>8. r.session => <<PageKey(r.page), r.hash.salt>> \in proven
  BY <1>3, <1>6, <1>7, HashesTyped DEF Earned
<1>9. calls[c].pc \notin HandPcs /\ r.pc \notin HandPcs BY <1>1, <1>4, <1>6, IdleOps DEF HandPcs
<1> QED BY <1>1, <1>2, <1>5, <1>6, <1>7, <1>8, <1>9, QuietStep DEF Records

LEMMA ServePortalsKeeps ==
  ASSUME IInv, NEW c \in Calls, ServePortals(c)
  PROVE  IInv'
<1> DEFINE k == calls[c]
           r == [k EXCEPT !.pc = "render"]
<1>1. /\ k.pc = "portals" /\ k.op = "get" /\ UNCHANGED <<staff, tokens, jar, failures, turns, history>>
      /\ GoTo(c, "render") \/ Return(c)
  BY DEF ServePortals, At
<1>2. k \in Gets BY <1>1, Kinds DEF IInv
<1>3. k.pc \notin HandPcs BY <1>1 DEF HandPcs
<1>4. CASE Return(c) BY <1>1, <1>3, <1>4, ReturnKeeps
<1>5. CASE GoTo(c, "render")
  <2>1. r \in Gets /\ r.op = "get" /\ r.pc = "render" /\ r.jar = k.jar /\ r.session = k.session
        /\ r.page = k.page /\ r.hash = k.hash
    BY <1>2 DEF Gets
  <2>2. calls' = [calls EXCEPT ![c] = r] BY <1>5 DEF GoTo
  <2> HIDE DEF r
  <2>3. GetOK(c) BY <1>1 DEF IInv, CallsOK, CallOK
  <2>4. Earned(r.jar) /\ (r.session => <<PageKey(r.page), r.hash.salt>> \in proven) BY <2>1, <2>3 DEF GetOK
  <2>5. r.pc \notin HandPcs /\ r \in Records BY <2>1 DEF HandPcs, Records
  <2> QED BY <1>1, <1>3, <2>1, <2>2, <2>4, <2>5, QuietStep
<1> QED BY <1>1, <1>4, <1>5

LEMMA RenderKeeps ==
  ASSUME IInv, NEW c \in Calls, Render(c)
  PROVE  IInv'
<1>1. calls[c].pc \notin HandPcs BY DEF Render, At, HandPcs
<1> QED BY <1>1, ReturnKeeps DEF Render

LEMMA BusyKeeps ==
  ASSUME IInv, NEW c \in Calls, Busy(c)
  PROVE  IInv'
<1>1. calls[c].pc \notin HandPcs BY DEF Busy, HandPcs
<1> QED BY <1>1, ReturnKeeps DEF Busy

LEMMA DoorsTyped ==
  ASSUME IInv
  PROVE  /\ \A p : GetPortalsForPage(p) \in SUBSET Door
         /\ NoPortals \in SUBSET Door
         /\ \A q \in Portals : {[id |-> q, hash |-> portals[q].hash]} \in SUBSET Door
<1>1. \A q \in Portals : [id |-> q, hash |-> portals[q].hash] \in Door BY HashesTyped DEF Door
<1> QED BY <1>1 DEF GetPortalsForPage, NoPortals

LEMMA AttemptKeeps ==
  ASSUME IInv, NEW c \in Calls, calls[c] = Idle, NEW op \in {"unlock", "unlock portal"},
         NEW p \in Pages \cup {0}, NEW hash \in Hash, NEW ports \in SUBSET Door, NEW guess \in Secrets,
         NEW pc \in {"portals", "await portals"},
         Attempt(c, op, p, hash, ports, guess, pc),
         UNCHANGED <<staff, tokens, jar, failures, turns, history>>,
         pc = "portals" => p # 0, pc = "await portals" => ports # {}
  PROVE  IInv'
<1> DEFINE r == [op |-> op, pc |-> pc, page |-> p, hash |-> hash, ports |-> ports, guess |-> guess, chosen |-> 0]
<1>1. calls' = [calls EXCEPT ![c] = r] BY DEF Attempt
<1>2. r \in Tries BY DEF Tries, AtPortals
<1>3. r.op = op /\ r.pc = pc /\ r.page = p /\ r.ports = ports OBVIOUS
<1> HIDE DEF r
<1>4. calls[c].pc \notin HandPcs /\ r.pc \notin HandPcs BY <1>3, IdleOps DEF HandPcs
<1> QED BY <1>1, <1>2, <1>3, <1>4, QuietStep DEF Records

LEMMA UnlockKeeps ==
  ASSUME IInv, NEW c \in Calls, NEW p \in Pages, NEW guess \in Secrets, Unlock(c, p, guess)
  PROVE  IInv'
<1>1. /\ calls[c] = Idle /\ Attempt(c, "unlock", p, pages[p].hash, NoPortals, guess, "portals")
      /\ UNCHANGED <<staff, tokens, jar, failures, turns, history>>
  BY DEF Unlock, Begins
<1>2. p # 0 BY AccessAssumption
<1> QED BY <1>1, <1>2, DoorsTyped, HashesTyped, AttemptKeeps

LEMMA UnlockPortalKeeps ==
  ASSUME IInv, NEW c \in Calls, NEW q \in Portals, NEW guess \in Secrets, UnlockPortal(c, q, guess)
  PROVE  IInv'
<1> DEFINE ports == {[id |-> q, hash |-> portals[q].hash]}
<1>1. /\ calls[c] = Idle /\ Attempt(c, "unlock portal", 0, NoHash, ports, guess, "await portals")
      /\ UNCHANGED <<staff, tokens, jar, failures, turns, history>>
  BY DEF UnlockPortal, Begins
<1>2. ports # {} /\ ports \in SUBSET Door BY DoorsTyped
<1> HIDE DEF ports
<1> QED BY <1>1, <1>2, HashesTyped, AttemptKeeps

LEMMA UnlockDoorsKeeps ==
  ASSUME IInv, NEW c \in Calls, UnlockDoors(c)
  PROVE  IInv'
<1> DEFINE k == calls[c]
<1>1. k.pc = "portals" /\ k.op = "unlock" /\ UNCHANGED <<staff, tokens, jar, failures, turns, history>>
  BY DEF UnlockDoors, At
<1>2. k \in Tries /\ TryOK(c) /\ k.pc \notin HandPcs
  BY <1>1, Kinds DEF IInv, CallsOK, CallOK, HandPcs
<1>3. k.page # 0 BY <1>1, <1>2 DEF TryOK
<1>4. PICK ports \in {GetPortalsForPage(k.page), NoPortals} :
        \/ calls' = [calls EXCEPT ![c].ports = ports, ![c].pc = "await page"]
        \/ ports # {} /\ calls' = [calls EXCEPT ![c].ports = ports, ![c].pc = "await portals"]
        \/ Return(c)
  BY DEF UnlockDoors
<1>5. ports \in SUBSET Door BY DoorsTyped
<1>6. ASSUME NEW pc \in {"await page", "await portals"}, pc = "await portals" => ports # {},
             calls' = [calls EXCEPT ![c].ports = ports, ![c].pc = pc]
      PROVE  IInv'
  <2> DEFINE r == [k EXCEPT !.ports = ports, !.pc = pc]
  <2>1. calls' = [calls EXCEPT ![c] = r] BY <1>6
  <2>2. r \in Tries /\ r.op = k.op /\ r.pc = pc /\ r.page = k.page /\ r.ports = ports
    BY <1>2, <1>5 DEF Tries, AtPage, AtPortals
  <2> HIDE DEF r
  <2>3. r.pc \notin HandPcs BY <2>2 DEF HandPcs
  <2> QED BY <1>1, <1>2, <1>3, <1>6, <2>1, <2>2, <2>3, QuietStep DEF Records
<1> QED BY <1>1, <1>2, <1>4, <1>6, ReturnKeeps

LEMMA AddPageLockKeeps ==
  ASSUME IInv, NEW c \in Calls, NEW q \in Portals, NEW p \in Pages, AddPageLock(c, q, p)
  PROVE  IInv'
<1> DEFINE r == [op |-> "add", pc |-> "insert", page |-> p, portal |-> q, locks |-> {PortalKey(q), PageKey(p)}]
<1>1. /\ calls[c] = Idle /\ calls' = [calls EXCEPT ![c] = r]
      /\ UNCHANGED <<staff, tokens, jar, failures, turns, history>>
      /\ Unlocked(PageKey(p)) /\ Fanout(p) < mix.fanout
  BY DEF AddPageLock, Begins
<1>2. r \in Adds BY KeysApart DEF Adds
<1>3. r.op = "add" /\ r.pc = "insert" /\ r.page = p /\ r.portal = q /\ r.locks = {PageKey(p), PortalKey(q)}
  OBVIOUS
<1> HIDE DEF r
<1>4. \A d \in Calls \ {c} : calls[d].op = "add" => calls[d].page # p
  <2>1. SUFFICES ASSUME NEW d \in Calls \ {c}, calls[d].op = "add" PROVE calls[d].page # p OBVIOUS
  <2>2. PageKey(p) \notin calls[d].locks BY <1>1, <2>1 DEF Unlocked
  <2>3. PageKey(calls[d].page) \in calls[d].locks BY <2>1 DEF IInv, CallsOK, CallOK, AddOK
  <2> QED BY <2>2, <2>3
<1>5. calls[c].pc \notin HandPcs /\ r.pc \notin HandPcs BY <1>1, <1>3, IdleOps DEF HandPcs
<1> QED BY <1>1, <1>2, <1>3, <1>4, <1>5, QuietStep DEF Records

---------------------------------------------------------------------------
(* Steps that move turns and counters: only of keys that were free or in   *)
(* the hands of the request that moves them.                               *)

LEMMA TurnStep ==
  ASSUME IInv, NEW c \in Calls, NEW r \in Records, calls' = [calls EXCEPT ![c] = r], r.op # "add",
         UNCHANGED <<staff, tokens, jar>>, proven \subseteq proven',
         failures' \in [Keys -> Nat], charged' \in [Keys -> Nat], owed' \in [Keys -> Nat],
         turns' \in [Keys -> Turn],
         \A k \in Keys : \/ turns[k] = Held(c) \/ turns[k] = Free
                         \/ turns'[k] = turns[k] /\ charged'[k] = charged[k],
         \A k \in Keys : \/ turns'[k] = turns[k] \/ turns'[k] = Held(c) \/ turns'[k] = Free
                         \/ \E d \in Nat : turns'[k] = Timer(d),
         CallOK(c)', Delayed', FailuresCounted'
  PROVE  IInv'
<1>1. /\ UNCHANGED <<mix, pages, portals, salts, tokens, jar>>
      /\ \A d \in Calls \ {c} : calls'[d] = calls[d]
      /\ calls'[c] = r
  BY DEF staff, IInv, Typed
<1>2. Typed' BY <1>1 DEF IInv, Typed, Records
<1>3. Stable(c)
  <2>1. ASSUME NEW d \in Calls \ {c}, NEW k \in Keys
        PROVE  /\ turns'[k] = Held(d) <=> turns[k] = Held(d)
               /\ turns[k] = Held(d) /\ charged[k] = 0 => charged'[k] = 0
    <3>1. Held(d) # Held(c) /\ Held(d) # Free /\ \A n \in Nat : Timer(n) # Held(d) BY TurnsApart
    <3> QED BY <3>1
  <2>2. \A p : Fanout(p)' = Fanout(p) /\ Fanout(p) \in Nat BY <1>1, FanoutType DEF Fanout
  <2> QED BY <1>1, <2>1, <2>2 DEF Stable
<1>4. CallsOK' BY <1>3, OthersKeep DEF CallsOK
<1>5. Earned(jar)'
  <2>1. Earned(jar) BY DEF IInv
  <2> QED BY <1>1, <2>1 DEF Earned
<1>6. Drawn' /\ PortalsSound' BY <1>1 DEF IInv, Drawn, PortalsSound, Fanout
<1>7. LocksApart' BY <1>1 DEF IInv, LocksApart
<1> QED BY <1>2, <1>4, <1>5, <1>6, <1>7 DEF IInv

\* A record of an attempt with another pc.
LEMMA Moved ==
  ASSUME Typed, NEW c \in Calls, calls[c] \in Tries, NEW pc \in {"portals"} \cup AtPage \cup AtPortals
  PROVE  LET r == [calls[c] EXCEPT !.pc = pc]
         IN /\ r \in Tries /\ r \in Records /\ r.pc = pc /\ r.op = calls[c].op /\ r.op # "add"
            /\ r.page = calls[c].page /\ r.hash = calls[c].hash /\ r.ports = calls[c].ports
            /\ r.chosen = calls[c].chosen /\ r.op \in {"unlock", "unlock portal"}
            /\ GoTo(c, pc) => calls' = [calls EXCEPT ![c] = r]
            /\ calls' = [calls EXCEPT ![c] = r] => calls'[c] = r
BY DEF Tries, Records, GoTo, Typed

LEMMA PortalKeysTyped ==
  ASSUME Typed, NEW c \in Calls, calls[c] \in Tries
  PROVE  PortalKeys(c) \subseteq Keys /\ (calls[c].ports # {} => PortalKeys(c) # {})
<1>1. calls[c].ports \subseteq Door BY DEF Tries
<1>2. \A r \in calls[c].ports : r.id \in Portals BY <1>1 DEF Door
<1>3. \A r \in calls[c].ports : PortalKey(r.id) \in Keys BY <1>2, KeysApart
<1> QED BY <1>3 DEF PortalKeys

LEMMA TakeKeeps ==
  ASSUME IInv, NEW c \in Calls, calls[c] \in Tries, TryOK(c), NEW ks \in SUBSET Keys,
         NEW pc \in {"verify page", "verify portals"}, Take(c, ks, pc),
         pc = "verify page" => calls[c].pc = "await page" /\ ks = {PageKey(calls[c].page)},
         pc = "verify portals" => calls[c].pc = "await portals" /\ ks = PortalKeys(c)
  PROVE  IInv'
<1> DEFINE r == [calls[c] EXCEPT !.pc = pc]
<1>1. /\ \A k \in ks : turns[k] = Free
      /\ turns' = [k \in Keys |-> IF k \in ks THEN Held(c) ELSE turns[k]]
      /\ GoTo(c, pc)
      /\ UNCHANGED <<staff, tokens, jar, failures, proven, owed, charged>>
  BY DEF Take, history
<1>2. Typed /\ Delayed BY DEF IInv
<1>3. /\ r \in Records /\ r.pc = pc /\ r.op \in {"unlock", "unlock portal"} /\ r.op # "add"
      /\ r.page = calls[c].page /\ r.ports = calls[c].ports
      /\ calls' = [calls EXCEPT ![c] = r] /\ calls'[c] = r
  BY <1>1, <1>2, Moved, ZenonT(120) DEF AtPage, AtPortals
<1> HIDE DEF r
<1>4. turns' \in [Keys -> Turn] BY <1>1, <1>2, TurnsApart DEF Typed
<1>5. \A k \in Keys : turns[k] # Held(c) BY EmptyHands DEF HandPcs
<1>6. \A k \in Keys : turns'[k] = Held(c) <=> k \in ks BY <1>1, <1>5
<1>7. InHand(c)' = ks BY <1>3 DEF InHand, PortalKeys
<1>8. TryOK(c)' BY <1>1, <1>3 DEF TryOK, AtPage, AtPortals
<1>9. CallOK(c)' BY <1>3, <1>6, <1>7, <1>8 DEF CallOK
<1>10. Delayed'
  <2>1. SUFFICES ASSUME NEW k \in Keys PROVE owed'[k] <= IF turns'[k].by = "timer" THEN turns'[k].left ELSE 0
    BY DEF Delayed
  <2>2. CASE k \in ks
    <3>1. owed[k] <= 0 BY <1>1, <1>2, <2>2, TurnsApart DEF Delayed
    <3> QED BY <1>1, <2>2, <3>1, TurnsApart
  <2>3. CASE k \notin ks BY <1>1, <1>2, <2>3 DEF Delayed
  <2> QED BY <2>2, <2>3
<1>11. FailuresCounted' BY <1>1 DEF IInv, FailuresCounted
<1>12. failures' \in [Keys -> Nat] /\ charged' \in [Keys -> Nat] /\ owed' \in [Keys -> Nat]
  BY <1>1, <1>2 DEF Typed
<1> QED BY <1>1, <1>3, <1>4, <1>9, <1>10, <1>11, <1>12, TurnStep

\* The turns in a request's hands, given back or left to a timer.
LEMMA GivenBack ==
  ASSUME IInv, NEW c \in Calls, NEW d \in Nat
  PROVE  /\ Released(c, InHand(c)) = [k \in Keys |-> IF k \in InHand(c) THEN Free ELSE turns[k]]
         /\ HeldFor(c, InHand(c), d) = [k \in Keys |-> IF k \in InHand(c) THEN Timer(d) ELSE turns[k]]
<1>1. \A k \in Keys : turns[k] = Held(c) <=> k \in InHand(c) BY DEF IInv, CallsOK, CallOK
<1> QED BY <1>1 DEF Released, HeldFor

LEMMA InHandOwesNothing ==
  ASSUME IInv, NEW c \in Calls, NEW k \in Keys, turns[k] = Held(c)
  PROVE  owed[k] = 0
<1>1. Held(c).by # "timer" BY TurnsApart
<1>2. owed[k] <= 0 BY <1>1 DEF IInv, Delayed
<1> QED BY <1>2 DEF IInv, Typed

LEMMA VerifyPageKeeps ==
  ASSUME IInv, NEW c \in Calls, calls[c] \in Tries, VerifyPage(c)
  PROVE  IInv'
<1> DEFINE k == calls[c]
           x == PageKey(k.page)
           pc == IF VerifyPassword(k.guess, k.hash) THEN "clear page" ELSE "record page"
           r == [k EXCEPT !.pc = pc]
<1>1. /\ k.pc = "verify page" /\ GoTo(c, pc)
      /\ UNCHANGED <<staff, tokens, jar, failures, turns, owed>>
      /\ pc = "clear page" => proven' = proven \cup {<<x, k.hash.salt>>} /\ charged' = [charged EXCEPT ![x] = 0]
      /\ pc = "record page" => UNCHANGED <<proven, charged>>
  BY DEF VerifyPage, At
<1>2. pc \in {"clear page", "record page"} /\ (pc = "clear page" => k.hash # NoHash) BY DEF VerifyPassword
<1> HIDE DEF pc
<1>p. pc \in {"portals"} \cup AtPage \cup AtPortals BY <1>2 DEF AtPage, AtPortals
<1>3. Typed /\ CallOK(c) /\ TryOK(c) BY DEF IInv, CallsOK, CallOK, Tries
<1>4. /\ r \in Records /\ r.pc = pc /\ r.op \in {"unlock", "unlock portal"} /\ r.op # "add"
      /\ r.page = k.page /\ r.hash = k.hash
      /\ calls' = [calls EXCEPT ![c] = r] /\ calls'[c] = r
  BY <1>1, <1>3, <1>p, Moved, ZenonT(120)
<1> HIDE DEF r
<1>5. k.page \in Pages /\ x \in Keys /\ InHand(c) = {x} /\ turns[x] = Held(c)
  <2>1. k.page \in Pages BY <1>1, <1>3 DEF Tries, TryOK, AtPage
  <2>2. InHand(c) = {x} BY <1>1 DEF InHand
  <2> QED BY <1>3, <2>1, <2>2, KeysApart DEF CallOK
<1>6. charged' \in [Keys -> Nat] /\ proven \subseteq proven' /\ \A y \in Keys : y # x => charged'[y] = charged[y]
  <2>1. CASE pc = "clear page"
    <3>1. proven' = proven \cup {<<x, k.hash.salt>>} /\ charged' = [charged EXCEPT ![x] = 0] BY <1>1, <2>1
    <3>2. charged \in [Keys -> Nat] BY <1>3 DEF Typed
    <3> HIDE DEF x
    <3>3. charged' \in [Keys -> Nat] BY <3>1, <3>2
    <3>4. proven \subseteq proven' BY <3>1
    <3>5. \A y \in Keys : y # x => charged'[y] = charged[y] BY <3>1, <3>2
    <3> QED BY <3>3, <3>4, <3>5
  <2>2. CASE pc = "record page" BY <1>1, <1>3, <2>2 DEF Typed
  <2> QED BY <1>2, <2>1, <2>2
<1>7. InHand(c)' = {x} BY <1>2, <1>4 DEF InHand
<1>8. TryOK(c)'
  <2>1. pc = "clear page" => charged'[x] = 0 /\ <<x, k.hash.salt>> \in proven' BY <1>1, <1>3, <1>5 DEF Typed
  <2>2. k.page # 0 BY <1>1, <1>3 DEF TryOK, AtPage
  <2> QED BY <1>2, <1>4, <2>1, <2>2 DEF TryOK, AtPage, AtPortals
<1>9. CallOK(c)'
  <2>1. \A y \in Keys : turns'[y] = Held(c) <=> y \in InHand(c)' BY <1>1, <1>3, <1>5, <1>7 DEF CallOK
  <2> QED BY <1>4, <1>8, <2>1 DEF CallOK
<1>10. FailuresCounted'
  <2>1. \A y \in Keys : charged[y] <= failures[y] BY DEF IInv, FailuresCounted
  <2>2. \A y \in Keys : failures[y] \in Nat /\ failures'[y] = failures[y] BY <1>1, <1>3 DEF Typed
  <2>3. charged'[x] = charged[x] \/ charged'[x] = 0 BY <1>1, <1>2, <1>3, <1>5 DEF Typed
  <2>4. \A y \in Keys : charged'[y] = charged[y] \/ charged'[y] = 0 BY <1>6, <2>3
  <2>5. \A y \in Keys : charged'[y] <= failures'[y] BY <2>1, <2>2, <2>4
  <2> QED BY <2>5 DEF FailuresCounted
<1>11. Delayed' BY <1>1 DEF IInv, Delayed
<1>12. failures' \in [Keys -> Nat] /\ owed' \in [Keys -> Nat] /\ turns' \in [Keys -> Turn]
  BY <1>1, <1>3 DEF Typed
<1> QED BY <1>1, <1>4, <1>5, <1>6, <1>9, <1>10, <1>11, <1>12, TurnStep

LEMMA VerifyPortalsKeeps ==
  ASSUME IInv, NEW c \in Calls, calls[c] \in Tries, VerifyPortals(c)
  PROVE  IInv'
<1> DEFINE k == calls[c]
           opened == {d \in k.ports : VerifyPassword(k.guess, d.hash)}
           ks == PortalKeys(c)
<1>1. k.pc = "verify portals" /\ UNCHANGED <<staff, tokens, jar, failures, turns, owed>>
  BY DEF VerifyPortals, At
<1>2. Typed /\ CallOK(c) /\ TryOK(c) BY DEF IInv, CallsOK, CallOK, Tries
<1>3. k.ports # {} /\ k.ports \subseteq Door BY <1>1, <1>2 DEF TryOK, AtPortals, Tries
<1>4. InHand(c) = ks /\ ks \subseteq Keys /\ \A y \in Keys : turns[y] = Held(c) <=> y \in ks
  <2>1. InHand(c) = ks BY <1>1 DEF InHand
  <2> QED BY <1>2, <2>1, PortalKeysTyped DEF CallOK
<1>5. failures' \in [Keys -> Nat] /\ owed' \in [Keys -> Nat] /\ turns' \in [Keys -> Turn] /\ Delayed'
  BY <1>1, <1>2 DEF Typed, IInv, Delayed
<1>6. CASE opened = {}
  <2> DEFINE r == [k EXCEPT !.pc = "record portals"]
  <2>1. GoTo(c, "record portals") /\ UNCHANGED <<proven, charged>> BY <1>6 DEF VerifyPortals
  <2>2. /\ r \in Records /\ r.pc = "record portals" /\ r.op \in {"unlock", "unlock portal"} /\ r.op # "add"
        /\ r.ports = k.ports
        /\ calls' = [calls EXCEPT ![c] = r] /\ calls'[c] = r
    BY <1>2, <2>1, Moved, ZenonT(60) DEF AtPage, AtPortals
  <2> HIDE DEF r
  <2>3. InHand(c)' = ks BY <2>2 DEF InHand, PortalKeys
  <2>4. TryOK(c)' BY <1>3, <2>2 DEF TryOK, AtPage, AtPortals
  <2>5. CallOK(c)' BY <1>1, <1>4, <2>2, <2>3, <2>4 DEF CallOK
  <2>6. FailuresCounted' /\ charged' \in [Keys -> Nat] BY <1>1, <1>2, <2>1 DEF IInv, FailuresCounted, Typed
  <2> QED BY <1>1, <1>5, <2>1, <2>2, <2>5, <2>6, TurnStep
<1>7. CASE opened # {}
  <2> DEFINE ids == {y.id : y \in opened}
             e == CHOOSE y \in opened : y.id = Lowest(ids)
             x == PortalKey(e.id)
             r == [k EXCEPT !.pc = "clear portal", !.chosen = e.id, !.hash = e.hash]
  <2>1. /\ calls' = [calls EXCEPT ![c].pc = "clear portal", ![c].chosen = e.id, ![c].hash = e.hash]
        /\ proven' = proven \cup {<<x, e.hash.salt>>} /\ charged' = [charged EXCEPT ![x] = 0]
    BY <1>7 DEF VerifyPortals
  <2>2. e \in opened
    <3>1. \A y \in opened : y.id \in Portals BY <1>3 DEF Door
    <3>2. ids \in SUBSET Nat /\ ids # {} BY <1>7, <3>1, AccessAssumption
    <3>3. Lowest(ids) \in ids BY <3>2, LowestIn
    <3>4. \E y \in opened : y.id = Lowest(ids) BY <3>3
    <3> QED BY <3>4
  <2> HIDE DEF e
  <2>h. e.hash # NoHash BY <2>2 DEF VerifyPassword
  <2>3. e \in Door /\ e.id \in Portals /\ e.hash \in Hash /\ e.id # 0 BY <1>3, <2>2, AccessAssumption DEF Door
  <2>4. x \in ks /\ x \in Keys BY <2>2, <2>3, KeysApart DEF PortalKeys
  <2>5. calls' = [calls EXCEPT ![c] = r] BY <2>1
  <2>6. /\ r \in Tries /\ r.pc = "clear portal" /\ r.op \in {"unlock", "unlock portal"} /\ r.op # "add"
        /\ r.ports = k.ports /\ r.chosen = e.id /\ r.hash = e.hash
    BY <2>3 DEF Tries, AtPortals
  <2> HIDE DEF r
  <2>7. calls'[c] = r /\ r \in Records BY <1>2, <2>5, <2>6 DEF Typed, Records
  <2>8. InHand(c)' = ks /\ PortalKeys(c)' = ks BY <2>6, <2>7 DEF InHand, PortalKeys
  <2>9. charged' \in [Keys -> Nat] /\ charged'[x] = 0 /\ \A y \in Keys : y # x => charged'[y] = charged[y]
    BY <1>2, <2>1, <2>4 DEF Typed
  <2>t. <<x, e.hash.salt>> \in proven' BY <2>1
  <2>10. TryOK(c)'
    <3> HIDE DEF x, ks
    <3>1. PortalKey(calls'[c].chosen) = x BY <2>6, <2>7 DEF x
    <3> QED BY <1>3, <2>3, <2>4, <2>h, <2>6, <2>7, <2>8, <2>9, <2>t, <3>1 DEF TryOK, AtPage, AtPortals
  <2>11. CallOK(c)' BY <1>1, <1>4, <2>6, <2>7, <2>8, <2>10 DEF CallOK
  <2>12. FailuresCounted'
    <3>1. \A y \in Keys : charged[y] <= failures[y] BY DEF IInv, FailuresCounted
    <3>2. \A y \in Keys : failures[y] \in Nat /\ failures'[y] = failures[y] BY <1>1, <1>2 DEF Typed
    <3>3. \A y \in Keys : charged'[y] = charged[y] \/ charged'[y] = 0 BY <2>9
    <3>4. \A y \in Keys : charged'[y] <= failures'[y] BY <3>1, <3>2, <3>3
    <3> QED BY <3>4 DEF FailuresCounted
  <2>13. proven \subseteq proven' BY <2>1
  <2>14. \A y \in Keys : turns[y] = Held(c) \/ (turns'[y] = turns[y] /\ charged'[y] = charged[y])
    BY <1>1, <1>4, <2>4, <2>9
  <2>15. \A y \in Keys : turns'[y] = turns[y] BY <1>1
  <2> QED BY <1>1, <1>5, <2>5, <2>6, <2>7, <2>9, <2>11, <2>12, <2>13, <2>14, <2>15, TurnStep
<1> QED BY <1>6, <1>7

LEMMA ReleasedKeeps ==
  ASSUME IInv, NEW c \in Calls, turns' = Released(c, InHand(c))
  PROVE  /\ turns' \in [Keys -> Turn]
         /\ \A k \in Keys : turns'[k] # Held(c)
         /\ UNCHANGED owed => Delayed'
<1>1. turns' = [k \in Keys |-> IF k \in InHand(c) THEN Free ELSE turns[k]] BY GivenBack, 0 \in Nat
<1>2. \A k \in Keys : turns[k] = Held(c) <=> k \in InHand(c) BY DEF IInv, CallsOK, CallOK
<1>3. turns' \in [Keys -> Turn] BY <1>1, TurnsApart DEF IInv, Typed
<1>4. \A k \in Keys : turns'[k] # Held(c) BY <1>1, <1>2, TurnsApart
<1>5. ASSUME UNCHANGED owed, NEW k \in Keys
      PROVE  owed'[k] <= IF turns'[k].by = "timer" THEN turns'[k].left ELSE 0
  <2>1. CASE k \in InHand(c)
    <3>1. owed[k] = 0 BY <1>2, <2>1, InHandOwesNothing
    <3>2. owed'[k] = 0 /\ turns'[k] = Free BY <1>1, <1>5, <2>1, <3>1
    <3> QED BY <3>2 DEF Free
  <2>2. CASE k \notin InHand(c) BY <1>1, <1>5, <2>2 DEF IInv, Delayed
  <2> QED BY <2>1, <2>2
<1> QED BY <1>3, <1>4, <1>5 DEF Delayed

LEMMA CountedStays ==
  ASSUME \A k \in Keys : failures[k] \in Nat,
         \A k \in Keys : charged[k] <= failures[k],
         \A k \in Keys : \/ charged'[k] = 0 /\ failures'[k] = 0
                         \/ charged'[k] = charged[k] /\ failures'[k] = failures[k]
  PROVE  FailuresCounted'
<1>1. 0 <= 0 OBVIOUS
<1> QED BY <1>1 DEF FailuresCounted

\* A clearing write, done or lost: the turns go back and the request goes on
\* to admit.
LEMMA ClearKeeps ==
  ASSUME IInv, NEW c \in Calls, calls[c] \in Tries, NEW x \in InHand(c), InHand(c) \subseteq Keys,
         charged[x] = 0, failures' \in {failures, [failures EXCEPT ![x] = 0]},
         turns' = Released(c, InHand(c)), UNCHANGED <<staff, tokens, jar, history>>,
         NEW pc \in {"admit page", "admit portal"}, GoTo(c, pc), calls[c].pc \in HandPcs,
         pc = "admit page" => calls[c].pc = "clear page",
         pc = "admit portal" => calls[c].pc = "clear portal"
  PROVE  IInv'
<1> DEFINE k == calls[c]
           r == [k EXCEPT !.pc = pc]
<1>1. Typed /\ CallOK(c) /\ TryOK(c) /\ Delayed BY DEF IInv, CallsOK, CallOK, Tries
<1>2. UNCHANGED <<proven, owed, charged>> BY DEF history
<1>p. pc \in {"portals"} \cup AtPage \cup AtPortals BY DEF AtPage, AtPortals
<1>3. /\ r \in Records /\ r.pc = pc /\ r.op \in {"unlock", "unlock portal"} /\ r.op # "add"
      /\ r.page = k.page /\ r.hash = k.hash /\ r.ports = k.ports /\ r.chosen = k.chosen
      /\ calls' = [calls EXCEPT ![c] = r] /\ calls'[c] = r
  BY <1>1, <1>p, Moved, ZenonT(120)
<1> HIDE DEF r
<1>4. turns' = [y \in Keys |-> IF y \in InHand(c) THEN Free ELSE turns[y]] BY GivenBack, 0 \in Nat
<1>5. \A y \in Keys : turns[y] = Held(c) <=> y \in InHand(c) BY <1>1 DEF CallOK
<1>6. turns' \in [Keys -> Turn] /\ \A y \in Keys : turns'[y] # Held(c) BY ReleasedKeeps
<1>8. InHand(c)' = {} BY <1>3 DEF InHand
<1>f. /\ calls'[c].pc = pc /\ calls'[c].page = k.page /\ calls'[c].hash = k.hash
      /\ calls'[c].ports = k.ports /\ calls'[c].chosen = k.chosen
  BY <1>3
<1> HIDE DEF k
<1>9. TryOK(c)'
  <2>1. PortalKeys(c)' = PortalKeys(c) BY <1>f DEF PortalKeys, k
  <2>2. CASE pc = "admit page"
    <3>1. k.page # 0 /\ <<PageKey(k.page), k.hash.salt>> \in proven /\ k.hash # NoHash
      BY <1>1, <2>2 DEF TryOK, AtPage, k
    <3>2. calls'[c].pc \notin AtPortals \cup {"clear page", "clear portal", "admit portal"}
      BY <1>f, <2>2 DEF AtPortals
    <3> QED BY <1>2, <1>f, <2>2, <3>1, <3>2 DEF TryOK
  <2>3. CASE pc = "admit portal"
    <3>1. /\ k.ports # {} /\ k.chosen # 0 /\ PortalKey(k.chosen) \in PortalKeys(c)
          /\ <<PortalKey(k.chosen), k.hash.salt>> \in proven /\ k.hash # NoHash
      BY <1>1, <2>3 DEF TryOK, AtPortals, k
    <3>2. calls'[c].pc \notin AtPage \cup {"portals", "clear page", "clear portal", "admit page"}
      BY <1>f, <2>3 DEF AtPage
    <3> QED BY <1>2, <1>f, <2>1, <2>3, <3>1, <3>2 DEF TryOK
  <2> QED BY <2>2, <2>3
<1>10. CallOK(c)' BY <1>3, <1>6, <1>8, <1>9 DEF CallOK
<1>11. Delayed' BY <1>2, ReleasedKeeps
<1>12. failures' \in [Keys -> Nat] BY <1>1 DEF Typed
<1>13. FailuresCounted'
  <2>1. \A y \in Keys : charged[y] <= failures[y] BY DEF IInv, FailuresCounted
  <2>2. \A y \in Keys : failures'[y] = failures[y] \/ (y = x /\ failures'[y] = 0) BY <1>1 DEF Typed
  <2>3. charged' = charged BY <1>2
  <2>4. charged'[x] = 0 /\ \A y \in Keys : charged'[y] = charged[y] BY <2>3
  <2>5. \A y \in Keys : \/ charged'[y] = 0 /\ failures'[y] = 0
                        \/ charged'[y] = charged[y] /\ failures'[y] = failures[y]
    BY <2>2, <2>4
  <2>6. \A y \in Keys : failures[y] \in Nat BY <1>1 DEF Typed
  <2> QED BY <2>1, <2>5, <2>6, CountedStays
<1>14. charged' \in [Keys -> Nat] /\ owed' \in [Keys -> Nat] BY <1>1, <1>2 DEF Typed
<1>15. \A y \in Keys : \/ turns[y] = Held(c) \/ turns[y] = Free
                       \/ turns'[y] = turns[y] /\ charged'[y] = charged[y]
  BY <1>2, <1>4, <1>5
<1>16. \A y \in Keys : turns'[y] = turns[y] \/ turns'[y] = Free BY <1>4
<1> QED BY <1>2, <1>3, <1>6, <1>10, <1>11, <1>12, <1>13, <1>14, <1>15, <1>16, TurnStep

LEMMA ClearPageKeeps ==
  ASSUME IInv, NEW c \in Calls, calls[c] \in Tries, ClearPage(c)
  PROVE  IInv'
<1> DEFINE x == PageKey(calls[c].page)
<1>1. /\ calls[c].pc = "clear page" /\ GoTo(c, "admit page") /\ turns' = Released(c, {x})
      /\ failures' \in {failures, [failures EXCEPT ![x] = 0]}
      /\ UNCHANGED <<staff, tokens, jar, history>>
  BY DEF ClearPage, At
<1>2. TryOK(c) BY DEF IInv, CallsOK, CallOK, Tries
<1>3. x \in Keys /\ charged[x] = 0 BY <1>1, <1>2, KeysApart DEF TryOK, AtPage, Tries
<1>4. InHand(c) = {x} BY <1>1 DEF InHand
<1> HIDE DEF x
<1>5. calls[c].pc \in HandPcs BY <1>1 DEF HandPcs
<1> QED BY <1>1, <1>3, <1>4, <1>5, ClearKeeps

LEMMA ClearPortalKeeps ==
  ASSUME IInv, NEW c \in Calls, calls[c] \in Tries, ClearPortal(c)
  PROVE  IInv'
<1> DEFINE x == PortalKey(calls[c].chosen)
<1>1. /\ calls[c].pc = "clear portal" /\ GoTo(c, "admit portal") /\ turns' = Released(c, PortalKeys(c))
      /\ failures' \in {failures, [failures EXCEPT ![x] = 0]}
      /\ UNCHANGED <<staff, tokens, jar, history>>
  BY DEF ClearPortal, At
<1>2. Typed /\ TryOK(c) BY DEF IInv, CallsOK, CallOK, Tries
<1>3. x \in PortalKeys(c) /\ charged[x] = 0 BY <1>1, <1>2 DEF TryOK
<1>4. InHand(c) = PortalKeys(c) /\ PortalKeys(c) \subseteq Keys BY <1>1, <1>2, PortalKeysTyped DEF InHand
<1> HIDE DEF x
<1>5. calls[c].pc \in HandPcs BY <1>1 DEF HandPcs
<1> QED BY <1>1, <1>3, <1>4, <1>5, ClearKeeps

LEMMA HeldForKeeps ==
  ASSUME IInv, NEW c \in Calls, NEW d \in Nat, turns' = HeldFor(c, InHand(c), d), Owe(InHand(c), d)
  PROVE  /\ turns' \in [Keys -> Turn] /\ owed' \in [Keys -> Nat]
         /\ \A k \in Keys : turns'[k] # Held(c)
         /\ \A k \in Keys : turns[k] # Held(c) => turns'[k] = turns[k]
         /\ Delayed'
<1>1. turns' = [k \in Keys |-> IF k \in InHand(c) THEN Timer(d) ELSE turns[k]] BY GivenBack
<1>2. owed' = [k \in Keys |-> IF k \in InHand(c) THEN d ELSE owed[k]] BY DEF Owe
<1>3. \A k \in Keys : turns[k] = Held(c) <=> k \in InHand(c) BY DEF IInv, CallsOK, CallOK
<1>4. turns' \in [Keys -> Turn] BY <1>1, TurnsApart DEF IInv, Typed
<1>5. owed' \in [Keys -> Nat] BY <1>2 DEF IInv, Typed
<1>6. \A k \in Keys : turns'[k] # Held(c) BY <1>1, <1>3, TurnsApart
<1>7. ASSUME NEW k \in Keys
      PROVE  owed'[k] <= IF turns'[k].by = "timer" THEN turns'[k].left ELSE 0
  <2>1. CASE k \in InHand(c)
    <3>1. owed'[k] = d /\ turns'[k] = Timer(d) BY <1>1, <1>2, <2>1
    <3> QED BY <3>1 DEF Timer
  <2>2. CASE k \notin InHand(c) BY <1>1, <1>2, <2>2 DEF IInv, Delayed
  <2> QED BY <2>1, <2>2
<1> QED BY <1>1, <1>3, <1>4, <1>5, <1>6, <1>7 DEF Delayed

\* One more failure on some keys keeps the counts above the charges.
LEMMA CountedKeeps ==
  ASSUME Typed, FailuresCounted, NEW done \in SUBSET Keys, failures' = Counted(done), Charge(done)
  PROVE  FailuresCounted' /\ failures' \in [Keys -> Nat] /\ charged' \in [Keys -> Nat]
<1>1. failures' = [k \in Keys |-> IF k \in done THEN Lesser(failures[k] + 1, MaxCount) ELSE failures[k]]
  BY DEF Counted
<1>2. charged' = [k \in Keys |-> IF k \in done THEN Lesser(charged[k] + 1, MaxCount) ELSE charged[k]]
  BY DEF Charge
<1>3. MaxCount \in Nat BY AccessAssumption
<1>4. ASSUME NEW k \in Keys
      PROVE  failures'[k] \in Nat /\ charged'[k] \in Nat /\ charged'[k] <= failures'[k]
  <2>1. failures[k] \in Nat /\ charged[k] \in Nat /\ charged[k] <= failures[k] BY DEF Typed, FailuresCounted
  <2>2. CASE k \in done
    <3>1. failures'[k] = Lesser(failures[k] + 1, MaxCount) /\ charged'[k] = Lesser(charged[k] + 1, MaxCount)
      BY <1>1, <1>2, <2>2
    <3> QED BY <1>3, <2>1, <3>1 DEF Lesser
  <2>3. CASE k \notin done BY <1>1, <1>2, <2>1, <2>3
  <2> QED BY <2>2, <2>3
<1>5. failures' \in [Keys -> Nat] BY <1>1, <1>4
<1>6. charged' \in [Keys -> Nat] BY <1>2, <1>4
<1> QED BY <1>4, <1>5, <1>6 DEF FailuresCounted

LEMMA RecordKeeps ==
  ASSUME IInv, NEW c \in Calls, NEW d \in Nat, InHand(c) \subseteq Keys, NEW done \in SUBSET InHand(c),
         failures' = Counted(done), Charge(done),
         \/ turns' = HeldFor(c, InHand(c), d) /\ Owe(InHand(c), d)
         \/ turns' = Released(c, InHand(c)) /\ UNCHANGED owed,
         UNCHANGED <<staff, tokens, jar, proven>>,
         NEW r \in Records, calls' = [calls EXCEPT ![c] = r],
         r = Idle \/ (r \in Tries /\ r.pc = "await portals" /\ r.ports # {})
  PROVE  IInv'
<1>1. \A k \in Keys : turns[k] = Held(c) <=> k \in InHand(c) BY DEF IInv, CallsOK, CallOK
<1>2. FailuresCounted' /\ failures' \in [Keys -> Nat] /\ charged' \in [Keys -> Nat]
  BY CountedKeeps DEF IInv
<1>3. /\ turns' \in [Keys -> Turn] /\ owed' \in [Keys -> Nat] /\ Delayed'
      /\ \A k \in Keys : turns'[k] # Held(c)
  <2>1. CASE turns' = HeldFor(c, InHand(c), d) /\ Owe(InHand(c), d) BY <2>1, HeldForKeeps
  <2>2. CASE turns' = Released(c, InHand(c)) /\ UNCHANGED owed
    BY <2>2, ReleasedKeeps DEF IInv, Typed
  <2> QED BY <2>1, <2>2
<1>4. \A k \in Keys : /\ turns'[k] = turns[k] \/ turns'[k] = Free \/ turns'[k] = Timer(d)
                      /\ k \notin InHand(c) => turns'[k] = turns[k]
  <2>1. CASE turns' = [k \in Keys |-> IF k \in InHand(c) THEN Timer(d) ELSE turns[k]] BY <2>1
  <2>2. CASE turns' = [k \in Keys |-> IF k \in InHand(c) THEN Free ELSE turns[k]] BY <2>2
  <2> QED BY <2>1, <2>2, GivenBack
<1>6. \A k \in Keys : k \notin InHand(c) => charged'[k] = charged[k] BY DEF Charge
<1>7. calls'[c] = r BY DEF IInv, Typed
<1>8. InHand(c)' = {}
  <2>1. r.pc \in {"idle", "await portals"} BY IdleOps
  <2> QED BY <1>7, <2>1 DEF InHand
<1>9. r.op # "add" /\ r.op # "get" /\ (r.op \in {"unlock", "unlock portal"} => TryOK(c)')
  <2>1. CASE r = Idle BY <2>1, IdleOps
  <2>2. CASE r \in Tries /\ r.pc = "await portals" /\ r.ports # {}
    <3>1. r.op \in {"unlock", "unlock portal"} BY <2>2 DEF Tries
    <3>2. TryOK(c)' BY <1>7, <2>2 DEF TryOK, AtPage
    <3> QED BY <3>1, <3>2
  <2> QED BY <2>1, <2>2
<1>10. CallOK(c)' BY <1>3, <1>7, <1>8, <1>9 DEF CallOK
<1>11. \A k \in Keys : \/ turns[k] = Held(c) \/ turns[k] = Free
                       \/ turns'[k] = turns[k] /\ charged'[k] = charged[k]
  BY <1>1, <1>4, <1>6
<1>12. \A k \in Keys : \/ turns'[k] = turns[k] \/ turns'[k] = Held(c) \/ turns'[k] = Free
                       \/ \E n \in Nat : turns'[k] = Timer(n)
  BY <1>4
<1>13. proven \subseteq proven' OBVIOUS
<1>14. UNCHANGED <<staff, tokens, jar>> OBVIOUS
<1> QED BY <1>2, <1>3, <1>9, <1>10, <1>11, <1>12, <1>13, <1>14, TurnStep

LEMMA RecordPageKeeps ==
  ASSUME IInv, NEW c \in Calls, calls[c] \in Tries, RecordPage(c)
  PROVE  IInv'
<1> DEFINE x == PageKey(calls[c].page)
           d == DelayForFailures(Counted({x})[x])
           r == [calls[c] EXCEPT !.pc = "await portals"]
<1>1. /\ calls[c].pc = "record page" /\ UNCHANGED <<staff, tokens, jar, proven>>
      /\ \/ /\ failures' = Counted({x}) /\ Charge({x})
            /\ turns' = HeldFor(c, {x}, d) /\ Owe({x}, d)
            /\ (calls[c].ports # {} /\ GoTo(c, "await portals")) \/ Return(c)
         \/ /\ turns' = Released(c, {x}) /\ Return(c)
            /\ UNCHANGED <<failures, charged, owed>>
  BY DEF RecordPage, At
<1>2. Typed /\ TryOK(c) BY DEF IInv, CallsOK, CallOK, Tries
<1>3. x \in Keys BY <1>1, <1>2, KeysApart DEF TryOK, AtPage, Tries
<1>4. InHand(c) = {x} BY <1>1 DEF InHand
<1>5. d \in Nat
  <2>1. failures[x] \in Nat /\ MaxCount \in Nat BY <1>2, <1>3, AccessAssumption DEF Typed
  <2>2. Counted({x})[x] = Lesser(failures[x] + 1, MaxCount) BY <1>3 DEF Counted
  <2>3. failures[x] + 1 \in Nat BY <2>1
  <2> HIDE DEF x
  <2>4. Counted({x})[x] \in Nat BY <2>1, <2>2, <2>3, LesserType
  <2> QED BY <2>4, DelayType, AccessAssumption
<1> HIDE DEF x, d
<1>6. CASE failures' = Counted({x}) /\ Charge({x}) /\ turns' = HeldFor(c, {x}, d) /\ Owe({x}, d)
           /\ ((calls[c].ports # {} /\ GoTo(c, "await portals")) \/ Return(c))
  <2>1. CASE calls[c].ports # {} /\ GoTo(c, "await portals")
    <3>p. "await portals" \in {"portals"} \cup AtPage \cup AtPortals BY DEF AtPortals
    <3>1. /\ r \in Tries /\ r \in Records /\ r.pc = "await portals" /\ r.ports = calls[c].ports
          /\ calls' = [calls EXCEPT ![c] = r]
      BY <1>2, <2>1, <3>p, Moved
    <3> HIDE DEF r
    <3> QED BY <1>1, <1>3, <1>4, <1>5, <1>6, <2>1, <3>1, RecordKeeps
  <2>2. CASE Return(c) BY <1>1, <1>3, <1>4, <1>5, <1>6, <2>2, RecordKeeps, IdleOps DEF Return
  <2> QED BY <1>6, <2>1, <2>2
<1>7. CASE turns' = Released(c, {x}) /\ Return(c) /\ UNCHANGED <<failures, charged, owed>>
  <2>1. failures' = Counted({}) /\ Charge({}) BY <1>2, <1>7 DEF Counted, Charge, Typed
  <2>2. {} \in SUBSET InHand(c) OBVIOUS
  <2>3. UNCHANGED owed /\ calls' = [calls EXCEPT ![c] = Idle] BY <1>7 DEF Return
  <2> QED BY <1>1, <1>3, <1>4, <1>5, <1>7, <2>1, <2>2, <2>3, RecordKeeps, IdleOps
<1> QED BY <1>1, <1>6, <1>7

LEMMA RecordPortalsKeeps ==
  ASSUME IInv, NEW c \in Calls, calls[c] \in Tries, RecordPortals(c)
  PROVE  IInv'
<1> DEFINE ks == PortalKeys(c)
           D  == {DelayForFailures(Counted(ks)[k]) : k \in ks}
           d  == Greatest(D)
<1>1. /\ calls[c].pc = "record portals" /\ UNCHANGED <<staff, tokens, jar, proven>> /\ Return(c)
      /\ \/ /\ failures' = Counted(ks) /\ turns' = HeldFor(c, ks, d) /\ Charge(ks) /\ Owe(ks, d)
         \/ \E done \in SUBSET ks : /\ done # ks /\ failures' = Counted(done)
              /\ turns' = Released(c, ks) /\ Charge(done) /\ UNCHANGED owed
  BY DEF RecordPortals, At
<1>2. Typed /\ TryOK(c) BY DEF IInv, CallsOK, CallOK, Tries
<1>3. calls[c].ports # {} BY <1>1, <1>2 DEF TryOK, AtPortals
<1>4. ks \subseteq Keys /\ ks # {} BY <1>2, <1>3, PortalKeysTyped
<1>5. InHand(c) = ks BY <1>1 DEF InHand
<1> HIDE DEF ks
<1>6. d \in Nat
  <2>1. ASSUME NEW k \in ks PROVE DelayForFailures(Counted(ks)[k]) \in 0..MaxDelay
    <3>1. failures[k] \in Nat /\ MaxCount \in Nat BY <1>2, <1>4, AccessAssumption DEF Typed
    <3>2. Counted(ks)[k] = Lesser(failures[k] + 1, MaxCount) BY <1>4 DEF Counted
    <3>3. failures[k] + 1 \in Nat BY <3>1
    <3>4. Counted(ks)[k] \in Nat BY <3>1, <3>2, <3>3, LesserType
    <3> QED BY <3>4, DelayType
  <2>2. MaxDelay \in Nat /\ D \in SUBSET (0..MaxDelay) /\ D # {} BY <1>4, <2>1, AccessAssumption
  <2> HIDE DEF D
  <2>3. d \in 0..MaxDelay BY <2>2, GreatestIn
  <2> QED BY <2>2, <2>3
<1> HIDE DEF d
<1>7. CASE failures' = Counted(ks) /\ turns' = HeldFor(c, ks, d) /\ Charge(ks) /\ Owe(ks, d)
  BY <1>1, <1>4, <1>5, <1>6, <1>7, RecordKeeps, IdleOps DEF Return
<1>8. CASE \E done \in SUBSET ks : /\ done # ks /\ failures' = Counted(done)
              /\ turns' = Released(c, ks) /\ Charge(done) /\ UNCHANGED owed
  <2>1. PICK done \in SUBSET ks : /\ failures' = Counted(done) /\ turns' = Released(c, ks)
                                  /\ Charge(done) /\ UNCHANGED owed
    BY <1>8
  <2> QED BY <1>1, <1>4, <1>5, <1>6, <2>1, RecordKeeps, IdleOps DEF Return
<1> QED BY <1>1, <1>7, <1>8

---------------------------------------------------------------------------
(* Steps that change rows and cookies.                                     *)

LEMMA TakePageTurnKeeps ==
  ASSUME IInv, NEW c \in Calls, calls[c] \in Tries, TakePageTurn(c)
  PROVE  IInv'
<1> DEFINE ks == {PageKey(calls[c].page)}
<1>1. calls[c].pc = "await page" /\ Take(c, ks, "verify page") BY DEF TakePageTurn, At
<1>2. Typed /\ TryOK(c) BY DEF IInv, CallsOK, CallOK, Tries
<1>3. ks \subseteq Keys BY <1>1, <1>2, KeysApart, ZenonT(120) DEF TryOK, AtPage, Tries
<1>4. ks = {PageKey(calls[c].page)} OBVIOUS
<1> HIDE DEF ks
<1> QED BY <1>1, <1>2, <1>3, <1>4, TakeKeeps

LEMMA TakePortalTurnsKeeps ==
  ASSUME IInv, NEW c \in Calls, calls[c] \in Tries, TakePortalTurns(c)
  PROVE  IInv'
<1>1. calls[c].pc = "await portals" /\ Take(c, PortalKeys(c), "verify portals") BY DEF TakePortalTurns, At
<1>2. Typed /\ TryOK(c) BY DEF IInv, CallsOK, CallOK, Tries
<1>3. PortalKeys(c) \subseteq Keys BY <1>2, PortalKeysTyped
<1> QED BY <1>1, <1>2, <1>3, TakeKeeps

\* A step of request c that answers, or a step of no request.
LEMMA RowsKeep ==
  ASSUME IInv, NEW c,
         \/ c = "nobody" /\ UNCHANGED calls
         \/ c \in Calls /\ Return(c) /\ calls[c].pc \notin HandPcs,
         UNCHANGED <<mix, failures, turns, owed, charged>>, proven \subseteq proven',
         pages' \in [Pages -> PageRow], portals' \in [Portals -> PortalRow], salts' \in Nat, jar' \in Jar,
         Earned(jar)', Drawn', PortalsSound',
         \A d \in Calls \ {c} : calls[d].op = "add" =>
           Cardinality(InPortals(portals', calls[d].page)) <= Cardinality(InPortals(portals, calls[d].page))
  PROVE  IInv'
<1>0. Typed BY DEF IInv
<1>1. /\ UNCHANGED <<mix, failures, turns, owed, charged>> /\ proven \subseteq proven'
      /\ \A d \in Calls \ {c} : calls'[d] = calls[d]
      /\ \A d \in Calls : d = c => calls'[d] = Idle
      /\ calls' \in [Calls -> {Idle} \cup Gets \cup Tries \cup Adds]
  <2>1. CASE c = "nobody" /\ UNCHANGED calls BY <1>0, <2>1, AccessAssumption DEF Typed
  <2>2. CASE c \in Calls /\ Return(c) BY <1>0, <2>2 DEF Return, Typed
  <2> QED BY <2>1, <2>2
<1>2. Typed'
  <2>1. mix' \in Mixes /\ failures' \in [Keys -> Nat] /\ charged' \in [Keys -> Nat] /\ owed' \in [Keys -> Nat]
        /\ turns' \in [Keys -> Turn]
    BY <1>0, <1>1 DEF Typed
  <2> QED BY <1>1, <2>1 DEF Typed
<1>3. Stable(c)
  <2>1. \A d \in Calls \ {c} : calls[d].op = "add" => Fanout(calls[d].page)' <= Fanout(calls[d].page)
    BY <1>1 DEF Fanout
  <2> QED BY <1>1, <2>1 DEF Stable
<1>4. \A d \in Calls \ {c} : CallOK(d)' BY <1>3, OthersKeep
<1>5. \A d \in Calls : d = c => CallOK(d)'
  <2>1. SUFFICES ASSUME NEW d \in Calls, d = c PROVE CallOK(d)' OBVIOUS
  <2>2. calls[d].pc \notin HandPcs BY <2>1, AccessAssumption
  <2>3. \A k \in Keys : turns'[k] # Held(d) BY <1>1, <2>2, EmptyHands
  <2>4. calls'[d].op = "idle" /\ calls'[d].pc = "idle" BY <1>1, <2>1, IdleOps
  <2>5. InHand(d)' = {} BY <2>4 DEF InHand
  <2> QED BY <2>3, <2>4, <2>5 DEF CallOK
<1>6. CallsOK' BY <1>4, <1>5 DEF CallsOK
<1>7. LocksApart'
  <2>1. \A d \in Calls : calls'[d].op = "add" => calls'[d] = calls[d] BY <1>1, IdleOps
  <2>2. LocksApart BY DEF IInv
  <2> QED BY <2>1, <2>2 DEF LocksApart
<1>8. Delayed' /\ FailuresCounted' BY <1>1 DEF IInv, Delayed, FailuresCounted
<1> QED BY <1>2, <1>6, <1>7, <1>8 DEF IInv

\* ... that leaves the portals' members alone or takes some away.
LEMMA MembersKeep ==
  ASSUME IInv, \A p \in Pages : InPortals(portals', p) \subseteq InPortals(portals, p), UNCHANGED mix,
         \A q \in Portals : portals'[q].home # 0 => portals'[q].home \in portals'[q].members
  PROVE  /\ PortalsSound'
         /\ \A d \in Calls : calls[d].op = "add" =>
              Cardinality(InPortals(portals', calls[d].page)) <= Cardinality(InPortals(portals, calls[d].page))
<1>1. \A p \in Pages : Cardinality(InPortals(portals', p)) <= Cardinality(InPortals(portals, p)) BY FanoutShrinks
<1>2. \A p \in Pages : Cardinality(InPortals(portals, p)) <= mix.fanout BY DEF IInv, PortalsSound, Fanout
<1>3. \A p : Cardinality(InPortals(portals', p)) \in Nat /\ Cardinality(InPortals(portals, p)) \in Nat BY FanoutType
<1>4. mix.fanout \in Nat BY MixesAssumption DEF IInv, Typed
<1>5. \A p \in Pages : Cardinality(InPortals(portals', p)) <= mix'.fanout BY <1>1, <1>2, <1>3, <1>4
<1>6. PortalsSound' BY <1>5 DEF PortalsSound, Fanout
<1>7. \A d \in Calls : calls[d].op = "add" => calls[d].page \in Pages BY Kinds DEF IInv, Adds
<1> QED BY <1>1, <1>6, <1>7

LEMMA SameMembers ==
  ASSUME IInv, UNCHANGED <<portals, mix>>
  PROVE  /\ PortalsSound' /\ portals' \in [Portals -> PortalRow]
         /\ \A d \in Calls : calls[d].op = "add" =>
              Cardinality(InPortals(portals', calls[d].page)) <= Cardinality(InPortals(portals, calls[d].page))
<1>1. \A q \in Portals : portals[q].home # 0 => portals[q].home \in portals[q].members BY DEF IInv, PortalsSound
<1>2. portals' \in [Portals -> PortalRow] BY DEF IInv, Typed
<1> QED BY <1>1, <1>2, MembersKeep

LEMMA RememberedTyped ==
  ASSUME IInv, NEW hash \in Hash, hash # NoHash
  PROVE  /\ \A p \in Pages : /\ Remembered(pages[p], hash) \in PageRow
                             /\ Remembered(pages[p], hash).hash = pages[p].hash
         /\ \A q \in Portals : /\ Remembered(portals[q], hash) \in PortalRow
                               /\ Remembered(portals[q], hash).hash = portals[q].hash
                               /\ Remembered(portals[q], hash).life = portals[q].life
                               /\ Remembered(portals[q], hash).home = portals[q].home
                               /\ Remembered(portals[q], hash).members = portals[q].members
<1>1. hash.salt \in Copy BY DEF Hash, Copy
<1>2. \A p \in Pages : pages[p] \in PageRow BY DEF IInv, Typed
<1>3. \A q \in Portals : portals[q] \in PortalRow BY DEF IInv, Typed
<1>4. ASSUME NEW p \in Pages
      PROVE  Remembered(pages[p], hash) \in PageRow /\ Remembered(pages[p], hash).hash = pages[p].hash
  BY <1>1, <1>2 DEF Remembered, PageRow
<1>5. ASSUME NEW q \in Portals, NEW row, row = Remembered(portals[q], hash)
      PROVE  /\ row \in PortalRow /\ row.hash = portals[q].hash /\ row.life = portals[q].life
             /\ row.home = portals[q].home /\ row.members = portals[q].members
  BY <1>1, <1>3, <1>5 DEF Remembered, PortalRow
<1> QED BY <1>4, <1>5

LEMMA JarTyped ==
  ASSUME IInv, NEW salt \in Nat
  PROVE  /\ \A p \in Pages : [jar EXCEPT !.pages[p] = salt] \in Jar
         /\ \A q \in Portals : [jar EXCEPT !.portals[q] = salt] \in Jar
<1>1. jar \in Jar /\ salt \in Cookie BY DEF IInv, Typed, Cookie
<1> QED BY <1>1 DEF Jar

LEMMA SaltsDrawn ==
  ASSUME IInv
  PROVE  /\ \A p \in Pages : pages[p].hash.salt \in Nat /\ pages[p].hash.salt <= salts
         /\ \A q \in Portals : portals[q].hash.salt \in Nat /\ portals[q].hash.salt <= salts
         /\ salts \in Nat
BY HashesTyped DEF IInv, Drawn, Typed

LEMMA AdmitPageKeeps ==
  ASSUME IInv, NEW c \in Calls, calls[c] \in Tries, AdmitPage(c)
  PROVE  IInv'
<1> DEFINE k == calls[c]
<1>1. /\ k.pc = "admit page" /\ Return(c)
      /\ pages' \in {pages, [pages EXCEPT ![k.page] = Remembered(@, k.hash)]}
      /\ jar' = [jar EXCEPT !.pages[k.page] = k.hash.salt]
      /\ UNCHANGED <<mix, portals, salts, failures, turns, proven, owed, charged>>
  BY DEF AdmitPage, At, history
<1>2. Typed /\ TryOK(c) BY DEF IInv, CallsOK, CallOK, Tries
<1>3. /\ k.page \in Pages /\ k.hash \in Hash /\ k.hash # NoHash
      /\ <<PageKey(k.page), k.hash.salt>> \in proven
  BY <1>1, <1>2 DEF TryOK, AtPage, Tries
<1>4. k.hash.salt \in Nat BY <1>3 DEF Hash
<1> HIDE DEF k
<1>5. pages' \in [Pages -> PageRow] /\ \A p \in Pages : pages'[p].hash = pages[p].hash
  <2>1. Remembered(pages[k.page], k.hash) \in PageRow
        /\ Remembered(pages[k.page], k.hash).hash = pages[k.page].hash
    BY <1>3, RememberedTyped
  <2> QED BY <1>1, <1>2, <2>1 DEF Typed
<1>6. jar' \in Jar BY <1>1, <1>3, <1>4, JarTyped
<1>7. Earned(jar)'
  <2>1. jar \in Jar /\ Earned(jar) BY <1>2 DEF IInv, Typed
  <2>2. jar'.portals = jar.portals /\ \A p \in Pages : p # k.page => jar'.pages[p] = jar.pages[p]
    BY <1>1, <2>1 DEF Jar
  <2>3. jar'.pages[k.page] = k.hash.salt BY <1>1, <1>3, <2>1 DEF Jar
  <2>4. proven' = proven BY <1>1
  <2>5. ASSUME NEW p \in Pages, jar'.pages[p] # NoCookie PROVE <<PageKey(p), jar'.pages[p]>> \in proven
    <3>1. CASE p = k.page BY <1>3, <2>3, <3>1
    <3>2. CASE p # k.page BY <2>1, <2>2, <2>5, <3>2 DEF Earned
    <3> QED BY <3>1, <3>2
  <2> QED BY <2>1, <2>2, <2>4, <2>5 DEF Earned
<1>8. Drawn' BY <1>1, <1>5, SaltsDrawn DEF Drawn
<1>9. salts' \in Nat BY <1>1, <1>2 DEF Typed
<1>10. k.pc \notin HandPcs BY <1>1 DEF HandPcs
<1> QED BY <1>1, <1>5, <1>6, <1>7, <1>8, <1>9, <1>10, SameMembers, RowsKeep DEF k

LEMMA AdmitPortalKeeps ==
  ASSUME IInv, NEW c \in Calls, calls[c] \in Tries, AdmitPortal(c)
  PROVE  IInv'
<1> DEFINE k == calls[c]
<1>1. /\ k.pc = "admit portal" /\ Return(c)
      /\ portals' \in {portals, [portals EXCEPT ![k.chosen] = Remembered(@, k.hash)]}
      /\ jar' = [jar EXCEPT !.portals[k.chosen] = k.hash.salt]
      /\ UNCHANGED <<mix, pages, salts, failures, turns, proven, owed, charged>>
  BY DEF AdmitPortal, At, history
<1>2. Typed /\ TryOK(c) BY DEF IInv, CallsOK, CallOK, Tries
<1>3. /\ k.chosen \in Portals /\ k.hash \in Hash /\ k.hash # NoHash
      /\ <<PortalKey(k.chosen), k.hash.salt>> \in proven
  BY <1>1, <1>2 DEF TryOK, Tries
<1>4. k.hash.salt \in Nat BY <1>3 DEF Hash
<1> HIDE DEF k
<1>5. /\ portals' \in [Portals -> PortalRow]
      /\ \A q \in Portals : /\ portals'[q].hash = portals[q].hash /\ portals'[q].life = portals[q].life
                            /\ portals'[q].home = portals[q].home /\ portals'[q].members = portals[q].members
  <2> DEFINE row == Remembered(portals[k.chosen], k.hash)
  <2>1. /\ row \in PortalRow /\ row.hash = portals[k.chosen].hash /\ row.life = portals[k.chosen].life
        /\ row.home = portals[k.chosen].home /\ row.members = portals[k.chosen].members
    BY <1>3, RememberedTyped
  <2>2. portals' \in {portals, [portals EXCEPT ![k.chosen] = row]} BY <1>1
  <2> HIDE DEF row
  <2> QED BY <1>2, <2>1, <2>2 DEF Typed
<1>6. jar' \in Jar BY <1>1, <1>3, <1>4, JarTyped
<1>7. Earned(jar)'
  <2>1. jar \in Jar /\ Earned(jar) BY <1>2 DEF IInv, Typed
  <2>2. jar'.pages = jar.pages /\ \A q \in Portals : q # k.chosen => jar'.portals[q] = jar.portals[q]
    BY <1>1, <2>1 DEF Jar
  <2>3. jar'.portals[k.chosen] = k.hash.salt BY <1>1, <1>3, <2>1 DEF Jar
  <2>4. proven' = proven BY <1>1
  <2>5. ASSUME NEW q \in Portals, jar'.portals[q] # NoCookie PROVE <<PortalKey(q), jar'.portals[q]>> \in proven
    <3>1. CASE q = k.chosen BY <1>3, <2>3, <3>1
    <3>2. CASE q # k.chosen BY <2>1, <2>2, <2>5, <3>2 DEF Earned
    <3> QED BY <3>1, <3>2
  <2> QED BY <2>1, <2>2, <2>4, <2>5 DEF Earned
<1>8. Drawn' BY <1>1, <1>5, SaltsDrawn DEF Drawn
<1>9. salts' \in Nat /\ pages' \in [Pages -> PageRow] BY <1>1, <1>2 DEF Typed
<1>10. k.pc \notin HandPcs BY <1>1 DEF HandPcs
<1>11. \A p \in Pages : InPortals(portals', p) \subseteq InPortals(portals, p) BY <1>5 DEF InPortals
<1>12. \A q \in Portals : portals'[q].home # 0 => portals'[q].home \in portals'[q].members
  BY <1>5 DEF IInv, PortalsSound
<1>13. /\ PortalsSound'
       /\ \A d \in Calls : calls[d].op = "add" =>
            Cardinality(InPortals(portals', calls[d].page)) <= Cardinality(InPortals(portals, calls[d].page))
  BY <1>1, <1>11, <1>12, MembersKeep
<1> QED BY <1>1, <1>5, <1>6, <1>7, <1>8, <1>9, <1>10, <1>13, RowsKeep DEF k

\* Two additions that hold their locks are of different pages, so each page
\* has the room its own addition counted.
LEMMA AddPageInsertKeeps ==
  ASSUME IInv, NEW c \in Calls, calls[c] \in Adds, AddPageInsert(c)
  PROVE  IInv'
<1> DEFINE p == calls[c].page
           q == calls[c].portal
<1>1. /\ calls[c].pc = "insert" /\ Return(c)
      /\ portals' \in {portals, [portals EXCEPT ![q].members = @ \cup {p}]}
      /\ UNCHANGED <<mix, pages, salts, jar, failures, turns, proven, owed, charged>>
  BY DEF AddPageInsert, At, history
<1>2. Typed /\ AddOK(c) /\ p \in Pages /\ q \in Portals /\ calls[c].op = "add"
  BY DEF IInv, CallsOK, CallOK, Adds
<1>3. Cardinality(InPortals(portals, p)) < mix.fanout BY <1>2 DEF AddOK, Fanout
<1>4. \A d \in Calls \ {c} : calls[d].op = "add" => calls[d].page # p BY <1>2 DEF IInv, LocksApart
<1> HIDE DEF p, q
<1>5. portals \in [Portals -> PortalRow] BY <1>2 DEF Typed
<1>6. /\ portals' \in [Portals -> PortalRow]
      /\ \A x \in Portals : /\ portals'[x].hash = portals[x].hash /\ portals'[x].life = portals[x].life
                            /\ portals'[x].home = portals[x].home
                            /\ portals[x].members \subseteq portals'[x].members
                            /\ portals'[x].members \subseteq portals[x].members \cup {p}
                            /\ x # q => portals'[x].members = portals[x].members
  <2> DEFINE row == [portals[q] EXCEPT !.members = @ \cup {p}]
  <2>1. portals[q] \in PortalRow BY <1>2, <1>5
  <2>2. /\ row \in PortalRow /\ row.hash = portals[q].hash /\ row.life = portals[q].life
        /\ row.home = portals[q].home /\ row.members = portals[q].members \cup {p}
    BY <1>2, <2>1 DEF PortalRow
  <2>3. portals' \in {portals, [portals EXCEPT ![q] = row]} BY <1>1
  <2> HIDE DEF row
  <2> QED BY <1>5, <2>2, <2>3
<1>7. ASSUME NEW x \in Pages, x # p PROVE InPortals(portals', x) = InPortals(portals, x)
  BY <1>6, <1>7 DEF InPortals
<1>8. InPortals(portals', p) \subseteq InPortals(portals, p) \cup {q} BY <1>6 DEF InPortals
<1>9. Cardinality(InPortals(portals', p)) <= mix.fanout
  <2> DEFINE S == InPortals(portals, p)
             T == InPortals(portals', p)
  <2>1. IsFiniteSet(S) /\ Cardinality(S) \in Nat /\ Cardinality(T) \in Nat /\ mix.fanout \in Nat
    BY <1>2, FanoutType, MixesAssumption DEF Typed
  <2>2. IsFiniteSet(S \cup {q}) /\ Cardinality(S \cup {q}) <= Cardinality(S) + 1
    <3>1. Cardinality(S \cup {q}) = (IF q \in S THEN Cardinality(S) ELSE Cardinality(S) + 1)
          /\ IsFiniteSet(S \cup {q})
      BY <2>1, FS_AddElement
    <3> QED BY <2>1, <3>1
  <2>3. Cardinality(T) <= Cardinality(S \cup {q}) /\ Cardinality(S \cup {q}) \in Nat
    BY <1>8, <2>2, FS_Subset, FS_CardinalityType
  <2>4. Cardinality(S) < mix.fanout BY <1>3
  <2> HIDE DEF S, T
  <2>5. Cardinality(T) <= mix.fanout BY <2>1, <2>2, <2>3, <2>4
  <2> QED BY <2>5 DEF T
<1>10. PortalsSound'
  <2>1. ASSUME NEW x \in Pages PROVE Cardinality(InPortals(portals', x)) <= mix'.fanout
    BY <1>1, <1>7, <1>9 DEF IInv, PortalsSound, Fanout
  <2>2. \A x \in Portals : portals'[x].home # 0 => portals'[x].home \in portals'[x].members
    BY <1>6 DEF IInv, PortalsSound
  <2> QED BY <2>1, <2>2 DEF PortalsSound, Fanout
<1>11. \A d \in Calls \ {c} : calls[d].op = "add" =>
         Cardinality(InPortals(portals', calls[d].page)) <= Cardinality(InPortals(portals, calls[d].page))
  <2>1. SUFFICES ASSUME NEW d \in Calls \ {c}, calls[d].op = "add"
        PROVE Cardinality(InPortals(portals', calls[d].page)) <= Cardinality(InPortals(portals, calls[d].page))
    OBVIOUS
  <2>2. calls[d].page \in Pages /\ calls[d].page # p BY <1>2, <1>4, <2>1, Kinds DEF Adds
  <2>3. InPortals(portals', calls[d].page) = InPortals(portals, calls[d].page) BY <1>7, <2>2
  <2> QED BY <2>3, FanoutType
<1>12. jar' \in Jar /\ Earned(jar)'
  <2>1. jar \in Jar /\ Earned(jar) BY <1>2 DEF IInv, Typed
  <2> QED BY <1>1, <2>1 DEF Earned
<1>13. Drawn' BY <1>1, <1>6, SaltsDrawn DEF Drawn
<1>14. salts' \in Nat /\ pages' \in [Pages -> PageRow] BY <1>1, <1>2 DEF Typed
<1>15. calls[c].pc \notin HandPcs BY <1>1 DEF HandPcs
<1> QED BY <1>1, <1>6, <1>10, <1>11, <1>12, <1>13, <1>14, <1>15, RowsKeep

LEMMA PageRowKeeps ==
  ASSUME IInv, NEW p \in Pages, NEW row \in PageRow, pages' = [pages EXCEPT ![p] = row],
         salts' \in {salts, salts + 1}, row.hash.salt <= salts',
         UNCHANGED <<mix, portals, jar, failures, turns, calls, history>>
  PROVE  IInv'
<1>1. Typed /\ Earned(jar) BY DEF IInv
<1>2. UNCHANGED <<proven, owed, charged>> BY DEF history
<1>3. pages' \in [Pages -> PageRow] /\ \A x \in Pages : pages'[x] = pages[x] \/ pages'[x] = row
  BY <1>1 DEF Typed
<1>4. salts' \in Nat /\ salts <= salts' BY <1>1 DEF Typed
<1>5. Drawn'
  <2>1. \A x \in Pages : pages'[x].hash.salt <= salts' BY <1>3, <1>4, SaltsDrawn
  <2>2. \A x \in Portals : portals'[x].hash.salt <= salts' BY <1>4, SaltsDrawn
  <2> QED BY <2>1, <2>2 DEF Drawn
<1>6. jar' \in Jar /\ Earned(jar)' BY <1>1, <1>2 DEF Typed, Earned
<1> QED BY <1>2, <1>3, <1>4, <1>5, <1>6, SameMembers, RowsKeep

LEMMA PortalRowKeeps ==
  ASSUME IInv, NEW q \in Portals, NEW row \in PortalRow, portals' = [portals EXCEPT ![q] = row],
         salts' \in {salts, salts + 1}, row.hash.salt <= salts',
         row.life = "live" => \/ row.members = {}
                              \/ portals[q].life = "live" /\ row.members \subseteq portals[q].members,
         row.home # 0 => row.home \in row.members,
         UNCHANGED <<mix, pages, jar, failures, turns, calls, history>>
  PROVE  IInv'
<1>1. Typed /\ Earned(jar) BY DEF IInv
<1>2. UNCHANGED <<proven, owed, charged>> BY DEF history
<1>3. portals' \in [Portals -> PortalRow] BY <1>1 DEF Typed
<1>4. \A x \in Portals : (x # q /\ portals'[x] = portals[x]) \/ (x = q /\ portals'[x] = row)
  BY <1>1 DEF Typed
<1>5. salts' \in Nat /\ salts <= salts' BY <1>1 DEF Typed
<1>6. Drawn'
  <2>1. \A x \in Pages : pages'[x].hash.salt <= salts' BY <1>5, SaltsDrawn
  <2>2. \A x \in Portals : portals'[x].hash.salt <= salts' BY <1>4, <1>5, SaltsDrawn
  <2> QED BY <2>1, <2>2 DEF Drawn
<1>7. \A p \in Pages : InPortals(portals', p) \subseteq InPortals(portals, p)
  <2>1. SUFFICES ASSUME NEW p \in Pages, NEW x \in Portals, portals'[x].life = "live", p \in portals'[x].members
                 PROVE  portals[x].life = "live" /\ p \in portals[x].members
    BY DEF InPortals
  <2> QED BY <1>4, <2>1
<1>8. \A x \in Portals : portals'[x].home # 0 => portals'[x].home \in portals'[x].members
  <2>1. \A x \in Portals : portals[x].home # 0 => portals[x].home \in portals[x].members
    BY DEF IInv, PortalsSound
  <2> QED BY <1>4, <2>1
<1>9. jar' \in Jar /\ Earned(jar)' /\ pages' \in [Pages -> PageRow] BY <1>1, <1>2 DEF Typed, Earned
<1>10. /\ PortalsSound'
       /\ \A d \in Calls : calls[d].op = "add" =>
            Cardinality(InPortals(portals', calls[d].page)) <= Cardinality(InPortals(portals, calls[d].page))
  BY <1>7, <1>8, MembersKeep
<1> QED BY <1>2, <1>3, <1>5, <1>6, <1>9, <1>10, RowsKeep

LEMMA FreshTyped ==
  ASSUME IInv, NEW secret \in Secrets
  PROVE  /\ Fresh(secret) \in Hash /\ Fresh(secret).salt = salts + 1
         /\ salts + 1 \in Nat /\ salts + 1 \in Copy /\ NoCopy \in Copy
         /\ NoHash \in Hash /\ NoHash.salt = 0
<1>1. salts \in Nat BY DEF IInv, Typed
<1>2. salts + 1 \in Nat \ {0} BY <1>1
<1>3. NoHash.salt = 0 BY DEF NoHash
<1> QED BY <1>2, <1>3 DEF Fresh, Hash, Copy

LEMMA PageStepKeeps ==
  ASSUME IInv, PageStep
  PROVE  IInv'
<1>1. PICK p \in Pages :
        \/ \E s \in Secrets : SetPassword(p, s)
        \/ ClearPassword(p)
        \/ \E s \in {"open", "disabled", "deleted"} : SetState(p, s)
        \/ \E v \in 0..2 : SetPublished(p, v)
  BY DEF PageStep
<1>2. pages[p] \in PageRow /\ pages[p].hash.salt <= salts /\ salts \in Nat BY SaltsDrawn DEF IInv, Typed
<1>3. ASSUME NEW s \in Secrets, SetPassword(p, s) PROVE IInv'
  <2>1. PICK copy \in {salts + 1, NoCopy} :
          pages' = [pages EXCEPT ![p].hash = Fresh(s), ![p].copy = copy]
    BY <1>3 DEF SetPassword
  <2>2. salts' = salts + 1 /\ UNCHANGED <<mix, portals, jar, failures, turns, calls, history>>
    BY <1>3 DEF SetPassword, Staff
  <2> DEFINE row == [pages[p] EXCEPT !.hash = Fresh(s), !.copy = copy]
  <2>3. row \in PageRow /\ row.hash = Fresh(s) BY <1>2, FreshTyped DEF PageRow
  <2>4. pages' = [pages EXCEPT ![p] = row] BY <2>1
  <2> HIDE DEF row
  <2>5. row.hash.salt <= salts' BY <1>2, <2>2, <2>3, FreshTyped
  <2> QED BY <2>2, <2>3, <2>4, <2>5, PageRowKeeps
<1>4. CASE ClearPassword(p)
  <2> DEFINE row == [pages[p] EXCEPT !.hash = NoHash, !.copy = NoCopy]
  <2>1. NoCopy \in Copy /\ NoHash \in Hash /\ NoHash.salt = 0 BY DEF Copy, Hash, NoHash
  <2>2. row \in PageRow /\ row.hash = NoHash BY <1>2, <2>1 DEF PageRow
  <2>3. /\ pages' = [pages EXCEPT ![p] = row] /\ salts' = salts
        /\ UNCHANGED <<mix, portals, jar, failures, turns, calls, history>>
    BY <1>4 DEF ClearPassword, Staff
  <2> HIDE DEF row
  <2>4. row.hash.salt <= salts' BY <1>2, <2>1, <2>2, <2>3
  <2> QED BY <2>2, <2>3, <2>4, PageRowKeeps
<1>5. ASSUME NEW s \in {"open", "disabled", "deleted"}, SetState(p, s) PROVE IInv'
  <2> DEFINE row == [pages[p] EXCEPT !.state = s]
  <2>1. row \in PageRow /\ row.hash = pages[p].hash BY <1>2 DEF PageRow
  <2>2. /\ pages' = [pages EXCEPT ![p] = row] /\ salts' = salts
        /\ UNCHANGED <<mix, portals, jar, failures, turns, calls, history>>
    BY <1>5 DEF SetState, Staff
  <2> HIDE DEF row
  <2> QED BY <1>2, <2>1, <2>2, PageRowKeeps
<1>6. ASSUME NEW v \in 0..2, SetPublished(p, v) PROVE IInv'
  <2> DEFINE row == [pages[p] EXCEPT !.published = v]
  <2>1. row \in PageRow /\ row.hash = pages[p].hash BY <1>2 DEF PageRow
  <2>2. /\ pages' = [pages EXCEPT ![p] = row] /\ salts' = salts
        /\ UNCHANGED <<mix, portals, jar, failures, turns, calls, history>>
    BY <1>6 DEF SetPublished, Staff
  <2> HIDE DEF row
  <2> QED BY <1>2, <2>1, <2>2, PageRowKeeps
<1> QED BY <1>1, <1>3, <1>4, <1>5, <1>6

LEMMA PortalStepKeeps ==
  ASSUME IInv, PortalStep
  PROVE  IInv'
<1>1. PICK q \in Portals :
        \/ \E s \in Secrets : CreatePortal(q, s) \/ SetPortalPassword(q, s)
        \/ \E p \in Pages : RemovePage(q, p)
        \/ \E p \in Pages \cup {0} : SetHome(q, p)
        \/ RetirePortal(q)
  BY DEF PortalStep
<1>2. portals[q] \in PortalRow /\ portals[q].hash.salt <= salts /\ salts \in Nat BY SaltsDrawn DEF IInv, Typed
<1>h. portals[q].home # 0 => portals[q].home \in portals[q].members BY DEF IInv, PortalsSound
<1>3. ASSUME NEW s \in Secrets, CreatePortal(q, s) PROVE IInv'
  <2>1. PICK copy \in {salts + 1, NoCopy} :
          portals' = [portals EXCEPT ![q] =
            [life |-> "live", hash |-> Fresh(s), copy |-> copy, home |-> 0, members |-> {}]]
    BY <1>3 DEF CreatePortal
  <2>2. salts' = salts + 1 /\ UNCHANGED <<mix, pages, jar, failures, turns, calls, history>>
    BY <1>3 DEF CreatePortal, Staff
  <2> DEFINE row == [life |-> "live", hash |-> Fresh(s), copy |-> copy, home |-> 0, members |-> {}]
  <2>3. row \in PortalRow /\ row.hash = Fresh(s) /\ row.members = {} /\ row.home = 0
    BY <1>2, FreshTyped DEF PortalRow
  <2>4. portals' = [portals EXCEPT ![q] = row] BY <2>1
  <2> HIDE DEF row
  <2>5. row.hash.salt <= salts' BY <1>2, <2>2, <2>3, FreshTyped
  <2> QED BY <2>2, <2>3, <2>4, <2>5, PortalRowKeeps
<1>4. ASSUME NEW s \in Secrets, SetPortalPassword(q, s) PROVE IInv'
  <2>1. PICK copy \in {salts + 1, NoCopy} :
          portals' = [portals EXCEPT ![q].hash = Fresh(s), ![q].copy = copy]
    BY <1>4 DEF SetPortalPassword
  <2>2. /\ salts' = salts + 1 /\ UNCHANGED <<mix, pages, jar, failures, turns, calls, history>>
        /\ portals[q].life = "live"
    BY <1>4 DEF SetPortalPassword, Staff, Locked
  <2> DEFINE row == [portals[q] EXCEPT !.hash = Fresh(s), !.copy = copy]
  <2>3. row \in PortalRow /\ row.hash = Fresh(s) /\ row.members = portals[q].members /\ row.home = portals[q].home
    BY <1>2, FreshTyped DEF PortalRow
  <2>4. portals' = [portals EXCEPT ![q] = row] BY <2>1
  <2> HIDE DEF row
  <2>5. row.hash.salt <= salts' BY <1>2, <2>2, <2>3, FreshTyped
  <2> QED BY <1>h, <2>2, <2>3, <2>4, <2>5, PortalRowKeeps
<1>5. ASSUME NEW p \in Pages, RemovePage(q, p) PROVE IInv'
  <2> DEFINE home == IF portals[q].home = p THEN 0 ELSE portals[q].home
             row == [portals[q] EXCEPT !.members = @ \ {p}, !.home = home]
  <2>1. /\ portals' = [portals EXCEPT ![q] = row] /\ salts' = salts /\ portals[q].life = "live"
        /\ UNCHANGED <<mix, pages, jar, failures, turns, calls, history>>
    BY <1>5 DEF RemovePage, Staff, Locked
  <2>2. home \in Pages \cup {0} /\ (home # 0 => home \in portals[q].members \ {p}) BY <1>2, <1>h DEF PortalRow
  <2> HIDE DEF home
  <2>3. row \in PortalRow /\ row.hash = portals[q].hash /\ row.members = portals[q].members \ {p} /\ row.home = home
    BY <1>2, <2>2 DEF PortalRow
  <2> HIDE DEF row
  <2> QED BY <1>2, <2>1, <2>2, <2>3, PortalRowKeeps
<1>6. ASSUME NEW p \in Pages \cup {0}, SetHome(q, p) PROVE IInv'
  <2> DEFINE row == [portals[q] EXCEPT !.home = p]
  <2>1. /\ portals' = [portals EXCEPT ![q] = row] /\ salts' = salts /\ portals[q].life = "live"
        /\ UNCHANGED <<mix, pages, jar, failures, turns, calls, history>>
        /\ p # 0 => p \in portals[q].members
    BY <1>6 DEF SetHome, Staff, Locked
  <2>2. row \in PortalRow /\ row.hash = portals[q].hash /\ row.members = portals[q].members /\ row.home = p
    BY <1>2 DEF PortalRow
  <2> HIDE DEF row
  <2> QED BY <1>2, <2>1, <2>2, PortalRowKeeps
<1>7. CASE RetirePortal(q)
  <2> DEFINE row == [portals[q] EXCEPT !.life = "retired"]
  <2>1. /\ portals' = [portals EXCEPT ![q] = row] /\ salts' = salts
        /\ UNCHANGED <<mix, pages, jar, failures, turns, calls, history>>
    BY <1>7 DEF RetirePortal, Staff
  <2>2. /\ row \in PortalRow /\ row.hash = portals[q].hash /\ row.members = portals[q].members
        /\ row.home = portals[q].home /\ row.life = "retired"
    BY <1>2 DEF PortalRow
  <2> HIDE DEF row
  <2> QED BY <1>2, <1>h, <2>1, <2>2, PortalRowKeeps
<1> QED BY <1>1, <1>3, <1>4, <1>5, <1>6, <1>7

LEMMA TokenStepKeeps ==
  ASSUME IInv, TokenStep
  PROVE  IInv'
<1>1. Typed /\ Earned(jar) /\ jar \in Jar /\ Drawn BY DEF IInv, Typed
<1>2. CASE \E purpose \in {"session", "view"}, p \in Pages, v \in 1..2 : MintToken(purpose, p, v)
  <2>1. UNCHANGED <<mix, pages, portals, salts, jar, failures, turns, calls, proven, owed, charged>>
    BY <1>2 DEF MintToken, staff, history
  <2>2. jar' \in Jar /\ Earned(jar)' /\ Drawn' BY <1>1, <2>1 DEF Earned, Drawn
  <2>3. pages' \in [Pages -> PageRow] /\ salts' \in Nat BY <1>1, <2>1 DEF Typed
  <2> QED BY <2>1, <2>2, <2>3, SameMembers, RowsKeep
<1>3. CASE \E p \in Pages, t \in tokens : ExchangeToken(p, t)
  <2>1. PICK p \in Pages, t \in tokens : ExchangeToken(p, t) BY <1>3
  <2> DEFINE salt == pages[p].hash.salt
  <2>2. /\ jar' = [jar EXCEPT !.pages[p] = salt] /\ proven' = proven \cup {<<PageKey(p), salt>>}
        /\ UNCHANGED <<mix, pages, portals, salts, failures, turns, calls, owed, charged>>
    BY <2>1 DEF ExchangeToken, staff
  <2>3. salt \in Nat BY HashesTyped
  <2> HIDE DEF salt
  <2>4. jar' \in Jar BY <2>2, <2>3, JarTyped
  <2>5. jar'.portals = jar.portals /\ \A x \in Pages : x # p => jar'.pages[x] = jar.pages[x]
    BY <1>1, <2>2 DEF Jar
  <2>6. jar'.pages[p] = salt BY <1>1, <2>2 DEF Jar
  <2>7. proven \subseteq proven' /\ <<PageKey(p), salt>> \in proven' BY <2>2
  <2>8. ASSUME NEW x \in Pages, jar'.pages[x] # NoCookie PROVE <<PageKey(x), jar'.pages[x]>> \in proven'
    <3>1. CASE x = p BY <2>6, <2>7, <3>1
    <3>2. CASE x # p BY <1>1, <2>5, <2>7, <2>8, <3>2 DEF Earned
    <3> QED BY <3>1, <3>2
  <2>9. \A x \in Portals : jar'.portals[x] # NoCookie => <<PortalKey(x), jar'.portals[x]>> \in proven'
    BY <1>1, <2>5, <2>7 DEF Earned
  <2>10. Earned(jar)' BY <2>8, <2>9 DEF Earned
  <2>11. Drawn' BY <1>1, <2>2 DEF Drawn
  <2>12. pages' \in [Pages -> PageRow] /\ salts' \in Nat BY <1>1, <2>2 DEF Typed
  <2> QED BY <2>2, <2>4, <2>7, <2>10, <2>11, <2>12, SameMembers, RowsKeep
<1> QED BY <1>2, <1>3 DEF TokenStep

LEMMA LockPortalKeeps ==
  ASSUME IInv, NEW q \in Portals, LockPortal(q)
  PROVE  IInv'
<1>1. Typed /\ Earned(jar) /\ jar \in Jar /\ Drawn BY DEF IInv, Typed
<1>2. UNCHANGED <<mix, pages, portals, salts, failures, turns, calls, proven, owed, charged>>
  BY DEF LockPortal, staff, history
<1>3. PICK gone \in {GetPortalPages(q), {}} :
        jar' = [pages |-> [p \in Pages |-> IF p \in gone THEN NoCookie ELSE jar.pages[p]],
                portals |-> [jar.portals EXCEPT ![q] = NoCookie]]
  BY DEF LockPortal
<1>4. NoCookie \in Cookie BY DEF Cookie
<1>5. jar' \in Jar BY <1>1, <1>3, <1>4 DEF Jar
<1>6. /\ \A p \in Pages : jar'.pages[p] = jar.pages[p] \/ jar'.pages[p] = NoCookie
      /\ \A x \in Portals : jar'.portals[x] = jar.portals[x] \/ jar'.portals[x] = NoCookie
  BY <1>1, <1>3 DEF Jar
<1>7. Earned(jar)' BY <1>1, <1>2, <1>6 DEF Earned
<1>8. Drawn' BY <1>1, <1>2 DEF Drawn
<1>9. pages' \in [Pages -> PageRow] /\ salts' \in Nat BY <1>1, <1>2 DEF Typed
<1> QED BY <1>2, <1>5, <1>7, <1>8, <1>9, SameMembers, RowsKeep

\* Steps of no request that only move turns, delays and counts.
LEMMA ClockKeeps ==
  ASSUME IInv, UNCHANGED <<staff, tokens, jar, calls, proven>>,
         failures' \in [Keys -> Nat], charged' \in [Keys -> Nat], owed' \in [Keys -> Nat],
         turns' \in [Keys -> Turn],
         \A d \in Calls, k \in Keys : turns'[k] = Held(d) <=> turns[k] = Held(d),
         \A k \in Keys : charged[k] = 0 => charged'[k] = 0,
         Delayed', FailuresCounted'
  PROVE  IInv'
<1>1. UNCHANGED <<mix, pages, portals, salts, tokens, jar, calls, proven>> BY DEF staff
<1>2. Typed' BY <1>1 DEF IInv, Typed
<1>3. Stable("nobody")
  <2>1. \A p : Fanout(p)' = Fanout(p) /\ Fanout(p) \in Nat BY <1>1, FanoutType DEF Fanout
  <2> QED BY <1>1, <2>1 DEF Stable
<1>4. CallsOK' BY <1>3, OthersKeep, AccessAssumption DEF CallsOK
<1>5. Earned(jar)' /\ Drawn' /\ PortalsSound' /\ LocksApart'
  BY <1>1 DEF IInv, Earned, Drawn, PortalsSound, Fanout, LocksApart
<1> QED BY <1>2, <1>4, <1>5 DEF IInv

LEMMA TickKeeps ==
  ASSUME IInv, Tick
  PROVE  IInv'
<1>1. /\ turns' = [k \in Keys |-> IF turns[k].by # "timer" THEN turns[k]
                                  ELSE IF turns[k].left <= 1 THEN Free ELSE Timer(turns[k].left - 1)]
      /\ owed' = [k \in Keys |-> IF owed[k] = 0 THEN 0 ELSE owed[k] - 1]
      /\ UNCHANGED <<staff, tokens, jar, failures, calls, proven, charged>>
  BY DEF Tick
<1>2. Typed /\ Delayed /\ FailuresCounted BY DEF IInv
<1>3. \A k \in Keys : turns[k] \in Turn /\ turns[k].left \in Nat /\ owed[k] \in Nat BY <1>2 DEF Typed, Turn
<1>4. ASSUME NEW k \in Keys
      PROVE  /\ turns'[k] \in Turn /\ owed'[k] \in Nat
             /\ owed'[k] <= IF turns'[k].by = "timer" THEN turns'[k].left ELSE 0
             /\ \A d \in Calls : turns'[k] = Held(d) <=> turns[k] = Held(d)
  <2>1. owed[k] <= (IF turns[k].by = "timer" THEN turns[k].left ELSE 0) BY <1>2 DEF Delayed
  <2>2. owed'[k] \in Nat /\ (owed[k] = 0 => owed'[k] = 0) /\ (owed[k] # 0 => owed'[k] = owed[k] - 1)
    BY <1>1, <1>3
  <2>3. CASE turns[k].by # "timer"
    <3>1. turns'[k] = turns[k] BY <1>1, <2>3
    <3>2. owed[k] = 0 BY <1>3, <2>1, <2>3
    <3> QED BY <1>3, <2>2, <2>3, <3>1, <3>2
  <2>4. CASE turns[k].by = "timer" /\ turns[k].left <= 1
    <3>1. turns'[k] = Free BY <1>1, <2>4
    <3>2. owed'[k] = 0 BY <1>3, <2>1, <2>2, <2>4
    <3>3. turns'[k] \in Turn /\ turns'[k].by # "timer" BY <3>1, TurnsApart
    <3>4. \A d \in Calls : turns'[k] # Held(d) /\ turns[k] # Held(d) BY <2>4, <3>1, TurnsApart
    <3> QED BY <3>2, <3>3, <3>4
  <2>5. CASE turns[k].by = "timer" /\ ~(turns[k].left <= 1)
    <3> DEFINE n == turns[k].left - 1
    <3>1. turns'[k] = Timer(n) BY <1>1, <2>5
    <3>2. n \in Nat /\ owed'[k] <= n BY <1>3, <2>1, <2>2, <2>5
    <3> HIDE DEF n
    <3>3. turns'[k] \in Turn /\ turns'[k].by = "timer" /\ turns'[k].left = n BY <3>1, <3>2, TurnsApart
    <3>4. \A d \in Calls : turns'[k] # Held(d) /\ turns[k] # Held(d) BY <2>5, <3>1, <3>2, TurnsApart
    <3> QED BY <2>2, <3>2, <3>3, <3>4
  <2> QED BY <2>3, <2>4, <2>5
<1>5. turns' \in [Keys -> Turn] BY <1>1, <1>4
<1>6. owed' \in [Keys -> Nat] BY <1>1, <1>4
<1>7. failures' \in [Keys -> Nat] /\ charged' \in [Keys -> Nat] /\ FailuresCounted'
  BY <1>1, <1>2 DEF Typed, FailuresCounted
<1>8. Delayed' BY <1>4 DEF Delayed
<1> QED BY <1>1, <1>4, <1>5, <1>6, <1>7, <1>8, ClockKeeps

LEMMA WindowPassesKeeps ==
  ASSUME IInv, NEW k \in Keys, WindowPasses(k)
  PROVE  IInv'
<1>1. /\ failures' = [failures EXCEPT ![k] = 0] /\ charged' = [charged EXCEPT ![k] = 0]
      /\ UNCHANGED <<staff, tokens, jar, turns, calls, proven, owed>>
  BY DEF WindowPasses
<1>2. Typed /\ Delayed /\ FailuresCounted BY DEF IInv
<1>3. failures' \in [Keys -> Nat] /\ charged' \in [Keys -> Nat] BY <1>1, <1>2 DEF Typed
<1>4. \A x \in Keys : \/ charged'[x] = 0 /\ failures'[x] = 0
                      \/ charged'[x] = charged[x] /\ failures'[x] = failures[x]
  BY <1>1, <1>2 DEF Typed
<1>5. FailuresCounted'
  <2>1. \A x \in Keys : failures[x] \in Nat BY <1>2 DEF Typed
  <2>2. \A x \in Keys : charged[x] <= failures[x] BY <1>2 DEF FailuresCounted
  <2> QED BY <1>4, <2>1, <2>2, CountedStays
<1>6. turns' \in [Keys -> Turn] /\ owed' \in [Keys -> Nat] /\ Delayed' BY <1>1, <1>2 DEF Typed, Delayed
<1>7. \A x \in Keys : charged[x] = 0 => charged'[x] = 0 BY <1>4
<1>8. \A d \in Calls, x \in Keys : turns'[x] = Held(d) <=> turns[x] = Held(d) BY <1>1
<1> QED BY <1>1, <1>3, <1>5, <1>6, <1>7, <1>8, ClockKeeps

---------------------------------------------------------------------------
(* The invariant.                                                          *)

LEMMA Started ==
  ASSUME Init
  PROVE  IInv
<1>1. /\ mix \in Mixes /\ pages = mix.pages /\ portals = mix.portals /\ salts = 3
      /\ jar = [pages |-> [p \in Pages |-> NoCookie], portals |-> [q \in Portals |-> NoCookie]]
      /\ failures = [k \in Keys |-> 0] /\ turns = [k \in Keys |-> Free]
      /\ calls = [c \in Calls |-> Idle]
      /\ proven = {} /\ owed = [k \in Keys |-> 0] /\ charged = [k \in Keys |-> 0]
  BY DEF Init
<1>2. /\ mix.pages \in [Pages -> PageRows(3)] /\ mix.portals \in [Portals -> PortalRows(3)]
      /\ \A p \in Pages : Cardinality(InPortals(mix.portals, p)) <= mix.fanout
      /\ \A q \in Portals : mix.portals[q].home # 0 => mix.portals[q].home \in mix.portals[q].members
  BY <1>1, MixesAssumption
<1>3. \A h \in Digests(3) : h \in Hash /\ h.salt \in Nat /\ h.salt <= 3 BY DEF Digests, Hash, NoHash
<1>4. Copies(3) \subseteq Copy BY DEF Copies, Copy
<1>5. \A row \in PageRows(3) : row \in PageRow /\ row.hash \in Digests(3)
  <2>1. \A n \in 0..2 : n \in Nat OBVIOUS
  <2> QED BY <1>3, <1>4, <2>1 DEF PageRows, PageRow
<1>6. \A row \in PortalRows(3) : row \in PortalRow /\ row.hash \in Digests(3)
  BY <1>3, <1>4 DEF PortalRows, PortalRow
<1>7. pages \in [Pages -> PageRow] /\ portals \in [Portals -> PortalRow] BY <1>1, <1>2, <1>5, <1>6
<1>8. jar \in Jar BY <1>1 DEF Jar, Cookie
<1>9. turns \in [Keys -> Turn] BY <1>1, TurnsApart
<1>10. Typed BY <1>1, <1>7, <1>8, <1>9 DEF Typed
<1>11. Earned(jar) BY <1>1 DEF Earned
<1>12. Drawn BY <1>1, <1>2, <1>3, <1>5, <1>6 DEF Drawn
<1>13. Delayed
  <2>1. 0 <= 0 OBVIOUS
  <2> QED BY <1>1, <2>1, TurnsApart DEF Delayed
<1>14. ASSUME NEW c \in Calls PROVE CallOK(c)
  <2>1. calls[c].op = "idle" /\ calls[c].pc = "idle" BY <1>1, IdleOps
  <2>2. InHand(c) = {} BY <2>1 DEF InHand
  <2>3. \A k \in Keys : turns[k] # Held(c) BY <1>1, TurnsApart
  <2> QED BY <2>1, <2>2, <2>3 DEF CallOK
<1>15. LocksApart BY <1>1, IdleOps DEF LocksApart
<1>16. FailuresCounted
  <2>1. 0 <= 0 OBVIOUS
  <2> QED BY <1>1, <2>1 DEF FailuresCounted
<1>17. PortalsSound BY <1>1, <1>2 DEF PortalsSound, Fanout
<1> QED BY <1>10, <1>11, <1>12, <1>13, <1>14, <1>15, <1>16, <1>17 DEF IInv, CallsOK

LEMMA AttemptOfTries ==
  ASSUME IInv, NEW c \in Calls, AttemptStep(c)
  PROVE  calls[c] \in Tries
<1>1. CASE UnlockDoors(c) BY <1>1, Kinds DEF UnlockDoors, IInv
<1>2. CASE ~UnlockDoors(c)
  <2>1. calls[c].pc \in AtPage \cup AtPortals
    BY <1>2
    DEF AttemptStep, TakePageTurn, TakePortalTurns, Busy, VerifyPage, ClearPage, RecordPage, AdmitPage,
        VerifyPortals, ClearPortal, RecordPortals, AdmitPortal, At, AtPage, AtPortals
  <2>2. calls[c] \in {Idle} \cup Gets \cup Tries \cup Adds BY DEF IInv, Typed
  <2>3. Idle.pc \notin AtPage \cup AtPortals BY IdleOps DEF AtPage, AtPortals
  <2>4. \A k \in Gets : k.pc \notin AtPage \cup AtPortals BY DEF Gets, AtPage, AtPortals
  <2>5. \A k \in Adds : k.pc \notin AtPage \cup AtPortals BY DEF Adds, AtPage, AtPortals
  <2> QED BY <2>1, <2>2, <2>3, <2>4, <2>5
<1> QED BY <1>1, <1>2

LEMMA RequestKeeps ==
  ASSUME IInv, NEW c \in Calls, Arrive(c) \/ CallStep(c)
  PROVE  IInv'
<1>1. CASE Arrive(c)
  BY <1>1, ServeKeeps, UnlockKeeps, UnlockPortalKeeps, AddPageLockKeeps DEF Arrive
<1>2. CASE GetStep(c) BY <1>2, ServePortalsKeeps, RenderKeeps DEF GetStep
<1>3. CASE AttemptStep(c)
  <2>1. calls[c] \in Tries BY <1>3, AttemptOfTries
  <2> QED BY <1>3, <2>1, UnlockDoorsKeeps, BusyKeeps, TakePageTurnKeeps, TakePortalTurnsKeeps, VerifyPageKeeps,
             ClearPageKeeps, RecordPageKeeps, AdmitPageKeeps, VerifyPortalsKeeps, ClearPortalKeeps,
             RecordPortalsKeeps, AdmitPortalKeeps DEF AttemptStep
<1>4. CASE AddPageInsert(c)
  <2>1. calls[c].pc = "insert" BY <1>4 DEF AddPageInsert, At
  <2>2. calls[c] \in Adds
    <3>1. calls[c] \in {Idle} \cup Gets \cup Tries \cup Adds BY DEF IInv, Typed
    <3>2. Idle.pc # "insert" BY IdleOps
    <3>3. \A k \in Gets \cup Tries : k.pc # "insert" BY DEF Gets, Tries, AtPage, AtPortals
    <3> QED BY <2>1, <3>1, <3>2, <3>3
  <2> QED BY <1>4, <2>2, AddPageInsertKeeps
<1> QED BY <1>1, <1>2, <1>3, <1>4 DEF CallStep

LEMMA StepKeeps == IInv /\ [Next]_vars => IInv'
<1>1. SUFFICES ASSUME IInv, [Next]_vars PROVE IInv' OBVIOUS
<1>2. CASE Next
  BY <1>1, <1>2, RequestKeeps, TokenStepKeeps, PageStepKeeps, PortalStepKeeps, TickKeeps, LockPortalKeeps,
     WindowPassesKeeps DEF Next
<1>3. CASE UNCHANGED vars
  <2>1. UNCHANGED <<mix, pages, portals, salts, jar, failures, turns, calls, proven, owed, charged>>
    BY <1>3 DEF vars, staff, history
  <2>2. Typed' BY <1>1, <2>1 DEF IInv, Typed
  <2>3. Earned(jar)' /\ Drawn' /\ Delayed' /\ LocksApart' /\ FailuresCounted' /\ PortalsSound'
    BY <1>1, <2>1 DEF IInv, Earned, Drawn, Delayed, LocksApart, FailuresCounted, PortalsSound, Fanout
  <2>4. Stable("nobody")
    <3>1. \A p : Fanout(p)' = Fanout(p) /\ Fanout(p) \in Nat BY <2>1, FanoutType DEF Fanout
    <3> QED BY <2>1, <3>1 DEF Stable
  <2>5. CallsOK' BY <1>1, <2>4, OthersKeep, AccessAssumption DEF CallsOK
  <2> QED BY <2>2, <2>3, <2>5 DEF IInv
<1> QED BY <1>1, <1>2, <1>3

\* Whoever signs in, guesses or edits, in any order: what a cookie is worth,
\* who holds which turn, and what each failure still costs.
THEOREM Invariant == Spec => []IInv
BY Started, StepKeeps, PTL DEF Spec

\* Every wrong password stays charged to the credential it was tried against,
\* and nobody waits for portals with a page's turn in hand.
THEOREM Charged == Spec => []ChargesKept
<1>1. IInv => ChargesKept
  <2>1. SUFFICES ASSUME IInv PROVE ChargesKept OBVIOUS
  <2>2. NoHoldAndWait
    <3>1. \A c \in Calls : At(c, "await portals") => calls[c].pc \notin HandPcs BY DEF At, HandPcs
    <3> QED BY <2>1, <3>1, EmptyHands DEF NoHoldAndWait
  <2> QED BY <2>1, <2>2 DEF ChargesKept, IInv
<1> QED BY <1>1, Invariant, PTL

\* No page is ever in more portals than its submissions may be tried against,
\* and homes are members.
THEOREM PortalsStaySound == Spec => []PortalsSound
<1>1. IInv => PortalsSound BY DEF IInv
<1> QED BY <1>1, Invariant, PTL

---------------------------------------------------------------------------
(* No password is tried before its delay is over.                          *)

LEMMA Paced ==
  ASSUME IInv, NEW c \in Calls, NEW k \in Keys, Verifies(c, k)
  PROVE  owed[k] = 0
<1>1. k \in InHand(c) BY DEF Verifies, At, InHand
<1>2. turns[k] = Held(c) BY <1>1 DEF IInv, CallsOK, CallOK
<1> QED BY <1>2, InHandOwesNothing

\* However many connections guess, each delay is served before the next try.
THEOREM GuessesPaced == Spec => PacedGuesses
<1>1. IInv => \A c \in Calls, k \in Keys : Verifies(c, k) /\ calls'[c] # calls[c] => owed[k] = 0
  BY Paced
<1> QED BY <1>1, Invariant, PTL DEF PacedGuesses

---------------------------------------------------------------------------
(* Who a page is rendered to.                                              *)

\* Only the page's own request starts to render.
NoRender(c) ==
  /\ \A d \in Calls : d # c => calls'[d] = calls[d]
  /\ calls'[c].pc = "render" => calls[c].pc = "render"

LEMMA TriesMoved ==
  ASSUME Typed, NEW c \in Calls, calls[c] \in Tries, NEW pc \in (AtPage \cup AtPortals), GoTo(c, pc)
  PROVE  NoRender(c)
<1>p. pc \in {"portals"} \cup AtPage \cup AtPortals OBVIOUS
<1> DEFINE r == [calls[c] EXCEPT !.pc = pc]
<1>1. calls'[c] = r /\ r.pc = pc BY <1>p, Moved
<1> HIDE DEF r
<1>2. pc # "render" BY DEF AtPage, AtPortals
<1>3. \A d \in Calls : d # c => calls'[d] = calls[d] BY DEF GoTo, Typed
<1> QED BY <1>1, <1>2, <1>3 DEF NoRender

LEMMA ReturnNoRender ==
  ASSUME Typed, NEW c \in Calls, Return(c)
  PROVE  NoRender(c)
<1>1. calls'[c].pc = "idle" BY IdleOps DEF Return, Typed
<1>2. \A d \in Calls : d # c => calls'[d] = calls[d] BY DEF Return, Typed
<1> QED BY <1>1, <1>2 DEF NoRender

LEMMA AttemptNoRender ==
  ASSUME IInv, NEW c \in Calls, calls[c] \in Tries, AttemptStep(c)
  PROVE  NoRender(c)
<1>1. Typed BY DEF IInv
<1>2. CASE UnlockDoors(c)
  <2>1. PICK ports \in {GetPortalsForPage(calls[c].page), NoPortals} :
          \/ calls' = [calls EXCEPT ![c].ports = ports, ![c].pc = "await page"]
          \/ calls' = [calls EXCEPT ![c].ports = ports, ![c].pc = "await portals"]
          \/ Return(c)
    BY <1>2 DEF UnlockDoors
  <2>2. ASSUME NEW pc \in {"await page", "await portals"},
               calls' = [calls EXCEPT ![c].ports = ports, ![c].pc = pc]
        PROVE  NoRender(c)
    <3> DEFINE r == [calls[c] EXCEPT !.ports = ports, !.pc = pc]
    <3>1. r.pc = pc BY DEF Tries
    <3>2. calls' = [calls EXCEPT ![c] = r] BY <2>2
    <3> HIDE DEF r
    <3>3. calls'[c] = r /\ \A d \in Calls : d # c => calls'[d] = calls[d] BY <1>1, <3>2 DEF Typed
    <3> QED BY <3>1, <3>3 DEF NoRender
  <2> QED BY <1>1, <2>1, <2>2, ReturnNoRender
<1>3. CASE TakePageTurn(c) BY <1>1, <1>3, TriesMoved DEF TakePageTurn, Take, AtPage
<1>4. CASE TakePortalTurns(c) BY <1>1, <1>4, TriesMoved DEF TakePortalTurns, Take, AtPortals
<1>5. CASE Busy(c) BY <1>1, <1>5, ReturnNoRender DEF Busy
<1>6. CASE VerifyPage(c) BY <1>1, <1>6, TriesMoved DEF VerifyPage, AtPage
<1>7. CASE ClearPage(c) BY <1>1, <1>7, TriesMoved DEF ClearPage, AtPage
<1>8. CASE RecordPage(c) BY <1>1, <1>8, TriesMoved, ReturnNoRender DEF RecordPage, AtPortals
<1>9. CASE AdmitPage(c) BY <1>1, <1>9, ReturnNoRender DEF AdmitPage
<1>10. CASE VerifyPortals(c)
  <2>1. CASE GoTo(c, "record portals") BY <1>1, <2>1, TriesMoved DEF AtPortals
  <2>2. CASE ~GoTo(c, "record portals")
    <3>1. \E id, hash : calls' = [calls EXCEPT ![c].pc = "clear portal", ![c].chosen = id, ![c].hash = hash]
      BY <1>10, <2>2 DEF VerifyPortals
    <3>2. PICK id, hash : calls' = [calls EXCEPT ![c].pc = "clear portal", ![c].chosen = id, ![c].hash = hash]
      BY <3>1
    <3> DEFINE r == [calls[c] EXCEPT !.pc = "clear portal", !.chosen = id, !.hash = hash]
    <3>3. r.pc = "clear portal" BY DEF Tries
    <3>4. calls' = [calls EXCEPT ![c] = r] BY <3>2
    <3> HIDE DEF r
    <3>5. calls'[c] = r /\ \A d \in Calls : d # c => calls'[d] = calls[d] BY <1>1, <3>4 DEF Typed
    <3> QED BY <3>3, <3>5 DEF NoRender
  <2> QED BY <2>1, <2>2
<1>11. CASE ClearPortal(c) BY <1>1, <1>11, TriesMoved DEF ClearPortal, AtPortals
<1>12. CASE RecordPortals(c) BY <1>1, <1>12, ReturnNoRender DEF RecordPortals
<1>13. CASE AdmitPortal(c) BY <1>1, <1>13, ReturnNoRender DEF AdmitPortal
<1> QED BY <1>2, <1>3, <1>4, <1>5, <1>6, <1>7, <1>8, <1>9, <1>10, <1>11, <1>12, <1>13 DEF AttemptStep

LEMMA ServeOpens ==
  ASSUME IInv, NEW c \in Calls, NEW p \in Pages, Serve(c, p), calls'[c].pc = "render"
  PROVE  Opens(calls'[c].page, calls'[c].hash.salt)
<1> DEFINE session == VerifySession(jar.pages[p], pages[p].hash)
           pc == IF session /\ ~(\E q \in Portals : jar.portals[q] # NoCookie) THEN "render" ELSE "portals"
           r == [op |-> "get", pc |-> pc, page |-> p, hash |-> pages[p].hash, jar |-> jar, session |-> session]
<1>1. calls' = [calls EXCEPT ![c] = r] BY DEF Serve
<1>2. r.pc = pc /\ r.page = p /\ r.hash = pages[p].hash /\ (pc = "render" => session) OBVIOUS
<1>3. session => jar.pages[p] = pages[p].hash.salt BY DEF VerifySession
<1> HIDE DEF r, pc, session
<1>4. calls'[c] = r BY <1>1 DEF IInv, Typed
<1>5. jar.pages[p] = pages[p].hash.salt /\ jar.pages[p] # NoCookie BY <1>2, <1>3, <1>4, HashesTyped
<1>6. <<PageKey(p), pages[p].hash.salt>> \in proven BY <1>5 DEF IInv, Earned
<1> QED BY <1>2, <1>4, <1>6 DEF Opens

LEMMA ServePortalsOpens ==
  ASSUME IInv, NEW c \in Calls, ServePortals(c), calls'[c].pc = "render"
  PROVE  Opens(calls'[c].page, calls'[c].hash.salt)
<1> DEFINE k == calls[c]
           r == [k EXCEPT !.pc = "render"]
<1>1. k.pc = "portals" /\ k.op = "get" /\ k \in Gets /\ GetOK(c)
  BY Kinds DEF ServePortals, At, IInv, CallsOK, CallOK
<1>2. ~Return(c) BY IdleOps DEF Return, IInv, Typed
<1>3. PICK ports \in {GetPortalsForPage(k.page), NoPortals} :
        (k.session \/ Authorizing(k.jar, ports) # {}) /\ GoTo(c, "render")
  BY <1>2 DEF ServePortals
<1>4. r.page = k.page /\ r.hash = k.hash BY <1>1 DEF Gets
<1>5. calls'[c] = r BY <1>3 DEF GoTo, IInv, Typed
<1> HIDE DEF r
<1>6. CASE k.session
  <2>1. <<PageKey(k.page), k.hash.salt>> \in proven BY <1>1, <1>6 DEF GetOK
  <2> QED BY <1>4, <1>5, <2>1 DEF Opens
<1>7. CASE Authorizing(k.jar, ports) # {}
  <2>1. PICK d \in ports : VerifySession(k.jar.portals[d.id], d.hash) BY <1>7 DEF Authorizing
  <2>2. PICK q \in Portals : /\ portals[q].life = "live" /\ k.page \in portals[q].members
                             /\ d = [id |-> q, hash |-> portals[q].hash]
    BY <2>1 DEF GetPortalsForPage, NoPortals
  <2>3. k.jar.portals[q] = portals[q].hash.salt BY <2>1, <2>2 DEF VerifySession
  <2>4. <<PortalKey(q), portals[q].hash.salt>> \in proven
    <3>1. Earned(k.jar) BY <1>1 DEF GetOK
    <3> QED BY <2>3, <3>1, HashesTyped DEF Earned
  <2> QED BY <1>4, <1>5, <2>2, <2>4 DEF Opens
<1> QED BY <1>3, <1>6, <1>7

LEMMA ArrivesNoRender ==
  ASSUME IInv, NEW c \in Calls,
         \/ \E p \in Pages, g \in Secrets : Unlock(c, p, g)
         \/ \E q \in Portals, g \in Secrets : UnlockPortal(c, q, g)
         \/ \E q \in Portals, p \in Pages : AddPageLock(c, q, p)
  PROVE  NoRender(c)
<1>1. Typed BY DEF IInv
<1>2. ASSUME NEW r, r.pc # "render", calls' = [calls EXCEPT ![c] = r] PROVE NoRender(c)
  BY <1>1, <1>2 DEF NoRender, Typed
<1>3. ASSUME NEW op, NEW p, NEW hash, NEW ports, NEW guess, NEW pc \in {"portals", "await portals"},
             Attempt(c, op, p, hash, ports, guess, pc)
      PROVE  NoRender(c)
  <2> DEFINE r == [op |-> op, pc |-> pc, page |-> p, hash |-> hash, ports |-> ports, guess |-> guess, chosen |-> 0]
  <2>1. calls' = [calls EXCEPT ![c] = r] BY <1>3 DEF Attempt
  <2>2. r.pc # "render" OBVIOUS
  <2> HIDE DEF r
  <2> QED BY <1>2, <2>1, <2>2
<1>4. CASE \E p \in Pages, g \in Secrets : Unlock(c, p, g) BY <1>3, <1>4 DEF Unlock
<1>5. CASE \E q \in Portals, g \in Secrets : UnlockPortal(c, q, g) BY <1>3, <1>5 DEF UnlockPortal
<1>6. CASE \E q \in Portals, p \in Pages : AddPageLock(c, q, p)
  <2>1. PICK q \in Portals, p \in Pages : AddPageLock(c, q, p) BY <1>6
  <2> DEFINE r == [op |-> "add", pc |-> "insert", page |-> p, portal |-> q, locks |-> {PortalKey(q), PageKey(p)}]
  <2>2. calls' = [calls EXCEPT ![c] = r] BY <2>1 DEF AddPageLock
  <2>3. r.pc # "render" OBVIOUS
  <2> HIDE DEF r
  <2> QED BY <1>2, <2>2, <2>3
<1> QED BY <1>4, <1>5, <1>6

LEMMA ServeOthers ==
  ASSUME Typed, NEW c \in Calls, (\E p \in Pages : Serve(c, p)) \/ ServePortals(c)
  PROVE  \A d \in Calls : d # c => calls'[d] = calls[d]
BY DEF Serve, ServePortals, GoTo, Return, Typed

LEMMA RendersOpen ==
  ASSUME IInv, [Next]_vars, NEW c \in Calls, calls'[c].pc = "render", calls[c].pc # "render"
  PROVE  Opens(calls'[c].page, calls'[c].hash.salt)
<1>1. calls'[c] # calls[c] OBVIOUS
<1>2. PICK d \in Calls : Arrive(d) \/ CallStep(d)
  <2>1. TokenStep => UNCHANGED calls BY DEF TokenStep, MintToken, ExchangeToken
  <2>2. PageStep => UNCHANGED calls BY DEF PageStep, SetPassword, ClearPassword, SetState, SetPublished, Staff
  <2>3. PortalStep => UNCHANGED calls
    BY DEF PortalStep, CreatePortal, SetPortalPassword, RemovePage, SetHome, RetirePortal, Staff
  <2>4. Tick \/ (\E q \in Portals : LockPortal(q)) \/ (\E k \in Keys : WindowPasses(k)) => UNCHANGED calls
    BY DEF Tick, LockPortal, WindowPasses
  <2>5. UNCHANGED vars => UNCHANGED calls BY DEF vars
  <2> QED BY <1>1, <2>1, <2>2, <2>3, <2>4, <2>5 DEF Next
<1>3. Typed BY DEF IInv
<1>4. ~NoRender(d) BY <1>1 DEF NoRender
<1>5. CASE (\E p \in Pages : Serve(d, p)) \/ ServePortals(d)
  <2>1. d = c BY <1>1, <1>3, <1>5, ServeOthers
  <2> QED BY <1>5, <2>1, ServeOpens, ServePortalsOpens
<1>6. CASE ~((\E p \in Pages : Serve(d, p)) \/ ServePortals(d))
  <2>1. CASE Arrive(d) BY <1>4, <1>6, <2>1, ArrivesNoRender DEF Arrive
  <2>2. CASE AttemptStep(d) BY <1>4, <2>2, AttemptOfTries, AttemptNoRender
  <2>3. CASE Render(d) \/ AddPageInsert(d) BY <1>3, <1>4, <2>3, ReturnNoRender DEF Render, AddPageInsert
  <2> QED BY <1>2, <1>6, <2>1, <2>2, <2>3 DEF CallStep, GetStep
<1> QED BY <1>5, <1>6

\* A page is rendered only to a browser that earned it: no rotation, removal or
\* retirement that races a sign-in lets anybody else in.
THEOREM OnlyEntitled == Spec => Entitled
<1>1. IInv /\ [Next]_vars => \A c \in Calls : calls'[c].pc = "render" /\ calls[c].pc # "render" =>
        Opens(calls'[c].page, calls'[c].hash.salt)
  BY RendersOpen
<1> QED BY <1>1, Invariant, PTL DEF Spec, Entitled

---------------------------------------------------------------------------
(* The staff-readable copies.                                              *)

\* A row keeps a copy that opens, or has another hash.
Keeps(old, new) == old.copy = old.hash.salt /\ new.hash = old.hash => new.copy = old.copy
CopiesKept ==
  /\ \A p \in Pages : Keeps(pages[p], pages'[p])
  /\ \A q \in Portals : Keeps(portals[q], portals'[q])

\* Remembering a password that opened a row changes no copy that opens it.
LEMMA RememberedKeeps ==
  ASSUME NEW row, row \in PageRow \/ row \in PortalRow, NEW hash
  PROVE  Keeps(row, Remembered(row, hash))
<1>1. CASE row \in PageRow BY <1>1 DEF Remembered, Keeps, PageRow
<1>2. CASE row \in PortalRow BY <1>2 DEF Remembered, Keeps, PortalRow
<1> QED BY <1>1, <1>2

\* A fresh salt is no row's, and no copy is of the empty hash.
LEMMA RotatedKeeps ==
  ASSUME IInv, NEW old, NEW new
  PROVE  /\ old.hash.salt \in Nat /\ old.hash.salt <= salts /\ new.hash.salt = salts + 1 => Keeps(old, new)
         /\ old.copy \in Copy /\ new.hash = NoHash => Keeps(old, new)
<1>1. salts \in Nat BY DEF IInv, Typed
<1>2. ASSUME old.hash.salt \in Nat, old.hash.salt <= salts, new.hash.salt = salts + 1 PROVE Keeps(old, new)
  <2>1. old.hash.salt # new.hash.salt BY <1>1, <1>2
  <2> QED BY <2>1 DEF Keeps
<1>3. ASSUME old.copy \in Copy, new.hash = NoHash PROVE Keeps(old, new)
  <2>1. old.copy # 0 BY <1>3 DEF Copy, NoCopy
  <2>2. NoHash.salt = 0 BY DEF NoHash
  <2> QED BY <1>3, <2>1, <2>2 DEF Keeps
<1> QED BY <1>2, <1>3

LEMMA PageStepCopies ==
  ASSUME IInv, PageStep
  PROVE  CopiesKept
<1>1. PICK p \in Pages :
        \/ \E s \in Secrets : SetPassword(p, s)
        \/ ClearPassword(p)
        \/ \E s \in {"open", "disabled", "deleted"} : SetState(p, s)
        \/ \E v \in 0..2 : SetPublished(p, v)
  BY DEF PageStep
<1>2. pages[p] \in PageRow /\ pages[p].copy \in Copy BY DEF IInv, Typed, PageRow
<1>3. PICK row : Keeps(pages[p], row) /\ pages' = [pages EXCEPT ![p] = row] /\ UNCHANGED portals
  <2>1. ASSUME NEW s \in Secrets, SetPassword(p, s)
        PROVE  \E row : Keeps(pages[p], row) /\ pages' = [pages EXCEPT ![p] = row] /\ UNCHANGED portals
    <3>1. PICK copy : pages' = [pages EXCEPT ![p].hash = Fresh(s), ![p].copy = copy] BY <2>1 DEF SetPassword
    <3> DEFINE row == [pages[p] EXCEPT !.hash = Fresh(s), !.copy = copy]
    <3>2. row.hash = Fresh(s) /\ pages' = [pages EXCEPT ![p] = row] BY <1>2, <3>1 DEF PageRow
    <3> HIDE DEF row
    <3>3. Keeps(pages[p], row) BY <3>2, SaltsDrawn, FreshTyped, RotatedKeeps
    <3> QED BY <2>1, <3>2, <3>3 DEF SetPassword
  <2>2. CASE ClearPassword(p)
    <3> DEFINE row == [pages[p] EXCEPT !.hash = NoHash, !.copy = NoCopy]
    <3>1. row.hash = NoHash BY <1>2 DEF PageRow
    <3>2. pages' = [pages EXCEPT ![p] = row] /\ UNCHANGED portals BY <2>2 DEF ClearPassword
    <3> HIDE DEF row
    <3>3. Keeps(pages[p], row) BY <1>2, <3>1, RotatedKeeps
    <3> QED BY <3>2, <3>3
  <2>3. ASSUME NEW s, SetState(p, s)
        PROVE  \E row : Keeps(pages[p], row) /\ pages' = [pages EXCEPT ![p] = row] /\ UNCHANGED portals
    <3> DEFINE row == [pages[p] EXCEPT !.state = s]
    <3>1. Keeps(pages[p], row) BY <1>2 DEF PageRow, Keeps
    <3> QED BY <2>3, <3>1 DEF SetState
  <2>4. ASSUME NEW v, SetPublished(p, v)
        PROVE  \E row : Keeps(pages[p], row) /\ pages' = [pages EXCEPT ![p] = row] /\ UNCHANGED portals
    <3> DEFINE row == [pages[p] EXCEPT !.published = v]
    <3>1. Keeps(pages[p], row) BY <1>2 DEF PageRow, Keeps
    <3> QED BY <2>4, <3>1 DEF SetPublished
  <2> QED BY <1>1, <2>1, <2>2, <2>3, <2>4
<1>4. \A x \in Pages : pages'[x] = pages[x] \/ (x = p /\ pages'[x] = row) BY <1>3 DEF IInv, Typed
<1>5. \A x \in Pages : Keeps(pages[x], pages'[x]) BY <1>3, <1>4 DEF Keeps
<1> QED BY <1>3, <1>5 DEF CopiesKept, Keeps

LEMMA PortalStepCopies ==
  ASSUME IInv, PortalStep
  PROVE  CopiesKept
<1>1. PICK q \in Portals :
        \/ \E s \in Secrets : CreatePortal(q, s) \/ SetPortalPassword(q, s)
        \/ \E p \in Pages : RemovePage(q, p)
        \/ \E p \in Pages \cup {0} : SetHome(q, p)
        \/ RetirePortal(q)
  BY DEF PortalStep
<1>2. portals[q] \in PortalRow BY DEF IInv, Typed
<1>3. PICK row : Keeps(portals[q], row) /\ portals' = [portals EXCEPT ![q] = row] /\ UNCHANGED pages
  <2>1. ASSUME NEW s \in Secrets, CreatePortal(q, s)
        PROVE  \E row : Keeps(portals[q], row) /\ portals' = [portals EXCEPT ![q] = row] /\ UNCHANGED pages
    <3>1. PICK copy : portals' = [portals EXCEPT ![q] =
            [life |-> "live", hash |-> Fresh(s), copy |-> copy, home |-> 0, members |-> {}]]
      BY <2>1 DEF CreatePortal
    <3> DEFINE row == [life |-> "live", hash |-> Fresh(s), copy |-> copy, home |-> 0, members |-> {}]
    <3>2. row.hash = Fresh(s) /\ portals' = [portals EXCEPT ![q] = row] BY <3>1
    <3> HIDE DEF row
    <3>3. Keeps(portals[q], row) BY <3>2, SaltsDrawn, FreshTyped, RotatedKeeps
    <3> QED BY <2>1, <3>2, <3>3 DEF CreatePortal
  <2>2. ASSUME NEW s \in Secrets, SetPortalPassword(q, s)
        PROVE  \E row : Keeps(portals[q], row) /\ portals' = [portals EXCEPT ![q] = row] /\ UNCHANGED pages
    <3>1. PICK copy : portals' = [portals EXCEPT ![q].hash = Fresh(s), ![q].copy = copy]
      BY <2>2 DEF SetPortalPassword
    <3> DEFINE row == [portals[q] EXCEPT !.hash = Fresh(s), !.copy = copy]
    <3>2. row.hash = Fresh(s) /\ portals' = [portals EXCEPT ![q] = row] BY <1>2, <3>1 DEF PortalRow
    <3> HIDE DEF row
    <3>3. Keeps(portals[q], row) BY <3>2, SaltsDrawn, FreshTyped, RotatedKeeps
    <3> QED BY <2>2, <3>2, <3>3 DEF SetPortalPassword
  <2>3. ASSUME NEW p, RemovePage(q, p)
        PROVE  \E row : Keeps(portals[q], row) /\ portals' = [portals EXCEPT ![q] = row] /\ UNCHANGED pages
    <3> DEFINE row == [portals[q] EXCEPT !.members = @ \ {p}, !.home = IF @ = p THEN 0 ELSE @]
    <3>1. Keeps(portals[q], row) BY <1>2 DEF PortalRow, Keeps
    <3>2. portals' = [portals EXCEPT ![q] = row] /\ UNCHANGED pages BY <2>3 DEF RemovePage
    <3> QED BY <3>1, <3>2
  <2>4. ASSUME NEW p, SetHome(q, p)
        PROVE  \E row : Keeps(portals[q], row) /\ portals' = [portals EXCEPT ![q] = row] /\ UNCHANGED pages
    <3> DEFINE row == [portals[q] EXCEPT !.home = p]
    <3>1. Keeps(portals[q], row) BY <1>2 DEF PortalRow, Keeps
    <3> QED BY <2>4, <3>1 DEF SetHome
  <2>5. CASE RetirePortal(q)
    <3> DEFINE row == [portals[q] EXCEPT !.life = "retired"]
    <3>1. Keeps(portals[q], row) BY <1>2 DEF PortalRow, Keeps
    <3> QED BY <2>5, <3>1 DEF RetirePortal
  <2> QED BY <1>1, <2>1, <2>2, <2>3, <2>4, <2>5
<1>4. \A x \in Portals : portals'[x] = portals[x] \/ (x = q /\ portals'[x] = row) BY <1>3 DEF IInv, Typed
<1>5. \A x \in Portals : Keeps(portals[x], portals'[x]) BY <1>3, <1>4 DEF Keeps
<1> QED BY <1>3, <1>5 DEF CopiesKept, Keeps

LEMMA RequestCopies ==
  ASSUME IInv, NEW c \in Calls, Arrive(c) \/ CallStep(c)
  PROVE  CopiesKept
<1>1. Typed BY DEF IInv
<1>2. UNCHANGED <<pages, portals>> => CopiesKept BY DEF CopiesKept, Keeps
<1>3. CASE Arrive(c) BY <1>2, <1>3 DEF Arrive, Serve, Unlock, UnlockPortal, AddPageLock, staff
<1>4. CASE GetStep(c) BY <1>2, <1>4 DEF GetStep, ServePortals, Render, staff
<1>5. CASE AdmitPage(c)
  <2>1. /\ pages' \in {pages, [pages EXCEPT ![calls[c].page] = Remembered(@, calls[c].hash)]}
        /\ UNCHANGED portals
    BY <1>5 DEF AdmitPage
  <2>2. \A p \in Pages : pages'[p] = pages[p] \/ pages'[p] = Remembered(pages[p], calls[c].hash)
    BY <1>1, <2>1 DEF Typed
  <2>3. \A p \in Pages : Keeps(pages[p], Remembered(pages[p], calls[c].hash)) BY <1>1, RememberedKeeps DEF Typed
  <2>4. \A p \in Pages : Keeps(pages[p], pages'[p]) BY <2>2, <2>3 DEF Keeps
  <2> QED BY <2>1, <2>4 DEF CopiesKept, Keeps
<1>6. CASE AdmitPortal(c)
  <2>1. /\ portals' \in {portals, [portals EXCEPT ![calls[c].chosen] = Remembered(@, calls[c].hash)]}
        /\ UNCHANGED pages
    BY <1>6 DEF AdmitPortal
  <2>2. \A q \in Portals : portals'[q] = portals[q] \/ portals'[q] = Remembered(portals[q], calls[c].hash)
    BY <1>1, <2>1 DEF Typed
  <2>3. \A q \in Portals : Keeps(portals[q], Remembered(portals[q], calls[c].hash)) BY <1>1, RememberedKeeps DEF Typed
  <2>4. \A q \in Portals : Keeps(portals[q], portals'[q]) BY <2>2, <2>3 DEF Keeps
  <2> QED BY <2>1, <2>4 DEF CopiesKept, Keeps
<1>7. CASE AttemptStep(c) /\ ~AdmitPage(c) /\ ~AdmitPortal(c)
  BY <1>2, <1>7 DEF AttemptStep, UnlockDoors, TakePageTurn, TakePortalTurns, Take, Busy, VerifyPage, ClearPage,
                    RecordPage, VerifyPortals, ClearPortal, RecordPortals, staff
<1>8. CASE AddPageInsert(c)
  <2> DEFINE q == calls[c].portal
             row == [portals[q] EXCEPT !.members = @ \cup {calls[c].page}]
  <2>1. portals' \in {portals, [portals EXCEPT ![q] = row]} /\ UNCHANGED pages BY <1>8 DEF AddPageInsert
  <2>2. \A x \in Portals : Keeps(portals[x], [portals[x] EXCEPT !.members = @ \cup {calls[c].page}])
    BY <1>1 DEF Typed, PortalRow, Keeps
  <2>3. \A x \in Portals : portals'[x] = portals[x] \/ (x = q /\ portals'[x] = row)
    BY <1>1, <2>1 DEF Typed
  <2>4. \A x \in Portals : x = q => Keeps(portals[x], row) BY <2>2
  <2> HIDE DEF row, q
  <2>5. \A x \in Portals : Keeps(portals[x], portals'[x]) BY <2>3, <2>4 DEF Keeps
  <2> QED BY <2>1, <2>5 DEF CopiesKept, Keeps
<1> QED BY <1>3, <1>4, <1>5, <1>6, <1>7, <1>8 DEF CallStep

\* A copy that staff can read opens the page until its password changes.
THEOREM CopiesOpen == Spec => CopyKept
<1>1. IInv /\ [Next]_vars => CopiesKept
  <2>1. SUFFICES ASSUME IInv, [Next]_vars PROVE CopiesKept OBVIOUS
  <2>2. UNCHANGED <<pages, portals>> => CopiesKept BY DEF CopiesKept, Keeps
  <2>3. CASE TokenStep BY <2>2, <2>3 DEF TokenStep, MintToken, ExchangeToken, staff
  <2>4. CASE Tick \/ (\E q \in Portals : LockPortal(q)) \/ (\E k \in Keys : WindowPasses(k))
    BY <2>2, <2>4 DEF Tick, LockPortal, WindowPasses, staff
  <2>5. CASE UNCHANGED vars BY <2>2, <2>5 DEF vars, staff
  <2> QED BY <2>1, <2>3, <2>4, <2>5, RequestCopies, PageStepCopies, PortalStepCopies DEF Next
<1>2. CopiesKept =>
        /\ \A p \in Pages : pages[p].copy = pages[p].hash.salt /\ pages'[p].hash = pages[p].hash =>
             pages'[p].copy = pages[p].copy
        /\ \A q \in Portals : portals[q].copy = portals[q].hash.salt /\ portals'[q].hash = portals[q].hash =>
             portals'[q].copy = portals[q].copy
  BY DEF CopiesKept, Keeps
<1> QED BY <1>1, <1>2, Invariant, PTL DEF Spec, CopyKept
=============================================================================
