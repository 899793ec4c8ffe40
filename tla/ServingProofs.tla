--------------------------- MODULE ServingProofs ---------------------------
(***************************************************************************)
(* What holds of the signed links, the answers of the tools and the        *)
(* installation for every value of the constants, with what EstateProofs   *)
(* says of grants and migrations; and of the gates, for every request.     *)
(***************************************************************************)
EXTENDS EstateProofs, SequenceTheorems

---------------------------------------------------------------------------
\* A set of positions in a sequence has a largest one.
LEMMA LargestPosition ==
  ASSUME NEW n \in Nat, NEW S \in SUBSET (1..n), S # {}
  PROVE  \E x \in S : \A y \in S : x >= y
<1> DEFINE Left == {n - x : x \in S}
<1>1. Left \subseteq Nat /\ Left # {}
  <2>1. ASSUME NEW x \in S PROVE n - x \in Nat
    BY 1 <= x /\ x <= n /\ x \in Int
  <2> QED
    BY <2>1
<1>2. PICK m \in Left : \A k \in Left : m <= k
  <2> HIDE DEF Left
  <2> QED
    BY <1>1, NatMin
<1>3. PICK x \in S : m = n - x
  BY <1>2
<1>4. ASSUME NEW y \in S PROVE x >= y
  <2>1. m <= n - y /\ x \in Int /\ y \in Int
    BY <1>2
  <2> QED
    BY <1>3, <2>1
<1> QED
  BY <1>4

---------------------------------------------------------------------------
(* Links.  What a request shows it finds in the statement that checks the  *)
(* link; what a save stores it checks under the lock of the page.          *)

DeckRows == [page : K!Rows, deck : BOOLEAN, content : K!Contents, base : K!VersionIds,
             by : LinkStaff \cup {K!Nobody}, late : BOOLEAN]

Requests == [LinkStaff -> [at : {"idle", "preview", "edit"}, row : 0..2, version : K!VersionIds]]

\* A late version was stored after one of its page that is not.
LateFollow ==
  \A v \in DOMAIN kversions : kversions[v].late =>
    \E u \in K!Earlier(v) : ~kversions[u].late

KInv ==
  /\ kversions \in Seq(DeckRows) /\ Len(kversions) <= MaxSaves
  /\ editor \in [LinkStaff -> [page : 0..2, base : K!VersionIds, actor : LinkStaff \cup {K!Nobody}]]
  /\ links \subseteq K!Claims
  /\ minting \in Requests
  /\ LateFollow /\ K!SavesSound /\ K!Shows

LEMMA LinksStart == ASSUME MaxSaves \in Nat PROVE K!LinksInit => KInv
<1> SUFFICES ASSUME K!LinksInit PROVE KInv
  OBVIOUS
<1>1. editor \in [LinkStaff -> [page : 0..2, base : K!VersionIds, actor : LinkStaff \cup {K!Nobody}]]
  BY DEF K!LinksInit, K!NoDeck, K!VersionIds
<1>2. minting \in Requests
  BY DEF K!LinksInit, K!Idle, K!VersionIds, Requests
<1> QED
  BY <1>1, <1>2 DEF KInv, K!LinksInit, LateFollow, K!SavesSound, K!Shows, K!Nothing

\* The newest of some versions is one of them, when one of them is not late.
LEMMA NewestOfSome ==
  ASSUME NEW n \in Nat, NEW S \in SUBSET (1..n), NEW x \in S, ~kversions[x].late
  PROVE  K!NewestOf(S) \in S /\ K!NewestOf(S) = K!Max({v \in S : ~kversions[v].late})
<1> DEFINE OnTime == {v \in S : ~kversions[v].late}
<1>1. OnTime \in SUBSET (1..n) /\ OnTime # {}
  OBVIOUS
<1>2. OnTime \subseteq S /\ K!NewestOf(S) = K!Max(OnTime)
  BY DEF K!NewestOf
<1> HIDE DEF OnTime
<1>3. \E y \in OnTime : \A z \in OnTime : y >= z
  BY <1>1, LargestPosition
<1>4. K!Max(OnTime) \in OnTime
  BY <1>3 DEF K!Max
<1> QED
  BY <1>2, <1>4 DEF OnTime

\* Those stored before any moment, if any, have one that is not late.
LEMMA SomeOnTime ==
  ASSUME KInv, NEW p, NEW S, S = K!Of(p) \/ (\E n \in Nat : S = {u \in K!Of(p) : u < n}), S # {}
  PROVE  \E x \in S : ~kversions[x].late
<1>1. PICK y : y \in S
  OBVIOUS
<1>2. CASE ~kversions[y].late
  BY <1>1, <1>2
<1>3. CASE kversions[y].late
  <2>1. y \in DOMAIN kversions /\ kversions[y].page = p
    BY <1>1 DEF K!Of
  <2>2. PICK u \in K!Earlier(y) : ~kversions[u].late
    BY <1>3, <2>1 DEF KInv, LateFollow
  <2>3. u \in K!Of(p) /\ u < y
    BY <2>1, <2>2 DEF K!Earlier
  <2>4. u \in Nat /\ y \in Nat
    BY <2>1, <2>3 DEF K!Of, KInv
  <2>5. u \in S
    BY <1>1, <2>3, <2>4
  <2> QED
    BY <2>2, <2>5
<1> QED
  BY <1>2, <1>3

\* The newest version of a page is one of its versions.
LEMMA NewestIsThere ==
  ASSUME KInv, NEW p
  PROVE  /\ K!Of(p) = {} => K!Newest(p) = 0
         /\ K!Of(p) # {} => K!Newest(p) \in K!Of(p)
<1>1. K!Of(p) = {} => K!Newest(p) = 0
  BY DEF K!Newest, K!NewestOf
<1>2. ASSUME K!Of(p) # {} PROVE K!Newest(p) \in K!Of(p)
  <2>1. K!Of(p) \in SUBSET (1..Len(kversions)) /\ Len(kversions) \in Nat
    BY DEF K!Of, KInv
  <2>2. PICK x \in K!Of(p) : ~kversions[x].late
    BY <1>2, SomeOnTime
  <2> QED
    BY <2>1, <2>2, NewestOfSome DEF K!Newest
<1> QED
  BY <1>1, <1>2

\* With the versions as they were, what is sound of them stays so.
LEMMA SameVersions ==
  ASSUME KInv, UNCHANGED kversions PROVE LateFollow' /\ K!SavesSound'
<1>1. \A v : K!Earlier(v)' = K!Earlier(v)
  BY DEF K!Earlier, K!Of
<1>2. \A S : K!NewestOf(S)' = K!NewestOf(S)
  BY DEF K!NewestOf
<1>3. LateFollow'
  BY <1>1 DEF KInv, LateFollow
<1>4. K!SavesSound'
  BY <1>1, <1>2 DEF KInv, K!SavesSound, K!IsDeck
<1> QED
  BY <1>3, <1>4

\* Nothing is shown, and no version is written.
LEMMA QuietLinks ==
  ASSUME KInv, UNCHANGED <<kversions, editor>>, links' \subseteq K!Claims,
         minting' \in Requests, shown' = K!Nothing
  PROVE  KInv'
<1>1. K!Shows'
  BY DEF K!Shows, K!Nothing
<1> QED
  BY <1>1, SameVersions DEF KInv

\* A version is appended: what it was made from is the newest of its page, and a
\* late one has others before it.
LEMMA InsertKeeps ==
  ASSUME KInv, NEW r \in DeckRows, kversions' = Append(kversions, r),
         r.late => K!Of(r.page) # {},
         r.by # K!Nobody => r.base = K!Newest(r.page) /\ K!IsDeck(r.base)
  PROVE  LateFollow' /\ K!SavesSound'
<1>0. PICK n \in Nat : n = Len(kversions) + 1
  BY DEF KInv
<1>1. /\ kversions \in Seq(DeckRows) /\ Len(kversions) \in Nat /\ DOMAIN kversions = 1..Len(kversions)
      /\ DOMAIN kversions' = 1..n /\ kversions'[n] = r
      /\ \A v \in DOMAIN kversions : kversions'[v] = kversions[v]
  BY <1>0 DEF KInv
<1>2. \A v \in DOMAIN kversions : K!Earlier(v)' = K!Earlier(v)
  BY <1>0, <1>1 DEF K!Earlier, K!Of
<1>3. K!Earlier(n)' = K!Of(r.page)
  <2>1. \A u : u \in K!Earlier(n)' <=> u \in DOMAIN kversions' /\ kversions'[u].page = r.page /\ u < n
    BY <1>1 DEF K!Earlier, K!Of
  <2>2. \A u : u \in DOMAIN kversions' /\ u < n <=> u \in DOMAIN kversions
    BY <1>0, <1>1
  <2>3. \A u : u \in K!Of(r.page) <=> u \in DOMAIN kversions /\ kversions[u].page = r.page
    BY DEF K!Of
  <2> QED
    BY <1>1, <2>1, <2>2, <2>3
<1>4. \A v : K!Earlier(v) \subseteq DOMAIN kversions /\ K!Of(r.page) \subseteq DOMAIN kversions
  BY DEF K!Earlier, K!Of
<1>5. ASSUME NEW S \in SUBSET (DOMAIN kversions) PROVE K!NewestOf(S)' = K!NewestOf(S)
  <2>1. {v \in S : ~kversions'[v].late} = {v \in S : ~kversions[v].late}
    BY <1>1
  <2> QED
    BY <2>1 DEF K!NewestOf
<1>6. \A v \in DOMAIN kversions' : v = n \/ v \in DOMAIN kversions
  BY <1>0, <1>1
<1>7. \A u \in DOMAIN kversions : K!IsDeck(u) => u # 0 /\ kversions'[u].deck
  BY <1>1 DEF K!IsDeck
<1>8. LateFollow'
  <2>1. ASSUME NEW v \in DOMAIN kversions, kversions'[v].late
        PROVE  \E u \in K!Earlier(v)' : ~kversions'[u].late
    <3>1. PICK u \in K!Earlier(v) : ~kversions[u].late
      BY <1>1, <2>1 DEF KInv, LateFollow
    <3> QED
      BY <1>1, <1>2, <1>4, <3>1
  <2>2. ASSUME r.late PROVE \E u \in K!Earlier(n)' : ~kversions'[u].late
    <3>1. PICK u \in K!Of(r.page) : ~kversions[u].late
      BY <2>2, SomeOnTime
    <3> QED
      BY <1>1, <1>3, <1>4, <3>1
  <2>3. ASSUME NEW v \in DOMAIN kversions', kversions'[v].late
        PROVE  \E u \in K!Earlier(v)' : ~kversions'[u].late
    <3>1. CASE v = n
      BY <1>1, <2>2, <2>3, <3>1
    <3>2. CASE v \in DOMAIN kversions
      BY <2>1, <2>3, <3>2
    <3> QED
      BY <1>6, <3>1, <3>2
  <2> QED
    BY <2>3 DEF LateFollow
<1>9. ASSUME NEW v \in DOMAIN kversions, kversions'[v].by # K!Nobody
      PROVE  /\ kversions'[v].base # 0 /\ kversions'[v].base = K!NewestOf(K!Earlier(v))'
             /\ kversions'[kversions'[v].base].deck
  <2>0. PICK b : b = kversions[v].base
    OBVIOUS
  <2>1. b # 0 /\ b = K!NewestOf(K!Earlier(v)) /\ K!IsDeck(b)
    BY <1>1, <1>9, <2>0 DEF KInv, K!SavesSound
  <2>2. K!Earlier(v) # {}
    BY <2>1 DEF K!NewestOf
  <2>3. K!Earlier(v) \in SUBSET (1..Len(kversions)) /\ v \in Nat
    BY <1>1, <1>4
  <2>4. PICK x \in K!Earlier(v) : ~kversions[x].late
    BY <2>2, <2>3, SomeOnTime DEF K!Earlier
  <2>5. b \in K!Earlier(v)
    BY <1>1, <2>1, <2>3, <2>4, NewestOfSome
  <2>6. K!NewestOf(K!Earlier(v))' = K!NewestOf(K!Earlier(v))
    BY <1>2, <1>4, <1>5
  <2>7. kversions'[b].deck
    BY <1>4, <1>7, <2>1, <2>5
  <2> QED
    BY <1>1, <2>0, <2>1, <2>6, <2>7
<1>10. ASSUME r.by # K!Nobody
      PROVE  r.base # 0 /\ r.base = K!NewestOf(K!Earlier(n))' /\ kversions'[r.base].deck
  <2>1. r.base = K!NewestOf(K!Of(r.page)) /\ K!IsDeck(r.base) /\ r.base # 0
    BY <1>10 DEF K!Newest, K!IsDeck
  <2>2. r.base \in K!Of(r.page)
    BY <2>1, NewestIsThere DEF K!Newest
  <2>3. K!Of(r.page) \in SUBSET (DOMAIN kversions)
    BY <1>4
  <2>4. K!NewestOf(K!Earlier(n))' = K!NewestOf(K!Of(r.page))
    BY <1>3, <1>5, <2>3 DEF K!NewestOf
  <2> QED
    BY <1>4, <1>7, <2>1, <2>2, <2>4
<1>11. ASSUME NEW v \in DOMAIN kversions', kversions'[v].by # K!Nobody
       PROVE  /\ kversions'[v].base # 0 /\ kversions'[v].base = K!NewestOf(K!Earlier(v))'
              /\ kversions'[kversions'[v].base].deck
  <2>1. CASE v = n
    BY <1>1, <1>10, <1>11, <2>1
  <2>2. CASE v \in DOMAIN kversions
    BY <1>1, <1>9, <1>11, <2>2
  <2> QED
    BY <1>6, <2>1, <2>2
<1> QED
  BY <1>8, <1>11 DEF K!SavesSound, K!IsDeck

LEMMA DeployKeeps ==
  ASSUME MaxSaves \in Nat, KInv, NEW p \in K!Rows, NEW d \in BOOLEAN, K!Deploy(p, d)
  PROVE  KInv'
<1>a. PICK late \in BOOLEAN :
        /\ late => K!Of(p) # {}
        /\ K!Insert([page |-> p, deck |-> d, content |-> 1, base |-> 0, by |-> K!Nobody, late |-> late])
  BY DEF K!Deploy
<1> DEFINE r == [page |-> p, deck |-> d, content |-> 1, base |-> 0, by |-> K!Nobody, late |-> late]
<1>1. kversions' = Append(kversions, r) /\ UNCHANGED <<links, minting, editor>> /\ shown' = K!Nothing
  BY <1>a DEF K!Deploy, K!Insert
<1>0. Len(kversions) < MaxSaves
  BY <1>a DEF K!Insert
<1>2. r \in DeckRows /\ r.by = K!Nobody /\ (r.late => K!Of(r.page) # {})
  BY <1>a DEF DeckRows, K!Contents, K!VersionIds
<1> HIDE DEF r
<1>3. LateFollow' /\ K!SavesSound'
  BY <1>1, <1>2, InsertKeeps
<1>4. kversions' \in Seq(DeckRows) /\ Len(kversions') <= MaxSaves
  BY <1>1, <1>2, <1>0 DEF KInv
<1>5. K!Shows'
  BY <1>1 DEF K!Shows, K!Nothing
<1> QED
  BY <1>1, <1>3, <1>4, <1>5 DEF KInv

\* A save either finds its text stored, or stores it over the version it was
\* made from.
LEMMA SaveKeeps ==
  ASSUME MaxSaves \in Nat, KInv, NEW s \in LinkStaff, NEW x \in K!Contents, K!SaveDeck(s, x)
  PROVE  KInv'
<1> DEFINE e == editor[s]
           r(p) == [page |-> p, deck |-> TRUE, content |-> x, base |-> e.base, by |-> e.actor, late |-> FALSE]
<1>1. e \in [page : 0..2, base : K!VersionIds, actor : LinkStaff \cup {K!Nobody}]
  BY DEF KInv
<1>2. PICK p \in K!Live :
        /\ p = e.page /\ K!IsDeck(K!Newest(p))
        /\ \/ K!Saved(s, K!Newest(p)) /\ UNCHANGED kversions
           \/ /\ K!Newest(p) = e.base /\ K!Insert(r(p))
              /\ K!Saved(s, Len(kversions) + 1) \/ UNCHANGED editor
  BY DEF K!SaveDeck, K!Draft
<1>3. UNCHANGED <<links, minting>> /\ shown' = K!Nothing
  BY DEF K!SaveDeck
<1>4. p \in K!Rows /\ K!Newest(p) # 0
  BY <1>2 DEF K!Live, K!IsDeck
<1>5. K!Of(p) # {} /\ K!Newest(p) \in K!Of(p)
  BY <1>4, NewestIsThere
<1>6. /\ editor' \in [LinkStaff -> [page : 0..2, base : K!VersionIds, actor : LinkStaff \cup {K!Nobody}]]
      /\ kversions' \in Seq(DeckRows) /\ Len(kversions') <= MaxSaves /\ LateFollow' /\ K!SavesSound'
  <2>1. CASE K!Saved(s, K!Newest(p)) /\ UNCHANGED kversions
    <3>1. K!Newest(p) \in K!VersionIds
      BY <1>5 DEF K!Of, K!VersionIds, KInv
    <3>2. LateFollow' /\ K!SavesSound'
      BY <2>1, SameVersions
    <3> QED
      BY <2>1, <3>1, <3>2 DEF KInv, K!Saved
  <2>2. CASE /\ K!Newest(p) = e.base /\ K!Insert(r(p))
             /\ K!Saved(s, Len(kversions) + 1) \/ UNCHANGED editor
    <3>1. r(p) \in DeckRows /\ r(p).page = p /\ r(p).base = e.base /\ ~r(p).late
      BY <1>1, <1>4 DEF DeckRows
    <3>2. /\ kversions' = Append(kversions, r(p)) /\ Len(kversions) + 1 \in K!VersionIds
          /\ Len(kversions') <= MaxSaves
      BY <2>2 DEF K!Insert, K!VersionIds, KInv
    <3> HIDE DEF r
    <3>3. LateFollow' /\ K!SavesSound'
      BY <1>2, <2>2, <3>1, <3>2, InsertKeeps
    <3>4. kversions' \in Seq(DeckRows)
      BY <3>1, <3>2 DEF KInv
    <3>5. editor' \in [LinkStaff -> [page : 0..2, base : K!VersionIds, actor : LinkStaff \cup {K!Nobody}]]
      BY <2>2, <3>2, ZenonT(60) DEF KInv, K!Saved
    <3> QED
      BY <3>2, <3>3, <3>4, <3>5
  <2> QED
    BY <1>2, <2>1, <2>2
<1>7. K!Shows'
  BY <1>3 DEF K!Shows, K!Nothing
<1> QED
  BY <1>3, <1>6, <1>7 DEF KInv

\* What the raw and the template routes show is the version the link names.
LEMMA RawKeeps ==
  ASSUME KInv, NEW l \in links,
         K!Raw(l) \/ \E r \in TemplateRevisions : K!RawTemplate(l, r)
  PROVE  KInv'
<1>1. UNCHANGED <<kpages, kversions, links, minting, editor>>
  BY DEF K!Raw, K!RawTemplate, K!Show
<1>2. LateFollow' /\ K!SavesSound'
  BY <1>1, SameVersions
<1>3. CASE K!Raw(l)
  <2>1. shown' = [route |-> "raw", link |-> l, id |-> l.version] /\ l.purpose = "view"
    BY <1>3 DEF K!Raw, K!Show
  <2>2. kversions[l.version] \in DeckRows /\ kpages[kversions[l.version].page].life = "live"
    BY <1>3 DEF K!Raw, K!Servable, KInv
  <2>3. kversions[l.version].page \in K!Rows
    BY <2>2 DEF DeckRows
  <2> QED
    BY <1>1, <1>2, <2>1, <2>2, <2>3 DEF KInv, K!Shows, K!Live
<1>4. ASSUME NEW r \in TemplateRevisions, K!RawTemplate(l, r) PROVE KInv'
  <2>1. shown' = [route |-> "template", link |-> l, id |-> r] /\ l.purpose = "template" /\ l.version = r
    BY <1>4 DEF K!RawTemplate, K!Show
  <2> QED
    BY <1>1, <1>2, <2>1 DEF KInv, K!Shows
<1> QED
  BY <1>3, <1>4

\* The editor opens the newest deck of the page, read where the link is checked.
LEMMA EditorKeeps ==
  ASSUME MaxSaves \in Nat, KInv, NEW s \in LinkStaff, NEW l \in links, K!DeckEditSession(s, l)
  PROVE  KInv'
<1> DEFINE top == K!Newest(l.page)
<1>1. /\ UNCHANGED <<kpages, kversions, links, minting>>
      /\ shown' = [route |-> "editor", link |-> l, id |-> top]
      /\ editor' = [editor EXCEPT ![s] = [page |-> l.page, base |-> top, actor |-> l.actor]]
      /\ l.purpose = "edit" /\ K!Servable(top) /\ top # 0
  BY DEF K!DeckEditSession, K!Show, K!IsDeck
<1>2. top \in K!Of(l.page)
  BY <1>1, NewestIsThere
<1>3. top \in DOMAIN kversions /\ kversions[top].page = l.page
  BY <1>2 DEF K!Of
<1>4. top \in K!VersionIds /\ l.page \in K!Live
  <2>1. kversions[top] \in DeckRows /\ top \in 1..Len(kversions) /\ Len(kversions) <= MaxSaves /\ Len(kversions) \in Nat
    BY <1>3 DEF KInv
  <2>2. top \in K!VersionIds
    BY <2>1 DEF K!VersionIds
  <2>3. l.page \in K!Rows
    BY <1>3, <2>1 DEF DeckRows
  <2> QED
    BY <1>1, <1>3, <2>2, <2>3 DEF K!Live, K!Servable
<1>6. LateFollow' /\ K!SavesSound'
  BY <1>1, SameVersions
<1>7. K!Shows'
  <2>1. top = K!Newest(l.page) /\ l.page \in K!Live'
    BY <1>1, <1>4 DEF K!Live
  <2>2. \A p : K!Newest(p)' = K!Newest(p)
    BY <1>1 DEF K!Newest, K!NewestOf, K!Of
  <2> HIDE DEF top
  <2> QED
    BY <1>1, <2>1, <2>2 DEF K!Shows
<1>8. editor' \in [LinkStaff -> [page : 0..2, base : K!VersionIds, actor : LinkStaff \cup {K!Nobody}]]
  <2>1. l.page \in 0..2 /\ l.actor \in LinkStaff \cup {K!Nobody}
    BY DEF KInv, K!Claims
  <2> HIDE DEF top
  <2> QED
    BY <1>1, <1>4, <2>1 DEF KInv
<1> QED
  BY <1>1, <1>6, <1>7, <1>8 DEF KInv

\* A request names versions and pages it has read.
LEMMA MintKeeps ==
  ASSUME MaxSaves \in Nat, KInv,
         \/ \E s \in LinkStaff, v \in DOMAIN kversions : K!PreviewFind(s, v) \/ K!View(s, v)
         \/ \E s \in LinkStaff, p \in K!Rows : K!EditFind(s, p)
         \/ \E s \in LinkStaff : K!PreviewToken(s) \/ K!EditToken(s)
         \/ \E s \in LinkStaff, r \in TemplateRevisions : K!TemplateURLs(s, r)
         \/ \E l \in links : K!Expire(l)
  PROVE  KInv'
<1>1. \A v \in DOMAIN kversions : v \in K!VersionIds /\ kversions[v].page \in K!Rows
  <2>1. ASSUME NEW v \in DOMAIN kversions PROVE v \in K!VersionIds /\ kversions[v].page \in K!Rows
    <3>1. kversions[v] \in DeckRows /\ v \in 1..Len(kversions) /\ Len(kversions) <= MaxSaves /\ Len(kversions) \in Nat
      BY DEF KInv
    <3> QED
      BY <3>1 DEF DeckRows, K!VersionIds
  <2> QED
    BY <2>1
<1>2. minting \in Requests /\ links \subseteq K!Claims
  BY DEF KInv
<1>3. ASSUME NEW s \in LinkStaff, NEW q \in [at : {"idle", "preview", "edit"}, row : 0..2, version : K!VersionIds], K!Start(s, q)
      PROVE  KInv'
  <2>1. minting' \in Requests /\ links' \subseteq K!Claims
    BY <1>2, <1>3 DEF K!Start, Requests
  <2> QED
    BY <1>3, <2>1, QuietLinks DEF K!Start
<1>4. ASSUME NEW s \in LinkStaff, NEW signed \in SUBSET K!Claims, K!Mint(s, signed)
      PROVE  KInv'
  <2>1. minting' \in Requests /\ links' \subseteq K!Claims
    BY <1>2, <1>4 DEF K!Mint, Requests, K!Idle, K!VersionIds
  <2> QED
    BY <1>4, <2>1, QuietLinks DEF K!Mint
<1>5. ASSUME NEW s \in LinkStaff, NEW v \in DOMAIN kversions, K!PreviewFind(s, v) PROVE KInv'
  <2> DEFINE q == [at |-> "preview", row |-> kversions[v].page, version |-> v]
  <2>1. q \in [at : {"idle", "preview", "edit"}, row : 0..2, version : K!VersionIds]
    BY <1>1 DEF K!Rows
  <2>2. K!Start(s, q)
    BY <1>5 DEF K!PreviewFind
  <2> HIDE DEF q
  <2> QED
    BY <1>3, <2>1, <2>2
<1>6. ASSUME NEW s \in LinkStaff, NEW v \in DOMAIN kversions, K!View(s, v) PROVE KInv'
  <2> DEFINE q == {K!Link("session", kversions[v].page, v, K!Nobody)}
  <2>1. q \in SUBSET K!Claims
    BY <1>1 DEF K!Link, K!Claims, K!Rows
  <2>2. K!Mint(s, q)
    BY <1>6 DEF K!View
  <2> HIDE DEF q
  <2> QED
    BY <1>4, <2>1, <2>2
<1>7. ASSUME NEW s \in LinkStaff, NEW p \in K!Rows, K!EditFind(s, p) PROVE KInv'
  <2> DEFINE q == [at |-> "edit", row |-> p, version |-> 0]
  <2>1. q \in [at : {"idle", "preview", "edit"}, row : 0..2, version : K!VersionIds]
    BY DEF K!Rows, K!VersionIds
  <2>2. K!Start(s, q)
    BY <1>7 DEF K!EditFind
  <2> HIDE DEF q
  <2> QED
    BY <1>3, <2>1, <2>2
<1>8. ASSUME NEW s \in LinkStaff, K!PreviewToken(s) PROVE KInv'
  <2> DEFINE q == {K!Link("view", p, minting[s].version, K!Nobody) : p \in K!Live}
  <2>1. q \in SUBSET K!Claims
    BY <1>2 DEF K!Link, K!Claims, K!Live, K!Rows, Requests
  <2>2. K!Mint(s, q)
    BY <1>8 DEF K!PreviewToken
  <2> HIDE DEF q
  <2> QED
    BY <1>4, <2>1, <2>2
<1>9. ASSUME NEW s \in LinkStaff, K!EditToken(s) PROVE KInv'
  <2> DEFINE row == minting[s].row
             deck == kpages[row].life = "live" /\ K!IsDeck(K!Newest(row))
             q == IF deck THEN {K!Link("edit", row, K!Newest(row), s)} ELSE {}
  <2>1. ASSUME deck PROVE K!Newest(row) \in K!VersionIds
    <3>1. K!Newest(row) # 0
      BY <2>1 DEF K!IsDeck
    <3>2. K!Newest(row) \in K!Of(row)
      BY <3>1, NewestIsThere
    <3> QED
      BY <1>1, <3>2 DEF K!Of
  <2>2. row \in 0..2
    BY <1>2 DEF Requests
  <2>3. q \in SUBSET K!Claims
    <3> HIDE DEF row, deck
    <3> QED
      BY <2>1, <2>2 DEF K!Link, K!Claims
  <2>4. K!Mint(s, q)
    BY <1>9 DEF K!EditToken
  <2> HIDE DEF q
  <2> QED
    BY <1>4, <2>3, <2>4
<1>10. ASSUME NEW s \in LinkStaff, NEW r \in TemplateRevisions, K!TemplateURLs(s, r) PROVE KInv'
  <2> DEFINE q == {K!Link("template", 0, r, K!Nobody)}
  <2>1. q \in SUBSET K!Claims
    BY DEF K!Link, K!Claims
  <2>2. K!Mint(s, q)
    BY <1>10 DEF K!TemplateURLs
  <2> HIDE DEF q
  <2> QED
    BY <1>4, <2>1, <2>2
<1>11. ASSUME NEW l \in links, K!Expire(l) PROVE KInv'
  <2>1. links' \subseteq K!Claims /\ minting' \in Requests
    BY <1>2, <1>11 DEF K!Expire
  <2> QED
    BY <1>11, <2>1, QuietLinks DEF K!Expire
<1> QED
  BY <1>5, <1>6, <1>7, <1>8, <1>9, <1>10, <1>11

LEMMA LinksKeep == ASSUME MaxSaves \in Nat, KInv, K!LinksNext PROVE KInv'
<1>1. CASE \E p \in K!Rows : K!CreatePage(p) \/ K!DeletePage(p) \/ K!RestorePage(p) \/ K!SetDisabled(p)
  <2>1. UNCHANGED <<kversions, links, minting, editor>> /\ shown' = K!Nothing
    BY <1>1 DEF K!CreatePage, K!DeletePage, K!RestorePage, K!SetDisabled, K!Row
  <2>2. links' \subseteq K!Claims /\ minting' \in Requests
    BY <2>1 DEF KInv
  <2> QED
    BY <2>1, <2>2, QuietLinks
<1>2. CASE \E p \in K!Rows, d \in BOOLEAN : K!Deploy(p, d)
  BY <1>2, DeployKeeps
<1>3. CASE \/ \E s \in LinkStaff, v \in DOMAIN kversions : K!PreviewFind(s, v) \/ K!View(s, v)
           \/ \E s \in LinkStaff, p \in K!Rows : K!EditFind(s, p)
           \/ \E s \in LinkStaff : K!PreviewToken(s) \/ K!EditToken(s)
           \/ \E s \in LinkStaff, r \in TemplateRevisions : K!TemplateURLs(s, r)
           \/ \E l \in links : K!Expire(l)
  BY <1>3, MintKeeps
<1>4. CASE \E l \in links : K!Raw(l) \/ \E r \in TemplateRevisions : K!RawTemplate(l, r)
  BY <1>4, RawKeeps
<1>5. CASE \E s \in LinkStaff, l \in links : K!DeckEditSession(s, l)
  BY <1>5, EditorKeeps
<1>6. CASE \E s \in LinkStaff, x \in K!Contents : K!SaveDeck(s, x)
  BY <1>6, SaveKeeps
<1> QED
  BY <1>1, <1>2, <1>3, <1>4, <1>5, <1>6 DEF K!LinksNext

\* A signed link shows and saves what it was minted for (rawtoken,
\* contentview): it shows the version it names or the newest version of its
\* page, and a deck saved through it was made from the newest of those stored
\* before it, by created_at.
THEOREM LinksAreHeld ==
  ASSUME MaxPages \in Nat, MaxSaves \in Nat PROVE Spec => []LinksHold
<1>1. Init => KInv
  BY LinksStart DEF Init
<1>2. ASSUME KInv, [Next]_vars PROVE KInv'
  <2>1. [K!LinksNext]_kv
    BY <1>2, Parts
  <2>2. CASE UNCHANGED kv
    <3>1. LateFollow' /\ K!SavesSound'
      BY <1>2, <2>2, SameVersions DEF kv
    <3>2. K!Shows'
      BY <1>2, <2>2 DEF kv, KInv, K!Shows, K!Of, K!Newest, K!NewestOf, K!Live
    <3> QED
      BY <1>2, <2>2, <3>1, <3>2 DEF kv, KInv
  <2> QED
    BY <1>2, <2>1, <2>2, LinksKeep
<1>3. KInv => LinksHold
  BY DEF KInv, LinksHold, K!LinksHold
<1> QED
  BY <1>1, <1>2, <1>3, PTL DEF Spec

---------------------------------------------------------------------------
(* Answers.  One row is live under the slug, a pointer and a receipt name   *)
(* versions of their own row, and that does not change: so what is read of  *)
(* the row of a receipt says what the slug serves.                          *)

StagedDocuments == MaxStored \in Nat /\ Staged \in Seq(Texts)

Documents == [page : A!Rows, content : Texts, status : {"draft", "pending", "approved"}]
PageRows == [life : {"none", "live", "deleted"}, disabled : BOOLEAN, gated : BOOLEAN, live : A!VersionIds]

DataOK ==
  /\ aversions \in Seq(Documents) /\ Len(aversions) <= MaxStored
  /\ apages \in [A!Rows -> PageRows]
  /\ \A p, q \in A!Live : p = q
  /\ \A p \in A!Rows : apages[p].live # A!None =>
       apages[p].live \in DOMAIN aversions /\ aversions[apages[p].live].page = p

TellsOK ==
  /\ DOMAIN calls = Agents
  /\ \A c \in Agents :
       /\ calls[c].at = "patch" => calls[c].content \in Texts
       /\ calls[c].at = "tell" => calls[c].result \in A!Results /\ calls[c].publish \in BOOLEAN
  /\ A!PatchesSeen

ReceiptsOK ==
  /\ DOMAIN receipts = A!Files
  /\ \A f \in A!Files : receipts[f] # A!NoReceipt =>
       /\ receipts[f].page \in A!Rows /\ receipts[f].version \in DOMAIN aversions
       /\ aversions[receipts[f].version].page = receipts[f].page

AInv == DataOK /\ TellsOK /\ ReceiptsOK /\ A!AnswersTruthful

\* Versions keep their pages, and none is lost.
Kept == \A v \in DOMAIN aversions : v \in DOMAIN aversions' /\ aversions'[v].page = aversions[v].page

LEMMA AnswersStart == ASSUME StagedDocuments PROVE A!AnswersInit => AInv
<1> SUFFICES ASSUME A!AnswersInit PROVE AInv
  OBVIOUS
<1>1. DataOK
  <2> DEFINE r == [A!NewRow EXCEPT !.life = "none"]
  <2>5. A!NewRow \in PageRows /\ A!NewRow.live = A!None
    BY DEF A!NewRow, A!None, PageRows, A!VersionIds, StagedDocuments
  <2>1. r \in PageRows /\ r.life = "none" /\ r.live = A!None
    BY <2>5 DEF PageRows
  <2>0. apages = [p \in A!Rows |-> r]
    BY DEF A!AnswersInit
  <2> HIDE DEF r
  <2>2. \A p \in A!Rows : apages[p].life = "none" /\ apages[p].live = A!None
    BY <2>0, <2>1
  <2>3. apages \in [A!Rows -> PageRows]
    BY <2>0, <2>1
  <2>4. aversions \in Seq(Documents) /\ Len(aversions) <= MaxStored
    BY DEF A!AnswersInit, StagedDocuments
  <2> QED
    BY <2>2, <2>3, <2>4 DEF DataOK, A!Live
<1>2. TellsOK /\ ReceiptsOK
  BY DEF A!AnswersInit, TellsOK, ReceiptsOK, A!PatchesSeen, A!Idle
<1>3. A!AnswersTruthful
  BY <1>2 DEF A!AnswersInit, A!AnswersTruthful, A!AnswersCurrent, A!ReplaysKeepToTheirPage, A!NoAnswer, TellsOK
<1> QED
  BY <1>1, <1>2, <1>3 DEF AInv

\* A step that answers nothing.
LEMMA SilentKeeps ==
  ASSUME AInv, DataOK', TellsOK', Kept, receipts' = receipts, said' = A!NoAnswer
  PROVE  AInv'
<1>1. ReceiptsOK'
  BY DEF AInv, ReceiptsOK, Kept
<1>2. A!AnswersTruthful'
  BY DEF A!AnswersTruthful, A!AnswersCurrent, A!ReplaysKeepToTheirPage, A!NoAnswer, TellsOK
<1> QED
  BY <1>1, <1>2 DEF AInv

\* The pointer of a page is moved to one of its versions, which is approved.
LEMMA MovedKeeps ==
  ASSUME StagedDocuments, DataOK, NEW v \in DOMAIN aversions, A!Moved(aversions[v].page, v)
  PROVE  DataOK' /\ Kept
<1> DEFINE p == aversions[v].page
<1>1. /\ aversions \in Seq(Documents) /\ Len(aversions) \in Nat /\ v \in 1..Len(aversions)
      /\ Len(aversions) <= MaxStored /\ aversions[v] \in Documents
  BY DEF DataOK
<1>2. p \in A!Rows /\ v \in A!VersionIds
  BY <1>1 DEF Documents, A!VersionIds, StagedDocuments
<1>3. /\ aversions' = [aversions EXCEPT ![v].status = "approved"]
      /\ apages' = [apages EXCEPT ![p].live = v]
  BY DEF A!Moved
<1>4. /\ aversions' \in Seq(Documents) /\ Len(aversions') = Len(aversions) /\ DOMAIN aversions' = DOMAIN aversions
      /\ \A u \in DOMAIN aversions : aversions'[u].page = aversions[u].page
  <2>1. [aversions[v] EXCEPT !.status = "approved"] \in Documents
    BY <1>1 DEF Documents
  <2>2. aversions' = [aversions EXCEPT ![v] = [aversions[v] EXCEPT !.status = "approved"]]
    BY <1>3
  <2>3. aversions' \in Seq(Documents) /\ Len(aversions') = Len(aversions) /\ DOMAIN aversions' = DOMAIN aversions
    BY <1>1, <2>1, <2>2
  <2>4. \A u \in DOMAIN aversions : aversions'[u].page = aversions[u].page
    BY <1>1, <1>3 DEF Documents
  <2> QED
    BY <2>3, <2>4
<1>5. apages' \in [A!Rows -> PageRows]
  BY <1>2, <1>3, ZenonT(120) DEF DataOK, PageRows
<1>6. \A q \in A!Rows : apages'[q].life = apages[q].life /\ apages'[q].live = IF q = p THEN v ELSE apages[q].live
  BY <1>2, <1>3 DEF DataOK, PageRows
<1> HIDE DEF p
<1>7. \A q \in A!Rows : apages'[q].live # A!None =>
        apages'[q].live \in DOMAIN aversions' /\ aversions'[apages'[q].live].page = q
  BY <1>4, <1>6 DEF DataOK, p
<1>8. \A q, r \in A!Live' : q = r
  BY <1>6 DEF DataOK, A!Live
<1> QED
  BY <1>1, <1>4, <1>5, <1>7, <1>8 DEF DataOK, Kept

\* A deploy lands on a version of its row, stored before or now.
LEMMA LandKeeps ==
  ASSUME StagedDocuments, DataOK, NEW p \in A!Rows, NEW x \in Texts, NEW pub, NEW e,
         p \in A!Live \/ A!Creatable(p), A!Land(p, x, pub, e)
  PROVE  /\ DataOK' /\ Kept /\ p \in A!Live'
         /\ A!Landed(p, x) \in DOMAIN aversions' /\ A!Landed(p, x) # A!None
         /\ aversions'[A!Landed(p, x)].page = p
<1> DEFINE v == A!Landed(p, x)
           row == A!Row(p)
           doc == [page |-> p, content |-> x, status |-> IF row.gated THEN "pending" ELSE "draft"]
           stored == IF v \in DOMAIN aversions THEN aversions ELSE Append(aversions, doc)
           goes == A!Goes(p, pub)
<1>1. /\ aversions \in Seq(Documents) /\ Len(aversions) \in Nat /\ DOMAIN aversions = 1..Len(aversions)
      /\ Len(aversions) <= MaxStored /\ apages \in [A!Rows -> PageRows] /\ MaxStored \in Nat
  BY DEF DataOK, StagedDocuments
<1>2. /\ v <= MaxStored
      /\ aversions' = IF goes THEN [stored EXCEPT ![v].status = "approved"] ELSE stored
      /\ apages' = [apages EXCEPT ![p] = IF goes THEN [row EXCEPT !.live = v] ELSE row]
  BY DEF A!Land
<1>3. \/ v = Len(aversions) + 1
      \/ v \in DOMAIN aversions /\ aversions[v].page = p
  <2> DEFINE S == A!Hits(p, x)
  <2>1. S \in SUBSET (1..Len(aversions)) /\ \A u \in S : aversions[u].page = p
    BY <1>1 DEF A!Hits, A!Of
  <2>2. v = IF S = {} THEN Len(aversions) + 1 ELSE A!Max(S)
    BY DEF A!Landed
  <2>3. ASSUME S # {} PROVE A!Max(S) \in S
    <3> HIDE DEF S
    <3>1. \E u \in S : \A w \in S : u >= w
      BY <1>1, <2>1, <2>3, LargestPosition
    <3> QED
      BY <3>1 DEF A!Max
  <2> QED
    BY <1>1, <2>1, <2>2, <2>3
<1>4. doc \in Documents
  BY DEF Documents
<1>5. /\ stored \in Seq(Documents) /\ Len(stored) \in Nat /\ Len(stored) <= MaxStored
      /\ v \in DOMAIN stored /\ v # A!None /\ v \in A!VersionIds /\ stored[v].page = p
      /\ \A u \in DOMAIN aversions : u \in DOMAIN stored /\ stored[u] = aversions[u]
  <2> HIDE DEF v, doc
  <2>1. CASE v \in DOMAIN aversions
    BY <1>1, <1>3, <2>1 DEF A!None, A!VersionIds
  <2>2. CASE v \notin DOMAIN aversions
    <3>1. v = Len(aversions) + 1 /\ stored = Append(aversions, doc)
      BY <1>3, <2>2
    <3>2. doc.page = p
      BY DEF doc
    <3> HIDE DEF stored
    <3>3. /\ stored \in Seq(Documents) /\ Len(stored) = Len(aversions) + 1 /\ stored[v] = doc
          /\ DOMAIN stored = 1..(Len(aversions) + 1)
          /\ \A u \in DOMAIN aversions : stored[u] = aversions[u]
      BY <1>1, <1>4, <3>1
    <3> QED
      BY <1>1, <1>2, <3>1, <3>2, <3>3 DEF A!None, A!VersionIds
  <2> QED
    BY <2>1, <2>2
<1>6. row \in PageRows /\ row.life = "live" /\ (row.live # A!None => p \in A!Live /\ row.live = apages[p].live)
  BY <1>1 DEF A!Row, A!NewRow, PageRows, A!VersionIds, A!None, A!Live
<1> HIDE DEF row, stored, goes, v, doc
<1>7. /\ aversions' \in Seq(Documents) /\ Len(aversions') <= MaxStored /\ v \in DOMAIN aversions'
      /\ \A u \in DOMAIN stored : u \in DOMAIN aversions' /\ aversions'[u].page = stored[u].page
  <2>1. CASE ~goes
    BY <1>2, <1>5, <2>1
  <2>2. CASE goes
    <3>1. stored[v] \in Documents /\ DOMAIN stored = 1..Len(stored)
      BY <1>5
    <3>2. [stored[v] EXCEPT !.status = "approved"] \in Documents
      BY <3>1 DEF Documents
    <3>3. aversions' = [stored EXCEPT ![v] = [stored[v] EXCEPT !.status = "approved"]]
      BY <1>2, <2>2
    <3>4. aversions' \in Seq(Documents) /\ Len(aversions') = Len(stored) /\ DOMAIN aversions' = DOMAIN stored
      BY <1>5, <3>1, <3>2, <3>3
    <3>5. \A u \in DOMAIN stored : aversions'[u].page = stored[u].page
      BY <1>5, <3>1, <3>3 DEF Documents
    <3> QED
      BY <1>5, <3>4, <3>5
  <2> QED
    BY <2>1, <2>2
<1>8. Kept /\ aversions'[v].page = p
  BY <1>5, <1>7 DEF Kept
<1>9. /\ apages' \in [A!Rows -> PageRows] /\ apages'[p].life = "live"
      /\ \A q \in A!Rows : q # p => apages'[q] = apages[q]
      /\ apages'[p].live \in {v, row.live}
  <2>1. [row EXCEPT !.live = v] \in PageRows /\ [row EXCEPT !.live = v].life = "live" /\ [row EXCEPT !.live = v].live = v
    BY <1>5, <1>6 DEF PageRows
  <2> QED
    BY <1>1, <1>2, <1>6, <2>1
<1>10. \A q \in A!Rows : apages'[q].live # A!None =>
         apages'[q].live \in DOMAIN aversions' /\ aversions'[apages'[q].live].page = q
  BY <1>6, <1>7, <1>8, <1>9 DEF DataOK, Kept
<1>11. \A q, r \in A!Live' : q = r
  <2>1. \A q \in A!Live' : q = p
    BY <1>9 DEF DataOK, A!Live, A!Creatable
  <2> QED
    BY <2>1
<1>12. p \in A!Live'
  BY <1>9 DEF A!Live
<1> QED
  BY <1>5, <1>7, <1>8, <1>9, <1>10, <1>11, <1>12 DEF DataOK, v

---------------------------------------------------------------------------
(* The answers themselves: what is read of one row, under one snapshot.     *)

\* A result told of the row that is live under the slug.
LEMMA FreshAnswers ==
  ASSUME DataOK', NEW p \in A!Live', NEW tool, NEW r \in A!Results, NEW pub \in BOOLEAN,
         said' = A!Guidance("fresh", tool, r, pub, apages'[p].disabled, apages'[p].live)
  PROVE  A!AnswersCurrent' /\ A!ReplaysKeepToTheirPage'
<1> DEFINE d == apages'[p].disabled
           live == apages'[p].live
<1>1. /\ d \in BOOLEAN /\ p \in A!Rows /\ r.version # A!None
      /\ r.gated \in BOOLEAN /\ r.approved \in BOOLEAN /\ r.deduped \in BOOLEAN
  BY DEF DataOK, PageRows, A!Live, A!Results
<1>2. A!Serves' = IF ~d /\ live # A!None THEN {live} ELSE {}
  BY <1>1 DEF A!Serves, DataOK
<1>3. /\ said'.kind = "fresh" /\ said'.version = r.version
      /\ said'.versionLive = (~d /\ r.version = live)
      /\ said'.pageLive = (live # A!None /\ ~d)
      /\ said'.next = CASE tool = "data" -> A!DataNext(r, pub, d, live)
                       [] tool = "publish" -> A!PublishNext(r, d, live)
                       [] OTHER -> A!DeployNext(r, d, live)
  BY DEF A!Guidance
<1> HIDE DEF d, live
<1>4. said'.next \in {"share", "no new version"} <=> ~d /\ r.version = live
  <2>1. A!DataNext(r, pub, d, live) \in {"share", "no new version"} <=> ~d /\ r.version = live
    BY <1>1 DEF A!DataNext
  <2>2. A!PublishNext(r, d, live) \in {"share", "no new version"} <=> ~d /\ r.version = live
    BY <1>1 DEF A!PublishNext
  <2>3. A!DeployNext(r, d, live) \in {"share", "no new version"} <=> ~d /\ r.version = live
    BY <1>1 DEF A!DeployNext
  <2> QED
    BY <1>3, <2>1, <2>2, <2>3
<1>5. said'.versionLive <=> said'.version \in A!Serves'
  BY <1>1, <1>2, <1>3
<1>6. said'.pageLive <=> A!Serves' # {}
  BY <1>2, <1>3
<1>7. said'.kind # "replay"
  BY <1>3
<1> QED
  BY <1>3, <1>4, <1>5, <1>6, <1>7 DEF A!AnswersCurrent, A!ReplaysKeepToTheirPage

\* A receipt told of its own row, whoever holds the slug now.
LEMMA ReplayedAnswers ==
  ASSUME DataOK', NEW p \in A!Rows, NEW v \in DOMAIN aversions', aversions'[v].page = p,
         said' = A!Replay(v, apages'[p])
  PROVE  A!AnswersCurrent' /\ A!ReplaysKeepToTheirPage'
<1> DEFINE gone == apages'[p].life # "live"
           d == apages'[p].disabled
           live == IF gone THEN A!None ELSE apages'[p].live
<1>1. d \in BOOLEAN /\ v # A!None
  BY DEF DataOK, PageRows, A!None
<1>2. /\ said'.kind = "replay" /\ said'.version = v /\ said'.live = live
      /\ said'.pageLive = (live # A!None /\ ~d)
      /\ said'.versionLive = ((live # A!None /\ ~d) /\ v = live)
      /\ said'.next = CASE gone -> "page deleted"
                       [] ~gone /\ d -> "disabled"
                       [] (live # A!None /\ ~d) /\ v = live -> "share"
                       [] OTHER -> "read the page"
  BY DEF A!Replay
<1>3. \A u : u \in A!Serves' <=> \E q \in A!Live' : ~apages'[q].disabled /\ u = apages'[q].live /\ u # A!None
  BY DEF A!Serves
<1>4. live # A!None => p \in A!Live' /\ live = apages'[p].live /\ aversions'[live].page = p /\ ~gone
  BY DEF A!Live, DataOK
<1>5. \A q \in A!Live' : apages'[q].live # A!None => aversions'[apages'[q].live].page = q /\ q \in A!Rows
  BY DEF A!Live, DataOK
<1>6. v \in A!Serves' <=> live # A!None /\ ~d /\ v = live
  <2>1. v \in A!Serves' => p \in A!Live' /\ ~d /\ v = apages'[p].live
    BY <1>3, <1>5
  <2> QED
    BY <1>1, <1>3, <1>4, <2>1 DEF A!Live
<1>7. live \in A!Serves' <=> live # A!None /\ ~d
  BY <1>3, <1>4, <1>5
<1> HIDE DEF gone, d, live
<1>8. said'.next \in {"share", "no new version"} <=> live # A!None /\ ~d /\ v = live
  BY <1>1, <1>2, <1>4
<1> QED
  BY <1>2, <1>4, <1>6, <1>7, <1>8 DEF A!AnswersCurrent, A!ReplaysKeepToTheirPage

\* What a call is told about the version it landed on.
LEMMA ResultsOfLand ==
  ASSUME StagedDocuments, DataOK, NEW p \in A!Rows, NEW x \in Texts, NEW pub, NEW e,
         p \in A!Live \/ A!Creatable(p), A!Land(p, x, pub, e)
  PROVE  A!ResultOf(p, x) \in A!Results
<1> DEFINE v == A!Landed(p, x)
<1>1. DataOK' /\ v \in DOMAIN aversions' /\ v # A!None
  BY LandKeeps
<1>2. v \in A!VersionIds
  BY <1>1 DEF DataOK, A!VersionIds, StagedDocuments
<1>3. A!Row(p).gated \in BOOLEAN
  BY DEF A!Row, A!NewRow, DataOK, PageRows
<1> HIDE DEF v
<1>4. [version |-> v, deduped |-> v \in DOMAIN aversions, gated |-> A!Row(p).gated,
       approved |-> aversions'[v].status = "approved"] \in A!Results
  BY <1>1, <1>2, <1>3 DEF A!Results
<1> QED
  BY <1>4 DEF A!ResultOf, v

LEMMA InlineKeeps ==
  ASSUME StagedDocuments, AInv, NEW c \in Agents, NEW tool \in {"deploy", "data"}, NEW x \in Texts,
         NEW pub \in BOOLEAN, NEW e, A!Inline(c, tool, x, pub, e)
  PROVE  AInv'
<1>1. PICK p \in A!Rows :
        /\ p \in A!Live \/ A!Creatable(p)
        /\ A!Land(p, x, pub, e)
        /\ calls' = [calls EXCEPT ![c] = A!Tell(tool, A!ResultOf(p, x), pub, A!None, A!None)]
  BY DEF A!Inline
<1>2. said' = A!NoAnswer /\ receipts' = receipts
  BY DEF A!Inline
<1>3. DataOK /\ TellsOK
  BY DEF AInv
<1>4. DataOK' /\ Kept
  BY <1>1, <1>3, LandKeeps
<1>5. A!ResultOf(p, x) \in A!Results
  BY <1>1, <1>3, ResultsOfLand
<1>6. TellsOK'
  BY <1>1, <1>3, <1>5 DEF TellsOK, A!Tell, A!PatchesSeen
<1> QED
  BY <1>2, <1>4, <1>6, SilentKeeps

LEMMA PatchReadKeeps ==
  ASSUME StagedDocuments, AInv, NEW c \in Agents, NEW v \in DOMAIN aversions, NEW x \in Texts,
         A!PatchRead(c, v, x)
  PROVE  AInv'
<1>1. /\ \E p \in A!Live : calls' = [calls EXCEPT ![c] = [at |-> "patch", pointer |-> apages[p].live, content |-> x]]
      /\ said' = A!NoAnswer /\ UNCHANGED <<apages, aversions, receipts>>
  BY DEF A!PatchRead
<1>2. DataOK' /\ Kept
  BY <1>1 DEF AInv, DataOK, Kept, A!Live
<1>3. TellsOK'
  BY <1>1 DEF AInv, TellsOK, A!PatchesSeen
<1> QED
  BY <1>1, <1>2, <1>3, SilentKeeps

\* The patch is stored only while the pointer is the one its author read.
LEMMA PatchStoreKeeps ==
  ASSUME StagedDocuments, AInv, NEW c \in Agents, A!PatchStore(c)
  PROVE  AInv'
<1> DEFINE x == calls[c].content
           e == calls[c].pointer
<1>1. PICK p \in A!Live :
        /\ A!Land(p, x, TRUE, e)
        /\ calls' = [calls EXCEPT ![c] = A!Tell("patch", A!ResultOf(p, x), TRUE, e, apages[p].live)]
  BY DEF A!PatchStore
<1>2. said' = A!NoAnswer /\ receipts' = receipts /\ x \in Texts
  BY DEF A!PatchStore, AInv, TellsOK
<1>3. DataOK /\ TellsOK /\ p \in A!Rows
  BY DEF AInv, A!Live
<1>4. e # A!None => e = apages[p].live
  BY <1>1, <1>3 DEF A!Land, A!Row, A!Live
<1> HIDE DEF x, e
<1>5. DataOK' /\ Kept
  BY <1>1, <1>2, <1>3, LandKeeps
<1>6. A!ResultOf(p, x) \in A!Results
  BY <1>1, <1>2, <1>3, ResultsOfLand
<1>7. TellsOK'
  BY <1>1, <1>3, <1>4, <1>6 DEF TellsOK, A!Tell, A!PatchesSeen
<1> QED
  BY <1>2, <1>5, <1>7, SilentKeeps

LEMMA PublishKeeps ==
  ASSUME StagedDocuments, AInv, NEW v \in DOMAIN aversions,
         A!Approve(v) \/ \E c \in Agents : A!PublishedResult(c, v)
  PROVE  AInv'
<1>1. DataOK /\ TellsOK
  BY DEF AInv
<1>2. CASE A!Approve(v)
  <2>1. A!Moved(aversions[v].page, v) /\ said' = A!NoAnswer /\ UNCHANGED <<calls, receipts>>
    BY <1>2 DEF A!Approve
  <2>2. TellsOK'
    BY <1>1, <2>1 DEF TellsOK, A!PatchesSeen
  <2> QED
    BY <1>1, <2>1, <2>2, MovedKeeps, SilentKeeps
<1>3. ASSUME NEW c \in Agents, A!PublishedResult(c, v) PROVE AInv'
  <2> DEFINE r == [version |-> v, deduped |-> FALSE, gated |-> FALSE, approved |-> TRUE]
  <2>1. /\ A!Moved(aversions[v].page, v) /\ said' = A!NoAnswer /\ receipts' = receipts
        /\ calls' = [calls EXCEPT ![c] = A!Tell("publish", r, TRUE, A!None, A!None)]
    BY <1>3 DEF A!PublishedResult, A!Of
  <2>2. r \in A!Results
    <3>1. v \in A!VersionIds /\ v # A!None
      BY <1>1 DEF DataOK, A!VersionIds, A!None, StagedDocuments
    <3> QED
      BY <3>1 DEF A!Results
  <2> HIDE DEF r
  <2>3. TellsOK'
    BY <1>1, <2>1, <2>2 DEF TellsOK, A!Tell, A!PatchesSeen
  <2> QED
    BY <1>1, <2>1, <2>3, MovedKeeps, SilentKeeps
<1> QED
  BY <1>2, <1>3

LEMMA StaffKeeps ==
  ASSUME AInv, NEW p \in A!Rows,
         A!DeletePage(p) \/ A!RestorePage(p) \/ A!SetDisabled(p) \/ A!SetApproval(p)
  PROVE  AInv'
<1>1. UNCHANGED <<aversions, calls, receipts>> /\ said' = A!NoAnswer
  BY DEF A!DeletePage, A!RestorePage, A!SetDisabled, A!SetApproval, A!Staff
<1>2. DataOK /\ TellsOK
  BY DEF AInv
<1>3. /\ apages' \in [A!Rows -> PageRows]
      /\ \A q \in A!Rows : apages'[q].live = apages[q].live
      /\ \A q, r \in A!Live' : q = r
  <2> USE <1>2 DEF DataOK, PageRows, A!Staff, A!Live
  <2>1. CASE A!DeletePage(p)
    BY <2>1 DEF A!DeletePage
  <2>2. CASE A!RestorePage(p)
    BY <2>2 DEF A!RestorePage
  <2>3. CASE A!SetDisabled(p)
    <3>1. PICK b \in BOOLEAN : apages' = [apages EXCEPT ![p].disabled = b]
      BY <2>3 DEF A!SetDisabled
    <3> QED
      BY <3>1
  <2>4. CASE A!SetApproval(p)
    <3>1. PICK b \in BOOLEAN : apages' = [apages EXCEPT ![p].gated = b]
      BY <2>4 DEF A!SetApproval
    <3> QED
      BY <3>1
  <2> QED
    BY <2>1, <2>2, <2>3, <2>4
<1>4. DataOK' /\ Kept
  BY <1>1, <1>2, <1>3 DEF DataOK, Kept
<1>5. TellsOK'
  BY <1>1, <1>2 DEF TellsOK, A!PatchesSeen
<1> QED
  BY <1>1, <1>4, <1>5, SilentKeeps

\* The second read of a call is told as it is: of the row that is live now.
LEMMA TellKeeps ==
  ASSUME AInv, NEW c \in Agents, A!CurrentPageState(c) \/ A!Abandon(c)
  PROVE  AInv'
<1>1. /\ UNCHANGED <<apages, aversions, receipts>>
      /\ calls' = [calls EXCEPT ![c] = A!Idle]
  BY DEF A!CurrentPageState, A!Abandon
<1>2. DataOK /\ TellsOK /\ ReceiptsOK
  BY DEF AInv
<1>3. DataOK' /\ Kept /\ ReceiptsOK'
  BY <1>1, <1>2 DEF DataOK, Kept, ReceiptsOK, A!Live
<1>4. TellsOK'
  BY <1>1, <1>2 DEF TellsOK, A!PatchesSeen, A!Idle
<1>5. CASE A!Abandon(c)
  BY <1>1, <1>3, <1>4, <1>5, SilentKeeps DEF A!Abandon
<1>6. CASE A!CurrentPageState(c) /\ A!Live = {}
  <2>1. said' = [kind |-> "error"]
    BY <1>6 DEF A!CurrentPageState
  <2>2. A!AnswersTruthful'
    BY <1>4, <2>1 DEF A!AnswersTruthful, A!AnswersCurrent, A!ReplaysKeepToTheirPage, TellsOK
  <2> QED
    BY <1>3, <1>4, <2>2 DEF AInv
<1>7. CASE A!CurrentPageState(c) /\ A!Live # {}
  <2> DEFINE p == CHOOSE q \in A!Live : TRUE
             r == calls[c].result
  <2>1. said' = A!Guidance("fresh", calls[c].tool, r, calls[c].publish, apages[p].disabled, apages[p].live)
    BY <1>7 DEF A!CurrentPageState
  <2>2. p \in A!Live /\ r \in A!Results /\ calls[c].publish \in BOOLEAN
    BY <1>2, <1>7 DEF A!CurrentPageState, TellsOK
  <2> HIDE DEF p, r
  <2>3. p \in A!Live' /\ apages'[p] = apages[p]
    BY <1>1, <2>2 DEF A!Live
  <2>4. A!AnswersCurrent' /\ A!ReplaysKeepToTheirPage'
    BY <1>3, <2>1, <2>2, <2>3, FreshAnswers
  <2> QED
    BY <1>3, <1>4, <2>4 DEF AInv, A!AnswersTruthful, TellsOK
<1> QED
  BY <1>5, <1>6, <1>7

\* What the upload stored, the receipt and the answer are of one transaction.
LEMMA UploadKeeps ==
  ASSUME StagedDocuments, AInv, NEW f \in A!Files, NEW tool \in {"deploy", "data"}, NEW pub \in BOOLEAN, NEW e,
         A!DeployUpload(f, tool, pub, e)
  PROVE  AInv'
<1> DEFINE x == Staged[f]
<1>1. PICK p \in A!Rows :
        /\ p \in A!Live \/ A!Creatable(p)
        /\ A!Land(p, x, pub, e)
        /\ receipts' = [receipts EXCEPT ![f] =
             [key |-> A!CommitKey(tool, pub, e), version |-> A!Landed(p, x), page |-> p]]
        /\ said' = A!Guidance("fresh", tool, A!ResultOf(p, x), pub, apages'[p].disabled, apages'[p].live)
  BY DEF A!DeployUpload
<1>2. calls' = calls
  BY DEF A!DeployUpload
<1>3. DataOK /\ TellsOK /\ ReceiptsOK /\ x \in Texts
  BY DEF AInv, StagedDocuments, A!Files
<1> HIDE DEF x
<1>4. /\ DataOK' /\ Kept /\ p \in A!Live' /\ A!Landed(p, x) \in DOMAIN aversions'
      /\ aversions'[A!Landed(p, x)].page = p
  BY <1>1, <1>3, LandKeeps
<1>5. A!ResultOf(p, x) \in A!Results
  BY <1>1, <1>3, ResultsOfLand
<1>6. TellsOK'
  BY <1>2, <1>3 DEF TellsOK, A!PatchesSeen
<1>7. ReceiptsOK'
  BY <1>1, <1>3, <1>4 DEF ReceiptsOK, Kept
<1>8. A!AnswersCurrent' /\ A!ReplaysKeepToTheirPage'
  BY <1>1, <1>4, <1>5, FreshAnswers
<1> QED
  BY <1>4, <1>6, <1>7, <1>8 DEF AInv, A!AnswersTruthful, TellsOK

LEMMA ReplayKeeps ==
  ASSUME AInv, NEW f \in A!Files, NEW tool, NEW pub, NEW e, A!ReplayUpload(f, tool, pub, e)
  PROVE  AInv'
<1> DEFINE p == receipts[f].page
           v == receipts[f].version
<1>1. said' = A!Replay(v, apages[p]) /\ receipts[f] # A!NoReceipt /\ UNCHANGED <<apages, aversions, calls, receipts>>
  BY DEF A!ReplayUpload
<1>2. DataOK /\ TellsOK /\ ReceiptsOK
  BY DEF AInv
<1>3. p \in A!Rows /\ v \in DOMAIN aversions' /\ aversions'[v].page = p
  BY <1>1, <1>2 DEF ReceiptsOK
<1>4. DataOK' /\ TellsOK' /\ ReceiptsOK'
  BY <1>1, <1>2 DEF DataOK, TellsOK, ReceiptsOK, A!Live, A!PatchesSeen
<1> HIDE DEF p, v
<1>5. A!AnswersCurrent' /\ A!ReplaysKeepToTheirPage'
  BY <1>1, <1>3, <1>4, ReplayedAnswers
<1> QED
  BY <1>4, <1>5 DEF AInv, A!AnswersTruthful, TellsOK

LEMMA AnswersKeep == ASSUME StagedDocuments, AInv, A!AnswersNext PROVE AInv'
<1>1. CASE \E p \in A!Rows : A!DeletePage(p) \/ A!RestorePage(p) \/ A!SetDisabled(p) \/ A!SetApproval(p)
  BY <1>1, StaffKeeps
<1>2. CASE \E v \in DOMAIN aversions : A!Approve(v)
  BY <1>2, PublishKeeps
<1>3. CASE \E c \in Agents, tool \in {"deploy", "data"}, x \in Texts, pub \in BOOLEAN,
              e \in {A!None} \cup A!Published : A!Inline(c, tool, x, pub, e)
  BY <1>3, InlineKeeps
<1>4. CASE \E c \in Agents, v \in DOMAIN aversions, x \in Texts : A!PatchRead(c, v, x)
  BY <1>4, PatchReadKeeps
<1>5. CASE \E c \in Agents : A!PatchStore(c) \/ A!CurrentPageState(c) \/ A!Abandon(c)
  BY <1>5, PatchStoreKeeps, TellKeeps
<1>6. CASE \E c \in Agents, v \in DOMAIN aversions : A!PublishedResult(c, v)
  BY <1>6, PublishKeeps
<1>7. CASE \E f \in A!Files, tool \in {"deploy", "data"}, pub \in BOOLEAN,
              e \in {A!None} \cup A!Published : A!DeployUpload(f, tool, pub, e)
  BY <1>7, UploadKeeps
<1>8. CASE \E f \in A!Files, tool \in {"deploy", "data"}, pub \in BOOLEAN, e \in A!VersionIds :
              A!ReplayUpload(f, tool, pub, e)
  BY <1>8, ReplayKeeps
<1> QED
  BY <1>1, <1>2, <1>3, <1>4, <1>5, <1>6, <1>7, <1>8 DEF A!AnswersNext

\* A tool tells what the slug serves when it answers, and a retried upload
\* nothing about a page that took the slug over, whatever deployments,
\* publications and takedowns come between the commit of a call and its second
\* read (tools_pages.go: currentPageState; tools_uploads.go: replayPageUpload).
THEOREM AnswersAreTruthful == ASSUME StagedDocuments PROVE Spec => []AnswersTruthful
<1>1. Init => AInv
  BY AnswersStart DEF Init
<1>2. AInv /\ [Next]_vars => AInv'
  <2> SUFFICES ASSUME AInv, [Next]_vars PROVE AInv'
    OBVIOUS
  <2>1. [A!AnswersNext]_av
    BY Parts
  <2>2. CASE UNCHANGED av
    <3>1. UNCHANGED <<apages, aversions, calls, receipts, said>>
      BY <2>2 DEF av
    <3>2. A!Live' = A!Live
      BY <3>1 DEF A!Live
    <3>3. A!Serves' = A!Serves
      BY <3>1, <3>2 DEF A!Serves
    <3>4. DataOK' /\ TellsOK' /\ ReceiptsOK'
      BY <3>1, <3>2 DEF AInv, DataOK, TellsOK, ReceiptsOK, A!PatchesSeen
    <3>5. A!AnswersCurrent'
      BY <3>1, <3>3, Zenon DEF AInv, A!AnswersTruthful, A!AnswersCurrent
    <3>6. A!ReplaysKeepToTheirPage'
      BY <3>1, <3>3, Zenon DEF AInv, A!AnswersTruthful, A!ReplaysKeepToTheirPage
    <3> QED
      BY <3>4, <3>5, <3>6 DEF AInv, A!AnswersTruthful, TellsOK
  <2> QED
    BY <2>1, <2>2, AnswersKeep
<1>3. AInv => AnswersTruthful
  BY DEF AInv, AnswersTruthful
<1> QED
  BY <1>1, <1>2, <1>3, PTL DEF Spec

---------------------------------------------------------------------------
(* Bootstrap.  From the moment it has read the file, a bootstrap carries    *)
(* what the file says and adds only what is missing; the password it gives  *)
(* the role is the one it writes, so between the two steps the file still   *)
(* opens the database whenever it did before.                               *)

OwnOrigin == I!Own \notin Hosts

HostSettings == [secret : Nat, pass : Nat \cup {I!Foreign}, host : Hosts \cup {I!NoHost},
                 origin : Hosts \cup {I!NoHost, I!Own}]
Copying == {"release", "retire", "assets", "link"}
Written == {"chown", "migrate", "unit", "restart", "caddy"}
Configuring == {"role", "database", "write"}

BootTyped ==
  /\ app \in [is : {"absent", "empty", "legacy", "release"}, release : Nat, trusted : BOOLEAN]
  /\ envfile \in [exists : BOOLEAN, group : BOOLEAN, vars : HostSettings]
  /\ pg \in [password : Nat, database : BOOLEAN, schema : BOOLEAN]
  /\ run \in [at : {"stopped", "read"} \cup Copying \cup Configuring \cup Written, vars : HostSettings]
  /\ fresh \in Nat

\* A release is copied where there is none, and stays while it is configured.
AppOK ==
  /\ run.at \in Copying => app.is # "release"
  /\ run.at \in {"read"} \cup Configuring \cup Written => app.is = "release"

\* What a run carries: the secret and the origin the file had, ...
CarriedOK ==
  run.at \in Configuring =>
    /\ run.vars.secret # 0
    /\ envfile.vars.secret # 0 => run.vars.secret = envfile.vars.secret
    /\ run.vars.origin \in {I!Own, run.vars.host}
    /\ envfile.vars.origin = I!Own => run.vars.origin = I!Own

\* ... its password, which the role is given before the file is written.
PasswordOK ==
  /\ run.at = "role" => run.vars.pass = envfile.vars.pass
  /\ run.at \in {"database", "write"} =>
       /\ run.vars.pass \notin {0, I!Foreign} /\ pg.password = run.vars.pass
       /\ envfile.vars.pass \notin {0, I!Foreign} => run.vars.pass = envfile.vars.pass

WrittenOK ==
  run.at \in Written =>
    /\ envfile.vars = run.vars /\ run.vars.secret # 0
    /\ run.vars.pass \notin {0, I!Foreign} /\ run.vars.origin \in {I!Own, run.vars.host}

\* A finished bootstrap left a password that can be used again.
SettledOK ==
  /\ run.at \in {"restart", "caddy"} => unit
  /\ envfile.vars.origin \in {I!Own, I!NoHost, envfile.vars.host}
  /\ settled => envfile.vars.pass \notin {0, I!Foreign}
  /\ I!Rebootable

BootInv == BootTyped /\ AppOK /\ CarriedOK /\ PasswordOK /\ WrittenOK /\ SettledOK

LEMMA BootStart == I!BootInit => BootInv
<1> SUFFICES ASSUME I!BootInit PROVE BootInv
  OBVIOUS
<1>1. run = [at |-> "stopped", vars |-> I!NoVars] /\ settled = FALSE
  BY DEF I!BootInit, I!Stopped
<1>2. I!NoVars \in HostSettings
  BY DEF I!NoVars, HostSettings
<1>3. /\ envfile \in [exists : BOOLEAN, group : BOOLEAN, vars : HostSettings]
      /\ envfile.vars.origin \in {I!NoHost, envfile.vars.host}
      /\ app \in [is : {"absent", "empty", "legacy", "release"}, release : Nat, trusted : BOOLEAN]
      /\ pg \in [password : Nat, database : BOOLEAN, schema : BOOLEAN]
      /\ fresh \in Nat
  <2>1. CASE /\ app \in {I!NoApp("absent"), I!NoApp("empty")} /\ envfile = I!NoEnv
             /\ pg = [password |-> 0, database |-> FALSE, schema |-> FALSE] /\ fresh = 0
    <3>1. I!NoVars.origin = I!NoHost
      BY DEF I!NoVars
    <3>2. I!NoEnv \in [exists : BOOLEAN, group : BOOLEAN, vars : HostSettings] /\ I!NoEnv.vars = I!NoVars
      BY <1>2 DEF I!NoEnv
    <3>3. /\ I!NoApp("absent") \in [is : {"absent", "empty", "legacy", "release"}, release : Nat, trusted : BOOLEAN]
          /\ I!NoApp("empty") \in [is : {"absent", "empty", "legacy", "release"}, release : Nat, trusted : BOOLEAN]
      BY DEF I!NoApp
    <3>4. [password |-> 0, database |-> FALSE, schema |-> FALSE] \in [password : Nat, database : BOOLEAN, schema : BOOLEAN]
      OBVIOUS
    <3> QED
      BY <2>1, <3>1, <3>2, <3>3, <3>4
  <2>2. CASE /\ app = I!NoApp("legacy") /\ fresh = 2
             /\ \E h \in Hosts : envfile = [exists |-> TRUE, group |-> TRUE,
                                         vars |-> [secret |-> 1, pass |-> 2, host |-> h, origin |-> h]]
             /\ pg = [password |-> 2, database |-> TRUE, schema |-> TRUE]
    BY <2>2 DEF I!NoApp, HostSettings
  <2> QED
    BY <2>1, <2>2 DEF I!BootInit
<1>4. BootTyped
  BY <1>1, <1>2, <1>3 DEF BootTyped
<1> QED
  BY <1>1, <1>3, <1>4 DEF BootInv, AppOK, CarriedOK, PasswordOK, WrittenOK, SettledOK, I!Rebootable,
                          Copying, Configuring, Written

\* One step of the installation, of the box or of its operator.
LEMMA BootKeeps ==
  ASSUME OwnOrigin, BootInv, I!BootNext
  PROVE  BootInv' /\ I!Preserves
<1> USE DEF BootInv, I!At, I!Then, I!Step, I!Counted, I!Made
<1>1. ASSUME I!Begin PROVE BootInv' /\ I!Preserves
  <2>1. BootTyped'
    BY <1>1 DEF I!Begin, BootTyped, HostSettings, Copying, Configuring, Written
  <2>2. AppOK' /\ CarriedOK' /\ PasswordOK' /\ WrittenOK' /\ SettledOK' /\ I!Preserves
    BY <1>1 DEF I!Begin, BootTyped, HostSettings, AppOK, CarriedOK, PasswordOK, WrittenOK, SettledOK,
                  I!Rebootable, I!CanStart, I!Preserves, Copying, Configuring, Written
  <2> QED
    BY <2>1, <2>2
<1>2. ASSUME I!CopyRelease PROVE BootInv' /\ I!Preserves
  <2>1. BootTyped'
    BY <1>2 DEF I!CopyRelease, BootTyped, HostSettings, Copying, Configuring, Written
  <2>2. AppOK' /\ CarriedOK' /\ PasswordOK' /\ WrittenOK' /\ SettledOK' /\ I!Preserves
    BY <1>2 DEF I!CopyRelease, BootTyped, HostSettings, AppOK, CarriedOK, PasswordOK, WrittenOK, SettledOK,
                  I!Rebootable, I!CanStart, I!Preserves, Copying, Configuring, Written
  <2> QED
    BY <2>1, <2>2
<1>3. ASSUME I!Retire PROVE BootInv' /\ I!Preserves
  <2>1. BootTyped'
    BY <1>3 DEF I!Retire, BootTyped, HostSettings, Copying, Configuring, Written
  <2>2. AppOK' /\ CarriedOK' /\ PasswordOK' /\ WrittenOK' /\ SettledOK' /\ I!Preserves
    BY <1>3 DEF I!Retire, BootTyped, HostSettings, AppOK, CarriedOK, PasswordOK, WrittenOK, SettledOK,
                  I!Rebootable, I!CanStart, I!Preserves, Copying, Configuring, Written
  <2> QED
    BY <2>1, <2>2
<1>4. ASSUME I!MoveAssets PROVE BootInv' /\ I!Preserves
  <2>1. BootTyped'
    BY <1>4 DEF I!MoveAssets, BootTyped, HostSettings, Copying, Configuring, Written
  <2>2. AppOK' /\ CarriedOK' /\ PasswordOK' /\ WrittenOK' /\ SettledOK' /\ I!Preserves
    BY <1>4 DEF I!MoveAssets, BootTyped, HostSettings, AppOK, CarriedOK, PasswordOK, WrittenOK, SettledOK,
                  I!Rebootable, I!CanStart, I!Preserves, Copying, Configuring, Written
  <2> QED
    BY <2>1, <2>2
<1>5. ASSUME I!LinkRelease PROVE BootInv' /\ I!Preserves
  <2>1. BootTyped'
    BY <1>5 DEF I!LinkRelease, BootTyped, HostSettings, Copying, Configuring, Written
  <2>2. AppOK' /\ CarriedOK' /\ PasswordOK' /\ WrittenOK' /\ SettledOK' /\ I!Preserves
    BY <1>5 DEF I!LinkRelease, BootTyped, HostSettings, AppOK, CarriedOK, PasswordOK, WrittenOK, SettledOK,
                  I!Rebootable, I!CanStart, I!Preserves, Copying, Configuring, Written
  <2> QED
    BY <2>1, <2>2
<1>6. ASSUME I!SetRolePassword PROVE BootInv' /\ I!Preserves
  <2>1. BootTyped'
    BY <1>6 DEF I!SetRolePassword, BootTyped, HostSettings, Copying, Configuring, Written
  <2> DEFINE pass == I!Made(run.vars.pass)
  <2>2. /\ run.at = "role" /\ run'.at = "database" /\ UNCHANGED <<app, envfile, unit, settled>>
        /\ run' = [at |-> "database", vars |-> [run.vars EXCEPT !.pass = pass]]
        /\ pg' = [pg EXCEPT !.password = pass]
    BY <1>6 DEF I!SetRolePassword
  <2>3. /\ pass \notin {0, I!Foreign} /\ run.vars.pass = envfile.vars.pass
        /\ envfile.vars.pass \notin {0, I!Foreign} => pass = envfile.vars.pass
    BY <1>6, <2>2 DEF BootTyped, HostSettings, PasswordOK, I!Foreign, I!SetRolePassword
  <2> HIDE DEF pass
  <2>4. /\ run'.vars.pass = pass /\ run'.vars.secret = run.vars.secret /\ run'.vars.host = run.vars.host
        /\ run'.vars.origin = run.vars.origin /\ pg'.password = pass
        /\ pg'.database = pg.database /\ pg'.schema = pg.schema
    BY <2>2 DEF BootTyped, HostSettings
  <2>5. AppOK' /\ CarriedOK' /\ PasswordOK' /\ WrittenOK'
    BY <2>2, <2>3, <2>4 DEF AppOK, CarriedOK, PasswordOK, WrittenOK, Copying, Configuring, Written
  <2>6. SettledOK' /\ I!Preserves
    BY <2>2, <2>3, <2>4 DEF SettledOK, I!Rebootable, I!CanStart, I!Preserves
  <2> QED
    BY <2>1, <2>5, <2>6
<1>7. ASSUME I!CreateDatabase PROVE BootInv' /\ I!Preserves
  <2>1. BootTyped'
    BY <1>7 DEF I!CreateDatabase, BootTyped, HostSettings, Copying, Configuring, Written
  <2>2. AppOK' /\ CarriedOK' /\ PasswordOK' /\ WrittenOK' /\ SettledOK' /\ I!Preserves
    BY <1>7 DEF I!CreateDatabase, BootTyped, HostSettings, AppOK, CarriedOK, PasswordOK, WrittenOK, SettledOK,
                  I!Rebootable, I!CanStart, I!Preserves, Copying, Configuring, Written
  <2> QED
    BY <2>1, <2>2
<1>8. ASSUME I!WriteEnv PROVE BootInv' /\ I!Preserves
  <2>1. BootTyped'
    BY <1>8 DEF I!WriteEnv, BootTyped, HostSettings, Copying, Configuring, Written
  <2>2. AppOK' /\ CarriedOK' /\ PasswordOK' /\ WrittenOK' /\ SettledOK' /\ I!Preserves
    BY <1>8 DEF I!WriteEnv, BootTyped, HostSettings, AppOK, CarriedOK, PasswordOK, WrittenOK, SettledOK,
                  I!Rebootable, I!CanStart, I!Preserves, Copying, Configuring, Written
  <2> QED
    BY <2>1, <2>2
<1>9. ASSUME I!ChownEnv PROVE BootInv' /\ I!Preserves
  <2>1. BootTyped'
    BY <1>9 DEF I!ChownEnv, BootTyped, HostSettings, Copying, Configuring, Written
  <2>2. AppOK' /\ CarriedOK' /\ PasswordOK' /\ WrittenOK' /\ SettledOK' /\ I!Preserves
    BY <1>9 DEF I!ChownEnv, BootTyped, HostSettings, AppOK, CarriedOK, PasswordOK, WrittenOK, SettledOK,
                  I!Rebootable, I!CanStart, I!Preserves, Copying, Configuring, Written
  <2> QED
    BY <2>1, <2>2
<1>10. ASSUME I!Migrate PROVE BootInv' /\ I!Preserves
  <2>1. BootTyped'
    BY <1>10 DEF I!Migrate, BootTyped, HostSettings, Copying, Configuring, Written
  <2>2. AppOK' /\ CarriedOK' /\ PasswordOK' /\ WrittenOK' /\ SettledOK' /\ I!Preserves
    BY <1>10 DEF I!Migrate, BootTyped, HostSettings, AppOK, CarriedOK, PasswordOK, WrittenOK, SettledOK,
                  I!Rebootable, I!CanStart, I!Preserves, Copying, Configuring, Written
  <2> QED
    BY <2>1, <2>2
<1>11. ASSUME I!EnableUnit PROVE BootInv' /\ I!Preserves
  <2>1. BootTyped'
    BY <1>11 DEF I!EnableUnit, BootTyped, HostSettings, Copying, Configuring, Written
  <2>2. AppOK' /\ CarriedOK' /\ PasswordOK' /\ WrittenOK' /\ SettledOK' /\ I!Preserves
    BY <1>11 DEF I!EnableUnit, BootTyped, HostSettings, AppOK, CarriedOK, PasswordOK, WrittenOK, SettledOK,
                  I!Rebootable, I!CanStart, I!Preserves, Copying, Configuring, Written
  <2> QED
    BY <2>1, <2>2
<1>12. ASSUME I!Restart PROVE BootInv' /\ I!Preserves
  <2>1. BootTyped'
    BY <1>12 DEF I!Restart, I!Stopped, I!NoVars, BootTyped, HostSettings, Copying, Configuring, Written
  <2>2. AppOK' /\ CarriedOK' /\ PasswordOK' /\ WrittenOK' /\ SettledOK' /\ I!Preserves
    BY <1>12 DEF I!Restart, I!Stopped, I!NoVars, BootTyped, HostSettings, AppOK, CarriedOK, PasswordOK, WrittenOK, SettledOK,
                  I!Rebootable, I!CanStart, I!Preserves, Copying, Configuring, Written
  <2> QED
    BY <2>1, <2>2
<1>13. ASSUME I!Caddy PROVE BootInv' /\ I!Preserves
  <2>1. BootTyped'
    BY <1>13 DEF I!Caddy, I!Stopped, I!NoVars, BootTyped, HostSettings, Copying, Configuring, Written
  <2>2. AppOK' /\ CarriedOK' /\ PasswordOK' /\ WrittenOK' /\ SettledOK' /\ I!Preserves
    BY <1>13 DEF I!Caddy, I!Stopped, I!NoVars, BootTyped, HostSettings, AppOK, CarriedOK, PasswordOK, WrittenOK, SettledOK,
                  I!Rebootable, I!CanStart, I!Preserves, Copying, Configuring, Written
  <2> QED
    BY <2>1, <2>2
<1>14. ASSUME I!Die PROVE BootInv' /\ I!Preserves
  <2>1. BootTyped'
    BY <1>14 DEF I!Die, I!Stopped, I!NoVars, BootTyped, HostSettings, Copying, Configuring, Written
  <2>2. AppOK' /\ CarriedOK' /\ PasswordOK' /\ WrittenOK' /\ SettledOK' /\ I!Preserves
    BY <1>14 DEF I!Die, I!Stopped, I!NoVars, BootTyped, HostSettings, AppOK, CarriedOK, PasswordOK, WrittenOK, SettledOK,
                  I!Rebootable, I!CanStart, I!Preserves, Copying, Configuring, Written
  <2> QED
    BY <2>1, <2>2
<1>15. ASSUME I!Reboot PROVE BootInv' /\ I!Preserves
  <2>1. BootTyped'
    BY <1>15 DEF I!Reboot, I!Stopped, I!NoVars, BootTyped, HostSettings, Copying, Configuring, Written
  <2>2. AppOK' /\ CarriedOK' /\ PasswordOK' /\ WrittenOK' /\ SettledOK' /\ I!Preserves
    BY <1>15 DEF I!Reboot, I!Stopped, I!NoVars, BootTyped, HostSettings, AppOK, CarriedOK, PasswordOK, WrittenOK, SettledOK,
                  I!Rebootable, I!CanStart, I!Preserves, Copying, Configuring, Written
  <2> QED
    BY <2>1, <2>2
<1>16. ASSUME I!ChooseOrigin PROVE BootInv' /\ I!Preserves
  <2>1. BootTyped'
    BY <1>16 DEF I!ChooseOrigin, I!EditEnv, BootTyped, HostSettings, Copying, Configuring, Written
  <2>2. AppOK' /\ CarriedOK' /\ PasswordOK' /\ WrittenOK' /\ SettledOK' /\ I!Preserves
    BY <1>16 DEF I!ChooseOrigin, I!EditEnv, BootTyped, HostSettings, AppOK, CarriedOK, PasswordOK, WrittenOK, SettledOK,
                  I!Rebootable, I!CanStart, I!Preserves, Copying, Configuring, Written
  <2> QED
    BY <2>1, <2>2
<1>17. ASSUME I!BlankSecret PROVE BootInv' /\ I!Preserves
  <2>1. BootTyped'
    BY <1>17 DEF I!BlankSecret, I!EditEnv, BootTyped, HostSettings, Copying, Configuring, Written
  <2>2. AppOK' /\ CarriedOK' /\ PasswordOK' /\ WrittenOK' /\ SettledOK' /\ I!Preserves
    BY <1>17 DEF I!BlankSecret, I!EditEnv, BootTyped, HostSettings, AppOK, CarriedOK, PasswordOK, WrittenOK, SettledOK,
                  I!Rebootable, I!CanStart, I!Preserves, Copying, Configuring, Written
  <2> QED
    BY <2>1, <2>2
<1>18. ASSUME I!UpdateRelease PROVE BootInv' /\ I!Preserves
  <2>1. BootTyped'
    BY <1>18 DEF I!UpdateRelease, BootTyped, HostSettings, Copying, Configuring, Written
  <2>2. AppOK' /\ CarriedOK' /\ PasswordOK' /\ WrittenOK' /\ SettledOK' /\ I!Preserves
    BY <1>18 DEF I!UpdateRelease, BootTyped, HostSettings, AppOK, CarriedOK, PasswordOK, WrittenOK, SettledOK,
                  I!Rebootable, I!CanStart, I!Preserves, Copying, Configuring, Written
  <2> QED
    BY <2>1, <2>2
<1>19. ASSUME I!Distrust PROVE BootInv' /\ I!Preserves
  <2>1. BootTyped'
    BY <1>19, ZenonT(120) DEF I!Distrust, BootTyped, HostSettings, Copying, Configuring, Written
  <2>2. AppOK' /\ CarriedOK' /\ PasswordOK' /\ WrittenOK' /\ SettledOK' /\ I!Preserves
    BY <1>19 DEF I!Distrust, BootTyped, HostSettings, AppOK, CarriedOK, PasswordOK, WrittenOK, SettledOK,
                  I!Rebootable, I!CanStart, I!Preserves, Copying, Configuring, Written
  <2> QED
    BY <2>1, <2>2
<1>20. ASSUME I!RemoveLink PROVE BootInv' /\ I!Preserves
  <2>1. BootTyped'
    BY <1>20 DEF I!RemoveLink, BootTyped, HostSettings, Copying, Configuring, Written
  <2>2. AppOK' /\ CarriedOK' /\ PasswordOK' /\ WrittenOK' /\ SettledOK' /\ I!Preserves
    BY <1>20 DEF I!RemoveLink, BootTyped, HostSettings, AppOK, CarriedOK, PasswordOK, WrittenOK, SettledOK,
                  I!Rebootable, I!CanStart, I!Preserves, Copying, Configuring, Written
  <2> QED
    BY <2>1, <2>2
<1>21. ASSUME NEW h \in Hosts, I!ReadSettings(h) PROVE BootInv' /\ I!Preserves
  <2>1. BootTyped'
    BY <1>21 DEF I!ReadSettings, I!Origin, BootTyped, HostSettings, Copying, Configuring, Written
  <2>2. /\ run.at = "read" /\ run'.at = "role" /\ UNCHANGED <<app, envfile, pg, unit, settled>>
        /\ run'.vars.pass = envfile.vars.pass /\ run'.vars.host = h
        /\ run'.vars.secret = I!Made(envfile.vars.secret) /\ run'.vars.origin = I!Origin(envfile.vars, h)
    BY <1>21 DEF I!ReadSettings
  <2>3. /\ I!Made(envfile.vars.secret) # 0
        /\ envfile.vars.secret # 0 => I!Made(envfile.vars.secret) = envfile.vars.secret
    BY DEF BootTyped
  <2>4. /\ I!Origin(envfile.vars, h) \in {I!Own, h}
        /\ envfile.vars.origin = I!Own => I!Origin(envfile.vars, h) = I!Own
    <3>1. envfile.vars.host # I!Own /\ I!NoHost # I!Own
      BY DEF OwnOrigin, BootTyped, HostSettings, I!Own, I!NoHost
    <3> QED
      BY <3>1 DEF I!Origin, SettledOK
  <2>5. AppOK' /\ CarriedOK' /\ PasswordOK' /\ WrittenOK'
    <3> HIDE DEF I!Made
    <3> QED
      BY <2>2, <2>3, <2>4 DEF AppOK, CarriedOK, PasswordOK, WrittenOK, Copying, Configuring, Written
  <2>6. SettledOK' /\ I!Preserves
    BY <2>2 DEF SettledOK, I!Rebootable, I!CanStart, I!Preserves
  <2> QED
    BY <2>1, <2>5, <2>6
<1>22. ASSUME NEW x \in {0, I!Foreign}, I!ChangeUrl(x) PROVE BootInv' /\ I!Preserves
  <2>1. BootTyped'
    BY <1>22 DEF I!ChangeUrl, I!EditEnv, BootTyped, HostSettings, Copying, Configuring, Written
  <2>2. AppOK' /\ CarriedOK' /\ PasswordOK' /\ WrittenOK' /\ SettledOK' /\ I!Preserves
    BY <1>22 DEF I!ChangeUrl, I!EditEnv, BootTyped, HostSettings, AppOK, CarriedOK, PasswordOK, WrittenOK, SettledOK,
                  I!Rebootable, I!CanStart, I!Preserves, Copying, Configuring, Written
  <2> QED
    BY <2>1, <2>2
<1> QED
  BY <1>1, <1>2, <1>3, <1>4, <1>5, <1>6, <1>7, <1>8, <1>9, <1>10, <1>11, <1>12, <1>13, <1>14, <1>15, <1>16, <1>17, <1>18, <1>19, <1>20, <1>21, <1>22 DEF I!BootNext

\* A bootstrap that is run again keeps what the one before it made, whatever
\* failed or died in between; once one has finished the box comes back after a
\* reboot at every later point (bootstrap.go:20).
THEOREM InstallsKeep ==
  ASSUME OwnOrigin PROVE Spec => InstallKeeps
<1>1. Init => BootInv
  BY BootStart DEF Init
<1>2. ASSUME BootInv, [Next]_vars PROVE BootInv' /\ [I!Preserves]_(I!bootVars)
  <2>1. [I!BootNext]_iv
    BY <1>2, Parts
  <2>2. CASE I!BootNext
    BY <1>2, <2>2, BootKeeps
  <2>3. CASE UNCHANGED iv
    BY <1>2, <2>3 DEF iv, I!bootVars, BootInv, BootTyped, AppOK, CarriedOK, PasswordOK, WrittenOK, SettledOK,
                      I!Rebootable, I!CanStart
  <2> QED
    BY <2>1, <2>2, <2>3
<1>3. BootInv /\ [Next]_vars => BootInv' /\ [I!Preserves]_(I!bootVars)
  BY <1>2
<1>4. BootInv => I!Rebootable
  BY DEF BootInv, SettledOK
<1> QED
  BY <1>1, <1>3, <1>4, PTL DEF Spec, InstallKeeps, I!InstallKeeps

---------------------------------------------------------------------------
(* The tool calls.  Each group of the catalog and each group of handlers   *)
(* is read once; what the endpoint does with a message is then a           *)
(* beginning of one handler's calls, or nothing.                           *)

\* The tools that say they only read, and the calls that change nothing.
ToolsThatRead ==
  {"list_pages", "get_page", "get_page_data", "get_page_refresh", "list_refresh_health",
   "prepare_dashboard_update", "find_in_version", "preflight_page", "get_version", "list_versions",
   "list_workspaces", "list_themes", "get_guide", "list_templates", "get_template",
   "list_template_revisions", "validate_template", "template_urls", "list_template_pages",
   "get_page_config", "configure_page_refresh", "page_urls"}

CallsThatRead ==
  {"ListPages", "ListVersions", "GetPage", "ListRefreshHealth", "GetVersion", "ListThemes", "Guide",
   "GetPageData", "RefreshHealthFor", "GetPageConfig", "PageTemplateBinding", "ListWorkspaces", "Prepare",
   "ListTemplates", "GetTemplate", "Revisions", "ListTemplatePages", "Peek", "ValidateHTML",
   "GetRevisionHTML", "MintRawToken"}

LEMMA CatalogReads ==
  \A t \in API!MCP!Catalog : t.readOnly => t.tool \in ToolsThatRead
<1> DEFINE Named(tools) == \A t \in tools : t.readOnly => t.tool \in ToolsThatRead
<1>1. Named(API!MCP!CatalogPages)
  BY DEF API!MCP!CatalogPages, API!MCP!Reads, API!MCP!Changes, ToolsThatRead
<1>2. Named(API!MCP!CatalogRefresh)
  BY DEF API!MCP!CatalogRefresh, API!MCP!Reads, API!MCP!Changes, ToolsThatRead
<1>3. Named(API!MCP!CatalogVersions)
  BY DEF API!MCP!CatalogVersions, API!MCP!Reads, API!MCP!Changes, ToolsThatRead
<1>4. Named(API!MCP!CatalogWorkspaces)
  BY DEF API!MCP!CatalogWorkspaces, API!MCP!Reads, API!MCP!Changes, ToolsThatRead
<1>5. Named(API!MCP!CatalogUploads)
  BY DEF API!MCP!CatalogUploads, API!MCP!Reads, API!MCP!Changes, ToolsThatRead
<1>6. Named(API!MCP!CatalogTemplates)
  BY DEF API!MCP!CatalogTemplates, API!MCP!Reads, API!MCP!Changes, ToolsThatRead
<1>7. Named(API!MCP!CatalogBuilds)
  BY DEF API!MCP!CatalogBuilds, API!MCP!Reads, API!MCP!Changes, ToolsThatRead
<1>8. Named(API!MCP!CatalogWrites)
  BY DEF API!MCP!CatalogWrites, API!MCP!Reads, API!MCP!Changes, ToolsThatRead
<1>9. Named(API!MCP!CatalogServing)
  BY DEF API!MCP!CatalogServing, API!MCP!Reads, API!MCP!Changes, ToolsThatRead
<1> QED
  BY <1>1, <1>2, <1>3, <1>4, <1>5, <1>6, <1>7, <1>8, <1>9 DEF API!MCP!Catalog

\* A handler makes at most one call that changes something, a tool that reads
\* none, and what a data token may use changes data only.
ShapeOf(r) ==
  /\ Len(r.calls) \in Nat /\ DOMAIN r.calls = 1..Len(r.calls)
  /\ \A i, j \in DOMAIN r.calls : r.calls[i] \notin CallsThatRead /\ r.calls[j] \notin CallsThatRead => i = j
  /\ r.tool \in ToolsThatRead => \A i \in DOMAIN r.calls : r.calls[i] \in CallsThatRead
  /\ r.tool \in API!MCP!DataUpdateTools =>
       \A i \in DOMAIN r.calls : r.calls[i] \in CallsThatRead \cup {"UpdatePageData", "RecordRefreshCheck"}

LEMMA RunsHaveShape ==
  ASSUME NEW args PROVE \A r \in API!MCP!Runs(args) : ShapeOf(r)
<1>1. \A r \in API!MCP!RunsPages(args) : ShapeOf(r)
  BY DEF ShapeOf, API!MCP!RunsPages, API!MCP!Calls, API!MCP!DataUpdateTools, CallsThatRead, ToolsThatRead
<1>2. \A r \in API!MCP!RunsVersions(args) : ShapeOf(r)
  BY DEF ShapeOf, API!MCP!RunsVersions, API!MCP!Calls, API!MCP!DataUpdateTools, CallsThatRead, ToolsThatRead, API!MCP!PublishedOrGiven
<1>3. \A r \in API!MCP!RunsDeploys(args) : ShapeOf(r)
  BY DEF ShapeOf, API!MCP!RunsDeploys, API!MCP!Calls, API!MCP!DataUpdateTools, CallsThatRead, ToolsThatRead
<1>4. \A r \in API!MCP!RunsPublish(args) : ShapeOf(r)
  BY DEF ShapeOf, API!MCP!RunsPublish, API!MCP!Calls, API!MCP!DataUpdateTools, CallsThatRead, ToolsThatRead
<1>5. \A r \in API!MCP!RunsPatch(args) : ShapeOf(r)
  BY DEF ShapeOf, API!MCP!RunsPatch, API!MCP!Calls, API!MCP!DataUpdateTools, CallsThatRead, ToolsThatRead
<1>6. \A r \in API!MCP!RunsSettings(args) : ShapeOf(r)
  BY DEF ShapeOf, API!MCP!RunsSettings, API!MCP!Calls, API!MCP!DataUpdateTools, CallsThatRead, ToolsThatRead
<1>7. \A r \in API!MCP!RunsData(args) : ShapeOf(r)
  BY DEF ShapeOf, API!MCP!RunsData, API!MCP!Calls, API!MCP!DataUpdateTools, CallsThatRead, ToolsThatRead
<1>8. \A r \in API!MCP!RunsDataWrites(args) : ShapeOf(r)
  BY DEF ShapeOf, API!MCP!RunsDataWrites, API!MCP!Calls, API!MCP!DataUpdateTools, CallsThatRead, ToolsThatRead
<1>9. \A r \in API!MCP!RunsWorkspaces(args) : ShapeOf(r)
  BY DEF ShapeOf, API!MCP!RunsWorkspaces, API!MCP!Calls, API!MCP!DataUpdateTools, CallsThatRead, ToolsThatRead
<1>10. \A r \in API!MCP!RunsPrompts(args) : ShapeOf(r)
  BY DEF ShapeOf, API!MCP!RunsPrompts, API!MCP!Calls, API!MCP!DataUpdateTools, CallsThatRead, ToolsThatRead
<1>11. \A r \in API!MCP!RunsTemplates(args) : ShapeOf(r)
  BY DEF ShapeOf, API!MCP!RunsTemplates, API!MCP!Calls, API!MCP!DataUpdateTools, CallsThatRead, ToolsThatRead
<1>12. \A r \in API!MCP!RunsValidation(args) : ShapeOf(r)
  BY DEF ShapeOf, API!MCP!RunsValidation, API!MCP!Calls, API!MCP!DataUpdateTools, CallsThatRead, ToolsThatRead
<1>13. \A r \in API!MCP!RunsBuilds(args) : ShapeOf(r)
  BY DEF ShapeOf, API!MCP!RunsBuilds, API!MCP!Calls, API!MCP!DataUpdateTools, CallsThatRead, ToolsThatRead
<1>14. \A r \in API!MCP!RunsUploads(args) : ShapeOf(r)
  BY DEF ShapeOf, API!MCP!RunsUploads, API!MCP!Calls, API!MCP!DataUpdateTools, CallsThatRead, ToolsThatRead
<1>15. \A r \in API!MCP!RunsConsumers(args) : ShapeOf(r)
  BY DEF ShapeOf, API!MCP!RunsConsumers, API!MCP!Calls, API!MCP!DataUpdateTools, CallsThatRead, ToolsThatRead
<1> QED
  BY <1>1, <1>2, <1>3, <1>4, <1>5, <1>6, <1>7, <1>8, <1>9, <1>10, <1>11, <1>12, <1>13, <1>14, <1>15 DEF API!MCP!Runs

LEMMA ReadsDoNotWrite == CallsThatRead \cap API!MCP!WritesOfTools = {}
BY DEF CallsThatRead, API!MCP!WritesOfTools

ToolNames ==
  {"list_pages", "get_page", "get_page_data", "get_page_refresh", "record_refresh_check",
   "set_page_refresh_schedule", "list_refresh_health", "prepare_dashboard_update",
   "find_in_version", "patch_page", "preflight_page", "get_version", "list_versions",
   "list_workspaces", "create_workspace", "rename_workspace", "set_page_workspace", "list_themes",
   "get_guide", "create_upload_ticket", "start_page_upload", "append_page_upload",
   "cancel_page_upload", "list_templates", "get_template", "list_template_revisions",
   "create_template_from_page", "validate_template", "delete_template", "template_urls",
   "list_template_pages", "rerender_page_from_template", "register_template_upload",
   "deploy_page_upload", "update_page_data_upload", "create_page_from_template", "get_page_config",
   "update_page_config", "deploy_page", "update_page", "update_page_data",
   "configure_page_refresh", "publish_page", "rollback_page", "set_password", "set_title",
   "delete_page", "page_urls"}

\* The catalog names each tool that has a handler, and no other.
LEMMA CatalogNames == API!MCP!Tools = ToolNames
<1> DEFINE NamesOf(tools) == {t.tool : t \in tools}
<1>1. NamesOf(API!MCP!CatalogPages) = {"list_pages", "get_page", "get_page_data", "get_page_refresh"}
  BY DEF API!MCP!CatalogPages, API!MCP!Reads, API!MCP!Changes
<1>2. NamesOf(API!MCP!CatalogRefresh) = {"record_refresh_check", "set_page_refresh_schedule",
       "list_refresh_health", "prepare_dashboard_update"}
  BY DEF API!MCP!CatalogRefresh, API!MCP!Reads, API!MCP!Changes
<1>3. NamesOf(API!MCP!CatalogVersions) = {"find_in_version", "patch_page", "preflight_page", "get_version",
       "list_versions"}
  BY DEF API!MCP!CatalogVersions, API!MCP!Reads, API!MCP!Changes
<1>4. NamesOf(API!MCP!CatalogWorkspaces) = {"list_workspaces", "create_workspace", "rename_workspace",
       "set_page_workspace", "list_themes", "get_guide"}
  BY DEF API!MCP!CatalogWorkspaces, API!MCP!Reads, API!MCP!Changes
<1>5. NamesOf(API!MCP!CatalogUploads) = {"create_upload_ticket", "start_page_upload", "append_page_upload",
       "cancel_page_upload"}
  BY DEF API!MCP!CatalogUploads, API!MCP!Reads, API!MCP!Changes
<1>6. NamesOf(API!MCP!CatalogTemplates) = {"list_templates", "get_template", "list_template_revisions",
       "create_template_from_page", "validate_template", "delete_template", "template_urls"}
  BY DEF API!MCP!CatalogTemplates, API!MCP!Reads, API!MCP!Changes
<1>7. NamesOf(API!MCP!CatalogBuilds) = {"list_template_pages", "rerender_page_from_template",
       "register_template_upload", "deploy_page_upload", "update_page_data_upload"}
  BY DEF API!MCP!CatalogBuilds, API!MCP!Reads, API!MCP!Changes
<1>8. NamesOf(API!MCP!CatalogWrites) = {"create_page_from_template", "get_page_config", "update_page_config",
       "deploy_page", "update_page", "update_page_data"}
  BY DEF API!MCP!CatalogWrites, API!MCP!Reads, API!MCP!Changes
<1>9. NamesOf(API!MCP!CatalogServing) = {"configure_page_refresh", "publish_page", "rollback_page",
       "set_password", "set_title", "delete_page", "page_urls"}
  BY DEF API!MCP!CatalogServing, API!MCP!Reads, API!MCP!Changes
<1>10. API!MCP!Tools = NamesOf(API!MCP!CatalogPages) \cup NamesOf(API!MCP!CatalogRefresh) \cup NamesOf(API!MCP!CatalogVersions) \cup
         NamesOf(API!MCP!CatalogWorkspaces) \cup NamesOf(API!MCP!CatalogUploads) \cup NamesOf(API!MCP!CatalogTemplates) \cup
         NamesOf(API!MCP!CatalogBuilds) \cup NamesOf(API!MCP!CatalogWrites) \cup NamesOf(API!MCP!CatalogServing)
  BY DEF API!MCP!Tools, API!MCP!Catalog
<1> HIDE DEF NamesOf
<1> QED
  BY <1>1, <1>2, <1>3, <1>4, <1>5, <1>6, <1>7, <1>8, <1>9, <1>10 DEF ToolNames

LEMMA RunsNames ==
  ASSUME NEW args PROVE {r.tool : r \in API!MCP!Runs(args)} = ToolNames
<1> DEFINE NamesOf(runs) == {r.tool : r \in runs}
<1>1. NamesOf(API!MCP!RunsPages(args)) = {"list_pages", "list_versions", "get_page", "get_page_refresh",
       "record_refresh_check", "set_page_refresh_schedule", "list_refresh_health"}
  BY DEF API!MCP!RunsPages, API!MCP!Calls
<1>2. NamesOf(API!MCP!RunsVersions(args)) = {"get_version", "list_themes", "page_urls", "get_guide",
       "find_in_version", "preflight_page"}
  BY DEF API!MCP!RunsVersions, API!MCP!Calls
<1>3. NamesOf(API!MCP!RunsDeploys(args)) = {"deploy_page", "update_page"}
  BY DEF API!MCP!RunsDeploys, API!MCP!Calls
<1>4. NamesOf(API!MCP!RunsPublish(args)) = {"publish_page", "rollback_page"}
  BY DEF API!MCP!RunsPublish, API!MCP!Calls
<1>5. NamesOf(API!MCP!RunsPatch(args)) = {"patch_page"}
  BY DEF API!MCP!RunsPatch, API!MCP!Calls
<1>6. NamesOf(API!MCP!RunsSettings(args)) = {"set_password", "set_title", "delete_page"}
  BY DEF API!MCP!RunsSettings, API!MCP!Calls
<1>7. NamesOf(API!MCP!RunsData(args)) = {"get_page_data"}
  BY DEF API!MCP!RunsData, API!MCP!Calls
<1>8. NamesOf(API!MCP!RunsDataWrites(args)) = {"update_page_data", "get_page_config", "update_page_config"}
  BY DEF API!MCP!RunsDataWrites, API!MCP!Calls
<1>9. NamesOf(API!MCP!RunsWorkspaces(args)) = {"list_workspaces", "create_workspace", "rename_workspace",
       "set_page_workspace"}
  BY DEF API!MCP!RunsWorkspaces, API!MCP!Calls
<1>10. NamesOf(API!MCP!RunsPrompts(args)) = {"prepare_dashboard_update", "configure_page_refresh"}
  BY DEF API!MCP!RunsPrompts, API!MCP!Calls
<1>11. NamesOf(API!MCP!RunsTemplates(args)) = {"list_templates", "get_template", "list_template_revisions",
       "list_template_pages", "create_template_from_page"}
  BY DEF API!MCP!RunsTemplates, API!MCP!Calls
<1>12. NamesOf(API!MCP!RunsValidation(args)) = {"validate_template", "delete_template", "template_urls"}
  BY DEF API!MCP!RunsValidation, API!MCP!Calls
<1>13. NamesOf(API!MCP!RunsBuilds(args)) = {"rerender_page_from_template", "create_page_from_template"}
  BY DEF API!MCP!RunsBuilds, API!MCP!Calls
<1>14. NamesOf(API!MCP!RunsUploads(args)) = {"start_page_upload", "create_upload_ticket", "append_page_upload",
       "cancel_page_upload"}
  BY DEF API!MCP!RunsUploads, API!MCP!Calls
<1>15. NamesOf(API!MCP!RunsConsumers(args)) = {"deploy_page_upload", "register_template_upload",
       "update_page_data_upload"}
  BY DEF API!MCP!RunsConsumers, API!MCP!Calls
<1>16. NamesOf(API!MCP!Runs(args)) = NamesOf(API!MCP!RunsPages(args)) \cup NamesOf(API!MCP!RunsVersions(args)) \cup
         NamesOf(API!MCP!RunsDeploys(args)) \cup NamesOf(API!MCP!RunsPublish(args)) \cup NamesOf(API!MCP!RunsPatch(args)) \cup
         NamesOf(API!MCP!RunsSettings(args)) \cup NamesOf(API!MCP!RunsData(args)) \cup NamesOf(API!MCP!RunsDataWrites(args)) \cup
         NamesOf(API!MCP!RunsWorkspaces(args)) \cup NamesOf(API!MCP!RunsPrompts(args)) \cup NamesOf(API!MCP!RunsTemplates(args)) \cup
         NamesOf(API!MCP!RunsValidation(args)) \cup NamesOf(API!MCP!RunsBuilds(args)) \cup NamesOf(API!MCP!RunsUploads(args)) \cup
         NamesOf(API!MCP!RunsConsumers(args))
  BY DEF API!MCP!Runs
<1>17. NamesOf(API!MCP!Runs(args)) = ToolNames
  <2> HIDE DEF NamesOf
  <2> QED
    BY <1>1, <1>2, <1>3, <1>4, <1>5, <1>6, <1>7, <1>8, <1>9, <1>10, <1>11, <1>12, <1>13, <1>14, <1>15, <1>16 DEF ToolNames
<1> QED
  BY <1>17


\* What a call that a tool answers has run is a beginning of what its handler
\* runs, and nothing unless the token may use the tool.
LEMMA ToolsRun ==
  ASSUME NEW q \in API!CallRequests
  PROVE  /\ API!MCP!CallTool(q).id = q.id /\ API!MCP!CallTool(q).kind \in {"result", "tool_error"}
         /\ API!MCP!CallTool(q).kind = "result" => API!MCP!CallTool(q).calls # <<>>
         /\ \/ API!MCP!CallTool(q).calls = <<>>
            \/ /\ q.tool \in API!MCP!Tools /\ q.scope \in {"deploy", "admin", "data_update"}
               /\ q.scope = "data_update" => q.granted /\ q.tool \in API!MCP!DataUpdateTools
               /\ \E r \in API!MCP!Runs(q.args) :
                     /\ r.tool = q.tool
                     /\ DOMAIN API!MCP!CallTool(q).calls \subseteq DOMAIN r.calls
                     /\ \A i \in DOMAIN API!MCP!CallTool(q).calls : API!MCP!CallTool(q).calls[i] = r.calls[i]
<1> DEFINE runs == API!MCP!RunsOf(q.tool, q.args)
           none == [kind |-> "tool_error", id |-> q.id, calls |-> <<>>]
<1>1. CASE q.tool \notin API!MCP!VisibleTools(q.scope) \/ ~(API!MCP!Entry(q.tool).args \subseteq q.args)
           \/ ~API!MCP!AuthorizeMcpTool(q) \/ runs = <<>>
  <2>1. API!MCP!CallTool(q) = none
    BY <1>1 DEF API!MCP!CallTool, API!MCP!Answer
  <2> QED
    BY <2>1
<1>2. CASE ~(q.tool \notin API!MCP!VisibleTools(q.scope) \/ ~(API!MCP!Entry(q.tool).args \subseteq q.args)
             \/ ~API!MCP!AuthorizeMcpTool(q) \/ runs = <<>>)
  <2>1. /\ q.tool \in API!MCP!Tools /\ q.scope \in {"deploy", "admin", "data_update"}
        /\ q.scope = "data_update" => q.granted /\ q.tool \in API!MCP!DataUpdateTools
    BY <1>2 DEF API!MCP!VisibleTools, API!MCP!AuthorizeMcpTool, API!MCP!IsMcpToolAllowed, API!MCP!Broad
  <2>2. q.tool \in {r.tool : r \in API!MCP!Runs(q.args)}
    BY <2>1, CatalogNames, RunsNames
  <2>3. PICK r \in API!MCP!Runs(q.args) : r.tool = q.tool /\ runs = r.calls
    <3>1. \E r \in API!MCP!Runs(q.args) : r.tool = q.tool
      BY <2>2
    <3> QED
      BY <3>1 DEF API!MCP!RunsOf
  <2>4. Len(runs) \in Nat /\ DOMAIN runs = 1..Len(runs) /\ runs # <<>>
    BY <1>2, <2>3, RunsHaveShape DEF ShapeOf
  <2>5. CASE q.works < Len(runs)
    <3> DEFINE part == SubSeq(runs, 1, q.works)
    <3>1. API!MCP!CallTool(q) = [kind |-> "tool_error", id |-> q.id, calls |-> part]
      BY <1>2, <2>5 DEF API!MCP!CallTool, API!MCP!Answer
    <3>2. q.works \in Nat
      BY DEF API!CallRequests
    <3>3. DOMAIN part = 1..q.works /\ \A i \in 1..q.works : part[i] = runs[i]
      <4> HIDE DEF runs
      <4> QED
        BY <2>4, <2>5, <3>2
    <3>4. 1..q.works \subseteq DOMAIN runs
      BY <2>4, <2>5, <3>2
    <3> HIDE DEF runs, part
    <3>5. API!MCP!CallTool(q).id = q.id /\ API!MCP!CallTool(q).kind = "tool_error" /\ API!MCP!CallTool(q).calls = part
      BY <3>1
    <3>6. DOMAIN part \subseteq DOMAIN r.calls /\ \A i \in DOMAIN part : part[i] = r.calls[i]
      BY <2>3, <3>3, <3>4
    <3> QED
      BY <2>1, <2>3, <3>5, <3>6
  <2>6. CASE ~(q.works < Len(runs))
    <3>1. API!MCP!CallTool(q) = [kind |-> IF q.fits THEN "result" ELSE "tool_error", id |-> q.id, calls |-> runs]
      BY <1>2, <2>6 DEF API!MCP!CallTool, API!MCP!Answer
    <3> HIDE DEF runs
    <3> QED
      BY <2>1, <2>3, <2>4, <3>1
  <2> QED
    BY <2>5, <2>6
<1> QED
  BY <1>1, <1>2

\* A request that the endpoint does not answer at once is a call of a tool, or
\* runs nothing.
LEMMA EndpointAnswers ==
  ASSUME NEW q \in API!CallRequests
  PROVE  \/ /\ API!MCP!Serve(q) = API!MCP!CallTool(q)
            /\ API!MCP!IsRequest(q) /\ q.method = "tools/call" /\ q.wellformed /\ q.scope # "none" /\ q.host /\ q.origin # "foreign"
         \/ /\ API!MCP!Serve(q).calls = <<>>
            /\ API!MCP!Serve(q).id \in {"none", q.id}
            /\ API!MCP!Serve(q).kind \in {"result", "tool_error", "rpc_error"} <=> API!MCP!Serve(q).id # "none"
            /\ ~(API!MCP!Serve(q).kind = "result" /\ q.method = "tools/call")
<1> DEFINE Quiet(a) == /\ a.calls = <<>> /\ a.id \in {"none", q.id}
                       /\ a.kind \in {"result", "tool_error", "rpc_error"} <=> a.id # "none"
                       /\ ~(a.kind = "result" /\ q.method = "tools/call")
           Called(a) == a = API!MCP!CallTool(q) /\ API!MCP!IsRequest(q) /\ q.method = "tools/call" /\ q.wellformed
<1>1. \A kind \in {"invalid", "accepted", "403", "204", "429", "401", "415", "400", "404", "405"} : Quiet(API!MCP!Refuse(kind))
  BY DEF API!MCP!Refuse, API!MCP!Answer
<1>2. \A kind \in {"rpc_error", "tool_error"} : API!MCP!HasId(q) => Quiet(API!MCP!Answer(kind, q.id, <<>>))
  BY DEF API!MCP!Answer, API!MCP!HasId
<1>3. API!MCP!HasId(q) /\ q.method # "tools/call" => Quiet(API!MCP!Answer("result", q.id, <<>>))
  BY DEF API!MCP!Answer, API!MCP!HasId
<1>4. ASSUME API!MCP!IsRequest(q), q.method \in API!MCP!Methods => q.wellformed
      PROVE  Quiet(API!MCP!HandleRequest(q)) \/ Called(API!MCP!HandleRequest(q))
  <2> HIDE DEF Quiet
  <2>1. API!MCP!HasId(q)
    BY <1>4 DEF API!MCP!IsRequest
  <2> QED
    BY <1>2, <1>3, <1>4, <2>1 DEF API!MCP!HandleRequest
<1>5. Quiet(API!MCP!AnswerPost(q)) \/ Called(API!MCP!AnswerPost(q))
  <2> HIDE DEF Quiet, Called
  <2>1. API!MCP!IsRequest(q) => API!MCP!HasId(q)
    BY DEF API!MCP!IsRequest
  <2> QED
    BY <1>1, <1>2, <1>4, <2>1 DEF API!MCP!AnswerPost
<1>6. \/ Quiet(API!MCP!Serve(q))
      \/ API!MCP!Serve(q) = API!MCP!AnswerPost(q) /\ q.scope # "none" /\ q.host /\ q.origin # "foreign"
  <2> HIDE DEF Quiet
  <2> QED
    BY <1>1 DEF API!MCP!Serve
<1> QED
  BY <1>5, <1>6

\* For every message, token and set of arguments: a tool that says it only
\* reads never writes, a call writes once at most, and a data token's call is
\* granted (internal/mcp, internal/mcpproto).
THEOREM CallsAreFaithful == \A q \in API!CallRequests : API!MCP!CallFaithful(q)
<1> SUFFICES ASSUME NEW q \in API!CallRequests PROVE API!MCP!CallFaithful(q)
  OBVIOUS
<1> DEFINE a == API!MCP!Serve(q)
           writes == {i \in DOMAIN a.calls : a.calls[i] \in API!MCP!WritesOfTools}
<1>1. API!MCP!Tools = {r.tool : r \in API!MCP!Runs(q.args)}
  BY CatalogNames, RunsNames
<1>2. CASE /\ a.calls = <<>> /\ a.id \in {"none", q.id}
           /\ a.kind \in {"result", "tool_error", "rpc_error"} <=> a.id # "none"
           /\ ~(a.kind = "result" /\ q.method = "tools/call")
  <2>1. writes = {}
    BY <1>2
  <2> QED
    BY <1>1, <1>2, <2>1 DEF API!MCP!CallFaithful
<1>3. CASE /\ a = API!MCP!CallTool(q)
           /\ API!MCP!IsRequest(q) /\ q.method = "tools/call" /\ q.wellformed /\ q.scope # "none" /\ q.host /\ q.origin # "foreign"
  <2>1. a.id = q.id /\ q.id # "none" /\ a.kind \in {"result", "tool_error"} /\ (a.kind = "result" => a.calls # <<>>)
    BY <1>3, ToolsRun DEF API!MCP!IsRequest, API!MCP!HasId
  <2>2. CASE a.calls = <<>>
    BY <1>1, <1>3, <2>1, <2>2 DEF API!MCP!CallFaithful
  <2>3. CASE a.calls # <<>>
    <3>1. /\ q.tool \in API!MCP!Tools
          /\ q.scope = "data_update" => q.granted /\ q.tool \in API!MCP!DataUpdateTools
      BY <1>3, <2>3, ToolsRun
    <3>2. PICK r \in API!MCP!Runs(q.args) : /\ r.tool = q.tool /\ DOMAIN a.calls \subseteq DOMAIN r.calls
                                        /\ \A i \in DOMAIN a.calls : a.calls[i] = r.calls[i]
      BY <1>3, <2>3, ToolsRun
    <3>3. ShapeOf(r)
      BY RunsHaveShape
    <3>4. \A i, j \in writes : i = j
      BY <3>2, <3>3, ReadsDoNotWrite DEF ShapeOf
    <3>5. API!MCP!Entry(q.tool).readOnly => writes = {}
      <4>1. API!MCP!Entry(q.tool) \in API!MCP!Catalog /\ API!MCP!Entry(q.tool).tool = q.tool
        BY <3>1 DEF API!MCP!Entry, API!MCP!Tools
      <4>2. API!MCP!Entry(q.tool).readOnly => q.tool \in ToolsThatRead
        BY <4>1, CatalogReads
      <4>3. q.tool \in ToolsThatRead => writes = {}
        BY <3>2, <3>3, ReadsDoNotWrite DEF ShapeOf
      <4> QED
        BY <4>2, <4>3
    <3>6. q.scope = "data_update" => \A i \in writes : a.calls[i] \in {"UpdatePageData", "RecordRefreshCheck"}
      BY <3>1, <3>2, <3>3, ReadsDoNotWrite DEF ShapeOf
    <3> HIDE DEF a
    <3> QED
      BY <1>1, <1>3, <2>1, <3>1, <3>4, <3>5, <3>6 DEF API!MCP!CallFaithful, a
  <2> QED
    BY <2>2, <2>3
<1> QED
  BY <1>2, <1>3, EndpointAnswers

---------------------------------------------------------------------------
(* The requests to the dashboard's APIs.  A route that answers is one of   *)
(* the table, with its method; the handler it names is one of the rows.    *)

\* A path of a route: tokens, one after the other.
IsPath(path) == Len(path) \in Nat \ {0} /\ DOMAIN path = 1..Len(path)

Blank == ""
Unslashed(path) == path[Len(path)] # Blank

\* Where the splat of a path stands: at a splat, at the only one there is.
LEMMA SplatStands ==
  ASSUME NEW path, IsPath(path)
  PROVE  /\ API!Splat(path) = 0 => \A k \in 1..Len(path) : path[k] # "*slug"
         /\ API!Splat(path) # 0 => API!Splat(path) \in 1..Len(path) /\ path[API!Splat(path)] = "*slug"
         /\ \A s \in 1..Len(path) :
              path[s] = "*slug" /\ (\A k \in 1..Len(path) : path[k] = "*slug" => k = s) => API!Splat(path) = s
<1> DEFINE hits == {k \in 1..Len(path) : path[k] = "*slug"}
<1>0. Len(path) \in Nat
  BY DEF IsPath
<1>1. CASE hits = {}
  <2>1. API!Splat(path) = 0
    BY <1>1 DEF API!Splat, API!SelectInSeq
  <2> QED
    BY <1>1, <2>1
<1>2. CASE hits # {}
  <2>1. hits \in SUBSET Nat
    BY <1>0
  <2>2. PICK m \in hits : \A n \in hits : m <= n
    <3> HIDE DEF hits
    <3> QED
      BY <1>2, <2>1, NatMin
  <2>3. API!Min(hits) \in hits
    <3> HIDE DEF hits
    <3> QED
      BY <2>2 DEF API!Min
  <2>4. API!Splat(path) = API!Min(hits)
    BY <1>2 DEF API!Splat, API!SelectInSeq
  <2>5. API!Splat(path) \in hits
    BY <2>3, <2>4
  <2> HIDE DEF API!Splat
  <2> QED
    BY <1>0, <2>5
<1> QED
  BY <1>1, <1>2

\* What the router finds, if anything, is a route of the table that handles
\* the method and matches the path.
LEMMA Resolved ==
  ASSUME NEW routes, Len(routes) \in Nat, NEW method, NEW segments
  PROVE  \/ API!Resolve(routes, method, segments).op = "none"
         \/ \E i \in 1..Len(routes) : /\ API!Handles(routes[i], method) /\ API!Match(routes[i].path, segments)
                                      /\ API!Resolve(routes, method, segments).op = routes[i].op
<1> DEFINE hits == {i \in 1..Len(routes) : API!Handles(routes[i], method) /\ API!Match(routes[i].path, segments)}
<1>1. CASE hits = {}
  <2>1. API!Resolve(routes, method, segments) = [op |-> "none", slug |-> <<>>]
    BY <1>1 DEF API!Resolve, API!SelectInSeq
  <2> QED
    BY <2>1
<1>2. CASE hits # {}
  <2>1. PICK m \in hits : \A n \in hits : m <= n
    <3>1. hits \in SUBSET Nat
      OBVIOUS
    <3> HIDE DEF hits
    <3> QED
      BY <1>2, <3>1, NatMin
  <2>2. API!Min(hits) \in hits
    <3> HIDE DEF hits
    <3> QED
      BY <2>1 DEF API!Min
  <2>3. API!Resolve(routes, method, segments)
          = [op |-> routes[API!Min(hits)].op, slug |-> API!Slug(routes[API!Min(hits)].path, segments)]
    <3>1. API!Min(hits) # 0
      BY <2>2
    <3> QED
      BY <1>2, <3>1 DEF API!Resolve, API!SelectInSeq
  <2>4. API!Resolve(routes, method, segments).op = routes[API!Min(hits)].op
    BY <2>3
  <2> QED
    BY <2>2, <2>4
<1> QED
  BY <1>1, <1>2

\* The operations that each table routes to.
AdminReadOps == {"listPages", "refreshHealth", "listWorkspaces", "listPortals", "getPortal", "getVersion", "getPage",
                 "listTemplates", "getTemplate"}
AdminWriteOps ==
  {"createWorkspace", "renameWorkspace", "deleteWorkspace", "createPortal", "renamePortal", "setPortalPassword",
   "revealPortalPassword", "addPortalPage", "updatePortalPage", "removePortalPage", "setPortalHome", "deletePortal", "approve",
   "reject", "publish", "rollback", "setApproval", "disable", "enable", "setTheme", "setPassword", "revealPassword", "createPage",
   "assignWorkspace", "setTitle", "setRefreshSchedule", "deletePage", "restorePage", "editToken", "previewToken",
   "validateTemplate", "registerTemplate", "deleteTemplate", "templatePreviewToken", "deploySource"}
RestReadOps == {"listPages", "listVersions", "preflight", "getVersion", "getPage"}
RestWriteOps == {"createPage", "setPassword", "setTitle", "deletePage", "deploy", "publish", "rollback"}

\* What a table says of the method, the operation and the path of its routes.
LEMMA AdminReadsTable ==
  /\ Len(API!AdminReads) \in Nat
  /\ \A i \in 1..Len(API!AdminReads) : API!AdminReads[i].op \in AdminReadOps
BY DEF API!AdminReads, API!Get, API!Route, AdminReadOps

LEMMA AdminMutationsTable ==
  /\ Len(API!AdminMutations) \in Nat
  /\ \A i \in 1..Len(API!AdminMutations) : /\ API!AdminMutations[i].op \in AdminWriteOps
                                           /\ API!AdminMutations[i].method \in {"POST", "DELETE"}
BY SMTT(60) DEF API!AdminMutations, API!OnPage, API!OnVersion, API!OnPortal, API!Post, API!Route, AdminWriteOps

LEMMA RestTable ==
  /\ Len(API!RestRoutes) \in Nat
  /\ \A i \in 1..Len(API!RestRoutes) :
       /\ \/ API!RestRoutes[i].method = "GET" /\ API!RestRoutes[i].op \in RestReadOps
          \/ API!RestRoutes[i].method \in {"POST", "DELETE"} /\ API!RestRoutes[i].op \in RestWriteOps
       /\ Len(API!RestRoutes[i].path) \in Nat \ {0}
       /\ DOMAIN API!RestRoutes[i].path = 1..Len(API!RestRoutes[i].path)
       /\ API!RestRoutes[i].path[1] = "pages"
<1>1. Len(API!RestRoutes) = 12
  BY DEF API!RestRoutes
<1>2. ASSUME NEW i \in 1..12
      PROVE  \/ API!RestRoutes[i].method = "GET" /\ API!RestRoutes[i].op \in RestReadOps
             \/ API!RestRoutes[i].method \in {"POST", "DELETE"} /\ API!RestRoutes[i].op \in RestWriteOps
  BY DEF API!RestRoutes, API!OnPage, API!Get, API!Post, API!Route, RestReadOps, RestWriteOps
<1> DEFINE OK(path) == Len(path) \in Nat \ {0} /\ DOMAIN path = 1..Len(path) /\ path[1] = "pages"
<1>3. ASSUME NEW i \in 1..12 PROVE OK(API!RestRoutes[i].path)
  <2>1. /\ OK(<<"pages">>) /\ OK(<<"pages", "*slug">>) /\ OK(<<"pages", "*slug", "versions", ":id">>)
        /\ \A action : OK(<<"pages", "*slug", action>>)
    OBVIOUS
  <2> HIDE DEF OK
  <2> QED
    BY <2>1, SMTT(60) DEF API!RestRoutes, API!OnPage, API!Get, API!Post, API!Route
<1> QED
  BY <1>1, <1>2, <1>3, SMTT(60)

\* The routes of the REST API are all below /pages.
LEMMA PagesOnly ==
  ASSUME NEW i \in 1..Len(API!RestRoutes), NEW segments \in Seq(STRING), API!Match(API!RestRoutes[i].path, segments)
  PROVE  segments[1] = "pages"
<1> DEFINE path == API!RestRoutes[i].path
           q == API!Trimmed(path, segments)
           s == API!Splat(path)
           hits == {k \in 1..Len(path) : path[k] = "*slug"}
<1>1. Len(path) \in Nat \ {0} /\ DOMAIN path = 1..Len(path) /\ path[1] = "pages"
  BY RestTable
<1>2. s = 0 \/ s \in hits
  BY <1>1, SplatStands DEF IsPath
<1>3. s # 1
  BY <1>1, <1>2
<1>4. s = 0 \/ s \in 2..Len(path)
  BY <1>1, <1>2, <1>3
<1>5. API!MatchAt(path, q, s)
  BY DEF API!Match
<1>6. q = segments \/ (Len(segments) >= 1 /\ q = SubSeq(segments, 1, Len(segments) - 1))
  <2>1. segments # <<>> => Len(segments) >= 1
    OBVIOUS
  <2>2. q = segments \/ (segments # <<>> /\ q = SubSeq(segments, 1, Len(segments) - 1))
    BY DEF API!Trimmed, API!Front
  <2> HIDE DEF q
  <2> QED
    BY <2>1, <2>2
<1>7. Len(q) \in Nat
  <2> HIDE DEF q
  <2> QED
    BY <1>6
<1> HIDE DEF path, q, s
<1>8. Len(q) >= Len(path) /\ q[1] = "pages"
  <2>1. CASE s = 0
    <3>1. Len(q) - Len(path) = 0 /\ \A k \in DOMAIN path : API!Takes(path[k], q[k])
      BY <1>5, <2>1 DEF API!MatchAt
    <3>2. API!Takes(path[1], q[1])
      BY <1>1, <3>1
    <3>3. q[1] = "pages"
      BY <1>1, <3>2 DEF API!Takes
    <3>4. Len(q) >= Len(path)
      BY <1>7, <3>1, Len(path) \in Nat, <1>1
    <3> QED
      BY <3>3, <3>4
  <2>2. CASE s \in 2..Len(path)
    <3>1. /\ Len(q) - Len(path) >= 0
          /\ \A k \in DOMAIN path \ {s} : API!Takes(path[k], q[IF k < s THEN k ELSE k + (Len(q) - Len(path))])
      <4>1. s # 0
        BY <1>1, <2>2
      <4> QED
        BY <1>5, <4>1 DEF API!MatchAt
    <3>2. API!Takes(path[1], q[1])
      <4>1. 1 \in DOMAIN path \ {s} /\ 1 < s
        BY <1>1, <2>2
      <4> QED
        BY <3>1, <4>1
    <3>3. q[1] = "pages"
      BY <1>1, <3>2 DEF API!Takes
    <3>4. Len(q) >= Len(path)
      BY <1>7, <3>1, Len(path) \in Nat, <1>1
    <3> QED
      BY <3>3, <3>4
  <2> QED
    BY <1>4, <2>1, <2>2
<1> QED
  BY <1>1, <1>6, <1>7, <1>8

\* The domain functions that change nothing and hand out nothing.
RequestsThatRead ==
  {"FillCoverageGaps", "ListPages", "ListWorkspaces", "ListRefreshHealth", "GetVersion", "GetPage", "ListVersions", "ListThemes",
   "ListForPage", "RefreshHealthFor", "ListPortals", "GetPortal", "ListTemplates", "GetTemplate", "Revisions",
   "ListTemplatePages", "GetLatestRenderable", "ValidateHTML", "GetRevisionHTML"}

LEMMA ReadsChangeNothing == RequestsThatRead \cap (API!Writes \cup API!Links) = {}
BY DEF RequestsThatRead, API!Writes, API!WritesOfAll, API!WritesOfHumans, API!Links

\* A handler makes at most one call that is not a read, and a read's none;
\* none of the admin API deploys.
OneChange(h) ==
  /\ DOMAIN h.calls = 1..Len(h.calls)
  /\ \A i, j \in DOMAIN h.calls : h.calls[i] \notin RequestsThatRead /\ h.calls[j] \notin RequestsThatRead => i = j
AdminShape(h) ==
  /\ OneChange(h)
  /\ \A i \in DOMAIN h.calls : h.calls[i] # "Deploy"
  /\ h.op \in AdminReadOps => \A i \in DOMAIN h.calls : h.calls[i] \in RequestsThatRead
RestShape(h) ==
  /\ OneChange(h)
  /\ \A i \in DOMAIN h.calls : h.calls[i] \in RequestsThatRead \cup API!WritesOfAll
  /\ h.op \in RestReadOps => \A i \in DOMAIN h.calls : h.calls[i] \in RequestsThatRead

LEMMA AdminRows == ASSUME NEW q, NEW id PROVE \A h \in API!AdminHandlers(q, id) : AdminShape(h)
<1>1. \A h \in API!AdminPageReads(q, id) : AdminShape(h)
  BY DEF AdminShape, OneChange, API!AdminPageReads, API!Needs, API!Does, RequestsThatRead, AdminReadOps
<1>2. \A h \in API!AdminListReads(q, id) : AdminShape(h)
  BY DEF AdminShape, OneChange, API!AdminListReads, API!Needs, API!Does, RequestsThatRead, AdminReadOps
<1>3. \A h \in API!AdminWorkspaces(q, id) : AdminShape(h)
  BY DEF AdminShape, OneChange, API!AdminWorkspaces, API!Needs, API!Does, RequestsThatRead, AdminReadOps
<1>4. \A h \in API!AdminPortals(q, id) : AdminShape(h)
  BY DEF AdminShape, OneChange, API!AdminPortals, API!Needs, API!Does, RequestsThatRead, AdminReadOps
<1>5. \A h \in API!AdminPortalPages(q, id) : AdminShape(h)
  BY DEF AdminShape, OneChange, API!AdminPortalPages, API!Needs, API!Does, RequestsThatRead, AdminReadOps
<1>6. \A h \in API!AdminReview(q, id) : AdminShape(h)
  BY DEF AdminShape, OneChange, API!AdminReview, API!Needs, API!Does, RequestsThatRead, AdminReadOps
<1>7. \A h \in API!AdminServing(q, id) : AdminShape(h)
  BY DEF AdminShape, OneChange, API!AdminServing, API!Needs, API!Does, RequestsThatRead, AdminReadOps
<1>8. \A h \in API!AdminPages(q, id) : AdminShape(h)
  BY DEF AdminShape, OneChange, API!AdminPages, API!Needs, API!Does, RequestsThatRead, AdminReadOps
<1>9. \A h \in API!AdminLinks(q, id) : AdminShape(h)
  BY DEF AdminShape, OneChange, API!AdminLinks, API!Needs, API!Does, RequestsThatRead, AdminReadOps
<1>10. \A h \in API!AdminTemplates(q, id) : AdminShape(h)
  BY DEF AdminShape, OneChange, API!AdminTemplates, API!Needs, API!Does, RequestsThatRead, AdminReadOps
<1>11. \A h \in API!AdminDeploy(q, id) : AdminShape(h)
  BY DEF AdminShape, OneChange, API!AdminDeploy, API!Needs, API!Does, RequestsThatRead, AdminReadOps
<1> QED
  BY <1>1, <1>2, <1>3, <1>4, <1>5, <1>6, <1>7, <1>8, <1>9, <1>10, <1>11 DEF API!AdminHandlers

LEMMA RestRows == ASSUME NEW q, NEW id PROVE \A h \in API!RestHandlers(q, id) : RestShape(h)
<1>1. \A h \in API!RestReads(q, id) : RestShape(h)
  BY DEF RestShape, OneChange, API!RestReads, API!Needs, API!Does, RequestsThatRead, RestReadOps, API!WritesOfAll
<1>2. \A h \in API!RestWrites(q, id) : RestShape(h)
  BY DEF RestShape, OneChange, API!RestWrites, API!Needs, API!Does, RequestsThatRead, RestReadOps, API!WritesOfAll
<1> QED
  BY <1>1, <1>2 DEF API!RestHandlers

\* Every operation that is routed has a handler.
LEMMA AdminNames ==
  ASSUME NEW q, NEW id PROVE AdminReadOps \cup AdminWriteOps \subseteq {h.op : h \in API!AdminHandlers(q, id)}
<1> DEFINE NamesOf(handlers) == {h.op : h \in handlers}
<1>1. NamesOf(API!AdminPageReads(q, id)) = {"listPages", "refreshHealth", "getVersion", "getPage"}
  BY DEF API!AdminPageReads, API!Needs, API!Does
<1>2. NamesOf(API!AdminListReads(q, id)) = {"listWorkspaces", "listPortals", "getPortal", "listTemplates", "getTemplate"}
  BY DEF API!AdminListReads, API!Needs, API!Does
<1>3. NamesOf(API!AdminWorkspaces(q, id)) = {"createWorkspace", "renameWorkspace", "deleteWorkspace", "assignWorkspace"}
  BY DEF API!AdminWorkspaces, API!Needs, API!Does
<1>4. NamesOf(API!AdminPortals(q, id)) = {"createPortal", "renamePortal", "setPortalPassword", "revealPortalPassword", "deletePortal"}
  BY DEF API!AdminPortals, API!Needs, API!Does
<1>5. NamesOf(API!AdminPortalPages(q, id)) = {"addPortalPage", "updatePortalPage", "removePortalPage", "setPortalHome"}
  BY DEF API!AdminPortalPages, API!Needs, API!Does
<1>6. NamesOf(API!AdminReview(q, id)) = {"approve", "reject", "publish", "rollback"}
  BY DEF API!AdminReview, API!Needs, API!Does
<1>7. NamesOf(API!AdminServing(q, id)) = {"setApproval", "disable", "enable", "setTheme", "setPassword", "revealPassword"}
  BY DEF API!AdminServing, API!Needs, API!Does
<1>8. NamesOf(API!AdminPages(q, id)) = {"createPage", "setTitle", "setRefreshSchedule", "deletePage", "restorePage"}
  BY DEF API!AdminPages, API!Needs, API!Does
<1>9. NamesOf(API!AdminLinks(q, id)) = {"editToken", "previewToken"}
  BY DEF API!AdminLinks, API!Needs, API!Does
<1>10. NamesOf(API!AdminTemplates(q, id)) = {"validateTemplate", "registerTemplate", "deleteTemplate", "templatePreviewToken"}
  BY DEF API!AdminTemplates, API!Needs, API!Does
<1>11. NamesOf(API!AdminDeploy(q, id)) = {"deploySource"}
  BY DEF API!AdminDeploy, API!Needs, API!Does
<1>12. NamesOf(API!AdminHandlers(q, id)) = NamesOf(API!AdminPageReads(q, id)) \cup
         NamesOf(API!AdminListReads(q, id)) \cup NamesOf(API!AdminWorkspaces(q, id)) \cup
         NamesOf(API!AdminPortals(q, id)) \cup NamesOf(API!AdminPortalPages(q, id)) \cup
         NamesOf(API!AdminReview(q, id)) \cup NamesOf(API!AdminServing(q, id)) \cup NamesOf(API!AdminPages(q, id)) \cup
         NamesOf(API!AdminLinks(q, id)) \cup NamesOf(API!AdminTemplates(q, id)) \cup NamesOf(API!AdminDeploy(q, id))
  BY DEF API!AdminHandlers
<1>13. AdminReadOps \cup AdminWriteOps \subseteq NamesOf(API!AdminHandlers(q, id))
  <2> HIDE DEF NamesOf
  <2> QED
    BY <1>1, <1>2, <1>3, <1>4, <1>5, <1>6, <1>7, <1>8, <1>9, <1>10, <1>11, <1>12 DEF AdminReadOps, AdminWriteOps
<1> QED
  BY <1>13

LEMMA RestNames ==
  ASSUME NEW q, NEW id PROVE RestReadOps \cup RestWriteOps \subseteq {h.op : h \in API!RestHandlers(q, id)}
<1> DEFINE NamesOf(handlers) == {h.op : h \in handlers}
<1>1. NamesOf(API!RestReads(q, id)) = RestReadOps
  BY DEF API!RestReads, API!Needs, API!Does, RestReadOps
<1>2. NamesOf(API!RestWrites(q, id)) = RestWriteOps
  BY DEF API!RestWrites, API!Needs, API!Does, RestWriteOps
<1>3. NamesOf(API!RestHandlers(q, id)) = NamesOf(API!RestReads(q, id)) \cup NamesOf(API!RestWrites(q, id))
  BY DEF API!RestHandlers
<1> HIDE DEF NamesOf
<1>4. RestReadOps \cup RestWriteOps \subseteq NamesOf(API!RestHandlers(q, id))
  BY <1>1, <1>2, <1>3
<1> QED
  BY <1>4 DEF NamesOf

ReadMethods == {"GET", "HEAD", "OPTIONS"}

\* What a handler answers: its calls, or a refusal that ran nothing.
LEMMA Handled ==
  ASSUME NEW handlers, NEW op \in {h.op : h \in handlers}
  PROVE  \/ API!Run(handlers, op).calls = <<>>
         \/ /\ API!Run(handlers, op).status = "ok"
            /\ \E h \in handlers : h.op = op /\ API!Run(handlers, op).calls = h.calls
<1> DEFINE handler == CHOOSE h \in handlers : h.op = op
<1>1. \E h \in handlers : h.op = op
  OBVIOUS
<1>2. handler \in handlers /\ handler.op = op
  BY <1>1
<1>3. \/ API!Run(handlers, op) = [status |-> "400", calls |-> <<>>]
      \/ API!Run(handlers, op) = [status |-> "ok", calls |-> handler.calls]
  BY DEF API!Run, API!Answer, API!Refuse
<1> HIDE DEF handler
<1> QED
  BY <1>2, <1>3

\* The REST API runs a handler for a broad token only, below /pages only, and
\* for a read method only one that reads.
LEMMA RestAnswers ==
  ASSUME NEW q \in API!ApiRequests
  PROVE  \/ API!Rest(q).calls = <<>>
         \/ /\ API!Rest(q).status = "ok" /\ q.bearer \in API!Broad /\ q.path[1] = "pages"
            /\ \E h : /\ RestShape(h) /\ API!Rest(q).calls = h.calls
                      /\ q.method \in ReadMethods => h.op \in RestReadOps
<1> DEFINE found == API!Resolve(API!RestRoutes, q.method, q.path)
           handlers == API!RestHandlers(q, API!IdOf(q.path))
<1>1. \A status : API!Refuse(status).calls = <<>>
  BY DEF API!Refuse, API!Answer
<1>2. CASE API!RequireBearer(q) = "ok" /\ API!RequireRestAccess(q) = "ok" /\ found.op # "none"
  <2>1. API!Rest(q) = API!Run(handlers, found.op)
    BY <1>2 DEF API!Rest
  <2>2. q.bearer \in API!Broad
    BY <1>2 DEF API!RequireRestAccess
  <2>3. Len(API!RestRoutes) \in Nat
    BY RestTable
  <2>4. PICK i \in 1..Len(API!RestRoutes) : /\ API!Handles(API!RestRoutes[i], q.method)
                                            /\ API!Match(API!RestRoutes[i].path, q.path)
                                            /\ found.op = API!RestRoutes[i].op
    <3> HIDE DEF found
    <3>1. \/ found.op = "none"
          \/ \E i \in 1..Len(API!RestRoutes) : /\ API!Handles(API!RestRoutes[i], q.method)
                                               /\ API!Match(API!RestRoutes[i].path, q.path)
                                               /\ found.op = API!RestRoutes[i].op
      BY <2>3, Resolved DEF found
    <3> QED
      BY <1>2, <3>1
  <2>5. q.path[1] = "pages"
    <3>1. q.path \in Seq(STRING)
      BY DEF API!ApiRequests
    <3> QED
      BY <2>4, <3>1, PagesOnly
  <2>6. found.op \in RestReadOps \cup RestWriteOps /\ (q.method \in ReadMethods => found.op \in RestReadOps)
    <3> HIDE DEF found
    <3> QED
      BY <2>4, RestTable DEF API!Handles, ReadMethods
  <2>7. found.op \in {h.op : h \in handlers}
    <3> HIDE DEF found
    <3> QED
      BY <2>6, RestNames
  <2> HIDE DEF found, handlers
  <2>8. CASE API!Run(handlers, found.op).calls = <<>>
    BY <2>1, <2>8
  <2>9. CASE /\ API!Run(handlers, found.op).status = "ok"
             /\ \E h \in handlers : h.op = found.op /\ API!Run(handlers, found.op).calls = h.calls
    <3>1. PICK h \in handlers : h.op = found.op /\ API!Run(handlers, found.op).calls = h.calls
      BY <2>9
    <3>2. RestShape(h)
      BY <3>1, RestRows DEF handlers
    <3> QED
      BY <2>1, <2>2, <2>5, <2>6, <2>9, <3>1, <3>2
  <2> QED
    BY <2>7, <2>8, <2>9, Handled
<1>3. CASE ~(API!RequireBearer(q) = "ok" /\ API!RequireRestAccess(q) = "ok" /\ found.op # "none")
  BY <1>1, <1>3 DEF API!Rest
<1> QED
  BY <1>2, <1>3

\* The admin API runs a handler for an admin session only, and one that
\* changes something with its origin and CSRF token only.
LEMMA AdminAnswers ==
  ASSUME NEW q \in API!ApiRequests
  PROVE  \/ API!Admin(q).calls = <<>>
         \/ API!Admin(q) = API!Rest(q)
         \/ /\ API!Admin(q).status = "ok" /\ q.cookie = "admin"
            /\ \E h : /\ AdminShape(h) /\ API!Admin(q).calls = h.calls
                      /\ h.op \in AdminReadOps \/ (q.origin /\ q.csrf /\ q.method \notin ReadMethods)
<1> DEFINE path == IF q.path = <<>> THEN <<>> ELSE Tail(q.path)
           read == API!Resolve(API!AdminReads, q.method, path)
           write == API!Resolve(API!AdminMutations, q.method, path)
           handlers == API!AdminHandlers(q, API!IdOf(path))
           handle(op) == API!Run(handlers, op)
<1> DEFINE Shown(a) == /\ a.status = "ok"
                       /\ \E h : /\ AdminShape(h) /\ a.calls = h.calls
                                 /\ h.op \in AdminReadOps \/ (q.origin /\ q.csrf /\ q.method \notin ReadMethods)
<1>1. \A status : API!Refuse(status).calls = <<>>
  BY DEF API!Refuse, API!Answer
<1>2. read.op = "none" \/ read.op \in AdminReadOps
  <2>1. \/ read.op = "none"
        \/ \E i \in 1..Len(API!AdminReads) : read.op = API!AdminReads[i].op
    <3> HIDE DEF path
    <3> QED
      BY AdminReadsTable, Resolved
  <2> HIDE DEF read
  <2> QED
    BY <2>1, AdminReadsTable
<1>3. write.op = "none" \/ (write.op \in AdminWriteOps /\ q.method \notin ReadMethods)
  <2>1. \/ write.op = "none"
        \/ \E i \in 1..Len(API!AdminMutations) : /\ API!Handles(API!AdminMutations[i], q.method)
                                                 /\ write.op = API!AdminMutations[i].op
    <3> HIDE DEF path
    <3> QED
      BY AdminMutationsTable, Resolved
  <2> HIDE DEF write
  <2> QED
    BY <2>1, AdminMutationsTable DEF API!Handles, ReadMethods
<1>4. ASSUME NEW op \in AdminReadOps \cup AdminWriteOps,
             op \in AdminReadOps \/ (q.origin /\ q.csrf /\ q.method \notin ReadMethods)
      PROVE  handle(op).calls = <<>> \/ Shown(handle(op))
  <2>1. op \in {h.op : h \in handlers}
    BY <1>4, AdminNames
  <2>2. \A h \in handlers : AdminShape(h)
    BY AdminRows
  <2> HIDE DEF handlers
  <2>3. CASE handle(op).calls = <<>>
    BY <2>3
  <2>4. CASE /\ handle(op).status = "ok"
             /\ \E h \in handlers : h.op = op /\ handle(op).calls = h.calls
    BY <1>4, <2>2, <2>4
  <2> QED
    BY <2>1, <2>3, <2>4, Handled
<1>5. \/ API!Admin(q).calls = <<>>
      \/ API!Admin(q) = API!Rest(q)
      \/ q.cookie = "admin" /\ read.op # "none" /\ API!Admin(q) = handle(read.op)
      \/ q.cookie = "admin" /\ q.origin /\ q.csrf /\ write.op # "none" /\ API!Admin(q) = handle(write.op)
  <2>1. q.cookie \in {"none", "user", "admin"}
    BY DEF API!ApiRequests
  <2>2. API!RequireAdminJSON(q) = "ok" => q.cookie = "admin"
    BY <2>1 DEF API!RequireAdminJSON
  <2>3. API!RequireCsrf(q) = "ok" => q.origin /\ q.csrf
    BY DEF API!RequireCsrf
  <2> QED
    BY <1>1, <2>2, <2>3 DEF API!Admin
<1> HIDE DEF read, write, handle, Shown
<1>6. CASE q.cookie = "admin" /\ read.op # "none" /\ API!Admin(q) = handle(read.op)
  <2>1. handle(read.op).calls = <<>> \/ Shown(handle(read.op))
    BY <1>2, <1>4, <1>6
  <2> QED
    BY <1>6, <2>1 DEF Shown
<1>7. CASE q.cookie = "admin" /\ q.origin /\ q.csrf /\ write.op # "none" /\ API!Admin(q) = handle(write.op)
  <2>1. handle(write.op).calls = <<>> \/ Shown(handle(write.op))
    BY <1>3, <1>4, <1>7
  <2> QED
    BY <1>7, <2>1 DEF Shown
<1> QED
  BY <1>5, <1>6, <1>7

\* For every request: what is for humans is changed, and a link handed out,
\* only with the admin session, its own origin and its CSRF token; the rest
\* with that or a broad token; a read method changes nothing, a request makes
\* one change at most, and saving source never deploys (internal/adminapi,
\* internal/api, csrf).
THEOREM RequestsAreFaithful == \A q \in API!ApiRequests : API!RequestFaithful(q)
<1> SUFFICES ASSUME NEW q \in API!ApiRequests PROVE API!RequestFaithful(q)
  OBVIOUS
<1> DEFINE a == API!Api(q)
<1>1. CASE a.calls = <<>>
  <2>1. API!Ran(a) = {} /\ DOMAIN a.calls = {}
    BY <1>1 DEF API!Ran
  <2> HIDE DEF a
  <2> QED
    BY <1>1, <2>1 DEF API!RequestFaithful, a
<1>2. CASE a = API!Rest(q) /\ a.calls # <<>>
  <2>1. a.status = "ok" /\ q.bearer \in API!Broad /\ q.path[1] = "pages"
    BY <1>2, RestAnswers
  <2>2. PICK h : /\ RestShape(h) /\ a.calls = h.calls /\ (q.method \in ReadMethods => h.op \in RestReadOps)
    BY <1>2, RestAnswers
  <2>3. ~API!IsPrefix(<<"admin">>, q.path)
    <3>1. SUFFICES ASSUME API!IsPrefix(<<"admin">>, q.path) PROVE FALSE
      OBVIOUS
    <3>2. q.path \in Seq(STRING)
      BY DEF API!ApiRequests
    <3>3. Len(q.path) >= 1 /\ SubSeq(<<"admin">>, 1, 1) = SubSeq(q.path, 1, 1)
      BY <3>1 DEF API!IsPrefix
    <3>4. q.path[1] = "admin"
      BY <3>2, <3>3
    <3> QED
      BY <2>1, <3>4
  <2>4. API!WritesOfAll \cap (API!WritesOfHumans \cup API!Links) = {}
    BY DEF API!WritesOfAll, API!WritesOfHumans, API!Links
  <2>5. API!Ran(a) \subseteq RequestsThatRead \cup API!WritesOfAll
    BY <2>2 DEF API!Ran, RestShape
  <2>6. q.method \in ReadMethods => API!Ran(a) \subseteq RequestsThatRead
    BY <2>2 DEF API!Ran, RestShape
  <2>7. \A i, j \in DOMAIN a.calls : a.calls[i] \notin RequestsThatRead /\ a.calls[j] \notin RequestsThatRead => i = j
    BY <2>2 DEF RestShape, OneChange
  <2> HIDE DEF a
  <2> QED
    BY <2>1, <2>3, <2>4, <2>5, <2>6, <2>7, ReadsChangeNothing DEF API!RequestFaithful, a, ReadMethods, API!Writes
<1>3. CASE /\ a.status = "ok" /\ q.cookie = "admin" /\ API!IsPrefix(<<"admin">>, q.path)
           /\ \E h : /\ AdminShape(h) /\ a.calls = h.calls
                     /\ h.op \in AdminReadOps \/ (q.origin /\ q.csrf /\ q.method \notin ReadMethods)
  <2>1. PICK h : /\ AdminShape(h) /\ a.calls = h.calls
                 /\ h.op \in AdminReadOps \/ (q.origin /\ q.csrf /\ q.method \notin ReadMethods)
    BY <1>3
  <2>2. API!Ran(a) \subseteq RequestsThatRead \/ (q.origin /\ q.csrf /\ q.method \notin ReadMethods)
    BY <2>1 DEF API!Ran, AdminShape
  <2>3. "Deploy" \notin API!Ran(a)
    BY <2>1 DEF API!Ran, AdminShape
  <2>4. \A i, j \in DOMAIN a.calls : a.calls[i] \notin RequestsThatRead /\ a.calls[j] \notin RequestsThatRead => i = j
    BY <2>1 DEF AdminShape, OneChange
  <2> HIDE DEF a
  <2> QED
    BY <1>3, <2>2, <2>3, <2>4, ReadsChangeNothing DEF API!RequestFaithful, a, ReadMethods, API!Writes
<1>4. \/ a.calls = <<>> \/ a = API!Rest(q)
      \/ a = API!Admin(q) /\ API!IsPrefix(<<"admin">>, q.path)
  BY DEF API!Api, API!Refuse, API!Answer
<1> QED
  BY <1>1, <1>2, <1>3, <1>4, AdminAnswers

---------------------------------------------------------------------------
(* The addresses of pages.  A route matches the address made of its path;  *)
(* no route before it in its table does, because the two differ in a word  *)
(* at an end where no slug and no id has it.                               *)

\* What a path that matches says of the segments' ends; nothing is trimmed
\* off segments that do not end in a slash.
LEMMA MatchEnds ==
  ASSUME NEW path, IsPath(path), NEW q, IsPath(q), Unslashed(q), API!Match(path, q)
  PROVE  /\ Len(q) >= Len(path)
         /\ path[1] # "*slug" => API!Takes(path[1], q[1])
         /\ path[Len(path)] # "*slug" => API!Takes(path[Len(path)], q[Len(q)])
         /\ (\A k \in 1..Len(path) : path[k] # "*slug") => Len(q) = Len(path)
<1> DEFINE s == API!Splat(path)
           n == Len(path)
           l == Len(q)
<1>1. API!Trimmed(path, q) = q
  BY DEF API!Trimmed, API!Last, Unslashed, Blank
<1>2. API!MatchAt(path, q, s)
  BY <1>1 DEF API!Match
<1>3. n \in Nat \ {0} /\ DOMAIN path = 1..n /\ l \in Nat \ {0}
  BY DEF IsPath
<1>4. /\ s = 0 \/ (s \in 1..n /\ path[s] = "*slug")
      /\ s = 0 => \A k \in 1..n : path[k] # "*slug"
  BY SplatStands
<1>5. CASE s = 0
  <2>1. l - n = 0 /\ \A k \in DOMAIN path : API!Takes(path[k], q[k])
    BY <1>2, <1>5 DEF API!MatchAt
  <2> HIDE DEF n, l
  <2>2. l = n
    BY <1>3, <2>1
  <2>3. API!Takes(path[1], q[1]) /\ API!Takes(path[n], q[l])
    BY <1>3, <2>1, <2>2
  <2> QED
    BY <1>3, <2>2, <2>3 DEF n, l
<1>6. CASE s \in 1..n /\ path[s] = "*slug"
  <2>1. /\ l - n >= 0
        /\ \A k \in DOMAIN path \ {s} : API!Takes(path[k], q[IF k < s THEN k ELSE k + (l - n)])
    <3> HIDE DEF s, n, l
    <3>1. s # 0
      BY <1>3, <1>6
    <3> QED
      BY <1>2, <3>1 DEF API!MatchAt, n, l
  <2> HIDE DEF n, l, s
  <2>2. path[1] # "*slug" => API!Takes(path[1], q[1])
    BY <1>3, <1>6, <2>1
  <2>3. path[n] # "*slug" => API!Takes(path[n], q[l])
    <3>1. SUFFICES ASSUME path[n] # "*slug" PROVE API!Takes(path[n], q[l])
      OBVIOUS
    <3>2. n \in DOMAIN path \ {s} /\ ~(n < s)
      BY <1>3, <1>6, <3>1
    <3>3. API!Takes(path[n], q[n + (l - n)])
      BY <2>1, <3>2
    <3>4. n + (l - n) = l
      BY <1>3
    <3> QED
      BY <3>3, <3>4
  <2>4. l >= n
    BY <1>3, <2>1
  <2> QED
    BY <1>3, <1>6, <2>2, <2>3, <2>4 DEF n, l
<1> QED
  BY <1>4, <1>5, <1>6

\* The length of what is built position by position.
LEMMA LengthIs ==
  ASSUME NEW n \in Nat, NEW f, f = [k \in 1..n |-> f[k]] PROVE Len(f) = n /\ DOMAIN f = 1..n
<1> DEFINE Values == {f[k] : k \in 1..n}
<1>1. f \in [1..n -> Values]
  OBVIOUS
<1>2. f \in Seq(Values)
  BY <1>1, SeqDef
<1>3. DOMAIN f = 1..n
  BY <1>1
<1>4. Len(f) \in Nat /\ DOMAIN f = 1..Len(f)
  BY <1>2, LenProperties
<1> QED
  BY <1>3, <1>4

\* The slugs of pages.
Slugs == {slug \in Seq(STRING) : slug # <<>> /\ \A i \in DOMAIN slug : slug[i] # Blank}

\* The slugs that come in are these.
LEMMA SlugsAreSlugs == API!SlugInputs \subseteq Slugs
BY DEF API!SlugInputs, Slugs, Blank

\* What an address has for a token that is no splat.
Filled(token, id) == IF token \in {":id", ":name"} THEN id ELSE token

\* q: a path whose splat, at s, is filled with a slug, its parameters with id.
Filling(q, path, s, slug, id) ==
  /\ Len(slug) - 1 \in Nat /\ Len(q) = Len(path) + (Len(slug) - 1) /\ DOMAIN q = 1..Len(q) /\ API!Splat(path) = s
  /\ \A k \in 1..s - 1 : q[k] = Filled(path[k], id)
  /\ \A k \in 1..Len(slug) : q[s + k - 1] = slug[k]
  /\ \A k \in s + 1..Len(path) : q[k + (Len(slug) - 1)] = Filled(path[k], id)

\* The address of a route with one splat: the tokens before it, the slug, the
\* tokens after it.
LEMMA FillHas ==
  ASSUME NEW path, IsPath(path), NEW s \in 1..Len(path), path[s] = "*slug", \A k \in 1..Len(path) : path[k] = "*slug" => k = s,
         NEW slug \in Slugs, NEW id
  PROVE  Filling(API!Fill(path, slug, id), path, s, slug, id)
<1> DEFINE q == API!Fill(path, slug, id)
           n == Len(path)
           m == Len(slug)
           more == m - 1
<1>1. n \in Nat \ {0} /\ m \in Nat \ {0} /\ more \in Nat /\ n + more \in Nat
  <2>1. n \in Nat \ {0}
    BY DEF IsPath
  <2>2. m \in Nat \ {0}
    BY EmptySeq DEF Slugs
  <2> HIDE DEF n, m
  <2> QED
    BY <2>1, <2>2
<1>2. API!Splat(path) = s
  BY SplatStands
<1>3. q = [k \in 1..n + more |->
             IF s = 0 \/ k < s THEN Filled(path[k], id) ELSE IF k <= s + more THEN slug[k - s + 1] ELSE Filled(path[k - more], id)]
  <2>1. s # 0
    BY <1>1
  <2> QED
    BY <1>2, <2>1 DEF API!Fill, Filled
<1>4. Len(q) = n + more /\ DOMAIN q = 1..n + more
  <2>1. q = [k \in 1..n + more |-> q[k]]
    BY <1>3
  <2> HIDE DEF q, more, n
  <2> QED
    BY <1>1, <2>1, LengthIs
<1> HIDE DEF q, n, m
<1>5. \A k \in 1..s - 1 : q[k] = Filled(path[k], id)
  BY <1>1, <1>3 DEF n
<1>6. \A k \in 1..m : q[s + k - 1] = slug[k]
  <2> TAKE k \in 1..m
  <2>1. s + k - 1 \in 1..n + more /\ ~(s = 0 \/ s + k - 1 < s) /\ s + k - 1 <= s + more /\ (s + k - 1) - s + 1 = k
    BY <1>1 DEF n
  <2> HIDE DEF more
  <2> QED
    BY <1>3, <2>1
<1>7. \A k \in s + 1..n : q[k + more] = Filled(path[k], id)
  <2> TAKE k \in s + 1..n
  <2>1. k + more \in 1..n + more /\ ~(s = 0 \/ k + more < s) /\ ~(k + more <= s + more) /\ (k + more) - more = k
    BY <1>1 DEF n
  <2> HIDE DEF more
  <2> QED
    BY <1>3, <2>1
<1> QED
  BY <1>1, <1>2, <1>4, <1>5, <1>6, <1>7 DEF q, n, m, Filling

\* The path of a route to a page: one splat, and no empty token.
ToPage(path) ==
  /\ IsPath(path)
  /\ \E s \in 1..Len(path) : path[s] = "*slug" /\ \A k \in 1..Len(path) : path[k] = "*slug" => k = s
  /\ \A k \in 1..Len(path) : path[k] # Blank

\* A route matches its own address, with the slug in it; at the ends the
\* address has what the path has there, or the slug's own end.
LEMMA OwnAddress ==
  ASSUME NEW path, ToPage(path), NEW slug \in Slugs, NEW id, id # Blank
  PROVE  LET q == API!Fill(path, slug, id)
         IN /\ IsPath(q) /\ Unslashed(q) /\ Len(q) >= Len(path)
            /\ API!Match(path, q) /\ API!Slug(path, q) = slug
            /\ q[1] = IF path[1] = "*slug" THEN slug[1] ELSE Filled(path[1], id)
            /\ q[Len(q)] = IF path[Len(path)] = "*slug" THEN slug[Len(slug)] ELSE Filled(path[Len(path)], id)
<1> DEFINE q == API!Fill(path, slug, id)
           n == Len(path)
           l == Len(q)
           m == Len(slug)
           more == m - 1
<1>1. PICK s \in 1..n : path[s] = "*slug" /\ \A k \in 1..n : path[k] = "*slug" => k = s
  BY DEF ToPage
<1>2. n \in Nat \ {0} /\ DOMAIN path = 1..n /\ IsPath(path) /\ \A k \in 1..n : path[k] # Blank
  BY DEF ToPage, IsPath
<1>3. /\ more \in Nat /\ l = n + more /\ DOMAIN q = 1..l /\ API!Splat(path) = s
      /\ \A k \in 1..s - 1 : q[k] = Filled(path[k], id)
      /\ \A k \in 1..m : q[s + k - 1] = slug[k]
      /\ \A k \in s + 1..n : q[k + more] = Filled(path[k], id)
  <2>1. Filling(q, path, s, slug, id)
    BY <1>1, <1>2, FillHas
  <2> HIDE DEF q
  <2> QED
    BY <2>1 DEF Filling
<1>4. m \in Nat \ {0} /\ m = more + 1 /\ \A k \in 1..m : slug[k] \in STRING /\ slug[k] # Blank
  <2>1. slug \in Seq(STRING) /\ slug # <<>> /\ \A k \in DOMAIN slug : slug[k] # Blank
    BY DEF Slugs
  <2> QED
    BY <2>1, EmptySeq, LenProperties
<1> HIDE DEF q, n, l, m, more
<1>5. l \in Nat \ {0} /\ l >= n
  BY <1>2, <1>3
<1>6. q[1] = IF path[1] = "*slug" THEN slug[1] ELSE Filled(path[1], id)
  <2>1. CASE s = 1
    <3>1. q[s + 1 - 1] = slug[1]
      BY <1>3, <1>4
    <3> QED
      BY <1>1, <2>1, <3>1
  <2>2. CASE s # 1
    <3>1. 1 \in 1..s - 1 /\ 1 \in 1..n
      BY <1>1, <1>2, <2>2
    <3> QED
      BY <1>1, <1>3, <2>2, <3>1
  <2> QED
    BY <2>1, <2>2
<1>7. q[l] = IF path[n] = "*slug" THEN slug[m] ELSE Filled(path[n], id)
  <2>1. CASE s = n
    <3>1. q[s + m - 1] = slug[m]
      BY <1>3, <1>4
    <3>2. s + m - 1 = l
      BY <1>2, <1>3, <1>4, <2>1
    <3> QED
      BY <1>1, <2>1, <3>1, <3>2
  <2>2. CASE s # n
    <3>1. n \in s + 1..n /\ n \in 1..n
      BY <1>1, <1>2, <2>2
    <3> QED
      BY <1>1, <1>3, <2>2, <3>1
  <2> QED
    BY <2>1, <2>2
<1>8. q[l] # Blank
  <2>1. \A token : token # Blank => Filled(token, id) # Blank
    BY DEF Filled
  <2>2. m \in 1..m /\ n \in 1..n
    BY <1>2, <1>4
  <2> QED
    BY <1>2, <1>4, <1>7, <2>1, <2>2
<1>9. IsPath(q) /\ Unslashed(q)
  BY <1>3, <1>5, <1>8 DEF IsPath, Unslashed, l
<1>10. API!Trimmed(path, q) = q
  BY <1>9 DEF API!Trimmed, API!Last, Unslashed, Blank
<1>11. l - n = more
  BY <1>2, <1>3
<1>12. API!Match(path, q)
  <2>1. \A token : token # Blank => API!Takes(token, Filled(token, id))
    BY DEF API!Takes, Filled, Blank
  <2>2. ASSUME NEW k \in DOMAIN path \ {s} PROVE API!Takes(path[k], q[IF k < s THEN k ELSE k + more])
    <3>1. CASE k < s
      <4>1. k \in 1..s - 1
        BY <1>1, <1>2, <3>1
      <4> QED
        BY <1>2, <1>3, <2>1, <3>1, <4>1
    <3>2. CASE ~(k < s)
      <4>1. k \in s + 1..n
        BY <1>1, <1>2, <3>2
      <4> QED
        BY <1>2, <1>3, <2>1, <3>2, <4>1
    <3> QED
      BY <3>1, <3>2
  <2>3. s # 0 /\ more >= 0
    BY <1>1, <1>2, <1>3
  <2> QED
    BY <1>3, <1>10, <1>11, <2>2, <2>3 DEF API!Match, API!MatchAt, n, l
<1>13. API!Slug(path, q) = slug
  <2> DEFINE part == SubSeq(q, s, s + more)
  <2>1. s \in Int /\ s + more \in Int /\ s <= s + more /\ (s + more) - s + 1 = m
    BY <1>1, <1>2, <1>3, <1>4
  <2>2. \A i \in s..s + more : q[i] \in STRING
    <3> TAKE i \in s..s + more
    <3>1. i - s + 1 \in 1..m /\ s + (i - s + 1) - 1 = i
      BY <1>1, <1>2, <1>3, <1>4
    <3> QED
      BY <1>3, <1>4, <3>1
  <2>3. part \in Seq(STRING) /\ Len(part) = m /\ \A i \in 1..m : part[i] = q[s + i - 1]
    BY <2>1, <2>2, SubSeqProperties
  <2>4. slug \in Seq(STRING) /\ Len(slug) = m
    BY DEF Slugs, m
  <2>5. part = slug
    <3> HIDE DEF part
    <3> QED
      BY <1>3, <2>3, <2>4, SeqEqual
  <2>6. s + Len(q) - Len(path) = s + more
    BY <1>1, <1>2, <1>3 DEF l, n
  <2>7. s # 0
    BY <1>1, <1>2
  <2> QED
    BY <1>3, <1>10, <2>5, <2>6, <2>7 DEF API!Slug
<1> QED
  BY <1>5, <1>6, <1>7, <1>9, <1>12, <1>13 DEF q, n, l, m

\* The first route that takes the method and matches the path answers.
LEMMA FirstAnswers ==
  ASSUME NEW routes, Len(routes) \in Nat, NEW method, NEW segments, NEW i \in 1..Len(routes),
         API!Handles(routes[i], method), API!Match(routes[i].path, segments),
         \A j \in 1..i - 1 : API!Handles(routes[j], method) => ~API!Match(routes[j].path, segments)
  PROVE  API!Resolve(routes, method, segments) = [op |-> routes[i].op, slug |-> API!Slug(routes[i].path, segments)]
<1> DEFINE hits == {k \in 1..Len(routes) : API!Handles(routes[k], method) /\ API!Match(routes[k].path, segments)}
<1>1. i \in hits /\ \A j \in hits : i <= j
  OBVIOUS
<1>2. API!Min(hits) = i
  <2>1. hits \in SUBSET Int
    OBVIOUS
  <2>2. API!Min(hits) \in hits /\ \A j \in hits : API!Min(hits) <= j
    <3> HIDE DEF hits
    <3> QED
      BY <1>1 DEF API!Min
  <2>3. \A a, b \in Int : a <= b /\ b <= a => a = b
    OBVIOUS
  <2> HIDE DEF hits
  <2>4. i \in Int /\ API!Min(hits) \in Int
    BY <1>1, <2>1, <2>2
  <2> QED
    BY <1>1, <2>2, <2>3, <2>4
<1>3. i # 0 /\ hits # {}
  BY <1>1
<1> QED
  BY <1>2, <1>3 DEF API!Resolve, API!SelectInSeq

\* Two paths whose addresses differ, whatever the slug and the id: the one
\* has a word where the other has another, or where a slug or an id stands
\* that is never this word; or it is too short, with no slug in it.
Word(token) == token \notin {"*slug", ":id", ":name"}
Apart(p, path) ==
  \/ (\A k \in 1..Len(p) : p[k] # "*slug") /\ Len(p) < Len(path)
  \/ Word(p[1]) /\ Word(path[1]) /\ p[1] # path[1]
  \/ p[1] \in API!ReservedSlugSegments /\ path[1] = "*slug"
  \/ Word(p[Len(p)]) /\ Word(path[Len(path)]) /\ p[Len(p)] # path[Len(path)]
  \/ p[Len(p)] \in API!ReservedSlugSegments /\ path[Len(path)] = "*slug"
  \/ p[Len(p)] \in {"versions", "preflight"} /\ path[Len(path)] \in {":id", ":name"}

LEMMA ApartMisses ==
  ASSUME NEW p, IsPath(p), NEW path, ToPage(path), Apart(p, path),
         NEW slug \in Slugs, ~API!Reserved(slug), NEW id, id # Blank, id \notin {"versions", "preflight"}
  PROVE  ~API!Match(p, API!Fill(path, slug, id))
<1> DEFINE q == API!Fill(path, slug, id)
           n == Len(p)
           m == Len(path)
           l == Len(q)
<1> SUFFICES ASSUME API!Match(p, q) PROVE FALSE
  OBVIOUS
<1>1. /\ IsPath(q) /\ Unslashed(q) /\ l >= m
      /\ q[1] = IF path[1] = "*slug" THEN slug[1] ELSE Filled(path[1], id)
      /\ q[l] = IF path[m] = "*slug" THEN slug[Len(slug)] ELSE Filled(path[m], id)
  BY OwnAddress
<1>2. /\ l >= n
      /\ p[1] # "*slug" => API!Takes(p[1], q[1])
      /\ p[n] # "*slug" => API!Takes(p[n], q[l])
      /\ (\A k \in 1..n : p[k] # "*slug") => l = n
  BY <1>1, MatchEnds
<1>3. n \in Nat /\ m \in Nat /\ l \in Nat
  BY <1>1 DEF IsPath, ToPage
<1>4. \A k \in {1, Len(slug)} : slug[k] \notin API!ReservedSlugSegments
  <2>1. slug \in Seq(STRING) /\ slug # <<>>
    BY DEF Slugs
  <2>2. 1 \in DOMAIN slug /\ Len(slug) \in DOMAIN slug
    BY <2>1, EmptySeq, LenProperties
  <2> QED
    BY <2>2 DEF API!Reserved
<1>5. \A token \in API!ReservedSlugSegments : Word(token)
  BY DEF API!ReservedSlugSegments, Word
<1>6. \A token, segment : API!Takes(token, segment) /\ Word(token) => segment = token
  BY DEF API!Takes, Word
<1>7. \A token : Word(token) => token # "*slug" /\ Filled(token, id) = token
  BY DEF Word, Filled
<1>8. Word("versions") /\ Word("preflight")
  BY DEF Word
<1> HIDE DEF q, n, m, l
<1>9. CASE (\A k \in 1..n : p[k] # "*slug") /\ n < m
  BY <1>1, <1>2, <1>3, <1>9
<1>10. CASE Word(p[1]) /\ Word(path[1]) /\ p[1] # path[1]
  BY <1>1, <1>2, <1>6, <1>7, <1>10
<1>11. CASE p[1] \in API!ReservedSlugSegments /\ path[1] = "*slug"
  BY <1>1, <1>2, <1>4, <1>5, <1>6, <1>7, <1>11
<1>12. CASE Word(p[n]) /\ Word(path[m]) /\ p[n] # path[m]
  BY <1>1, <1>2, <1>6, <1>7, <1>12
<1>13. CASE p[n] \in API!ReservedSlugSegments /\ path[m] = "*slug"
  BY <1>1, <1>2, <1>4, <1>5, <1>6, <1>7, <1>13
<1>14. CASE p[n] \in {"versions", "preflight"} /\ path[m] \in {":id", ":name"}
  <2>1. Filled(path[m], id) = id /\ path[m] # "*slug"
    BY <1>14 DEF Filled
  <2> QED
    BY <1>1, <1>2, <1>6, <1>7, <1>8, <1>14, <2>1
<1> QED
  BY <1>9, <1>10, <1>11, <1>12, <1>13, <1>14 DEF Apart, n, m

\* A page below another is not a version of it: no slug has a word of the
\* routes in it.
LEMMA PagesAreNotVersions ==
  ASSUME NEW slug \in Slugs, ~API!Reserved(slug), NEW id, id # Blank
  PROVE  ~API!Match(<<"pages", "*slug", "versions", ":id">>, API!Fill(<<"pages", "*slug">>, slug, id))
<1> DEFINE q == API!Fill(<<"pages", "*slug">>, slug, id)
           p == <<"pages", "*slug", "versions", ":id">>
           l == Len(q)
           m == Len(slug)
<1> SUFFICES ASSUME API!Match(p, q) PROVE FALSE
  OBVIOUS
<1>1. IsPath(p) /\ IsPath(<<"pages", "*slug">>) /\ ToPage(<<"pages", "*slug">>)
  <2>1. "pages" # Blank /\ "*slug" # Blank
    BY DEF Blank
  <2>2. \A k \in 1..2 : <<"pages", "*slug">>[k] # Blank
    BY <2>1
  <2> QED
    BY <2>2 DEF IsPath, ToPage
<1>2. API!Splat(p) = 2
  BY <1>1, SplatStands, SMTT(60)
<1>3. m - 1 \in Nat /\ l = 2 + (m - 1) /\ DOMAIN q = 1..l /\ \A k \in 1..m : q[2 + k - 1] = slug[k]
  <2> DEFINE path == <<"pages", "*slug">>
  <2>1. Len(path) = 2 /\ 2 \in 1..Len(path) /\ path[2] = "*slug" /\ \A k \in 1..Len(path) : path[k] = "*slug" => k = 2
    OBVIOUS
  <2>2. q = API!Fill(path, slug, id) /\ IsPath(path)
    BY <1>1
  <2> HIDE DEF path, q
  <2>3. Filling(q, path, 2, slug, id)
    BY <2>1, <2>2, FillHas
  <2> QED
    BY <2>1, <2>3 DEF Filling
<1>4. API!Trimmed(p, q) = q
  <2>1. Unslashed(q)
    BY <1>1, OwnAddress
  <2> HIDE DEF q
  <2> QED
    BY <2>1 DEF API!Trimmed, API!Last, Unslashed, Blank
<1>5. slug \in Seq(STRING) /\ m \in Nat
  BY DEF Slugs
<1> HIDE DEF q, l, m
<1>6. l - 4 >= 0 /\ API!Takes("versions", q[3 + (l - 4)])
  BY <1>2, <1>4 DEF API!Match, API!MatchAt, l
<1>7. m - 2 \in 1..m /\ 3 + (l - 4) = 2 + (m - 1) - 1
  BY <1>3, <1>5, <1>6
<1>8. slug[m - 1] = "versions" /\ m - 1 \in DOMAIN slug
  BY <1>3, <1>5, <1>6, <1>7 DEF m, API!Takes
<1> QED
  BY <1>8 DEF API!Reserved, API!ReservedSlugSegments

\* A table in which no route stands before another one that has a slug in its
\* path, and takes what that one is for.
Versions == <<"pages", "*slug", "versions", ":id">>
Below == <<"pages", "*slug">>
Separate(routes) ==
  /\ Len(routes) \in Nat /\ DOMAIN routes = 1..Len(routes)
  /\ \A i \in 1..Len(routes) : routes[i].method # "HEAD"
  /\ \A i \in 1..Len(routes) :
       API!Splat(routes[i].path) # 0 /\ routes[i].op # "assets" =>
         /\ ToPage(routes[i].path)
         /\ \A j \in 1..i - 1 :
              routes[j].method = routes[i].method =>
                /\ IsPath(routes[j].path)
                /\ Apart(routes[j].path, routes[i].path) \/ (routes[j].path = Versions /\ routes[i].path = Below)

\* In such a table every route with a slug in its path is reached.
LEMMA SeparateAnswers ==
  ASSUME NEW routes, Separate(routes), NEW i \in 1..Len(routes), API!Splat(routes[i].path) # 0, routes[i].op # "assets",
         NEW slug \in Slugs, ~API!Reserved(slug), NEW id, id # Blank, id \notin {"versions", "preflight"}
  PROVE  LET r == routes[i]
             address == API!Fill(r.path, slug, id)
         IN /\ \A method \in API!Methods(r) : API!Resolve(routes, method, address) = [op |-> r.op, slug |-> slug]
            /\ r.method \in API!Allowed(routes, address)
<1> DEFINE r == routes[i]
           address == API!Fill(r.path, slug, id)
<1>1. ToPage(r.path) /\ Len(routes) \in Nat /\ i \in DOMAIN routes
  BY DEF Separate
<1>2. API!Match(r.path, address) /\ API!Slug(r.path, address) = slug
  BY <1>1, OwnAddress
<1>3. ASSUME NEW j \in 1..i - 1, routes[j].method = r.method
      PROVE  ~API!Match(routes[j].path, address)
  <2>1. IsPath(routes[j].path) /\ (Apart(routes[j].path, r.path) \/ (routes[j].path = Versions /\ r.path = Below))
    BY <1>3 DEF Separate
  <2>2. CASE Apart(routes[j].path, r.path)
    BY <1>1, <2>1, <2>2, ApartMisses
  <2>3. CASE routes[j].path = Versions /\ r.path = Below
    BY <2>3, PagesAreNotVersions DEF Versions, Below
  <2> QED
    BY <2>1, <2>2, <2>3
<1>4. ASSUME NEW method \in API!Methods(r) PROVE API!Resolve(routes, method, address) = [op |-> r.op, slug |-> slug]
  <2>1. API!Handles(r, method)
    BY DEF API!Methods, API!Handles
  <2>2. ASSUME NEW j \in 1..i - 1, API!Handles(routes[j], method) PROVE routes[j].method = r.method
    <3>1. routes[j].method # "HEAD" /\ r.method # "HEAD"
      <4>1. j \in 1..Len(routes)
        BY <1>1
      <4> QED
        BY <4>1 DEF Separate
    <3> QED
      BY <2>2, <3>1 DEF API!Methods, API!Handles
  <2>3. \A j \in 1..i - 1 : API!Handles(routes[j], method) => ~API!Match(routes[j].path, address)
    BY <1>3, <2>2
  <2> HIDE DEF r, address
  <2>4. API!Resolve(routes, method, address) = [op |-> routes[i].op, slug |-> API!Slug(routes[i].path, address)]
    BY <1>1, <1>2, <2>1, <2>3, FirstAnswers DEF r
  <2> QED
    BY <1>2, <2>4 DEF r
<1>5. r.method \in API!Allowed(routes, address)
  <2>1. r.method \in API!Methods(r)
    BY DEF API!Methods
  <2> HIDE DEF r, address
  <2> QED
    BY <1>1, <1>2, <2>1 DEF API!Allowed, r
<1> QED
  BY <1>4, <1>5

\* The forms of the paths: one to three words, or a page, one of its versions
\* and an action on either.
LEMMA Forms ==
  /\ \A a : IsPath(<<a>>) /\ (a # "*slug" => API!Splat(<<a>>) = 0)
  /\ \A a, b : IsPath(<<a, b>>) /\ (a # "*slug" /\ b # "*slug" => API!Splat(<<a, b>>) = 0)
  /\ \A a, b, c : IsPath(<<a, b, c>>) /\ (a # "*slug" /\ b # "*slug" /\ c # "*slug" => API!Splat(<<a, b, c>>) = 0)
  /\ \A a, b, c, d :
       IsPath(<<a, b, c, d>>) /\ (a # "*slug" /\ b # "*slug" /\ c # "*slug" /\ d # "*slug" => API!Splat(<<a, b, c, d>>) = 0)
  /\ ToPage(<<"*slug">>)
  /\ \A a : a # "*slug" /\ a # Blank => ToPage(<<a, "*slug">>)
  /\ \A a, b : a # "*slug" /\ a # Blank /\ b # "*slug" /\ b # Blank => ToPage(<<a, "*slug", b>>)
  /\ \A a, b, c : /\ a # "*slug" /\ a # Blank /\ b # "*slug" /\ b # Blank /\ c # "*slug" /\ c # Blank
                  => ToPage(<<a, "*slug", b, c>>)
  /\ \A a, b, c, d :
       /\ a # "*slug" /\ a # Blank /\ b # "*slug" /\ b # Blank /\ c # "*slug" /\ c # Blank /\ d # "*slug" /\ d # Blank
       => ToPage(<<a, "*slug", b, c, d>>)
<1>1. "*slug" # Blank
  BY DEF Blank
<1>2. /\ \A a : IsPath(<<a>>)
      /\ \A a, b : IsPath(<<a, b>>)
      /\ \A a, b, c : IsPath(<<a, b, c>>)
      /\ \A a, b, c, d : IsPath(<<a, b, c, d>>)
      /\ \A a, b, c, d, e : IsPath(<<a, b, c, d, e>>)
  BY DEF IsPath
<1>3. \A a, b : a # "*slug" /\ b # "*slug" => API!Splat(<<a, b>>) = 0
  BY <1>2, SplatStands
<1>4. \A a : a # "*slug" => API!Splat(<<a>>) = 0
  BY <1>2, SplatStands
<1>5. \A a, b, c : a # "*slug" /\ b # "*slug" /\ c # "*slug" => API!Splat(<<a, b, c>>) = 0
  BY <1>2, SplatStands
<1>6. \A a, b, c, d : a # "*slug" /\ b # "*slug" /\ c # "*slug" /\ d # "*slug" => API!Splat(<<a, b, c, d>>) = 0
  BY <1>2, SplatStands
<1>7. /\ ToPage(<<"*slug">>)
      /\ \A a : a # "*slug" /\ a # Blank => ToPage(<<a, "*slug">>)
  BY <1>1, <1>2 DEF ToPage
<1>8. \A a, b : a # "*slug" /\ a # Blank /\ b # "*slug" /\ b # Blank => ToPage(<<a, "*slug", b>>)
  BY <1>1, <1>2 DEF ToPage
<1>9. \A a, b, c : /\ a # "*slug" /\ a # Blank /\ b # "*slug" /\ b # Blank /\ c # "*slug" /\ c # Blank
                   => ToPage(<<a, "*slug", b, c>>)
  BY <1>1, <1>2 DEF ToPage
<1>10. \A a, b, c, d :
         /\ a # "*slug" /\ a # Blank /\ b # "*slug" /\ b # Blank /\ c # "*slug" /\ c # Blank /\ d # "*slug" /\ d # Blank
         => ToPage(<<a, "*slug", b, c, d>>)
  BY <1>1, <1>2 DEF ToPage
<1> QED
  BY <1>2, <1>3, <1>4, <1>5, <1>6, <1>7, <1>8, <1>9, <1>10

\* What leads to a page is a path.
LEMMA PageIsPath == \A path : ToPage(path) => IsPath(path)
BY DEF ToPage

\* The words of the routes.
Spoken == {"pages", "versions", "raw", "view", "admin", "preflight", "password", "title", "publish", "rollback", "approve", "reject",
           "approval", "disable", "enable", "theme", "reveal-password", "workspace", "refresh-schedule", "delete", "restore",
           "edit-token", "preview-token", "deploy-source", ":id"}

LEMMA SpokenWords == \A a \in Spoken : a # "*slug" /\ a # Blank
<1>1. \A a \in Spoken : a # "*slug"
  BY DEF Spoken
<1>2. \A a \in Spoken : a # Blank
  BY ZenonT(60) DEF Spoken, Blank
<1> QED
  BY <1>1, <1>2

\* The five tables, each of them in order.
LEMMA AdminReadsSeparate == Separate(API!AdminReads)
<1> DEFINE R == API!AdminReads
<1>1. /\ R[1].path = <<"pages">> /\ R[2].path = <<"refresh-health">> /\ R[3].path = <<"workspaces">> /\ R[4].path = <<"portals">>
      /\ R[5].path = <<"portals", ":id">> /\ R[6].path = Versions /\ R[7].path = Below
      /\ R[8].path = <<"templates">> /\ R[9].path = <<"templates", ":name">>
  BY DEF API!AdminReads, API!Get, API!Route, Versions, Below
<1>2. Len(R) = 9 /\ DOMAIN R = 1..9 /\ \A i \in 1..9 : R[i].method = "GET"
  BY DEF API!AdminReads, API!Get, API!Route
<1>3. \A i \in {1, 2, 3, 4, 5, 8, 9} : IsPath(R[i].path) /\ API!Splat(R[i].path) = 0
  <2> HIDE DEF R
  <2>1. \A i \in {1, 2, 3, 4, 8} : \E a : R[i].path = <<a>> /\ a # "*slug"
    BY <1>1
  <2>2. \A i \in {5, 9} : \E a, b : R[i].path = <<a, b>> /\ a # "*slug" /\ b # "*slug"
    BY <1>1
  <2>3. \A i \in {1, 2, 3, 4, 8} : IsPath(R[i].path) /\ API!Splat(R[i].path) = 0
    BY <2>1, Forms
  <2>4. ASSUME NEW i \in {5, 9} PROVE IsPath(R[i].path) /\ API!Splat(R[i].path) = 0
    <3>1. PICK a, b : R[i].path = <<a, b>> /\ a # "*slug" /\ b # "*slug"
      BY <2>2
    <3> QED
      BY <3>1, Forms
  <2> QED
    BY <2>3, <2>4
<1>4. ToPage(Versions) /\ ToPage(Below)
  <2>1. {"pages", "versions", ":id"} \subseteq Spoken
    BY DEF Spoken
  <2> QED
    BY <2>1, Forms, SpokenWords DEF Versions, Below
<1>5. /\ Apart(<<"pages">>, Versions) /\ Apart(<<"pages">>, Below)
      /\ \A a \in {"refresh-health", "workspaces", "portals"} :
           /\ Apart(<<a>>, Versions) /\ Apart(<<a, ":id">>, Versions)
           /\ Apart(<<a>>, Below) /\ Apart(<<a, ":id">>, Below)
  BY DEF Apart, Versions, Below, Word
<1>6. ASSUME NEW i \in 1..9, API!Splat(R[i].path) # 0 PROVE i \in {6, 7}
  BY <1>3, <1>6
<1>7. ASSUME NEW i \in {6, 7}, NEW j \in 1..i - 1
      PROVE  IsPath(R[j].path) /\ (Apart(R[j].path, R[i].path) \/ (R[j].path = Versions /\ R[i].path = Below))
  <2> HIDE DEF R
  <2>1. j \in {1, 2, 3, 4, 5} \/ (j = 6 /\ i = 7)
    OBVIOUS
  <2> QED
    BY <1>1, <1>3, <1>4, <1>5, <2>1, ZenonT(60) DEF ToPage
<1> QED
  BY <1>1, <1>2, <1>4, <1>6, <1>7 DEF Separate

LEMMA RestSeparate == Separate(API!RestRoutes)
<1> DEFINE R == API!RestRoutes
           On(action) == <<"pages", "*slug", action>>
<1>1. /\ R[1].path = <<"pages">> /\ R[2].path = <<"pages">> /\ R[3].path = On("password") /\ R[4].path = On("title")
      /\ R[5].path = Below /\ R[6].path = On("versions") /\ R[7].path = On("versions") /\ R[8].path = On("preflight")
      /\ R[9].path = Versions /\ R[10].path = On("publish") /\ R[11].path = On("rollback") /\ R[12].path = Below
  BY DEF API!RestRoutes, API!Get, API!Post, API!OnPage, API!Route, Versions, Below
<1>2. /\ Len(R) = 12 /\ DOMAIN R = 1..12
      /\ \A i \in {1, 7, 8, 9, 12} : R[i].method = "GET"
      /\ \A i \in {2, 3, 4, 6, 10, 11} : R[i].method = "POST"
      /\ R[5].method = "DELETE"
  BY DEF API!RestRoutes, API!Get, API!Post, API!OnPage, API!Route
<1>3. /\ ToPage(Versions) /\ ToPage(Below)
      /\ \A a \in {"password", "title", "versions", "preflight", "publish", "rollback"} : ToPage(On(a))
  <2>1. {"pages", "versions", ":id", "password", "title", "preflight", "publish", "rollback"} \subseteq Spoken
    BY DEF Spoken
  <2> QED
    BY <2>1, Forms, SpokenWords DEF Versions, Below
<1>4. IsPath(<<"pages">>) /\ API!Splat(<<"pages">>) = 0
  <2>1. "pages" # "*slug"
    OBVIOUS
  <2> QED
    BY <2>1, Forms
<1>5. \A path \in {Versions, Below} : Apart(<<"pages">>, path)
  BY DEF Apart, Versions, Below, Word
<1>6. \A a : Apart(<<"pages">>, On(a))
  BY DEF Apart
<1>7. \A a \in {"versions", "preflight"} : Apart(On(a), Versions) /\ Apart(On(a), Below)
  BY DEF Apart, Versions, Below, Word, API!ReservedSlugSegments
<1>8. \A a, b \in {"password", "title", "versions", "preflight", "publish", "rollback"} : a # b => Apart(On(a), On(b))
  <2>1. \A a \in {"password", "title", "versions", "preflight", "publish", "rollback"} : Word(a)
    BY DEF Word
  <2>2. \A a, b : Word(a) /\ Word(b) /\ a # b => Apart(On(a), On(b))
    BY DEF Apart
  <2> QED
    BY <2>1, <2>2
<1> HIDE DEF R, On
<1>9. \A i \in 3..12 : ToPage(R[i].path) /\ IsPath(R[i].path)
  <2>1. ASSUME NEW i \in 3..12 PROVE ToPage(R[i].path)
    <3>1. i \in {3, 4, 5, 6, 7, 8, 9, 10, 11, 12}
      OBVIOUS
    <3> QED
      BY <1>1, <1>3, <3>1
  <2> QED
    BY <2>1, PageIsPath
<1>10. \A i \in {1, 2} : IsPath(R[i].path) /\ API!Splat(R[i].path) = 0
  BY <1>1, <1>4
<1>11. ASSUME NEW i \in 3..12, NEW j \in 1..i - 1, R[j].method = R[i].method
       PROVE  Apart(R[j].path, R[i].path) \/ (R[j].path = Versions /\ R[i].path = Below)
  <2>1. CASE R[i].method = "GET"
    <3>1. i \in {7, 8, 9, 12} /\ j \in {1, 7, 8, 9}
      BY <1>2, <1>11, <2>1
    <3> QED
      BY <1>1, <1>5, <1>6, <1>7, <1>8, <3>1
  <2>2. CASE R[i].method = "POST"
    <3>1. i \in {3, 4, 6, 10, 11} /\ j \in {2, 3, 4, 6, 10}
      BY <1>2, <1>11, <2>2
    <3> QED
      BY <1>1, <1>6, <1>8, <3>1
  <2>3. CASE R[i].method = "DELETE"
    BY <1>2, <1>11, <2>3
  <2> QED
    BY <1>2, <2>1, <2>2, <2>3
<1>12. ASSUME NEW i \in 1..12, API!Splat(R[i].path) # 0 PROVE i \in 3..12
  BY <1>10, <1>12
<1>13. \A j \in 1..12 : IsPath(R[j].path) /\ R[j].method # "HEAD"
  BY <1>2, <1>9, <1>10, SMTT(60)
<1> QED
  BY <1>2, <1>9, <1>11, <1>12, <1>13 DEF Separate, R

LEMMA ShellSeparate == Separate(API!ShellRoutes)
<1> DEFINE R == API!ShellRoutes
           View == <<"view", "*slug">>
           Admin == <<"admin", "*slug">>
<1>1. /\ R[1].path = <<"healthz">> /\ R[2].path = <<"readyz">> /\ R[3].path = <<"api", "me">> /\ R[4].path = View
      /\ R[5].path = <<"admin">> /\ R[6].path = <<"admin", "welcome">> /\ R[7].path = <<"admin", "templates">>
      /\ R[8].path = <<"admin", "portals">> /\ R[9].path = Admin
  BY DEF API!ShellRoutes, API!Get, API!Route
<1>2. Len(R) = 9 /\ DOMAIN R = 1..9 /\ \A i \in 1..9 : R[i].method = "GET"
  BY DEF API!ShellRoutes, API!Get, API!Route
<1>3. ToPage(View) /\ ToPage(Admin)
  <2>1. {"view", "admin"} \subseteq Spoken
    BY DEF Spoken
  <2> QED
    BY <2>1, Forms, SpokenWords
<1>4. /\ \A a \in {"healthz", "readyz"} : Apart(<<a>>, View) /\ Apart(<<a>>, Admin)
      /\ Apart(<<"api", "me">>, View) /\ Apart(<<"api", "me">>, Admin) /\ Apart(View, Admin) /\ Apart(<<"admin">>, Admin)
      /\ \A a \in {"welcome", "templates", "portals"} : Apart(<<"admin", a>>, Admin)
  BY DEF Apart, Word, API!ReservedSlugSegments
<1> HIDE DEF View, Admin, R
<1>5. \A i \in {1, 2, 3, 5, 6, 7, 8} : IsPath(R[i].path) /\ API!Splat(R[i].path) = 0
  <2>1. \A i \in {1, 2, 5} : \E a : R[i].path = <<a>> /\ a # "*slug"
    BY <1>1
  <2>2. \A i \in {3, 6, 7, 8} : \E a, b : R[i].path = <<a, b>> /\ a # "*slug" /\ b # "*slug"
    BY <1>1
  <2>3. \A i \in {1, 2, 5} : IsPath(R[i].path) /\ API!Splat(R[i].path) = 0
    BY <2>1, Forms
  <2>4. ASSUME NEW i \in {3, 6, 7, 8} PROVE IsPath(R[i].path) /\ API!Splat(R[i].path) = 0
    <3>1. PICK a, b : R[i].path = <<a, b>> /\ a # "*slug" /\ b # "*slug"
      BY <2>2
    <3> QED
      BY <3>1, Forms
  <2> QED
    BY <2>3, <2>4
<1>6. ASSUME NEW i \in 1..9, API!Splat(R[i].path) # 0 PROVE i \in {4, 9}
  BY <1>5, <1>6
<1>7. ASSUME NEW i \in {4, 9}, NEW j \in 1..i - 1 PROVE IsPath(R[j].path) /\ Apart(R[j].path, R[i].path)
  <2>1. j \in {1, 2, 3} \/ (j \in {4, 5, 6, 7, 8} /\ i = 9)
    OBVIOUS
  <2> QED
    BY <1>1, <1>3, <1>4, <1>5, <2>1, ZenonT(60) DEF ToPage
<1>8. \A i \in {4, 9} : ToPage(R[i].path)
  BY <1>1, <1>3, SMTT(60)
<1> QED
  BY <1>2, <1>6, <1>7, <1>8 DEF Separate, R

LEMMA ContentSeparate == Separate(API!ContentRoutes)
<1> DEFINE R == API!ContentRoutes
           Any == <<"*slug">>
           Raw == <<"raw", "*slug">>
           Saves == <<"raw", "*slug", "versions">>
<1>1. /\ R[1].path = <<"healthz">> /\ R[2].path = <<"readyz">> /\ R[3].path = <<"assets", "*slug">> /\ R[4].path = Raw
      /\ R[5].path = Saves /\ R[6].path = Saves /\ R[7].path = <<"raw-template", ":id">> /\ R[8].path = <<"portal", ":id">>
      /\ R[9].path = Any /\ R[10].path = <<"portal", ":id", "lock">> /\ R[11].path = <<"portal", ":id">> /\ R[12].path = Any
  BY DEF API!ContentRoutes, API!Get, API!Post, API!Route
<1>2. /\ Len(R) = 12 /\ DOMAIN R = 1..12 /\ R[3].op = "assets"
      /\ \A i \in {1, 2, 3, 4, 7, 8, 9} : R[i].method = "GET"
      /\ \A i \in {5, 10, 11, 12} : R[i].method = "POST"
      /\ R[6].method = "OPTIONS"
  BY DEF API!ContentRoutes, API!Get, API!Post, API!Route
<1>3. ToPage(Any) /\ ToPage(Raw) /\ ToPage(Saves) /\ IsPath(<<"assets", "*slug">>)
  <2>1. {"raw", "versions"} \subseteq Spoken
    BY DEF Spoken
  <2> QED
    BY <2>1, Forms, SpokenWords
<1>4. /\ \A a \in {"healthz", "readyz"} : Apart(<<a>>, Raw) /\ Apart(<<a>>, Any)
      /\ Apart(<<"assets", "*slug">>, Raw) /\ Apart(<<"assets", "*slug">>, Any) /\ Apart(Raw, Any) /\ Apart(Saves, Any)
      /\ Apart(<<"raw-template", ":id">>, Any) /\ Apart(<<"portal", ":id">>, Any) /\ Apart(<<"portal", ":id", "lock">>, Any)
  BY DEF Apart, Word, API!ReservedSlugSegments
<1> HIDE DEF Any, Raw, Saves, R
<1>5. \A i \in {1, 2, 7, 8, 10, 11} : IsPath(R[i].path) /\ API!Splat(R[i].path) = 0
  <2>1. \A i \in {1, 2} : \E a : R[i].path = <<a>> /\ a # "*slug"
    BY <1>1
  <2>2. \A i \in {7, 8, 11} : \E a, b : R[i].path = <<a, b>> /\ a # "*slug" /\ b # "*slug"
    BY <1>1
  <2>3. \A i \in {1, 2} : IsPath(R[i].path) /\ API!Splat(R[i].path) = 0
    BY <2>1, Forms
  <2>4. ASSUME NEW i \in {7, 8, 11} PROVE IsPath(R[i].path) /\ API!Splat(R[i].path) = 0
    <3>1. PICK a, b : R[i].path = <<a, b>> /\ a # "*slug" /\ b # "*slug"
      BY <2>2
    <3> QED
      BY <3>1, Forms
  <2>5. IsPath(R[10].path) /\ API!Splat(R[10].path) = 0
    <3>1. "portal" # "*slug" /\ ":id" # "*slug" /\ "lock" # "*slug"
      OBVIOUS
    <3> QED
      BY <1>1, <3>1, Forms
  <2> QED
    BY <2>3, <2>4, <2>5
<1>6. ASSUME NEW i \in 1..12, API!Splat(R[i].path) # 0, R[i].op # "assets" PROVE i \in {4, 5, 6, 9, 12}
  BY <1>2, <1>5, <1>6
<1>7. \A j \in 1..12 : IsPath(R[j].path) /\ R[j].method # "HEAD"
  <2>1. ASSUME NEW j \in 1..12 PROVE IsPath(R[j].path)
    <3>1. j \in {1, 2, 7, 8, 10, 11} \/ j \in {3, 4, 5, 6, 9, 12}
      OBVIOUS
    <3>2. IsPath(Any) /\ IsPath(Raw) /\ IsPath(Saves)
      BY <1>3, PageIsPath
    <3>3. j \in {3, 4, 5, 6, 9, 12} => IsPath(R[j].path)
      BY <1>1, <1>3, <3>2
    <3> QED
      BY <1>5, <3>1, <3>3
  <2>2. \A j \in 1..12 : R[j].method # "HEAD"
    BY <1>2
  <2> QED
    BY <2>1, <2>2
<1>8. ASSUME NEW i \in {4, 5, 6, 9, 12}, NEW j \in 1..i - 1, R[j].method = R[i].method PROVE Apart(R[j].path, R[i].path)
  <2>1. \/ i = 4 /\ j \in {1, 2, 3}
        \/ i = 9 /\ j \in {1, 2, 3, 4, 7, 8}
        \/ i = 12 /\ j \in {5, 10, 11}
    BY <1>2, <1>8
  <2> QED
    BY <1>1, <1>4, <2>1
<1>9. \A i \in {4, 5, 6, 9, 12} : ToPage(R[i].path)
  BY <1>1, <1>3, SMTT(60)
<1> QED
  BY <1>2, <1>6, <1>7, <1>8, <1>9 DEF Separate, R

\* Where an action on a page stands in the table of the dashboard.
Place(action) ==
  CASE action = "approve" -> 13 [] action = "reject" -> 14 [] action = "publish" -> 15 [] action = "rollback" -> 16
    [] action = "approval" -> 17 [] action = "disable" -> 18 [] action = "enable" -> 19 [] action = "theme" -> 20
    [] action = "password" -> 21 [] action = "reveal-password" -> 22 [] action = "workspace" -> 24 [] action = "title" -> 25
    [] action = "refresh-schedule" -> 26 [] action = "delete" -> 27 [] action = "restore" -> 28 [] action = "edit-token" -> 29
    [] action = "preview-token" -> 30 [] action = "deploy-source" -> 35
    [] OTHER -> 0

LEMMA AdminMutationsSeparate == Separate(API!AdminMutations)
<1> DEFINE R == API!AdminMutations
           Indices == {13, 14, 15, 16, 17, 18, 19, 20, 21, 22, 24, 25, 26, 27, 28, 29, 30, 35}
           Acts(i, a) == /\ a \in Spoken /\ Word(a) /\ Place(a) = i
                         /\ R[i].path \in {<<"pages", "*slug", a>>, <<"pages", "*slug", "versions", ":id", a>>}
<1>1. Len(R) = 35 /\ DOMAIN R = 1..35 /\ \A i \in 1..35 : R[i].method \in {"POST", "DELETE"}
  BY SMTT(60) DEF API!AdminMutations, API!OnPage, API!OnVersion, API!OnPortal, API!Post, API!Route
<1>2. /\ R[13] = API!OnVersion("approve", "approve") /\ R[14] = API!OnVersion("reject", "reject")
      /\ R[15] = API!OnPage("publish", "publish") /\ R[16] = API!OnPage("rollback", "rollback")
      /\ R[17] = API!OnPage("approval", "setApproval") /\ R[18] = API!OnPage("disable", "disable")
      /\ R[19] = API!OnPage("enable", "enable") /\ R[20] = API!OnPage("theme", "setTheme")
      /\ R[21] = API!OnPage("password", "setPassword") /\ R[22] = API!OnPage("reveal-password", "revealPassword")
      /\ R[24] = API!OnPage("workspace", "assignWorkspace") /\ R[25] = API!OnPage("title", "setTitle")
      /\ R[26] = API!OnPage("refresh-schedule", "setRefreshSchedule") /\ R[27] = API!OnPage("delete", "deletePage")
      /\ R[28] = API!OnPage("restore", "restorePage") /\ R[29] = API!OnPage("edit-token", "editToken")
      /\ R[30] = API!OnPage("preview-token", "previewToken") /\ R[35] = API!OnPage("deploy-source", "deploySource")
  BY SMTT(60) DEF API!AdminMutations
<1>3. \A x, op : API!OnPortal(x, op).path = <<"portals", ":id", x>>
  BY DEF API!OnPortal, API!Post, API!Route
<1>4. \A path, op : API!Post(path, op).path = path /\ API!Post(path, op).method = "POST"
  BY DEF API!Post, API!Route
<1>5. \A method, path, op : API!Route(method, path, op).path = path /\ API!Route(method, path, op).method = method
  BY DEF API!Route
<1>6. /\ R[1] = API!Post(<<"workspaces">>, "createWorkspace") /\ R[4] = API!Post(<<"portals">>, "createPortal")
      /\ R[23] = API!Post(<<"pages">>, "createPage") /\ R[32] = API!Post(<<"templates">>, "registerTemplate")
  BY DEF API!AdminMutations
<1>7. /\ R[31] = API!Post(<<"templates", "validate">>, "validateTemplate")
      /\ R[33] = API!Route("DELETE", <<"templates", ":name">>, "deleteTemplate")
  BY DEF API!AdminMutations
<1>8. /\ R[2] = API!Post(<<"workspaces", ":id", "rename">>, "renameWorkspace")
      /\ R[3] = API!Post(<<"workspaces", ":id", "delete">>, "deleteWorkspace")
      /\ R[5] = API!OnPortal("rename", "renamePortal") /\ R[6] = API!OnPortal("password", "setPortalPassword")
      /\ R[7] = API!OnPortal("reveal-password", "revealPortalPassword") /\ R[8] = API!OnPortal("pages", "addPortalPage")
      /\ R[11] = API!OnPortal("home", "setPortalHome") /\ R[12] = API!OnPortal("delete", "deletePortal")
      /\ R[34] = API!Post(<<"templates", ":name", "preview-token">>, "templatePreviewToken")
  BY SMTT(60) DEF API!AdminMutations
<1>9. /\ R[9] = API!Post(<<"portals", ":id", "pages", "update">>, "updatePortalPage")
       /\ R[10] = API!Post(<<"portals", ":id", "pages", "remove">>, "removePortalPage")
  BY DEF API!AdminMutations
<1> HIDE DEF R
<1> DEFINE Elsewhere(path) == IsPath(path) /\ API!Splat(path) = 0 /\ Word(path[1]) /\ path[1] # "pages"
<1>10. \A a \in {"workspaces", "portals", "templates"} : Word(a) /\ a # "pages" /\ a # "*slug"
  BY DEF Word
<1>11. \A i \in {1, 4, 32} : Elsewhere(R[i].path)
  <2>1. ASSUME NEW i \in {1, 4, 32} PROVE \E a \in {"workspaces", "portals", "templates"} : R[i].path = <<a>>
    BY <1>4, <1>6
  <2>2. ASSUME NEW i \in {1, 4, 32} PROVE Elsewhere(R[i].path)
    <3>1. PICK a \in {"workspaces", "portals", "templates"} : R[i].path = <<a>>
      BY <2>1
    <3>2. <<a>>[1] = a
      OBVIOUS
    <3> QED
      BY <1>10, <3>1, <3>2, Forms
  <2> QED
    BY <2>2
<1>12. \A i \in {31, 33} : Elsewhere(R[i].path)
  <2>1. \A i \in {31, 33} : \E b \in {"validate", ":name"} : R[i].path = <<"templates", b>>
    BY <1>4, <1>5, <1>7
  <2>2. ASSUME NEW i \in {31, 33} PROVE Elsewhere(R[i].path)
    <3>1. PICK b \in {"validate", ":name"} : R[i].path = <<"templates", b>>
      BY <2>1
    <3>2. b # "*slug" /\ <<"templates", b>>[1] = "templates"
      OBVIOUS
    <3> QED
      BY <1>10, <3>1, <3>2, Forms
  <2> QED
    BY <2>2
<1>13. \A i \in {2, 3, 5, 6, 7, 8, 11, 12, 34} : Elsewhere(R[i].path)
  <2> DEFINE Rest == {"rename", "delete", "password", "reveal-password", "pages", "home", "preview-token"}
  <2>1. \A i \in {2, 3, 5, 6, 7, 8, 11, 12, 34} :
          \E a \in {"workspaces", "portals", "templates"}, b \in {":id", ":name"}, c \in Rest : R[i].path = <<a, b, c>>
    BY <1>3, <1>4, <1>8
  <2>2. ASSUME NEW i \in {2, 3, 5, 6, 7, 8, 11, 12, 34} PROVE Elsewhere(R[i].path)
    <3>1. PICK a \in {"workspaces", "portals", "templates"}, b \in {":id", ":name"}, c \in Rest : R[i].path = <<a, b, c>>
      BY <2>1
    <3>2. b # "*slug" /\ c # "*slug" /\ <<a, b, c>>[1] = a
      OBVIOUS
    <3> QED
      BY <1>10, <3>1, <3>2, Forms, SMTT(60)
  <2> QED
    BY <2>2
<1>14. \A i \in {9, 10} : Elsewhere(R[i].path)
  <2>1. \A i \in {9, 10} : \E d \in {"update", "remove"} : R[i].path = <<"portals", ":id", "pages", d>>
    BY <1>4, <1>9
  <2>2. ASSUME NEW i \in {9, 10} PROVE Elsewhere(R[i].path)
    <3>1. PICK d \in {"update", "remove"} : R[i].path = <<"portals", ":id", "pages", d>>
      BY <2>1
    <3>2. /\ d # "*slug" /\ ":id" # "*slug" /\ "pages" # "*slug"
          /\ <<"portals", ":id", "pages", d>>[1] = "portals"
      OBVIOUS
    <3> QED
      BY <1>10, <3>1, <3>2, Forms
  <2> QED
    BY <2>2
<1>15. R[23].path = <<"pages">> /\ IsPath(R[23].path) /\ API!Splat(R[23].path) = 0
  <2>1. "pages" # "*slug"
    OBVIOUS
  <2> QED
    BY <1>4, <1>6, <2>1, Forms
<1>16. /\ \A a, op : API!OnPage(a, op).path = <<"pages", "*slug", a>> /\ API!OnPage(a, op).method = "POST"
       /\ \A a, op : /\ API!OnVersion(a, op).path = <<"pages", "*slug", "versions", ":id", a>>
                     /\ API!OnVersion(a, op).method = "POST"
  BY <1>4 DEF API!OnPage, API!OnVersion
<1>17. \A i \in Indices : \E a : Acts(i, a)
  <2>1. /\ Place("approve") = 13 /\ Place("reject") = 14 /\ Place("publish") = 15 /\ Place("rollback") = 16
        /\ Place("approval") = 17 /\ Place("disable") = 18 /\ Place("enable") = 19 /\ Place("theme") = 20
        /\ Place("password") = 21 /\ Place("reveal-password") = 22 /\ Place("workspace") = 24 /\ Place("title") = 25
        /\ Place("refresh-schedule") = 26 /\ Place("delete") = 27 /\ Place("restore") = 28 /\ Place("edit-token") = 29
        /\ Place("preview-token") = 30 /\ Place("deploy-source") = 35
    BY SMTT(60) DEF Place
  <2>2. \A a \in Spoken \ {":id"} : Word(a)
    BY DEF Spoken, Word
  <2>3. {"approve", "reject", "publish", "rollback", "approval", "disable", "enable", "theme", "password",
         "reveal-password", "workspace", "title", "refresh-schedule", "delete", "restore", "edit-token", "preview-token",
         "deploy-source"} \subseteq Spoken \ {":id"}
    BY DEF Spoken
  <2>4. /\ \A i, a, op : a \in Spoken \ {":id"} /\ Place(a) = i /\ R[i] = API!OnPage(a, op) => Acts(i, a)
        /\ \A i, a, op : a \in Spoken \ {":id"} /\ Place(a) = i /\ R[i] = API!OnVersion(a, op) => Acts(i, a)
    BY <1>16, <2>2
  <2> HIDE DEF Acts
  <2>5. /\ Acts(13, "approve") /\ Acts(14, "reject") /\ Acts(15, "publish") /\ Acts(16, "rollback")
        /\ Acts(17, "approval") /\ Acts(18, "disable") /\ Acts(19, "enable") /\ Acts(20, "theme")
        /\ Acts(21, "password") /\ Acts(22, "reveal-password") /\ Acts(24, "workspace") /\ Acts(25, "title")
        /\ Acts(26, "refresh-schedule") /\ Acts(27, "delete") /\ Acts(28, "restore") /\ Acts(29, "edit-token")
        /\ Acts(30, "preview-token") /\ Acts(35, "deploy-source")
    BY <1>2, <2>1, <2>3, <2>4, SMTT(60)
  <2> QED
    BY <2>5
<1> DEFINE End(path) == path[Len(path)]
<1>18. ASSUME NEW i \in Indices
       PROVE  /\ ToPage(R[i].path) /\ IsPath(R[i].path) /\ R[i].path[1] = "pages" /\ Len(R[i].path) > 1
              /\ Word(End(R[i].path)) /\ Place(End(R[i].path)) = i
  <2>1. PICK a : Acts(i, a)
    BY <1>17
  <2>2. {"pages", "versions", ":id"} \subseteq Spoken
    BY DEF Spoken
  <2>3. ToPage(<<"pages", "*slug", a>>) /\ ToPage(<<"pages", "*slug", "versions", ":id", a>>)
    BY <2>1, <2>2, Forms, SpokenWords
  <2>4. /\ <<"pages", "*slug", a>>[1] = "pages" /\ Len(<<"pages", "*slug", a>>) = 3 /\ <<"pages", "*slug", a>>[3] = a
        /\ <<"pages", "*slug", "versions", ":id", a>>[1] = "pages" /\ Len(<<"pages", "*slug", "versions", ":id", a>>) = 5
        /\ <<"pages", "*slug", "versions", ":id", a>>[5] = a
    OBVIOUS
  <2>5. R[i].path = <<"pages", "*slug", a>> \/ R[i].path = <<"pages", "*slug", "versions", ":id", a>>
    BY <2>1
  <2>6. R[i].path[1] = "pages" /\ Len(R[i].path) \in {3, 5} /\ End(R[i].path) = a
    BY <2>4, <2>5
  <2>7. 3 > 1 /\ 5 > 1
    OBVIOUS
  <2> QED
    BY <2>1, <2>3, <2>5, <2>6, <2>7, PageIsPath
<1>19. \A p, path : Word(End(p)) /\ Word(End(path)) /\ End(p) # End(path) => Apart(p, path)
  BY DEF Apart
<1>20. \A p, path : Word(p[1]) /\ Word(path[1]) /\ p[1] # path[1] => Apart(p, path)
  BY DEF Apart
<1>21. \A path : Len(path) > 1 => Apart(<<"pages">>, path)
  <2>1. (\A k \in 1..Len(<<"pages">>) : <<"pages">>[k] # "*slug") /\ Len(<<"pages">>) = 1
    OBVIOUS
  <2> SUFFICES ASSUME NEW path, Len(path) > 1 PROVE Len(<<"pages">>) < Len(path)
    BY <2>1 DEF Apart
  <2> QED
    BY <2>1
<1>22. ASSUME NEW i \in Indices, NEW j \in 1..i - 1 PROVE IsPath(R[j].path) /\ Apart(R[j].path, R[i].path)
  <2>1. j \in Indices \/ j = 23 \/ j \in {1, 4, 32} \/ j \in {31, 33} \/ j \in {2, 3, 5, 6, 7, 8, 11, 12, 34} \/ j \in {9, 10}
    OBVIOUS
  <2>2. j # i
    OBVIOUS
  <2> HIDE DEF Indices, End, Elsewhere
  <2>3. CASE j \in Indices
    BY <1>18, <1>19, <2>2, <2>3
  <2>4. CASE j = 23
    BY <1>15, <1>18, <1>21, <2>4
  <2>5. CASE Elsewhere(R[j].path)
    <3>1. Word("pages")
      BY DEF Word
    <3> QED
      BY <1>18, <1>20, <2>5, <3>1 DEF Elsewhere
  <2> QED
    BY <1>11, <1>12, <1>13, <1>14, <2>1, <2>3, <2>4, <2>5
<1>23. ASSUME NEW i \in 1..35, API!Splat(R[i].path) # 0 PROVE i \in Indices
  <2>1. i \in Indices \/ i = 23 \/ i \in {1, 4, 32} \/ i \in {31, 33} \/ i \in {2, 3, 5, 6, 7, 8, 11, 12, 34} \/ i \in {9, 10}
    OBVIOUS
  <2> HIDE DEF Indices
  <2> QED
    BY <1>11, <1>12, <1>13, <1>14, <1>15, <1>23, <2>1
<1>24. \A i \in 1..35 : R[i].method # "HEAD"
  BY <1>1
<1>25. Len(R) \in Nat /\ Len(R) = 35 /\ DOMAIN R = 1..Len(R)
  BY <1>1
<1> HIDE DEF Indices, End, R
<1> QED
  BY <1>18, <1>22, <1>23, <1>24, <1>25 DEF Separate, R

\* For every slug that may be created and every id: each route with a slug in
\* its path is reached by its own address, and with that slug, so no nested
\* slug reads as an action on the page above it (internal/route, routens).
THEOREM EveryPageIsAddressable == \A slug \in API!SlugInputs, id \in API!IdInputs : API!Addressable(slug, id)
<1> SUFFICES ASSUME NEW slug \in Slugs, NEW id, id # Blank, id \notin {"versions", "preflight"}, ~API!Reserved(slug),
                    NEW routes \in API!Tables, NEW i \in DOMAIN routes,
                    API!Splat(routes[i].path) # 0, routes[i].op # "assets"
             PROVE  LET r == routes[i]
                        address == API!Fill(r.path, slug, id)
                    IN /\ \A method \in API!Methods(r) : API!Resolve(routes, method, address) = [op |-> r.op, slug |-> slug]
                       /\ r.method \in API!Allowed(routes, address)
  <2>1. \A id \in API!IdInputs : id # Blank /\ id \notin {"versions", "preflight"}
    BY DEF API!IdInputs, Blank
  <2> QED
    BY <2>1, SlugsAreSlugs DEF API!Addressable
<1>1. Separate(routes)
  BY AdminReadsSeparate, AdminMutationsSeparate, RestSeparate, ShellSeparate, ContentSeparate DEF API!Tables
<1>2. i \in 1..Len(routes)
  BY <1>1 DEF Separate
<1> QED
  BY <1>1, <1>2, SeparateAnswers

\* What a behaviour of the surfaces is asked is one of the inputs.
InputTyped ==
  /\ input.kind = "address" => input.address.slug \in API!SlugInputs /\ input.address.id \in API!IdInputs
  /\ input.kind = "request" => input.request \in API!ApiRequests
  /\ input.kind = "call" => input.call \in API!CallRequests

\* Whatever addresses, requests and calls come in: every route of every page
\* answers at its own address, and a request or a call runs only what its
\* credentials, its gates and its arguments allow, all of it or nothing.
THEOREM SurfacesAreFaithful == Spec => []SurfacesFaithful
<1>1. Init => InputTyped
  BY DEF Init, API!SurfacesInit, InputTyped
<1>2. InputTyped /\ [Next]_vars => InputTyped'
  <2> SUFFICES ASSUME InputTyped, [Next]_vars PROVE InputTyped'
    OBVIOUS
  <2>5. [API!SurfacesNext]_input
    BY Parts
  <2>1. CASE API!PickAddress
    <3>1. PICK a \in AddressInputs : input' = [kind |-> "address", address |-> a]
      BY <2>1 DEF API!PickAddress
    <3>2. a.slug \in API!SlugInputs /\ a.id \in API!IdInputs
      BY SurfaceInputs DEF API!SurfacesAssumption
    <3>3. input'.kind = "address" /\ input'.address = a
      BY <3>1
    <3> QED
      BY <3>2, <3>3 DEF InputTyped
  <2>2. CASE API!PickRequest
    <3>1. PICK q \in RequestInputs : input' = [kind |-> "request", request |-> q]
      BY <2>2 DEF API!PickRequest
    <3>2. q \in API!ApiRequests
      BY SurfaceInputs DEF API!SurfacesAssumption
    <3>3. input'.kind = "request" /\ input'.request = q
      BY <3>1
    <3> QED
      BY <3>2, <3>3 DEF InputTyped
  <2>3. CASE API!PickCall
    <3>1. PICK q \in CallInputs : input' = [kind |-> "call", call |-> q]
      BY <2>3 DEF API!PickCall
    <3>2. q \in API!CallRequests
      BY SurfaceInputs DEF API!SurfacesAssumption
    <3>3. input'.kind = "call" /\ input'.call = q
      BY <3>1
    <3> QED
      BY <3>2, <3>3 DEF InputTyped
  <2>4. CASE UNCHANGED input
    BY <2>4 DEF InputTyped
  <2> QED
    BY <2>1, <2>2, <2>3, <2>4, <2>5 DEF API!SurfacesNext
<1>3. InputTyped => SurfacesFaithful
  BY EveryPageIsAddressable, RequestsAreFaithful, CallsAreFaithful DEF InputTyped, SurfacesFaithful, API!SurfacesHold
<1> QED
  BY <1>1, <1>2, <1>3, PTL DEF Spec

=============================================================================
