-------------------------------- MODULE Links --------------------------------
(***************************************************************************)
(* The signed links of the content host (internal/rawtoken): a link is     *)
(* minted by one request of a staff member, opened by others, and saves    *)
(* decks until it expires, while the pages behind the slugs are replaced,  *)
(* disabled and deployed to.  The rows of pages hold one slug in turn.      *)
(***************************************************************************)
EXTENDS Integers, Sequences, FiniteSets, FiniteSetsExt

CONSTANTS Staff,
          Revisions,    \* ids of template revisions, which are also ids of versions
          MaxVersions,  \* bound
          MaxLinks      \* bound: links alive at once

VARIABLES
  pages,     \* rows of pages
  versions,  \* rows of page_versions, by id
  links,     \* claims signed and not expired
  minting,   \* per staff member: the request that mints a link
  editor,    \* per staff member: the deck open in the editor
  shown      \* what this step of the content host shows, by which link

linkVars == <<pages, versions, links, minting, editor, shown>>

Rows == 1..2
Contents == {1, 2}
Nobody == "nobody"
VersionIds == 0..MaxVersions
Claims == [purpose : {"view", "edit", "session", "template"}, page : 0..2, version : VersionIds \cup Revisions, actor : Staff \cup {Nobody}]
Idle == [at |-> "idle", row |-> 0, version |-> 0]
NoDeck == [page |-> 0, base |-> 0, actor |-> Nobody]
Nothing == [route |-> "none", link |-> [purpose |-> "view", page |-> 0, version |-> 0, actor |-> Nobody], id |-> 0]

LinksTypeOK ==
  /\ pages \in [Rows -> [life : {"none", "live", "deleted"}, disabled : BOOLEAN]]
  /\ versions \in Seq([page : Rows, deck : BOOLEAN, content : Contents, base : VersionIds, by : Staff \cup {Nobody}, late : BOOLEAN])
  /\ links \subseteq Claims
  /\ minting \in [Staff -> [at : {"idle", "preview", "edit"}, row : 0..2, version : VersionIds]]
  /\ editor \in [Staff -> [page : 0..2, base : VersionIds, actor : Staff \cup {Nobody}]]
  /\ shown \in [route : {"none", "raw", "editor", "template"}, link : Claims, id : VersionIds \cup Revisions]

Live == {p \in Rows : pages[p].life = "live"}
Of(p) == {v \in DOMAIN versions : versions[v].page = p}
\* ORDER BY created_at DESC, id DESC: ids follow the order in which transactions
\* got the page's lock, created_at is when they began.  A version is late when
\* its transaction began before that of the newest one stored: it has the
\* highest id and is not the newest.
NewestOf(S) == IF S = {} THEN 0 ELSE Max({v \in S : ~versions[v].late})
Newest(p) == NewestOf(Of(p))
IsDeck(v) == v # 0 /\ versions[v].deck

---------------------------------------------------------------------------
(* The pages.                                                              *)

Row(p, r) == pages' = [pages EXCEPT ![p] = r] /\ UNCHANGED <<versions, links, minting, editor>> /\ shown' = Nothing
CreatePage(p) == pages[p].life = "none" /\ Live = {} /\ (p = 2 => pages[1].life # "none") /\ Row(p, [life |-> "live", disabled |-> FALSE])
DeletePage(p) == pages[p].life = "live" /\ Row(p, [pages[p] EXCEPT !.life = "deleted"])
RestorePage(p) == pages[p].life = "deleted" /\ Live = {} /\ Row(p, [pages[p] EXCEPT !.life = "live"])
SetDisabled(p) == pages[p].life = "live" /\ Row(p, [pages[p] EXCEPT !.disabled = ~@])

Insert(v) == Len(versions) < MaxVersions /\ versions' = Append(versions, v)
Deploy(p, deck) ==
  /\ pages[p].life = "live"
  /\ \E late \in BOOLEAN :
        /\ late => Of(p) # {}
        /\ Insert([page |-> p, deck |-> deck, content |-> 1, base |-> 0, by |-> Nobody, late |-> late])
  /\ UNCHANGED <<pages, links, minting, editor>> /\ shown' = Nothing

---------------------------------------------------------------------------
(* Minting: /admin's preview-token and edit-token read twice, the /view    *)
(* broker and the template previews once.                                  *)

Start(s, request) == minting[s] = Idle /\ minting' = [minting EXCEPT ![s] = request] /\ UNCHANGED <<pages, versions, links, editor>> /\ shown' = Nothing
Mint(s, signed) ==
  /\ Cardinality(links \cup signed) <= MaxLinks
  /\ links' = links \cup signed /\ minting' = [minting EXCEPT ![s] = Idle]
  /\ UNCHANGED <<pages, versions, editor>> /\ shown' = Nothing
Link(purpose, page, version, actor) == [purpose |-> purpose, page |-> page, version |-> version, actor |-> actor]

PreviewFind(s, v) == pages[versions[v].page].life = "live" /\ Start(s, [at |-> "preview", row |-> versions[v].page, version |-> v])
PreviewToken(s) ==
  LET m == minting[s]
  IN m.at = "preview" /\ Mint(s, {Link("view", p, m.version, Nobody) : p \in Live})

EditFind(s, p) == pages[p].life = "live" /\ Start(s, [at |-> "edit", row |-> p, version |-> 0])
EditToken(s) ==
  LET m == minting[s]
      deck == pages[m.row].life = "live" /\ IsDeck(Newest(m.row))
  IN m.at = "edit" /\ Mint(s, IF deck THEN {Link("edit", m.row, Newest(m.row), s)} ELSE {})

View(s, v) ==
  /\ minting[s] = Idle /\ pages[versions[v].page].life = "live"
  /\ Mint(s, {Link("session", versions[v].page, v, Nobody)})
TemplateURLs(s, r) == minting[s] = Idle /\ Mint(s, {Link("template", 0, r, Nobody)})

Expire(l) == l \in links /\ links' = links \ {l} /\ UNCHANGED <<pages, versions, minting, editor>> /\ shown' = Nothing

---------------------------------------------------------------------------
(* Opening: one statement after the signature.                             *)

Servable(v) == v # 0 /\ pages[versions[v].page] = [life |-> "live", disabled |-> FALSE]
Show(route, l, id) == shown' = [route |-> route, link |-> l, id |-> id] /\ UNCHANGED <<pages, versions, links, minting>>

Raw(l) ==
  /\ l.purpose = "view" /\ l.version \in DOMAIN versions /\ Servable(l.version)
  /\ Show("raw", l, l.version) /\ UNCHANGED editor

DeckEditSession(s, l) ==
  LET newest == Newest(l.page)
  IN /\ l.purpose = "edit" /\ Servable(newest) /\ IsDeck(newest)
     /\ Show("editor", l, newest)
     /\ editor' = [editor EXCEPT ![s] = [page |-> l.page, base |-> newest, actor |-> l.actor]]

RawTemplate(l, id) ==
  /\ l.purpose = "template" /\ l.version = id
  /\ Show("template", l, id) /\ UNCHANGED editor

\* The save channel, versions.SaveDeck under the page's lock.  A save that was
\* stored but not answered is told so when it is sent again.  A draft is never
\* late: its request names the newest version, which was stored before it began.
Saved(s, base) == editor' = [editor EXCEPT ![s].base = base]
Draft(p, content, e) ==
  Insert([page |-> p, deck |-> TRUE, content |-> content, base |-> e.base, by |-> e.actor, late |-> FALSE])
SaveDeck_BySlug(s, content) ==
  LET e == editor[s]
  IN /\ e.page # 0 /\ (\E l \in links : l.purpose = "edit" /\ l.page = e.page /\ l.actor = e.actor)
     /\ \E p \in Live :
          LET latest == Newest(p)
          IN /\ ~pages[p].disabled /\ IsDeck(latest)
             /\ Draft(p, content, e)
             /\ \/ Saved(s, Len(versions) + 1)
                \/ UNCHANGED editor
     /\ UNCHANGED <<pages, links, minting>> /\ shown' = Nothing

SaveDeck(s, content) ==
  LET e == editor[s]
  IN /\ e.page # 0 /\ (\E l \in links : l.purpose = "edit" /\ l.page = e.page /\ l.actor = e.actor)
     /\ \E p \in Live :
          LET latest == Newest(p)
              same == versions[latest].content = content
          IN /\ p = e.page /\ ~pages[p].disabled /\ IsDeck(latest)
             /\ \/ /\ same /\ Saved(s, latest) /\ UNCHANGED versions
                \/ /\ ~same /\ latest = e.base
                   /\ Draft(p, content, e)
                   /\ \/ Saved(s, Len(versions) + 1)
                      \/ UNCHANGED editor   \* the answer is lost
     /\ UNCHANGED <<pages, links, minting>> /\ shown' = Nothing

---------------------------------------------------------------------------
LinksInit ==
  /\ pages = [p \in Rows |-> [life |-> "none", disabled |-> FALSE]]
  /\ versions = <<>> /\ links = {} /\ shown = Nothing
  /\ minting = [s \in Staff |-> Idle] /\ editor = [s \in Staff |-> NoDeck]

LinksNext ==
  \/ \E p \in Rows : CreatePage(p) \/ DeletePage(p) \/ RestorePage(p) \/ SetDisabled(p)
  \/ \E p \in Rows, d \in BOOLEAN : Deploy(p, d)
  \/ \E s \in Staff, v \in DOMAIN versions : PreviewFind(s, v) \/ View(s, v)
  \/ \E s \in Staff, p \in Rows : EditFind(s, p)
  \/ \E s \in Staff : PreviewToken(s) \/ EditToken(s)
  \/ \E s \in Staff, r \in Revisions : TemplateURLs(s, r)
  \/ \E l \in links : Expire(l)
  \/ \E l \in links : Raw(l)
  \/ \E s \in Staff, l \in links : DeckEditSession(s, l)
  \/ \E l \in links, r \in Revisions : RawTemplate(l, r)
  \/ \E s \in Staff, x \in Contents : SaveDeck(s, x)

LinksSpec == LinksInit /\ [][LinksNext]_linkVars

---------------------------------------------------------------------------
(* Properties.                                                             *)

\* A deck saved through a link is a new version of the page the link was minted
\* for, made from the newest version stored before it.  All it may pass over
\* unseen is a version whose transaction began before its base's.
Earlier(v) == {u \in Of(versions[v].page) : u < v}
SavesSound ==
  \A v \in DOMAIN versions : versions[v].by # Nobody =>
    /\ versions[v].base # 0 /\ versions[v].base = NewestOf(Earlier(v))
    /\ IsDeck(versions[v].base)

\* A link shows the one thing it was signed for: the version it names, or the
\* newest version of its page, and only of a page that is live under the slug.
Shows ==
  LET l == shown.link
  IN CASE shown.route = "none" -> TRUE
       [] shown.route = "raw" -> l.purpose = "view" /\ shown.id = l.version /\ versions[shown.id].page \in Live
       [] shown.route = "editor" -> l.purpose = "edit" /\ l.page \in Live /\ shown.id = Newest(l.page)
       [] OTHER -> l.purpose = "template" /\ shown.id = l.version

LinksHold == SavesSound /\ Shows
=============================================================================
