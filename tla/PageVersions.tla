--------------------------- MODULE PageVersions ---------------------------
(***************************************************************************)
(* The page/version state machine of internal/versions: the rows of the   *)
(* pages and page_versions tables, and every mutation that touches a      *)
(* page's governance flags, its versions or its live pointer.             *)
(*                                                                         *)
(* One action is one committed transaction.  Every mutation takes the     *)
(* page's row lock in its first statement (LockPage), so the transactions *)
(* on one page are serial; races for a free slug are settled by the       *)
(* partial unique index on live slugs.  A refused request rolls back and  *)
(* leaves nothing, so it is no step here.  The one read made outside the  *)
(* lock, the precheck of UpdatePageData, is a step of its own.            *)
(*                                                                         *)
(* Definitions named X_Variant are deliberate faults of X: PROJECT.json   *)
(* says which property each one breaks.                                   *)
(***************************************************************************)
EXTENDS Integers

CONSTANTS
  Slugs,           \* page addresses
  Clients,         \* callers that may have an update_page_data in flight
  Layouts,         \* everything of a document but config, data and stamps
  ManagedLayouts,  \* the layouts that carry #pages-data with its schema
  DeckLayouts,     \* the layouts that are Bento decks
  Configs,         \* values of the #pages-config block
  DataSets,        \* values of the #pages-data payload
  Accepts,         \* layout -> the payloads its data schema accepts
  Uploads,         \* the documents authors deploy as whole HTML
  MaxAsOf,         \* bound: source_as_of stamps are 0..MaxAsOf
  Stamps,          \* values of refreshed_at
  MaxPages,        \* bound: rows of pages
  MaxVersions,     \* bound: rows of page_versions
  MaxTime,         \* bound: transactions begin at 1..MaxTime, of which only
                   \* the order matters
  MaxDeletes       \* bound: soft deletes

PageIds    == 1..MaxPages
VersionIds == 1..MaxVersions
AsOfs      == 0..MaxAsOf
Times      == 1..MaxTime
Actors     == {"user", "agent"}
Statuses   == {"none", "draft", "pending", "approved", "rejected"}
None       == 0      \* SQL NULL for an id

Documents == [layout : Layouts, config : Configs, data : DataSets,
              asOf : AsOfs, stamp : Stamps]

ASSUME BoundsAssumption ==
  /\ MaxPages \in Nat /\ MaxVersions \in Nat
  /\ MaxDeletes \in Nat /\ MaxAsOf \in Nat /\ MaxTime \in Nat

ASSUME DocumentsAssumption ==
  /\ ManagedLayouts \subseteq Layouts
  /\ DeckLayouts \subseteq Layouts \ ManagedLayouts
  /\ Accepts \in [ManagedLayouts -> SUBSET DataSets]
  /\ Uploads \subseteq Documents /\ Uploads # {}

NoDocument == CHOOSE d \in Uploads : TRUE

VARIABLES
  pages,     \* the pages table, by id ("free": no such row yet)
  versions,  \* the page_versions table, by id (status "none": no such row)
  inserted,  \* the last version id handed out
  deletes,   \* the clock deleted_at is read from
  trail,     \* per page: what a replay of the audit log's pointer moves gives
  inflight,  \* per client: an UpdatePageData between precheck and transaction
  last       \* the last committed mutation and what it answered

vars == <<pages, versions, inserted, deletes, trail, inflight, last>>

PageRows    == [life : {"free", "live", "deleted"}, slug : Slugs,
                gated : BOOLEAN, disabled : BOOLEAN,
                pointer : 0..MaxVersions, deletedAt : 0..MaxDeletes]
VersionRows == [page : 0..MaxPages, doc : Documents, status : Statuses,
                created : 0..MaxTime]
Trails      == [at : 0..MaxVersions, whole : BOOLEAN]
Requests    == [slug : Slugs, data : DataSets, expected : VersionIds,
                snapshot : 0..MaxVersions, template : Documents]
Idle        == [slug |-> "idle"]
Answers     == [op : {"deploy", "data_update", "config_update", "deck_save", "other"},
                actor : Actors, page : 0..MaxPages, version : 0..MaxVersions,
                live : BOOLEAN]

Answer(op, actor, p, v, live) ==
  [op |-> op, actor |-> actor, page |-> p, version |-> v, live |-> live]

\* A mutation whose answer no property reads.
Done(actor) == Answer("other", actor, None, None, FALSE)

---------------------------------------------------------------------------
(* Documents (internal/pagedata).                                          *)

Managed(d) == d.layout \in ManagedLayouts
IsDeck(d)  == d.layout \in DeckLayouts

\* ParseManaged: a managed document's payload satisfies its own schema.
Contract(d) == Managed(d) => d.data \in Accepts[d.layout]

\* The identity content_sha256 stands for, and the one of a managed write:
\* (data, template, source_as_of), with config part of the template.
SameContent(d, e) == d = e
SameData(d, e) ==
  /\ Managed(d) /\ Managed(e)
  /\ d.layout = e.layout /\ d.config = e.config
  /\ d.data = e.data /\ d.asOf = e.asOf

\* MaterializeBlocks: a data update replaces the payload and both stamps, a
\* config update the config alone.
Materialize(d, data, asOf, stamp) ==
  [d EXCEPT !.data = data, !.asOf = asOf, !.stamp = stamp]
MaterializeConfig(d, config) == [d EXCEPT !.config = config]

---------------------------------------------------------------------------
(* Locking and authority.                                                  *)

LockPage(s, p) == p \in PageIds /\ pages[p].life = "live" /\ pages[p].slug = s

LiveSlug(s) == \E p \in PageIds : LockPage(s, p)

OnPage(p, v) == v \in VersionIds /\ versions[v].page = p /\ versions[v].status # "none"
VersionsOf(p) == {v \in VersionIds : OnPage(p, v)}

\* ORDER BY created_at DESC, id DESC LIMIT 1.  created_at is the time of BEGIN
\* and ids are handed out under the page's lock, which a transaction that
\* began earlier may get later: the two orders differ.
Newer(v, w) ==
  \/ versions[v].created > versions[w].created
  \/ versions[v].created = versions[w].created /\ v > w
Newest(v, S) == v \in S /\ \A w \in S : w # v => Newer(v, w)

\* now() of a transaction: any time, as it may have waited for the lock while
\* others began and committed, but not before what was stored when the version
\* its request names was (the database's clock does not step back).
BeginTimes(p, named) ==
  {t \in Times : \A w \in VersionsOf(p) : w =< named => versions[w].created =< t}

AssertExpectedVersion(row, expected) ==
  expected # None => expected = row.pointer

AssertAgentMayMovePointer(row, a) ==
  a = "agent" => ~row.disabled /\ ~row.gated

AssertAdminAction(a) == a = "user"

\* audit.Write of a pointer move: the log stays replayable when the entry's
\* "from" is where the previous entries left the pointer.
Audited(tr, p, from, to) ==
  [tr EXCEPT ![p] = [at |-> to, whole |-> @.whole /\ @.at = from]]

\* movePointer: the pointer and its audit row, under expected_version.
movePointer(pg, tr, p, v, expected) ==
  /\ AssertExpectedVersion(pg[p], expected)
  /\ pages' = [pg EXCEPT ![p].pointer = v]
  /\ trail' = Audited(tr, p, pg[p].pointer, v)

---------------------------------------------------------------------------
(* Deploys.                                                                *)

\* PrepareDeploy: managed blocks must parse; a managed write dedupes by data.
PrepareDeploy(doc, publish, expected, managedWrite) ==
  [doc |-> doc, publish |-> publish, expected |-> expected,
   byData |-> managedWrite /\ Managed(doc), sound |-> Contract(doc)]

\* An open page skips rows queued under the gate, a gated one open-era drafts.
Unusable_NoSkip(gated) == "none"
Unusable(gated) == IF gated THEN "draft" ELSE "pending"

\* The versions a deploy may land on instead of inserting a row.
DedupeMatches_AnyVersion(p, gated, prep, only) ==
  {v \in VersionIds :
     /\ OnPage(p, v)
     /\ IF prep.byData THEN SameData(versions[v].doc, prep.doc)
                       ELSE SameContent(versions[v].doc, prep.doc)
     /\ versions[v].status # "rejected"
     /\ versions[v].status # Unusable(gated)}
DedupeMatches(p, gated, prep, only) ==
  {v \in VersionIds :
     /\ OnPage(p, v)
     /\ IF prep.byData THEN SameData(versions[v].doc, prep.doc)
                       ELSE SameContent(versions[v].doc, prep.doc)
     /\ only # None => v = only
     /\ versions[v].status # "rejected"
     /\ versions[v].status # Unusable(gated)}

\* The `live` a deploy answers.
IsLive(row, v, moved) == ~row.disabled /\ (moved \/ row.pointer = v)

\* The second half of DeployLocked: publish version v of the table rows, or
\* leave it.  A managed redeploy of the live version moves nothing.
Land(pg, rows, p, v, prep, a, op) ==
  LET row   == pg[p]
      goes  == prep.publish /\ ~row.gated
      moves == goes /\ (~Managed(prep.doc) \/ row.pointer # v)
  IN /\ goes => AssertAgentMayMovePointer(row, a) /\ rows[v].status # "rejected"
     /\ versions' = IF goes THEN [rows EXCEPT ![v].status = "approved"] ELSE rows
     /\ IF moves THEN movePointer(pg, trail, p, v, prep.expected)
                 ELSE pages' = pg /\ trail' = trail
     /\ last' = Answer(op, a, p, v, IsLive(row, v, moves))

DeployLocked(pg, p, prep, a, only, op) ==
  LET hits == DedupeMatches(p, pg[p].gated, prep, only)
      new  == inserted + 1
      row(at) == [page |-> p, doc |-> prep.doc, created |-> at,
                  status |-> IF pg[p].gated THEN "pending" ELSE "draft"]
  IN /\ prep.sound
     /\ AssertExpectedVersion(pg[p], prep.expected)
     /\ \/ /\ \E v \in hits : /\ \A w \in hits : w =< v
                              /\ Land(pg, versions, p, v, prep, a, op)
           /\ UNCHANGED inserted
        \/ /\ hits = {} /\ new \in VersionIds
           /\ \E at \in BeginTimes(p, IF only # None THEN only ELSE prep.expected) :
                 Land(pg, [versions EXCEPT ![new] = row(at)], p, new, prep, a, op)
           /\ inserted' = new

Deploy(s, doc, publish, expected, a) ==
  /\ \E p \in PageIds :
        /\ LockPage(s, p)
        /\ DeployLocked(pages, p, PrepareDeploy(doc, publish, expected, FALSE),
                        a, None, "deploy")
  /\ UNCHANGED <<deletes, inflight>>

\* INSERT INTO pages, guarded by the partial unique index on live slugs.
NewRow(s, gated) ==
  [life |-> "live", slug |-> s, gated |-> gated, disabled |-> FALSE,
   pointer |-> None, deletedAt |-> 0]

FreePage(p) == p \in PageIds /\ pages[p].life = "free"
               /\ \A q \in PageIds : pages[q].life = "free" => p =< q

CreatePage(s, gated, a) ==
  /\ ~LiveSlug(s)
  /\ \E p \in PageIds :
        /\ FreePage(p)
        /\ pages' = [pages EXCEPT ![p] = NewRow(s, gated)]
        /\ last' = Done(a)
  /\ UNCHANGED <<versions, inserted, deletes, trail, inflight>>

\* Create the page when it is missing (then expected_version is refused), and
\* deploy in the same transaction.
CreateAndDeploy(s, doc, publish, expected, gated, a) ==
  /\ LET prep == PrepareDeploy(doc, publish, expected, FALSE)
     IN \/ \E p \in PageIds : /\ LockPage(s, p)
                              /\ DeployLocked(pages, p, prep, a, None, "deploy")
        \/ /\ ~LiveSlug(s)
           /\ expected = None
           /\ \E p \in PageIds :
                 /\ FreePage(p)
                 /\ DeployLocked([pages EXCEPT ![p] = NewRow(s, gated)], p,
                                 prep, a, None, "deploy")
  /\ UNCHANGED <<deletes, inflight>>

\* A save from the hosted deck editor: it continues the newest version, and
\* never dedupes onto an older one.
SaveDeck(s, session, base, doc) ==
  /\ \E p \in PageIds :
        /\ LockPage(s, p)
        /\ p = session /\ ~pages[p].disabled
        /\ \E newest \in VersionIds :
              LET head == versions[newest]
                  same == /\ SameContent(head.doc, doc)
                          /\ head.status # "rejected"
                          /\ head.status # Unusable(pages[p].gated)
              IN /\ Newest(newest, VersionsOf(p))
                 /\ IsDeck(head.doc) /\ IsDeck(doc)
                 /\ OnPage(p, base)
                 /\ newest = base \/ same
                 /\ DeployLocked(pages, p, PrepareDeploy(doc, FALSE, None, FALSE),
                                 "user", newest, "deck_save")
  /\ UNCHANGED <<deletes, inflight>>

---------------------------------------------------------------------------
(* Managed writes: update_page_data and update_page_config.                *)

\* SourceCoverageFloor: the newest source_as_of of every version that was not
\* rejected, the live template's own included.
SourceCoverageFloor_LiveOnly(p, template) == {template.asOf}
SourceCoverageFloor(p, template) ==
  {template.asOf} \cup
  {versions[v].doc.asOf : v \in {w \in VersionIds :
       OnPage(p, w) /\ versions[w].status # "rejected" /\ Managed(versions[w].doc)}}

\* precheckPageData: read the published document without lock or transaction.
\* A snapshot is kept when the transaction would use it and the data passes;
\* data that fails is refused here; in every other case the locked path decides.
\* (source_as_of and publish are not read here: they enter with the transaction.)
precheckPageData(c, s, data, expected) ==
  /\ inflight[c] = Idle
  /\ LET seen(p)   == LockPage(s, p) /\ OnPage(p, pages[p].pointer)
         usable(p) == /\ seen(p) /\ pages[p].pointer = expected
                      /\ Managed(versions[expected].doc)
         req(v, d) == [slug |-> s, data |-> data, expected |-> expected,
                       snapshot |-> v, template |-> d]
     IN \/ \E p \in PageIds :
             /\ usable(p)
             /\ data \in Accepts[versions[expected].doc.layout]
             /\ inflight' = [inflight EXCEPT ![c] = req(expected, versions[expected].doc)]
        \/ /\ \A p \in PageIds : ~usable(p)
           /\ inflight' = [inflight EXCEPT ![c] = req(None, NoDocument)]
  /\ last' = Done("agent")
  /\ UNCHANGED <<pages, versions, inserted, deletes, trail>>

\* The checks of UpdatePageDataWithTx, made with the page locked.  The
\* snapshot serves as the template only while the pointer has not moved.
TemplateOf(p, r) ==
  IF r.snapshot # None /\ r.snapshot = pages[p].pointer
    THEN r.template ELSE versions[pages[p].pointer].doc

DataAdmitted(p, r, asOf) ==
  /\ LockPage(r.slug, p)
  /\ AssertExpectedVersion(pages[p], r.expected)
  /\ pages[p].pointer # None
  /\ Managed(TemplateOf(p, r))
  /\ r.data \in Accepts[TemplateOf(p, r).layout]
  /\ \A f \in SourceCoverageFloor(p, TemplateOf(p, r)) : f =< asOf

UpdatePageData_TrustsPrecheck(c, asOf, stamp, publish, a) ==
  /\ inflight[c] # Idle
  /\ LET r == inflight[c]
     IN \E p \in PageIds :
          /\ LockPage(r.slug, p) /\ pages[p].pointer # None
          /\ r.snapshot # None
          /\ \A f \in SourceCoverageFloor(p, r.template) : f =< asOf
          /\ DeployLocked(pages, p,
               PrepareDeploy(Materialize(r.template, r.data, asOf, stamp), publish, None, TRUE),
               a, None, "data_update")
  /\ inflight' = [inflight EXCEPT ![c] = Idle]
  /\ UNCHANGED deletes
UpdatePageData(c, asOf, stamp, publish, a) ==
  /\ inflight[c] # Idle
  /\ LET r == inflight[c]
     IN \E p \in PageIds :
          /\ DataAdmitted(p, r, asOf)
          /\ DeployLocked(pages, p,
               PrepareDeploy(Materialize(TemplateOf(p, r), r.data, asOf, stamp),
                             publish, r.expected, TRUE),
               a, None, "data_update")
  /\ inflight' = [inflight EXCEPT ![c] = Idle]
  /\ UNCHANGED deletes

\* The locked checks refuse the update, or its caller goes away.
RefusePageData(c) ==
  /\ inflight[c] # Idle
  /\ inflight' = [inflight EXCEPT ![c] = Idle]
  /\ last' = Done("agent")
  /\ UNCHANGED <<pages, versions, inserted, deletes, trail>>

UpdatePageConfig(s, config, expected, publish, a) ==
  /\ \E p \in PageIds :
        /\ LockPage(s, p)
        /\ expected # None /\ AssertExpectedVersion(pages[p], expected)
        /\ LET doc == versions[pages[p].pointer].doc
           IN /\ pages[p].pointer # None
              /\ Managed(doc)
              /\ DeployLocked(pages, p,
                   PrepareDeploy(MaterializeConfig(doc, config), publish, expected, TRUE),
                   a, None, "config_update")
  /\ UNCHANGED <<deletes, inflight>>

---------------------------------------------------------------------------
(* Publish, rollback, review.                                              *)

SetStatus(v, status) == versions' = [versions EXCEPT ![v].status = status]

Publish(s, v, expected, a) ==
  /\ \E p \in PageIds :
        /\ LockPage(s, p)
        /\ AssertAgentMayMovePointer(pages[p], a)
        /\ OnPage(p, v) /\ versions[v].status = "draft"
        /\ SetStatus(v, "approved")
        /\ movePointer(pages, trail, p, v, expected)
        /\ last' = Done(a)
  /\ UNCHANGED <<inserted, deletes, inflight>>

\* With no version named (None), the newest approved one that is not live.
RollbackTarget(p, named, v) ==
  IF named # None THEN v = named
  ELSE LET cands == {w \in VersionIds : /\ OnPage(p, w)
                                        /\ versions[w].status = "approved"
                                        /\ w # pages[p].pointer}
       IN Newest(v, cands)

Rollback(s, named, expected, a) ==
  /\ \E p \in PageIds, v \in VersionIds :
        /\ LockPage(s, p)
        /\ AssertAgentMayMovePointer(pages[p], a)
        /\ RollbackTarget(p, named, v)
        /\ OnPage(p, v) /\ versions[v].status = "approved"
        /\ movePointer(pages, trail, p, v, expected)
        /\ last' = Done(a)
  /\ UNCHANGED <<versions, inserted, deletes, inflight>>

Approve(s, v, expected, a) ==
  /\ AssertAdminAction(a)
  /\ \E p \in PageIds :
        /\ LockPage(s, p)
        /\ OnPage(p, v) /\ versions[v].status = "pending"
        /\ SetStatus(v, "approved")
        /\ movePointer(pages, trail, p, v, expected)
        /\ last' = Done(a)
  /\ UNCHANGED <<inserted, deletes, inflight>>

Reject_AnyStatus(s, v, a) ==
  /\ AssertAdminAction(a)
  /\ \E p \in PageIds :
        /\ LockPage(s, p)
        /\ OnPage(p, v)
        /\ SetStatus(v, "rejected")
        /\ last' = Done(a)
  /\ UNCHANGED <<pages, inserted, deletes, trail, inflight>>
Reject(s, v, a) ==
  /\ AssertAdminAction(a)
  /\ \E p \in PageIds :
        /\ LockPage(s, p)
        /\ OnPage(p, v) /\ versions[v].status \in {"pending", "draft"}
        /\ SetStatus(v, "rejected")
        /\ last' = Done(a)
  /\ UNCHANGED <<pages, inserted, deletes, trail, inflight>>

---------------------------------------------------------------------------
(* Page settings, soft delete, restore.                                    *)

SetDisabled(s, value, a) ==
  /\ AssertAdminAction(a)
  /\ \E p \in PageIds :
        /\ LockPage(s, p)
        /\ pages' = [pages EXCEPT ![p].disabled = value]
        /\ last' = Done(a)
  /\ UNCHANGED <<versions, inserted, deletes, trail, inflight>>

SetApproval(s, value, a) ==
  /\ AssertAdminAction(a)
  /\ \E p \in PageIds :
        /\ LockPage(s, p)
        /\ pages' = [pages EXCEPT ![p].gated = value]
        /\ last' = Done(a)
  /\ UNCHANGED <<versions, inserted, deletes, trail, inflight>>

DeletePage_KeepsPointer(s, a) ==
  /\ deletes < MaxDeletes
  /\ \E p \in PageIds :
        /\ LockPage(s, p)
        /\ AssertAgentMayMovePointer(pages[p], a)
        /\ pages' = [pages EXCEPT ![p].life = "deleted",
                                  ![p].deletedAt = deletes + 1]
        /\ trail' = Audited(trail, p, pages[p].pointer, None)
        /\ last' = Done(a)
  /\ deletes' = deletes + 1
  /\ UNCHANGED <<versions, inserted, inflight>>
DeletePage_AnyAgent(s, a) ==
  /\ deletes < MaxDeletes
  /\ \E p \in PageIds :
        /\ LockPage(s, p)
        /\ pages' = [pages EXCEPT ![p].pointer = None, ![p].life = "deleted",
                                  ![p].deletedAt = deletes + 1]
        /\ trail' = Audited(trail, p, pages[p].pointer, None)
        /\ last' = Done(a)
  /\ deletes' = deletes + 1
  /\ UNCHANGED <<versions, inserted, inflight>>
DeletePage(s, a) ==
  /\ deletes < MaxDeletes
  /\ \E p \in PageIds :
        /\ LockPage(s, p)
        /\ AssertAgentMayMovePointer(pages[p], a)
        /\ pages' = [pages EXCEPT ![p].pointer = None, ![p].life = "deleted",
                                  ![p].deletedAt = deletes + 1]
        /\ trail' = Audited(trail, p, pages[p].pointer, None)
        /\ last' = Done(a)
  /\ deletes' = deletes + 1
  /\ UNCHANGED <<versions, inserted, inflight>>

RestorePage(s, a) ==
  /\ AssertAdminAction(a)
  /\ ~LiveSlug(s)
  /\ \E p \in PageIds :
        /\ pages[p].life = "deleted" /\ pages[p].slug = s
        /\ \A q \in PageIds : pages[q].life = "deleted" /\ pages[q].slug = s
                                => pages[q].deletedAt =< pages[p].deletedAt
        /\ pages' = [pages EXCEPT ![p].life = "live"]
        /\ last' = Done(a)
  /\ UNCHANGED <<versions, inserted, deletes, trail, inflight>>

---------------------------------------------------------------------------
Init ==
  /\ \E s \in Slugs : pages = [p \in PageIds |->
        [life |-> "free", slug |-> s, gated |-> FALSE, disabled |-> FALSE,
         pointer |-> None, deletedAt |-> 0]]
  /\ versions = [v \in VersionIds |->
        [page |-> None, doc |-> NoDocument, status |-> "none", created |-> 0]]
  /\ inserted = 0
  /\ deletes = 0
  /\ trail = [p \in PageIds |-> [at |-> None, whole |-> TRUE]]
  /\ inflight = [c \in Clients |-> Idle]
  /\ last = Done("user")

Expecteds == 0..MaxVersions

AuthorStep(s, a) ==
  \/ \E g \in BOOLEAN : CreatePage(s, g, a)
  \/ \E d \in Uploads, pub \in BOOLEAN, e \in Expecteds : Deploy(s, d, pub, e, a)
  \/ \E d \in Uploads, pub \in BOOLEAN, e \in Expecteds, g \in BOOLEAN :
        CreateAndDeploy(s, d, pub, e, g, a)
  \/ \E k \in Configs, e \in VersionIds, pub \in BOOLEAN : UpdatePageConfig(s, k, e, pub, a)
  \/ \E v \in VersionIds, e \in Expecteds : Publish(s, v, e, a)
  \/ \E v \in Expecteds, e \in Expecteds : Rollback(s, v, e, a)
  \/ DeletePage(s, a)

ReviewStep(s, a) ==
  \/ \E v \in VersionIds, e \in Expecteds : Approve(s, v, e, a)
  \/ \E v \in VersionIds : Reject(s, v, a)
  \/ \E b \in BOOLEAN : SetDisabled(s, b, a)
  \/ \E b \in BOOLEAN : SetApproval(s, b, a)
  \/ RestorePage(s, a)

DeckStep(s) ==
  \E p \in PageIds, b \in VersionIds, d \in Uploads : SaveDeck(s, p, b, d)

RefreshStep(c) ==
  \/ \E s \in Slugs, x \in DataSets, e \in VersionIds : precheckPageData(c, s, x, e)
  \/ \E t \in AsOfs, r \in Stamps, pub \in BOOLEAN, a \in Actors :
        UpdatePageData(c, t, r, pub, a)
  \/ RefusePageData(c)

Next ==
  \/ \E s \in Slugs, a \in Actors : AuthorStep(s, a) \/ ReviewStep(s, a)
  \/ \E s \in Slugs : DeckStep(s)
  \/ \E c \in Clients : RefreshStep(c)

Spec == Init /\ [][Next]_vars

---------------------------------------------------------------------------
(* Properties.                                                             *)

\* The rows, the in-flight requests and the last answer have their types.
TypeOK ==
  /\ pages \in [PageIds -> PageRows]
  /\ versions \in [VersionIds -> VersionRows]
  /\ inserted \in 0..MaxVersions
  /\ deletes \in 0..MaxDeletes
  /\ trail \in [PageIds -> Trails]
  /\ inflight \in [Clients -> Requests \cup {Idle}]
  /\ last \in Answers

\* What is live is an approved version of the same page, in every reachable
\* state: whatever mix of deploys, dedupes, reviews, rollbacks, deletes and
\* restores led there (the claim of DeployLocked, "the pointer may only ever
\* reference an `approved` version").  A deleted row points nowhere.
PointerApproved ==
  \A p \in PageIds :
    /\ pages[p].pointer # None =>
         /\ pages[p].life = "live"
         /\ OnPage(p, pages[p].pointer)
         /\ versions[pages[p].pointer].status = "approved"
    /\ pages[p].life # "live" => pages[p].pointer = None

\* Replaying the audit log's pointer entries (publish, approve, rollback,
\* delete_page, each with the pointer it moved from) gives the live pointer of
\* every page, without a gap: no code path moves the pointer unaudited.
AuditReplays ==
  \A p \in PageIds : trail[p].whole /\ trail[p].at = pages[p].pointer

\* The pointer a visitor of slug s is served from in the table pg: that of its
\* live, enabled page.
ServingIn(pg, s) ==
  LET up == {p \in PageIds : pg[p].life = "live" /\ pg[p].slug = s /\ ~pg[p].disabled}
  IN IF up = {} THEN None ELSE pg[CHOOSE p \in up : TRUE].pointer
Serving(s) == ServingIn(pages, s)

\* A page a human holds back: taken down or gated by the approval flag.
HeldIn(pg, s) == \E p \in PageIds : /\ pg[p].life = "live" /\ pg[p].slug = s
                                    /\ pg[p].disabled \/ pg[p].gated
Held(s) == HeldIn(pages, s)

\* No step of an agent changes what a held slug serves, nor lifts the hold:
\* not by a deploy, a dedupe, a rollback, nor by deleting the page and creating
\* it again (the bypass AssertAgentMayMovePointer names).
AgentsRespectHolds ==
  [][ \A s \in Slugs : Held(s) /\ last'.actor = "agent" =>
        Held(s)' /\ Serving(s)' = Serving(s) ]_vars

\* `live` in a deploy's answer is the truth about serving, at the moment the
\* deploy commits: the slug now serves this version.  It covers dedupes onto
\* the version already live, gated pages and disabled pages.
LiveTruthful ==
  last.op \in {"deploy", "data_update", "config_update", "deck_save"} =>
    (last.live <=> Serving(pages[last.page].slug) = last.version)

\* Version history is append-only and review is final: a stored document never
\* changes, an approved or rejected version keeps its status, and a version an
\* approval gate queued as pending becomes approved only by a human's step.
HistoryFinal ==
  [][ \A v \in VersionIds : versions[v].status # "none" =>
        /\ versions'[v].doc = versions[v].doc /\ versions'[v].page = versions[v].page
        /\ versions[v].status \in {"approved", "rejected"} => versions'[v].status = versions[v].status
        /\ versions[v].status = "pending" /\ versions'[v].status # "pending" => last'.actor = "user" ]_vars

\* A data refresh never takes source coverage backward: what it lands on covers
\* at least every version that was not rejected, live or not, so a publish:false
\* canary and a rolled-back page cannot be overtaken by older data.
CoverageMonotone ==
  [][ last'.op = "data_update" =>
        \A v \in VersionIds :
          /\ versions[v].page = last'.page /\ Managed(versions[v].doc)
          /\ versions[v].status \notin {"none", "rejected"}
          => versions[v].doc.asOf =< versions'[last'.version].doc.asOf ]_vars

\* The template is read before the page lock and used after it, yet a refresh
\* changes the data only: the version it lands on carries the layout and config
\* of the version that was live when it committed, and data that layout's
\* schema accepts ("a concurrent publish cannot let invalid data through").
RefreshKeepsTemplate ==
  [][ last'.op = "data_update" =>
        LET was == versions[pages[last'.page].pointer].doc
            now == versions'[last'.version].doc
        IN now.layout = was.layout /\ now.config = was.config /\ Contract(now) ]_vars

\* A deck editor's save is answered with the version a reopened editor shows
\* and the next save must continue: the newest by created_at, then id.  So it
\* is also when the bytes equal those of an earlier version, and when other
\* transactions, begun earlier, got the page's lock between the two saves.
DeckSaveNewest ==
  last.op = "deck_save" => Newest(last.version, VersionsOf(last.page))

\* docs/API.md, deploy_page: "Publishes by default on open pages; gated pages
\* land pending."  Read as: what an agent's deploy answers with on a gated page
\* is a pending version, in the review queue.
GatedLandsPending ==
  last.op = "deploy" /\ last.actor = "agent" /\ pages[last.page].gated =>
    versions[last.version].status = "pending"

\* One live page per slug, and ids are handed out in order: every row of
\* page_versions belongs to a page that exists.
SlugsUnique ==
  /\ \A p, q \in PageIds : pages[p].life = "live" /\ pages[q].life = "live"
                             /\ pages[p].slug = pages[q].slug => p = q
  /\ \A v \in VersionIds : /\ versions[v].status # "none" <=> v =< inserted
                           /\ versions[v].status # "none" =>
                                versions[v].page \in PageIds /\ pages[versions[v].page].life # "free"
---------------------------------------------------------------------------
(* The abstract promise.                                                   *)

Gov == INSTANCE Governance WITH
         Versions <- VersionIds, Nothing <- None,
         shown    <- [s \in Slugs |-> Serving(s)],
         held     <- [s \in Slugs |-> Held(s)],
         refused  <- {v \in VersionIds : versions[v].status = "rejected"},
         by       <- last.actor

\* Every step of the state machine is a step Governance allows, seen through
\* what each slug serves, which slugs are held and which versions were
\* rejected.
Governed == Gov!Spec
=============================================================================
