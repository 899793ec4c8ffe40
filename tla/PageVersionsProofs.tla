------------------------- MODULE PageVersionsProofs -------------------------
(***************************************************************************)
(* Proofs about PageVersions, for every value of its constants.           *)
(***************************************************************************)
EXTENDS PageVersions, TLAPS

Ops   == {"deploy", "data_update", "config_update", "deck_save", "other"}
Preps == [doc : Documents, publish : BOOLEAN, expected : 0..MaxVersions,
          byData : BOOLEAN, sound : BOOLEAN]

\* The pages table a deploy works on: the current one, or the current one with
\* a fresh row at an unused id (CreateAndDeploy).
Base(pg, p) ==
  \/ pg = pages /\ pages[p].life = "live"
  \/ /\ pages[p].life = "free"
     /\ \E s \in Slugs, g \in BOOLEAN : pg = [pages EXCEPT ![p] = NewRow(s, g)]
     /\ \A q \in PageIds : pages[q].life = "live" => pages[q].slug # pg[p].slug

---------------------------------------------------------------------------
(* Documents and prepared deploys are well typed.                          *)

\* The document set is not empty: the unused version rows hold one.
LEMMA NoDocumentType == NoDocument \in Documents
BY DocumentsAssumption DEF NoDocument

\* PrepareDeploy normalises a document into a well-typed deploy.
LEMMA PrepType ==
  ASSUME NEW d \in Documents, NEW pub \in BOOLEAN, NEW e \in 0..MaxVersions,
         NEW m \in BOOLEAN
  PROVE  PrepareDeploy(d, pub, e, m) \in Preps
BY DEF PrepareDeploy, Preps, Managed, Contract

\* Materialization of data and of config yields documents.
LEMMA MaterializeType ==
  ASSUME NEW d \in Documents, NEW x \in DataSets, NEW t \in AsOfs,
         NEW r \in Stamps, NEW k \in Configs
  PROVE  /\ Materialize(d, x, t, r) \in Documents
         /\ MaterializeConfig(d, k) \in Documents
BY DEF Materialize, MaterializeConfig, Documents

\* A fresh row is a row.
LEMMA NewRowType ==
  ASSUME NEW s \in Slugs, NEW g \in BOOLEAN
  PROVE  NewRow(s, g) \in PageRows
BY BoundsAssumption DEF NewRow, PageRows, None

---------------------------------------------------------------------------
(* Deploys keep the types.                                                 *)

\* Moving the pointer of a well-typed table gives well-typed tables.
LEMMA MoveType ==
  ASSUME TypeOK, NEW STATE pg, pg \in [PageIds -> PageRows], NEW p \in PageIds,
         NEW v \in VersionIds, NEW e, movePointer(pg, trail, p, v, e)
  PROVE  pages' \in [PageIds -> PageRows] /\ trail' \in [PageIds -> Trails]
<1> USE BoundsAssumption DEF VersionIds, PageIds
<1>1. pages' \in [PageIds -> PageRows]
  <2>1. [pg[p] EXCEPT !.pointer = v] \in PageRows BY SMTT(60) DEF PageRows
  <2>2. pages' = [pg EXCEPT ![p] = [pg[p] EXCEPT !.pointer = v]] BY DEF movePointer
  <2> QED BY <2>1, <2>2
<1>2. trail[p] \in Trails /\ pg[p].pointer \in 0..MaxVersions
  BY DEF TypeOK, PageRows
<1>3. [at |-> v, whole |-> trail[p].whole /\ trail[p].at = pg[p].pointer] \in Trails
  BY <1>2 DEF Trails
<1>4. trail' \in [PageIds -> Trails]
  BY <1>3 DEF movePointer, Audited, TypeOK
<1> QED BY <1>1, <1>4

\* Landing a deploy on a version keeps the types.
LEMMA LandType ==
  ASSUME TypeOK, NEW STATE pg, pg \in [PageIds -> PageRows],
         NEW STATE rows, rows \in [VersionIds -> VersionRows], NEW p \in PageIds,
         NEW v \in VersionIds, NEW STATE prep, prep \in Preps, NEW a \in Actors,
         NEW op \in Ops, Land(pg, rows, p, v, prep, a, op)
  PROVE  /\ pages' \in [PageIds -> PageRows] /\ trail' \in [PageIds -> Trails]
         /\ versions' \in [VersionIds -> VersionRows] /\ last' \in Answers
<1> DEFINE goes  == prep.publish /\ ~pg[p].gated
           moves == goes /\ (~Managed(prep.doc) \/ pg[p].pointer # v)
<1>1. versions' \in [VersionIds -> VersionRows]
  BY DEF Land, VersionRows, Statuses
<1>2. pages' \in [PageIds -> PageRows] /\ trail' \in [PageIds -> Trails]
  <2>1. CASE moves BY <2>1, MoveType DEF Land
  <2>2. CASE ~moves BY <2>2 DEF Land, TypeOK
  <2> QED BY <2>1, <2>2
<1>3. last' \in Answers
  <2>1. IsLive(pg[p], v, moves) \in BOOLEAN BY DEF IsLive
  <2> QED BY <2>1, BoundsAssumption DEF Land, Answer, Answers, Ops, PageIds, VersionIds
<1> QED BY <1>1, <1>2, <1>3

\* The whole of DeployLocked keeps the types.
LEMMA DeployType ==
  ASSUME TypeOK, NEW STATE pg, pg \in [PageIds -> PageRows], NEW p \in PageIds,
         NEW STATE prep, prep \in Preps, NEW a \in Actors, NEW only, NEW op \in Ops,
         DeployLocked(pg, p, prep, a, only, op)
  PROVE  /\ pages' \in [PageIds -> PageRows] /\ trail' \in [PageIds -> Trails]
         /\ versions' \in [VersionIds -> VersionRows] /\ last' \in Answers
         /\ inserted' \in 0..MaxVersions
<1> DEFINE hits == DedupeMatches(p, pg[p].gated, prep, only)
           new  == inserted + 1
           named == IF only # None THEN only ELSE prep.expected
           row(at) == [page |-> p, doc |-> prep.doc, created |-> at,
                       status |-> IF pg[p].gated THEN "pending" ELSE "draft"]
<1>1. CASE /\ \E v \in hits : Land(pg, versions, p, v, prep, a, op)
           /\ UNCHANGED inserted
  <2>1. PICK v \in hits : Land(pg, versions, p, v, prep, a, op) BY <1>1
  <2>2. v \in VersionIds BY <2>1 DEF DedupeMatches
  <2> QED BY <1>1, <2>1, <2>2, LandType DEF TypeOK
<1>2. CASE /\ new \in VersionIds
           /\ \E at \in BeginTimes(p, named) :
                Land(pg, [versions EXCEPT ![new] = row(at)], p, new, prep, a, op)
           /\ inserted' = new
  <2>0. PICK at \in Times : Land(pg, [versions EXCEPT ![new] = row(at)], p, new, prep, a, op)
    BY <1>2 DEF BeginTimes
  <2>1. row(at) \in VersionRows
    BY BoundsAssumption DEF VersionRows, Statuses, Preps, PageIds, Times
  <2>2. [versions EXCEPT ![new] = row(at)] \in [VersionIds -> VersionRows]
    BY <2>1 DEF TypeOK
  <2>3. inserted' \in 0..MaxVersions BY <1>2 DEF VersionIds
  <2> HIDE DEF row, new
  <2> QED BY <1>2, <2>0, <2>2, <2>3, LandType
<1> QED BY <1>1, <1>2 DEF DeployLocked

---------------------------------------------------------------------------
(* Type correctness, action by action.                                     *)

\* Authoring steps keep the types.
LEMMA AuthorType ==
  ASSUME TypeOK, NEW s \in Slugs, NEW a \in Actors, AuthorStep(s, a)
  PROVE  TypeOK'
<1> USE BoundsAssumption
<1>1. ASSUME NEW g \in BOOLEAN, CreatePage(s, g, a) PROVE TypeOK'
  <2>1. PICK p \in PageIds : /\ pages' = [pages EXCEPT ![p] = NewRow(s, g)]
                             /\ last' = Done(a)
    BY <1>1 DEF CreatePage
  <2>2. pages' \in [PageIds -> PageRows] BY <2>1, NewRowType DEF TypeOK
  <2>3. last' \in Answers
    BY <2>1 DEF Done, Answer, Answers, None, PageIds, VersionIds
  <2> QED BY <1>1, <2>2, <2>3 DEF CreatePage, TypeOK
<1>2. ASSUME NEW d \in Uploads, NEW pub \in BOOLEAN, NEW e \in Expecteds,
             Deploy(s, d, pub, e, a)
      PROVE TypeOK'
  <2>1. PrepareDeploy(d, pub, e, FALSE) \in Preps
    BY PrepType, DocumentsAssumption DEF Expecteds
  <2> QED BY <1>2, <2>1, DeployType DEF Deploy, TypeOK, Ops
<1>3. ASSUME NEW d \in Uploads, NEW pub \in BOOLEAN, NEW e \in Expecteds,
             NEW g \in BOOLEAN, CreateAndDeploy(s, d, pub, e, g, a)
      PROVE TypeOK'
  <2>1. PrepareDeploy(d, pub, e, FALSE) \in Preps
    BY PrepType, DocumentsAssumption DEF Expecteds
  <2>2. PICK pg \in {pages} \cup {[pages EXCEPT ![p] = NewRow(s, g)] : p \in PageIds},
             p \in PageIds :
          DeployLocked(pg, p, PrepareDeploy(d, pub, e, FALSE), a, None, "deploy")
    BY <1>3 DEF CreateAndDeploy
  <2>3. pg \in [PageIds -> PageRows] BY NewRowType DEF TypeOK
  <2> QED BY <1>3, <2>1, <2>2, <2>3, DeployType DEF CreateAndDeploy, TypeOK, Ops
<1>4. ASSUME NEW k \in Configs, NEW e \in VersionIds, NEW pub \in BOOLEAN,
             UpdatePageConfig(s, k, e, pub, a)
      PROVE TypeOK'
  <2> DEFINE prep(p) == PrepareDeploy(MaterializeConfig(versions[pages[p].pointer].doc, k), pub, e, TRUE)
  <2>1. PICK p \in PageIds : /\ pages[p].pointer # None
                             /\ DeployLocked(pages, p, prep(p), a, None, "config_update")
    BY <1>4 DEF UpdatePageConfig
  <2>2. pages[p].pointer \in VersionIds
    BY <2>1 DEF TypeOK, PageRows, VersionIds, None
  <2>3. versions[pages[p].pointer].doc \in Documents
    BY <2>2 DEF TypeOK, VersionRows
  <2>4. MaterializeConfig(versions[pages[p].pointer].doc, k) \in Documents
    BY <2>3 DEF MaterializeConfig, Documents
  <2>5. e \in 0..MaxVersions BY DEF VersionIds
  <2>6. prep(p) \in Preps BY <2>4, <2>5, PrepType
  <2> QED BY <1>4, <2>1, <2>6, DeployType DEF UpdatePageConfig, TypeOK, Ops
<1>5. ASSUME NEW v \in VersionIds, NEW e \in Expecteds, Publish(s, v, e, a)
      PROVE TypeOK'
  <2>1. PICK p \in PageIds : /\ movePointer(pages, trail, p, v, e)
                             /\ SetStatus(v, "approved") /\ last' = Done(a)
    BY <1>5 DEF Publish
  <2>2. versions' \in [VersionIds -> VersionRows]
    BY <2>1 DEF SetStatus, TypeOK, VersionRows, Statuses
  <2>3. last' \in Answers
    BY <2>1 DEF Done, Answer, Answers, None, PageIds, VersionIds
  <2> QED BY <1>5, <2>1, <2>2, <2>3, MoveType DEF Publish, TypeOK
<1>6. ASSUME NEW n \in Expecteds, NEW e \in Expecteds, Rollback(s, n, e, a)
      PROVE TypeOK'
  <2>1. PICK p \in PageIds, v \in VersionIds : /\ movePointer(pages, trail, p, v, e)
                                               /\ last' = Done(a)
    BY <1>6 DEF Rollback
  <2>2. last' \in Answers
    BY <2>1 DEF Done, Answer, Answers, None, PageIds, VersionIds
  <2> QED BY <1>6, <2>1, <2>2, MoveType DEF Rollback, TypeOK
<1>7. ASSUME DeletePage(s, a) PROVE TypeOK'
  <2>1. PICK p \in PageIds :
          /\ pages' = [pages EXCEPT ![p].pointer = None, ![p].life = "deleted",
                                    ![p].deletedAt = deletes + 1]
          /\ trail' = Audited(trail, p, pages[p].pointer, None)
          /\ last' = Done(a)
    BY <1>7 DEF DeletePage
  <2>2. deletes + 1 \in 0..MaxDeletes BY <1>7 DEF DeletePage, TypeOK
  <2>3. [pages[p] EXCEPT !.pointer = None, !.life = "deleted", !.deletedAt = deletes + 1] \in PageRows
    <3>1. pages[p] \in PageRows BY DEF TypeOK
    <3>2. None \in 0..MaxVersions BY DEF None
    <3> QED BY <2>2, <3>1, <3>2 DEF PageRows
  <2>4. pages' = [pages EXCEPT ![p] = [pages[p] EXCEPT !.pointer = None, !.life = "deleted", !.deletedAt = deletes + 1]]
    BY <2>1 DEF TypeOK
  <2>5. pages' \in [PageIds -> PageRows] BY <2>3, <2>4 DEF TypeOK
  <2>6. [at |-> None, whole |-> trail[p].whole /\ trail[p].at = pages[p].pointer] \in Trails
    BY DEF TypeOK, Trails, None
  <2>7. trail' \in [PageIds -> Trails] BY <2>1, <2>6 DEF Audited, TypeOK
  <2>8. last' \in Answers
    BY <2>1 DEF Done, Answer, Answers, None, PageIds, VersionIds
  <2> QED BY <1>7, <2>2, <2>5, <2>7, <2>8 DEF DeletePage, TypeOK
<1> QED BY <1>1, <1>2, <1>3, <1>4, <1>5, <1>6, <1>7 DEF AuthorStep

\* Review and settings steps keep the types.
LEMMA ReviewType ==
  ASSUME TypeOK, NEW s \in Slugs, NEW a \in Actors, ReviewStep(s, a)
  PROVE  TypeOK'
<1> USE BoundsAssumption
<1>1. Done(a) \in Answers
  BY DEF Done, Answer, Answers, None, PageIds, VersionIds
<1>2. ASSUME NEW v \in VersionIds, NEW e \in Expecteds, Approve(s, v, e, a)
      PROVE TypeOK'
  <2>1. PICK p \in PageIds : /\ movePointer(pages, trail, p, v, e)
                             /\ SetStatus(v, "approved") /\ last' = Done(a)
    BY <1>2 DEF Approve
  <2>2. versions' \in [VersionIds -> VersionRows]
    BY <2>1 DEF SetStatus, TypeOK, VersionRows, Statuses
  <2> QED BY <1>1, <1>2, <2>1, <2>2, MoveType DEF Approve, TypeOK
<1>3. ASSUME NEW v \in VersionIds, Reject(s, v, a) PROVE TypeOK'
  <2>1. versions' \in [VersionIds -> VersionRows]
    BY <1>3 DEF Reject, SetStatus, TypeOK, VersionRows, Statuses
  <2> QED BY <1>1, <1>3, <2>1 DEF Reject, TypeOK
<1>4. ASSUME NEW b \in BOOLEAN, SetDisabled(s, b, a) PROVE TypeOK'
  <2>1. pages' \in [PageIds -> PageRows]
    BY <1>4 DEF SetDisabled, TypeOK, PageRows
  <2> QED BY <1>1, <1>4, <2>1 DEF SetDisabled, TypeOK
<1>5. ASSUME NEW b \in BOOLEAN, SetApproval(s, b, a) PROVE TypeOK'
  <2>1. pages' \in [PageIds -> PageRows]
    BY <1>5 DEF SetApproval, TypeOK, PageRows
  <2> QED BY <1>1, <1>5, <2>1 DEF SetApproval, TypeOK
<1>6. ASSUME RestorePage(s, a) PROVE TypeOK'
  <2>1. pages' \in [PageIds -> PageRows]
    BY <1>6 DEF RestorePage, TypeOK, PageRows
  <2> QED BY <1>1, <1>6, <2>1 DEF RestorePage, TypeOK
<1> QED BY <1>2, <1>3, <1>4, <1>5, <1>6 DEF ReviewStep

\* Deck saves keep the types.
LEMMA DeckType ==
  ASSUME TypeOK, NEW s \in Slugs, DeckStep(s)
  PROVE  TypeOK'
<1>1. PICK session \in PageIds, b \in VersionIds, d \in Uploads : SaveDeck(s, session, b, d)
  BY DEF DeckStep
<1>2. PICK p \in PageIds, n \in VersionIds :
        DeployLocked(pages, p, PrepareDeploy(d, FALSE, None, FALSE), "user", n, "deck_save")
  BY <1>1 DEF SaveDeck
<1>3. PrepareDeploy(d, FALSE, None, FALSE) \in Preps
  <2>1. d \in Documents /\ None \in 0..MaxVersions
    BY DocumentsAssumption, BoundsAssumption DEF None
  <2> QED BY <2>1, PrepType
<1> QED BY <1>1, <1>2, <1>3, DeployType DEF SaveDeck, TypeOK, Ops, Actors

\* The template of an admitted data update is a document.
LEMMA TemplateType ==
  ASSUME TypeOK, NEW p \in PageIds, NEW r \in Requests, pages[p].pointer # None
  PROVE  TemplateOf(p, r) \in Documents
<1>1. pages[p].pointer \in VersionIds
  BY BoundsAssumption DEF TypeOK, PageRows, VersionIds, None
<1> QED BY <1>1 DEF TemplateOf, TypeOK, VersionRows, Requests

\* Data refreshes keep the types.
LEMMA RefreshType ==
  ASSUME TypeOK, NEW c \in Clients, RefreshStep(c)
  PROVE  TypeOK'
<1> USE BoundsAssumption
<1>1. Done("agent") \in Answers
  BY DEF Done, Answer, Answers, None, PageIds, VersionIds, Actors
<1>2. ASSUME NEW s \in Slugs, NEW x \in DataSets, NEW e \in VersionIds,
             precheckPageData(c, s, x, e)
      PROVE TypeOK'
  <2> DEFINE req(v, d) == [slug |-> s, data |-> x, expected |-> e,
                           snapshot |-> v, template |-> d]
  <2>1. \/ inflight' = [inflight EXCEPT ![c] = req(e, versions[e].doc)]
        \/ inflight' = [inflight EXCEPT ![c] = req(None, NoDocument)]
    BY <1>2 DEF precheckPageData
  <2>2. req(e, versions[e].doc) \in Requests
    BY DEF TypeOK, VersionRows, Requests, VersionIds
  <2>3. req(None, NoDocument) \in Requests
    BY NoDocumentType DEF Requests, None
  <2>4. inflight' \in [Clients -> Requests \cup {Idle}]
    <3> HIDE DEF req
    <3> QED BY <2>1, <2>2, <2>3 DEF TypeOK
  <2> QED BY <1>1, <1>2, <2>4 DEF precheckPageData, TypeOK
<1>3. ASSUME NEW t \in AsOfs, NEW r \in Stamps, NEW pub \in BOOLEAN, NEW a \in Actors,
             UpdatePageData(c, t, r, pub, a)
      PROVE TypeOK'
  <2> DEFINE q == inflight[c]
             prep(p) == PrepareDeploy(Materialize(TemplateOf(p, q), q.data, t, r),
                                      pub, q.expected, TRUE)
  <2>1. q \in Requests BY <1>3 DEF UpdatePageData, TypeOK
  <2>2. PICK p \in PageIds : /\ pages[p].pointer # None
                             /\ DeployLocked(pages, p, prep(p), a, None, "data_update")
    BY <1>3 DEF UpdatePageData, DataAdmitted
  <2>3. TemplateOf(p, q) \in Documents BY <2>1, <2>2, TemplateType
  <2>4. q.data \in DataSets /\ q.expected \in 0..MaxVersions
    BY <2>1 DEF Requests, VersionIds
  <2>5. Materialize(TemplateOf(p, q), q.data, t, r) \in Documents
    BY <2>3, <2>4 DEF Materialize, Documents
  <2>6. prep(p) \in Preps BY <2>4, <2>5, PrepType
  <2>7. inflight' \in [Clients -> Requests \cup {Idle}]
    BY <1>3 DEF UpdatePageData, TypeOK
  <2> QED BY <1>3, <2>2, <2>6, <2>7, DeployType DEF UpdatePageData, TypeOK, Ops
<1>4. ASSUME RefusePageData(c) PROVE TypeOK'
  BY <1>1, <1>4 DEF RefusePageData, TypeOK
<1> QED BY <1>2, <1>3, <1>4 DEF RefreshStep

\* The initial tables are well typed.
LEMMA InitType == Init => TypeOK
<1> SUFFICES ASSUME Init PROVE TypeOK OBVIOUS
<1> USE BoundsAssumption DEF Init, None
<1>1. pages \in [PageIds -> PageRows] BY DEF PageRows
<1>2. versions \in [VersionIds -> VersionRows]
  BY NoDocumentType DEF VersionRows, Statuses
<1>3. trail \in [PageIds -> Trails] BY DEF Trails
<1>4. last \in Answers BY DEF Done, Answer, Answers, Actors
<1>5. inflight \in [Clients -> Requests \cup {Idle}] OBVIOUS
<1>6. inserted \in 0..MaxVersions /\ deletes \in 0..MaxDeletes OBVIOUS
<1> HIDE DEF Init
<1> QED BY <1>1, <1>2, <1>3, <1>4, <1>5, <1>6 DEF TypeOK

\* Every reachable state of the page/version machine is well typed: no
\* transaction of internal/versions stores a status, a pointer or a flag
\* outside the columns' domains.
THEOREM TypeCorrect == Spec => []TypeOK
<1>1. TypeOK /\ [Next]_vars => TypeOK'
  <2> SUFFICES ASSUME TypeOK, [Next]_vars PROVE TypeOK' OBVIOUS
  <2>1. CASE UNCHANGED vars BY <2>1 DEF vars, TypeOK
  <2>2. CASE Next
    BY <2>2, AuthorType, ReviewType, DeckType, RefreshType DEF Next
  <2> QED BY <2>1, <2>2
<1> QED BY InitType, <1>1, PTL DEF Spec

---------------------------------------------------------------------------
(* What a deploy does to the tables, whichever branch it takes.            *)

\* Seen on page_versions alone.
LandedVersion(p, v, a) ==
  /\ \A w \in VersionIds \ {v} : versions'[w] = versions[w]
  /\ versions'[v].page = p
  /\ last'.actor = a
  /\ \/ /\ OnPage(p, v) /\ inserted' = inserted
        /\ versions'[v].doc = versions[v].doc
        /\ versions[v].status # "rejected"
        /\ \/ versions'[v].status = versions[v].status
           \/ versions'[v].status = "approved" /\ versions[v].status # "pending"
     \/ /\ v = inserted + 1 /\ inserted' = v
        /\ versions'[v].status \in {"pending", "draft", "approved"}

\* The deploy ends on version v of page p: it found it or inserted it, left its
\* status alone or approved it, moved the pointer there with an audit row or
\* moved nothing.
Landed(pg, p, v, a) ==
  /\ \A q \in PageIds \ {p} : pages'[q] = pg[q]
  /\ pages'[p].life = pg[p].life /\ pages'[p].slug = pg[p].slug
  /\ pages'[p].gated = pg[p].gated /\ pages'[p].disabled = pg[p].disabled
  /\ \/ pages'[p].pointer = pg[p].pointer /\ trail' = trail
     \/ /\ pages'[p].pointer = v /\ versions'[v].status = "approved"
        /\ trail' = Audited(trail, p, pg[p].pointer, v)
        /\ ~pg[p].gated /\ AssertAgentMayMovePointer(pg[p], a)
  /\ LandedVersion(p, v, a)

\* Land, spelled out on the rows it was given.
LEMMA LandEffect ==
  ASSUME NEW STATE pg, pg \in [PageIds -> PageRows], TypeOK,
         NEW STATE rows, rows \in [VersionIds -> VersionRows], NEW p \in PageIds,
         NEW v \in VersionIds, NEW STATE prep, prep \in Preps, NEW a \in Actors,
         NEW op, Land(pg, rows, p, v, prep, a, op)
  PROVE  /\ \A q \in PageIds \ {p} : pages'[q] = pg[q]
         /\ pages'[p].life = pg[p].life /\ pages'[p].slug = pg[p].slug
         /\ pages'[p].gated = pg[p].gated /\ pages'[p].disabled = pg[p].disabled
         /\ \/ pages'[p].pointer = pg[p].pointer /\ trail' = trail
            \/ /\ pages'[p].pointer = v /\ versions'[v].status = "approved"
               /\ trail' = Audited(trail, p, pg[p].pointer, v)
               /\ ~pg[p].gated /\ AssertAgentMayMovePointer(pg[p], a)
         /\ \A w \in VersionIds \ {v} : versions'[w] = rows[w]
         /\ versions'[v].page = rows[v].page /\ versions'[v].doc = rows[v].doc
         /\ versions'[v].created = rows[v].created
         /\ \/ versions'[v].status = rows[v].status
            \/ versions'[v].status = "approved" /\ ~pg[p].gated
         /\ last'.actor = a
<1> DEFINE goes  == prep.publish /\ ~pg[p].gated
           moves == goes /\ (~Managed(prep.doc) \/ pg[p].pointer # v)
<1>0. pg[p] \in PageRows /\ rows[v] \in VersionRows OBVIOUS
<1>a. last'.actor = a BY DEF Land, Answer
<1>1. CASE goes
  <2>1. versions' = [rows EXCEPT ![v].status = "approved"] BY <1>1 DEF Land
  <2>2. AssertAgentMayMovePointer(pg[p], a) BY <1>1 DEF Land
  <2>3. /\ \A w \in VersionIds \ {v} : versions'[w] = rows[w]
        /\ versions'[v].page = rows[v].page /\ versions'[v].doc = rows[v].doc
        /\ versions'[v].created = rows[v].created
        /\ versions'[v].status = "approved"
    BY <2>1, <1>0 DEF VersionRows
  <2>4. CASE moves
    <3>1. movePointer(pg, trail, p, v, prep.expected) BY <2>4 DEF Land
    <3>2. pages' = [pg EXCEPT ![p].pointer = v] /\ trail' = Audited(trail, p, pg[p].pointer, v)
      BY <3>1 DEF movePointer
    <3>3. /\ \A q \in PageIds \ {p} : pages'[q] = pg[q]
          /\ pages'[p] = [pg[p] EXCEPT !.pointer = v]
      BY <3>2
    <3>4. /\ pages'[p].life = pg[p].life /\ pages'[p].slug = pg[p].slug
          /\ pages'[p].gated = pg[p].gated /\ pages'[p].disabled = pg[p].disabled
          /\ pages'[p].pointer = v
      BY <3>3, <1>0 DEF PageRows
    <3> QED BY <1>a, <1>1, <2>2, <2>3, <3>2, <3>3, <3>4
  <2>5. CASE ~moves
    <3>1. pages' = pg /\ trail' = trail BY <2>5 DEF Land
    <3> QED BY <1>a, <1>1, <2>3, <3>1
  <2> QED BY <2>4, <2>5
<1>2. CASE ~goes
  <2>1. versions' = rows /\ pages' = pg /\ trail' = trail BY <1>2 DEF Land
  <2> QED BY <1>a, <2>1
<1> QED BY <1>1, <1>2

\* DeployLocked ends on one version.
LEMMA DeployEffect ==
  ASSUME TypeOK, NEW STATE pg, pg \in [PageIds -> PageRows], NEW p \in PageIds,
         NEW STATE prep, prep \in Preps, NEW a \in Actors, NEW only, NEW op,
         DeployLocked(pg, p, prep, a, only, op)
  PROVE  \E v \in VersionIds : Landed(pg, p, v, a)
<1> DEFINE hits == DedupeMatches(p, pg[p].gated, prep, only)
           new  == inserted + 1
           named == IF only # None THEN only ELSE prep.expected
           row(at) == [page |-> p, doc |-> prep.doc, created |-> at,
                       status |-> IF pg[p].gated THEN "pending" ELSE "draft"]
           rows(at) == [versions EXCEPT ![new] = row(at)]
<1>1. CASE /\ \E v \in hits : Land(pg, versions, p, v, prep, a, op)
           /\ UNCHANGED inserted
  <2>1. PICK v \in hits : Land(pg, versions, p, v, prep, a, op) BY <1>1
  <2>2. /\ v \in VersionIds /\ OnPage(p, v) /\ versions[v].status # "rejected"
        /\ versions[v].status # Unusable(pg[p].gated)
    BY <2>1 DEF DedupeMatches
  <2>3. versions \in [VersionIds -> VersionRows] BY DEF TypeOK
  <2>4. ~pg[p].gated => versions[v].status # "pending" BY <2>2 DEF Unusable
  <2>5. versions[v].page = p BY <2>2 DEF OnPage
  <2>6. Landed(pg, p, v, a)
    BY <1>1, <2>1, <2>2, <2>3, <2>4, <2>5, LandEffect DEF Landed, LandedVersion
  <2> QED BY <2>2, <2>6
<1>2. CASE /\ new \in VersionIds
           /\ \E at \in BeginTimes(p, named) : Land(pg, rows(at), p, new, prep, a, op)
           /\ inserted' = new
  <2>0. PICK at \in BeginTimes(p, named) : Land(pg, rows(at), p, new, prep, a, op) BY <1>2
  <2>1. row(at) \in VersionRows
    BY BoundsAssumption DEF VersionRows, Statuses, Preps, PageIds, BeginTimes, Times
  <2>2. rows(at) \in [VersionIds -> VersionRows] BY <2>1 DEF TypeOK
  <2>3. /\ rows(at)[new] = row(at) /\ \A w \in VersionIds \ {new} : rows(at)[w] = versions[w]
    BY <1>2 DEF TypeOK
  <2>4. row(at).page = p /\ row(at).status \in {"pending", "draft"} OBVIOUS
  <2> HIDE DEF row, rows
  <2>5. Landed(pg, p, new, a)
    BY <1>2, <2>0, <2>2, <2>3, <2>4, LandEffect DEF Landed, LandedVersion
  <2> QED BY <1>2, <2>5
<1> QED BY <1>1, <1>2 DEF DeployLocked

---------------------------------------------------------------------------
(* The safety invariants.                                                  *)

\* PointerApproved alone is not inductive: it needs that a deploy's INSERT
\* never reuses the id of a stored version and that a pointer of one page never
\* rests on a row another page owns (SlugsUnique), and the types.
Safe == SlugsUnique /\ PointerApproved /\ AuditReplays

\* The table a deploy works on differs from the stored one at p only, where it
\* has a live row with the stored pointer and a slug no other live page has.
LEMMA BaseFacts ==
  ASSUME TypeOK, Safe, NEW STATE pg, NEW p \in PageIds, Base(pg, p)
  PROVE  /\ pg \in [PageIds -> PageRows]
         /\ \A q \in PageIds \ {p} : pg[q] = pages[q]
         /\ pg[p].life = "live" /\ pg[p].pointer = pages[p].pointer
         /\ \A q \in PageIds \ {p} : pages[q].life = "live" => pages[q].slug # pg[p].slug
<1>1. CASE pg = pages /\ pages[p].life = "live"
  BY <1>1 DEF TypeOK, Safe, SlugsUnique
<1>2. CASE pages[p].life = "free" /\ \E s \in Slugs, g \in BOOLEAN : pg = [pages EXCEPT ![p] = NewRow(s, g)]
  <2>1. PICK s \in Slugs, g \in BOOLEAN : pg = [pages EXCEPT ![p] = NewRow(s, g)] BY <1>2
  <2>2. pg \in [PageIds -> PageRows] BY <2>1, NewRowType DEF TypeOK
  <2>3. pg[p] = NewRow(s, g) /\ \A q \in PageIds \ {p} : pg[q] = pages[q]
    BY <2>1 DEF TypeOK
  <2>4. pages[p].pointer = None BY <1>2 DEF Safe, PointerApproved
  <2>5. pg[p].life = "live" /\ pg[p].pointer = None BY <2>3 DEF NewRow
  <2>6. \A q \in PageIds \ {p} : pages[q].life = "live" => pages[q].slug # pg[p].slug
    BY <1>2 DEF Base
  <2> QED BY <2>2, <2>3, <2>4, <2>5, <2>6
<1> QED BY <1>1, <1>2 DEF Base

\* A deploy preserves the safety invariants.
LEMMA DeploySafe ==
  ASSUME TypeOK, Safe, NEW STATE pg, NEW p \in PageIds, Base(pg, p),
         NEW v \in VersionIds, NEW a \in Actors, Landed(pg, p, v, a)
  PROVE  Safe'
<1>1. /\ pg \in [PageIds -> PageRows]
      /\ \A q \in PageIds \ {p} : pg[q] = pages[q]
      /\ pg[p].life = "live" /\ pg[p].pointer = pages[p].pointer
      /\ \A q \in PageIds \ {p} : pages[q].life = "live" => pages[q].slug # pg[p].slug
  BY BaseFacts
<1>2. \A w \in VersionIds : versions[w].status # "none" <=> w =< inserted
  BY DEF Safe, SlugsUnique
<1>3. \A w \in VersionIds : w # v => versions'[w] = versions[w] BY DEF Landed, LandedVersion
<1>4. versions'[v].page = p /\ versions'[v].status # "none" BY DEF Landed, LandedVersion, OnPage
<1>5. \A q \in PageIds : q # p => pages'[q] = pages[q] BY <1>1 DEF Landed, LandedVersion
<1>6. pages'[p].life = "live" /\ pages'[p].slug = pg[p].slug BY <1>1 DEF Landed, LandedVersion
<1>7. SlugsUnique'
  <2>1. \A q, r \in PageIds : pages'[q].life = "live" /\ pages'[r].life = "live"
                                /\ pages'[q].slug = pages'[r].slug => q = r
    BY <1>1, <1>5, <1>6 DEF Safe, SlugsUnique
  <2>2. \A w \in VersionIds : versions'[w].status # "none" <=> w =< inserted'
    <3>1. CASE OnPage(p, v) /\ inserted' = inserted
      BY <3>1, <1>2, <1>3, <1>4 DEF OnPage
    <3>2. CASE v = inserted + 1 /\ inserted' = v
      BY <3>2, <1>2, <1>3, <1>4 DEF TypeOK, VersionIds
    <3> QED BY <3>1, <3>2 DEF Landed, LandedVersion
  <2>3. \A w \in VersionIds : versions'[w].status # "none" =>
           versions'[w].page \in PageIds /\ pages'[versions'[w].page].life # "free"
    BY <1>3, <1>4, <1>5, <1>6 DEF Safe, SlugsUnique
  <2> QED BY <2>1, <2>2, <2>3 DEF SlugsUnique
<1>8. PointerApproved'
  <2> DEFINE Good(q, x) == /\ x \in VersionIds /\ versions'[x].page = q
                           /\ versions'[x].status = "approved"
  <2> SUFFICES ASSUME NEW q \in PageIds
               PROVE  /\ pages'[q].pointer # None =>
                           pages'[q].life = "live" /\ Good(q, pages'[q].pointer)
                      /\ pages'[q].life # "live" => pages'[q].pointer = None
    BY DEF PointerApproved, OnPage
  \* A stored pointer target keeps its row: an INSERT takes an unused id.
  <2>1. ASSUME pages[q].pointer # None
        PROVE  Good(q, pages[q].pointer)
    <3>1. /\ OnPage(q, pages[q].pointer) /\ versions[pages[q].pointer].status = "approved"
      BY <2>1 DEF Safe, PointerApproved
    <3>2. CASE pages[q].pointer # v BY <3>1, <3>2, <1>3 DEF OnPage
    <3>3. CASE pages[q].pointer = v
      <4>1. ~(v = inserted + 1)
        BY <3>1, <3>3, <1>2 DEF OnPage, TypeOK, VersionIds
      <4>2. OnPage(p, v) /\ versions'[v].status \in {versions[v].status, "approved"}
        BY <4>1 DEF Landed, LandedVersion
      <4> QED BY <3>1, <3>3, <4>2, <1>4 DEF OnPage
    <3> QED BY <3>2, <3>3
  <2>2. CASE q # p BY <2>1, <2>2, <1>5 DEF Safe, PointerApproved
  <2>3. CASE q = p /\ pages'[p].pointer = pg[p].pointer
    BY <2>1, <2>3, <1>1, <1>6
  <2>4. CASE q = p /\ pages'[p].pointer = v /\ versions'[v].status = "approved"
    BY <2>4, <1>4, <1>6 DEF OnPage
  <2> QED BY <2>2, <2>3, <2>4 DEF Landed, LandedVersion
<1>9. AuditReplays'
  <2>1. CASE pages'[p].pointer = pg[p].pointer /\ trail' = trail
    BY <2>1, <1>1, <1>5 DEF Safe, AuditReplays
  <2>2. CASE pages'[p].pointer = v /\ trail' = Audited(trail, p, pg[p].pointer, v)
    <3>1. trail'[p] = [at |-> v, whole |-> trail[p].whole /\ trail[p].at = pg[p].pointer]
      BY <2>2 DEF Audited, TypeOK
    <3>2. \A q \in PageIds : q # p => trail'[q] = trail[q]
      BY <2>2 DEF Audited, TypeOK
    <3>3. trail[p].whole /\ trail[p].at = pg[p].pointer
      BY <1>1 DEF Safe, AuditReplays
    <3>4. trail'[p].whole /\ trail'[p].at = v
      <4>1. (trail[p].whole /\ trail[p].at = pg[p].pointer) = TRUE BY <3>3
      <4>2. trail'[p] = [at |-> v, whole |-> TRUE] BY <3>1, <4>1
      <4> QED BY <4>2
    <3> QED BY <2>2, <3>2, <3>4, <1>5 DEF Safe, AuditReplays
  <2> QED BY <2>1, <2>2 DEF Landed, LandedVersion
<1> QED BY <1>7, <1>8, <1>9 DEF Safe

\* Publish, approve and rollback: the pointer moves to an approved version of
\* the page, and nothing else of the tables changes.
LEMMA MoveSafe ==
  ASSUME TypeOK, Safe, NEW p \in PageIds, NEW v \in VersionIds, NEW e,
         pages[p].life = "live", OnPage(p, v), inserted' = inserted,
         movePointer(pages, trail, p, v, e),
         \/ versions' = [versions EXCEPT ![v].status = "approved"]
         \/ versions' = versions /\ versions[v].status = "approved"
  PROVE  Safe'
<1>1. versions'[v].page = p /\ versions'[v].status = "approved"
  BY DEF OnPage, TypeOK, VersionRows
<1>2. \A w \in VersionIds : w # v => versions'[w] = versions[w] BY DEF TypeOK
<1>3. pages' = [pages EXCEPT ![p].pointer = v] BY DEF movePointer
<1>4. \A q \in PageIds : q # p => pages'[q] = pages[q] BY <1>3 DEF TypeOK
<1>5. /\ pages'[p].life = "live" /\ pages'[p].slug = pages[p].slug
      /\ pages'[p].pointer = v
  BY <1>3 DEF TypeOK, PageRows
<1>6. SlugsUnique'
  <2>1. \A q, r \in PageIds : pages'[q].life = "live" /\ pages'[r].life = "live"
                                /\ pages'[q].slug = pages'[r].slug => q = r
    BY <1>4, <1>5 DEF Safe, SlugsUnique
  <2>2. \A w \in VersionIds : versions'[w].status # "none" <=> w =< inserted'
    BY <1>1, <1>2 DEF Safe, SlugsUnique, OnPage
  <2>3. \A w \in VersionIds : versions'[w].status # "none" =>
           versions'[w].page \in PageIds /\ pages'[versions'[w].page].life # "free"
    BY <1>1, <1>2, <1>4, <1>5 DEF Safe, SlugsUnique
  <2> QED BY <2>1, <2>2, <2>3 DEF SlugsUnique
<1>7. PointerApproved'
  <2> DEFINE Good(q, x) == /\ x \in VersionIds /\ versions'[x].page = q
                           /\ versions'[x].status = "approved"
  <2>1. ASSUME NEW q \in PageIds
        PROVE  /\ pages'[q].pointer # None =>
                    pages'[q].life = "live" /\ Good(q, pages'[q].pointer)
               /\ pages'[q].life # "live" => pages'[q].pointer = None
    <3>1. CASE q = p BY <3>1, <1>1, <1>5
    <3>2. CASE q # p
      <4>1. /\ pages[q].pointer # None =>
                 /\ pages[q].life = "live" /\ OnPage(q, pages[q].pointer)
                 /\ versions[pages[q].pointer].status = "approved"
            /\ pages[q].life # "live" => pages[q].pointer = None
        BY DEF Safe, PointerApproved
      <4>2. CASE pages[q].pointer = v BY <3>2, <4>1, <4>2, <1>1, <1>4 DEF OnPage
      <4>3. CASE pages[q].pointer # v BY <3>2, <4>1, <4>3, <1>2, <1>4 DEF OnPage
      <4> QED BY <4>2, <4>3
    <3> QED BY <3>1, <3>2
  <2> QED BY <2>1 DEF PointerApproved, OnPage
<1>8. AuditReplays'
  <2>1. trail' = Audited(trail, p, pages[p].pointer, v) BY DEF movePointer
  <2>2. (trail[p].whole /\ trail[p].at = pages[p].pointer) = TRUE
    BY DEF Safe, AuditReplays
  <2>3. trail'[p] = [at |-> v, whole |-> TRUE] BY <2>1, <2>2 DEF Audited, TypeOK
  <2>4. \A q \in PageIds : q # p => trail'[q] = trail[q] BY <2>1 DEF Audited, TypeOK
  <2> QED BY <2>3, <2>4, <1>4, <1>5 DEF Safe, AuditReplays
<1> QED BY <1>6, <1>7, <1>8 DEF Safe

\* Steps that change neither life, slug nor pointer of any page, and no version
\* but the status of one that no pointer names.
LEMMA SettingSafe ==
  ASSUME TypeOK, Safe, UNCHANGED <<inserted, trail>>,
         \A q \in PageIds : /\ pages'[q].life = pages[q].life
                            /\ pages'[q].slug = pages[q].slug
                            /\ pages'[q].pointer = pages[q].pointer,
         \A w \in VersionIds : /\ versions'[w].page = versions[w].page
                               /\ versions'[w].status = "none" <=> versions[w].status = "none"
                               /\ versions[w].status = "approved" => versions'[w].status = "approved"
  PROVE  Safe'
<1>1. SlugsUnique' BY DEF Safe, SlugsUnique
<1>2. PointerApproved'
  <2>1. ASSUME NEW q \in PageIds, pages'[q].pointer # None
        PROVE  /\ pages'[q].life = "live" /\ pages'[q].pointer \in VersionIds
               /\ versions'[pages'[q].pointer].page = q
               /\ versions'[pages'[q].pointer].status = "approved"
    BY <2>1 DEF Safe, PointerApproved, OnPage
  <2>2. \A q \in PageIds : pages'[q].life # "live" => pages'[q].pointer = None
    BY DEF Safe, PointerApproved
  <2> QED BY <2>1, <2>2 DEF PointerApproved, OnPage
<1>3. AuditReplays' BY DEF Safe, AuditReplays
<1> QED BY <1>1, <1>2, <1>3 DEF Safe

\* A page whose pointer is empty may change its life and slug, as long as no
\* other live page has the slug and a used row does not become free.
LEMMA LifeSafe ==
  ASSUME TypeOK, Safe, UNCHANGED <<inserted, versions>>, NEW p \in PageIds,
         \A q \in PageIds : q # p => pages'[q] = pages[q] /\ trail'[q] = trail[q],
         pages'[p].pointer = None, trail'[p].whole, trail'[p].at = None,
         pages'[p].life # "free",
         pages'[p].life = "live" =>
           \A q \in PageIds : q # p /\ pages[q].life = "live" => pages[q].slug # pages'[p].slug
  PROVE  Safe'
<1>1. SlugsUnique'
  <2>1. \A q, r \in PageIds : pages'[q].life = "live" /\ pages'[r].life = "live"
                                /\ pages'[q].slug = pages'[r].slug => q = r
    BY DEF Safe, SlugsUnique
  <2>2. \A w \in VersionIds : versions'[w].status # "none" <=> w =< inserted'
    BY DEF Safe, SlugsUnique
  <2>3. \A w \in VersionIds : versions'[w].status # "none" =>
           versions'[w].page \in PageIds /\ pages'[versions'[w].page].life # "free"
    BY DEF Safe, SlugsUnique
  <2> QED BY <2>1, <2>2, <2>3 DEF SlugsUnique
<1>2. PointerApproved' BY DEF Safe, PointerApproved, OnPage
<1>3. AuditReplays' BY DEF Safe, AuditReplays
<1> QED BY <1>1, <1>2, <1>3 DEF Safe

---------------------------------------------------------------------------
(* Every deploy action is a landed deploy.                                 *)

\* The deploy actions, with the page they work on and the version they end on.
Deploys(a) ==
  \E p \in PageIds, v \in VersionIds :
    \/ Landed(pages, p, v, a) /\ pages[p].life = "live"
    \/ \E s \in Slugs, g \in BOOLEAN :
         /\ Landed([pages EXCEPT ![p] = NewRow(s, g)], p, v, a)
         /\ pages[p].life = "free" /\ ~LiveSlug(s)

\* Deploys, wherever they come from, preserve the safety invariants.
LEMMA DeploysSafe ==
  ASSUME TypeOK, Safe, NEW a \in Actors, Deploys(a)
  PROVE  Safe'
<1>1. PICK p \in PageIds, v \in VersionIds :
        \/ Landed(pages, p, v, a) /\ pages[p].life = "live"
        \/ \E s \in Slugs, g \in BOOLEAN :
             /\ Landed([pages EXCEPT ![p] = NewRow(s, g)], p, v, a)
             /\ pages[p].life = "free" /\ ~LiveSlug(s)
  BY DEF Deploys
<1>2. CASE Landed(pages, p, v, a) /\ pages[p].life = "live"
  <2>1. Base(pages, p) BY <1>2 DEF Base
  <2> QED BY <1>2, <2>1, DeploySafe
<1>3. CASE \E s \in Slugs, g \in BOOLEAN :
             /\ Landed([pages EXCEPT ![p] = NewRow(s, g)], p, v, a)
             /\ pages[p].life = "free" /\ ~LiveSlug(s)
  <2>1. PICK s \in Slugs, g \in BOOLEAN :
             /\ Landed([pages EXCEPT ![p] = NewRow(s, g)], p, v, a)
             /\ pages[p].life = "free" /\ ~LiveSlug(s)
    BY <1>3
  <2>2. [pages EXCEPT ![p] = NewRow(s, g)][p].slug = s
    BY DEF TypeOK, NewRow
  <2>3. \A q \in PageIds : pages[q].life = "live" => pages[q].slug # s
    BY <2>1 DEF LiveSlug, LockPage
  <2>4. Base([pages EXCEPT ![p] = NewRow(s, g)], p)
    BY <2>1, <2>2, <2>3 DEF Base
  <2> QED BY <2>1, <2>4, DeploySafe
<1> QED BY <1>1, <1>2, <1>3

\* Deploy, create-and-deploy, config and data updates and deck saves are Deploys.
LEMMA DeployActions ==
  ASSUME TypeOK
  PROVE  /\ \A s \in Slugs, a \in Actors, d \in Uploads, pub \in BOOLEAN, e \in Expecteds :
              Deploy(s, d, pub, e, a) => Deploys(a)
         /\ \A s \in Slugs, a \in Actors, d \in Uploads, pub \in BOOLEAN, e \in Expecteds, g \in BOOLEAN :
              CreateAndDeploy(s, d, pub, e, g, a) => Deploys(a)
         /\ \A s \in Slugs, a \in Actors, k \in Configs, e \in VersionIds, pub \in BOOLEAN :
              UpdatePageConfig(s, k, e, pub, a) => Deploys(a)
         /\ \A s \in Slugs : DeckStep(s) => Deploys("user")
         /\ \A c \in Clients, t \in AsOfs, r \in Stamps, pub \in BOOLEAN, a \in Actors :
              UpdatePageData(c, t, r, pub, a) => Deploys(a)
<1> USE BoundsAssumption
<1>0. pages \in [PageIds -> PageRows] BY DEF TypeOK
<1>1. ASSUME NEW s \in Slugs, NEW a \in Actors, NEW d \in Uploads, NEW pub \in BOOLEAN,
             NEW e \in Expecteds, Deploy(s, d, pub, e, a)
      PROVE Deploys(a)
  <2>1. PrepareDeploy(d, pub, e, FALSE) \in Preps
    BY PrepType, DocumentsAssumption DEF Expecteds
  <2>2. PICK p \in PageIds :
          /\ pages[p].life = "live"
          /\ DeployLocked(pages, p, PrepareDeploy(d, pub, e, FALSE), a, None, "deploy")
    BY <1>1 DEF Deploy, LockPage
  <2>3. \E v \in VersionIds : Landed(pages, p, v, a)
    BY <1>0, <2>1, <2>2, DeployEffect
  <2> QED BY <2>2, <2>3 DEF Deploys
<1>2. ASSUME NEW s \in Slugs, NEW a \in Actors, NEW d \in Uploads, NEW pub \in BOOLEAN,
             NEW e \in Expecteds, NEW g \in BOOLEAN, CreateAndDeploy(s, d, pub, e, g, a)
      PROVE Deploys(a)
  <2> DEFINE prep == PrepareDeploy(d, pub, e, FALSE)
  <2>1. prep \in Preps
    BY PrepType, DocumentsAssumption DEF Expecteds
  <2> HIDE DEF prep
  <2>2. CASE \E p \in PageIds : LockPage(s, p) /\ DeployLocked(pages, p, prep, a, None, "deploy")
    <3>1. PICK p \in PageIds : LockPage(s, p) /\ DeployLocked(pages, p, prep, a, None, "deploy")
      BY <2>2
    <3>2. \E v \in VersionIds : Landed(pages, p, v, a)
      BY <1>0, <2>1, <3>1, DeployEffect
    <3> QED BY <3>1, <3>2 DEF Deploys, LockPage
  <2>3. CASE /\ ~LiveSlug(s)
             /\ \E p \in PageIds : /\ FreePage(p)
                                   /\ DeployLocked([pages EXCEPT ![p] = NewRow(s, g)], p, prep, a, None, "deploy")
    <3>1. PICK p \in PageIds : /\ FreePage(p)
                               /\ DeployLocked([pages EXCEPT ![p] = NewRow(s, g)], p, prep, a, None, "deploy")
      BY <2>3
    <3>2. [pages EXCEPT ![p] = NewRow(s, g)] \in [PageIds -> PageRows]
      BY <1>0, NewRowType
    <3>3. \E v \in VersionIds : Landed([pages EXCEPT ![p] = NewRow(s, g)], p, v, a)
      BY <2>1, <3>1, <3>2, DeployEffect
    <3> QED BY <2>3, <3>1, <3>3 DEF Deploys, FreePage
  <2> QED BY <1>2, <2>2, <2>3 DEF CreateAndDeploy, prep
<1>3. ASSUME NEW s \in Slugs, NEW a \in Actors, NEW k \in Configs, NEW e \in VersionIds,
             NEW pub \in BOOLEAN, UpdatePageConfig(s, k, e, pub, a)
      PROVE Deploys(a)
  <2> DEFINE prep(p) == PrepareDeploy(MaterializeConfig(versions[pages[p].pointer].doc, k), pub, e, TRUE)
  <2>1. PICK p \in PageIds : /\ pages[p].pointer # None /\ pages[p].life = "live"
                             /\ DeployLocked(pages, p, prep(p), a, None, "config_update")
    BY <1>3 DEF UpdatePageConfig, LockPage
  <2>2. pages[p].pointer \in VersionIds
    BY <2>1 DEF TypeOK, PageRows, VersionIds, None
  <2>3. versions[pages[p].pointer].doc \in Documents BY <2>2 DEF TypeOK, VersionRows
  <2>4. MaterializeConfig(versions[pages[p].pointer].doc, k) \in Documents
    BY <2>3 DEF MaterializeConfig, Documents
  <2>5. e \in 0..MaxVersions BY DEF VersionIds
  <2>6. prep(p) \in Preps BY <2>4, <2>5, PrepType
  <2>7. \E v \in VersionIds : Landed(pages, p, v, a)
    BY <1>0, <2>1, <2>6, DeployEffect
  <2> QED BY <2>1, <2>7 DEF Deploys
<1>4. ASSUME NEW s \in Slugs, DeckStep(s) PROVE Deploys("user")
  <2>1. PICK session \in PageIds, b \in VersionIds, d \in Uploads : SaveDeck(s, session, b, d)
    BY <1>4 DEF DeckStep
  <2>2. PICK p \in PageIds, n \in VersionIds :
          /\ pages[p].life = "live"
          /\ DeployLocked(pages, p, PrepareDeploy(d, FALSE, None, FALSE), "user", n, "deck_save")
    BY <2>1 DEF SaveDeck, LockPage
  <2>3. d \in Documents /\ None \in 0..MaxVersions BY DocumentsAssumption DEF None
  <2>4. PrepareDeploy(d, FALSE, None, FALSE) \in Preps BY <2>3, PrepType
  <2>5. "user" \in Actors BY DEF Actors
  <2>6. \E v \in VersionIds : Landed(pages, p, v, "user")
    BY <1>0, <2>2, <2>4, <2>5, DeployEffect
  <2> QED BY <2>2, <2>6 DEF Deploys
<1>5. ASSUME NEW c \in Clients, NEW t \in AsOfs, NEW r \in Stamps, NEW pub \in BOOLEAN,
             NEW a \in Actors, UpdatePageData(c, t, r, pub, a)
      PROVE Deploys(a)
  <2> DEFINE q == inflight[c]
             prep(p) == PrepareDeploy(Materialize(TemplateOf(p, q), q.data, t, r),
                                      pub, q.expected, TRUE)
  <2>1. q \in Requests BY <1>5 DEF UpdatePageData, TypeOK
  <2>2. PICK p \in PageIds : /\ pages[p].pointer # None /\ pages[p].life = "live"
                             /\ DeployLocked(pages, p, prep(p), a, None, "data_update")
    BY <1>5 DEF UpdatePageData, DataAdmitted, LockPage
  <2>3. TemplateOf(p, q) \in Documents BY <2>1, <2>2, TemplateType
  <2>4. q.data \in DataSets /\ q.expected \in 0..MaxVersions
    BY <2>1 DEF Requests, VersionIds
  <2>5. Materialize(TemplateOf(p, q), q.data, t, r) \in Documents
    BY <2>3, <2>4 DEF Materialize, Documents
  <2>6. prep(p) \in Preps BY <2>4, <2>5, PrepType
  <2>7. \E v \in VersionIds : Landed(pages, p, v, a)
    BY <1>0, <2>2, <2>6, DeployEffect
  <2> QED BY <2>2, <2>7 DEF Deploys
<1> QED BY <1>1, <1>2, <1>3, <1>4, <1>5

---------------------------------------------------------------------------
(* The safety invariants are invariants.                                   *)

\* The tables of a fresh installation satisfy them.
LEMMA InitSafe == Init => Safe
<1> SUFFICES ASSUME Init PROVE Safe OBVIOUS
<1>1. SlugsUnique BY DEF Init, SlugsUnique, VersionIds
<1>2. PointerApproved BY DEF Init, PointerApproved
<1>3. AuditReplays BY DEF Init, AuditReplays
<1> QED BY <1>1, <1>2, <1>3 DEF Safe

\* Every transaction preserves them.
LEMMA NextSafe == TypeOK /\ Safe /\ [Next]_vars => Safe'
<1> SUFFICES ASSUME TypeOK, Safe, [Next]_vars PROVE Safe' OBVIOUS
<1> USE BoundsAssumption
<1>0. CASE UNCHANGED vars
  BY <1>0 DEF vars, Safe, SlugsUnique, PointerApproved, AuditReplays, OnPage
<1>1. ASSUME NEW s \in Slugs, NEW a \in Actors, NEW g \in BOOLEAN, CreatePage(s, g, a)
      PROVE Safe'
  <2>1. PICK p \in PageIds : FreePage(p) /\ pages' = [pages EXCEPT ![p] = NewRow(s, g)]
    BY <1>1 DEF CreatePage
  <2>2. pages'[p] = NewRow(s, g) /\ \A q \in PageIds : q # p => pages'[q] = pages[q]
    BY <2>1 DEF TypeOK
  <2>3. pages'[p].pointer = None /\ pages'[p].life = "live" /\ pages'[p].slug = s
    BY <2>2 DEF NewRow
  <2>4. trail[p].whole /\ trail[p].at = None
    BY <2>1 DEF Safe, AuditReplays, PointerApproved, FreePage
  <2>5. \A q \in PageIds : pages[q].life = "live" => pages[q].slug # s
    BY <1>1 DEF CreatePage, LiveSlug, LockPage
  <2>6. UNCHANGED <<inserted, versions, trail>> BY <1>1 DEF CreatePage
  <2> QED BY <2>1, <2>2, <2>3, <2>4, <2>5, <2>6, LifeSafe
<1>2. ASSUME NEW s \in Slugs, NEW a \in Actors, NEW v \in VersionIds, NEW e \in Expecteds,
             Publish(s, v, e, a) \/ Approve(s, v, e, a)
      PROVE Safe'
  <2>1. PICK p \in PageIds : /\ pages[p].life = "live" /\ OnPage(p, v)
                             /\ movePointer(pages, trail, p, v, e)
                             /\ versions' = [versions EXCEPT ![v].status = "approved"]
                             /\ inserted' = inserted
    BY <1>2 DEF Publish, Approve, LockPage, SetStatus
  <2> QED BY <2>1, MoveSafe
<1>3. ASSUME NEW s \in Slugs, NEW a \in Actors, NEW n \in Expecteds, NEW e \in Expecteds,
             Rollback(s, n, e, a)
      PROVE Safe'
  <2>1. PICK p \in PageIds, v \in VersionIds :
          /\ pages[p].life = "live" /\ OnPage(p, v) /\ versions[v].status = "approved"
          /\ movePointer(pages, trail, p, v, e)
          /\ versions' = versions /\ inserted' = inserted
    BY <1>3 DEF Rollback, LockPage
  <2> QED BY <2>1, MoveSafe
<1>4. ASSUME NEW s \in Slugs, NEW a \in Actors, DeletePage(s, a) PROVE Safe'
  <2>1. PICK p \in PageIds :
          /\ pages[p].life = "live"
          /\ pages' = [pages EXCEPT ![p].pointer = None, ![p].life = "deleted",
                                    ![p].deletedAt = deletes + 1]
          /\ trail' = Audited(trail, p, pages[p].pointer, None)
    BY <1>4 DEF DeletePage, LockPage
  <2>2. pages[p] \in PageRows BY DEF TypeOK
  <2>3. pages' = [pages EXCEPT ![p] = [pages[p] EXCEPT !.pointer = None, !.life = "deleted", !.deletedAt = deletes + 1]]
    BY <2>1 DEF TypeOK
  <2>4. pages'[p].pointer = None /\ pages'[p].life = "deleted"
    BY <2>2, <2>3 DEF TypeOK, PageRows
  <2>5. (trail[p].whole /\ trail[p].at = pages[p].pointer) = TRUE BY DEF Safe, AuditReplays
  <2>6. trail'[p] = [at |-> None, whole |-> TRUE] BY <2>1, <2>5 DEF Audited, TypeOK
  <2>7. \A q \in PageIds : q # p => trail'[q] = trail[q] BY <2>1 DEF Audited, TypeOK
  <2>8. \A q \in PageIds : q # p => pages'[q] = pages[q] BY <2>3 DEF TypeOK
  <2>9. UNCHANGED <<inserted, versions>> BY <1>4 DEF DeletePage
  <2>10. trail'[p].whole /\ trail'[p].at = None BY <2>6
  <2> QED BY <2>4, <2>7, <2>8, <2>9, <2>10, LifeSafe
<1>5. ASSUME NEW s \in Slugs, NEW a \in Actors, NEW v \in VersionIds, Reject(s, v, a)
      PROVE Safe'
  <2>1. versions' = [versions EXCEPT ![v].status = "rejected"]
        /\ versions[v].status \in {"pending", "draft"}
    BY <1>5 DEF Reject, SetStatus
  <2>2. \A w \in VersionIds :
          /\ versions'[w].page = versions[w].page
          /\ versions'[w].status = "none" <=> versions[w].status = "none"
          /\ versions[w].status = "approved" => versions'[w].status = "approved"
    BY <2>1 DEF TypeOK, VersionRows
  <2>3. UNCHANGED <<pages, inserted, trail>> BY <1>5 DEF Reject
  <2> QED BY <2>2, <2>3, SettingSafe
<1>6. ASSUME NEW s \in Slugs, NEW a \in Actors, NEW b \in BOOLEAN,
             SetDisabled(s, b, a) \/ SetApproval(s, b, a)
      PROVE Safe'
  <2>1. UNCHANGED <<versions, inserted, trail>> BY <1>6 DEF SetDisabled, SetApproval
  <2>2. \A q \in PageIds : /\ pages'[q].life = pages[q].life
                           /\ pages'[q].slug = pages[q].slug
                           /\ pages'[q].pointer = pages[q].pointer
    BY <1>6 DEF SetDisabled, SetApproval, TypeOK, PageRows
  <2> QED BY <2>1, <2>2, SettingSafe
<1>7. ASSUME NEW s \in Slugs, NEW a \in Actors, RestorePage(s, a) PROVE Safe'
  <2>1. PICK p \in PageIds : /\ pages[p].life = "deleted" /\ pages[p].slug = s
                             /\ pages' = [pages EXCEPT ![p].life = "live"]
    BY <1>7 DEF RestorePage
  <2>2. /\ pages'[p].pointer = pages[p].pointer /\ pages'[p].slug = s
        /\ pages'[p].life = "live"
    BY <2>1 DEF TypeOK, PageRows
  <2>3. \A q \in PageIds : q # p => pages'[q] = pages[q] BY <2>1 DEF TypeOK
  <2>4. pages[p].pointer = None BY <2>1 DEF Safe, PointerApproved
  <2>5. \A q \in PageIds : pages[q].life = "live" => pages[q].slug # s
    BY <1>7 DEF RestorePage, LiveSlug, LockPage
  <2>6. UNCHANGED <<inserted, versions, trail>> BY <1>7 DEF RestorePage
  <2>7. trail[p].whole /\ trail[p].at = None BY <2>4 DEF Safe, AuditReplays
  <2> QED BY <2>2, <2>3, <2>4, <2>5, <2>6, <2>7, LifeSafe
<1>8. ASSUME NEW c \in Clients, NEW s \in Slugs, NEW x \in DataSets, NEW e \in VersionIds,
             precheckPageData(c, s, x, e) \/ RefusePageData(c)
      PROVE Safe'
  <2>1. UNCHANGED <<pages, versions, inserted, trail>>
    BY <1>8 DEF precheckPageData, RefusePageData
  <2> QED BY <2>1, SettingSafe
<1>9. ASSUME NEW c \in Clients, RefusePageData(c) PROVE Safe'
  <2>1. UNCHANGED <<pages, versions, inserted, trail>> BY <1>9 DEF RefusePageData
  <2> QED BY <2>1, SettingSafe
<1>10. ASSUME NEW a \in Actors, Deploys(a) PROVE Safe'
  BY <1>10, DeploysSafe
<1>11. "user" \in Actors BY DEF Actors
<1>12. CASE \E s \in Slugs, a \in Actors : AuthorStep(s, a)
  BY <1>12, <1>1, <1>2, <1>3, <1>4, <1>10, DeployActions DEF AuthorStep
<1>13. CASE \E s \in Slugs, a \in Actors : ReviewStep(s, a)
  BY <1>13, <1>2, <1>5, <1>6, <1>7 DEF ReviewStep
<1>14. CASE \E s \in Slugs : DeckStep(s)
  BY <1>14, <1>10, <1>11, DeployActions
<1>15. CASE \E c \in Clients : RefreshStep(c)
  BY <1>15, <1>8, <1>9, <1>10, DeployActions DEF RefreshStep
<1> QED BY <1>0, <1>12, <1>13, <1>14, <1>15 DEF Next

\* The types and the three safety invariants, together inductive, hold in every
\* reachable state.
THEOREM SafeAlways == Spec => [](TypeOK /\ Safe)
<1>1. TypeOK /\ Safe /\ [Next]_vars => Safe' BY NextSafe
<1> QED BY TypeCorrect, InitSafe, <1>1, PTL DEF Spec

\* Whatever sequence of deploys, reviews, rollbacks, deletes and restores agents
\* and admins run, what is live is an approved version of the same page.
THEOREM OnlyApprovedLive == Spec => []PointerApproved
<1>1. TypeOK /\ Safe => PointerApproved BY DEF Safe
<1> QED BY SafeAlways, <1>1, PTL

\* The audit log of pointer moves is complete: it replays to the live pointer.
THEOREM AuditComplete == Spec => []AuditReplays
<1>1. TypeOK /\ Safe => AuditReplays BY DEF Safe
<1> QED BY SafeAlways, <1>1, PTL

\* At most one live page per slug, and no version row is ever reused.
THEOREM OneLivePagePerSlug == Spec => []SlugsUnique
<1>1. TypeOK /\ Safe => SlugsUnique BY DEF Safe
<1> QED BY SafeAlways, <1>1, PTL

---------------------------------------------------------------------------
(* Action properties: what a step may never do.                            *)

\* One step on the version table: documents stay, reviews are final, and only a
\* human takes a version out of the pending queue.
Final ==
  \A v \in VersionIds : versions[v].status # "none" =>
    /\ versions'[v].doc = versions[v].doc /\ versions'[v].page = versions[v].page
    /\ versions[v].status \in {"approved", "rejected"} => versions'[v].status = versions[v].status
    /\ versions[v].status = "pending" /\ versions'[v].status # "pending" => last'.actor = "user"

\* A landed deploy is final in this sense.
LEMMA DeploysFinal ==
  ASSUME TypeOK, Safe, NEW a \in Actors, Deploys(a)
  PROVE  Final
<1>1. PICK p \in PageIds, v \in VersionIds : LandedVersion(p, v, a)
  BY DEF Deploys, Landed
<1>2. \A w \in VersionIds : versions[w].status # "none" <=> w =< inserted
  BY DEF Safe, SlugsUnique
<1>3. \A w \in VersionIds : w # v => versions'[w] = versions[w] BY <1>1 DEF LandedVersion
<1>4. CASE /\ OnPage(p, v) /\ versions'[v].doc = versions[v].doc
           /\ versions[v].status # "rejected"
           /\ \/ versions'[v].status = versions[v].status
              \/ versions'[v].status = "approved" /\ versions[v].status # "pending"
  <2>1. versions'[v].page = versions[v].page BY <1>1, <1>4 DEF LandedVersion, OnPage
  <2> QED BY <1>3, <1>4, <2>1 DEF Final
<1>5. CASE v = inserted + 1
  <2>1. versions[v].status = "none"
    BY <1>2, <1>5 DEF TypeOK, VersionIds
  <2> QED BY <1>3, <2>1 DEF Final
<1> QED BY <1>1, <1>4, <1>5 DEF LandedVersion

\* Version history is append-only, review is final, and the queue of an
\* approval gate is emptied by humans only.
THEOREM HistoryIsFinal == Spec => HistoryFinal
<1>1. TypeOK /\ Safe /\ [Next]_vars => [Final]_vars
  <2> SUFFICES ASSUME TypeOK, Safe, [Next]_vars PROVE [Final]_vars OBVIOUS
  <2> USE BoundsAssumption
  <2>1. ASSUME NEW a \in Actors, Deploys(a) PROVE Final BY <2>1, DeploysFinal
  <2>2. ASSUME UNCHANGED versions PROVE Final BY <2>2 DEF Final
  <2>3. ASSUME NEW s \in Slugs, NEW a \in Actors, NEW v \in VersionIds, NEW e \in Expecteds,
               Publish(s, v, e, a)
        PROVE Final
    <3>1. versions[v].status = "draft" /\ versions' = [versions EXCEPT ![v].status = "approved"]
      BY <2>3 DEF Publish, SetStatus
    <3> QED BY <3>1 DEF Final, TypeOK, VersionRows
  <2>4. ASSUME NEW s \in Slugs, NEW a \in Actors, NEW v \in VersionIds, NEW e \in Expecteds,
               Approve(s, v, e, a)
        PROVE Final
    <3>1. versions[v].status = "pending" /\ versions' = [versions EXCEPT ![v].status = "approved"]
      BY <2>4 DEF Approve, SetStatus
    <3>2. last'.actor = "user"
      BY <2>4 DEF Approve, AssertAdminAction, Done, Answer
    <3> QED BY <3>1, <3>2 DEF Final, TypeOK, VersionRows
  <2>5. ASSUME NEW s \in Slugs, NEW a \in Actors, NEW v \in VersionIds, Reject(s, v, a)
        PROVE Final
    <3>1. /\ versions[v].status \in {"pending", "draft"}
          /\ versions' = [versions EXCEPT ![v].status = "rejected"]
      BY <2>5 DEF Reject, SetStatus
    <3>2. last'.actor = "user"
      BY <2>5 DEF Reject, AssertAdminAction, Done, Answer
    <3> QED BY <3>1, <3>2 DEF Final, TypeOK, VersionRows
  <2>6. CASE UNCHANGED vars BY <2>6
  <2>7. CASE \E s \in Slugs, a \in Actors : AuthorStep(s, a)
    <3>1. PICK s \in Slugs, a \in Actors : AuthorStep(s, a) BY <2>7
    <3>2. ASSUME NEW g \in BOOLEAN, CreatePage(s, g, a) PROVE Final
      BY <3>2, <2>2 DEF CreatePage
    <3>3. ASSUME NEW v \in Expecteds, NEW e \in Expecteds, Rollback(s, v, e, a) PROVE Final
      BY <3>3, <2>2 DEF Rollback
    <3>4. ASSUME DeletePage(s, a) PROVE Final BY <3>4, <2>2 DEF DeletePage
    <3>5. CASE \/ \E d \in Uploads, pub \in BOOLEAN, e \in Expecteds : Deploy(s, d, pub, e, a)
               \/ \E d \in Uploads, pub \in BOOLEAN, e \in Expecteds, g \in BOOLEAN :
                     CreateAndDeploy(s, d, pub, e, g, a)
               \/ \E k \in Configs, e \in VersionIds, pub \in BOOLEAN :
                     UpdatePageConfig(s, k, e, pub, a)
      BY <3>5, <2>1, DeployActions
    <3> QED BY <3>1, <3>2, <3>3, <3>4, <3>5, <2>3 DEF AuthorStep
  <2>8. CASE \E s \in Slugs, a \in Actors : ReviewStep(s, a)
    BY <2>8, <2>2, <2>4, <2>5 DEF ReviewStep, SetDisabled, SetApproval, RestorePage
  <2>9. CASE \E s \in Slugs : DeckStep(s)
    <3>1. "user" \in Actors BY DEF Actors
    <3> QED BY <2>9, <3>1, <2>1, DeployActions
  <2>10. CASE \E c \in Clients : RefreshStep(c)
    BY <2>10, <2>1, <2>2, DeployActions DEF RefreshStep, precheckPageData, RefusePageData
  <2> QED BY <2>6, <2>7, <2>8, <2>9, <2>10 DEF Next
<1>2. HistoryFinal <=> [][Final]_vars BY DEF HistoryFinal, Final
<1> QED BY SafeAlways, <1>1, <1>2, PTL DEF Spec

---------------------------------------------------------------------------
(* PageVersions implements Governance.                                     *)

Refused == {v \in VersionIds : versions[v].status = "rejected"}

SameRow(p) == /\ pages'[p].life = pages[p].life /\ pages'[p].slug = pages[p].slug
              /\ pages'[p].gated = pages[p].gated /\ pages'[p].disabled = pages[p].disabled
              /\ pages'[p].pointer = pages[p].pointer

\* The shape of a step that rejects nothing: one page row p changes, a live row
\* keeps its slug, a row comes to life only where no live page has its slug,
\* and an agent leaves a held row alone.
OneRow(p, a) ==
  /\ last'.actor = a
  /\ Refused' = Refused
  /\ \A q \in PageIds : q # p => pages'[q] = pages[q]
  /\ pages[p].life = "live" => pages'[p].slug = pages[p].slug
  /\ pages[p].life # "live" =>
       \A q \in PageIds : pages[q].life = "live" => pages[q].slug # pages'[p].slug
  /\ a = "agent" /\ pages[p].life = "live" /\ (pages[p].disabled \/ pages[p].gated) => SameRow(p)

\* Serving and holds of a slug depend on the rows of that slug alone.
LEMMA OtherSlugs ==
  ASSUME NEW pg, NEW pg2, NEW p \in PageIds, NEW s,
         \A q \in PageIds : q # p => pg2[q] = pg[q],
         pg[p].life = "live" => pg[p].slug # s,
         pg2[p].life = "live" => pg2[p].slug # s
  PROVE  ServingIn(pg2, s) = ServingIn(pg, s) /\ HeldIn(pg2, s) = HeldIn(pg, s)
<1> DEFINE up(t) == {q \in PageIds : t[q].life = "live" /\ t[q].slug = s /\ ~t[q].disabled}
<1>1. up(pg2) = up(pg) OBVIOUS
<1>2. ASSUME up(pg) # {}
      PROVE  pg2[CHOOSE q \in up(pg) : TRUE].pointer = pg[CHOOSE q \in up(pg) : TRUE].pointer
  <2>1. (CHOOSE q \in up(pg) : TRUE) \in up(pg) BY <1>2
  <2>2. p \notin up(pg) OBVIOUS
  <2> QED BY <2>1, <2>2
<1>3. ServingIn(pg2, s) = ServingIn(pg, s)
  BY <1>1, <1>2 DEF ServingIn
<1>4. HeldIn(pg2, s) <=> HeldIn(pg, s) BY DEF HeldIn
<1>5. HeldIn(pg2, s) \in BOOLEAN /\ HeldIn(pg, s) \in BOOLEAN BY DEF HeldIn
<1> QED BY <1>3, <1>4, <1>5

\* The one live page of a slug decides what is served and what is held.
LEMMA TheLivePage ==
  ASSUME NEW pg, NEW p \in PageIds, pg[p].life = "live",
         \A q \in PageIds : q # p /\ pg[q].life = "live" => pg[q].slug # pg[p].slug
  PROVE  /\ ServingIn(pg, pg[p].slug) = IF pg[p].disabled THEN None ELSE pg[p].pointer
         /\ HeldIn(pg, pg[p].slug) <=> pg[p].disabled \/ pg[p].gated
<1> DEFINE up == {q \in PageIds : pg[q].life = "live" /\ pg[q].slug = pg[p].slug /\ ~pg[q].disabled}
<1>1. CASE pg[p].disabled
  <2>1. up = {} BY <1>1
  <2> QED BY <1>1, <2>1 DEF ServingIn, HeldIn
<1>2. CASE ~pg[p].disabled
  <2>1. up = {p} BY <1>2
  <2>2. (CHOOSE q \in up : TRUE) = p BY <2>1
  <2>3. ServingIn(pg, pg[p].slug) = pg[p].pointer BY <2>1, <2>2 DEF ServingIn
  <2> QED BY <1>2, <2>3 DEF HeldIn
<1> QED BY <1>1, <1>2

\* A slug without live page serves nothing and is not held.
LEMMA NoLivePage ==
  ASSUME NEW pg, NEW s, \A q \in PageIds : pg[q].life = "live" => pg[q].slug # s
  PROVE  ServingIn(pg, s) = None /\ ~HeldIn(pg, s)
<1>1. {q \in PageIds : pg[q].life = "live" /\ pg[q].slug = s /\ ~pg[q].disabled} = {}
  OBVIOUS
<1> QED BY <1>1 DEF ServingIn, HeldIn

\* What any slug serves is nothing or an approved version.
ServesApproved ==
  \A s \in Slugs : \/ Serving(s) = None
                   \/ Serving(s) \in VersionIds /\ versions[Serving(s)].status = "approved"

\* It follows from the safety invariants.
LEMMA OnlyApprovedServed == TypeOK /\ Safe => ServesApproved
<1> SUFFICES ASSUME TypeOK, Safe, NEW s \in Slugs
             PROVE  \/ Serving(s) = None
                    \/ Serving(s) \in VersionIds /\ versions[Serving(s)].status = "approved"
  BY DEF ServesApproved
<1>1. CASE \E p \in PageIds : pages[p].life = "live" /\ pages[p].slug = s
  <2>1. PICK p \in PageIds : pages[p].life = "live" /\ pages[p].slug = s BY <1>1
  <2>2. \A q \in PageIds : q # p /\ pages[q].life = "live" => pages[q].slug # pages[p].slug
    BY <2>1 DEF Safe, SlugsUnique
  <2>3. Serving(s) = None \/ Serving(s) = pages[p].pointer
    BY <2>1, <2>2, TheLivePage DEF Serving
  <2> QED BY <2>3 DEF Safe, PointerApproved, OnPage
<1>2. CASE ~\E p \in PageIds : pages[p].life = "live" /\ pages[p].slug = s
  BY <1>2, NoLivePage DEF Serving
<1> QED BY <1>1, <1>2

\* Deploys change one row in this shape.
LEMMA DeploysOneRow ==
  ASSUME TypeOK, Safe, NEW a \in Actors, Deploys(a)
  PROVE  \E p \in PageIds : OneRow(p, a)
<1>1. PICK p \in PageIds, v \in VersionIds :
        \/ Landed(pages, p, v, a) /\ pages[p].life = "live"
        \/ \E s \in Slugs, g \in BOOLEAN :
             /\ Landed([pages EXCEPT ![p] = NewRow(s, g)], p, v, a)
             /\ pages[p].life = "free" /\ ~LiveSlug(s)
  BY DEF Deploys
<1>2. LandedVersion(p, v, a) BY <1>1 DEF Landed
<1>3. Refused' = Refused
  <2>1. \A w \in VersionIds : versions[w].status # "none" <=> w =< inserted
    BY DEF Safe, SlugsUnique
  <2>2. versions[v].status # "rejected" /\ versions'[v].status # "rejected"
    <3>1. CASE v = inserted + 1 /\ versions'[v].status \in {"pending", "draft", "approved"}
      BY <2>1, <3>1 DEF TypeOK, VersionIds
    <3>2. CASE v # inserted + 1 BY <1>2, <3>2 DEF LandedVersion
    <3> QED BY <1>2, <3>1, <3>2 DEF LandedVersion
  <2>3. \A w \in VersionIds : w # v => versions'[w] = versions[w]
    BY <1>2 DEF LandedVersion
  <2> QED BY <2>2, <2>3 DEF Refused
<1>4. last'.actor = a BY <1>2 DEF LandedVersion
<1>5. CASE Landed(pages, p, v, a) /\ pages[p].life = "live"
  <2>1. /\ \A q \in PageIds : q # p => pages'[q] = pages[q]
        /\ pages'[p].life = pages[p].life /\ pages'[p].slug = pages[p].slug
        /\ pages'[p].gated = pages[p].gated /\ pages'[p].disabled = pages[p].disabled
    BY <1>5 DEF Landed
  <2>2. \/ pages'[p].pointer = pages[p].pointer
        \/ AssertAgentMayMovePointer(pages[p], a)
    BY <1>5 DEF Landed
  <2>3. a = "agent" /\ (pages[p].disabled \/ pages[p].gated) => SameRow(p)
    BY <2>1, <2>2 DEF AssertAgentMayMovePointer, SameRow
  <2> QED BY <1>3, <1>4, <1>5, <2>1, <2>3 DEF OneRow
<1>6. CASE \E s \in Slugs, g \in BOOLEAN :
             /\ Landed([pages EXCEPT ![p] = NewRow(s, g)], p, v, a)
             /\ pages[p].life = "free" /\ ~LiveSlug(s)
  <2>1. PICK s \in Slugs, g \in BOOLEAN :
             /\ Landed([pages EXCEPT ![p] = NewRow(s, g)], p, v, a)
             /\ pages[p].life = "free" /\ ~LiveSlug(s)
    BY <1>6
  <2> DEFINE pg == [pages EXCEPT ![p] = NewRow(s, g)]
  <2>2. pg[p].slug = s /\ \A q \in PageIds : q # p => pg[q] = pages[q]
    BY DEF TypeOK, NewRow
  <2> HIDE DEF pg
  <2>3. pages'[p].slug = s /\ \A q \in PageIds : q # p => pages'[q] = pages[q]
    BY <2>1, <2>2 DEF Landed, pg
  <2>4. \A q \in PageIds : pages[q].life = "live" => pages[q].slug # s
    BY <2>1 DEF LiveSlug, LockPage
  <2> QED BY <1>3, <1>4, <2>1, <2>3, <2>4 DEF OneRow
<1> QED BY <1>1, <1>5, <1>6

\* Every step rejects one version, changes one row in this shape, or changes no
\* row and no version.
LEMMA StepShape ==
  ASSUME TypeOK, Safe, Next
  PROVE  \/ \E p \in PageIds, a \in Actors : OneRow(p, a)
         \/ UNCHANGED <<pages, versions>> /\ last'.actor = "agent"
         \/ \E v \in VersionIds : /\ versions[v].status \in {"pending", "draft"}
                                  /\ versions' = [versions EXCEPT ![v].status = "rejected"]
                                  /\ pages' = pages /\ last'.actor = "user"
<1> DEFINE Goal == \/ \E p \in PageIds, a \in Actors : OneRow(p, a)
                   \/ UNCHANGED <<pages, versions>> /\ last'.actor = "agent"
                   \/ \E v \in VersionIds : /\ versions[v].status \in {"pending", "draft"}
                                            /\ versions' = [versions EXCEPT ![v].status = "rejected"]
                                            /\ pages' = pages /\ last'.actor = "user"
<1> SUFFICES Goal OBVIOUS
<1> USE BoundsAssumption
<1>0. \A a \in Actors : Done(a).actor = a BY DEF Done, Answer
<1>1. ASSUME NEW a \in Actors, Deploys(a) PROVE Goal BY <1>1, DeploysOneRow
<1>2. ASSUME NEW s \in Slugs, NEW a \in Actors, NEW g \in BOOLEAN, CreatePage(s, g, a)
      PROVE Goal
  <2>1. PICK p \in PageIds : FreePage(p) /\ pages' = [pages EXCEPT ![p] = NewRow(s, g)]
    BY <1>2 DEF CreatePage
  <2>2. /\ \A q \in PageIds : q # p => pages'[q] = pages[q]
        /\ pages'[p].slug = s
    BY <2>1 DEF TypeOK, NewRow
  <2>3. \A q \in PageIds : pages[q].life = "live" => pages[q].slug # s
    BY <1>2 DEF CreatePage, LiveSlug, LockPage
  <2>4. Refused' = Refused /\ last'.actor = a BY <1>0, <1>2 DEF CreatePage, Refused
  <2>5. OneRow(p, a) BY <2>1, <2>2, <2>3, <2>4 DEF OneRow, FreePage
  <2> QED BY <2>5
<1>3. ASSUME NEW s \in Slugs, NEW a \in Actors, NEW v \in VersionIds, NEW e \in Expecteds,
             Publish(s, v, e, a) \/ Approve(s, v, e, a)
      PROVE Goal
  <2>1. PICK p \in PageIds : /\ pages[p].life = "live"
                             /\ pages' = [pages EXCEPT ![p].pointer = v]
                             /\ versions[v].status \in {"draft", "pending"}
                             /\ versions' = [versions EXCEPT ![v].status = "approved"]
                             /\ AssertAgentMayMovePointer(pages[p], a)
    BY <1>3 DEF Publish, Approve, LockPage, SetStatus, movePointer, AssertAgentMayMovePointer,
                AssertAdminAction
  <2>2. last'.actor = a BY <1>0, <1>3 DEF Publish, Approve
  <2>3. Refused' = Refused BY <2>1 DEF Refused, TypeOK, VersionRows
  <2>4. /\ \A q \in PageIds : q # p => pages'[q] = pages[q]
        /\ pages'[p].slug = pages[p].slug
    BY <2>1 DEF TypeOK, PageRows
  <2>5. OneRow(p, a) BY <2>1, <2>2, <2>3, <2>4 DEF OneRow, AssertAgentMayMovePointer
  <2> QED BY <2>5
<1>4. ASSUME NEW s \in Slugs, NEW a \in Actors, NEW n \in Expecteds, NEW e \in Expecteds,
             Rollback(s, n, e, a)
      PROVE Goal
  <2>1. PICK p \in PageIds, v \in VersionIds :
          /\ pages[p].life = "live" /\ pages' = [pages EXCEPT ![p].pointer = v]
          /\ AssertAgentMayMovePointer(pages[p], a)
    BY <1>4 DEF Rollback, LockPage, movePointer
  <2>2. last'.actor = a /\ Refused' = Refused BY <1>0, <1>4 DEF Rollback, Refused
  <2>3. /\ \A q \in PageIds : q # p => pages'[q] = pages[q]
        /\ pages'[p].slug = pages[p].slug
    BY <2>1 DEF TypeOK, PageRows
  <2>4. OneRow(p, a) BY <2>1, <2>2, <2>3 DEF OneRow, AssertAgentMayMovePointer
  <2> QED BY <2>4
<1>5. ASSUME NEW s \in Slugs, NEW a \in Actors, DeletePage(s, a) PROVE Goal
  <2>1. PICK p \in PageIds :
          /\ pages[p].life = "live" /\ AssertAgentMayMovePointer(pages[p], a)
          /\ pages' = [pages EXCEPT ![p].pointer = None, ![p].life = "deleted",
                                    ![p].deletedAt = deletes + 1]
    BY <1>5 DEF DeletePage, LockPage
  <2>2. last'.actor = a /\ Refused' = Refused BY <1>0, <1>5 DEF DeletePage, Refused
  <2>3. pages' = [pages EXCEPT ![p] = [pages[p] EXCEPT !.pointer = None, !.life = "deleted", !.deletedAt = deletes + 1]]
    BY <2>1 DEF TypeOK
  <2>4. /\ \A q \in PageIds : q # p => pages'[q] = pages[q]
        /\ pages'[p].slug = pages[p].slug
    BY <2>3 DEF TypeOK, PageRows
  <2>5. OneRow(p, a) BY <2>1, <2>2, <2>4 DEF OneRow, AssertAgentMayMovePointer
  <2> QED BY <2>5
<1>6. ASSUME NEW s \in Slugs, NEW a \in Actors, NEW v \in VersionIds, Reject(s, v, a)
      PROVE Goal
  BY <1>0, <1>6 DEF Reject, SetStatus, AssertAdminAction
<1>7. ASSUME NEW s \in Slugs, NEW a \in Actors, NEW b \in BOOLEAN,
             SetDisabled(s, b, a) \/ SetApproval(s, b, a)
      PROVE Goal
  <2>1. PICK p \in PageIds :
          /\ pages[p].life = "live"
          /\ \/ pages' = [pages EXCEPT ![p].disabled = b]
             \/ pages' = [pages EXCEPT ![p].gated = b]
    BY <1>7 DEF SetDisabled, SetApproval, LockPage
  <2>2. last'.actor = a /\ a = "user" /\ Refused' = Refused
    BY <1>0, <1>7 DEF SetDisabled, SetApproval, AssertAdminAction, Refused
  <2>3. /\ \A q \in PageIds : q # p => pages'[q] = pages[q]
        /\ pages'[p].slug = pages[p].slug
    BY <2>1 DEF TypeOK, PageRows
  <2>4. OneRow(p, a) BY <2>1, <2>2, <2>3 DEF OneRow
  <2> QED BY <2>4
<1>8. ASSUME NEW s \in Slugs, NEW a \in Actors, RestorePage(s, a) PROVE Goal
  <2>1. PICK p \in PageIds : /\ pages[p].life = "deleted" /\ pages[p].slug = s
                             /\ pages' = [pages EXCEPT ![p].life = "live"]
    BY <1>8 DEF RestorePage
  <2>2. last'.actor = a /\ a = "user" /\ Refused' = Refused
    BY <1>0, <1>8 DEF RestorePage, AssertAdminAction, Refused
  <2>3. /\ \A q \in PageIds : q # p => pages'[q] = pages[q]
        /\ pages'[p].slug = s
    BY <2>1 DEF TypeOK, PageRows
  <2>4. \A q \in PageIds : pages[q].life = "live" => pages[q].slug # s
    BY <1>8 DEF RestorePage, LiveSlug, LockPage
  <2>5. OneRow(p, a) BY <2>1, <2>2, <2>3, <2>4 DEF OneRow
  <2> QED BY <2>5
<1>9. ASSUME NEW c \in Clients, RefreshStep(c) PROVE Goal
  <2>1. "agent" \in Actors BY DEF Actors
  <2>2. ASSUME NEW x \in DataSets, NEW s \in Slugs, NEW e \in VersionIds, precheckPageData(c, s, x, e)
        PROVE Goal
    BY <1>0, <2>1, <2>2 DEF precheckPageData
  <2>3. ASSUME RefusePageData(c) PROVE Goal BY <1>0, <2>1, <2>3 DEF RefusePageData
  <2> QED BY <1>1, <1>9, <2>2, <2>3, DeployActions DEF RefreshStep
<1>10. CASE \E s \in Slugs, a \in Actors : AuthorStep(s, a)
  BY <1>10, <1>1, <1>2, <1>3, <1>4, <1>5, DeployActions DEF AuthorStep
<1>11. CASE \E s \in Slugs, a \in Actors : ReviewStep(s, a)
  BY <1>11, <1>3, <1>6, <1>7, <1>8 DEF ReviewStep
<1>12. CASE \E s \in Slugs : DeckStep(s)
  <2>1. "user" \in Actors BY DEF Actors
  <2> QED BY <1>12, <2>1, <1>1, DeployActions
<1> QED BY <1>9, <1>10, <1>11, <1>12 DEF Next

\* A step that changes one row in this shape is a step of Governance.
LEMMA OneRowGoverned ==
  ASSUME TypeOK, Safe, TypeOK', Safe', ServesApproved', Final,
         NEW p \in PageIds, NEW a \in Actors, OneRow(p, a)
  PROVE  Gov!Next
<1> DEFINE t == pages'[p].slug
<1>1. t \in Slugs BY DEF TypeOK, PageRows
<1>2. \A s \in Slugs : s # t => /\ ServingIn(pages', s) = ServingIn(pages, s)
                                /\ HeldIn(pages', s) = HeldIn(pages, s)
  BY OtherSlugs DEF OneRow
<1> DEFINE w == ServingIn(pages', t)
           h == HeldIn(pages', t)
<1>3. h \in BOOLEAN BY DEF HeldIn
<1>4. w = None \/ (w \in VersionIds /\ versions'[w].status = "approved")
  BY <1>1 DEF ServesApproved, Serving
<1>5. w \notin Refused
  <2>1. ASSUME w \in VersionIds, versions[w].status = "rejected"
        PROVE  versions'[w].status = "rejected"
    BY <2>1 DEF Final
  <2> QED BY <1>4, <2>1 DEF Refused, None, VersionIds
<1>6. [s \in Slugs |-> Serving(s)]' = [[s \in Slugs |-> Serving(s)] EXCEPT ![t] = w]
  BY <1>1, <1>2 DEF Serving
<1>7. [s \in Slugs |-> Held(s)]' = [[s \in Slugs |-> Held(s)] EXCEPT ![t] = h]
  BY <1>1, <1>2 DEF Held
<1>8. Refused' = Refused /\ last'.actor = a BY DEF OneRow
<1>9. Gov!Show(t, w, h)
  BY <1>5, <1>6, <1>7 DEF Gov!Show, Refused
<1> HIDE DEF t, w, h
<1>10. CASE a = "user"
  <2>1. Gov!HumanActs(t, w, h) BY <1>8, <1>9, <1>10 DEF Gov!HumanActs, Refused
  <2> QED BY <1>1, <1>3, <1>4, <2>1 DEF Gov!Next
<1>11. CASE a = "agent" /\ ~HeldIn(pages, t)
  <2>1. ~[s \in Slugs |-> Held(s)][t] BY <1>1, <1>11 DEF Held
  <2>2. Gov!AgentActs(t, w, h) BY <1>8, <1>9, <1>11, <2>1 DEF Gov!AgentActs, Refused
  <2> QED BY <1>1, <1>3, <1>4, <2>2 DEF Gov!Next
<1>12. CASE a = "agent" /\ HeldIn(pages, t)
  \* The held row is row p itself, and the agent left it as it was.
  <2>1. PICK q \in PageIds : /\ pages[q].life = "live" /\ pages[q].slug = t
                             /\ pages[q].disabled \/ pages[q].gated
    BY <1>12 DEF HeldIn
  <2>2. pages[p].life = "live" BY <2>1 DEF OneRow, t
  <2>3. pages[p].slug = t BY <2>2 DEF OneRow, t
  <2>4. q = p BY <2>1, <2>2, <2>3 DEF Safe, SlugsUnique
  <2>5. SameRow(p) BY <1>12, <2>1, <2>2, <2>4 DEF OneRow
  <2>6. \A r \in PageIds : r # p /\ pages[r].life = "live" => pages[r].slug # pages[p].slug
    BY <2>2 DEF Safe, SlugsUnique
  <2>7. \A r \in PageIds : r # p /\ pages'[r].life = "live" => pages'[r].slug # pages'[p].slug
    BY <2>5, <2>6 DEF OneRow, SameRow
  <2>8. /\ ServingIn(pages, t) = IF pages[p].disabled THEN None ELSE pages[p].pointer
        /\ HeldIn(pages, t)
    BY <1>12, <2>2, <2>3, <2>6, TheLivePage
  <2>9. /\ pages'[p].life = "live"
        /\ pages'[p].disabled \/ pages'[p].gated
    BY <2>1, <2>2, <2>4, <2>5 DEF SameRow
  <2>10. /\ w = IF pages'[p].disabled THEN None ELSE pages'[p].pointer
         /\ h <=> pages'[p].disabled \/ pages'[p].gated
    BY <2>7, <2>9, TheLivePage DEF w, h, t
  <2>11. w = ServingIn(pages, t) /\ h = HeldIn(pages, t)
    <3>1. w = ServingIn(pages, t) BY <2>5, <2>8, <2>10 DEF SameRow
    <3>2. h = TRUE BY <1>3, <2>9, <2>10
    <3>3. HeldIn(pages, t) = TRUE BY <1>12 DEF HeldIn
    <3> QED BY <3>1, <3>2, <3>3
  <2>12. UNCHANGED <<[s \in Slugs |-> Serving(s)], [s \in Slugs |-> Held(s)]>>
    BY <1>1, <1>2, <2>11 DEF Serving, Held, w, h
  <2>13. Gov!AgentQueues BY <1>8, <1>12, <2>12 DEF Gov!AgentQueues, Refused
  <2> QED BY <2>13 DEF Gov!Next
<1> QED BY <1>10, <1>11, <1>12 DEF Actors

\* Rejecting a version is a refusal of Governance: nobody was being shown it.
LEMMA RejectGoverned ==
  ASSUME TypeOK, Safe, ServesApproved, NEW v \in VersionIds,
         versions[v].status \in {"pending", "draft"},
         versions' = [versions EXCEPT ![v].status = "rejected"],
         pages' = pages, last'.actor = "user"
  PROVE  Gov!Next
<1>1. \A s \in Slugs : [x \in Slugs |-> Serving(x)][s] # v
  BY DEF ServesApproved, None, VersionIds
<1>2. Refused' = Refused \cup {v} BY DEF Refused, TypeOK, VersionRows
<1>3. UNCHANGED <<[s \in Slugs |-> Serving(s)], [s \in Slugs |-> Held(s)]>>
  BY DEF Serving, Held
<1>4. Gov!HumanRefuses(v) BY <1>1, <1>2, <1>3 DEF Gov!HumanRefuses, Refused
<1> QED BY <1>4 DEF Gov!Next

\* Every step of the page/version machine is a step of Governance or a stutter.
LEMMA StepGoverned ==
  ASSUME TypeOK, Safe, TypeOK', Safe', ServesApproved, ServesApproved', [Final]_vars, [Next]_vars
  PROVE  [Gov!Next]_(Gov!gvars)
<1>1. CASE UNCHANGED vars
  BY <1>1 DEF vars, Gov!gvars, Serving, Held
<1>2. CASE Next /\ ~UNCHANGED vars
  <2>1. CASE \E p \in PageIds, a \in Actors : OneRow(p, a)
    BY <1>2, <2>1, OneRowGoverned
  <2>2. CASE UNCHANGED <<pages, versions>> /\ last'.actor = "agent"
    <3>1. UNCHANGED <<[s \in Slugs |-> Serving(s)], [s \in Slugs |-> Held(s)]>>
      BY <2>2 DEF Serving, Held
    <3>2. Gov!AgentQueues BY <2>2, <3>1 DEF Gov!AgentQueues
    <3> QED BY <3>2 DEF Gov!Next
  <2>3. CASE \E v \in VersionIds : /\ versions[v].status \in {"pending", "draft"}
                                   /\ versions' = [versions EXCEPT ![v].status = "rejected"]
                                   /\ pages' = pages /\ last'.actor = "user"
    BY <2>3, RejectGoverned
  <2> QED BY <1>2, <2>1, <2>2, <2>3, StepShape
<1> QED BY <1>1, <1>2

\* The initial tables are an initial state of Governance.
LEMMA InitGoverned == Init => Gov!Init
<1> SUFFICES ASSUME Init PROVE Gov!Init OBVIOUS
<1>1. \A s \in Slugs : ServingIn(pages, s) = None /\ HeldIn(pages, s) = FALSE
  <2>1. \A q \in PageIds : pages[q].life # "live" BY DEF Init
  <2>2. \A s \in Slugs : ServingIn(pages, s) = None /\ ~HeldIn(pages, s) BY <2>1, NoLivePage
  <2> QED BY <2>2 DEF HeldIn
<1>2. [s \in Slugs |-> Serving(s)] = [s \in Slugs |-> None] BY <1>1 DEF Serving
<1>3. [s \in Slugs |-> Held(s)] = [s \in Slugs |-> FALSE] BY <1>1 DEF Held
<1>4. {v \in VersionIds : versions[v].status = "rejected"} = {} BY DEF Init
<1>5. last.actor = "user" BY DEF Init, Done, Answer
<1> QED BY <1>2, <1>3, <1>4, <1>5 DEF Gov!Init

\* The state machine of internal/versions implements Governance: seen through
\* what each slug serves, agents act only where no human holds the slug, and a
\* refused version is never shown.
THEOREM ImplementsGovernance == Spec => Governed
<1>1. HistoryFinal <=> [][Final]_vars BY DEF HistoryFinal, Final
<1>2. ASSUME TypeOK, Safe, TypeOK', Safe', ServesApproved, ServesApproved', [Final]_vars, [Next]_vars
      PROVE  [Gov!Next]_(Gov!gvars)
  BY <1>2, StepGoverned
<1> QED
  BY InitGoverned, SafeAlways, OnlyApprovedServed, HistoryIsFinal, <1>1, <1>2, PTL
  DEF Spec, Governed, Gov!Spec

\* Agents never change what a held slug serves nor lift its hold.
THEOREM HoldsRespected == Spec => AgentsRespectHolds
<1> DEFINE A == \A s \in Slugs : Held(s) /\ last'.actor = "agent" =>
                   Held(s)' /\ Serving(s)' = Serving(s)
<1>1. ASSUME [Gov!Next]_(Gov!gvars) PROVE A
  <2> SUFFICES ASSUME NEW s \in Slugs, Held(s), last'.actor = "agent"
               PROVE  Held(s)' /\ Serving(s)' = Serving(s)
    OBVIOUS
  <2> DEFINE shown == [x \in Slugs |-> Serving(x)]
             held  == [x \in Slugs |-> Held(x)]
  <2>1. shown[s] = Serving(s) /\ held[s] = Held(s) OBVIOUS
  <2>2. shown'[s] = Serving(s)' /\ held'[s] = Held(s)' OBVIOUS
  <2>3. CASE UNCHANGED Gov!gvars BY <2>1, <2>2, <2>3 DEF Gov!gvars
  <2>4. CASE Gov!AgentQueues BY <2>1, <2>2, <2>4 DEF Gov!AgentQueues
  <2>5. CASE \E t \in Slugs, w \in VersionIds \cup {None}, h \in BOOLEAN : Gov!AgentActs(t, w, h)
    <3>1. PICK t \in Slugs, w \in VersionIds \cup {None}, h \in BOOLEAN : Gov!AgentActs(t, w, h)
      BY <2>5
    <3>2. /\ ~held[t] /\ shown' = [shown EXCEPT ![t] = w] /\ held' = [held EXCEPT ![t] = h]
      BY <3>1 DEF Gov!AgentActs, Gov!Show
    <3>3. s # t BY <2>1, <3>2
    <3>4. shown'[s] = shown[s] /\ held'[s] = held[s] BY <3>2, <3>3
    <3> QED BY <2>1, <2>2, <3>4
  <2>6. ~(last'.actor = "user") OBVIOUS
  <2> QED BY <1>1, <2>3, <2>4, <2>5, <2>6 DEF Gov!Next, Gov!HumanActs, Gov!HumanRefuses
<1>2. [Gov!Next]_(Gov!gvars) => [A]_vars BY <1>1
<1>3. AgentsRespectHolds <=> [][A]_vars BY DEF AgentsRespectHolds
<1> QED BY ImplementsGovernance, <1>2, <1>3, PTL DEF Governed, Gov!Spec

---------------------------------------------------------------------------
(* What a deploy answers.                                                  *)

\* The answer names page p and version v, and calls v live exactly when the
\* deploy leaves an enabled page pointing at it.
Answered(p, v, op) ==
  /\ last'.op = op /\ last'.page = p /\ last'.version = v
  /\ last'.live <=> ~pages'[p].disabled /\ pages'[p].pointer = v

\* Where the deploy landed: on a version it deduped onto, or on a new row, which
\* is not dated before what was stored with the version the request names.
LandedOn(pg, p, v, prep, only) ==
  \/ /\ v \in DedupeMatches(p, pg[p].gated, prep, only)
     /\ versions'[v].doc = versions[v].doc /\ inserted' = inserted
     /\ versions'[v].created = versions[v].created
  \/ /\ v = inserted + 1 /\ versions'[v].doc = prep.doc /\ inserted' = v
     /\ versions'[v].created \in BeginTimes(p, IF only # None THEN only ELSE prep.expected)

\* Land answers with the page and the version it was given.
LEMMA LandAnswer ==
  ASSUME NEW STATE pg, pg \in [PageIds -> PageRows], NEW STATE rows, NEW p \in PageIds,
         NEW v \in VersionIds, NEW STATE prep, NEW a, NEW op,
         Land(pg, rows, p, v, prep, a, op)
  PROVE  Answered(p, v, op)
<1> DEFINE goes  == prep.publish /\ ~pg[p].gated
           moves == goes /\ (~Managed(prep.doc) \/ pg[p].pointer # v)
<1>0. pg[p] \in PageRows OBVIOUS
<1>1. last' = Answer(op, a, p, v, IsLive(pg[p], v, moves)) BY DEF Land
<1>2. last'.op = op /\ last'.page = p /\ last'.version = v
  BY <1>1 DEF Answer
<1>3. last'.live <=> ~pg[p].disabled /\ (moves \/ pg[p].pointer = v)
  <2> HIDE DEF moves
  <2> QED BY <1>1 DEF Answer, IsLive
<1>4. CASE moves
  <2>1. pages' = [pg EXCEPT ![p].pointer = v] BY <1>4 DEF Land, movePointer
  <2>2. pages'[p] = [pg[p] EXCEPT !.pointer = v] BY <2>1
  <2>3. pages'[p].pointer = v /\ pages'[p].disabled = pg[p].disabled
    BY <2>2, <1>0 DEF PageRows
  <2> QED BY <1>2, <1>3, <1>4, <2>3 DEF Answered
<1>5. CASE ~moves
  <2>1. pages' = pg BY <1>5 DEF Land
  <2> QED BY <1>2, <1>3, <1>5, <2>1 DEF Answered
<1> QED BY <1>4, <1>5

\* DeployLocked lands on a version, and answers with it.
LEMMA DeployAnswer ==
  ASSUME TypeOK, NEW STATE pg, pg \in [PageIds -> PageRows], NEW p \in PageIds,
         NEW STATE prep, prep \in Preps, NEW a \in Actors, NEW only, NEW op,
         DeployLocked(pg, p, prep, a, only, op)
  PROVE  \E v \in VersionIds : Answered(p, v, op) /\ LandedOn(pg, p, v, prep, only)
                               /\ LandedVersion(p, v, a) /\ pages'[p].life = pg[p].life
                               /\ pages'[p].slug = pg[p].slug
                               /\ \A q \in PageIds \ {p} : pages'[q] = pg[q]
<1> DEFINE hits == DedupeMatches(p, pg[p].gated, prep, only)
           new  == inserted + 1
           named == IF only # None THEN only ELSE prep.expected
           row(at) == [page |-> p, doc |-> prep.doc, created |-> at,
                       status |-> IF pg[p].gated THEN "pending" ELSE "draft"]
           rows(at) == [versions EXCEPT ![new] = row(at)]
<1>1. CASE /\ \E v \in hits : Land(pg, versions, p, v, prep, a, op)
           /\ UNCHANGED inserted
  <2>1. PICK v \in hits : Land(pg, versions, p, v, prep, a, op) BY <1>1
  <2>2. /\ v \in VersionIds /\ OnPage(p, v) /\ versions[v].status # "rejected"
        /\ versions[v].status # Unusable(pg[p].gated)
    BY <2>1 DEF DedupeMatches
  <2>3. versions \in [VersionIds -> VersionRows] BY DEF TypeOK
  <2>4. ~pg[p].gated => versions[v].status # "pending" BY <2>2 DEF Unusable
  <2>5. versions[v].page = p BY <2>2 DEF OnPage
  <2>6. /\ Landed(pg, p, v, a) /\ versions'[v].doc = versions[v].doc
        /\ versions'[v].created = versions[v].created
    BY <1>1, <2>1, <2>2, <2>3, <2>4, <2>5, LandEffect DEF Landed, LandedVersion
  <2>7. Answered(p, v, op) BY <2>1, <2>2, LandAnswer
  <2>8. LandedOn(pg, p, v, prep, only) BY <1>1, <2>1, <2>6 DEF LandedOn
  <2> QED BY <2>2, <2>6, <2>7, <2>8 DEF Landed
<1>2. CASE /\ new \in VersionIds
           /\ \E at \in BeginTimes(p, named) : Land(pg, rows(at), p, new, prep, a, op)
           /\ inserted' = new
  <2>0. PICK at \in BeginTimes(p, named) : Land(pg, rows(at), p, new, prep, a, op) BY <1>2
  <2>1. row(at) \in VersionRows
    BY BoundsAssumption DEF VersionRows, Statuses, Preps, PageIds, BeginTimes, Times
  <2>2. rows(at) \in [VersionIds -> VersionRows] BY <2>1 DEF TypeOK
  <2>3. /\ rows(at)[new] = row(at) /\ \A w \in VersionIds \ {new} : rows(at)[w] = versions[w]
    BY <1>2 DEF TypeOK
  <2>4. /\ row(at).page = p /\ row(at).doc = prep.doc /\ row(at).created = at
        /\ row(at).status \in {"pending", "draft"}
    OBVIOUS
  <2> HIDE DEF row, rows
  <2>5. Landed(pg, p, new, a) /\ versions'[new].doc = prep.doc /\ versions'[new].created = at
    BY <1>2, <2>0, <2>2, <2>3, <2>4, LandEffect DEF Landed, LandedVersion
  <2>6. Answered(p, new, op) BY <1>2, <2>0, LandAnswer
  <2>7. LandedOn(pg, p, new, prep, only) BY <1>2, <2>0, <2>5 DEF LandedOn
  <2> QED BY <1>2, <2>5, <2>6, <2>7 DEF Landed
<1> QED BY <1>1, <1>2 DEF DeployLocked

---------------------------------------------------------------------------
(* The answers of the four kinds of deploy.                                *)

\* A deploy ended on a version of a live page and answered with it.
Answering(op) ==
  \E p \in PageIds, v \in VersionIds : pages'[p].life = "live" /\ Answered(p, v, op)

\* A deck save ended on the newest version of its page.
Saved ==
  \E p \in PageIds, v \in VersionIds :
    /\ pages'[p].life = "live" /\ Answered(p, v, "deck_save")
    /\ Newest(v, VersionsOf(p))'

\* A data update ended on a version that covers what the page already covers and
\* has the template that was live.
Covers(p, doc) ==
  \A v \in VersionIds :
    /\ versions[v].page = p /\ Managed(versions[v].doc)
    /\ versions[v].status \notin {"none", "rejected"}
    => versions[v].doc.asOf =< doc.asOf
KeepsTemplate(p, doc) ==
  LET was == versions[pages[p].pointer].doc
  IN doc.layout = was.layout /\ doc.config = was.config /\ Contract(doc)
Refreshed ==
  \E p \in PageIds, v \in VersionIds :
    /\ pages'[p].life = "live" /\ Answered(p, v, "data_update")
    /\ Covers(p, versions'[v].doc) /\ KeepsTemplate(p, versions'[v].doc)

\* Whole-document deploys, onto an existing page or a new one.
LEMMA DeployAnswers ==
  ASSUME TypeOK, NEW s \in Slugs, NEW a \in Actors, NEW d \in Uploads, NEW pub \in BOOLEAN,
         NEW e \in Expecteds, NEW g \in BOOLEAN,
         Deploy(s, d, pub, e, a) \/ CreateAndDeploy(s, d, pub, e, g, a)
  PROVE  Answering("deploy")
<1> DEFINE prep == PrepareDeploy(d, pub, e, FALSE)
<1>1. prep \in Preps
  BY PrepType, DocumentsAssumption, BoundsAssumption DEF Expecteds
<1>2. pages \in [PageIds -> PageRows] BY DEF TypeOK
<1> HIDE DEF prep
<1>3. CASE \E p \in PageIds : LockPage(s, p) /\ DeployLocked(pages, p, prep, a, None, "deploy")
  <2>1. PICK p \in PageIds : LockPage(s, p) /\ DeployLocked(pages, p, prep, a, None, "deploy")
    BY <1>3
  <2>2. PICK v \in VersionIds : Answered(p, v, "deploy") /\ pages'[p].life = pages[p].life
    BY <1>1, <1>2, <2>1, DeployAnswer
  <2> QED BY <2>1, <2>2 DEF Answering, LockPage
<1>4. CASE \E p \in PageIds :
             DeployLocked([pages EXCEPT ![p] = NewRow(s, g)], p, prep, a, None, "deploy")
  <2>1. PICK p \in PageIds :
             DeployLocked([pages EXCEPT ![p] = NewRow(s, g)], p, prep, a, None, "deploy")
    BY <1>4
  <2>2. [pages EXCEPT ![p] = NewRow(s, g)] \in [PageIds -> PageRows]
    BY <1>2, NewRowType
  <2>3. [pages EXCEPT ![p] = NewRow(s, g)][p].life = "live" BY <1>2 DEF NewRow
  <2>4. PICK v \in VersionIds : Answered(p, v, "deploy")
               /\ pages'[p].life = [pages EXCEPT ![p] = NewRow(s, g)][p].life
    BY <1>1, <2>1, <2>2, DeployAnswer
  <2> QED BY <2>3, <2>4 DEF Answering
<1> QED BY <1>3, <1>4 DEF Deploy, CreateAndDeploy, prep

\* Config updates.
LEMMA ConfigAnswers ==
  ASSUME TypeOK, NEW s \in Slugs, NEW a \in Actors, NEW k \in Configs, NEW e \in VersionIds,
         NEW pub \in BOOLEAN, UpdatePageConfig(s, k, e, pub, a)
  PROVE  Answering("config_update")
<1> USE BoundsAssumption
<1> DEFINE prep(p) == PrepareDeploy(MaterializeConfig(versions[pages[p].pointer].doc, k), pub, e, TRUE)
<1>1. PICK p \in PageIds : /\ pages[p].pointer # None /\ pages[p].life = "live"
                           /\ DeployLocked(pages, p, prep(p), a, None, "config_update")
  BY DEF UpdatePageConfig, LockPage
<1>2. pages[p].pointer \in VersionIds
  BY <1>1 DEF TypeOK, PageRows, VersionIds, None
<1>3. versions[pages[p].pointer].doc \in Documents BY <1>2 DEF TypeOK, VersionRows
<1>4. MaterializeConfig(versions[pages[p].pointer].doc, k) \in Documents
  BY <1>3 DEF MaterializeConfig, Documents
<1>5. e \in 0..MaxVersions BY DEF VersionIds
<1>6. prep(p) \in Preps BY <1>4, <1>5, PrepType
<1>7. pages \in [PageIds -> PageRows] BY DEF TypeOK
<1>8. PICK v \in VersionIds : Answered(p, v, "config_update") /\ pages'[p].life = pages[p].life
  BY <1>1, <1>6, <1>7, DeployAnswer
<1> QED BY <1>1, <1>8 DEF Answering

\* Deck saves: dedupe is offered the newest version only, and a row is inserted
\* on top of it only when it is the one the save names: dated no earlier than
\* it, hence than any, and with an id above every stored one.
LEMMA DeckAnswers ==
  ASSUME TypeOK, Safe, NEW s \in Slugs, DeckStep(s)
  PROVE  Saved
<1> USE BoundsAssumption
<1>1. PICK session \in PageIds, b \in VersionIds, d \in Uploads : SaveDeck(s, session, b, d)
  BY DEF DeckStep
<1> DEFINE prep == PrepareDeploy(d, FALSE, None, FALSE)
<1>2. PICK p \in PageIds, n \in VersionIds :
        /\ pages[p].life = "live"
        /\ Newest(n, VersionsOf(p))
        /\ DeployLocked(pages, p, prep, "user", n, "deck_save")
  BY <1>1 DEF SaveDeck, LockPage
<1>3. prep \in Preps
  <2>1. d \in Documents /\ None \in 0..MaxVersions BY DocumentsAssumption DEF None
  <2> QED BY <2>1, PrepType
<1>4. "user" \in Actors BY DEF Actors
<1>5. pages \in [PageIds -> PageRows] BY DEF TypeOK
<1> HIDE DEF prep
<1>6. PICK v \in VersionIds :
        /\ Answered(p, v, "deck_save") /\ LandedOn(pages, p, v, prep, n)
        /\ LandedVersion(p, v, "user") /\ pages'[p].life = pages[p].life
  BY <1>2, <1>3, <1>4, <1>5, DeployAnswer
<1>7. OnPage(p, v)' BY <1>6 DEF LandedVersion, OnPage
<1>8. ASSUME NEW w \in VersionIds, OnPage(p, w)', w # v PROVE Newer(v, w)'
  <2>1. versions'[w] = versions[w] BY <1>6, <1>8 DEF LandedVersion
  <2>2. OnPage(p, w) BY <1>8, <2>1 DEF OnPage
  <2>3. OnPage(p, n) /\ (w # n => Newer(n, w)) BY <1>2, <2>2 DEF Newest, VersionsOf
  <2>4. CASE v \in DedupeMatches(p, pages[p].gated, prep, n) /\ versions'[v].created = versions[v].created
    <3>1. v = n BY <2>4 DEF DedupeMatches, None, VersionIds
    <3> QED BY <1>8, <2>1, <2>3, <2>4, <3>1 DEF Newer
  <2>5. CASE v = inserted + 1 /\ versions'[v].created \in BeginTimes(p, n)
    <3>1. versions'[v].created \in Times /\ versions[n].created =< versions'[v].created
      BY <2>3, <2>5 DEF BeginTimes, VersionsOf, VersionIds
    <3>2. versions[w].created \in Nat /\ versions[n].created \in Nat
      BY DEF TypeOK, VersionRows
    <3>3. versions[w].created =< versions[n].created BY <2>3, <3>2 DEF Newer
    <3>4. w =< inserted /\ inserted \in Nat BY <2>2 DEF OnPage, Safe, SlugsUnique, TypeOK
    <3>5. w < v BY <2>5, <3>4 DEF VersionIds
    <3>6. versions[w].created =< versions'[v].created BY <3>1, <3>2, <3>3 DEF Times
    <3> QED BY <2>1, <3>1, <3>2, <3>5, <3>6 DEF Newer, Times, VersionIds
  <2>6. n # None BY DEF None, VersionIds
  <2> QED BY <1>6, <2>4, <2>5, <2>6 DEF LandedOn
<1>9. Newest(v, VersionsOf(p))' BY <1>7, <1>8 DEF Newest, VersionsOf, OnPage
<1> QED BY <1>2, <1>6, <1>9 DEF Saved

---------------------------------------------------------------------------
(* Data updates.                                                           *)

\* What precheckPageData keeps of the published document stays what that stored
\* version says, however long the caller takes to come back: history is final.
SnapshotsTrue ==
  \A c \in Clients :
    inflight[c] # Idle /\ inflight[c].snapshot # None =>
      /\ inflight[c].snapshot \in VersionIds /\ versions[inflight[c].snapshot].status = "approved"
      /\ inflight[c].template = versions[inflight[c].snapshot].doc

\* So the template of an update that runs is the document that is live then.
LEMMA TemplateIsLive ==
  ASSUME SnapshotsTrue, NEW c \in Clients, NEW p \in PageIds, inflight[c] # Idle
  PROVE  TemplateOf(p, inflight[c]) = versions[pages[p].pointer].doc
BY DEF SnapshotsTrue, TemplateOf

\* Materializing new data keeps layout and config, and a data-matching version
\* says the same as the document it matches.
LEMMA MaterializeEffect ==
  ASSUME NEW d \in Documents, NEW x \in DataSets, NEW t \in AsOfs, NEW r \in Stamps
  PROVE  LET m == Materialize(d, x, t, r)
         IN /\ m \in Documents /\ m.layout = d.layout /\ m.config = d.config
            /\ m.data = x /\ m.asOf = t
BY DEF Materialize, Documents

\* Data updates: the version they land on is not older than any version of the
\* page that was not rejected, and it is the live template with sound data.
LEMMA DataAnswers ==
  ASSUME TypeOK, SnapshotsTrue, NEW c \in Clients, NEW t \in AsOfs, NEW r \in Stamps,
         NEW pub \in BOOLEAN, NEW a \in Actors, UpdatePageData(c, t, r, pub, a)
  PROVE  Refreshed
<1> USE BoundsAssumption
<1> DEFINE q == inflight[c]
           doc(p) == Materialize(TemplateOf(p, q), q.data, t, r)
           prep(p) == PrepareDeploy(doc(p), pub, q.expected, TRUE)
<1>1. q \in Requests /\ q # Idle BY DEF UpdatePageData, TypeOK
<1>2. PICK p \in PageIds : /\ DataAdmitted(p, q, t)
                           /\ DeployLocked(pages, p, prep(p), a, None, "data_update")
  BY DEF UpdatePageData
<1>3. /\ pages[p].pointer # None /\ pages[p].life = "live"
      /\ Managed(TemplateOf(p, q))
      /\ \A f \in SourceCoverageFloor(p, TemplateOf(p, q)) : f =< t
  BY <1>2 DEF DataAdmitted, LockPage
<1>4. TemplateOf(p, q) \in Documents BY <1>1, <1>3, TemplateType
<1>5. q.data \in DataSets /\ q.expected \in 0..MaxVersions
  BY <1>1 DEF Requests, VersionIds
<1>6. /\ doc(p) \in Documents /\ doc(p).layout = TemplateOf(p, q).layout
      /\ doc(p).config = TemplateOf(p, q).config /\ doc(p).asOf = t
  BY <1>4, <1>5, MaterializeEffect
<1> HIDE DEF doc
<1>7. prep(p) \in Preps BY <1>5, <1>6, PrepType
<1>8. /\ prep(p).doc = doc(p)
      /\ prep(p).byData <=> Managed(doc(p))
      /\ prep(p).sound <=> Contract(doc(p))
  <2>1. prep(p).doc = doc(p) BY DEF PrepareDeploy
  <2>2. prep(p).byData <=> Managed(doc(p)) BY Zenon DEF PrepareDeploy
  <2>3. prep(p).sound <=> Contract(doc(p)) BY Zenon DEF PrepareDeploy
  <2> QED BY <2>1, <2>2, <2>3
<1>9. Managed(doc(p)) BY <1>3, <1>6 DEF Managed
<1>10. prep(p).byData BY <1>8, <1>9
<1>11. Contract(doc(p)) BY <1>2, <1>8 DEF DeployLocked
<1>12. pages \in [PageIds -> PageRows] BY DEF TypeOK
<1> HIDE DEF prep
<1>13. PICK v \in VersionIds :
         /\ Answered(p, v, "data_update") /\ LandedOn(pages, p, v, prep(p), None)
         /\ pages'[p].life = pages[p].life
  BY <1>2, <1>7, <1>12, DeployAnswer
<1> DEFINE now == versions'[v].doc
<1>14. /\ now.layout = doc(p).layout /\ now.config = doc(p).config
       /\ now.data = doc(p).data /\ now.asOf = doc(p).asOf
  <2>1. CASE v \in DedupeMatches(p, pages[p].gated, prep(p), None)
             /\ versions'[v].doc = versions[v].doc
    BY <2>1, <1>8, <1>10 DEF DedupeMatches, SameData
  <2>2. CASE versions'[v].doc = prep(p).doc BY <2>2, <1>8
  <2> QED BY <1>13, <2>1, <2>2 DEF LandedOn
<1>15. Covers(p, now)
  <2>1. ASSUME NEW w \in VersionIds, versions[w].page = p, Managed(versions[w].doc),
               versions[w].status \notin {"none", "rejected"}
        PROVE  versions[w].doc.asOf =< now.asOf
    <3>1. versions[w].doc.asOf \in SourceCoverageFloor(p, TemplateOf(p, q))
      BY <2>1 DEF SourceCoverageFloor, OnPage
    <3> QED BY <1>3, <1>6, <1>14, <3>1
  <2> QED BY <2>1 DEF Covers
<1>16. KeepsTemplate(p, now)
  <2>1. TemplateOf(p, q) = versions[pages[p].pointer].doc BY <1>1, TemplateIsLive
  <2>2. Contract(now) BY <1>11, <1>14 DEF Contract, Managed
  <2> QED BY <1>6, <1>14, <2>1, <2>2 DEF KeepsTemplate
<1> QED BY <1>3, <1>13, <1>15, <1>16 DEF Refreshed

\* A step answers nothing, or as one of the four kinds of deploy.
LEMMA StepAnswers ==
  ASSUME TypeOK, Safe, SnapshotsTrue, Next
  PROVE  \/ last'.op = "other" \/ Answering("deploy") \/ Answering("config_update")
         \/ Saved \/ Refreshed
<1>1. \A a \in Actors : Done(a).op = "other" BY DEF Done, Answer
<1>2. ASSUME NEW s \in Slugs, NEW a \in Actors, ReviewStep(s, a) PROVE last'.op = "other"
  BY <1>1, <1>2 DEF ReviewStep, Approve, Reject, SetDisabled, SetApproval, RestorePage
<1>3. ASSUME NEW s \in Slugs, NEW a \in Actors, AuthorStep(s, a)
      PROVE  last'.op = "other" \/ Answering("deploy") \/ Answering("config_update")
  <2>1. ASSUME NEW g \in BOOLEAN, CreatePage(s, g, a) PROVE last'.op = "other"
    BY <1>1, <2>1 DEF CreatePage
  <2>2. ASSUME NEW v \in VersionIds, NEW e \in Expecteds, Publish(s, v, e, a)
        PROVE  last'.op = "other"
    BY <1>1, <2>2 DEF Publish
  <2>3. ASSUME NEW n \in Expecteds, NEW e \in Expecteds, Rollback(s, n, e, a)
        PROVE  last'.op = "other"
    BY <1>1, <2>3 DEF Rollback
  <2>4. ASSUME DeletePage(s, a) PROVE last'.op = "other" BY <1>1, <2>4 DEF DeletePage
  <2>5. ASSUME NEW d \in Uploads, NEW pub \in BOOLEAN, NEW e \in Expecteds, Deploy(s, d, pub, e, a)
        PROVE  Answering("deploy")
    BY <2>5, DeployAnswers
  <2> QED BY <1>3, <2>1, <2>2, <2>3, <2>4, <2>5, DeployAnswers, ConfigAnswers DEF AuthorStep
<1>4. ASSUME NEW c \in Clients, RefreshStep(c) PROVE last'.op = "other" \/ Refreshed
  <2>1. Done("agent").op = "other" BY <1>1 DEF Actors
  <2> QED BY <1>4, <2>1, DataAnswers DEF RefreshStep, precheckPageData, RefusePageData
<1> QED BY <1>2, <1>3, <1>4, DeckAnswers DEF Next

\* What a step does to the update a caller has in flight: nothing, ends it, or
\* begins one with a snapshot of the live version or none.
LEMMA InflightStep ==
  ASSUME TypeOK, Safe, Next, NEW c \in Clients
  PROVE  \/ inflight'[c] = inflight[c]
         \/ inflight'[c] = Idle
         \/ inflight'[c].snapshot = None
         \/ \E e \in VersionIds : /\ versions[e].status = "approved"
                                  /\ inflight'[c].snapshot = e
                                  /\ inflight'[c].template = versions[e].doc
<1> DEFINE Goal == \/ inflight'[c] = inflight[c]
                   \/ inflight'[c] = Idle
                   \/ inflight'[c].snapshot = None
                   \/ \E e \in VersionIds : /\ versions[e].status = "approved"
                                            /\ inflight'[c].snapshot = e
                                            /\ inflight'[c].template = versions[e].doc
<1> SUFFICES Goal OBVIOUS
<1>1. ASSUME NEW k \in Clients, NEW s \in Slugs, NEW x \in DataSets, NEW e \in VersionIds,
             precheckPageData(k, s, x, e)
      PROVE  Goal
  <2> DEFINE req(v, d) == [slug |-> s, data |-> x, expected |-> e,
                           snapshot |-> v, template |-> d]
  <2>1. CASE c # k BY <1>1, <2>1 DEF precheckPageData, TypeOK
  <2>2. CASE c = k /\ inflight' = [inflight EXCEPT ![k] = req(None, NoDocument)]
    <3>1. inflight'[c] = req(None, NoDocument) BY <2>2 DEF TypeOK
    <3> QED BY <3>1
  <2>3. CASE /\ c = k /\ inflight' = [inflight EXCEPT ![k] = req(e, versions[e].doc)]
             /\ \E p \in PageIds : pages[p].pointer = e
    <3>1. inflight'[c] = req(e, versions[e].doc) BY <2>3 DEF TypeOK
    <3>2. versions[e].status = "approved" BY <2>3 DEF Safe, PointerApproved, None, VersionIds
    <3> QED BY <3>1, <3>2
  <2> QED BY <1>1, <2>1, <2>2, <2>3 DEF precheckPageData
<1>2. ASSUME NEW k \in Clients, inflight' = [inflight EXCEPT ![k] = Idle] PROVE Goal
  BY <1>2 DEF TypeOK
<1>3. ASSUME NEW k \in Clients, RefreshStep(k) PROVE Goal
  BY <1>1, <1>2, <1>3 DEF RefreshStep, UpdatePageData, RefusePageData
<1>4. ASSUME NEW s \in Slugs, NEW a \in Actors, ReviewStep(s, a) PROVE inflight' = inflight
  BY <1>4 DEF ReviewStep, Approve, Reject, SetDisabled, SetApproval, RestorePage
<1>5. ASSUME NEW s \in Slugs, NEW a \in Actors, AuthorStep(s, a) PROVE inflight' = inflight
  BY <1>5 DEF AuthorStep, CreatePage, Deploy, CreateAndDeploy, UpdatePageConfig, Publish,
              Rollback, DeletePage
<1>6. ASSUME NEW s \in Slugs, DeckStep(s) PROVE inflight' = inflight
  BY <1>6 DEF DeckStep, SaveDeck
<1> QED BY <1>3, <1>4, <1>5, <1>6 DEF Next

\* The snapshots stay true: a stored document never changes.
LEMMA SnapshotsStep ==
  ASSUME TypeOK, Safe, SnapshotsTrue, Next, Final, NEW c \in Clients,
         inflight'[c] # Idle, inflight'[c].snapshot # None
  PROVE  LET n == inflight'[c].snapshot
         IN /\ n \in VersionIds /\ versions'[n].status = "approved"
            /\ inflight'[c].template = versions'[n].doc
<1> DEFINE n == inflight'[c].snapshot
<1>1. /\ n \in VersionIds /\ versions[n].status = "approved"
      /\ inflight'[c].template = versions[n].doc
  BY InflightStep DEF SnapshotsTrue
<1>2. versions'[n].doc = versions[n].doc BY <1>1 DEF Final
<1>3. versions'[n].status = "approved" BY <1>1 DEF Final
<1> QED BY <1>1, <1>2, <1>3

\* The snapshot a caller holds is a stored version, word for word, until it ends.
LEMMA SnapshotsAlways == Spec => []SnapshotsTrue
<1>1. Init => SnapshotsTrue BY DEF Init, SnapshotsTrue
<1>2. ASSUME TypeOK, Safe, SnapshotsTrue, [Next]_vars, [Final]_vars PROVE SnapshotsTrue'
  <2>1. CASE UNCHANGED vars BY <1>2, <2>1 DEF vars, SnapshotsTrue
  <2>2. CASE Next /\ ~UNCHANGED vars
    <3>1. Final BY <1>2, <2>2
    <3> QED BY <1>2, <2>2, <3>1, SnapshotsStep DEF SnapshotsTrue
  <2> QED BY <1>2, <2>1, <2>2
<1>3. HistoryFinal <=> [][Final]_vars BY DEF HistoryFinal, Final
<1> QED BY SafeAlways, HistoryIsFinal, <1>1, <1>2, <1>3, PTL DEF Spec

---------------------------------------------------------------------------
(* The answers are true.                                                   *)

\* An answer that says a version is live is right: the page it names is the only
\* live one of its slug.
LEMMA AnswerTrue ==
  ASSUME Safe', NEW p \in PageIds, NEW v \in VersionIds, NEW op,
         pages'[p].life = "live", Answered(p, v, op)
  PROVE  last'.live <=> Serving(pages[last.page].slug)' = last'.version
<1>1. \A q \in PageIds : q # p /\ pages'[q].life = "live" => pages'[q].slug # pages'[p].slug
  BY DEF Safe, SlugsUnique
<1>2. ServingIn(pages', pages'[p].slug) = IF pages'[p].disabled THEN None ELSE pages'[p].pointer
  BY <1>1, TheLivePage
<1>3. Serving(pages[last.page].slug)' = ServingIn(pages', pages'[p].slug)
  BY DEF Answered, Serving
<1>4. v # None BY DEF None, VersionIds
<1> QED BY <1>2, <1>3, <1>4 DEF Answered

\* `live` in the answer of every deploy is the truth about serving when it
\* commits: on dedupes, gated pages and disabled pages alike.
THEOREM AnswersAreTrue == Spec => []LiveTruthful
<1>1. Init => LiveTruthful BY DEF Init, Done, Answer, LiveTruthful
<1>2. ASSUME TypeOK, Safe, Safe', SnapshotsTrue, LiveTruthful, [Next]_vars
      PROVE  LiveTruthful'
  <2>1. CASE UNCHANGED vars
    BY <1>2, <2>1 DEF vars, LiveTruthful, Serving
  <2>2. CASE Next
    <3>1. ASSUME NEW p \in PageIds, NEW v \in VersionIds, NEW op,
                 pages'[p].life = "live", Answered(p, v, op)
          PROVE  LiveTruthful'
      BY <1>2, <3>1, AnswerTrue DEF LiveTruthful
    <3>2. CASE last'.op = "other" BY <3>2 DEF LiveTruthful
    <3> QED
      BY <1>2, <2>2, <3>1, <3>2, StepAnswers DEF Answering, Saved, Refreshed
  <2> QED BY <1>2, <2>1, <2>2
<1> QED BY SafeAlways, SnapshotsAlways, <1>1, <1>2, PTL DEF Spec

\* A deck editor's save is answered with the newest version of its page, by the
\* time its transaction began and then by id.
THEOREM SavesAreNewest == Spec => []DeckSaveNewest
<1>1. Init => DeckSaveNewest BY DEF Init, Done, Answer, DeckSaveNewest
<1>2. ASSUME TypeOK, Safe, SnapshotsTrue, DeckSaveNewest, [Next]_vars
      PROVE  DeckSaveNewest'
  <2>1. CASE UNCHANGED vars
    BY <1>2, <2>1 DEF vars, DeckSaveNewest, Newest, VersionsOf, Newer, OnPage
  <2>2. CASE Next
    <3>1. CASE Saved BY <3>1 DEF Saved, Answered, DeckSaveNewest, Newest, VersionsOf, Newer, OnPage
    <3>2. CASE last'.op # "deck_save" BY <3>2 DEF DeckSaveNewest
    <3> QED BY <1>2, <2>2, <3>1, <3>2, StepAnswers DEF Answering, Refreshed, Answered
  <2> QED BY <1>2, <2>1, <2>2
<1> QED BY SafeAlways, SnapshotsAlways, <1>1, <1>2, PTL DEF Spec

\* The step CoverageMonotone speaks of.
CoverageStep ==
  last'.op = "data_update" =>
    \A v \in VersionIds :
      /\ versions[v].page = last'.page /\ Managed(versions[v].doc)
      /\ versions[v].status \notin {"none", "rejected"}
      => versions[v].doc.asOf =< versions'[last'.version].doc.asOf

\* A data refresh never lands on a version that covers less than another version
\* of the page that was not rejected, live or not.
THEOREM CoverageNeverFalls == Spec => CoverageMonotone
<1>1. ASSUME TypeOK, Safe, SnapshotsTrue, [Next]_vars PROVE [CoverageStep]_vars
  <2>1. CASE Refreshed BY <2>1 DEF Refreshed, Answered, Covers, CoverageStep
  <2>2. CASE last'.op # "data_update" BY <2>2 DEF CoverageStep
  <2> QED BY <1>1, <2>1, <2>2, StepAnswers DEF Answering, Saved, Answered
<1>2. CoverageMonotone <=> [][CoverageStep]_vars BY DEF CoverageMonotone, CoverageStep
<1> QED BY SafeAlways, SnapshotsAlways, <1>1, <1>2, PTL DEF Spec

\* A data refresh changes the data only, and the data satisfies the live
\* template's schema, although the template was read before the page was locked.
THEOREM TemplateKept == Spec => RefreshKeepsTemplate
<1> DEFINE A == last'.op = "data_update" => KeepsTemplate(last'.page, versions'[last'.version].doc)
<1>1. ASSUME TypeOK, Safe, SnapshotsTrue, [Next]_vars PROVE [A]_vars
  <2>1. CASE Refreshed BY <2>1 DEF Refreshed, Answered
  <2>2. CASE last'.op # "data_update" BY <2>2
  <2> QED BY <1>1, <2>1, <2>2, StepAnswers DEF Answering, Saved, Answered
<1>2. RefreshKeepsTemplate <=> [][A]_vars BY DEF RefreshKeepsTemplate, KeepsTemplate
<1> QED BY SafeAlways, SnapshotsAlways, <1>1, <1>2, PTL DEF Spec
=============================================================================
