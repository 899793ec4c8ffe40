----------------------------- MODULE Templates -----------------------------
(***************************************************************************)
(* The template library (internal/templates): designs registered under a  *)
(* name, revision by revision, retired, and the page built from them and  *)
(* moved between them.  Calls of several connections interleave at their  *)
(* statements; a refused call, or one whose transaction is rolled back,   *)
(* just ends.  One template name and one page row.  Data 1 is from a later *)
(* source than data 0: it has its number for its source_as_of.             *)
(***************************************************************************)
EXTENDS Integers, Sequences

CONSTANTS Conns, Designs,
          MaxTemplates, MaxRevisions, \* bounds: rows of the tables
          MaxLibrary                  \* bound: templates and the page's versions

VARIABLES
  tmpls,  \* page_templates, by id
  revs,   \* page_template_versions, by id
  page,   \* the row of pages
  rows,   \* its page_versions, by id
  conn    \* per connection: the call it is in

templateVars == <<tmpls, revs, page, rows, conn>>

HandMade == 0   \* the design of a page that was patched by hand

Document == [rev : 0..MaxRevisions, design : Designs \cup {HandMade}, config : {0, 1},
             data : {0, 1}, asOf : {0, 1}]
Status == {"draft", "pending", "approved", "rejected"}
Call == [at : {"idle", "insert", "relock", "newest", "write", "build", "rerender", "retire"},
         tmpl : 0..MaxTemplates, rev : 0..MaxRevisions, n : 0..MaxRevisions + 1,
         design : Designs \cup {HandMade}, config : {0, 1}, data : {0, 1}, flag : BOOLEAN]
Idle == [at |-> "idle", tmpl |-> 0, rev |-> 0, n |-> 0, design |-> HandMade, config |-> 0, data |-> 0, flag |-> FALSE]

TemplatesTypeOK ==
  /\ \A t \in DOMAIN tmpls : tmpls[t] \in [life : {"new", "live", "retired"}, current : 0..MaxRevisions]
  /\ \A i \in DOMAIN revs : revs[i] \in [tmpl : DOMAIN tmpls, n : 1..MaxRevisions, design : Designs]
  /\ page \in [life : {"none", "live", "deleted"}, gated : BOOLEAN, pointer : 0..Len(rows)]
  /\ \A v \in DOMAIN rows : rows[v] \in [doc : Document, status : Status]
  /\ conn \in [Conns -> Call]

---------------------------------------------------------------------------
(* Rows and locks.                                                         *)

LiveTemplates == {t \in DOMAIN tmpls : tmpls[t].life = "live"}
Revisions(t) == {i \in DOMAIN revs : revs[i].tmpl = t}
Newest(t) == {i \in Revisions(t) : \A j \in Revisions(t) : revs[j].n <= revs[i].n}

MayLock_Always(t) == TRUE

\* SELECT ... FOR UPDATE on a template row waits for the call that has it.
MayLock(t) == \A d \in Conns : conn[d].tmpl = t => conn[d].at \notin {"newest", "write", "retire"}

\* The row of pages is locked for as long as a rerender runs.
MayLockPage == page.life = "live" /\ \A d \in Conns : conn[d].at # "rerender"

Go(c, call) == conn' = [conn EXCEPT ![c] = call]
End(c) == Go(c, Idle)

---------------------------------------------------------------------------
(* Register.                                                               *)

LookTemplate(c, design) ==
  /\ conn[c] = Idle
  /\ \/ \E t \in LiveTemplates :
          MayLock(t) /\ Go(c, [Idle EXCEPT !.at = "newest", !.tmpl = t, !.design = design])
     \/ LiveTemplates = {} /\ Go(c, [Idle EXCEPT !.at = "insert", !.design = design])
  /\ UNCHANGED <<tmpls, revs, page, rows>>

\* INSERT ... ON CONFLICT DO NOTHING: it waits for another insert of the name.
InsertTemplate(c) ==
  /\ conn[c].at = "insert"
  /\ \A t \in DOMAIN tmpls : tmpls[t].life # "new"
  /\ \/ /\ LiveTemplates = {} /\ Len(tmpls) < MaxTemplates /\ Len(tmpls) + Len(rows) < MaxLibrary
        /\ tmpls' = Append(tmpls, [life |-> "new", current |-> 0])
        /\ Go(c, [conn[c] EXCEPT !.at = "newest", !.tmpl = Len(tmpls) + 1])
     \/ LiveTemplates # {} /\ Go(c, [conn[c] EXCEPT !.at = "relock"]) /\ UNCHANGED tmpls
  /\ UNCHANGED <<revs, page, rows>>

\* The row that made the INSERT do nothing, unless it went meanwhile: 409.
RelockTemplate(c) ==
  /\ conn[c].at = "relock"
  /\ \/ \E t \in LiveTemplates : MayLock(t) /\ Go(c, [conn[c] EXCEPT !.at = "newest", !.tmpl = t])
     \/ LiveTemplates = {} /\ End(c)
  /\ UNCHANGED <<tmpls, revs, page, rows>>

\* The same bytes as the newest revision are that revision again.
ReadNewest(c) ==
  /\ conn[c].at = "newest"
  /\ \/ \E i \in Newest(conn[c].tmpl) : revs[i].design = conn[c].design /\ End(c)
     \/ /\ \A i \in Newest(conn[c].tmpl) : revs[i].design # conn[c].design
        /\ \E n \in 0..MaxRevisions :
             /\ \A i \in Newest(conn[c].tmpl) : n = revs[i].n
             /\ Newest(conn[c].tmpl) = {} => n = 0
             /\ Go(c, [conn[c] EXCEPT !.at = "write", !.n = n + 1])
  /\ UNCHANGED <<tmpls, revs, page, rows>>

\* The revision, and the pointer to it; UNIQUE (template_id, revision).
WriteRevision(c) ==
  LET t == conn[c].tmpl
      id == Len(revs) + 1
  IN /\ conn[c].at = "write"
     /\ id <= MaxRevisions /\ \A i \in Revisions(t) : revs[i].n # conn[c].n
     /\ revs' = Append(revs, [tmpl |-> t, n |-> conn[c].n, design |-> conn[c].design])
     /\ tmpls' = [tmpls EXCEPT ![t].current = id, ![t].life = IF @ = "new" THEN "live" ELSE @]
     /\ End(c)
     /\ UNCHANGED <<page, rows>>

\* A rollback: a template whose first revision was never committed is gone.
AbortRegister(c) ==
  /\ conn[c].at \in {"newest", "write"}
  /\ tmpls' = IF tmpls[conn[c].tmpl].life = "new" THEN SubSeq(tmpls, 1, Len(tmpls) - 1) ELSE tmpls
  /\ End(c) /\ UNCHANGED <<revs, page, rows>>

---------------------------------------------------------------------------
(* Remove: the pages built from it are counted under the row's lock.       *)

PagesBuilt(t) == IF page.life = "live" /\ \E v \in DOMAIN rows : rows[v].doc.rev \in Revisions(t) THEN 1 ELSE 0

CountPages(c, force) ==
  /\ conn[c] = Idle
  /\ \E t \in LiveTemplates :
       /\ MayLock(t)
       /\ PagesBuilt(t) = 0 \/ force
       /\ Go(c, [Idle EXCEPT !.at = "retire", !.tmpl = t])
  /\ UNCHANGED <<tmpls, revs, page, rows>>

Remove(c) ==
  /\ conn[c].at = "retire"
  /\ tmpls' = [tmpls EXCEPT ![conn[c].tmpl].life = "retired"]
  /\ End(c) /\ UNCHANGED <<revs, page, rows>>

---------------------------------------------------------------------------
(* DeployLocked, as far as these calls need it (see PageVersions).         *)

Unusable == IF page.gated THEN "draft" ELSE "pending"

DeployLocked(doc, publish) ==
  LET hits == {v \in DOMAIN rows : rows[v].doc = doc /\ rows[v].status \notin {"rejected", Unusable}}
      id == IF hits = {} THEN Len(rows) + 1 ELSE CHOOSE v \in hits : \A w \in hits : w <= v
      status == IF page.gated THEN "pending" ELSE "draft"
      with == IF hits = {} THEN Append(rows, [doc |-> doc, status |-> status]) ELSE rows
      goes == publish /\ ~page.gated
  IN /\ Len(tmpls) + id <= MaxLibrary
     /\ rows' = IF goes THEN [with EXCEPT ![id].status = "approved"] ELSE with
     /\ page' = IF goes THEN [page EXCEPT !.pointer = id] ELSE page

Served == rows[page.pointer].doc

---------------------------------------------------------------------------
(* CreatePage: the template is read without a lock, the page is locked.    *)

LoadCurrent(c, data, publish) ==
  /\ conn[c] = Idle
  /\ \E t \in LiveTemplates :
        Go(c, [Idle EXCEPT !.at = "build", !.rev = tmpls[t].current, !.data = data, !.flag = publish])
  /\ UNCHANGED <<tmpls, revs, page, rows>>

Built(c) == [rev |-> conn[c].rev, design |-> revs[conn[c].rev].design, config |-> 0,
             data |-> conn[c].data, asOf |-> conn[c].data]

\* assertExistingPage: the same build arriving again, as the version served
\* or, with nothing published, as the newest one.
SameBuild_Any(doc) == \E v \in DOMAIN rows : rows[v].status # "rejected" /\ rows[v].doc = doc
SameBuild(doc) ==
  LET usable == {v \in DOMAIN rows : rows[v].status # "rejected"}
  IN \E v \in usable : /\ rows[v].doc = doc
                       /\ IF page.pointer # 0 THEN v = page.pointer ELSE \A w \in usable : w <= v

CreatePage(c) ==
  /\ conn[c].at = "build"
  /\ \/ /\ page.life = "none" /\ Len(tmpls) < MaxLibrary
        /\ \E gated \in BOOLEAN :
             LET goes == conn[c].flag /\ ~gated
                 status == IF goes THEN "approved" ELSE IF gated THEN "pending" ELSE "draft"
             IN /\ page' = [life |-> "live", gated |-> gated, pointer |-> IF goes THEN 1 ELSE 0]
                /\ rows' = <<[doc |-> Built(c), status |-> status]>>
     \/ MayLockPage /\ SameBuild(Built(c)) /\ DeployLocked(Built(c), conn[c].flag)
     \/ MayLockPage /\ ~SameBuild(Built(c)) /\ UNCHANGED <<page, rows>>   \* 409 page_exists
  /\ End(c) /\ UNCHANGED <<tmpls, revs>>

---------------------------------------------------------------------------
(* RerenderPage: the page is locked, then the target revision is read.     *)
(* The caller may replace the page's config, or its data with their        *)
(* coverage, if it names the version the page serves.                      *)

Keep == -1   \* not given: the page keeps its own
Given(x, own) == IF x = Keep THEN own ELSE x

LockAndLoad(c, publish, expected, config, data) ==
  /\ conn[c] = Idle
  /\ config # Keep \/ data # Keep => expected # 0
  /\ MayLockPage /\ page.pointer # 0
  /\ expected \in {0, page.pointer}
  /\ data # Keep => \A v \in DOMAIN rows : rows[v].status # "rejected" => rows[v].doc.asOf <= data
  /\ \E t \in LiveTemplates : \E i \in Revisions(t) :
       /\ i # Served.rev
       /\ Go(c, [Idle EXCEPT !.at = "rerender", !.rev = i, !.flag = publish, !.config = Given(config, Served.config),
                             !.data = Given(data, Served.data)])
  /\ UNCHANGED <<tmpls, revs, page, rows>>

Moved(c) == [rev |-> conn[c].rev, design |-> revs[conn[c].rev].design, config |-> conn[c].config,
             data |-> conn[c].data, asOf |-> conn[c].data]

RerenderPage(c) ==
  /\ conn[c].at = "rerender"
  /\ DeployLocked(Moved(c), conn[c].flag)
  /\ End(c) /\ UNCHANGED <<tmpls, revs>>

---------------------------------------------------------------------------
(* The page's other mutations (see PageVersions).                          *)

\* Each keeps the version's template binding, but for a hand edit.
EditPage(c) ==
  /\ conn[c] = Idle /\ MayLockPage /\ page.pointer # 0
  /\ \E publish \in BOOLEAN :
       \/ DeployLocked([Served EXCEPT !.data = 1, !.asOf = 1], publish)
       \/ DeployLocked([Served EXCEPT !.config = 1], publish)
       \/ DeployLocked([Served EXCEPT !.rev = 0, !.design = HandMade], publish)
  /\ UNCHANGED <<tmpls, revs, conn>>

MovePointer(c, v) ==
  /\ conn[c] = Idle /\ MayLockPage
  /\ rows[v].status # "rejected"
  /\ page' = [page EXCEPT !.pointer = v]
  /\ rows' = [rows EXCEPT ![v].status = "approved"]
  /\ UNCHANGED <<tmpls, revs, conn>>

Reject(c, v) ==
  /\ conn[c] = Idle /\ MayLockPage
  /\ rows[v].status = "pending"
  /\ rows' = [rows EXCEPT ![v].status = "rejected"]
  /\ UNCHANGED <<tmpls, revs, page, conn>>

SetApproval(c) ==
  /\ conn[c] = Idle /\ MayLockPage
  /\ page' = [page EXCEPT !.gated = ~@]
  /\ UNCHANGED <<tmpls, revs, rows, conn>>

DeletePage(c) ==
  /\ conn[c] = Idle /\ MayLockPage
  /\ page' = [page EXCEPT !.life = "deleted", !.pointer = 0]
  /\ UNCHANGED <<tmpls, revs, rows, conn>>

RestorePage(c) ==
  /\ conn[c] = Idle /\ page.life = "deleted"
  /\ page' = [page EXCEPT !.life = "live"]
  /\ UNCHANGED <<tmpls, revs, rows, conn>>

---------------------------------------------------------------------------
TemplatesInit ==
  /\ tmpls = <<>> /\ revs = <<>> /\ rows = <<>>
  /\ page = [life |-> "none", gated |-> FALSE, pointer |-> 0]
  /\ conn = [c \in Conns |-> Idle]

TemplatesNext ==
  \E c \in Conns :
    \/ \E design \in Designs : LookTemplate(c, design)
    \/ InsertTemplate(c) \/ RelockTemplate(c) \/ ReadNewest(c) \/ WriteRevision(c) \/ AbortRegister(c)
    \/ \E force \in BOOLEAN : CountPages(c, force)
    \/ Remove(c)
    \/ \E data \in {0, 1}, publish \in BOOLEAN : LoadCurrent(c, data, publish)
    \/ CreatePage(c)
    \/ \E publish \in BOOLEAN, expected \in 0..Len(rows), config, data \in {Keep, 0, 1} :
         LockAndLoad(c, publish, expected, config, data)
    \/ RerenderPage(c) \/ EditPage(c)
    \/ \E v \in DOMAIN rows : MovePointer(c, v) \/ Reject(c, v)
    \/ SetApproval(c) \/ DeletePage(c) \/ RestorePage(c)

TemplatesSpec == TemplatesInit /\ [][TemplatesNext]_templateVars

---------------------------------------------------------------------------
(* Properties.                                                             *)

\* RegisterWithTx: a revision that is registered is the one the next page is
\* built from, the highest of a template that is still in the library, however
\* registrations and retirements of the name interleave.
RegisteredIsCurrent ==
  [][\A i \in DOMAIN revs' \ DOMAIN revs :
       LET t == revs'[i].tmpl
       IN /\ tmpls'[t].life = "live" /\ tmpls'[t].current = i
          /\ \A j \in Revisions(t) : revs[j].n < revs'[i].n
          /\ \A u \in DOMAIN tmpls' \ {t} : tmpls'[u].life = "retired"]_templateVars

\* assertExistingPage: a create_page_from_template that arrives again shows
\* what the page already showed; on a page that shows nothing it may publish
\* its newest version alone.
RetryNeverReverts ==
  [][\A c \in Conns :
       (conn[c].at = "build" /\ conn'[c] = Idle /\ page.life = "live" /\ page'.pointer # page.pointer) =>
         LET usable == {v \in DOMAIN rows : rows[v].status # "rejected"}
             newest == CHOOSE v \in usable : \A w \in usable : w <= v
         IN rows'[page'.pointer].doc = rows[IF page.pointer # 0 THEN page.pointer ELSE newest].doc]_templateVars
=============================================================================
