----------------------------- MODULE Workspaces -----------------------------
(***************************************************************************)
(* Workspaces (internal/workspaces): one-level folders that pages are      *)
(* assigned to, renamed and removed, with an audit trail per page.  Calls  *)
(* of several connections interleave at their row locks.                   *)
(***************************************************************************)
EXTENDS Integers, FiniteSets

CONSTANTS Callers,                \* connections
          Folders,                \* ids of workspaces, each used once
          Names,                  \* names, case folded
          MaxPages                \* bound: rows of pages, of one slug

VARIABLES
  folders,  \* workspaces
  pages,    \* the rows of pages, by id
  trail,    \* what a page's audit entries, read in order, say of it
  caller    \* per connection: the call it is in

workspaceVars == <<folders, pages, trail, caller>>

Ungrouped == 0
PageRows == 1..MaxPages
Refs == Folders \cup {Ungrouped}
Idle == [at |-> "idle", folder |-> Ungrouped, locked |-> {}]

WorkspacesTypeOK ==
  /\ folders \in [Folders -> [life : {"none", "live", "gone"}, name : Names]]
  /\ pages \in [PageRows -> [life : {"none", "live", "deleted"}, folder : Refs]]
  /\ trail \in [PageRows -> [folder : Refs, whole : BOOLEAN]]
  /\ caller \in [Callers -> [at : {"idle", "assign", "create", "detach", "drop"}, folder : Refs, locked : SUBSET PageRows]]

---------------------------------------------------------------------------
(* Locks: FOR UPDATE of one row excludes any other lock of it, FOR KEY     *)
(* SHARE only FOR UPDATE.  A statement waits for the lock it needs.        *)

Removing_Unlocked(w) == FALSE
Removing(w) == \E c \in Callers : caller[c].at \in {"detach", "drop"} /\ caller[c].folder = w
Sharing(w) == \E c \in Callers : caller[c].at \in {"assign", "create"} /\ caller[c].folder = w
PageLocked(p) == \E c \in Callers : p \in caller[c].locked

MayShare(w) == w # Ungrouped => folders[w].life = "live" /\ ~Removing(w)
MayLock(w) == folders[w].life = "live" /\ ~Removing(w) /\ ~Sharing(w)

LivePage == {p \in PageRows : pages[p].life = "live"}
Members(w) == {p \in PageRows : pages[p].folder = w /\ pages[p].life # "none"}

Go(c, call) == caller' = [caller EXCEPT ![c] = call]
End(c) == Go(c, Idle)

\* An audit entry set_workspace of each page of P: from what it was to w.
Audit(P, from, w) ==
  trail' = [p \in PageRows |->
              IF p \in P THEN [folder |-> w, whole |-> trail[p].whole /\ from = trail[p].folder] ELSE trail[p]]

---------------------------------------------------------------------------
\* lower(name) is unique: a name in use is 409 workspace_exists.
Free(name, w) == \A v \in Folders \ {w} : folders[v].life = "live" => folders[v].name # name

Create(w, name) ==
  /\ folders[w].life = "none" /\ Free(name, w)
  /\ \A v \in Folders : v < w => folders[v].life # "none"
  /\ folders' = [folders EXCEPT ![w] = [life |-> "live", name |-> name]]
  /\ UNCHANGED <<pages, trail, caller>>

Rename(w, name) ==
  /\ MayLock(w) /\ folders[w].name # name /\ Free(name, w)
  /\ folders' = [folders EXCEPT ![w].name = name]
  /\ UNCHANGED <<pages, trail, caller>>

\* Remove locks the workspace, detaches the pages that are in it by then,
\* deleted pages too, waiting for each that is locked, and deletes the row.
LockForRemoval(c, w) ==
  /\ caller[c] = Idle /\ MayLock(w)
  /\ Go(c, [Idle EXCEPT !.at = "detach", !.folder = w])
  /\ UNCHANGED <<folders, pages, trail>>

Detach(c) ==
  LET w == caller[c].folder
  IN /\ caller[c].at = "detach"
     /\ \A p \in Members(w) : ~PageLocked(p)
     /\ pages' = [p \in PageRows |-> IF p \in Members(w) THEN [pages[p] EXCEPT !.folder = Ungrouped] ELSE pages[p]]
     /\ Audit(Members(w), w, Ungrouped)
     /\ Go(c, [caller[c] EXCEPT !.at = "drop", !.locked = Members(w)])
     /\ UNCHANGED folders

\* ON DELETE SET NULL would ungroup what is still in it, with no audit entry.
Drop(c) ==
  LET w == caller[c].folder
  IN /\ caller[c].at = "drop" /\ ~Sharing(w)
     /\ folders' = [folders EXCEPT ![w].life = "gone"]
     /\ pages' = [p \in PageRows |-> IF p \in Members(w) THEN [pages[p] EXCEPT !.folder = Ungrouped] ELSE pages[p]]
     /\ End(c) /\ UNCHANGED trail

---------------------------------------------------------------------------
(* AssignPage: the workspace is locked, then the page.                     *)

StartAssign(c, w) ==
  /\ caller[c] = Idle /\ MayShare(w)
  /\ Go(c, [Idle EXCEPT !.at = "assign", !.folder = w])
  /\ UNCHANGED <<folders, pages, trail>>

LockPage(c) ==
  /\ caller[c].at = "assign" /\ caller[c].locked = {}
  /\ \/ \E p \in LivePage : ~PageLocked(p) /\ Go(c, [caller[c] EXCEPT !.locked = {p}])
     \/ LivePage = {} /\ End(c)
  /\ UNCHANGED <<folders, pages, trail>>

AssignPage(c) ==
  LET w == caller[c].folder
  IN /\ caller[c].at = "assign"
     /\ \E p \in caller[c].locked :
          IF pages[p].folder = w THEN UNCHANGED <<pages, trail>>
          ELSE pages' = [pages EXCEPT ![p].folder = w] /\ Audit({p}, pages[p].folder, w)
     /\ End(c) /\ UNCHANGED folders

---------------------------------------------------------------------------
(* The pages: created in a workspace, deleted and restored.                *)

StartCreatePage(c, w) ==
  /\ caller[c] = Idle /\ MayShare(w)
  /\ Go(c, [Idle EXCEPT !.at = "create", !.folder = w])
  /\ UNCHANGED <<folders, pages, trail>>

CreatePage(c) ==
  /\ caller[c].at = "create"
  /\ \/ \E p \in PageRows :
          /\ LivePage = {} /\ pages[p].life = "none" /\ \A q \in PageRows : q < p => pages[q].life # "none"
          /\ pages' = [pages EXCEPT ![p] = [life |-> "live", folder |-> caller[c].folder]]
          /\ trail' = [trail EXCEPT ![p].folder = caller[c].folder]
     \/ LivePage # {} /\ UNCHANGED <<pages, trail>>   \* 409 slug_exists
  /\ End(c) /\ UNCHANGED folders

DeletePage(p) ==
  /\ p \in LivePage /\ ~PageLocked(p)
  /\ pages' = [pages EXCEPT ![p].life = "deleted"]
  /\ UNCHANGED <<folders, trail, caller>>

RestorePage(p) ==
  /\ pages[p].life = "deleted" /\ LivePage = {} /\ ~PageLocked(p)
  /\ pages' = [pages EXCEPT ![p].life = "live"]
  /\ UNCHANGED <<folders, trail, caller>>

\* A statement that times out or fails rolls its call back.
Abort(c) ==
  /\ caller[c].at \in {"assign", "create", "detach"}
  /\ End(c) /\ UNCHANGED <<folders, pages, trail>>

---------------------------------------------------------------------------
WorkspacesInit ==
  /\ folders = [w \in Folders |-> [life |-> "none", name |-> CHOOSE n \in Names : TRUE]]
  /\ pages = [p \in PageRows |-> [life |-> "none", folder |-> Ungrouped]]
  /\ trail = [p \in PageRows |-> [folder |-> Ungrouped, whole |-> TRUE]]
  /\ caller = [c \in Callers |-> Idle]

WorkspacesNext ==
  \/ \E w \in Folders, name \in Names : Create(w, name) \/ Rename(w, name)
  \/ \E c \in Callers, w \in Folders : LockForRemoval(c, w)
  \/ \E c \in Callers : Detach(c) \/ Drop(c) \/ LockPage(c) \/ AssignPage(c) \/ CreatePage(c) \/ Abort(c)
  \/ \E c \in Callers, w \in Refs : StartAssign(c, w) \/ StartCreatePage(c, w)
  \/ \E p \in PageRows : DeletePage(p) \/ RestorePage(p)

WorkspacesSpec == WorkspacesInit /\ [][WorkspacesNext]_workspaceVars

---------------------------------------------------------------------------
(* Properties.                                                             *)

\* What the audit entries of a page say, read in order, is where it is, and
\* that is a workspace that exists, however assignments, creations and
\* removals interleave: the foreign key never ungroups a page silently.
MembershipAudited ==
  /\ \A p \in PageRows :
       /\ trail[p].whole
       /\ pages[p].folder # Ungrouped => folders[pages[p].folder].life = "live"
       /\ trail[p].folder = pages[p].folder
=============================================================================
