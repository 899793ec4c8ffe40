---------------------------- MODULE EstateProofs ----------------------------
(***************************************************************************)
(* What holds of the parts of the estate for every number of connections,  *)
(* rows and processes: Workspaces, Migrations, Backups and Grants.  Each   *)
(* part has its own variables, its own inductive invariant and its own     *)
(* theorem.                                                                *)
(***************************************************************************)
EXTENDS Estate, FiniteSetTheorems, TLAPS

---------------------------------------------------------------------------
(* Workspaces.  A caller that shares a workspace keeps it from being       *)
(* removed, a caller that removes one keeps everybody from joining it;     *)
(* between the two there is no page left in it to lose.                    *)

\* workspaces.id is a sequence that starts at 1, and a name is never empty.
WorkspaceIds == W!Ungrouped \notin Folders /\ Names # {}

\* A workspace that is shared is live and not being removed; one that is being
\* removed is live, and removed by one caller.
SharesHold ==
  \A c \in Conns :
    /\ caller[c].at \in {"assign", "create"} /\ caller[c].folder # W!Ungrouped =>
         folders[caller[c].folder].life = "live" /\ ~W!Removing(caller[c].folder)
    /\ caller[c].at \in {"detach", "drop"} =>
         /\ caller[c].folder \in Folders
         /\ folders[caller[c].folder].life = "live"
         /\ \A d \in Conns : caller[d].at \in {"detach", "drop"}
                               /\ caller[d].folder = caller[c].folder => d = c

\* A row that is not there has no workspace, and nobody locks it.
NoRows ==
  /\ \A p \in W!PageRows : wpages[p].life = "none" => wpages[p].folder = W!Ungrouped
  /\ \A c \in Conns : \A p \in caller[c].locked : wpages[p].life # "none"

\* When the row of a workspace is deleted there is no page in it.
Emptied == \A c \in Conns : caller[c].at = "drop" => W!Members(caller[c].folder) = {}

WInv == W!WorkspacesTypeOK /\ SharesHold /\ NoRows /\ Emptied /\ W!MembershipAudited

LEMMA WorkspacesStart == ASSUME WorkspaceIds PROVE W!WorkspacesInit => WInv
<1> SUFFICES ASSUME W!WorkspacesInit PROVE WInv
  OBVIOUS
<1> USE DEF W!WorkspacesInit, W!Idle, W!Ungrouped, W!Refs
<1>1. W!WorkspacesTypeOK
  BY DEF W!WorkspacesTypeOK, WorkspaceIds
<1>2. SharesHold /\ Emptied
  BY DEF SharesHold, Emptied
<1>3. NoRows /\ W!MembershipAudited
  BY DEF NoRows, W!MembershipAudited
<1> QED
  BY <1>1, <1>2, <1>3 DEF WInv

LEMMA FoldersSteps ==
  ASSUME WorkspaceIds, WInv, NEW w \in Folders, NEW name \in Names,
         W!Create(w, name) \/ W!Rename(w, name)
  PROVE  WInv'
<1> USE DEF WInv, W!WorkspacesTypeOK
<1>1. /\ folders' \in [Folders -> [life : {"none", "live", "gone"}, name : Names]]
      /\ \A v \in Folders : folders[v].life = "live" => folders'[v].life = "live"
      /\ UNCHANGED <<wpages, trail, caller>>
  <2>1. CASE W!Create(w, name)
    BY <2>1 DEF W!Create
  <2>2. CASE W!Rename(w, name)
    BY <2>2 DEF W!Rename
  <2> QED
    BY <2>1, <2>2
<1>2. W!WorkspacesTypeOK'
  BY <1>1 DEF WInv, W!WorkspacesTypeOK
<1>3. SharesHold'
  BY <1>1 DEF WInv, SharesHold, W!WorkspacesTypeOK, W!Removing, W!Refs
<1>4. NoRows' /\ Emptied'
  BY <1>1 DEF WInv, NoRows, Emptied, W!Members
<1>5. W!MembershipAudited'
  BY <1>1 DEF WInv, W!MembershipAudited, W!WorkspacesTypeOK, W!Refs
<1> QED
  BY <1>2, <1>3, <1>4, <1>5 DEF WInv

LEMMA LocksSteps ==
  ASSUME WorkspaceIds, WInv, NEW c \in Conns,
         \/ \E w \in Folders : W!LockForRemoval(c, w)
         \/ \E w \in W!Refs : W!StartAssign(c, w) \/ W!StartCreatePage(c, w)
         \/ W!LockPage(c) \/ W!Abort(c)
  PROVE  WInv'
<1>1. UNCHANGED <<folders, wpages, trail>>
  BY DEF W!LockForRemoval, W!StartAssign, W!StartCreatePage, W!LockPage, W!Abort
<1> DEFINE Calls == [at : {"idle", "assign", "create", "detach"}, folder : W!Refs, locked : SUBSET W!PageRows]
           Sound(call) ==
             /\ caller' = [caller EXCEPT ![c] = call]
             /\ \A p \in call.locked : wpages[p].life # "none"
             /\ call.at \in {"assign", "create"} /\ call.folder # W!Ungrouped =>
                  folders[call.folder].life = "live" /\ ~W!Removing(call.folder)
             /\ call.at = "detach" => call.folder \in Folders /\ W!MayLock(call.folder)
<1>2. PICK call \in Calls : Sound(call)
  <2>1. ASSUME NEW w \in Folders, W!LockForRemoval(c, w) PROVE \E call \in Calls : Sound(call)
    <3> DEFINE call == [W!Idle EXCEPT !.at = "detach", !.folder = w]
    <3>1. call \in Calls /\ call.at = "detach" /\ call.folder = w /\ call.locked = {}
      BY DEF W!Idle, W!Refs
    <3>2. W!Go(c, call) /\ W!MayLock(w)
      BY <2>1 DEF W!LockForRemoval
    <3> HIDE DEF call
    <3>3. Sound(call)
      BY <3>1, <3>2 DEF W!Go, W!MayShare
    <3> QED
      BY <3>1, <3>3
  <2>2. ASSUME NEW w \in W!Refs, W!StartAssign(c, w) PROVE \E call \in Calls : Sound(call)
    <3> DEFINE call == [W!Idle EXCEPT !.at = "assign", !.folder = w]
    <3>1. call \in Calls /\ call.at = "assign" /\ call.folder = w /\ call.locked = {}
      BY DEF W!Idle, W!Refs
    <3>2. W!Go(c, call) /\ W!MayShare(w)
      BY <2>2 DEF W!StartAssign
    <3> HIDE DEF call
    <3>3. Sound(call)
      BY <3>1, <3>2 DEF W!Go, W!MayShare
    <3> QED
      BY <3>1, <3>3
  <2>3. ASSUME NEW w \in W!Refs, W!StartCreatePage(c, w) PROVE \E call \in Calls : Sound(call)
    <3> DEFINE call == [W!Idle EXCEPT !.at = "create", !.folder = w]
    <3>1. call \in Calls /\ call.at = "create" /\ call.folder = w /\ call.locked = {}
      BY DEF W!Idle, W!Refs
    <3>2. W!Go(c, call) /\ W!MayShare(w)
      BY <2>3 DEF W!StartCreatePage
    <3> HIDE DEF call
    <3>3. Sound(call)
      BY <3>1, <3>2 DEF W!Go, W!MayShare
    <3> QED
      BY <3>1, <3>3
  <2>4. ASSUME W!End(c) PROVE \E call \in Calls : Sound(call)
    <3>1. W!Idle \in Calls /\ Sound(W!Idle)
      BY <2>4 DEF W!End, W!Go, W!Idle, W!Refs
    <3> QED
      BY <3>1
  <2>5. ASSUME NEW p \in W!LivePage, caller[c].at = "assign",
               W!Go(c, [caller[c] EXCEPT !.locked = {p}])
        PROVE  \E call \in Calls : Sound(call)
    <3> DEFINE call == [at |-> "assign", folder |-> caller[c].folder, locked |-> {p}]
    <3> DEFINE All == {"idle", "assign", "create", "detach", "drop"}
    <3>0. caller[c] \in [at : All, folder : W!Refs, locked : SUBSET W!PageRows]
      BY DEF WInv, W!WorkspacesTypeOK
    <3> HIDE DEF All
    <3>1. call = [caller[c] EXCEPT !.locked = {p}]
      BY <2>5, <3>0
    <3>2. call \in Calls
      BY <2>5 DEF WInv, W!WorkspacesTypeOK, W!LivePage
    <3>3. Sound(call)
      BY <2>5, <3>1 DEF WInv, SharesHold, W!Go, W!LivePage
    <3> QED
      BY <3>2, <3>3
  <2> QED
    BY <2>1, <2>2, <2>3, <2>4, <2>5 DEF W!LockPage, W!Abort
<1>3. \A d \in Conns : caller'[d] = IF d = c THEN call ELSE caller[d]
  BY <1>2 DEF WInv, W!WorkspacesTypeOK
<1>4. W!WorkspacesTypeOK'
  BY <1>1, <1>2 DEF WInv, W!WorkspacesTypeOK
<1>5. NoRows' /\ Emptied' /\ W!MembershipAudited'
  BY <1>1, <1>2, <1>3 DEF WInv, NoRows, Emptied, W!MembershipAudited, W!Members
<1>6. SharesHold'
  <2>2. ASSUME NEW d \in Conns, caller'[d].at \in {"assign", "create"}, caller'[d].folder # W!Ungrouped
        PROVE  folders[caller'[d].folder].life = "live" /\ ~W!Removing(caller[d].folder)'
    <3>1. folders[caller'[d].folder].life = "live" /\ ~W!Removing(caller'[d].folder)
      BY <2>2, <1>2, <1>3 DEF WInv, SharesHold
    <3>2. ~(call.at = "detach" /\ call.folder = caller'[d].folder)
      BY <2>2, <1>2, <1>3 DEF W!MayLock, W!Sharing
    <3> QED
      BY <3>1, <3>2, <1>3 DEF W!Removing
  <2>1. ASSUME NEW d \in Conns, caller'[d].at \in {"detach", "drop"}
        PROVE  /\ caller'[d].folder \in Folders
               /\ folders[caller'[d].folder].life = "live"
               /\ \A e \in Conns : caller'[e].at \in {"detach", "drop"}
                               /\ caller'[e].folder = caller'[d].folder => e = d
    BY <2>1, <1>2, <1>3 DEF WInv, SharesHold, W!MayLock, W!Removing
  <2> QED
    BY <1>1, <2>2, <2>1 DEF SharesHold
<1> QED
  BY <1>4, <1>5, <1>6, SMTT(30) DEF WInv

\* A caller that ends its call, or goes on to drop what it has emptied.
LEMMA CallEnds ==
  ASSUME WInv, NEW c \in Conns,
         \/ W!End(c)
         \/ caller[c].at = "detach" /\ \E P \in SUBSET W!PageRows :
              caller' = [caller EXCEPT ![c] = [caller[c] EXCEPT !.at = "drop", !.locked = P]]
  PROVE  /\ caller' \in [Conns -> [at : {"idle", "assign", "create", "detach", "drop"},
                                     folder : W!Refs, locked : SUBSET W!PageRows]]
         /\ \A d \in Conns \ {c} : caller'[d] = caller[d]
         /\ \A d \in Conns : caller'[d].at \in {"detach", "drop"} =>
              caller[d].at \in {"detach", "drop"} /\ caller'[d].folder = caller[d].folder
         /\ caller'[c].at = "idle" => caller'[c].locked = {}
         /\ \A d \in Conns : caller'[d].at \in {"assign", "create"} => caller'[d] = caller[d]
<1> DEFINE Calls == [at : {"idle", "assign", "create", "detach", "drop"}, folder : W!Refs, locked : SUBSET W!PageRows]
<1>1. caller \in [Conns -> Calls]
  BY DEF WInv, W!WorkspacesTypeOK
<1>2. PICK call \in Calls :
        /\ caller' = [caller EXCEPT ![c] = call]
        /\ \/ call.at = "idle" /\ call.locked = {}
           \/ call.at = "drop" /\ caller[c].at = "detach" /\ call.folder = caller[c].folder
  <2>1. CASE W!End(c)
    <3>1. W!Idle \in Calls /\ W!Idle.at = "idle" /\ W!Idle.locked = {}
      BY DEF W!Idle, W!Refs
    <3> HIDE DEF Calls
    <3>2. caller' = [caller EXCEPT ![c] = W!Idle]
      BY <2>1 DEF W!End, W!Go
    <3> QED
      BY <3>1, <3>2
  <2>2. CASE caller[c].at = "detach" /\ \E P \in SUBSET W!PageRows :
               caller' = [caller EXCEPT ![c] = [caller[c] EXCEPT !.at = "drop", !.locked = P]]
    <3>1. PICK P \in SUBSET W!PageRows :
            caller' = [caller EXCEPT ![c] = [caller[c] EXCEPT !.at = "drop", !.locked = P]]
      BY <2>2
    <3> DEFINE call == [caller[c] EXCEPT !.at = "drop", !.locked = P]
    <3>2. caller[c] \in Calls
      BY <1>1
    <3>3. call \in Calls /\ call.at = "drop" /\ call.folder = caller[c].folder
      BY <3>2
    <3> HIDE DEF call
    <3>4. caller' = [caller EXCEPT ![c] = call]
      BY <3>1 DEF call
    <3> QED
      BY <2>2, <3>3, <3>4
  <2> QED
    BY <2>1, <2>2
<1>3. \A d \in Conns : caller'[d] = IF d = c THEN call ELSE caller[d]
  BY <1>1, <1>2
<1>4. caller' \in [Conns -> Calls]
  BY <1>1, <1>2
<1> HIDE DEF Calls
<1> QED
  BY <1>2, <1>3, <1>4 DEF Calls

LEMMA SharesEnd ==
  ASSUME WInv, NEW c \in Conns, UNCHANGED folders,
         \/ W!End(c)
         \/ caller[c].at = "detach" /\ \E P \in SUBSET W!PageRows :
              caller' = [caller EXCEPT ![c] = [caller[c] EXCEPT !.at = "drop", !.locked = P]]
  PROVE  SharesHold'
<1>1. ASSUME NEW d \in Conns, caller'[d].at \in {"assign", "create"}, caller'[d].folder # W!Ungrouped
      PROVE  folders[caller'[d].folder].life = "live" /\ ~W!Removing(caller[d].folder)'
  <2>1. caller'[d] = caller[d]
    BY <1>1, CallEnds
  <2>2. folders[caller[d].folder].life = "live" /\ ~W!Removing(caller[d].folder)
    BY <1>1, <2>1 DEF WInv, SharesHold
  <2>3. ~\E e \in Conns : caller'[e].at \in {"detach", "drop"} /\ caller'[e].folder = caller[d].folder
    BY <2>2, CallEnds DEF W!Removing
  <2> QED
    BY <2>1, <2>2, <2>3 DEF W!Removing
<1>2. ASSUME NEW d \in Conns, caller'[d].at \in {"detach", "drop"}
      PROVE  /\ caller'[d].folder \in Folders
             /\ folders[caller'[d].folder].life = "live"
             /\ \A e \in Conns : caller'[e].at \in {"detach", "drop"}
                             /\ caller'[e].folder = caller'[d].folder => e = d
  BY <1>2, CallEnds, ZenonT(120) DEF WInv, SharesHold
<1> QED
  BY <1>1, <1>2 DEF SharesHold

LEMMA DetachStep ==
  ASSUME WorkspaceIds, WInv, NEW c \in Conns, W!Detach(c)
  PROVE  WInv'
<1> DEFINE w == caller[c].folder
           Out == W!Members(w)
<1>1. /\ caller[c].at = "detach" /\ UNCHANGED folders
      /\ wpages' = [p \in W!PageRows |-> IF p \in Out THEN [wpages[p] EXCEPT !.folder = W!Ungrouped] ELSE wpages[p]]
      /\ W!Audit(Out, w, W!Ungrouped)
      /\ caller' = [caller EXCEPT ![c] = [caller[c] EXCEPT !.at = "drop", !.locked = Out]]
  BY DEF W!Detach, W!Go
<1>2. Out \in SUBSET W!PageRows /\ w \in Folders /\ w # W!Ungrouped
  BY <1>1 DEF W!Members, WInv, SharesHold, WorkspaceIds
<1>3. /\ \A d \in Conns : caller'[d] = IF d = c THEN [caller[c] EXCEPT !.at = "drop", !.locked = Out] ELSE caller[d]
      /\ caller[c] \in [at : {"idle", "assign", "create", "detach", "drop"},
                                     folder : W!Refs, locked : SUBSET W!PageRows]
  BY <1>1 DEF WInv, W!WorkspacesTypeOK
<1>4. /\ caller'[c].at = "drop" /\ caller'[c].folder = w /\ caller'[c].locked = Out
      /\ \A d \in Conns \ {c} : caller'[d] = caller[d]
  BY <1>3
<1> HIDE DEF Out, w
<1>5. \A p \in W!PageRows :
        /\ wpages'[p].life = wpages[p].life
        /\ wpages'[p].folder = IF p \in Out THEN W!Ungrouped ELSE wpages[p].folder
  BY <1>1 DEF WInv, W!WorkspacesTypeOK
<1>6. \A p \in W!PageRows : p \in Out <=> wpages[p].folder = w /\ wpages[p].life # "none"
  BY DEF Out, W!Members
<1>7. W!WorkspacesTypeOK'
  <2>1. wpages' \in [W!PageRows -> [life : {"none", "live", "deleted"}, folder : W!Refs]]
    BY <1>1 DEF WInv, W!WorkspacesTypeOK, W!Refs
  <2>2. trail' \in [W!PageRows -> [folder : W!Refs, whole : BOOLEAN]]
    BY <1>1 DEF WInv, W!WorkspacesTypeOK, W!Refs, W!Audit
  <2> QED
    BY <2>1, <2>2, <1>1, <1>2, CallEnds DEF WInv, W!WorkspacesTypeOK
<1>8. SharesHold'
  BY <1>1, <1>2, SharesEnd
<1>9. NoRows'
  <2>1. \A p \in W!PageRows : wpages'[p].life = "none" => wpages'[p].folder = W!Ungrouped
    BY <1>5 DEF WInv, NoRows
  <2>2. ASSUME NEW d \in Conns, NEW p \in caller'[d].locked PROVE wpages'[p].life # "none"
    <3>1. CASE d = c
      BY <3>1, <2>2, <1>2, <1>4, <1>5, <1>6
    <3>2. CASE d # c
      <4>1. p \in caller[d].locked /\ p \in W!PageRows
        BY <3>2, <2>2, <1>4 DEF WInv, W!WorkspacesTypeOK
      <4> QED
        BY <4>1, <1>5 DEF WInv, NoRows
    <3> QED
      BY <3>1, <3>2
  <2> QED
    BY <2>1, <2>2 DEF NoRows
<1>11. Emptied'
  <2>1. ASSUME NEW d \in Conns, caller'[d].at = "drop", NEW p \in W!PageRows,
               wpages'[p].folder = caller'[d].folder, wpages'[p].life # "none"
        PROVE  FALSE
    <3>1. CASE d = c
      BY <3>1, <2>1, <1>2, <1>4, <1>5, <1>6
    <3>2. CASE d # c
      BY <3>2, <2>1, <1>2, <1>4, <1>5 DEF WInv, Emptied, W!Members, SharesHold, WorkspaceIds
    <3> QED
      BY <3>1, <3>2
  <2> QED
    BY <2>1 DEF Emptied, W!Members
<1>10. W!MembershipAudited'
  BY <1>1, <1>5, <1>6 DEF WInv, W!MembershipAudited, W!Audit, W!WorkspacesTypeOK
<1> QED
  BY <1>7, <1>8, <1>9, <1>10, <1>11 DEF WInv

LEMMA NoRowsEnd ==
  ASSUME WInv, NEW c \in Conns, W!End(c),
         \A p \in W!PageRows : /\ wpages'[p].life = "none" => wpages'[p].folder = W!Ungrouped
                               /\ wpages[p].life # "none" => wpages'[p].life # "none"
  PROVE  /\ NoRows'
         /\ caller'[c].at = "idle"
         /\ \A d \in Conns : caller'[d].at = "drop" => caller'[d] = caller[d]
<1>1. caller'[c].at = "idle" /\ caller'[c].locked = {}
  BY DEF W!End, W!Go, W!Idle, WInv, W!WorkspacesTypeOK
<1>2. \A d \in Conns \ {c} : caller'[d] = caller[d]
  BY CallEnds
<1>3. ASSUME NEW d \in Conns, NEW p \in caller'[d].locked PROVE wpages'[p].life # "none"
  <2>1. d # c /\ p \in caller[d].locked
    BY <1>1, <1>2, <1>3
  <2>2. p \in W!PageRows /\ wpages[p].life # "none"
    BY <2>1 DEF WInv, NoRows, W!WorkspacesTypeOK
  <2> QED
    BY <2>2
<1> QED
  BY <1>1, <1>2, <1>3 DEF NoRows

\* ON DELETE SET NULL finds nothing to ungroup.
LEMMA DropStep ==
  ASSUME WorkspaceIds, WInv, NEW c \in Conns, W!Drop(c)
  PROVE  WInv'
<1> DEFINE w == caller[c].folder
<1>1. /\ caller[c].at = "drop" /\ folders' = [folders EXCEPT ![w].life = "gone"]
      /\ wpages' = [p \in W!PageRows |-> IF p \in W!Members(w) THEN [wpages[p] EXCEPT !.folder = W!Ungrouped] ELSE wpages[p]]
      /\ W!End(c) /\ UNCHANGED trail
  BY DEF W!Drop
<1>2. w \in Folders /\ w # W!Ungrouped /\ W!Members(w) = {}
  BY <1>1 DEF WInv, SharesHold, Emptied, WorkspaceIds
<1>3. wpages' = wpages
  BY <1>1, <1>2 DEF WInv, W!WorkspacesTypeOK
<1>4. /\ folders' \in [Folders -> [life : {"none", "live", "gone"}, name : Names]]
      /\ \A v \in Folders : v # w => folders'[v] = folders[v]
  BY <1>1, <1>2 DEF WInv, W!WorkspacesTypeOK
<1>5. W!WorkspacesTypeOK'
  BY <1>1, <1>3, <1>4, CallEnds DEF WInv, W!WorkspacesTypeOK
<1>6. SharesHold'
  <2>1. ASSUME NEW d \in Conns, caller'[d].at \in {"assign", "create"}, caller'[d].folder # W!Ungrouped
        PROVE  folders'[caller'[d].folder].life = "live" /\ ~W!Removing(caller[d].folder)'
    <3>1. caller'[d] = caller[d]
      BY <2>1, <1>1, CallEnds
    <3>2. folders[caller[d].folder].life = "live" /\ ~W!Removing(caller[d].folder)
      BY <2>1, <3>1 DEF WInv, SharesHold
    <3>3. ~\E e \in Conns : caller'[e].at \in {"detach", "drop"} /\ caller'[e].folder = caller[d].folder
      BY <3>2, <1>1, CallEnds DEF W!Removing
    <3>4. caller[d].folder # w /\ caller[d].folder \in Folders
      BY <2>1, <3>1, <3>2, <1>1 DEF W!Removing, WInv, W!WorkspacesTypeOK, W!Refs
    <3> QED
      BY <3>1, <3>2, <3>3, <3>4, <1>4 DEF W!Removing
  <2>2. ASSUME NEW d \in Conns, caller'[d].at \in {"detach", "drop"}
        PROVE  /\ caller'[d].folder \in Folders
               /\ folders'[caller'[d].folder].life = "live"
               /\ \A e \in Conns : caller'[e].at \in {"detach", "drop"}
                               /\ caller'[e].folder = caller'[d].folder => e = d
    <3>1. /\ caller[d].at \in {"detach", "drop"} /\ caller'[d].folder = caller[d].folder
          /\ \A e \in Conns : caller'[e].at \in {"detach", "drop"} =>
                caller[e].at \in {"detach", "drop"} /\ caller'[e].folder = caller[e].folder
      BY <2>2, <1>1, CallEnds
    <3>2. caller'[c].at = "idle"
      BY <1>1 DEF W!End, W!Go, W!Idle, WInv, W!WorkspacesTypeOK
    <3>3. d # c
      BY <2>2, <3>2
    <3> QED
      BY <3>1, <3>3, <1>1, <1>4 DEF WInv, SharesHold
  <2> QED
    BY <2>1, <2>2 DEF SharesHold
<1>7. \A p \in W!PageRows : wpages'[p] = wpages[p] /\ (wpages[p].life = "none" => wpages[p].folder = W!Ungrouped)
  BY <1>3 DEF WInv, NoRows
<1>8. NoRows' /\ Emptied'
  <2>1. NoRows' /\ \A d \in Conns : caller'[d].at = "drop" => caller'[d] = caller[d]
    BY <1>1, <1>7, NoRowsEnd
  <2> QED
    BY <1>3, <2>1 DEF WInv, Emptied, W!Members
<1>9. W!MembershipAudited'
  <2>1. \A p \in W!PageRows : wpages[p].folder # w
    BY <1>2 DEF WInv, NoRows, W!Members
  <2> QED
    BY <2>1, <1>1, <1>3, <1>4 DEF WInv, W!MembershipAudited, W!WorkspacesTypeOK, W!Refs
<1> QED
  BY <1>5, <1>6, <1>8, <1>9 DEF WInv

\* A page joins a workspace that cannot go before the call has ended.
LEMMA JoinStep ==
  ASSUME WorkspaceIds, WInv, NEW c \in Conns, W!AssignPage(c) \/ W!CreatePage(c)
  PROVE  WInv'
<1> DEFINE w == caller[c].folder
<1>1. W!End(c) /\ UNCHANGED folders /\ caller[c].at \in {"assign", "create"}
  BY DEF W!AssignPage, W!CreatePage
<1>2. /\ w \in W!Refs
      /\ w # W!Ungrouped => folders[w].life = "live" /\ ~W!Removing(w)
  BY <1>1 DEF WInv, SharesHold, W!WorkspacesTypeOK
<1> HIDE DEF w
<1>3. \/ UNCHANGED <<wpages, trail>>
      \/ \E p \in W!PageRows :
           /\ wpages' \in [W!PageRows -> [life : {"none", "live", "deleted"}, folder : W!Refs]]
           /\ wpages'[p].folder = w /\ wpages'[p].life # "none"
           /\ \A q \in W!PageRows \ {p} : wpages'[q] = wpages[q]
           /\ trail' \in [W!PageRows -> [folder : W!Refs, whole : BOOLEAN]]
           /\ trail'[p].folder = w /\ trail'[p].whole
           /\ \A q \in W!PageRows \ {p} : trail'[q] = trail[q]
  <2>1. CASE W!AssignPage(c)
    <3>1. PICK p \in caller[c].locked :
            IF wpages[p].folder = w THEN UNCHANGED <<wpages, trail>>
            ELSE wpages' = [wpages EXCEPT ![p].folder = w] /\ W!Audit({p}, wpages[p].folder, w)
      BY <2>1 DEF W!AssignPage, w
    <3>2. p \in W!PageRows /\ wpages[p].life # "none"
      BY DEF WInv, NoRows, W!WorkspacesTypeOK
    <3>3. CASE wpages[p].folder # w
      <4>1. wpages' = [wpages EXCEPT ![p].folder = w] /\ W!Audit({p}, wpages[p].folder, w)
        BY <3>1, <3>3
      <4>2. /\ wpages' \in [W!PageRows -> [life : {"none", "live", "deleted"}, folder : W!Refs]]
            /\ wpages'[p].folder = w /\ wpages'[p].life # "none"
            /\ \A q \in W!PageRows \ {p} : wpages'[q] = wpages[q]
        BY <4>1, <3>2, <1>2 DEF WInv, W!WorkspacesTypeOK
      <4>3. /\ trail' \in [W!PageRows -> [folder : W!Refs, whole : BOOLEAN]]
            /\ trail'[p].folder = w /\ trail'[p].whole
            /\ \A q \in W!PageRows \ {p} : trail'[q] = trail[q]
        BY <4>1, <3>2, <1>2 DEF W!Audit, WInv, W!WorkspacesTypeOK, W!MembershipAudited
      <4> QED
        BY <3>2, <4>2, <4>3
    <3> QED
      BY <3>1, <3>3
  <2>2. CASE W!CreatePage(c)
    <3>1. CASE \E p \in W!PageRows :
                 /\ wpages' = [wpages EXCEPT ![p] = [life |-> "live", folder |-> w]]
                 /\ trail' = [trail EXCEPT ![p].folder = w]
      <4>1. PICK p \in W!PageRows : /\ wpages' = [wpages EXCEPT ![p] = [life |-> "live", folder |-> w]]
                                    /\ trail' = [trail EXCEPT ![p].folder = w]
        BY <3>1
      <4>2. /\ wpages' \in [W!PageRows -> [life : {"none", "live", "deleted"}, folder : W!Refs]]
            /\ wpages'[p].folder = w /\ wpages'[p].life # "none"
            /\ \A q \in W!PageRows \ {p} : wpages'[q] = wpages[q]
        BY <4>1, <1>2 DEF WInv, W!WorkspacesTypeOK
      <4>3. /\ trail' \in [W!PageRows -> [folder : W!Refs, whole : BOOLEAN]]
            /\ trail'[p].folder = w /\ trail'[p].whole
            /\ \A q \in W!PageRows \ {p} : trail'[q] = trail[q]
        BY <4>1, <1>2 DEF WInv, W!WorkspacesTypeOK, W!MembershipAudited
      <4> QED
        BY <4>2, <4>3
    <3> QED
      BY <2>2, <3>1 DEF W!CreatePage, w
  <2> QED
    BY <2>1, <2>2
<1>4. CASE UNCHANGED <<wpages, trail>>
  <2>1. W!WorkspacesTypeOK' /\ SharesHold'
    BY <1>1, <1>4, CallEnds, SharesEnd DEF WInv, W!WorkspacesTypeOK
  <2>2. NoRows' /\ \A d \in Conns : caller'[d].at = "drop" => caller'[d] = caller[d]
    <3>1. \A p \in W!PageRows : wpages'[p] = wpages[p] /\ (wpages[p].life = "none" => wpages[p].folder = W!Ungrouped)
      BY <1>4 DEF WInv, NoRows
    <3> QED
      BY <1>1, <3>1, NoRowsEnd
  <2>3. Emptied' /\ W!MembershipAudited'
    BY <1>1, <1>4, <2>2 DEF WInv, Emptied, W!Members, W!MembershipAudited
  <2> QED
    BY <2>1, <2>2, <2>3 DEF WInv
<1>5. ASSUME NEW p \in W!PageRows,
             wpages' \in [W!PageRows -> [life : {"none", "live", "deleted"}, folder : W!Refs]],
             wpages'[p].folder = w, wpages'[p].life # "none",
             \A q \in W!PageRows \ {p} : wpages'[q] = wpages[q],
             trail' \in [W!PageRows -> [folder : W!Refs, whole : BOOLEAN]],
             trail'[p].folder = w, trail'[p].whole,
             \A q \in W!PageRows \ {p} : trail'[q] = trail[q]
      PROVE  WInv'
  <2>1. W!WorkspacesTypeOK' /\ SharesHold'
    BY <1>1, <1>5, CallEnds, SharesEnd DEF WInv, W!WorkspacesTypeOK
  <2>2. \A q \in W!PageRows : /\ wpages'[q].life = "none" => wpages'[q].folder = W!Ungrouped
                              /\ wpages[q].life # "none" => wpages'[q].life # "none"
    BY <1>5 DEF WInv, NoRows
  <2>3. NoRows' /\ caller'[c].at = "idle"
    BY <1>1, <2>2, NoRowsEnd
  <2>4. Emptied'
    <3>1. ASSUME NEW d \in Conns, caller'[d].at = "drop" PROVE caller[d] = caller'[d] /\ caller[d].folder # w
      <4>1. d # c /\ caller[d] = caller'[d]
        BY <3>1, <2>3, <1>1, CallEnds
      <4> QED
        BY <3>1, <4>1, <1>2 DEF WInv, SharesHold, W!Removing, WorkspaceIds
    <3> QED
      BY <3>1, <1>5 DEF WInv, Emptied, W!Members
  <2>5. W!MembershipAudited'
    BY <1>1, <1>2, <1>5 DEF WInv, W!MembershipAudited
  <2> QED
    BY <2>1, <2>3, <2>4, <2>5 DEF WInv
<1> QED
  BY <1>3, <1>4, <1>5

LEMMA PageLifeStep ==
  ASSUME WorkspaceIds, WInv, NEW p \in W!PageRows, W!DeletePage(p) \/ W!RestorePage(p)
  PROVE  WInv'
<1>1. UNCHANGED <<folders, trail, caller>>
  BY DEF W!DeletePage, W!RestorePage
<1>2. wpages[p].life # "none" /\ \E life \in {"live", "deleted"} : wpages' = [wpages EXCEPT ![p].life = life]
  BY DEF W!DeletePage, W!RestorePage, W!LivePage
<1>3. /\ wpages' \in [W!PageRows -> [life : {"none", "live", "deleted"}, folder : W!Refs]]
      /\ \A q \in W!PageRows : wpages'[q].folder = wpages[q].folder /\ (wpages'[q].life = "none" <=> wpages[q].life = "none")
  BY <1>2 DEF WInv, W!WorkspacesTypeOK
<1>4. W!WorkspacesTypeOK' /\ SharesHold'
  BY <1>1, <1>3 DEF WInv, W!WorkspacesTypeOK, SharesHold, W!Removing
<1>5. NoRows' /\ Emptied' /\ W!MembershipAudited'
  <2>1. \A c \in Conns : caller[c].locked \subseteq W!PageRows
    BY DEF WInv, W!WorkspacesTypeOK
  <2> QED
    BY <1>1, <1>3, <2>1 DEF WInv, NoRows, Emptied, W!Members, W!MembershipAudited
<1> QED
  BY <1>4, <1>5 DEF WInv

LEMMA WorkspacesKeep ==
  ASSUME WorkspaceIds, WInv, [W!WorkspacesNext]_(W!workspaceVars)
  PROVE  WInv'
<1>1. CASE UNCHANGED W!workspaceVars
  BY <1>1 DEF W!workspaceVars, WInv, W!WorkspacesTypeOK, SharesHold, W!Removing, NoRows, Emptied, W!Members, W!MembershipAudited
<1>2. ASSUME NEW w \in Folders, NEW name \in Names, W!Create(w, name) \/ W!Rename(w, name) PROVE WInv'
  BY <1>2, FoldersSteps
<1>3. ASSUME NEW c \in Conns,
             \/ \E w \in Folders : W!LockForRemoval(c, w)
             \/ \E w \in W!Refs : W!StartAssign(c, w) \/ W!StartCreatePage(c, w)
             \/ W!LockPage(c) \/ W!Abort(c)
      PROVE  WInv'
  BY <1>3, LocksSteps
<1>4. ASSUME NEW c \in Conns, W!Detach(c) \/ W!Drop(c) \/ W!AssignPage(c) \/ W!CreatePage(c) PROVE WInv'
  BY <1>4, DetachStep, DropStep, JoinStep
<1>5. ASSUME NEW p \in W!PageRows, W!DeletePage(p) \/ W!RestorePage(p) PROVE WInv'
  BY <1>5, PageLifeStep
<1> QED
  BY <1>1, <1>2, <1>3, <1>4, <1>5 DEF W!WorkspacesNext

---------------------------------------------------------------------------
(* Migrations.  Between its lock and its unlock a runner is alone, so the  *)
(* files it read as done are the recorded ones, and the next file it picks *)
(* is the least that is missing.                                           *)

LEMMA NatMin ==
  ASSUME NEW S \in SUBSET Nat, S # {}
  PROVE  \E n \in S : \A m \in S : n <= m
<1> DEFINE Less == StrictSubsetOrdering(Nat)
           F == FiniteSubsetsOf(Nat)
           Tails == {0..(n - 1) : n \in S}
<1>1. IsWellFoundedOn(Less, F) BY FS_StrictSubsetOrderingWellFounded
<1>2. \A n \in Nat : 0..(n-1) \in F BY FS_Interval DEF FiniteSubsetsOf
<1>3. Tails \subseteq F /\ Tails # {} BY <1>2
<1>4. \A x, y \in SUBSET Nat : x \subseteq y /\ x # y => <<x, y>> \in Less BY DEF StrictSubsetOrdering
<1> HIDE DEF Less, F
<1>5. PICK x \in Tails : \A y \in Tails : ~(<<y, x>> \in Less) BY <1>1, <1>3, WFMin
<1>6. PICK n \in S : x = 0..(n - 1) BY <1>5
<1>7. ASSUME NEW m \in S, ~(n <= m) PROVE FALSE
  <2> DEFINE y == 0..(m - 1)
  <2>1. y \in Tails OBVIOUS
  <2>2. y \subseteq x /\ m \in x /\ m \notin y BY <1>6, <1>7
  <2>3. x \in SUBSET Nat /\ y \in SUBSET Nat BY <1>6
  <2> QED BY <1>4, <1>5, <2>1, <2>2, <2>3
<1> QED BY <1>7

\* Sessions are numbered from 1, and files by their place in the order.
MigrationFiles ==
  /\ M!Free \notin Conns
  /\ \A r \in Releases : r.files \in SUBSET Nat

\* The advisory lock is held from the read to the unlock.
LockHeld ==
  \A c \in Conns :
    /\ runners[c].at \in {"read", "apply", "unlock", "collided"} => holder = c
    /\ runners[c].at # "collided"

\* What the runner read as done is what is recorded, as long as it applies.
DoneRecorded == \A c \in Conns : runners[c].at = "apply" => runners[c].done = recorded

\* Past the policy, an automatic runner's files are compatible ones, whoever
\* else applied some of them meanwhile.
PolicyHolds ==
  \A c \in Conns :
    runners[c].at \in {"lock", "read", "apply"} /\ runners[c].auto =>
      /\ runners[c].release.baseline \in recorded
      /\ runners[c].release.files \ recorded \subseteq runners[c].release.compatible

\* The committed files are the recorded ones.
HistoryWhole == recorded = {history[i].file : i \in DOMAIN history}

MInv == M!MigrationsTypeOK /\ LockHeld /\ DoneRecorded /\ PolicyHolds /\ HistoryWhole /\ M!MigrationsHold

LEMMA MigrationsStart == ASSUME MigrationFiles PROVE M!MigrationsInit => MInv
<1> SUFFICES ASSUME M!MigrationsInit PROVE MInv
  OBVIOUS
<1> USE DEF M!MigrationsInit, M!Idle
<1>1. M!MigrationsTypeOK
  BY DEF M!MigrationsTypeOK
<1>2. LockHeld /\ DoneRecorded /\ PolicyHolds
  BY DEF LockHeld, DoneRecorded, PolicyHolds
<1>3. HistoryWhole /\ M!MigrationsHold
  BY DEF HistoryWhole, M!MigrationsHold, M!AppliedOnce, M!AppliedInOrder, M!RollbackSafe
<1> QED
  BY <1>1, <1>2, <1>3 DEF MInv

\* A runner commits its next file: it is applied once, in order, and as the
\* policy allows.
LEMMA CommitKeeps ==
  ASSUME MigrationFiles, MInv, NEW c \in Conns, runners[c].at = "apply", M!Pending(c) # {},
         M!Commit(c, M!Min(M!Pending(c)))
  PROVE  /\ recorded \subseteq recorded' /\ recorded' \subseteq M!Files
         /\ recorded' = recorded \cup {M!Min(M!Pending(c))}
         /\ schema' \in [M!Files -> Nat] /\ history' \in Seq([file : M!Files, release : Releases, auto : BOOLEAN])
         /\ HistoryWhole'
         /\ \A g \in M!Files : schema'[g] = IF g \in recorded' THEN 1 ELSE 0
         /\ M!AppliedInOrder' /\ M!RollbackSafe'
<1> DEFINE r == runners[c].release
           f == M!Min(M!Pending(c))
           entry == [file |-> f, release |-> r, auto |-> runners[c].auto]
<1>1. /\ r \in Releases /\ runners[c].auto \in BOOLEAN /\ runners[c].done = recorded
      /\ M!Pending(c) = r.files \ recorded
  BY DEF MInv, M!MigrationsTypeOK, M!Running, M!Idle, DoneRecorded, M!Pending
<1>2. /\ f \in r.files /\ f \notin recorded
      /\ \A g \in r.files : g < f => g \in recorded
  <2>1. r.files \ recorded \in SUBSET Nat /\ r.files \ recorded # {}
    BY <1>1 DEF MigrationFiles
  <2>2. f \in r.files \ recorded /\ \A g \in r.files \ recorded : f =< g
    BY <2>1, <1>1, NatMin DEF M!Min
  <2>3. r.files \in SUBSET Nat
    BY <1>1 DEF MigrationFiles
  <2> HIDE DEF f, r
  <2> QED
    BY <2>2, <2>3
<1>3. f \in M!Files
  BY <1>1, <1>2 DEF M!Files
<1>4. /\ recorded' = recorded \cup {f} /\ schema' = [schema EXCEPT ![f] = @ + 1]
      /\ history' = Append(history, entry)
  BY DEF M!Commit
<1>5. entry \in [file : M!Files, release : Releases, auto : BOOLEAN]
  BY <1>1, <1>3
<1>6. /\ entry.file = f /\ entry.release = r /\ entry.auto = runners[c].auto
  OBVIOUS
<1> HIDE DEF f, r, entry
<1>7. /\ history \in Seq([file : M!Files, release : Releases, auto : BOOLEAN])
      /\ recorded \subseteq M!Files /\ schema \in [M!Files -> Nat]
      /\ Len(history) \in Nat /\ DOMAIN history = 1..Len(history)
  BY DEF MInv, M!MigrationsTypeOK
<1>8. /\ history' \in Seq([file : M!Files, release : Releases, auto : BOOLEAN])
      /\ DOMAIN history' = 1..(Len(history) + 1)
      /\ \A i \in DOMAIN history : history'[i] = history[i]
      /\ history'[Len(history) + 1] = entry
  BY <1>4, <1>5, <1>7
<1>9. \A i \in DOMAIN history' : i \in DOMAIN history \/ i = Len(history) + 1
  BY <1>7, <1>8
<1>10. HistoryWhole'
  <2>1. DOMAIN history \subseteq DOMAIN history' /\ Len(history) + 1 \in DOMAIN history'
    BY <1>7, <1>8
  <2> QED
    BY <1>4, <1>6, <1>8, <1>9, <2>1 DEF MInv, HistoryWhole
<1>11. /\ schema' \in [M!Files -> Nat]
       /\ \A g \in M!Files : schema'[g] = IF g \in recorded' THEN 1 ELSE 0
  BY <1>2, <1>3, <1>4, <1>7 DEF MInv, M!MigrationsHold, M!AppliedOnce
<1>12. \A g \in recorded : \E j \in 1..(Len(history) + 1 - 1) : history'[j].file = g
  BY <1>7, <1>8 DEF MInv, HistoryWhole
<1>13. M!AppliedInOrder'
  <2>1. ASSUME NEW i \in DOMAIN history', NEW g \in history'[i].release.files, g < history'[i].file
        PROVE  \E j \in 1..(i - 1) : history'[j].file = g
    <3>1. CASE i = Len(history) + 1
      <4>1. g \in recorded
        BY <2>1, <3>1, <1>2, <1>6, <1>8
      <4> QED
        BY <4>1, <3>1, <1>12
    <3>2. CASE i \in DOMAIN history
      <4>1. PICK j \in 1..(i - 1) : history[j].file = g
        BY <2>1, <3>2, <1>8 DEF MInv, M!MigrationsHold, M!AppliedInOrder
      <4>2. j \in DOMAIN history
        BY <3>2, <1>7
      <4> QED
        BY <4>1, <4>2, <1>8
    <3> QED
      BY <3>1, <3>2, <1>9
  <2> QED
    BY <2>1 DEF M!AppliedInOrder
<1>14. M!RollbackSafe'
  <2>1. ASSUME NEW i \in DOMAIN history', history'[i].auto
        PROVE  /\ history'[i].file \in history'[i].release.compatible
               /\ \E j \in 1..(i - 1) : history'[j].file = history'[i].release.baseline
    <3>1. CASE i = Len(history) + 1
      <4>1. r.baseline \in recorded /\ r.files \ recorded \subseteq r.compatible
        BY <2>1, <3>1, <1>6, <1>8 DEF MInv, PolicyHolds, r
      <4> QED
        BY <4>1, <3>1, <1>2, <1>6, <1>8, <1>12
    <3>2. CASE i \in DOMAIN history
      <4>1. /\ history[i].file \in history[i].release.compatible
            /\ \E j \in 1..(i - 1) : history[j].file = history[i].release.baseline
        BY <2>1, <3>2, <1>8 DEF MInv, M!MigrationsHold, M!RollbackSafe
      <4>2. \A j \in 1..(i - 1) : j \in DOMAIN history
        BY <3>2, <1>7
      <4> QED
        BY <3>2, <4>1, <4>2, <1>8
    <3> QED
      BY <3>1, <3>2, <1>9
  <2> QED
    BY <2>1 DEF M!RollbackSafe
<1>15. recorded \subseteq recorded' /\ recorded' \subseteq M!Files /\ recorded' = recorded \cup {M!Min(M!Pending(c))}
  BY <1>3, <1>4, <1>7 DEF f
<1> QED
  BY <1>8, <1>10, <1>11, <1>13, <1>14, <1>15

\* What every step of a runner does: its record becomes x, the lock is its own
\* or stays with whoever has it, and it commits its next file or nothing.
LEMMA RunnerStep ==
  ASSUME MigrationFiles, MInv, NEW c \in Conns, NEW x \in M!Running \cup {M!Idle},
         runners' = [runners EXCEPT ![c] = x],
         holder' \in Conns \cup {M!Free},
         x.at \in {"read", "apply", "unlock"} => holder' = c,
         x.at # "collided",
         \A d \in Conns \ {c} : holder = d => holder' = d,
         x.at = "apply" => x.done = recorded',
         x.at \in {"lock", "read", "apply"} /\ x.auto =>
           x.release.baseline \in recorded' /\ x.release.files \ recorded' \subseteq x.release.compatible,
         \/ UNCHANGED <<recorded, schema, history>>
         \/ /\ runners[c].at = "apply" /\ M!Pending(c) # {}
            /\ M!Commit(c, M!Min(M!Pending(c)))
  PROVE  MInv'
<1>1. /\ runners' \in [Conns -> M!Running \cup {M!Idle}]
      /\ runners'[c] = x /\ \A d \in Conns \ {c} : runners'[d] = runners[d]
  BY DEF MInv, M!MigrationsTypeOK
<1>2. /\ recorded \subseteq recorded' /\ recorded' \subseteq M!Files
      /\ recorded' # recorded => holder = c
      /\ schema' \in [M!Files -> Nat] /\ history' \in Seq([file : M!Files, release : Releases, auto : BOOLEAN])
      /\ HistoryWhole'
      /\ \A g \in M!Files : schema'[g] = IF g \in recorded' THEN 1 ELSE 0
      /\ M!AppliedInOrder' /\ M!RollbackSafe'
  <2>1. CASE UNCHANGED <<recorded, schema, history>>
    <3>1. /\ recorded' = recorded /\ recorded \subseteq M!Files
          /\ schema' \in [M!Files -> Nat] /\ history' \in Seq([file : M!Files, release : Releases, auto : BOOLEAN])
      BY <2>1 DEF MInv, M!MigrationsTypeOK
    <3>2. HistoryWhole'
      BY <2>1 DEF MInv, HistoryWhole
    <3>3. \A g \in M!Files : schema'[g] = IF g \in recorded' THEN 1 ELSE 0
      BY <2>1 DEF MInv, M!MigrationsHold, M!AppliedOnce
    <3>4. M!AppliedInOrder'
      BY <2>1 DEF MInv, M!MigrationsHold, M!AppliedInOrder
    <3>5. M!RollbackSafe'
      BY <2>1 DEF MInv, M!MigrationsHold, M!RollbackSafe
    <3> QED
      BY <3>1, <3>2, <3>3, <3>4, <3>5
  <2>2. CASE /\ runners[c].at = "apply" /\ M!Pending(c) # {}
             /\ M!Commit(c, M!Min(M!Pending(c)))
    <3>1. holder = c
      BY <2>2 DEF MInv, LockHeld
    <3> QED
      BY <2>2, <3>1, CommitKeeps
  <2> QED
    BY <2>1, <2>2
<1>3. M!MigrationsTypeOK'
  BY <1>1, <1>2 DEF M!MigrationsTypeOK
<1>4. LockHeld'
  BY <1>1 DEF MInv, LockHeld, M!Running, M!Idle
<1>5. DoneRecorded'
  <2>1. ASSUME NEW d \in Conns, runners'[d].at = "apply", d # c PROVE runners'[d].done = recorded'
    <3>1. holder = d /\ runners[d].done = recorded
      BY <1>1, <2>1 DEF MInv, LockHeld, DoneRecorded
    <3> QED
      BY <1>1, <1>2, <2>1, <3>1
  <2> QED
    BY <1>1, <2>1 DEF DoneRecorded
<1>6. PolicyHolds'
  <2>1. ASSUME NEW d \in Conns, d # c, runners'[d].at \in {"lock", "read", "apply"}, runners'[d].auto
        PROVE  /\ runners'[d].release.baseline \in recorded'
               /\ runners'[d].release.files \ recorded' \subseteq runners'[d].release.compatible
    BY <1>1, <1>2, <2>1 DEF MInv, PolicyHolds
  <2> QED
    BY <1>1, <2>1 DEF PolicyHolds
<1>7. M!MigrationsHold'
  BY <1>2, <1>4 DEF M!MigrationsHold, M!AppliedOnce, LockHeld
<1> QED
  BY <1>2, <1>3, <1>4, <1>5, <1>6, <1>7 DEF MInv

LEMMA MigrationsKeep ==
  ASSUME MigrationFiles, MInv, [M!MigrationsNext]_(M!migrationVars)
  PROVE  MInv'
<1>1. CASE UNCHANGED M!migrationVars
  BY <1>1 DEF M!migrationVars, MInv, M!MigrationsTypeOK, LockHeld, DoneRecorded, PolicyHolds, HistoryWhole,
       M!MigrationsHold, M!AppliedOnce, M!AppliedInOrder, M!RollbackSafe
<1>2. ASSUME NEW c \in Conns, NEW r \in Releases, NEW auto \in BOOLEAN, M!Begin(c, r, auto)
      PROVE  MInv'
  <2> DEFINE x == [at |-> IF auto THEN "check" ELSE "lock", release |-> r, auto |-> auto, done |-> {}]
  <2>1. x \in M!Running /\ x.at \in {"check", "lock"} /\ (x.at = "lock" => ~x.auto)
    BY DEF M!Running
  <2>2. runners' = [runners EXCEPT ![c] = x] /\ UNCHANGED <<recorded, schema, holder, history>>
    BY <1>2 DEF M!Begin
  <2> HIDE DEF x
  <2>3. holder \in Conns \cup {M!Free}
    BY DEF MInv, M!MigrationsTypeOK
  <2> QED
    BY <2>1, <2>2, <2>3, RunnerStep
<1>3. ASSUME NEW c \in Conns, NEW at \in {"check", "lock", "read", "apply", "unlock"}, NEW done \in SUBSET M!Files,
             runners[c] # M!Idle,
             runners' = [runners EXCEPT ![c] = [runners[c] EXCEPT !.at = at, !.done = done]],
             at \in {"read", "apply", "unlock"} => holder' = c,
             holder' \in Conns \cup {M!Free},
             \A d \in Conns \ {c} : holder = d => holder' = d,
             at = "apply" => done = recorded',
             at \in {"lock", "read", "apply"} /\ runners[c].auto =>
               /\ runners[c].release.baseline \in recorded'
               /\ runners[c].release.files \ recorded' \subseteq runners[c].release.compatible,
             \/ UNCHANGED <<recorded, schema, history>>
             \/ /\ runners[c].at = "apply" /\ M!Pending(c) # {}
                /\ M!Commit(c, M!Min(M!Pending(c)))
      PROVE  MInv'
  <2> DEFINE x == [runners[c] EXCEPT !.at = at, !.done = done]
  <2>1. runners[c] \in M!Running
    BY <1>3 DEF MInv, M!MigrationsTypeOK
  <2>2. /\ x \in M!Running /\ x.at = at /\ x.done = done
        /\ x.release = runners[c].release /\ x.auto = runners[c].auto
    BY <2>1 DEF M!Running
  <2>3. runners' = [runners EXCEPT ![c] = x]
    BY <1>3
  <2> HIDE DEF x
  <2> QED
    BY <1>3, <2>2, <2>3, RunnerStep
<1>4. ASSUME NEW c \in Conns, M!Stop(c), holder' \in Conns \cup {M!Free},
             \A d \in Conns \ {c} : holder = d => holder' = d,
             \/ UNCHANGED <<recorded, schema, history>>
             \/ /\ runners[c].at = "apply" /\ M!Pending(c) # {}
                /\ M!Commit(c, M!Min(M!Pending(c)))
      PROVE  MInv'
  <2>1. M!Idle.at = "idle"
    BY DEF M!Idle
  <2> QED
    BY <1>4, <2>1, RunnerStep DEF M!Stop
<1>5. ASSUME NEW c \in Conns
      PROVE  /\ runners[c].at # "idle" => runners[c] # M!Idle /\ runners[c] \in M!Running
             /\ runners[c] \in M!Running => runners[c].done \in SUBSET M!Files
             /\ recorded \in SUBSET M!Files /\ holder \in Conns \cup {M!Free}
             /\ runners[c].at \in {"read", "apply", "unlock"} => holder = c
             /\ runners[c].at \in {"lock", "read", "apply"} /\ runners[c].auto =>
                  /\ runners[c].release.baseline \in recorded
                  /\ runners[c].release.files \ recorded \subseteq runners[c].release.compatible
             /\ runners[c].at = "apply" => runners[c].done = recorded
  BY DEF MInv, M!MigrationsTypeOK, M!Running, M!Idle, LockHeld, PolicyHolds, DoneRecorded
<1>6. ASSUME NEW c \in Conns, NEW at, M!Go(c, at), runners[c] \in M!Running
      PROVE  runners' = [runners EXCEPT ![c] = [runners[c] EXCEPT !.at = at, !.done = runners[c].done]]
  <2>1. [runners[c] EXCEPT !.at = at] = [runners[c] EXCEPT !.at = at, !.done = runners[c].done]
    BY <1>6 DEF M!Running
  <2> QED
    BY <1>6, <2>1, Zenon DEF M!Go
<1>7. ASSUME NEW c \in Conns, M!Check(c) PROVE MInv'
  <2>1. runners[c].at = "check" /\ UNCHANGED <<recorded, schema, holder, history>>
    BY <1>7 DEF M!Check
  <2>2. CASE M!Stop(c)
    BY <2>1, <2>2, <1>4, <1>5
  <2>3. CASE /\ M!Go(c, "lock") /\ runners[c].release.baseline \in recorded
             /\ runners[c].release.files \ recorded \subseteq runners[c].release.compatible
    <3>1. /\ runners' = [runners EXCEPT ![c] = [runners[c] EXCEPT !.at = "lock", !.done = runners[c].done]]
          /\ runners[c] # M!Idle /\ runners[c].done \in SUBSET M!Files
      BY <2>1, <2>3, <1>5, <1>6
    <3>2. /\ holder' \in Conns \cup {M!Free} /\ UNCHANGED <<recorded, schema, holder, history>>
          /\ \A d \in Conns \ {c} : holder = d => holder' = d
          /\ runners[c].release.baseline \in recorded'
          /\ runners[c].release.files \ recorded' \subseteq runners[c].release.compatible
      BY <2>1, <2>3, <1>5
    <3> QED
      BY <3>1, <3>2, <1>3
  <2> QED
    BY <1>7, <2>2, <2>3 DEF M!Check
<1>8. ASSUME NEW c \in Conns, M!TryLock(c) PROVE MInv'
  <2>1. /\ runners[c].at = "lock" /\ holder = M!Free /\ holder' = c /\ M!Go(c, "read")
        /\ UNCHANGED <<recorded, schema, history>>
    BY <1>8 DEF M!TryLock
  <2>2. \A d \in Conns \ {c} : holder = d => holder' = d
    BY <2>1 DEF MigrationFiles
  <2>3. /\ runners' = [runners EXCEPT ![c] = [runners[c] EXCEPT !.at = "read", !.done = runners[c].done]]
        /\ runners[c] # M!Idle /\ runners[c].done \in SUBSET M!Files
    BY <2>1, <1>5, <1>6
  <2>4. runners[c].auto => /\ runners[c].release.baseline \in recorded'
                           /\ runners[c].release.files \ recorded' \subseteq runners[c].release.compatible
    BY <2>1, <1>5
  <2> QED
    BY <2>1, <2>2, <2>3, <2>4, <1>3
<1>9. ASSUME NEW c \in Conns, M!Busy(c) PROVE MInv'
  BY <1>9, <1>4, <1>5 DEF M!Busy
<1>10. ASSUME NEW c \in Conns, M!ReadDone(c) PROVE MInv'
  <2>1. /\ runners[c].at = "read" /\ UNCHANGED <<recorded, schema, holder, history>>
        /\ runners' = [runners EXCEPT ![c] = [runners[c] EXCEPT !.at = "apply", !.done = recorded]]
    BY <1>10, <1>5 DEF M!ReadDone, MInv, M!MigrationsTypeOK
  <2> QED
    BY <2>1, <1>3, <1>5
<1>11. ASSUME NEW c \in Conns, M!ApplyOne(c) PROVE MInv'
  <2> DEFINE f == M!Min(M!Pending(c))
  <2>1. runners[c].at = "apply" /\ M!Pending(c) # {} /\ UNCHANGED holder
    BY <1>11 DEF M!ApplyOne
  <2>2. CASE M!Commit(c, f) /\ runners' = [runners EXCEPT ![c].done = @ \cup {f}]
    <3>1. recorded' = recorded \cup {f} /\ recorded \subseteq recorded' /\ recorded' \in SUBSET M!Files
      BY <2>1, <2>2, CommitKeeps
    <3>2. [runners[c] EXCEPT !.done = runners[c].done \cup {f}] = [runners[c] EXCEPT !.at = "apply", !.done = recorded']
      BY <2>1, <3>1, <1>5 DEF M!Running
    <3>3. runners' = [runners EXCEPT ![c] = [runners[c] EXCEPT !.at = "apply", !.done = recorded']]
      BY <2>2, <3>2
    <3> QED
      BY <2>1, <2>2, <3>1, <3>3, <1>3, <1>5, ZenonT(120)
  <2>3. CASE M!Commit(c, f) /\ M!Go(c, "unlock")
    BY <2>1, <2>3, <1>3, <1>5, <1>6, ZenonT(120)
  <2>4. CASE M!Go(c, "unlock") /\ UNCHANGED <<recorded, schema, history>>
    BY <2>1, <2>4, <1>3, <1>5, <1>6, ZenonT(120)
  <2>5. CASE f \in recorded
    <3>1. M!Pending(c) = runners[c].release.files \ recorded /\ runners[c].release.files \in SUBSET Nat
      BY <2>1, <1>5 DEF M!Pending, MigrationFiles, M!Running
    <3>2. f \in M!Pending(c)
      BY <2>1, <3>1, NatMin DEF M!Min
    <3> QED
      BY <2>5, <3>1, <3>2
  <2> QED
    BY <1>11, <2>2, <2>3, <2>4, <2>5 DEF M!ApplyOne
<1>12. ASSUME NEW c \in Conns, M!Applied(c) PROVE MInv'
  BY <1>12, <1>3, <1>5, <1>6, ZenonT(120) DEF M!Applied
<1>13. ASSUME NEW c \in Conns, M!Unlock(c) \/ M!Die(c) PROVE MInv'
  <2>1. M!Stop(c) /\ holder' = IF holder = c THEN M!Free ELSE holder
    BY <1>13 DEF M!Unlock, M!Die
  <2>2. \/ UNCHANGED <<recorded, schema, history>>
        \/ /\ runners[c].at = "apply" /\ M!Pending(c) # {}
           /\ M!Commit(c, M!Min(M!Pending(c)))
    BY <1>13 DEF M!Unlock, M!Die
  <2> QED
    BY <2>1, <2>2, <1>4, <1>5
<1> QED
  BY <1>1, <1>2, <1>7, <1>8, <1>9, <1>10, <1>11, <1>12, <1>13 DEF M!MigrationsNext

---------------------------------------------------------------------------
(* Backups.  Rows are never more than the files they name, so a dump taken *)
(* before the files is served by them; no update runs beside a capture;    *)
(* and what is renamed into place was flushed before.                      *)

Made == {"rehearse", "recheck", "manifest", "rename", "flush"}

\* The manifest that tells the truth about some files.
Described(content) == [files |-> content, restored |-> content.dump]

CaptureRows == [at : B!Stages, digest : B!Versions, content : B!Content, synced : BOOLEAN]
DirRows == [there : BOOLEAN, synced : BOOLEAN, durable : BOOLEAN, replaced : BOOLEAN,
            content : B!Content, manifest : B!Manifest]

\* What a capture x has copied so far.
CaptureOK(x) ==
  /\ x.at \in {"dump", "assets", "application"} \cup Made => x.content.env = x.digest
  /\ x.at \in {"assets", "application"} \cup Made =>
       x.content.dump \in B!Versions /\ x.content.dump <= service.rows
  /\ x.at \in {"application"} \cup Made =>
       x.content.assets \in B!Versions /\ x.content.dump <= x.content.assets
  /\ x.at \in Made => x.content.release = service.release
  /\ x.at = "rename" => x.synced

\* What the directory y of a capture x holds.
DirOK(x, y) ==
  /\ y.there => x.at \in {"flush", "done", "failed"} /\ y.synced
  /\ y.there /\ ~y.replaced =>
       /\ y.manifest = Described(y.content)
       /\ y.content.dump \in 0..y.content.assets
       /\ y.content.env = x.digest
  /\ x.at = "flush" => y.there
  /\ x.at = "done" => y.there /\ y.durable

ServiceOK == service.rows <= service.assets /\ (lock => ~B!Capturing)

\* What a check rehearses is what it verified, and a server has its storage.
ChecksOK ==
  /\ bcheck.at = "rehearse" => bcheck.content = bcheck.manifest.files
  /\ B!ChecksTruthful

BInv ==
  /\ B!BackupsTypeOK /\ ServiceOK /\ ChecksOK
  /\ \A c \in Captures : CaptureOK(capture[c]) /\ DirOK(capture[c], dirs[c])

LEMMA BackupsStart ==
  ASSUME MaxChange \in Nat, Captures # {}
  PROVE  B!BackupsInit => BInv
<1> SUFFICES ASSUME B!BackupsInit PROVE BInv
  OBVIOUS
<1> USE DEF B!BackupsInit, B!Empty, B!None, B!NoDir, B!Unused
<1>1. B!Empty \in B!Content /\ B!NoManifest \in B!Manifest
  BY DEF B!Content, B!Manifest, B!NoManifest
<1>2. B!BackupsTypeOK
  <2> HIDE DEF B!Empty, B!None
  <2> DEFINE some == CHOOSE c \in Captures : TRUE
  <2>1. some \in Captures
    OBVIOUS
  <2>2. bcheck = [at |-> "idle", of |-> some, content |-> B!Empty, manifest |-> B!NoManifest, rehearsed |-> B!Empty]
    OBVIOUS
  <2> HIDE DEF some
  <2>3. bcheck \in [at : B!CheckAt, of : Captures, content : B!Content, manifest : B!Manifest, rehearsed : B!Content]
    BY <1>1, <2>1, <2>2 DEF B!CheckAt
  <2>0. 0 \in B!Versions
    BY DEF B!Versions
  <2>4. service \in [env : B!Versions, assets : B!Versions, rows : B!Versions, release : B!Versions] /\ lock \in BOOLEAN
    BY <2>0
  <2>5. capture \in [Captures -> [at : B!Stages, digest : B!Versions, content : B!Content, synced : BOOLEAN]]
    BY <1>1, <2>0 DEF B!Stages
  <2>6. dirs \in [Captures -> [there : BOOLEAN, synced : BOOLEAN, durable : BOOLEAN,
                              replaced : BOOLEAN, content : B!Content, manifest : B!Manifest]]
    BY <1>1
  <2>7. scratch \in [B!Runs -> [storage : BOOLEAN, server : BOOLEAN]]
    OBVIOUS
  <2> HIDE DEF B!BackupsInit
  <2> QED
    BY <2>3, <2>4, <2>5, <2>6, <2>7 DEF B!BackupsTypeOK
<1>3. ServiceOK /\ ChecksOK
  BY DEF ServiceOK, B!Capturing, ChecksOK, B!ChecksTruthful
<1>4. \A c \in Captures : CaptureOK(capture[c]) /\ DirOK(capture[c], dirs[c])
  BY DEF CaptureOK, DirOK, Made
<1> QED
  BY <1>2, <1>3, <1>4 DEF BInv

LEMMA BackupsEnd == BInv => B!BackupsHold
<1> SUFFICES ASSUME BInv PROVE B!BackupsHold
  OBVIOUS
<1>1. \A c \in Captures : B!At(c, "rehearse") => B!Serves(B!Partial(c))
  BY DEF BInv, CaptureOK, Made, B!At, B!Serves, B!Partial
<1>2. \A c \in Captures : capture[c].at \in Made => B!Partial(c).release = service.release
  BY DEF BInv, CaptureOK, Made, B!Partial
<1> QED
  BY <1>1, <1>2 DEF BInv, DirOK, Made, ChecksOK, Described, B!BackupsHold, B!BackupsRestorable, B!Restored

\* What a step of one capture has to establish.
LEMMA CaptureStep ==
  ASSUME BInv, NEW c \in Captures, NEW x \in CaptureRows, NEW y \in DirRows,
         capture' = [capture EXCEPT ![c] = x], dirs' = [dirs EXCEPT ![c] = y],
         UNCHANGED <<service, lock, bcheck>>,
         scratch' \in [B!Runs -> [storage : BOOLEAN, server : BOOLEAN]],
         \A r \in B!Runs : scratch'[r].server => scratch'[r].storage,
         x.at \notin {"idle", "done", "failed"} => ~lock,
         CaptureOK(x), DirOK(x, y)
  PROVE  BInv'
<1>1. /\ capture' \in [Captures -> CaptureRows] /\ dirs' \in [Captures -> DirRows]
      /\ capture'[c] = x /\ dirs'[c] = y
      /\ \A d \in Captures \ {c} : capture'[d] = capture[d] /\ dirs'[d] = dirs[d]
  BY DEF BInv, B!BackupsTypeOK, CaptureRows, DirRows
<1>2. B!BackupsTypeOK'
  BY <1>1 DEF BInv, B!BackupsTypeOK, CaptureRows, DirRows
<1>3. ServiceOK'
  BY <1>1 DEF BInv, ServiceOK, B!Capturing
<1>4. ChecksOK'
  BY DEF BInv, ChecksOK, B!ChecksTruthful
<1>5. \A d \in Captures : CaptureOK(capture'[d]) /\ DirOK(capture'[d], dirs'[d])
  BY <1>1 DEF BInv
<1>6. \A d \in Captures : CaptureOK(capture[d])' /\ DirOK(capture[d], dirs[d])'
  BY <1>5 DEF CaptureOK, DirOK
<1> QED
  BY <1>2, <1>3, <1>4, <1>6 DEF BInv

\* A step of one capture that leaves its directory and the clusters alone.
LEMMA CopyStep ==
  ASSUME BInv, NEW c \in Captures, NEW stage \in B!Stages, NEW content \in B!Content,
         B!To(c, stage, content), UNCHANGED <<service, lock, dirs, bcheck, scratch>>,
         capture[c].at \notin {"idle", "done", "failed"}, stage \notin {"idle", "done", "flush"},
         dirs[c].there => stage = "failed",
         \A x \in CaptureRows : x.at = stage /\ x.content = content /\ x.digest = capture[c].digest
                                /\ x.synced = capture[c].synced => CaptureOK(x)
  PROVE  BInv'
<1> DEFINE x == [capture[c] EXCEPT !.at = stage, !.content = content]
<1>1. capture[c] \in CaptureRows /\ dirs[c] \in DirRows /\ dirs \in [Captures -> DirRows]
  BY DEF BInv, B!BackupsTypeOK, CaptureRows, DirRows
<1>2. /\ x \in CaptureRows /\ x.at = stage /\ x.content = content /\ x.digest = capture[c].digest
      /\ x.synced = capture[c].synced
  BY <1>1 DEF CaptureRows
<1>3. capture' = [capture EXCEPT ![c] = x]
  BY DEF B!To
<1> HIDE DEF x
<1>4. dirs' = [dirs EXCEPT ![c] = dirs[c]]
  BY <1>1
<1>5. DirOK(x, dirs[c])
  BY <1>2 DEF BInv, DirOK
<1>6. ~lock
  BY DEF BInv, ServiceOK, B!Capturing
<1>7. /\ scratch' \in [B!Runs -> [storage : BOOLEAN, server : BOOLEAN]]
      /\ \A r \in B!Runs : scratch'[r].server => scratch'[r].storage
  BY DEF BInv, B!BackupsTypeOK, ChecksOK, B!ChecksTruthful
<1> QED
  BY <1>1, <1>2, <1>3, <1>4, <1>5, <1>6, <1>7, CaptureStep

LEMMA CopiesStep ==
  ASSUME BInv, NEW c \in Captures,
         \/ B!CopyConfig(c) \/ B!Dump(c) \/ B!CopyAssets(c) \/ B!CopyApplication(c) \/ B!Recheck(c)
  PROVE  BInv'
<1>1. /\ capture[c] \in CaptureRows /\ capture[c].content \in B!Content
      /\ service \in [env : B!Versions, assets : B!Versions, rows : B!Versions, release : B!Versions]
      /\ CaptureOK(capture[c]) /\ DirOK(capture[c], dirs[c]) /\ service.rows <= service.assets
  BY DEF BInv, B!BackupsTypeOK, CaptureRows, ServiceOK
<1>2. CASE B!CopyConfig(c)
  <2> DEFINE content == [capture[c].content EXCEPT !.env = service.env]
  <2>1. /\ capture[c].at = "env" /\ service.env = capture[c].digest /\ B!To(c, "dump", content)
        /\ UNCHANGED <<service, lock, dirs, bcheck, scratch>>
    BY <1>2 DEF B!CopyConfig, B!At, B!EnvAsRead, B!Partial
  <2>2. content \in B!Content /\ content.env = service.env
    BY <1>1 DEF B!Content
  <2> HIDE DEF content
  <2>3. \A x \in CaptureRows : x.at = "dump" /\ x.content = content /\ x.digest = capture[c].digest => CaptureOK(x)
    BY <2>1, <2>2 DEF CaptureOK, Made
  <2> QED
    BY <1>1, <2>1, <2>2, <2>3, CopyStep DEF DirOK, B!Stages
<1>3. CASE B!Dump(c)
  <2> DEFINE content == [capture[c].content EXCEPT !.dump = service.rows]
  <2>1. capture[c].at = "dump" /\ B!To(c, "assets", content) /\ UNCHANGED <<service, lock, dirs, bcheck, scratch>>
    BY <1>3 DEF B!Dump, B!At, B!Partial
  <2>2. /\ content \in B!Content /\ content.env = capture[c].content.env
        /\ content.dump = service.rows /\ service.rows \in B!Versions
    BY <1>1 DEF B!Content
  <2> HIDE DEF content
  <2>3. \A x \in CaptureRows : x.at = "assets" /\ x.content = content /\ x.digest = capture[c].digest => CaptureOK(x)
    BY <1>1, <2>1, <2>2 DEF CaptureOK, Made, B!Versions
  <2> QED
    BY <1>1, <2>1, <2>2, <2>3, CopyStep DEF DirOK, B!Stages
<1>4. CASE B!CopyAssets(c)
  <2> DEFINE content == [capture[c].content EXCEPT !.assets = service.assets]
  <2>1. capture[c].at = "assets" /\ B!To(c, "application", content) /\ UNCHANGED <<service, lock, dirs, bcheck, scratch>>
    BY <1>4 DEF B!CopyAssets, B!At, B!Partial
  <2>2. /\ content \in B!Content /\ content.env = capture[c].content.env /\ content.dump = capture[c].content.dump
        /\ content.assets = service.assets /\ service.assets \in B!Versions /\ service.rows \in B!Versions
    BY <1>1 DEF B!Content
  <2> HIDE DEF content
  <2>3. \A x \in CaptureRows : x.at = "application" /\ x.content = content /\ x.digest = capture[c].digest => CaptureOK(x)
    BY <1>1, <2>1, <2>2 DEF CaptureOK, Made, B!Versions
  <2> QED
    BY <1>1, <2>1, <2>2, <2>3, CopyStep DEF DirOK, B!Stages
<1>5. CASE B!CopyApplication(c)
  <2> DEFINE content == [capture[c].content EXCEPT !.release = service.release]
  <2>1. capture[c].at = "application" /\ B!To(c, "rehearse", content) /\ UNCHANGED <<service, lock, dirs, bcheck, scratch>>
    BY <1>5 DEF B!CopyApplication, B!At, B!Partial
  <2>2. /\ content \in B!Content /\ content.env = capture[c].content.env /\ content.dump = capture[c].content.dump
        /\ content.assets = capture[c].content.assets /\ content.release = service.release
    BY <1>1 DEF B!Content
  <2> HIDE DEF content
  <2>3. \A x \in CaptureRows : x.at = "rehearse" /\ x.content = content /\ x.digest = capture[c].digest => CaptureOK(x)
    BY <1>1, <2>1, <2>2 DEF CaptureOK, Made
  <2> QED
    BY <1>1, <2>1, <2>2, <2>3, CopyStep DEF DirOK, B!Stages
<1>6. CASE B!Recheck(c)
  <2>1. /\ capture[c].at = "recheck" /\ B!To(c, "manifest", capture[c].content)
        /\ UNCHANGED <<service, lock, dirs, bcheck, scratch>>
    BY <1>6 DEF B!Recheck, B!At, B!Partial
  <2>3. \A x \in CaptureRows : x.at = "manifest" /\ x.content = capture[c].content /\ x.digest = capture[c].digest => CaptureOK(x)
    BY <1>1, <2>1 DEF CaptureOK, Made
  <2> QED
    BY <1>1, <2>1, <2>3, CopyStep DEF DirOK, B!Stages
<1> QED
  BY <1>2, <1>3, <1>4, <1>5, <1>6

LEMMA EmptyContent == B!Empty \in B!Content
BY DEF B!Empty, B!Content, B!None

LEMMA PublishesStep ==
  ASSUME BInv, NEW c \in Captures,
         B!Capture(c) \/ B!WriteManifest(c) \/ B!Publish(c) \/ B!SyncDestination(c) \/ B!Fail(c) \/ B!Overwrite(c)
  PROVE  BInv'
<1>1. /\ capture \in [Captures -> CaptureRows] /\ dirs \in [Captures -> DirRows]
      /\ capture[c] \in CaptureRows /\ capture[c].content \in B!Content /\ dirs[c] \in DirRows
      /\ service.env \in B!Versions
      /\ CaptureOK(capture[c]) /\ DirOK(capture[c], dirs[c])
      /\ capture[c].at \notin {"idle", "done", "failed"} => ~lock
  BY DEF BInv, B!BackupsTypeOK, CaptureRows, DirRows, ServiceOK, B!Capturing
<1>2. ASSUME UNCHANGED scratch
      PROVE  /\ scratch' \in [B!Runs -> [storage : BOOLEAN, server : BOOLEAN]]
             /\ \A r \in B!Runs : scratch'[r].server => scratch'[r].storage
  BY <1>2 DEF BInv, B!BackupsTypeOK, ChecksOK, B!ChecksTruthful
<1>3. capture' = capture => capture' = [capture EXCEPT ![c] = capture[c]]
  BY <1>1
<1>4. dirs' = dirs => dirs' = [dirs EXCEPT ![c] = dirs[c]]
  BY <1>1
<1>5. CASE B!Capture(c)
  <2> DEFINE x == [at |-> "env", digest |-> service.env, content |-> B!Empty, synced |-> FALSE]
  <2>1. /\ capture[c].at = "idle" /\ ~lock /\ capture' = [capture EXCEPT ![c] = x]
        /\ UNCHANGED <<service, lock, dirs, bcheck, scratch>>
    BY <1>5 DEF B!Capture, B!At
  <2>2. x \in CaptureRows /\ x.at = "env"
    BY <1>1, EmptyContent DEF CaptureRows, B!Stages
  <2> HIDE DEF x
  <2>3. CaptureOK(x) /\ DirOK(x, dirs[c])
    BY <1>1, <2>1, <2>2 DEF CaptureOK, DirOK, Made
  <2> QED
    BY <1>1, <1>2, <1>4, <2>1, <2>2, <2>3, CaptureStep
<1>6. CASE B!WriteManifest(c)
  <2> DEFINE x == [capture[c] EXCEPT !.at = "rename", !.synced = TRUE]
  <2>1. /\ capture[c].at = "manifest" /\ capture' = [capture EXCEPT ![c] = x]
        /\ UNCHANGED <<service, lock, dirs, bcheck, scratch>>
    BY <1>6 DEF B!WriteManifest, B!At, B!Flushed
  <2>2. x \in CaptureRows /\ x.at = "rename" /\ x.synced /\ x.content = capture[c].content /\ x.digest = capture[c].digest
    BY <1>1 DEF CaptureRows, B!Stages
  <2> HIDE DEF x
  <2>3. CaptureOK(x) /\ DirOK(x, dirs[c])
    BY <1>1, <2>1, <2>2 DEF CaptureOK, DirOK, Made
  <2> QED
    BY <1>1, <1>2, <1>4, <2>1, <2>2, <2>3, CaptureStep
<1>7. CASE B!Publish(c)
  <2> DEFINE x == [capture[c] EXCEPT !.at = "flush", !.content = capture[c].content]
             y == [there |-> TRUE, synced |-> capture[c].synced, durable |-> FALSE, replaced |-> FALSE,
                   content |-> capture[c].content, manifest |-> Described(capture[c].content)]
  <2>1. /\ capture[c].at = "rename" /\ capture' = [capture EXCEPT ![c] = x] /\ dirs' = [dirs EXCEPT ![c] = y]
        /\ UNCHANGED <<service, lock, bcheck, scratch>>
    BY <1>7 DEF B!Publish, B!At, B!To, B!Partial, B!Restored, Described
  <2>2. x \in CaptureRows /\ x.at = "flush" /\ x.content = capture[c].content /\ x.digest = capture[c].digest
    BY <1>1 DEF CaptureRows, B!Stages
  <2>3. /\ y \in DirRows /\ y.there /\ y.synced = capture[c].synced
        /\ y.content = capture[c].content /\ y.manifest = Described(capture[c].content)
    <3>1. Described(capture[c].content) \in B!Manifest
      BY <1>1 DEF Described, B!Manifest, B!Content
    <3> HIDE DEF Described
    <3> QED
      BY <1>1, <3>1 DEF DirRows, CaptureRows
  <2> HIDE DEF x, y
  <2>4. CaptureOK(x) /\ DirOK(x, y)
    BY <1>1, <2>1, <2>2, <2>3 DEF CaptureOK, DirOK, Made, B!Versions
  <2> QED
    BY <1>1, <1>2, <2>1, <2>2, <2>3, <2>4, CaptureStep
<1>8. CASE B!SyncDestination(c)
  <2> DEFINE x == [capture[c] EXCEPT !.at = "done", !.content = capture[c].content]
             y == [dirs[c] EXCEPT !.durable = TRUE]
  <2>1. /\ capture[c].at = "flush" /\ capture' = [capture EXCEPT ![c] = x] /\ dirs' = [dirs EXCEPT ![c] = y]
        /\ UNCHANGED <<service, lock, bcheck, scratch>>
    BY <1>8 DEF B!SyncDestination, B!At, B!To, B!Partial
  <2>2. x \in CaptureRows /\ x.at = "done" /\ x.content = capture[c].content /\ x.digest = capture[c].digest
    BY <1>1 DEF CaptureRows, B!Stages
  <2>3. /\ y \in DirRows /\ y.there = dirs[c].there /\ y.synced = dirs[c].synced /\ y.durable
        /\ y.replaced = dirs[c].replaced /\ y.content = dirs[c].content /\ y.manifest = dirs[c].manifest
    BY <1>1 DEF DirRows
  <2> HIDE DEF x, y
  <2>4. CaptureOK(x) /\ DirOK(x, y)
    BY <1>1, <2>1, <2>2, <2>3 DEF CaptureOK, DirOK, Made
  <2> QED
    BY <1>1, <1>2, <2>1, <2>2, <2>3, <2>4, CaptureStep
<1>9. CASE B!Fail(c)
  <2> DEFINE x == [capture[c] EXCEPT !.at = "failed", !.content = B!Empty]
             y == [dirs[c] EXCEPT !.there = FALSE]
  <2>1. /\ capture' = [capture EXCEPT ![c] = x] /\ dirs' = [dirs EXCEPT ![c] = y]
        /\ UNCHANGED <<service, lock, bcheck, scratch>>
    BY <1>9 DEF B!Fail, B!To
  <2>2. x \in CaptureRows /\ x.at = "failed"
    BY <1>1, EmptyContent DEF CaptureRows, B!Stages
  <2>3. y \in DirRows /\ ~y.there
    BY <1>1 DEF DirRows
  <2> HIDE DEF x, y
  <2>4. CaptureOK(x) /\ DirOK(x, y)
    BY <2>2, <2>3 DEF CaptureOK, DirOK, Made
  <2> QED
    BY <1>2, <2>1, <2>2, <2>3, <2>4, CaptureStep
<1>10. CASE B!Overwrite(c)
  <2>1. PICK d \in B!Versions :
          \/ dirs' = [dirs EXCEPT ![c].replaced = TRUE, ![c].content.dump = d]
          \/ dirs' = [dirs EXCEPT ![c].replaced = TRUE, ![c].manifest.files.dump = d]
          \/ dirs' = [dirs EXCEPT ![c].replaced = TRUE, ![c].manifest.restored = d]
          \/ dirs' = [dirs EXCEPT ![c].replaced = TRUE, ![c].content.dump = d,
                                 ![c].manifest.files.dump = d, ![c].manifest.restored = d]
    BY <1>10 DEF B!Overwrite
  <2>2. UNCHANGED <<service, lock, capture, bcheck, scratch>>
    BY <1>10 DEF B!Overwrite
  <2>3. dirs[c].content \in B!Content /\ dirs[c].manifest \in B!Manifest /\ dirs[c].manifest.files \in B!Content
    BY <1>1 DEF DirRows, B!Manifest
  <2>4. /\ [dirs[c].content EXCEPT !.dump = d] \in B!Content
        /\ [dirs[c].manifest.files EXCEPT !.dump = d] \in B!Content
    BY <2>3 DEF B!Content
  <2>5. \E y \in DirRows : /\ dirs' = [dirs EXCEPT ![c] = y] /\ y.replaced
                           /\ y.there = dirs[c].there /\ y.synced = dirs[c].synced /\ y.durable = dirs[c].durable
    <3>1. CASE dirs' = [dirs EXCEPT ![c].replaced = TRUE, ![c].content.dump = d]
      <4> DEFINE e == [dirs[c].content EXCEPT !.dump = d]
                 y == [dirs[c] EXCEPT !.replaced = TRUE, !.content = e]
      <4>1. e \in B!Content
        BY <2>4
      <4>2. dirs' = [dirs EXCEPT ![c] = y]
        BY <3>1, <1>1 DEF DirRows
      <4> HIDE DEF e
      <4>3. /\ y \in DirRows /\ y.replaced
            /\ y.there = dirs[c].there /\ y.synced = dirs[c].synced /\ y.durable = dirs[c].durable
        BY <4>1, <1>1 DEF DirRows
      <4> HIDE DEF y
      <4> QED
        BY <4>2, <4>3
    <3>2. ASSUME NEW e \in B!Manifest, dirs' = [dirs EXCEPT ![c] = [dirs[c] EXCEPT !.replaced = TRUE, !.manifest = e]]
          PROVE  \E y \in DirRows : /\ dirs' = [dirs EXCEPT ![c] = y] /\ y.replaced
                                    /\ y.there = dirs[c].there /\ y.synced = dirs[c].synced /\ y.durable = dirs[c].durable
      <4> DEFINE y == [dirs[c] EXCEPT !.replaced = TRUE, !.manifest = e]
      <4>1. /\ y \in DirRows /\ y.replaced
            /\ y.there = dirs[c].there /\ y.synced = dirs[c].synced /\ y.durable = dirs[c].durable
        BY <1>1 DEF DirRows
      <4>2. dirs' = [dirs EXCEPT ![c] = y]
        BY <3>2
      <4> HIDE DEF y
      <4> QED
        BY <4>1, <4>2
    <3>3. CASE dirs' = [dirs EXCEPT ![c].replaced = TRUE, ![c].manifest.files.dump = d]
      <4> DEFINE files == [dirs[c].manifest.files EXCEPT !.dump = d]
                 e == [dirs[c].manifest EXCEPT !.files = files]
      <4>1. files \in B!Content
        BY <2>4
      <4>2. dirs' = [dirs EXCEPT ![c] = [dirs[c] EXCEPT !.replaced = TRUE, !.manifest = e]]
        BY <3>3, <2>3, <1>1 DEF DirRows, B!Manifest
      <4> HIDE DEF files
      <4>3. e \in B!Manifest
        BY <2>3, <4>1 DEF B!Manifest
      <4> HIDE DEF e
      <4> QED
        BY <3>2, <4>2, <4>3
    <3>4. CASE dirs' = [dirs EXCEPT ![c].replaced = TRUE, ![c].manifest.restored = d]
      <4> DEFINE e == [dirs[c].manifest EXCEPT !.restored = d]
      <4>1. e \in B!Manifest
        BY <2>3 DEF B!Manifest
      <4>2. dirs' = [dirs EXCEPT ![c] = [dirs[c] EXCEPT !.replaced = TRUE, !.manifest = e]]
        BY <3>4, <2>3, <1>1 DEF DirRows, B!Manifest
      <4> HIDE DEF e
      <4> QED
        BY <3>2, <4>1, <4>2
    <3>5. CASE dirs' = [dirs EXCEPT ![c].replaced = TRUE, ![c].content.dump = d,
                                    ![c].manifest.files.dump = d, ![c].manifest.restored = d]
      <4> DEFINE content == [dirs[c].content EXCEPT !.dump = d]
                 files == [dirs[c].manifest.files EXCEPT !.dump = d]
                 e == [dirs[c].manifest EXCEPT !.files = files, !.restored = d]
                 y == [dirs[c] EXCEPT !.replaced = TRUE, !.content = content, !.manifest = e]
      <4>1. content \in B!Content /\ files \in B!Content
        BY <2>4
      <4>2. dirs' = [dirs EXCEPT ![c] = y]
        BY <3>5, <2>3, <1>1 DEF DirRows, B!Manifest
      <4> HIDE DEF content, files
      <4>3. e \in B!Manifest
        BY <2>3, <4>1 DEF B!Manifest
      <4> HIDE DEF e
      <4>4. /\ y \in DirRows /\ y.replaced
            /\ y.there = dirs[c].there /\ y.synced = dirs[c].synced /\ y.durable = dirs[c].durable
        BY <4>1, <4>3, <1>1 DEF DirRows
      <4> HIDE DEF y
      <4> QED
        BY <4>2, <4>4
    <3> QED
      BY <2>1, <3>1, <3>3, <3>4, <3>5
  <2>6. PICK y \in DirRows : /\ dirs' = [dirs EXCEPT ![c] = y] /\ y.replaced
                             /\ y.there = dirs[c].there /\ y.synced = dirs[c].synced /\ y.durable = dirs[c].durable
    BY <2>5
  <2>7. DirOK(capture[c], y)
    BY <1>1, <2>6 DEF DirOK
  <2> QED
    BY <1>1, <1>2, <1>3, <2>2, <2>6, <2>7, CaptureStep
<1> QED
  BY <1>5, <1>6, <1>7, <1>8, <1>9, <1>10

\* A scratch cluster is stopped before its storage goes.
LEMMA ScratchStep ==
  ASSUME BInv, NEW r \in B!Runs,
         \/ B!StartScratch(r) \/ B!StartServer(r)
         \/ scratch[r].storage /\ \E stopped \in BOOLEAN : B!RemoveScratch(r, stopped)
  PROVE  /\ scratch' \in [B!Runs -> [storage : BOOLEAN, server : BOOLEAN]]
         /\ \A q \in B!Runs : scratch'[q].server => scratch'[q].storage
<1>1. /\ scratch \in [B!Runs -> [storage : BOOLEAN, server : BOOLEAN]]
      /\ \A q \in B!Runs : scratch[q].server => scratch[q].storage
  BY DEF BInv, B!BackupsTypeOK, ChecksOK, B!ChecksTruthful
<1> DEFINE Sound(u) == u \in [storage : BOOLEAN, server : BOOLEAN] /\ (u.server => u.storage)
<1>2. ASSUME NEW u, Sound(u), scratch' = [scratch EXCEPT ![r] = u]
      PROVE  /\ scratch' \in [B!Runs -> [storage : BOOLEAN, server : BOOLEAN]]
             /\ \A q \in B!Runs : scratch'[q].server => scratch'[q].storage
  BY <1>1, <1>2
<1>3. scratch[r] \in [storage : BOOLEAN, server : BOOLEAN]
  BY <1>1
<1>4. CASE B!StartScratch(r)
  <2>1. Sound([scratch[r] EXCEPT !.storage = TRUE])
    BY <1>3
  <2> QED
    BY <1>2, <1>4, <2>1 DEF B!StartScratch
<1>5. CASE B!StartServer(r)
  <2>1. Sound([scratch[r] EXCEPT !.server = TRUE])
    BY <1>3, <1>5 DEF B!StartServer
  <2> QED
    BY <1>2, <1>5, <2>1 DEF B!StartServer
<1>6. ASSUME NEW stopped \in BOOLEAN, B!RemoveScratch(r, stopped), scratch[r].storage
      PROVE  /\ scratch' \in [B!Runs -> [storage : BOOLEAN, server : BOOLEAN]]
             /\ \A q \in B!Runs : scratch'[q].server => scratch'[q].storage
  <2>1. Sound(B!Unused)
    BY DEF B!Unused
  <2>2. Sound([storage |-> TRUE, server |-> scratch[r].server])
    BY <1>3
  <2>3. \/ scratch' = [scratch EXCEPT ![r] = B!Unused]
        \/ scratch' = [scratch EXCEPT ![r] = [storage |-> TRUE, server |-> scratch[r].server]]
    BY <1>6 DEF B!RemoveScratch
  <2> QED
    BY <1>2, <2>1, <2>2, <2>3
<1> QED
  BY <1>4, <1>5, <1>6

LEMMA RehearsesStep ==
  ASSUME BInv, NEW c \in Captures, B!RehearseCapture(c)
  PROVE  BInv'
<1>1. /\ capture \in [Captures -> CaptureRows] /\ dirs \in [Captures -> DirRows]
      /\ capture[c] \in CaptureRows /\ capture[c].content \in B!Content /\ dirs[c] \in DirRows
      /\ CaptureOK(capture[c]) /\ DirOK(capture[c], dirs[c]) /\ ~lock
      /\ capture[c].at = "rehearse" /\ UNCHANGED <<service, lock, dirs, bcheck>>
  BY DEF BInv, B!BackupsTypeOK, CaptureRows, DirRows, ServiceOK, B!Capturing, B!RehearseCapture, B!At
<1>2. /\ dirs' = [dirs EXCEPT ![c] = dirs[c]] /\ ~dirs[c].there
      /\ capture' = capture => capture' = [capture EXCEPT ![c] = capture[c]]
  BY <1>1 DEF DirOK
<1>3. /\ scratch' \in [B!Runs -> [storage : BOOLEAN, server : BOOLEAN]]
      /\ \A r \in B!Runs : scratch'[r].server => scratch'[r].storage
  <2>1. c \in B!Runs
    BY DEF B!Runs
  <2>2. scratch[c].server => scratch[c].storage
    BY <2>1 DEF BInv, ChecksOK, B!ChecksTruthful
  <2> QED
    BY <2>1, <2>2, ScratchStep DEF B!RehearseCapture
<1>4. CASE UNCHANGED capture
  BY <1>1, <1>2, <1>3, <1>4, CaptureStep
<1>5. CASE B!To(c, "recheck", B!Partial(c))
  <2> DEFINE x == [capture[c] EXCEPT !.at = "recheck", !.content = capture[c].content]
  <2>1. capture' = [capture EXCEPT ![c] = x]
    BY <1>5 DEF B!To, B!Partial
  <2>2. x \in CaptureRows /\ x.at = "recheck" /\ x.content = capture[c].content /\ x.digest = capture[c].digest
    BY <1>1 DEF CaptureRows, B!Stages
  <2> HIDE DEF x
  <2>3. CaptureOK(x) /\ DirOK(x, dirs[c])
    BY <1>1, <1>2, <2>2 DEF CaptureOK, DirOK, Made
  <2> QED
    BY <1>1, <1>2, <1>3, <2>1, <2>2, <2>3, CaptureStep
<1>6. CASE B!To(c, "failed", B!Empty)
  <2> DEFINE x == [capture[c] EXCEPT !.at = "failed", !.content = B!Empty]
  <2>1. capture' = [capture EXCEPT ![c] = x]
    BY <1>6 DEF B!To
  <2>2. x \in CaptureRows /\ x.at = "failed"
    BY <1>1, EmptyContent DEF CaptureRows, B!Stages
  <2> HIDE DEF x
  <2>3. CaptureOK(x) /\ DirOK(x, dirs[c])
    BY <1>2, <2>2 DEF CaptureOK, DirOK, Made
  <2> QED
    BY <1>1, <1>2, <1>3, <2>1, <2>2, <2>3, CaptureStep
<1> QED
  BY <1>4, <1>5, <1>6 DEF B!RehearseCapture

\* What a step of check-integrity has to establish.
LEMMA CheckStep ==
  ASSUME BInv, UNCHANGED <<service, lock, capture, dirs>>,
         bcheck' \in [at : B!CheckAt, of : Captures, content : B!Content, manifest : B!Manifest, rehearsed : B!Content],
         scratch' \in [B!Runs -> [storage : BOOLEAN, server : BOOLEAN]],
         \A r \in B!Runs : scratch'[r].server => scratch'[r].storage,
         bcheck'.at = "rehearse" => bcheck'.content = bcheck'.manifest.files,
         bcheck'.at = "verified" => bcheck'.manifest = Described(bcheck'.rehearsed)
  PROVE  BInv'
<1>1. B!BackupsTypeOK' /\ ServiceOK' /\ ChecksOK'
  BY DEF BInv, B!BackupsTypeOK, ServiceOK, B!Capturing, ChecksOK, B!ChecksTruthful, B!Restored, Described
<1>2. \A c \in Captures : CaptureOK(capture[c])' /\ DirOK(capture[c], dirs[c])'
  BY DEF BInv, CaptureOK, DirOK
<1> QED
  BY <1>1, <1>2 DEF BInv

LEMMA ChecksStep ==
  ASSUME BInv,
         \/ \E c \in Captures : B!Snapshot(c)
         \/ B!SnapshotManifest \/ B!VerifyFiles \/ B!RehearseCheck
  PROVE  BInv'
<1> DEFINE Rows == [at : B!CheckAt, of : Captures, content : B!Content, manifest : B!Manifest, rehearsed : B!Content]
<1>1. /\ bcheck \in Rows /\ \A c \in Captures : dirs[c].content \in B!Content /\ dirs[c].manifest \in B!Manifest
      /\ scratch \in [B!Runs -> [storage : BOOLEAN, server : BOOLEAN]]
      /\ \A r \in B!Runs : scratch[r].server => scratch[r].storage
      /\ bcheck.at = "rehearse" => bcheck.content = bcheck.manifest.files
      /\ bcheck.at = "verified" => bcheck.manifest = Described(bcheck.rehearsed)
  BY DEF BInv, B!BackupsTypeOK, ChecksOK, B!ChecksTruthful, B!Restored, Described
<1>2. UNCHANGED <<service, lock, capture, dirs>>
  BY DEF B!Snapshot, B!SnapshotManifest, B!VerifyFiles, B!RehearseCheck
<1>3. ASSUME NEW c \in Captures, B!Snapshot(c) PROVE BInv'
  <2>1. bcheck' = [bcheck EXCEPT !.at = "manifest", !.of = c, !.content = dirs[c].content] /\ UNCHANGED scratch
    BY <1>3 DEF B!Snapshot
  <2>2. bcheck' \in Rows /\ bcheck'.at = "manifest"
    BY <1>1, <2>1 DEF B!CheckAt
  <2> QED
    BY <1>1, <1>2, <2>1, <2>2, CheckStep
<1>4. CASE B!SnapshotManifest
  <2>1. bcheck' = [bcheck EXCEPT !.at = "verify", !.manifest = dirs[bcheck.of].manifest] /\ UNCHANGED scratch
    BY <1>4 DEF B!SnapshotManifest
  <2>2. bcheck' \in Rows /\ bcheck'.at = "verify"
    BY <1>1, <2>1 DEF B!CheckAt
  <2> QED
    BY <1>1, <1>2, <2>1, <2>2, CheckStep
<1>5. CASE B!VerifyFiles
  <2>1. /\ \/ bcheck' = [bcheck EXCEPT !.at = "rehearse"] /\ bcheck.content = bcheck.manifest.files
           \/ bcheck' = [bcheck EXCEPT !.at = "refused"]
        /\ UNCHANGED scratch
    BY <1>5 DEF B!VerifyFiles, B!CheckTo
  <2>2. /\ bcheck' \in Rows /\ bcheck'.content = bcheck.content /\ bcheck'.manifest = bcheck.manifest
        /\ bcheck'.at = "refused" \/ (bcheck'.at = "rehearse" /\ bcheck.content = bcheck.manifest.files)
    BY <1>1, <2>1 DEF B!CheckAt
  <2> QED
    BY <1>1, <1>2, <2>1, <2>2, CheckStep
<1>6. CASE B!RehearseCheck
  <2>1. /\ scratch' \in [B!Runs -> [storage : BOOLEAN, server : BOOLEAN]]
        /\ \A r \in B!Runs : scratch'[r].server => scratch'[r].storage
    <3>1. B!Checker \in B!Runs
      BY DEF B!Runs
    <3> QED
      BY <1>1, <1>6, <3>1, ScratchStep DEF B!RehearseCheck
  <2>2. \/ UNCHANGED bcheck
        \/ /\ bcheck' = [bcheck EXCEPT !.at = "verified", !.rehearsed = bcheck.content]
           /\ bcheck.content.dump = bcheck.manifest.restored
        \/ bcheck' = [bcheck EXCEPT !.at = "refused", !.rehearsed = bcheck.content]
        \/ bcheck' = [bcheck EXCEPT !.at = "refused"]
    BY <1>6 DEF B!RehearseCheck, B!CheckTo, B!Rehearsed, B!Reproduced, B!Restored
  <2>3. bcheck.at = "rehearse"
    BY <1>6 DEF B!RehearseCheck
  <2>4. /\ bcheck' \in Rows /\ bcheck'.manifest = bcheck.manifest
        /\ \/ UNCHANGED bcheck
           \/ /\ bcheck'.at = "verified" /\ bcheck'.rehearsed = bcheck.content
              /\ bcheck.content.dump = bcheck.manifest.restored
           \/ bcheck'.at = "refused"
    BY <1>1, <2>2 DEF B!CheckAt
  <2>5. bcheck.content.dump = bcheck.manifest.restored => bcheck.manifest = Described(bcheck.content)
    BY <1>1, <2>3 DEF Described, B!Manifest
  <2> QED
    BY <1>1, <1>2, <2>1, <2>3, <2>4, <2>5, CheckStep
<1> QED
  BY <1>3, <1>4, <1>5, <1>6

LEMMA ServiceStep ==
  ASSUME MaxChange \in Nat, BInv, B!ServiceChanges \/ B!StartUpdate \/ B!FinishUpdate
  PROVE  BInv'
<1>1. /\ UNCHANGED <<capture, dirs, bcheck, scratch>>
      /\ service \in [env : B!Versions, assets : B!Versions, rows : B!Versions, release : B!Versions]
      /\ lock \in BOOLEAN /\ service.rows <= service.assets /\ (lock => ~B!Capturing)
  BY DEF B!ServiceChanges, B!StartUpdate, B!FinishUpdate, BInv, B!BackupsTypeOK, ServiceOK
<1>2. /\ service' \in [env : B!Versions, assets : B!Versions, rows : B!Versions, release : B!Versions]
      /\ lock' \in BOOLEAN /\ service'.rows <= service'.assets
      /\ service.rows <= service'.rows
      /\ service'.release = service.release \/ lock
      /\ lock' => ~B!Capturing
  <2>1. CASE B!ServiceChanges
    <3>1. CASE B!EditEnv
      BY <1>1, <2>1, <3>1 DEF B!ServiceChanges, B!EditEnv, B!Versions
    <3>2. CASE B!WriteAsset
      BY <1>1, <2>1, <3>2 DEF B!ServiceChanges, B!WriteAsset, B!Versions
    <3>3. CASE B!InsertAsset
      BY <1>1, <2>1, <3>3 DEF B!ServiceChanges, B!InsertAsset, B!Versions
    <3> QED
      BY <2>1, <3>1, <3>2, <3>3 DEF B!ServiceChanges
  <2>2. CASE B!StartUpdate
    BY <1>1, <2>2 DEF B!StartUpdate, B!Versions
  <2>3. CASE B!FinishUpdate
    <3>1. lock /\ lock' = FALSE
      BY <2>3 DEF B!FinishUpdate
    <3>2. /\ service' \in [env : B!Versions, assets : B!Versions, rows : B!Versions, release : B!Versions]
          /\ service'.rows = service.rows /\ service'.assets = service.assets
      <4>1. CASE service.release < MaxChange /\ service' = [service EXCEPT !.release = service.release + 1]
        <5>1. service.release + 1 \in B!Versions
          BY <1>1, <4>1 DEF B!Versions
        <5> QED
          BY <1>1, <4>1, <5>1
      <4>2. CASE UNCHANGED service
        BY <1>1, <4>2
      <4> QED
        BY <2>3, <4>1, <4>2 DEF B!FinishUpdate
    <3>3. service'.rows <= service'.assets /\ service.rows <= service'.rows
      BY <1>1, <3>2 DEF B!Versions
    <3> QED
      BY <3>1, <3>2, <3>3
  <2> QED
    BY <2>1, <2>2, <2>3
<1>3. B!BackupsTypeOK'
  BY <1>1, <1>2 DEF BInv, B!BackupsTypeOK
<1>4. ServiceOK' /\ ChecksOK'
  BY <1>1, <1>2 DEF BInv, ServiceOK, B!Capturing, ChecksOK, B!ChecksTruthful
<1>5. ASSUME NEW c \in Captures PROVE CaptureOK(capture[c])' /\ DirOK(capture[c], dirs[c])'
  <2>1. CaptureOK(capture[c]) /\ DirOK(capture[c], dirs[c])
    BY DEF BInv
  <2>2. lock => capture[c].at \in {"idle", "done", "failed"}
    BY <1>1 DEF B!Capturing
  <2>3. service.rows \in Nat /\ service'.rows \in Nat
    BY <1>1, <1>2 DEF B!Versions
  <2> QED
    BY <1>1, <1>2, <2>1, <2>2, <2>3 DEF CaptureOK, DirOK, Made, B!Versions
<1> QED
  BY <1>3, <1>4, <1>5 DEF BInv

\* The power goes: a directory that was reported made was flushed, and so is
\* every one there is.
LEMMA PowerStep ==
  ASSUME BInv, B!PowerLoss
  PROVE  BInv'
<1>1. PICK gone \in SUBSET Captures, torn \in SUBSET Captures :
        /\ \A c \in gone : ~dirs[c].durable
        /\ \A c \in torn : ~dirs[c].synced
        /\ dirs' = [c \in Captures |-> [dirs[c] EXCEPT !.there = @ /\ c \notin gone,
                                            !.content.dump = IF c \in torn THEN B!None ELSE @]]
  BY DEF B!PowerLoss
<1>2. /\ capture' = [c \in Captures |-> IF capture[c].at \in {"idle", "done"} THEN capture[c]
                                        ELSE [capture[c] EXCEPT !.at = "failed"]]
      /\ bcheck' = [bcheck EXCEPT !.at = "idle"]
      /\ scratch' = [r \in B!Runs |-> [scratch[r] EXCEPT !.server = FALSE]]
      /\ lock' = FALSE /\ UNCHANGED service
  BY DEF B!PowerLoss
<1>3. /\ \A c \in Captures : capture[c] \in CaptureRows /\ dirs[c] \in DirRows
      /\ \A c \in Captures : dirs[c].content \in B!Content
      /\ bcheck \in [at : B!CheckAt, of : Captures, content : B!Content, manifest : B!Manifest, rehearsed : B!Content]
      /\ scratch \in [B!Runs -> [storage : BOOLEAN, server : BOOLEAN]]
  BY DEF BInv, B!BackupsTypeOK, CaptureRows, DirRows
<1>4. ASSUME NEW c \in Captures
      PROVE  /\ dirs'[c] \in DirRows
             /\ dirs'[c].there <=> dirs[c].there /\ c \notin gone
             /\ dirs'[c].synced = dirs[c].synced /\ dirs'[c].durable = dirs[c].durable
             /\ dirs'[c].replaced = dirs[c].replaced /\ dirs'[c].manifest = dirs[c].manifest
             /\ c \notin torn => dirs'[c].content = dirs[c].content
  <2> DEFINE dump == IF c \in torn THEN B!None ELSE dirs[c].content.dump
             e == [dirs[c].content EXCEPT !.dump = dump]
             there == dirs[c].there /\ c \notin gone
             y == [dirs[c] EXCEPT !.there = there, !.content = e]
  <2>1. dump \in B!Versions \cup {B!None}
    BY <1>3 DEF B!Content
  <2>2. c \notin torn => dump = dirs[c].content.dump
    OBVIOUS
  <2>3. dirs'[c] = [dirs[c] EXCEPT !.there = @ /\ c \notin gone,
                                   !.content.dump = IF c \in torn THEN B!None ELSE @]
    BY <1>1
  <2>4. dirs'[c] = y
    BY <2>3, <1>3 DEF DirRows
  <2> HIDE DEF dump
  <2>5. e \in B!Content /\ (c \notin torn => e = dirs[c].content)
    BY <1>3, <2>1, <2>2 DEF B!Content
  <2>6. there \in BOOLEAN
    OBVIOUS
  <2> HIDE DEF e, there
  <2>7. /\ y \in DirRows /\ y.there = there /\ y.content = e
        /\ y.synced = dirs[c].synced /\ y.durable = dirs[c].durable
        /\ y.replaced = dirs[c].replaced /\ y.manifest = dirs[c].manifest
    BY <1>3, <2>5, <2>6 DEF DirRows
  <2> HIDE DEF y
  <2> QED
    BY <2>4, <2>5, <2>7 DEF there
<1>5. ASSUME NEW c \in Captures
      PROVE  /\ capture'[c] \in CaptureRows /\ capture'[c].digest = capture[c].digest
             /\ capture'[c].at \in {"idle", "done", "failed"}
             /\ capture'[c].at # "failed" => capture'[c] = capture[c]
             /\ capture[c].at \in {"flush", "done", "failed"} => capture'[c].at \in {"done", "failed"}
  BY <1>2, <1>3, ZenonT(120) DEF CaptureRows, B!Stages
<1>6. B!BackupsTypeOK'
  <2>1. capture' \in [Captures -> CaptureRows] /\ dirs' \in [Captures -> DirRows]
    BY <1>1, <1>2, <1>4, <1>5
  <2>2. bcheck' \in [at : B!CheckAt, of : Captures, content : B!Content, manifest : B!Manifest, rehearsed : B!Content]
    BY <1>2, <1>3 DEF B!CheckAt
  <2>3. scratch' \in [B!Runs -> [storage : BOOLEAN, server : BOOLEAN]]
    BY <1>2, <1>3
  <2> QED
    BY <1>2, <2>1, <2>2, <2>3 DEF BInv, B!BackupsTypeOK, CaptureRows, DirRows
<1>7. ServiceOK'
  BY <1>2 DEF BInv, ServiceOK
<1>8. ChecksOK'
  BY <1>2, <1>3 DEF ChecksOK, B!ChecksTruthful
<1>9. ASSUME NEW c \in Captures PROVE CaptureOK(capture[c])' /\ DirOK(capture[c], dirs[c])'
  <2>1. DirOK(capture[c], dirs[c])
    BY DEF BInv
  <2>2. CaptureOK(capture[c])'
    BY <1>5 DEF CaptureOK, Made
  <2>3. DirOK(capture[c], dirs[c])'
    <3>1. dirs'[c].there => /\ dirs[c].there /\ dirs[c].synced /\ dirs'[c].synced /\ c \notin torn
                            /\ dirs'[c].content = dirs[c].content
                            /\ capture'[c].at \in {"done", "failed"}
      BY <1>1, <1>4, <1>5, <2>1, ZenonT(120) DEF DirOK
    <3>2. capture'[c].at = "done" => dirs'[c].there /\ dirs'[c].durable
      <4>1. SUFFICES ASSUME capture'[c].at = "done" PROVE dirs'[c].there /\ dirs'[c].durable
        OBVIOUS
      <4>2. dirs[c].there /\ dirs[c].durable
        BY <4>1, <1>5, <2>1 DEF DirOK
      <4> QED
        BY <4>2, <1>1, <1>4, ZenonT(60)
    <3>3. capture'[c].at # "flush"
      BY <1>5
    <3> QED
      BY <1>4, <1>5, <2>1, <3>1, <3>2, <3>3 DEF DirOK
  <2> QED
    BY <2>2, <2>3
<1> QED
  BY <1>6, <1>7, <1>8, <1>9, SMTT(30) DEF BInv

LEMMA BackupsKeep ==
  ASSUME MaxChange \in Nat, BInv, [B!BackupsNext]_(B!backupVars)
  PROVE  BInv'
<1>1. CASE UNCHANGED B!backupVars
  BY <1>1 DEF B!backupVars, BInv, B!BackupsTypeOK, ServiceOK, B!Capturing, ChecksOK, B!ChecksTruthful, CaptureOK, DirOK
<1>2. CASE B!ServiceChanges \/ B!StartUpdate \/ B!FinishUpdate
  BY <1>2, ServiceStep
<1>3. ASSUME NEW c \in Captures,
             B!CopyConfig(c) \/ B!Dump(c) \/ B!CopyAssets(c) \/ B!CopyApplication(c) \/ B!Recheck(c)
      PROVE  BInv'
  BY <1>3, CopiesStep
<1>4. ASSUME NEW c \in Captures,
             B!Capture(c) \/ B!WriteManifest(c) \/ B!Publish(c) \/ B!SyncDestination(c) \/ B!Fail(c) \/ B!Overwrite(c)
      PROVE  BInv'
  BY <1>4, PublishesStep
<1>5. ASSUME NEW c \in Captures, B!RehearseCapture(c) PROVE BInv'
  BY <1>5, RehearsesStep
<1>6. CASE (\E c \in Captures : B!Snapshot(c)) \/ B!SnapshotManifest \/ B!VerifyFiles \/ B!RehearseCheck
  BY <1>6, ChecksStep
<1>7. CASE B!PowerLoss
  BY <1>7, PowerStep
<1> QED
  BY <1>1, <1>2, <1>3, <1>4, <1>5, <1>6, <1>7 DEF B!BackupsNext

---------------------------------------------------------------------------
(* Grants.  Between the statement that verifies a token and the one that   *)
(* uses it, the grant is the page that holds the slug, or will be bound to *)
(* it, unless the slug changed hands in between.                           *)

\* One page holds the slug, and a token that was never minted has no grant.
OneHolder ==
  /\ \A p, q \in G!LivePages : p = q
  /\ \A t \in Tokens : tokens[t].life = "none" => tokens[t].grant = G!Unbound

\* A request whose slug did not change hands since its token was verified.
RequestOK(c) ==
  LET r == request[c]
      g == tokens[r.token].grant
  IN r # G!Idle =>
       /\ r.at \in {"bind", "run"} /\ r.token \in Tokens /\ r.page \in 0..MaxPages /\ r.moved \in BOOLEAN
       /\ tokens[r.token].life # "none"
       /\ ~r.moved /\ r.at = "bind" => G!LivePages # {} /\ (g = G!Unbound \/ g \in G!LivePages)
       /\ ~r.moved /\ r.at = "run" => G!LivePages = {} \/ g \in G!LivePages

EffectOK == effect.page # 0 => effect.grant = effect.page \/ effect.moved

GInv == G!GrantsTypeOK /\ OneHolder /\ EffectOK /\ \A c \in Conns : RequestOK(c)

LEMMA GrantsStart == ASSUME MaxPages \in Nat PROVE G!GrantsInit => GInv
<1> SUFFICES ASSUME G!GrantsInit PROVE GInv
  OBVIOUS
<1> USE DEF G!GrantsInit, G!Idle, G!Unbound
<1>1. G!GrantsTypeOK
  BY DEF G!GrantsTypeOK, G!Requests, G!Links
<1>2. OneHolder /\ EffectOK
  BY DEF OneHolder, EffectOK, G!LivePages
<1>3. \A c \in Conns : RequestOK(c)
  BY DEF RequestOK
<1> QED
  BY <1>1, <1>2, <1>3 DEF GInv

LEMMA TokensStep ==
  ASSUME MaxPages \in Nat, GInv, NEW t \in Tokens, G!Mint(t) \/ G!Revoke(t)
  PROVE  /\ GInv'
         /\ \A u \in Tokens : tokens[u].grant # G!Unbound => tokens'[u].grant = tokens[u].grant
<1>1. UNCHANGED <<gpages, glinks, request, effect>>
  BY DEF G!Mint, G!Revoke
<1>2. /\ tokens' \in [Tokens -> [life : {"none", "live", "revoked"}, grant : 0..MaxPages]]
      /\ \A u \in Tokens : tokens[u].life # "none" => tokens'[u].life # "none" /\ tokens'[u].grant = tokens[u].grant
      /\ \A u \in Tokens : tokens'[u].life = "none" => tokens'[u].grant = tokens[u].grant /\ tokens[u].life = "none"
  <2>1. tokens \in [Tokens -> [life : {"none", "live", "revoked"}, grant : 0..MaxPages]]
    BY DEF GInv, G!GrantsTypeOK
  <2>2. CASE G!Mint(t)
    BY <2>1, <2>2 DEF G!Mint, G!LivePages, G!PageRows, G!Unbound
  <2>3. CASE G!Revoke(t)
    BY <2>1, <2>3 DEF G!Revoke
  <2> QED
    BY <2>2, <2>3
<1>3. G!GrantsTypeOK'
  BY <1>1, <1>2 DEF GInv, G!GrantsTypeOK
<1>4. OneHolder' /\ EffectOK'
  BY <1>1, <1>2 DEF GInv, OneHolder, EffectOK, G!LivePages
<1>5. ASSUME NEW c \in Conns PROVE RequestOK(c)'
  BY <1>1, <1>2 DEF GInv, RequestOK, G!LivePages
<1> QED
  BY <1>2, <1>3, <1>4, <1>5 DEF GInv, OneHolder

LEMMA HandsStep ==
  ASSUME MaxPages \in Nat, GInv, NEW p \in G!PageRows,
         G!CreatePage(p) \/ G!DeletePage(p) \/ G!RestorePage(p)
  PROVE  GInv' /\ UNCHANGED <<tokens, effect>>
<1>1. PICK life \in {"live", "deleted"} : G!Hand(p, life) /\ (life = "live" => G!LivePages = {})
  BY DEF G!CreatePage, G!DeletePage, G!RestorePage
<1>2. /\ gpages' = [gpages EXCEPT ![p] = life] /\ UNCHANGED <<tokens, glinks, effect>>
      /\ request' = [c \in Conns |-> IF request[c] = G!Idle THEN G!Idle ELSE [request[c] EXCEPT !.moved = TRUE]]
  BY <1>1 DEF G!Hand
<1>3. gpages' \in [G!PageRows -> {"none", "live", "deleted"}]
  BY <1>2 DEF GInv, G!GrantsTypeOK
<1>4. OneHolder'
  BY <1>1, <1>2 DEF GInv, OneHolder, G!LivePages, G!GrantsTypeOK
<1>5. ASSUME NEW c \in Conns, request[c] # G!Idle
      PROVE  /\ request'[c] \in G!Requests /\ request'[c].moved
             /\ request'[c].at = request[c].at /\ request'[c].token = request[c].token
             /\ request'[c].page = request[c].page
  <2>1. request[c] \in [at : {"idle", "bind", "run"}, token : Tokens, page : 0..MaxPages, moved : BOOLEAN]
    BY <1>5 DEF GInv, G!GrantsTypeOK, G!Requests
  <2> QED
    BY <1>2, <1>5, <2>1 DEF G!Requests
<1>6. \A c \in Conns : request[c] = G!Idle => request'[c] = G!Idle
  BY <1>2
<1>7. G!GrantsTypeOK'
  <2>1. request' \in [Conns -> G!Requests]
    <3>1. \A c \in Conns : request'[c] \in G!Requests
      BY <1>5, <1>6 DEF G!Requests
    <3> QED
      BY <1>2, <3>1
  <2> QED
    BY <1>2, <1>3, <2>1 DEF GInv, G!GrantsTypeOK
<1>8. ASSUME NEW c \in Conns PROVE RequestOK(c)'
  <2>1. CASE request[c] = G!Idle
    BY <2>1, <1>6 DEF RequestOK, G!Idle
  <2>2. CASE request[c] # G!Idle
    BY <2>2, <1>2, <1>5, ZenonT(120) DEF GInv, RequestOK
  <2> QED
    BY <2>1, <2>2
<1> QED
  BY <1>2, <1>4, <1>7, <1>8 DEF GInv, EffectOK

\* A request that starts, goes on or ends leaves the others as they were.
LEMMA OneRequest ==
  ASSUME GInv, NEW c \in Conns, NEW r \in G!Requests, G!Go(c, r), UNCHANGED gpages
  PROVE  /\ request' \in [Conns -> G!Requests]
         /\ request'[c] = r
         /\ \A d \in Conns \ {c} : request'[d] = request[d]
         /\ UNCHANGED tokens => \A d \in Conns \ {c} : RequestOK(d)'
<1>1. /\ request' \in [Conns -> G!Requests]
      /\ request'[c] = r
      /\ \A d \in Conns \ {c} : request'[d] = request[d]
  BY DEF GInv, G!GrantsTypeOK, G!Go
<1>2. ASSUME UNCHANGED tokens, NEW d \in Conns \ {c} PROVE RequestOK(d)'
  BY <1>1, <1>2 DEF GInv, RequestOK, G!LivePages
<1> QED
  BY <1>1, <1>2

LEMMA LoadStep ==
  ASSUME MaxPages \in Nat, GInv, NEW c \in Conns, NEW t \in Tokens,
         NEW for \in 0..MaxPages, G!LoadActiveToken(c, t, for)
  PROVE  GInv' /\ UNCHANGED <<tokens, effect>>
<1> DEFINE stage == IF G!Bindable(t) THEN "bind" ELSE "run"
           r == [at |-> stage, token |-> t, page |-> for, moved |-> FALSE]
<1>1. /\ G!Go(c, r) /\ tokens[t].life = "live" /\ G!Allowed(t)
      /\ UNCHANGED <<tokens, gpages, glinks, effect>>
  BY DEF G!LoadActiveToken
<1>2. r \in G!Requests
  BY DEF G!Requests
<1>3. RequestOK(c)'
  <2>1. /\ r.at = stage /\ r.token = t /\ r.page = for /\ r.moved = FALSE
        /\ stage \in {"bind", "run"}
    OBVIOUS
  <2>2. stage = "bind" => G!LivePages # {} /\ tokens[t].grant = G!Unbound
    BY DEF G!Bindable
  <2>3. stage = "run" => G!LivePages = {} \/ tokens[t].grant \in G!LivePages
    BY <1>1 DEF G!Bindable, G!Allowed
  <2> HIDE DEF stage, r
  <2>4. request'[c] = r
    BY <1>1, <1>2, OneRequest
  <2> QED
    BY <1>1, <2>1, <2>2, <2>3, <2>4 DEF RequestOK, G!LivePages
<1> HIDE DEF r
<1>4. request' \in [Conns -> G!Requests] /\ \A d \in Conns \ {c} : RequestOK(d)'
  BY <1>1, <1>2, OneRequest
<1>5. G!GrantsTypeOK'
  BY <1>1, <1>4 DEF GInv, G!GrantsTypeOK
<1>6. OneHolder' /\ EffectOK'
  BY <1>1 DEF GInv, OneHolder, EffectOK, G!LivePages
<1> QED
  BY <1>1, <1>3, <1>4, <1>5, <1>6 DEF GInv

LEMMA BindStep ==
  ASSUME MaxPages \in Nat, GInv, NEW c \in Conns, G!Bind(c)
  PROVE  /\ GInv' /\ UNCHANGED effect
         /\ \A t \in Tokens : tokens[t].grant # G!Unbound => tokens'[t].grant = tokens[t].grant
<1> DEFINE t == request[c].token
           r == [request[c] EXCEPT !.at = "run"]
<1>1. /\ request[c].at = "bind" /\ G!Go(c, r) /\ UNCHANGED <<gpages, glinks, effect>>
      /\ \/ /\ tokens[t].grant = G!Unbound
            /\ \E p \in G!LivePages : tokens' = [tokens EXCEPT ![t].grant = p]
         \/ /\ tokens[t].grant # G!Unbound \/ G!LivePages = {}
            /\ UNCHANGED tokens
  BY DEF G!Bind
<1>2. /\ request[c] # G!Idle /\ RequestOK(c) /\ t \in Tokens
      /\ request[c].page \in 0..MaxPages /\ request[c].moved \in BOOLEAN
      /\ tokens[t].life # "none"
  BY <1>1 DEF GInv, RequestOK, G!Idle
<1>3. /\ r \in G!Requests /\ r.at = "run" /\ r.token = t
      /\ r.page = request[c].page /\ r.moved = request[c].moved
  <2>1. request[c] \in [at : {"idle", "bind", "run"}, token : Tokens, page : 0..MaxPages, moved : BOOLEAN]
    BY <1>2 DEF GInv, G!GrantsTypeOK, G!Requests
  <2> QED
    BY <2>1 DEF G!Requests
<1> HIDE DEF r
<1>4. /\ tokens' \in [Tokens -> [life : {"none", "live", "revoked"}, grant : 0..MaxPages]]
      /\ \A u \in Tokens : tokens'[u].life = tokens[u].life
      /\ \A u \in Tokens : u # t => tokens'[u].grant = tokens[u].grant
      /\ tokens[t].grant # G!Unbound => tokens'[t].grant = tokens[t].grant
      /\ G!LivePages # {} /\ tokens[t].grant = G!Unbound => tokens'[t].grant \in G!LivePages
  <2>1. tokens \in [Tokens -> [life : {"none", "live", "revoked"}, grant : 0..MaxPages]]
    BY DEF GInv, G!GrantsTypeOK
  <2>2. G!LivePages \subseteq 0..MaxPages
    BY DEF G!LivePages, G!PageRows
  <2>3. CASE tokens[t].grant # G!Unbound \/ G!LivePages = {}
    <3>1. UNCHANGED tokens
      BY <1>1, <2>3
    <3> QED
      BY <2>1, <2>3, <3>1
  <2>4. ASSUME tokens[t].grant = G!Unbound,
               NEW p \in G!LivePages, tokens' = [tokens EXCEPT ![t].grant = p]
        PROVE  <1>4
    BY <1>2, <2>1, <2>2, <2>4
  <2> QED
    BY <1>1, <2>3, <2>4
<1>5. /\ request' \in [Conns -> G!Requests] /\ request'[c] = r
      /\ \A d \in Conns \ {c} : request'[d] = request[d]
  BY <1>1, <1>3, OneRequest
<1>6. G!LivePages' = G!LivePages
  BY <1>1 DEF G!LivePages
<1>7. RequestOK(c)'
  BY <1>1, <1>2, <1>3, <1>4, <1>5, <1>6 DEF RequestOK
<1>8. ASSUME NEW d \in Conns, d # c PROVE RequestOK(d)'
  <2> DEFINE u == request[d].token
  <2>1. CASE request[d] = G!Idle
    BY <1>5, <1>8, <2>1 DEF RequestOK, G!Idle
  <2>2. CASE request[d] # G!Idle
    <3>1. RequestOK(d) /\ request'[d] = request[d] /\ u \in Tokens
      BY <1>5, <1>8, <2>2 DEF GInv, RequestOK
    <3>2. tokens'[u].life # "none"
      BY <1>4, <2>2, <3>1 DEF RequestOK
    <3>3. \/ tokens'[u].grant = tokens[u].grant
          \/ tokens[u].grant = G!Unbound /\ (G!LivePages # {} => tokens'[u].grant \in G!LivePages)
      BY <1>4, <3>1
    <3>4. G!Unbound \notin G!LivePages
      BY DEF G!Unbound, G!LivePages, G!PageRows
    <3> QED
      BY <1>6, <2>2, <3>1, <3>2, <3>3, <3>4 DEF RequestOK
  <2> QED
    BY <2>1, <2>2
<1>9. G!GrantsTypeOK' /\ EffectOK'
  BY <1>1, <1>4, <1>5 DEF GInv, G!GrantsTypeOK, EffectOK
<1>10. OneHolder'
  BY <1>2, <1>4, <1>6 DEF GInv, OneHolder
<1> QED
  BY <1>1, <1>4, <1>7, <1>8, <1>9, <1>10 DEF GInv

\* What a request writes or downloads is the one page that is live.
LEMMA RunStep ==
  ASSUME MaxPages \in Nat, GInv, NEW c \in Conns,
         G!WriteData(c) \/ G!MintLink(c) \/ G!Download(c)
  PROVE  GInv' /\ UNCHANGED tokens
<1>1. /\ request[c].at = "run" /\ G!Go(c, G!Idle) /\ UNCHANGED <<tokens, gpages>>
      /\ \/ UNCHANGED effect
         \/ \E p \in G!LivePages : G!Effect(c, p)
  BY DEF G!WriteData, G!MintLink, G!Download, G!End
<1>2. /\ RequestOK(c) /\ request[c] # G!Idle /\ request[c].token \in Tokens
      /\ request[c].moved \in BOOLEAN
      /\ tokens[request[c].token].grant \in 0..MaxPages
  BY <1>1 DEF GInv, RequestOK, G!Idle, G!GrantsTypeOK
<1>3. EffectOK' /\ effect' \in [grant : 0..MaxPages, page : 0..MaxPages, moved : BOOLEAN]
  <2>1. CASE UNCHANGED effect
    BY <2>1 DEF GInv, G!GrantsTypeOK, EffectOK
  <2>2. ASSUME NEW p \in G!LivePages, G!Effect(c, p) PROVE <1>3
    <3>1. ~request[c].moved => tokens[request[c].token].grant = p
      BY <1>1, <1>2, <2>2 DEF RequestOK, GInv, OneHolder
    <3>2. p \in 0..MaxPages
      BY DEF G!LivePages, G!PageRows
    <3> QED
      BY <1>2, <2>2, <3>1, <3>2 DEF G!Effect, EffectOK
  <2> QED
    BY <1>1, <2>1, <2>2
<1>4. glinks' \subseteq G!Links
  <2>1. CASE UNCHANGED glinks
    BY <2>1 DEF GInv, G!GrantsTypeOK
  <2>2. CASE G!MintLink(c)
    BY <1>2, <2>2 DEF G!MintLink, GInv, G!GrantsTypeOK, G!Links, G!LivePages
  <2> QED
    BY <2>1, <2>2 DEF G!WriteData, G!Download
<1>5. G!Idle \in G!Requests
  BY DEF G!Requests
<1>6. /\ request' \in [Conns -> G!Requests] /\ request'[c] = G!Idle
      /\ \A d \in Conns \ {c} : RequestOK(d)'
  BY <1>1, <1>5, OneRequest
<1>7. RequestOK(c)'
  BY <1>6 DEF RequestOK, G!Idle
<1>8. G!GrantsTypeOK' /\ OneHolder'
  BY <1>1, <1>3, <1>4, <1>6 DEF GInv, G!GrantsTypeOK, OneHolder, G!LivePages
<1> QED
  BY <1>1, <1>3, <1>6, <1>7, <1>8 DEF GInv

LEMMA GrantsKeep ==
  ASSUME MaxPages \in Nat, GInv, G!GrantsNext
  PROVE  /\ GInv'
         /\ \A t \in Tokens : tokens[t].grant # G!Unbound => tokens'[t].grant = tokens[t].grant
<1> DEFINE Kept == \A t \in Tokens : tokens[t].grant # G!Unbound => tokens'[t].grant = tokens[t].grant
<1>1. ASSUME NEW t \in Tokens, G!Mint(t) \/ G!Revoke(t) PROVE GInv' /\ Kept
  BY <1>1, TokensStep
<1>2. ASSUME NEW c \in Conns, NEW t \in Tokens, G!LoadActiveToken(c, t, 0) PROVE GInv' /\ Kept
  BY <1>2, LoadStep
<1>3. ASSUME NEW c \in Conns, NEW l \in glinks, G!LoadActiveToken(c, l.token, l.page)
      PROVE  GInv' /\ Kept
  <2>1. l.token \in Tokens /\ l.page \in 0..MaxPages
    BY DEF GInv, G!GrantsTypeOK, G!Links, G!PageRows
  <2> QED
    BY <1>3, <2>1, LoadStep
<1>4. ASSUME NEW c \in Conns, G!Bind(c) PROVE GInv' /\ Kept
  BY <1>4, BindStep
<1>5. ASSUME NEW c \in Conns, G!WriteData(c) \/ G!MintLink(c) \/ G!Download(c) PROVE GInv' /\ Kept
  BY <1>5, RunStep
<1>6. ASSUME NEW l \in glinks, G!ExpireLink(l) PROVE GInv' /\ Kept
  BY <1>6 DEF G!ExpireLink, GInv, G!GrantsTypeOK, OneHolder, EffectOK, RequestOK, G!LivePages
<1>7. ASSUME NEW p \in G!PageRows, G!CreatePage(p) \/ G!DeletePage(p) \/ G!RestorePage(p)
      PROVE  GInv' /\ Kept
  BY <1>7, HandsStep
<1> QED
  BY <1>1, <1>2, <1>3, <1>4, <1>5, <1>6, <1>7 DEF G!GrantsNext

---------------------------------------------------------------------------
(* The estate.                                                             *)

\* One part of the estate moves at a time.
LEMMA Parts ==
  ASSUME [Next]_vars
  PROVE  /\ [W!WorkspacesNext]_wv /\ [M!MigrationsNext]_mv
         /\ [B!BackupsNext]_bv /\ [G!GrantsNext]_gv
         /\ [K!LinksNext]_kv /\ [A!AnswersNext]_av /\ [I!BootNext]_iv
         /\ [L!LimitsNext]_lv /\ [H!HealthNext]_hv /\ [T!TemplatesNext]_tv
         /\ [API!SurfacesNext]_input /\ [C!SchedulesNext]_question
         /\ active' = active
<1>1. CASE UNCHANGED vars
  BY <1>1 DEF vars, qv
<1>2. CASE Next
  BY <1>2 DEF Next, HealthStep, TemplatesStep, WorkspacesStep, GrantsStep,
              BackupsStep, BootstrapStep, LimitsStep, LinksStep, AnswersStep, MigrationsStep,
              SurfacesStep, CalendarStep, qv
<1> QED
  BY <1>1, <1>2

\* The audit entries of a page say which workspace it is in, and that one
\* exists, however assignments, creations and removals interleave at their row
\* locks (internal/workspaces: AssignPage, Remove).
THEOREM MembershipIsAudited == ASSUME WorkspaceIds PROVE Spec => []MembershipAudited
<1>1. Init => WInv
  BY WorkspacesStart DEF Init
<1>2. WInv /\ [Next]_vars => WInv'
  <2> SUFFICES ASSUME WInv, [Next]_vars PROVE WInv'
    OBVIOUS
  <2>1. [W!WorkspacesNext]_wv
    BY Parts
  <2> QED
    BY <2>1, WorkspacesKeep DEF wv, W!workspaceVars
<1>3. WInv => MembershipAudited
  BY DEF WInv, MembershipAudited
<1> QED
  BY <1>1, <1>2, <1>3, PTL DEF Spec

\* A migration is committed once, with its row; a release's files are applied
\* in order; an automatic update applies only what its release declares
\* compatible; and all of it whatever runs at the same time, dies or loses the
\* answer of a commit (internal/migrate, ops/compat).
THEOREM MigrationsAreWhole == ASSUME MigrationFiles PROVE Spec => []MigrationsHold
<1>1. Init => MInv
  BY MigrationsStart DEF Init
<1>2. MInv /\ [Next]_vars => MInv'
  <2> SUFFICES ASSUME MInv, [Next]_vars PROVE MInv'
    OBVIOUS
  <2>1. [M!MigrationsNext]_mv
    BY Parts
  <2> QED
    BY <2>1, MigrationsKeep DEF mv, M!migrationVars
<1>3. MInv => MigrationsHold
  BY DEF MInv, MigrationsHold
<1> QED
  BY <1>1, <1>2, <1>3, PTL DEF Spec

\* A published backup that nobody overwrote is whole and can be restored, also
\* after the power went, and check-integrity says "verified" of the bytes it
\* rehearsed; the storage of a scratch server outlives the server
\* (ops/backup: Create, Check, Rehearse).
THEOREM BackupsHeld == ASSUME MaxChange \in Nat, Captures # {} PROVE Spec => []BackupsHold
<1>1. Init => BInv
  BY BackupsStart DEF Init
<1>2. BInv /\ [Next]_vars => BInv'
  <2> SUFFICES ASSUME BInv, [Next]_vars PROVE BInv'
    OBVIOUS
  <2>1. [B!BackupsNext]_bv
    BY Parts
  <2> QED
    BY <2>1, BackupsKeep DEF bv, B!backupVars
<1>3. BInv => BackupsHold
  BY BackupsEnd DEF BackupsHold
<1> QED
  BY <1>1, <1>2, <1>3, PTL DEF Spec

\* "once bound, a grant NEVER re-binds" (migrations/011), and what a token
\* writes or downloads is the page its grant is bound to, unless the slug
\* changed hands after that request's token was verified: for every number of
\* connections, tokens and pages that held the slug (tokens.LoadActiveToken,
\* the data tools, dataexport).
THEOREM GrantsAreHeld == ASSUME MaxPages \in Nat PROVE Spec => GrantsHold
<1> DEFINE Held == /\ \A t \in Tokens : tokens[t].grant # G!Unbound => tokens'[t].grant = tokens[t].grant
                   /\ effect'.page # 0 => effect'.grant = effect'.page \/ effect'.moved
<1>1. Init => GInv
  BY GrantsStart DEF Init
<1>2. ASSUME GInv, [Next]_vars PROVE GInv' /\ [Held]_(G!grantVars)
  <2>1. [G!GrantsNext]_gv
    BY <1>2, Parts
  <2>2. CASE G!GrantsNext
    BY <1>2, <2>2, GrantsKeep DEF GInv, EffectOK
  <2>3. CASE UNCHANGED gv
    BY <1>2, <2>3 DEF gv, G!grantVars, GInv, G!GrantsTypeOK, OneHolder, EffectOK, RequestOK, G!LivePages
  <2> QED
    BY <2>1, <2>2, <2>3
<1>3. GInv /\ [Next]_vars => GInv' /\ [Held]_(G!grantVars)
  BY <1>2
<1> QED
  BY <1>1, <1>3, PTL DEF Spec, GrantsHold, G!GrantsHold

=============================================================================
