------------------------- MODULE ActivationProofs -------------------------
(***************************************************************************)
(* Proofs about Activation: for any writers and any hosts, every report    *)
(* the updater makes is true, and the new release never runs on a schema   *)
(* that lacks its migrations.                                              *)
(***************************************************************************)
EXTENDS Activation, TLAPS

(***************************************************************************)
(* Neither property is inductive: what a report says depends on the steps  *)
(* made before it.  The invariant says, for each place of the updater,     *)
(* what is done by then: before the switch nothing is touched, during it   *)
(* the files that were written, during a restoration that has not failed   *)
(* so far the files that were put back.                                    *)
(***************************************************************************)
Stopped  == {"unfence", "move", "share assets", "share env", "switch", "unit", "cli", "reload", "start"}
Restoring == {"relink", "restore link", "restore unit", "restore cli", "restore reload", "restore start"}
Places == Running \cup Restoring \cup {"done", "end", "dead", "cleanup", "restore stop", "report"}

Typed ==
  /\ host \in [legacy : BOOLEAN, force : BOOLEAN] /\ pc \in Places
  /\ switching \in BOOLEAN /\ restored \in BOOLEAN
  /\ proc \in {"none", "old", "new"} /\ link \in {"dir", "absent", "old", "new"}
  /\ files \in [{"unit", "loaded", "cli"} -> {"old", "new"}]
  /\ shared \in [Shared -> {"home", "moved", "linked"}]
  /\ schema \in {"old", "new"}
  /\ outcome \in {"none", "updated", "untouched", "recovered", "attention"}

\* The switch begins after the migrations and ends with a report.
Switching ==
  /\ pc \in Stopped \cup {"stop", "verify", "restore stop"} \cup Restoring => switching
  /\ switching => schema = "new"
  /\ switching => pc \in Stopped \cup {"stop", "verify", "cleanup", "restore stop", "report", "end", "dead"} \cup Restoring
  /\ link = "new" => schema = "new"
  /\ proc = "new" => schema = "new"

\* What the updater has not begun to switch is as it was.
Untouched ==
  ~switching /\ pc \notin {"done", "end", "dead"} =>
    /\ proc = "old" /\ files = Installed
    /\ link = IF host.legacy THEN "dir" ELSE "old"
    /\ \A x \in Shared : shared[x] = IF host.legacy THEN "home" ELSE "linked"

\* The switch, step by step.
Shares ==
  /\ ~host.legacy => \A x \in Shared : shared[x] = "linked"
  /\ pc = "share env" => shared["assets"] = "linked"
  /\ pc \in {"switch", "unit", "cli", "reload", "start", "verify", "done"} =>
       \A x \in Shared : shared[x] = "linked"

Switched ==
  /\ pc \in Stopped => proc = "none"
  /\ pc = "verify" => proc = "new"
  /\ pc \in {"unit", "cli", "reload", "start", "verify"} => link = "new"
  /\ pc \in {"cli", "reload", "start", "verify"} => files["unit"] = "new"
  /\ pc \in {"reload", "start", "verify"} => files["cli"] = "new"
  /\ pc \in {"start", "verify"} => files["loaded"] = "new"

\* A restoration that has not failed so far, step by step.
Restored ==
  restored =>
    /\ pc \in Restoring => proc = "none"
    /\ pc \in {"restore link", "restore unit", "restore cli", "restore reload", "restore start"} =>
         \A x \in Shared : shared[x] # "moved"
    /\ pc \in {"restore unit", "restore cli", "restore reload", "restore start"} => link \in {"old", "dir"}
    /\ pc \in {"restore cli", "restore reload", "restore start"} => files["unit"] = "old"
    /\ pc \in {"restore reload", "restore start"} => files["cli"] = "old"
    /\ pc = "restore start" => files["loaded"] = "old"
    /\ pc = "report" /\ switching /\ proc # "none" => Complete("old")

Reported ==
  /\ pc = "done" => Complete("new")
  /\ pc = "end" /\ outcome \in {"recovered", "untouched"} => Complete("old")
  /\ outcome \in {"recovered", "untouched"} => pc = "end"

IInv == Typed /\ Switching /\ Untouched /\ Shares /\ Switched /\ Restored /\ Reported
---------------------------------------------------------------------------
(* Every step keeps the invariant.                                         *)

\* The updater starts with an untouched installation.
LEMMA Begins == Init => IInv
<1> SUFFICES ASSUME Init PROVE IInv
  OBVIOUS
<1>1. host \in [legacy : BOOLEAN, force : BOOLEAN]
  BY UpdateAssumption DEF Init, Hosts
<1>2. files \in [{"unit", "loaded", "cli"} -> {"old", "new"}]
  BY DEF Init, Installed
<1>3. Typed
  BY <1>1, <1>2 DEF Init, Typed, Places, Running, Shared
<1>4. Switching /\ Untouched /\ Shares /\ Switched /\ Restored /\ Reported
  BY DEF Init, Switching, Untouched, Shares, Switched, Restored, Reported, Stopped, Restoring, Shared
<1> QED BY <1>3, <1>4 DEF IInv

\* The steps that may succeed.
LEMMA SwitchKeeps == IInv /\ MaySucceed => IInv'
<1> SUFFICES ASSUME IInv, MaySucceed PROVE IInv'
  OBVIOUS
<1> USE DEF IInv, Typed, Switching, Untouched, Shares, Switched, Restored, Reported, Complete, Installed, Places, Running, Restoring, Stopped, Shared
<1>1. CASE Preflight
  BY <1>1 DEF Preflight, Step, Quiet, service, fence, requests
<1>2. CASE WriteMarker("fence", "idle", "draining")
  BY <1>2 DEF WriteMarker, Step, Quiet, service, requests
<1>3. CASE CheckIdle("idle", "quiesce")
  BY <1>3 DEF CheckIdle, Step, Quiet, service, fence, requests
<1>4. CASE WriteMarker("quiesce", "idle again", "quiesced")
  <2> USE <1>4 DEF WriteMarker, Step, Quiet, service, requests
  <2>1. Typed'
    OBVIOUS
  <2>2. Switching'
    OBVIOUS
  <2>3. Untouched'
    OBVIOUS
  <2>4. Shares'
    OBVIOUS
  <2>5. Switched'
    OBVIOUS
  <2>6. Restored'
    OBVIOUS
  <2>7. Reported'
    OBVIOUS
  <2> QED BY <2>1, <2>2, <2>3, <2>4, <2>5, <2>6, <2>7 DEF IInv
<1>5. CASE CheckIdle("idle again", "migrate")
  <2> USE <1>5 DEF CheckIdle, Step, Quiet, service, fence, requests
  <2>1. Typed'
    OBVIOUS
  <2>2. Switching'
    OBVIOUS
  <2>3. Untouched'
    OBVIOUS
  <2>4. Shares'
    OBVIOUS
  <2>5. Switched'
    OBVIOUS
  <2>6. Restored'
    OBVIOUS
  <2>7. Reported'
    OBVIOUS
  <2> QED BY <2>1, <2>2, <2>3, <2>4, <2>5, <2>6, <2>7 DEF IInv
<1>6. CASE Migrate
  BY <1>6 DEF Migrate, Step, Quiet, fence, requests
<1>7. CASE Stop("stop", "unfence")
  BY <1>7 DEF Stop, Step, fence
<1>8. CASE RemoveMarker("unfence", IF host.legacy THEN "move" ELSE "switch")
  BY <1>8 DEF RemoveMarker, Step, Quiet, service, requests
<1>9. CASE MoveAside
  BY <1>9 DEF MoveAside, Step, Quiet, fence, requests
<1>10. CASE Share("assets", "share assets", "share env")
  <2> USE <1>10 DEF Share, Quiet, fence, requests
  <2>1. Typed'
    OBVIOUS
  <2>2. Switching'
    OBVIOUS
  <2>3. Untouched'
    OBVIOUS
  <2>4. Shares'
    OBVIOUS
  <2>5. Switched'
    OBVIOUS
  <2>6. Restored'
    OBVIOUS
  <2>7. Reported'
    OBVIOUS
  <2> QED BY <2>1, <2>2, <2>3, <2>4, <2>5, <2>6, <2>7 DEF IInv
<1>11. CASE Share("env", "share env", "switch")
  <2> USE <1>11 DEF Share, Quiet, fence, requests
  <2>1. Typed'
    BY ZenonT(60)
  <2>2. Switching'
    OBVIOUS
  <2>3. Untouched'
    OBVIOUS
  <2>4. Shares'
    OBVIOUS
  <2>5. Switched'
    OBVIOUS
  <2>6. Restored'
    OBVIOUS
  <2>7. Reported'
    OBVIOUS
  <2> QED BY <2>1, <2>2, <2>3, <2>4, <2>5, <2>6, <2>7 DEF IInv
<1>12. CASE SwitchLink("switch", "unit", "new")
  BY <1>12 DEF SwitchLink, Step, Quiet, fence, requests
<1>13. CASE WriteFile("unit", "cli", "unit", "new")
  BY <1>13 DEF WriteFile, Step, Quiet, fence, requests
<1>14. CASE WriteFile("cli", "reload", "cli", "new")
  BY <1>14 DEF WriteFile, Step, Quiet, fence, requests
<1>15. CASE WriteFile("reload", "start", "loaded", files.unit)
  BY <1>15 DEF WriteFile, Step, Quiet, fence, requests
<1>16. CASE Start("start", "verify")
  BY <1>16 DEF Start, Step, Quiet, fence, requests
<1>17. CASE Verify
  BY <1>17 DEF Verify, Step, fence, service, requests
<1> QED BY <1>1, <1>2, <1>3, <1>4, <1>5, <1>6, <1>7, <1>8, <1>9, <1>10, <1>11, <1>12, <1>13, <1>14, <1>15, <1>16, <1>17 DEF MaySucceed

\* Relinking keeps the types.
LEMMA RelinkTyped ==
  ASSUME IInv, Relink
  PROVE  Typed'
<1>1. shared' \in [Shared -> {"home", "moved", "linked"}]
  BY DEF IInv, Typed, Relink, Tried, Step, service
<1>2. /\ pc' \in Restoring /\ restored' \in BOOLEAN
      /\ UNCHANGED <<host, switching, proc, link, files, schema, outcome>>
  BY DEF IInv, Typed, Relink, Tried, Step, service, Restoring
<1> QED BY <1>1, <1>2 DEF IInv, Typed, Places

\* The steps of cleanup.
LEMMA CleanupKeeps == IInv /\ Cleanup => IInv'
<1> SUFFICES ASSUME IInv, Cleanup PROVE IInv'
  OBVIOUS
<1> USE DEF IInv, Typed, Switching, Untouched, Shares, Switched, Restored, Reported, Complete, Installed, Places, Running, Restoring, Stopped, Shared
<1>1. CASE CleanupUnfence
  <2> USE <1>1 DEF CleanupUnfence, RemoveMarker, Step, Quiet, service, requests
  <2>1. Typed'
    BY ZenonT(60)
  <2>2. Switching'
    OBVIOUS
  <2>3. Untouched'
    OBVIOUS
  <2>4. Shares'
    OBVIOUS
  <2>5. Switched'
    OBVIOUS
  <2>6. Restored'
    OBVIOUS
  <2>7. Reported'
    OBVIOUS
  <2> QED BY <2>1, <2>2, <2>3, <2>4, <2>5, <2>6, <2>7 DEF IInv
<1>2. CASE RestoreStop
  <2> USE <1>2 DEF RestoreStop, Stop, Tried, Step, fence, service, requests
  <2>1. Typed'
    BY ZenonT(60)
  <2>2. Switching'
    OBVIOUS
  <2>3. Untouched'
    OBVIOUS
  <2>4. Shares'
    OBVIOUS
  <2>5. Switched'
    OBVIOUS
  <2>6. Restored'
    OBVIOUS
  <2>7. Reported'
    OBVIOUS
  <2> QED BY <2>1, <2>2, <2>3, <2>4, <2>5, <2>6, <2>7 DEF IInv
<1>3. CASE Relink
  <2> USE <1>3 DEF Relink, Previous, Tried, Step, fence, service, requests
  <2>1. Typed'
    BY RelinkTyped
  <2>2. Switching'
    OBVIOUS
  <2>3. Untouched'
    OBVIOUS
  <2>4. Shares'
    OBVIOUS
  <2>5. Switched'
    OBVIOUS
  <2>6. Restored'
    BY ZenonT(120)
  <2>7. Reported'
    OBVIOUS
  <2> QED BY <2>1, <2>2, <2>3, <2>4, <2>5, <2>6, <2>7 DEF IInv
<1>4. CASE RestoreLink
  <2> USE <1>4 DEF RestoreLink, SwitchLink, Tried, Step, Quiet, fence, service, requests
  <2>1. Typed'
    OBVIOUS
  <2>2. Switching'
    OBVIOUS
  <2>3. Untouched'
    OBVIOUS
  <2>4. Shares'
    OBVIOUS
  <2>5. Switched'
    OBVIOUS
  <2>6. Restored'
    OBVIOUS
  <2>7. Reported'
    OBVIOUS
  <2> QED BY <2>1, <2>2, <2>3, <2>4, <2>5, <2>6, <2>7 DEF IInv
<1>5. CASE RestoreFile("unit", "restore unit", "restore cli")
  <2> USE <1>5 DEF RestoreFile, WriteFile, Tried, Step, Quiet, fence, service, requests
  <2>1. Typed'
    BY ZenonT(120)
  <2>2. Switching'
    OBVIOUS
  <2>3. Untouched'
    OBVIOUS
  <2>4. Shares'
    OBVIOUS
  <2>5. Switched'
    OBVIOUS
  <2>6. Restored'
    OBVIOUS
  <2>7. Reported'
    OBVIOUS
  <2> QED BY <2>1, <2>2, <2>3, <2>4, <2>5, <2>6, <2>7 DEF IInv
<1>6. CASE RestoreFile("cli", "restore cli", "restore reload")
  <2> USE <1>6 DEF RestoreFile, WriteFile, Tried, Step, Quiet, fence, service, requests
  <2>1. Typed'
    BY ZenonT(120)
  <2>2. Switching'
    OBVIOUS
  <2>3. Untouched'
    OBVIOUS
  <2>4. Shares'
    OBVIOUS
  <2>5. Switched'
    OBVIOUS
  <2>6. Restored'
    OBVIOUS
  <2>7. Reported'
    OBVIOUS
  <2> QED BY <2>1, <2>2, <2>3, <2>4, <2>5, <2>6, <2>7 DEF IInv
<1>7. CASE RestoreReload
  <2> USE <1>7 DEF RestoreReload, WriteFile, Tried, Step, Quiet, fence, service, requests
  <2>1. Typed'
    BY ZenonT(120)
  <2>2. Switching'
    OBVIOUS
  <2>3. Untouched'
    OBVIOUS
  <2>4. Shares'
    OBVIOUS
  <2>5. Switched'
    OBVIOUS
  <2>6. Restored'
    OBVIOUS
  <2>7. Reported'
    OBVIOUS
  <2> QED BY <2>1, <2>2, <2>3, <2>4, <2>5, <2>6, <2>7 DEF IInv
<1>8. CASE RestoreStart
  <2> USE <1>8 DEF RestoreStart, Start, Step, Quiet, fence, service, requests
  <2>1. Typed'
    OBVIOUS
  <2>2. Switching'
    OBVIOUS
  <2>3. Untouched'
    OBVIOUS
  <2>4. Shares'
    OBVIOUS
  <2>5. Switched'
    OBVIOUS
  <2>6. Restored'
    OBVIOUS
  <2>7. Reported'
    OBVIOUS
  <2> QED BY <2>1, <2>2, <2>3, <2>4, <2>5, <2>6, <2>7 DEF IInv
<1>9. CASE Report
  <2> USE <1>9 DEF Report, Step, fence, service, requests
  <2>1. Typed'
    OBVIOUS
  <2>2. Switching'
    OBVIOUS
  <2>3. Untouched'
    OBVIOUS
  <2>4. Shares'
    OBVIOUS
  <2>5. Switched'
    OBVIOUS
  <2>6. Restored'
    OBVIOUS
  <2>7. Reported'
    OBVIOUS
  <2> QED BY <2>1, <2>2, <2>3, <2>4, <2>5, <2>6, <2>7 DEF IInv
<1> QED BY <1>1, <1>2, <1>3, <1>4, <1>5, <1>6, <1>7, <1>8, <1>9 DEF Cleanup

\* A step that fails, the end, the kill.
LEMMA EndKeeps == IInv /\ (Fail \/ Finish \/ Killed) => IInv'
<1> SUFFICES ASSUME IInv, Fail \/ Finish \/ Killed PROVE IInv'
  OBVIOUS
<1>1. CASE Fail
  <2>0. /\ pc \in Running /\ pc' = "cleanup"
        /\ UNCHANGED <<host, link, files, shared, restored, outcome, switching>>
        /\ proc' \in {proc, "none"} /\ schema' \in {schema, "new"}
        /\ proc' # proc => pc = "stop"
    BY <1>1 DEF Fail
  <2>1. Typed'
    BY <2>0, ZenonT(120) DEF IInv, Typed, Places, Running, Restoring, Stopped, Shared, Installed
  <2>2. Switching'
    BY <2>0 DEF IInv, Switching, Restoring, Stopped, Untouched, Running, Typed
  <2>3. Untouched'
    BY <2>0 DEF IInv, Untouched, Installed, Shared, Switching, Running, Stopped, Restoring, Typed
  <2>4. Shares'
    BY <2>0 DEF IInv, Shares, Shared, Running, Typed
  <2>5. Switched'
    BY <2>0 DEF IInv, Switched, Stopped, Running
  <2>6. Restored'
    BY <2>0 DEF IInv, Restored, Restoring, Running, Shared, Complete, Installed, Typed
  <2>7. Reported'
    BY <2>0 DEF IInv, Reported, Complete, Running, Typed
  <2> QED BY <2>1, <2>2, <2>3, <2>4, <2>5, <2>6, <2>7 DEF IInv
<1>2. CASE Finish
  <2>0. /\ pc = "done" /\ pc' = "end"
        /\ UNCHANGED <<host, switching, proc, link, files, shared, schema, restored, outcome>>
    BY <1>2 DEF Finish, RemoveMarker, Step, Quiet, service
  <2>1. Typed'
    BY <2>0 DEF IInv, Typed, Places
  <2>2. Switching'
    BY <2>0 DEF IInv, Switching, Restoring, Stopped
  <2>3. Untouched'
    BY <2>0 DEF IInv, Untouched, Installed
  <2>4. Shares'
    BY <2>0 DEF IInv, Shares, Shared
  <2>5. Switched'
    BY <2>0 DEF IInv, Switched, Stopped
  <2>6. Restored'
    BY <2>0 DEF IInv, Restored, Restoring, Complete
  <2>7. Reported'
    BY <2>0 DEF IInv, Reported, Complete
  <2> QED BY <2>1, <2>2, <2>3, <2>4, <2>5, <2>6, <2>7 DEF IInv
<1>3. CASE Killed
  <2>0. /\ pc # "end" /\ pc' = "dead"
        /\ UNCHANGED <<host, switching, proc, link, files, shared, schema, restored, outcome>>
    BY <1>3 DEF Killed, service
  <2>1. Typed'
    BY <2>0, ZenonT(60) DEF IInv, Typed, Places
  <2>2. Switching'
    BY <2>0 DEF IInv, Switching, Restoring, Stopped
  <2>3. Untouched'
    BY <2>0 DEF IInv, Untouched, Installed
  <2>4. Shares'
    BY <2>0 DEF IInv, Shares, Shared
  <2>5. Switched'
    BY <2>0 DEF IInv, Switched, Stopped
  <2>6. Restored'
    BY <2>0 DEF IInv, Restored, Restoring, Complete
  <2>7. Reported'
    BY <2>0 DEF IInv, Reported, Complete
  <2> QED BY <2>1, <2>2, <2>3, <2>4, <2>5, <2>6, <2>7 DEF IInv
<1> QED BY <1>1, <1>2, <1>3 DEF IInv

\* Requests and the clock change nothing the invariant speaks of.
LEMMA OthersKeep ==
  ASSUME IInv, UNCHANGED <<host, pc, switching, service, restored, outcome>>
  PROVE  IInv'
<1> USE DEF service, IInv
<1>1. Typed'
  BY DEF Typed
<1>2. Switching'
  BY DEF Switching
<1>3. Untouched'
  BY DEF Untouched
<1>4. Shares'
  BY DEF Shares
<1>5. Switched'
  BY DEF Switched
<1>6. Restored'
  BY DEF Restored, Complete
<1>7. Reported'
  BY DEF Reported, Complete
<1> QED BY <1>1, <1>2, <1>3, <1>4, <1>5, <1>6, <1>7 DEF IInv

\* Every step.
LEMMA NextKeeps == IInv /\ [Next]_vars => IInv'
<1> SUFFICES ASSUME IInv, [Next]_vars PROVE IInv'
  OBVIOUS
<1>1. CASE Update
  BY <1>1, SwitchKeeps, CleanupKeeps, EndKeeps DEF Update
<1>2. CASE Killed
  BY <1>2, EndKeeps
<1>3. CASE \E w \in Writers : Admit(w) \/ BeginTx(w) \/ EndTx(w)
  BY <1>3, OthersKeep DEF Admit, BeginTx, EndTx
<1>4. CASE UploadGoesQuiet \/ MarkerExpires \/ UNCHANGED vars
  BY <1>4, OthersKeep DEF UploadGoesQuiet, MarkerExpires, vars, service
<1> QED BY <1>1, <1>2, <1>3, <1>4 DEF Next

\* The invariant holds in every reachable state.
LEMMA Invariant == Spec => []IInv
BY Begins, NextKeeps, PTL DEF Spec

---------------------------------------------------------------------------
\* What the updater reports is so when it is reported: "updated" a complete new
\* release, "recovered" a complete predecessor, "untouched" an installation it
\* did not touch, whichever steps failed, and wherever it was killed.
THEOREM ReportsAreTrue == Spec => []ReportTrue
<1>1. IInv => ReportTrue
  BY DEF IInv, Reported, ReportTrue
<1> QED BY <1>1, Invariant, PTL

\* No process of the new release runs before its migrations were applied: the
\* link it is started from leads to it only after them, also in a restoration.
THEOREM SchemaComesFirst == Spec => []SchemaFirst
<1>1. IInv => SchemaFirst
  BY DEF IInv, Switching, SchemaFirst
<1> QED BY <1>1, Invariant, PTL
=============================================================================
