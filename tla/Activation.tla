---------------------------- MODULE Activation ----------------------------
(***************************************************************************)
(* Stage two of `pages update` (internal/ops/update, Activate) against    *)
(* the service it replaces: the drain marker and the write admission of   *)
(* internal/db, check-idle, the switch of the release, and the recovery   *)
(* of the predecessor when a step fails.                                  *)
(*                                                                         *)
(* The updater runs one step at a time; every step may fail, and the      *)
(* updater may be killed between any two.  Writers are requests of the    *)
(* running service, which pass the admission check and open their         *)
(* transaction in two steps.  systemd and the file system are external.   *)
(***************************************************************************)
EXTENDS Integers, Sequences

CONSTANTS
  Writers,   \* requests that write
  Bypass,    \* the writers that carry WithDrainBypass (staged uploads)
  Legacy,    \* whether the hosts to update are legacy ones
  Forced     \* whether the updates are forced (--force)

ASSUME UpdateAssumption == 
  /\ Bypass \subseteq Writers
  /\ Legacy \subseteq BOOLEAN /\ Forced \subseteq BOOLEAN

Hosts == [legacy : Legacy, force : Forced]

VARIABLES
  host,      \* legacy: APP_DIR is a plain directory, to be converted;
             \* force: --force, no fence and no idle checks
  pc,        \* the updater's next step
  switching, \* the flag that makes cleanup restore the predecessor
  marker,    \* content of the drain file ("none": no file)
  expired,   \* the drain file is older than 15 minutes
  proc,      \* the release pages.service's process runs ("none": stopped)
  link,      \* what APP_DIR is: "dir" (legacy), a release, or "absent"
  files,     \* the installed unit, the unit systemd loaded, and the CLI
  shared,    \* legacy assets and .env: "home", "moved" or "linked"
  schema,    \* the migrations applied
  writers,   \* each writer's progress
  staged,    \* an uncommitted upload was touched in the last five minutes
  restored,  \* cleanup's verdict so far
  outcome    \* what the updater reported

vars == <<host, pc, switching, marker, expired, proc, link, files, shared, schema,
          writers, staged, restored, outcome>>

service  == <<proc, link, files, shared, schema>>
fence    == <<marker, expired>>
requests == <<writers, staged>>

Shared == {"assets", "env"}
Installed == [unit |-> "old", loaded |-> "old", cli |-> "old"]

---------------------------------------------------------------------------
(* Write admission (internal/db).                                          *)

drainMode_Forever == marker
drainMode == IF expired THEN "none" ELSE marker

CheckWriteAdmission(w) ==
  \/ drainMode = "none"
  \/ drainMode = "draining" /\ w \in Bypass

\* Begin checks first and opens the transaction afterwards: Pool.Begin may
\* still have to wait for a connection.
Admit(w) ==
  /\ proc # "none" /\ writers[w] = "idle"
  /\ CheckWriteAdmission(w)
  /\ writers' = [writers EXCEPT ![w] = "admitted"]
  /\ UNCHANGED <<host, pc, switching, fence, service, staged, restored, outcome>>

BeginTx(w) ==
  /\ writers[w] = "admitted"
  /\ writers' = [writers EXCEPT ![w] = "tx"]
  /\ UNCHANGED <<host, pc, switching, fence, service, staged, restored, outcome>>

\* Commit or roll back.  A staging request may leave an upload in flight, and
\* the one that deploys it leaves none.
EndTx(w) ==
  /\ writers[w] = "tx"
  /\ writers' = [writers EXCEPT ![w] = "idle"]
  /\ IF w \in Bypass THEN staged' \in BOOLEAN ELSE UNCHANGED staged
  /\ UNCHANGED <<host, pc, switching, fence, service, restored, outcome>>

\* Five minutes without a touch: the upload no longer counts as active.
UploadGoesQuiet ==
  /\ staged
  /\ staged' = FALSE
  /\ UNCHANGED <<host, pc, switching, fence, service, writers, restored, outcome>>

\* Fifteen minutes after the marker was written it is ignored.
MarkerExpires ==
  /\ marker # "none" /\ ~expired
  /\ expired' = TRUE
  /\ UNCHANGED <<host, pc, switching, marker, service, requests, restored, outcome>>

---------------------------------------------------------------------------
(* The updater's steps.                                                    *)

Step(from, to) == pc = from /\ pc' = to

Quiet == UNCHANGED <<host, requests, restored, outcome>>

\* preflight, check-migrations, the snapshot of the control files.
Preflight ==
  /\ Step("preflight", IF host.force THEN "migrate" ELSE "fence")
  /\ UNCHANGED <<switching, fence, service>> /\ Quiet

WriteMarker(from, to, text) ==
  /\ Step(from, to)
  /\ marker' = text /\ expired' = FALSE
  /\ UNCHANGED <<switching, service>> /\ Quiet

\* compat.ActiveWrites: uploads touched lately and open write transactions.  A
\* writer that is admitted but has no transaction yet is invisible to it.
ActiveWrites == staged \/ \E w \in Writers : writers[w] = "tx"

CheckIdle(from, to) ==
  /\ Step(from, to)
  /\ ~ActiveWrites
  /\ UNCHANGED <<switching, fence, service>> /\ Quiet

\* migrate, then the candidate is renamed and the switch begins.
Migrate ==
  /\ Step("migrate", "stop")
  /\ schema' = "new" /\ switching' = TRUE
  /\ UNCHANGED <<fence, proc, link, files, shared>> /\ Quiet

\* systemctl stop: the process and its requests end.
Stop(from, to) ==
  /\ Step(from, to)
  /\ proc' = "none"
  /\ writers' = [w \in Writers |-> "idle"]
  /\ UNCHANGED <<host, switching, fence, link, files, shared, schema, staged, restored, outcome>>

RemoveMarker(from, to) ==
  /\ Step(from, to)
  /\ marker' = "none" /\ expired' = FALSE
  /\ UNCHANGED <<switching, service>> /\ Quiet

MoveAside ==
  /\ Step("move", "share assets")
  /\ link' = "absent"
  /\ UNCHANGED <<switching, fence, proc, files, shared, schema>> /\ Quiet

\* A mutable path moves to the shared place and is linked back, in two steps.
Share(x, from, to) ==
  /\ pc = from
  /\ \/ /\ shared[x] = "home" /\ pc' = from
        /\ shared' = [shared EXCEPT ![x] = "moved"]
     \/ /\ shared[x] = "moved" /\ pc' = to
        /\ shared' = [shared EXCEPT ![x] = "linked"]
  /\ UNCHANGED <<switching, fence, proc, link, files, schema>> /\ Quiet

\* The symlink is built aside and renamed over APP_DIR.
SwitchLink(from, to, release) ==
  /\ Step(from, to)
  /\ link' = release
  /\ UNCHANGED <<switching, fence, proc, files, shared, schema>> /\ Quiet

WriteFile(from, to, field, value) ==
  /\ Step(from, to)
  /\ files' = [files EXCEPT ![field] = value]
  /\ UNCHANGED <<switching, fence, proc, link, shared, schema>> /\ Quiet

\* systemctl start: a no-op when a process is still there, and otherwise
\* whatever release APP_DIR leads to, if it leads to one.
Start(from, to) ==
  /\ Step(from, to)
  /\ proc' = IF proc # "none" THEN proc ELSE
               IF link = "absent" THEN "none" ELSE IF link = "new" THEN "new" ELSE "old"
  /\ UNCHANGED <<switching, fence, link, files, shared, schema>> /\ Quiet

\* readiness of the process that answers, then servingRelease (which stays
\* silent when the process cannot be identified).
Verify ==
  /\ Step("verify", "done")
  /\ proc # "none"
  /\ switching' = FALSE /\ outcome' = "updated"
  /\ UNCHANGED <<host, fence, service, requests, restored>>

\* The cleanup of a successful run.
Finish == RemoveMarker("done", "end")

MaySucceed ==
  \/ Preflight
  \/ WriteMarker("fence", "idle", "draining")
  \/ CheckIdle("idle", "quiesce")
  \/ WriteMarker("quiesce", "idle again", "quiesced")
  \/ CheckIdle("idle again", "migrate")
  \/ Migrate
  \/ Stop("stop", "unfence")
  \/ RemoveMarker("unfence", IF host.legacy THEN "move" ELSE "switch")
  \/ MoveAside
  \/ Share("assets", "share assets", "share env")
  \/ Share("env", "share env", "switch")
  \/ SwitchLink("switch", "unit", "new")
  \/ WriteFile("unit", "cli", "unit", "new")
  \/ WriteFile("cli", "reload", "cli", "new")
  \/ WriteFile("reload", "start", "loaded", files.unit)
  \/ Start("start", "verify")
  \/ Verify

Running == {"preflight", "fence", "idle", "quiesce", "idle again", "migrate", "stop", "unfence",
            "move", "share assets", "share env", "switch", "unit", "cli", "reload", "start",
            "verify"}

\* Any step may fail without its effect.  Migrations may be applied before the
\* failure, and a failed stop may have ended the process or not.
Fail ==
  /\ pc \in Running
  /\ pc' = "cleanup"
  /\ \/ UNCHANGED <<proc, schema, writers, switching>>
     \/ /\ pc = "migrate" /\ schema' = "new" /\ UNCHANGED <<proc, writers, switching>>
     \/ /\ pc = "stop" /\ proc' = "none" /\ writers' = [w \in Writers |-> "idle"]
        /\ UNCHANGED <<schema, switching>>
  /\ UNCHANGED <<host, fence, link, files, shared, staged, restored, outcome>>

---------------------------------------------------------------------------
(* cleanup: remove the marker; after a failed switch restore the rest.     *)

CleanupUnfence == RemoveMarker("cleanup", IF switching THEN "restore stop" ELSE "report")

\* A best-effort step of the restoration: one that fails is remembered.
Tried(from, to) ==
  /\ Step(from, to)
  /\ restored' = FALSE
  /\ UNCHANGED <<host, switching, fence, service, requests, outcome>>

RestoreStop == Stop("restore stop", "relink") \/ Tried("restore stop", "relink")

\* The predecessor's directory exists unless the legacy move never happened.
Previous == ~host.legacy \/ link # "dir"

Relink_None ==
  /\ Step("relink", IF Previous THEN "restore link" ELSE "restore unit")
  /\ UNCHANGED <<host, switching, fence, service, requests, restored, outcome>>
Relink ==
  \/ /\ Step("relink", IF Previous THEN "restore link" ELSE "restore unit")
     /\ shared' = [x \in Shared |-> IF shared[x] = "moved" THEN "linked" ELSE shared[x]]
     /\ UNCHANGED <<host, switching, fence, proc, link, files, schema, requests, restored, outcome>>
  \/ /\ \E x \in Shared : shared[x] = "moved"
     /\ Tried("relink", "restore link")

RestoreLink ==
  SwitchLink("restore link", "restore unit", "old") \/ Tried("restore link", "restore unit")

RestoreFile(field, from, to) == WriteFile(from, to, field, "old") \/ Tried(from, to)

RestoreReload ==
  \/ WriteFile("restore reload", "restore start", "loaded", files.unit)
  \/ Tried("restore reload", "restore start")

RestoreStart ==
  \/ Start("restore start", "report")
  \/ /\ Step("restore start", "report")
     /\ UNCHANGED <<host, switching, fence, service, requests, restored, outcome>>

\* Only a complete restoration whose process answers is reported as one.
Report ==
  /\ Step("report", "end")
  /\ IF ~switching THEN outcome' = "untouched"
     ELSE \/ restored /\ proc # "none" /\ outcome' = "recovered"
          \/ outcome' = "attention"
  /\ UNCHANGED <<host, switching, fence, service, requests, restored>>

Cleanup ==
  \/ CleanupUnfence
  \/ RestoreStop
  \/ Relink
  \/ RestoreLink
  \/ RestoreFile("unit", "restore unit", "restore cli")
  \/ RestoreFile("cli", "restore cli", "restore reload")
  \/ RestoreReload
  \/ RestoreStart
  \/ Report

\* The updater is killed: nothing of its cleanup runs.
Killed ==
  /\ pc \notin {"end", "dead"}
  /\ pc' = "dead"
  /\ UNCHANGED <<host, switching, fence, service, requests, restored, outcome>>

---------------------------------------------------------------------------
Init ==
  /\ host \in Hosts
  /\ pc = "preflight" /\ switching = FALSE
  /\ marker = "none" /\ expired = FALSE
  /\ proc = "old" /\ link = (IF host.legacy THEN "dir" ELSE "old")
  /\ files = Installed
  /\ shared = [x \in Shared |-> IF host.legacy THEN "home" ELSE "linked"]
  /\ schema = "old"
  /\ writers = [w \in Writers |-> "idle"] /\ staged = FALSE
  /\ restored = TRUE /\ outcome = "none"

Update == MaySucceed \/ Fail \/ Finish \/ Cleanup

Next ==
  \/ Update
  \/ Killed
  \/ \E w \in Writers : Admit(w) \/ BeginTx(w) \/ EndTx(w)
  \/ UploadGoesQuiet
  \/ MarkerExpires

\* Time passes: a marker that is not removed grows old.
Fairness == WF_vars(MarkerExpires)

Spec == Init /\ [][Next]_vars /\ Fairness

---------------------------------------------------------------------------
(* Properties.                                                             *)

\* The updater, the service and the writers have their types.
TypeOK ==
  /\ host \in Hosts
  /\ switching \in BOOLEAN /\ expired \in BOOLEAN /\ staged \in BOOLEAN /\ restored \in BOOLEAN
  /\ marker \in {"none", "draining", "quiesced"}
  /\ proc \in {"none", "old", "new"} /\ link \in {"dir", "absent", "old", "new"}
  /\ files \in [{"unit", "loaded", "cli"} -> {"old", "new"}]
  /\ shared \in [Shared -> {"home", "moved", "linked"}]
  /\ schema \in {"old", "new"}
  /\ writers \in [Writers -> {"idle", "admitted", "tx"}]
  /\ outcome \in {"none", "updated", "untouched", "recovered", "attention"}

\* The installation as a whole is release r: what runs, what APP_DIR leads to,
\* what systemd loaded, the CLI, the mutable paths release r needs and its schema.
Complete(r) ==
  /\ proc = r /\ (r = "new" => schema = "new") /\ files = [unit |-> r, loaded |-> r, cli |-> r]
  /\ link = r \/ (r = "old" /\ link = "dir")
  /\ \A x \in Shared : shared[x] = "linked" \/ (r = "old" /\ shared[x] = "home")

\* Each report is true when it is made, whichever steps failed before it: a
\* finished update runs the new release, "previous release is ready again" the
\* old one, complete to its links, and "installed service untouched" was.
ReportTrue ==
  /\ pc = "done" /\ outcome = "updated" => Complete("new")
  /\ pc = "end" /\ outcome = "recovered" => Complete("old")
  /\ pc = "end" /\ outcome = "untouched" => Complete("old")

\* The new release never runs on a schema that lacks its migrations.
SchemaFirst == proc = "new" => schema = "new"

\* The drain fence is never left up for good: not by a failed step, not by an
\* updater that was killed, not by a marker nobody removes.
FenceLifts == []<>(drainMode = "none")

\* internal/db: "during "quiesced", all write transactions are rejected until
\* the service restarts"; internal/ops/update: "then lock out all remaining
\* writes ("quiesced") across migrations and shutdown".
QuiescedMeansQuiet ==
  ~host.force /\ pc \in {"migrate", "stop"} => \A w \in Writers : writers[w] # "tx"
===========================================================================
