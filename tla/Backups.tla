------------------------------ MODULE Backups ------------------------------
(***************************************************************************)
(* pages backup and pages check-integrity (internal/ops/backup): a capture *)
(* of database, assets, release and configuration from a running service,  *)
(* rehearsed and published by a rename, and its verification, while the    *)
(* configuration is edited, assets arrive, updates run, processes fail and *)
(* the power goes.  A file's content is a small number.                    *)
(***************************************************************************)
EXTENDS Integers, FiniteSets

CONSTANTS Captures,            \* runs of `pages backup`
          MaxChange            \* bound: how often each source changes

VARIABLES
  service,   \* the installed service: service.env, assets, asset rows, release
  lock,      \* the updater's lock is held exclusively
  capture,   \* per run of backup: its stage and partial directory
  dirs,      \* the published directories, by run
  check,     \* a run of check-integrity
  scratch    \* the rehearsals' scratch clusters

backupVars == <<service, lock, capture, dirs, check, scratch>>

Versions == 0..MaxChange
\* What a backup holds, and what its manifest.json says of it: the files, and
\* what the rehearsal found in the restored database.
None == -1
Content == [env : Versions \cup {None}, dump : Versions \cup {None}, assets : Versions \cup {None},
            release : Versions \cup {None}]
Manifest == [files : Content, restored : Versions \cup {None}]
Empty == [env |-> None, dump |-> None, assets |-> None, release |-> None]
NoManifest == [files |-> Empty, restored |-> None]

Checker == "check"
Runs == Captures \cup {Checker}
Stages == {"idle", "env", "dump", "assets", "application", "rehearse", "recheck", "manifest", "rename", "flush", "done", "failed"}
CheckAt == {"idle", "manifest", "verify", "rehearse", "recheck", "verified", "refused"}

BackupsTypeOK ==
  /\ service \in [env : Versions, assets : Versions, rows : Versions, release : Versions]
  /\ lock \in BOOLEAN
  /\ capture \in [Captures -> [at : Stages, digest : Versions, content : Content, synced : BOOLEAN]]
  /\ dirs \in [Captures -> [there : BOOLEAN, synced : BOOLEAN, durable : BOOLEAN,
                         replaced : BOOLEAN, content : Content, manifest : Manifest]]
  /\ check \in [at : CheckAt, of : Captures, content : Content, manifest : Manifest, rehearsed : Content]
  /\ scratch \in [Runs -> [storage : BOOLEAN, server : BOOLEAN]]

---------------------------------------------------------------------------
(* The service changes while a backup is made.                             *)

\* An operator edits service.env.
EditEnv == service.env < MaxChange /\ service' = [service EXCEPT !.env = @ + 1]

\* An asset's file is written before the row that names it.
WriteAsset == service.assets < MaxChange /\ service.assets = service.rows /\ service' = [service EXCEPT !.assets = @ + 1]
InsertAsset == service.rows < service.assets /\ service' = [service EXCEPT !.rows = @ + 1]

ServiceChanges == (EditEnv \/ WriteAsset \/ InsertAsset) /\ UNCHANGED <<lock, capture, dirs, check, scratch>>

\* An update holds the lock exclusively, a capture shared; neither waits.
Capturing == \E c \in Captures : capture[c].at \notin {"idle", "done", "failed"}
StartUpdate == ~lock /\ ~Capturing /\ lock' = TRUE /\ UNCHANGED <<service, capture, dirs, check, scratch>>
FinishUpdate ==
  /\ lock /\ lock' = FALSE
  /\ \/ service.release < MaxChange /\ service' = [service EXCEPT !.release = @ + 1]
     \/ UNCHANGED service
  /\ UNCHANGED <<capture, dirs, check, scratch>>

---------------------------------------------------------------------------
(* Create.                                                                 *)

At(c, stage) == capture[c].at = stage
To(c, stage, content) == capture' = [capture EXCEPT ![c] = [@ EXCEPT !.at = stage, !.content = content]]
Partial(c) == capture[c].content

\* The lock, then one read of service.env: its digest and its settings.
Capture(c) ==
  /\ At(c, "idle") /\ ~lock
  /\ capture' = [capture EXCEPT ![c] = [at |-> "env", digest |-> service.env, content |-> Empty, synced |-> FALSE]]
  /\ UNCHANGED <<service, lock, dirs, check, scratch>>

EnvAsRead(c) == service.env = capture[c].digest

CopyConfig(c) ==
  /\ At(c, "env") /\ EnvAsRead(c)
  /\ To(c, "dump", [Partial(c) EXCEPT !.env = service.env])
  /\ UNCHANGED <<service, lock, dirs, check, scratch>>

Dump(c) ==
  /\ At(c, "dump")
  /\ To(c, "assets", [Partial(c) EXCEPT !.dump = service.rows])
  /\ UNCHANGED <<service, lock, dirs, check, scratch>>

CopyAssets(c) ==
  /\ At(c, "assets")
  /\ To(c, "application", [Partial(c) EXCEPT !.assets = service.assets])
  /\ UNCHANGED <<service, lock, dirs, check, scratch>>

CopyApplication(c) ==
  /\ At(c, "application")
  /\ To(c, "rehearse", [Partial(c) EXCEPT !.release = service.release])
  /\ UNCHANGED <<service, lock, dirs, check, scratch>>

---------------------------------------------------------------------------
(* Rehearse: the dump is restored into a private scratch cluster, served   *)
(* and probed; the cluster is stopped before its storage is removed.       *)

Unused == [storage |-> FALSE, server |-> FALSE]

StartScratch(r) ==
  /\ scratch[r] = Unused
  /\ scratch' = [scratch EXCEPT ![r].storage = TRUE]

StartServer(r) ==
  /\ scratch[r].storage /\ ~scratch[r].server
  /\ scratch' = [scratch EXCEPT ![r].server = TRUE]

\* pg_ctl stop, or failing that pg_ctl status, confirms that it stopped;
\* otherwise the storage is kept for the operator and the rehearsal fails.
RemoveScratch(r, stopped) ==
  scratch' = [scratch EXCEPT ![r] = IF stopped THEN Unused ELSE [storage |-> TRUE, server |-> @.server]]

\* Inspect and the HTTP probes: every asset row must have its file.
Serves(content) == content.dump <= content.assets

\* What it reports: the inventory of the restored dump, no later live read.
Restored(content) == content.dump

---------------------------------------------------------------------------
(* Create, from the rehearsal on.                                          *)

RehearseCapture(c) ==
  /\ At(c, "rehearse")
  /\ \/ (StartScratch(c) \/ StartServer(c)) /\ UNCHANGED capture
     \/ scratch[c].server /\ Serves(Partial(c)) /\ RemoveScratch(c, TRUE) /\ To(c, "recheck", Partial(c))
     \/ \E stopped \in BOOLEAN : scratch[c].storage /\ RemoveScratch(c, stopped) /\ To(c, "failed", Empty)
  /\ UNCHANGED <<service, lock, dirs, check>>

\* The source's digest again.
Recheck(c) ==
  /\ At(c, "recheck") /\ service.env = Partial(c).env
  /\ To(c, "manifest", Partial(c))
  /\ UNCHANGED <<service, lock, dirs, check, scratch>>

Flushed_Never == FALSE
Flushed == TRUE   \* syncPath of every file, then of every directory

WriteManifest(c) ==
  /\ At(c, "manifest")
  /\ capture' = [capture EXCEPT ![c] = [@ EXCEPT !.at = "rename", !.synced = Flushed]]
  /\ UNCHANGED <<service, lock, dirs, check, scratch>>

Publish(c) ==
  /\ At(c, "rename")
  /\ dirs' = [dirs EXCEPT ![c] = [there |-> TRUE, synced |-> capture[c].synced, durable |-> FALSE,
                                  replaced |-> FALSE, content |-> Partial(c),
                                  manifest |-> [files |-> Partial(c), restored |-> Restored(Partial(c))]]]
  /\ To(c, "flush", Partial(c))
  /\ UNCHANGED <<service, lock, check, scratch>>

SyncDestination(c) ==
  /\ At(c, "flush")
  /\ dirs' = [dirs EXCEPT ![c].durable = TRUE]
  /\ To(c, "done", Partial(c))
  /\ UNCHANGED <<service, lock, check, scratch>>

\* Any step may fail: the partial tree, or the directory it became, is removed.
Fail(c) ==
  /\ capture[c].at \notin {"idle", "rehearse", "done", "failed"}
  /\ dirs' = [dirs EXCEPT ![c].there = FALSE]
  /\ To(c, "failed", Empty)
  /\ UNCHANGED <<service, lock, check, scratch>>

---------------------------------------------------------------------------
(* Check: everything it reads is a private snapshot.  A backup of the Node *)
(* release is verified, rehearsed and compared alike, by this release.     *)

CheckTo(stage) == check' = [check EXCEPT !.at = stage]

Snapshot(c) ==
  /\ check.at \in {"idle", "verified", "refused"} /\ dirs[c].there
  /\ check' = [check EXCEPT !.at = "manifest", !.of = c, !.content = dirs[c].content]
  /\ UNCHANGED <<service, lock, capture, dirs, scratch>>

\* manifest.json is the last entry copied.
SnapshotManifest ==
  /\ check.at = "manifest"
  /\ check' = [check EXCEPT !.at = "verify", !.manifest = dirs[check.of].manifest]
  /\ UNCHANGED <<service, lock, capture, dirs, scratch>>

VerifyFiles ==
  /\ check.at = "verify"
  /\ CheckTo(IF check.content = check.manifest.files THEN "rehearse" ELSE "refused")
  /\ UNCHANGED <<service, lock, capture, dirs, scratch>>

Rehearsed == check.content
Reproduced == Restored(Rehearsed) = check.manifest.restored

RehearseCheck ==
  /\ check.at = "rehearse"
  /\ \/ (StartScratch(Checker) \/ StartServer(Checker)) /\ UNCHANGED check
     \/ /\ scratch[Checker].server /\ Serves(Rehearsed) /\ RemoveScratch(Checker, TRUE)
        /\ check' = [check EXCEPT !.at = IF Reproduced THEN "verified" ELSE "refused", !.rehearsed = Rehearsed]
     \/ \E stopped \in BOOLEAN : scratch[Checker].storage /\ RemoveScratch(Checker, stopped) /\ CheckTo("refused")
  /\ UNCHANGED <<service, lock, capture, dirs>>

\* Another program writes once over a published directory: one file of it, or
\* all of them, as another run of backup would have made them.
Overwrite(c) ==
  /\ dirs[c].there /\ ~dirs[c].replaced
  /\ \E d \in Versions :
       \/ dirs' = [dirs EXCEPT ![c].replaced = TRUE, ![c].content.dump = d]
       \/ dirs' = [dirs EXCEPT ![c].replaced = TRUE, ![c].manifest.files.dump = d]
       \/ dirs' = [dirs EXCEPT ![c].replaced = TRUE, ![c].manifest.restored = d]
       \/ dirs' = [dirs EXCEPT ![c].replaced = TRUE, ![c].content.dump = d,
                              ![c].manifest.files.dump = d, ![c].manifest.restored = d]
  /\ UNCHANGED <<service, lock, capture, check, scratch>>

---------------------------------------------------------------------------
\* The power goes: what was not flushed may be lost, file or directory entry.
PowerLoss ==
  /\ \E gone, torn \in SUBSET Captures :
       /\ \A c \in gone : ~dirs[c].durable
       /\ \A c \in torn : ~dirs[c].synced
       /\ dirs' = [c \in Captures |-> [dirs[c] EXCEPT !.there = @ /\ c \notin gone,
                                                !.content.dump = IF c \in torn THEN None ELSE @]]
  /\ capture' = [c \in Captures |-> IF capture[c].at \in {"idle", "done"} THEN capture[c]
                                    ELSE [capture[c] EXCEPT !.at = "failed"]]
  /\ check' = [check EXCEPT !.at = "idle"]
  /\ scratch' = [r \in Runs |-> [scratch[r] EXCEPT !.server = FALSE]]
  /\ lock' = FALSE /\ UNCHANGED service

---------------------------------------------------------------------------
NoDir == [there |-> FALSE, synced |-> FALSE, durable |-> FALSE, replaced |-> FALSE,
          content |-> Empty, manifest |-> NoManifest]

BackupsInit ==
  /\ service = [env |-> 0, assets |-> 0, rows |-> 0, release |-> 0]
  /\ lock = FALSE
  /\ capture = [c \in Captures |-> [at |-> "idle", digest |-> 0, content |-> Empty, synced |-> FALSE]]
  /\ dirs = [c \in Captures |-> NoDir]
  /\ check = [at |-> "idle", of |-> CHOOSE c \in Captures : TRUE, content |-> Empty, manifest |-> NoManifest, rehearsed |-> Empty]
  /\ scratch = [r \in Runs |-> Unused]

BackupsNext ==
  \/ ServiceChanges \/ StartUpdate \/ FinishUpdate
  \/ \E c \in Captures :
        \/ Capture(c) \/ CopyConfig(c) \/ Dump(c) \/ CopyAssets(c) \/ CopyApplication(c) \/ RehearseCapture(c)
        \/ Recheck(c) \/ WriteManifest(c) \/ Publish(c) \/ SyncDestination(c) \/ Fail(c)
        \/ Snapshot(c) \/ Overwrite(c)
  \/ SnapshotManifest \/ VerifyFiles \/ RehearseCheck
  \/ PowerLoss

BackupsSpec == BackupsInit /\ [][BackupsNext]_backupVars

---------------------------------------------------------------------------
(* Properties.                                                             *)

\* Create: a published backup that nobody overwrote is whole, also after the
\* power went, holds every asset its dump names and the configuration its
\* dump was made under; one that was reported made is there; no update gets
\* in between; and the assets that arrive meanwhile fail no rehearsal.
BackupsRestorable ==
  \A c \in Captures :
    /\ dirs[c].there /\ ~dirs[c].replaced =>
          /\ dirs[c].manifest = [files |-> dirs[c].content, restored |-> Restored(dirs[c].content)]
          /\ dirs[c].content.dump \in 0..dirs[c].content.assets
          /\ dirs[c].content.env = capture[c].digest
    /\ capture[c].at = "done" => dirs[c].there
    /\ At(c, "rehearse") => Serves(Partial(c))
    /\ capture[c].at \in {"rehearse", "recheck", "manifest", "rename", "flush"} => Partial(c).release = service.release

\* Check: "verified" is said of the bytes that were rehearsed and of what the
\* rehearsal found in them, whatever was written over the directory meanwhile
\* (Check reads only its snapshot), and no storage goes while a scratch server
\* may still write to it.
ChecksTruthful ==
  /\ check.at = "verified" => check.manifest = [files |-> check.rehearsed, restored |-> Restored(check.rehearsed)]
  /\ \A r \in Runs : scratch[r].server => scratch[r].storage

BackupsHold == BackupsRestorable /\ ChecksTruthful
=============================================================================
