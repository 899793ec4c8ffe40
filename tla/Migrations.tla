----------------------------- MODULE Migrations -----------------------------
(***************************************************************************)
(* The migration runner (internal/migrate) and the policy an automatic     *)
(* update asks before it (ops/compat): several runners, of different       *)
(* releases, on one database, any of which may fail, lose the answer of a  *)
(* commit or die.  A file is known by its place in the filename order.     *)
(***************************************************************************)
EXTENDS Integers, Sequences, FiniteSets, FiniteSetsExt

CONSTANTS Runners,
          Releases   \* [files, compatible : sets of files, baseline : a file]

VARIABLES
  recorded,  \* rows of schema_migrations
  schema,    \* per file: how often its statements were committed
  holder,    \* the session that holds the advisory lock
  runners,   \* per runner: what it does
  history    \* committed files: which, by which release, automatically or not

migrationVars == <<recorded, schema, holder, runners, history>>

Free == 0
Files == UNION {r.files : r \in Releases}
Idle == [at |-> "idle"]
Running == [at : {"check", "lock", "read", "apply", "unlock", "collided"}, release : Releases, auto : BOOLEAN, done : SUBSET Files]

MigrationsTypeOK ==
  /\ recorded \subseteq Files /\ schema \in [Files -> Nat]
  /\ holder \in Runners \cup {Free}
  /\ runners \in [Runners -> Running \cup {Idle}]
  /\ history \in Seq([file : Files, release : Releases, auto : BOOLEAN])

Go(c, at) == runners' = [runners EXCEPT ![c].at = at]
Stop(c) == runners' = [runners EXCEPT ![c] = Idle]

---------------------------------------------------------------------------
(* The policy of an automatic update.                                      *)

Begin(c, release, auto) ==
  /\ runners[c] = Idle
  /\ runners' = [runners EXCEPT ![c] = [at |-> IF auto THEN "check" ELSE "lock", release |-> release, auto |-> auto, done |-> {}]]
  /\ UNCHANGED <<recorded, schema, holder, history>>

Check(c) ==
  LET r == runners[c].release
      refused == \/ r.baseline \notin recorded
                 \/ ~(recorded \subseteq r.files)
                 \/ ~(r.files \ recorded \subseteq r.compatible)
  IN /\ runners[c].at = "check"
     /\ IF refused THEN Stop(c) ELSE Go(c, "lock")
     /\ UNCHANGED <<recorded, schema, holder, history>>

---------------------------------------------------------------------------
(* Run.                                                                    *)

TryLock_Shared(c) ==
  /\ runners[c].at = "lock" /\ holder' = c /\ Go(c, "read")
  /\ UNCHANGED <<recorded, schema, history>>

\* pg_try_advisory_lock, polled until the deadline.
TryLock(c) ==
  /\ runners[c].at = "lock" /\ holder = Free /\ holder' = c /\ Go(c, "read")
  /\ UNCHANGED <<recorded, schema, history>>

Busy(c) ==
  /\ runners[c].at = "lock" /\ holder # Free /\ Stop(c)
  /\ UNCHANGED <<recorded, schema, holder, history>>

ReadDone(c) ==
  /\ runners[c].at = "read"
  /\ runners' = [runners EXCEPT ![c].at = "apply", ![c].done = recorded]
  /\ UNCHANGED <<recorded, schema, holder, history>>

Pending(c) == runners[c].release.files \ runners[c].done
Commit(c, f) ==
  /\ f \notin recorded
  /\ recorded' = recorded \cup {f} /\ schema' = [schema EXCEPT ![f] = @ + 1]
  /\ history' = Append(history, [file |-> f, release |-> runners[c].release, auto |-> runners[c].auto])

\* One file with its tracking row, in one transaction: it commits and the
\* runner goes on, commits and its answer is lost, fails, or is recorded already.
ApplyOne(c) ==
  /\ runners[c].at = "apply" /\ Pending(c) # {} /\ UNCHANGED holder
  /\ LET f == Min(Pending(c))
     IN \/ Commit(c, f) /\ runners' = [runners EXCEPT ![c].done = @ \cup {f}]
        \/ Commit(c, f) /\ Go(c, "unlock")
        \/ Go(c, "unlock") /\ UNCHANGED <<recorded, schema, history>>
        \/ f \in recorded /\ Go(c, "collided") /\ UNCHANGED <<recorded, schema, history>>

Applied(c) ==
  /\ runners[c].at = "apply" /\ Pending(c) = {} /\ Go(c, "unlock")
  /\ UNCHANGED <<recorded, schema, holder, history>>

\* The deferred unlock, or the connection is closed.
Unlock(c) ==
  /\ runners[c].at \in {"unlock", "collided"} /\ Stop(c)
  /\ holder' = IF holder = c THEN Free ELSE holder
  /\ UNCHANGED <<recorded, schema, history>>

\* The runner dies: its session ends, and with it the lock and the transaction
\* under way, unless that had been sent whole and still commits.
Die(c) ==
  /\ runners[c] # Idle /\ Stop(c)
  /\ holder' = IF holder = c THEN Free ELSE holder
  /\ \/ UNCHANGED <<recorded, schema, history>>
     \/ runners[c].at = "apply" /\ Pending(c) # {} /\ Commit(c, Min(Pending(c)))

---------------------------------------------------------------------------
MigrationsInit ==
  /\ recorded = {} /\ schema = [f \in Files |-> 0] /\ history = <<>>
  /\ holder = Free /\ runners = [c \in Runners |-> Idle]

MigrationsNext ==
  \E c \in Runners :
    \/ \E r \in Releases, auto \in BOOLEAN : Begin(c, r, auto)
    \/ Check(c) \/ TryLock(c) \/ Busy(c) \/ ReadDone(c) \/ ApplyOne(c) \/ Applied(c) \/ Unlock(c) \/ Die(c)

MigrationsSpec == MigrationsInit /\ [][MigrationsNext]_migrationVars

---------------------------------------------------------------------------
(* Properties.                                                             *)

\* A file's statements are committed once, with its tracking row, whatever
\* fails or dies, and no runner stumbles over a file another one applies
\* ("concurrent runners serialize").
AppliedOnce ==
  /\ \A f \in Files : schema[f] = IF f \in recorded THEN 1 ELSE 0
  /\ \A c \in Runners : runners[c].at # "collided"

\* Within a release the files are applied in filename order.
AppliedInOrder ==
  \A i \in DOMAIN history : \A f \in history[i].release.files :
    f < history[i].file => \E j \in 1..(i - 1) : history[j].file = f

\* An automatic update applies only what its release declares compatible with
\* the one before it, on the baseline it declares: code may be rolled back,
\* the schema is not.
RollbackSafe ==
  \A i \in DOMAIN history : history[i].auto =>
    /\ history[i].file \in history[i].release.compatible
    /\ \E j \in 1..(i - 1) : history[j].file = history[i].release.baseline

MigrationsHold == AppliedOnce /\ AppliedInOrder /\ RollbackSafe
=============================================================================
