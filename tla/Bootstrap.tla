------------------------------ MODULE Bootstrap ------------------------------
(***************************************************************************)
(* `pages bootstrap` (internal/ops/bootstrap, with ops/install and the     *)
(* atomic write of ops/envfile): the steps that install a host, run again  *)
(* and again by an operator who may answer otherwise, stopped by a failure *)
(* or a kill between any two of them.  A secret, a password and a release  *)
(* are numbers, 0 for none; each new one is a fresh number.                *)
(***************************************************************************)
EXTENDS Integers

CONSTANTS Hosts,    \* the dashboard hostnames an operator may answer
          MaxFresh  \* bound: secrets, passwords and releases ever made

VARIABLES
  app,      \* APP_DIR: what it is, and the release it links to
  assets,   \* where the files the service wrote are
  envfile,  \* the environment file
  pg,       \* the role's password, the database and its schema
  unit,     \* pages.service is installed and enabled
  up,       \* the service runs and answers /readyz
  proxy,    \* the hostname Caddy serves
  run,      \* the bootstrap under way: its next step and its variables
  fresh,    \* the last number used
  settled   \* a bootstrap has finished, and no operator took its results away since

bootVars == <<app, assets, envfile, pg, unit, up, proxy, run, fresh, settled>>

Numbers == 0..MaxFresh
NoHost == "none"
Own == "own"     \* an origin the operator chose, derived from no host
Foreign == -1    \* a DATABASE_URL whose password cannot be used again
NoVars == [secret |-> 0, pass |-> 0, host |-> NoHost, origin |-> NoHost]
NoEnv == [exists |-> FALSE, group |-> FALSE, vars |-> NoVars]
Stopped == [at |-> "stopped", vars |-> NoVars]
Settings == [secret : Numbers, pass : Numbers \cup {Foreign}, host : Hosts \cup {NoHost}, origin : Hosts \cup {NoHost, Own}]

BootTypeOK ==
  /\ app \in [is : {"absent", "empty", "legacy", "release"}, release : Numbers, trusted : BOOLEAN]
  /\ assets \in {"none", "home", "behind", "shared"}
  /\ envfile \in [exists : BOOLEAN, group : BOOLEAN, vars : Settings]
  /\ pg \in [password : Numbers, database : BOOLEAN, schema : BOOLEAN]
  /\ unit \in BOOLEAN /\ up \in BOOLEAN /\ settled \in BOOLEAN
  /\ proxy \in Hosts \cup {NoHost} /\ fresh \in Numbers
  /\ run.at \in {"stopped", "release", "retire", "assets", "link", "read", "role", "database", "write", "chown",
                 "migrate", "unit", "restart", "caddy"}
  /\ run.vars \in Settings

At(from) == run.at = from
Then(to) == run' = [run EXCEPT !.at = to]
Step(from, to) == At(from) /\ Then(to)

\* The value there is, else a new one.
Made(v) == IF v = 0 THEN fresh + 1 ELSE v
Counted(v) == fresh' = (IF v = 0 THEN fresh + 1 ELSE fresh) /\ fresh' <= MaxFresh

\* What the service needs to start: its group reads the file, and the file's
\* password opens a database that has its schema.
CanStart ==
  /\ envfile.group /\ envfile.vars.secret # 0
  /\ envfile.vars.pass = pg.password /\ pg.database /\ pg.schema
  /\ app.is = "release"

---------------------------------------------------------------------------
(* release: an active release is kept, and refused when another account    *)
(* than root could have changed it.                                        *)

Begin ==
  /\ At("stopped") /\ (app.is = "release" => app.trusted)
  /\ Then(IF app.is = "release" THEN "read" ELSE "release")
  /\ UNCHANGED <<app, assets, envfile, pg, unit, up, proxy, fresh, settled>>

CopyRelease ==
  /\ Step("release", "retire") /\ Counted(0)
  /\ UNCHANGED <<app, assets, envfile, pg, unit, up, proxy, settled>>

\* An empty home directory goes, an older installation is set aside.
Retire ==
  /\ Step("retire", IF app.is = "legacy" THEN "assets" ELSE "link")
  /\ app' = [app EXCEPT !.is = "absent"]
  /\ assets' = IF assets = "home" THEN "behind" ELSE assets
  /\ UNCHANGED <<envfile, pg, unit, up, proxy, fresh, settled>>

MoveAssets ==
  /\ Step("assets", "link")
  /\ assets' = IF assets = "behind" THEN "shared" ELSE assets
  /\ UNCHANGED <<app, envfile, pg, unit, up, proxy, fresh, settled>>

LinkRelease ==
  /\ Step("link", "read")
  /\ app' = [is |-> "release", release |-> fresh, trusted |-> TRUE]
  /\ assets' = IF assets = "none" THEN "shared" ELSE assets
  /\ UNCHANGED <<envfile, pg, unit, up, proxy, fresh, settled>>

---------------------------------------------------------------------------
(* configure: the file's values win over the caller's environment, and     *)
(* what is missing is generated.                                           *)

\* An origin that was derived from the host follows it.
Origin(vars, host) == IF vars.origin \in {NoHost, vars.host} THEN host ELSE vars.origin

ReadSettings(host) ==
  /\ At("read") /\ Counted(envfile.vars.secret)
  /\ run' = [at |-> "role", vars |-> [secret |-> Made(envfile.vars.secret), pass |-> envfile.vars.pass,
                                      host |-> host, origin |-> Origin(envfile.vars, host)]]
  /\ UNCHANGED <<app, assets, envfile, pg, unit, up, proxy, settled>>

\* DatabasePassword, then ALTER ROLE or CREATE ROLE.
SetRolePassword_Mints ==
  /\ At("role") /\ run.vars.pass # Foreign /\ Counted(0)
  /\ run' = [at |-> "database", vars |-> [run.vars EXCEPT !.pass = Made(0)]]
  /\ pg' = [pg EXCEPT !.password = Made(0)]
  /\ UNCHANGED <<app, assets, envfile, unit, up, proxy, settled>>

SetRolePassword ==
  /\ At("role") /\ run.vars.pass # Foreign /\ Counted(run.vars.pass)
  /\ run' = [at |-> "database", vars |-> [run.vars EXCEPT !.pass = Made(@)]]
  /\ pg' = [pg EXCEPT !.password = Made(run.vars.pass)]
  /\ UNCHANGED <<app, assets, envfile, unit, up, proxy, settled>>

CreateDatabase ==
  /\ Step("database", "write") /\ pg' = [pg EXCEPT !.database = TRUE]
  /\ UNCHANGED <<app, assets, envfile, unit, up, proxy, fresh, settled>>

\* envfile.Write: one rename; the owner of a file that was there stays.
WriteEnv ==
  /\ Step("write", "chown")
  /\ envfile' = [envfile EXCEPT !.exists = TRUE, !.vars = run.vars]
  /\ UNCHANGED <<app, assets, pg, unit, up, proxy, fresh, settled>>

ChownEnv ==
  /\ Step("chown", "migrate") /\ envfile' = [envfile EXCEPT !.group = TRUE]
  /\ UNCHANGED <<app, assets, pg, unit, up, proxy, fresh, settled>>

Migrate ==
  /\ Step("migrate", "unit") /\ pg' = [pg EXCEPT !.schema = TRUE]
  /\ UNCHANGED <<app, assets, envfile, unit, up, proxy, fresh, settled>>

---------------------------------------------------------------------------
(* services and caddy.                                                     *)

EnableUnit ==
  /\ Step("unit", "restart") /\ unit' = TRUE
  /\ UNCHANGED <<app, assets, envfile, pg, up, proxy, fresh, settled>>

\* systemctl restart, then /readyz for fifteen seconds.
Restart ==
  /\ At("restart") /\ up' = CanStart
  /\ run' = IF CanStart THEN [run EXCEPT !.at = "caddy"] ELSE Stopped
  /\ settled' = (settled \/ CanStart)
  /\ UNCHANGED <<app, assets, envfile, pg, unit, proxy, fresh>>

Caddy ==
  /\ At("caddy") /\ run' = Stopped
  /\ proxy' \in {proxy, run.vars.host}   \* the operator may skip it
  /\ UNCHANGED <<app, assets, envfile, pg, unit, up, fresh, settled>>

\* A command failed, an answer was refused, or the process was killed.
Die ==
  /\ ~At("stopped") /\ run' = Stopped
  /\ UNCHANGED <<app, assets, envfile, pg, unit, up, proxy, fresh, settled>>

---------------------------------------------------------------------------
(* The box and its operator, between two bootstraps.                       *)

Reboot ==
  /\ up' = (unit /\ CanStart) /\ run' = Stopped
  /\ UNCHANGED <<app, assets, envfile, pg, unit, proxy, fresh, settled>>

EditEnv(vars) ==
  /\ At("stopped") /\ envfile.exists /\ envfile' = [envfile EXCEPT !.vars = vars]
  /\ UNCHANGED <<app, assets, pg, unit, up, proxy, run, fresh>>

ChooseOrigin == EditEnv([envfile.vars EXCEPT !.origin = Own]) /\ UNCHANGED settled
BlankSecret == EditEnv([envfile.vars EXCEPT !.secret = 0]) /\ settled' = FALSE
ChangeUrl(pass) == EditEnv([envfile.vars EXCEPT !.pass = pass]) /\ settled' = FALSE

\* `pages update` puts another release in place.
UpdateRelease ==
  /\ At("stopped") /\ app.is = "release" /\ Counted(0) /\ app' = [app EXCEPT !.release = fresh + 1]
  /\ UNCHANGED <<assets, envfile, pg, unit, up, proxy, run, settled>>

\* Another account could have changed the release; the operator removes it.
Distrust ==
  /\ At("stopped") /\ app.is = "release" /\ app.trusted /\ app' = [app EXCEPT !.trusted = FALSE]
  /\ UNCHANGED <<assets, envfile, pg, unit, up, proxy, run, fresh, settled>>
RemoveLink ==
  /\ At("stopped") /\ app.is = "release" /\ ~app.trusted
  /\ app' = [is |-> "absent", release |-> 0, trusted |-> TRUE] /\ settled' = FALSE
  /\ UNCHANGED <<assets, envfile, pg, unit, up, proxy, run, fresh>>

---------------------------------------------------------------------------
\* A new box, with or without the home directory useradd made, or one that an
\* older installer set up.
NoApp(is) == [is |-> is, release |-> 0, trusted |-> TRUE]
BootInit ==
  /\ run = Stopped /\ up = FALSE /\ unit = FALSE /\ proxy = NoHost /\ settled = FALSE
  /\ \/ /\ app \in {NoApp("absent"), NoApp("empty")} /\ assets = "none"
        /\ envfile = NoEnv /\ pg = [password |-> 0, database |-> FALSE, schema |-> FALSE] /\ fresh = 0
     \/ /\ app = NoApp("legacy") /\ assets = "home" /\ fresh = 2
        /\ \E h \in Hosts : envfile = [exists |-> TRUE, group |-> TRUE, vars |-> [secret |-> 1, pass |-> 2, host |-> h, origin |-> h]]
        /\ pg = [password |-> 2, database |-> TRUE, schema |-> TRUE]

BootNext ==
  \/ Begin \/ CopyRelease \/ Retire \/ MoveAssets \/ LinkRelease
  \/ \E h \in Hosts : ReadSettings(h)
  \/ SetRolePassword \/ CreateDatabase \/ WriteEnv \/ ChownEnv \/ Migrate
  \/ EnableUnit \/ Restart \/ Caddy \/ Die \/ Reboot
  \/ ChooseOrigin \/ BlankSecret \/ ChangeUrl(0) \/ ChangeUrl(Foreign)
  \/ UpdateRelease \/ Distrust \/ RemoveLink

---------------------------------------------------------------------------
(* Properties.                                                             *)

\* Once a bootstrap has finished, the box comes back after a reboot at every
\* later point, also in the middle of another bootstrap, and an origin that
\* nobody chose is its host's.
Rebootable ==
  settled => /\ unit /\ CanStart
             /\ envfile.vars.origin \in {Own, envfile.vars.host}

\* "re-runs preserve existing secrets, the database role password, ... and an
\* active release" (bootstrap.go:20), and an origin the operator chose.
Preserves ==
  ~At("stopped") =>
    /\ envfile.vars.secret # 0 => envfile'.vars.secret = envfile.vars.secret
    /\ envfile.vars.pass \notin {0, Foreign} =>
         envfile'.vars.pass = envfile.vars.pass /\ pg'.password \in {pg.password, envfile.vars.pass}
    /\ envfile.vars.origin = Own => envfile'.vars.origin = Own
    /\ app.is = "release" => app' = app

InstallKeeps == []Rebootable /\ [][Preserves]_bootVars
=============================================================================
