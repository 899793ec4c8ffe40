# Pages: a TLA+ verification project

Pages is a self-hosted platform for versioned, access-controlled client
dashboards: agents and humans deploy HTML through REST, MCP or the admin UI;
one Go process stores every version in PostgreSQL and serves the live one to
viewers on a content host.  This directory models the parts of it whose
correctness depends on order, concurrency, failure or intricate rules, checks
them with TLC on small instances, and proves the properties of every state
machine for every size with TLAPS.

`PROJECT.json` lists the components, runs, mutants (deliberate faults of one
definition, each of which makes its property fail), hazards, findings and
theorems, and maps every definition to the lines it models.

## The system

| component | state it keeps | operations | hard behaviour | modules |
|---|---|---|---|---|
| versions (`internal/versions`, `audit`) | `pages`, `page_versions`, `audit_log` | create, deploy, publish, rollback, approve, reject, gate, takedown, delete, restore, data and config updates, deck saves | dedupe across gate changes, reads made before the page lock, slug reuse, holds agents must not get around | `PageVersions`, `Governance` |
| managed documents (`pagedata`, `jsonv`) | none | materialise, validate, profile, compare | rules of JSON Schema, JavaScript patterns, caps of profiles | `JsonValues`, `Schemas`, `Patterns`, `Profiles`, `CoverageGaps` |
| page patching (`pagepatch`) | none | edit, search | anchors created or destroyed by an earlier edit | `Patching` |
| uploads (`uploads`) | `page_content_uploads`, chunks | start, ticket, append, PUT, peek, deploy, cancel, reap | cap under concurrent starts, retried commits, reaper against slow clients | `Uploads` |
| update and drain (`ops/update`, `db`, `ops/compat`) | drain marker, release link, unit, CLI | fence, idle check, migrate, stop, switch, start, recover | failure or kill at any step, writes racing the fence | `Activation` |
| central sessions (`auth/central`) | access list, sessions, logout and access events | sign-in, validation, sign-out, back-channel events | events in any order, sign-in racing logout and revocation | `CentralSessions` |
| content serving (`contentview`, `pagecookie`, `passwordgate`, `passwordvault`, `rawtoken`) | password rows, cookies, turns, delays, signed links | read, sign in, broker, mint and open links, save through a link | rows read before a rotation, pacing across connections, links that outlive a page | `ContentAccess`, `Links` |
| portals (`portals`) | portals and members | create, add, remove, home page, retire | counts taken before another insert | `ContentAccess` |
| tokens (`tokens`, `dataexport`) | tokens, grants | mint, bind, use, revoke, export links | a slug that changes hands while a grant binds | `Grants` |
| templates (`templates`) | templates and revisions | register, remove, build, rerender | retries of builds, retirement under a registration | `Templates` |
| workspaces (`workspaces`) | workspaces, membership | create, rename, remove, assign | removal while pages join | `Workspaces` |
| refresh health (`versions/refreshhealth.go`, `cron`) | schedules, stamps, checks | verdicts, schedule arithmetic | stale stamps, late checks, uneven calendars | `RefreshHealth`, `Schedules` |
| rate limits (`ratelimit`, `clientip`) | windows in memory | hit, sweep | slow writes of a window's start | `Limits`, `ClientAddresses` |
| migrations (`migrate`, `ops/compat`) | `schema_migrations`, the schema | run, lock, apply | runners of several releases, lost answers of commits | `Migrations` |
| backups (`ops/backup`) | dumps, manifests, scratch servers | create, check, rehearse | power loss, files that change under the reader | `Backups` |
| operator commands (`ops/bootstrap`, `ops/install`, `ops/envfile`) | host files, units, the environment file | bootstrap, merge, redact | dying between two steps and running again | `Bootstrap`, `EnvFiles` |
| MCP and REST surfaces (`mcp`, `mcpproto`, `api`, `adminapi`) | none of their own | route, authorise, call the parts above, answer | answers read after the commit | `Routes`, `Requests`, `ToolCalls`, `Answers` |
| HTTP plumbing (`httpx`, `reqbody`, `csrf`, `server`) | none | client address, origin gates | forwarded addresses | `ClientAddresses`, `Requests` |
| render, shell, CSP, preflight | none | text generation, static analysis | | not modelled |
| front end | none | browser code | | not modelled |

The surfaces call the components; the components share the database only.
Every mutation and its audit row commit in one transaction (`db.WithTx`), which
passes the drain fence of the updater.  The content host reads what the
versions and portals write.  Concurrency comes from goroutines of one process
that meet at row locks, advisory locks and unique indexes of PostgreSQL under
READ COMMITTED, and at two structures in memory, the turns of the password gate
and the windows of the rate limiters.  Operator commands are separate processes
that meet the service at the database, the drain marker and the file system.

What makes each part correct:

- **versions**: the live pointer names an approved version of a live page; a
  page that a human has taken down or gated keeps showing what it showed until
  a human acts; review is final; every pointer move is in the audit log; what a
  deploy answers is what visitors then see; data never goes backward.
- **uploads**: a token never holds more staged uploads than its cap; an upload
  is consumed once, from exactly the bytes declared; nothing is removed without
  a reason.
- **update, migrations, backups, bootstrap**: what the operator is told is what
  the host runs and holds, whatever fails, dies or is run again.
- **central sessions, portals, content serving, tokens**: access that was taken
  away is gone once the answer is given, whatever was in flight; late, repeated
  and reordered events do no harm; password attempts are paced and counted.
- **templates, workspaces, refresh health, rate limits**: what they say of the
  pages is what the pages went through.
- **algorithms and surfaces**: they agree with a reference definition.

## Modules

State machines.  One action per transaction where the code holds one lock from
its first statement on, one action per statement where it does not.

| module | its state and steps, and what they abstract |
|---|---|
| `PageVersions` | `pages` and `versions` are the tables, `inserted` the id sequence, `trail` the pointer entries of the audit log, `last` the last answer and who caused it. `DeployLocked` is the shared body of deploys, refreshes, config edits and deck saves. A document is what dedupe, validation and materialisation tell apart: layout, config, payload, source coverage, stamp. Two reads outside the lock are kept as such: the precheck of `UpdatePageData` (`inflight`) and the base version of a deck session. Versions are ordered as the code orders them, by the time their transaction began (`created`, up to `MaxTime`) and then by id, so a call that waited for the page's lock may store a version that is not the newest. |
| `Governance` | what the core promises administrators, three facts per slug: what is shown, whether a human holds it, what was refused. `PageVersions` implements it. |
| `Uploads` | rows with their chunks, row locks, the advisory lock per token, the transactions in progress, each statement a step with the `now()` of its transaction. `Rollback` is every refusal, timeout, lost connection and crash. `TxSpan` bounds how long the statement timeouts let a transaction live. |
| `Activation` | stage two of `pages update`: the updater's steps in order, each of which may fail, and after each of which it may be killed; `Cleanup`, whose steps may fail as well; writers that pass the admission check and open their transaction in two steps. |
| `CentralSessions` | the four tables of migration 025 and the calls on them, statement by statement, with the advisory and row locks that the comments of `store.go` rest on. Auth is external: it opens and ends sessions and delivers its events late, repeatedly and in any order. |
| `ContentAccess` | one browser whose requests interleave with each other and with staff: page and portal rows, cookies, the broker, turns and delays of the password gate, sealed copies. A digest is its salt; a delay is counted down. |
| `Grants` | grants of refresh tokens bound to page rows, with requests statement by statement and the slug deleted, created again and restored in between. |
| `Links` | signed links minted in two reads, opened, and used to save decks, while pages are replaced and deployed to; a deployment may have begun before versions that were stored ahead of it (`late`). |
| `Answers` | MCP page tools that commit and then read by the slug, staged uploads and their receipts, while staff review, disable, delete and restore. |
| `Templates` | registration, revisions, retirement, builds and rerenders of one page, with replacement config and data and the version they expect, at their row locks. |
| `Workspaces` | create, rename, remove and assign against page creation, deletion and restore, at their row locks. |
| `RefreshHealth` | versions with their stamps, the recorded check and one that waits for the page's lock, and the verdict (`HealthOf`) computed from them for a calendar of fires. |
| `Limits` | windows per key; a request reads the clock, then takes the lock; the sweeper and a restart forget. `admitted` is a history of what was let through. |
| `Migrations` | runners of several releases with the session lock, a transaction per file, failures, deaths and lost commit answers; the policy of an automatic update. |
| `Backups` | a capture from a running service, its rehearsal, the publishing rename, the check and what it restores against what the manifest records, with a file cache that power loss empties. A Node-era backup is checked by the same steps (`legacy.go`). |
| `Bootstrap` | the steps that install a host, stopped anywhere and run again by an operator who may answer otherwise. |
| `Surfaces` | one step: an address, a request to the dashboard's APIs or an MCP message arrives, with what its body and headers hold and the tables answer. `Routes`, `Requests` and `ToolCalls` are what happens to it. |

Algorithms, as operators beside a reference definition:

| module | algorithm | reference |
|---|---|---|
| `JsonValues` | parser, writer, key order, canonical form, equality, numbers that no double holds | reading back what was written; equality of sets of members |
| `Patching` | anchored edits and search | occurrences counted and replaced by their definition |
| `Schemas` | strict compilation and validation of JSON Schema | the meaning of each keyword |
| `Patterns` | parser, screen, RE2 translation, backtracking matcher | each engine against the other, and a set-of-ends semantics |
| `Profiles`, `CoverageGaps` | profiles, summaries, warnings, fields that stopped | what a comparison of all rows finds |
| `Schedules` | cron parsing, `Prev`, `Next`, the longest gap; one step asks about an expression and an instant | the minutes that match |
| `Routes`, `Requests`, `ToolCalls` | routing, gates and dispatch of three surfaces | which credential may run what, and that a refused request runs nothing |
| `ClientAddresses`, `EnvFiles` | client address behind proxies, the environment file | arithmetic on addresses; the rules of systemd and the shell |

`MCPageVersions`, `MCUploads`, `MCCentralSessions`, `MCContentAccess`,
`MCEstate` and `MCAlgorithms` are the instances for TLC; `Activation` and
`RefreshHealth` are checked as they are.  `Estate` composes the ten smaller
machines and the questions to `Surfaces` and `Schedules`, one of which moves in
a behaviour (`active`, one of the run's `Machines`).  Definitions named
`X_Variant` are the faults of `X` that the mutants use.

## Runs

| run | properties | what it explores |
|---|---|---|
| `governance` | `PointerApproved`, `AuditReplays`, `HistoryFinal`, `Governed` | every interleaving of agents and humans on one slug, two page rows, three versions, one deletion |
| `data` | `DeckSaveNewest`, `CoverageMonotone`, `RefreshKeepsTemplate` | a refresh whose template goes stale between precheck and transaction; deck saves and config edits while the live version moves |
| `uploads` | `CapHeld`, `ConsumedOnce`, `ContentKept`, `SlotsFair` | many small uploads with cap, reaper and clock; one upload with racing appends, PUTs, commits and cancels |
| `update` | `ReportTrue`, `FenceLifts` | failures and kills anywhere, a linked and a plain-directory install, forced or not |
| `sessions` | `LogoutFinal`, `ReplayHarmless`, `SessionsEnabled`, `LatestAccess` | sign-in against logout, replays and retention; against grants, revocations and access events; touches and expiries |
| `viewers` | `ChargesKept`, `PortalsSound`, `Entitled`, `PacedGuesses`, `CopyKept`, `TurnsReturn` | seven mixes of requests and staff transactions: guessing from two connections, one submission at several doors, rotations under reads, revocations, two curators |
| `estate` | `HealthTruthful`, `RegisteredIsCurrent`, `RetryNeverReverts`, `MembershipAudited`, `BudgetHeld`, `SchedulesFaithful`, `LinksHold`, `GrantsHold`, `AnswersTruthful`, `SurfacesFaithful`, `BackupsHold`, `InstallKeeps`, `MigrationsHold` | the ten machines of `Estate`, the questions to a schedule and the inputs of the surfaces, one of the twelve per behaviour; every property is about one of them |
| `algorithms` | `DocumentsFaithful`, `SchemasFaithful`, `ProfilesFaithful`, `HostsFaithful` | one input per behaviour |
| `gated_docs`, `update_quiesced`, `idle_docs`, `health_docs` | one each | *violations*, see Findings |

**Bounds.** Two page rows are the least with which a slug can be recreated
while a deleted page waits to be restored; three versions are the least with a
live, a rolled-back and a pending one; two layouts and two payloads are the
least for a schema mismatch.  Locks, sweeps and lost updates involve pairs of
calls, so two connections; clocks run past every limit a run is about.  The
`data` run is two worlds (`OneWorld`): refreshes in flight, where a gated page
has two versions at most, and edits; takedowns are left to `governance`.
`RefreshHealth` has two calendars with uneven fires; `MaxEvents` bounds
fires and versions together and `MaxLibrary` templates and versions together,
so that either can be large when the other is small; a published backup is
written over once, by one file or by all of them.  The bounds on rows, versions,
ids and clocks exist for TLC alone; the proofs hold for every value of
theirs.  The inputs of the algorithms are chosen around their branches and caps:
slugs made of the routes' own words, requests with every credential and answer
of a gate, schedules with every kind of item around a leap day and years away
from one (an hour of three minutes and a day of two hours keep the comparison
minute by minute small; no rule of cron depends on how long they are).

**What is promised, and what is not.**  Some properties say less than one might
wish, because the code promises no more.

- `DeckSaveNewest` and `LinksHold`: a save lies over the newest version by
  `created_at`.  One that was stored after the editor's base but began before it
  is passed over, although AUTHORING.md reads otherwise (see Findings).
- `DocumentsFaithful`: a literal such as `1e999` is read as an infinity and
  written as null; every other text reads back as it was, and the canonical form
  refuses a number that is not finite.
- `SchemasFaithful`: with typed `items`, `uniqueItems` compares only the items of
  a tuple that have one of those types, as Ajv does; the reference says so, and
  the inputs have two-element tuples.
- `ProfilesFaithful`: what is lost in arrays and fields that both payloads have
  is warned of, or the answer says that warnings were cut.  An array or a field
  that is gone is not compared, and a key with a dot shares the name of a nested
  one (`Dotted`).
- `HostsFaithful`: `pages env` shows no secret when every assignment is on one
  line with one address in it (`OneLine`).  The redaction goes line by line, so
  the continuation of a quoted value is a line like any other; the merge is
  checked on values of several lines as well.

**Symmetry.** Calls are interchangeable in `uploads`, `sessions` and
`idle_docs`, connections and migration runners in `estate`; no run with symmetry checks liveness.

**Deadlock** is not checked where the system may stop or a bound stops it: a
finished updater, a full table of ids, a clock at its end, an input examined.

**Fairness.** Safety uses none.  `FenceLifts` assumes weak fairness of
`MarkerExpires`: wall-clock time passes; nothing is assumed of the updater, of
requests or of systemd.  `TurnsReturn` assumes weak fairness of the clock and
of every request's next step, which is what the Go scheduler, the statement
timeout and the deferred release give a goroutine of a running process; a
restart, which forgets the turns, is not in that model.

## Proofs

For every value of the constants, with TLC's small instances as a check on the
invariants before they were proved.

| theorem | states |
|---|---|
| `PageVersionsProofs!TypeCorrect` | `[]TypeOK` |
| `OnlyApprovedLive`, `AuditComplete`, `OneLivePagePerSlug` | `PointerApproved`, `AuditReplays`, `SlugsUnique` |
| `HistoryIsFinal`, `HoldsRespected` | `HistoryFinal`; agents respect holds |
| `ImplementsGovernance` | `Spec => Governed`, the refinement |
| `AnswersAreTrue`, `SavesAreNewest` | `LiveTruthful`, `DeckSaveNewest` |
| `CoverageNeverFalls`, `TemplateKept` | `CoverageMonotone`, `RefreshKeepsTemplate` |
| `UploadsProofs!Invariant`, `CapIsHeld`, `ConsumedAtMostOnce`, `ContentIsKept`, `SlotsAreFair` | the four properties of `uploads` |
| `ActivationProofs!ReportsAreTrue`, `SchemaComesFirst` | `ReportTrue`, `SchemaFirst` |
| `CentralSessionsProofs!Invariant`, `LogoutsAreFinal`, `ReplaysAreHarmless`, `SessionsAreEnabled`, `AccessIsLatest` | the four properties of `sessions` |
| `ContentAccessProofs!Invariant`, `OnlyEntitled`, `Charged`, `GuessesPaced`, `PortalsStaySound`, `CopiesOpen` | the five safety properties of `viewers` |
| `EstateProofs!MembershipIsAudited`, `MigrationsAreWhole`, `BackupsHeld`, `GrantsAreHeld` | `MembershipAudited`, `MigrationsHold`, `BackupsHold`, `GrantsHold` |
| `ServingProofs!LinksAreHeld`, `AnswersAreTruthful`, `InstallsKeep` | `LinksHold`, `AnswersTruthful`, `InstallKeeps` |
| `ServingProofs!CallsAreFaithful`, `RequestsAreFaithful`, `EveryPageIsAddressable` | `CallFaithful`, `RequestFaithful`, `Addressable` for every message, request, slug and id |
| `ServingProofs!SurfacesAreFaithful` | `SurfacesFaithful` |
| `UpkeepProofs!BudgetsAreHeld`, `HealthIsTruthful`, `LibraryConverges` | `BudgetHeld`; `HealthTruthful`; `RegisteredIsCurrent` and `RetryNeverReverts` |
| `UpkeepProofs!SchedulesAreExact`, `SchedulesFireAsWritten` | `Faithful` for every expression and time; `SchedulesFaithful` |

So every safety and action property that a passing run checks is also a
theorem, but for the four invariants of the run `algorithms`.  Some theorems
are about facts no run checks for themselves: that at most one live page has a
slug (`SlugsUnique`), that a deploy answers `live` when its slug serves that
version (`LiveTruthful`), and that no process of the new release runs on a
schema without its migrations (`SchemaFirst`).

### The arguments

**PageVersions.** `TypeOK` is inductive.  `SlugsUnique`, `PointerApproved` and
`AuditReplays` are not inductive one by one: a dedupe onto an old version needs
that the version is of this page and its id was handed out, an approve that at
most one live page has the slug, a replayed trail that a deleted page points
nowhere; their conjunction `Safe` is.  `DeployLocked` is opened once:
`DeployEffect` says what a deploy of any kind does to pages, versions and trail
(`Landed`), and the callers use that.  For the refinement `StepShape` shows that
a step changes one page row or rejects one version, and how; `OtherSlugs`,
`TheLivePage` and `NoLivePage` turn that into what a slug serves and whether it
is held, and `OneRowGoverned` and `RejectGoverned` find the action of
`Governance`.  `Answered` and `LandedOn` say what each kind of deploy answers
and where it lands; `SnapshotsTrue`, that what a precheck read is a version of
its page, carries the refresh properties.

**Uploads.** `IInv` adds to the types what each statement of each open
transaction knows of the rows it saw, locked or deleted (`CallsOK`), that ids
are new (`Fresh`), and that uncommitted rows of a token are covered by its
advisory lock.  The lemmas about `Joined` and `Split` say that chunks put
together are the bytes that were declared.

**Activation.** What a report says depends on the steps before it, so `IInv`
says for each place of the updater what is done by then: nothing before the
switch (`Untouched`), the files written during it (`Switched`), the files put
back while a restoration has not failed (`Restored`).

**CentralSessions.** `IInv` has the locks (`LocksExclusive`), what a call read
under them, and time: a session is inserted within `Span` of the exchange that
allows it (`Timely`), a logout that came in between is still remembered
(`Remembered`), and what was swept stays swept (`EndedBefore`).

**ContentAccess.** Each cookie in the jar was earned from a row that existed
(`Earned`); each open request holds what it read (`CallsOK`); locks and turns
exclude each other (`LocksApart`), and failures are drawn and paid one by one
(`Drawn`, `Delayed`, `FailuresCounted`).  `OthersKeep` and `Stable` let a step
of one request leave the facts of all others alone.

**Estate.** Lemma `Parts` says that a step of `Estate` is a step or a stutter
of each machine, so each has its own invariant.  Workspaces: a sharer keeps a
workspace from removal, a remover keeps everybody from joining (`SharesHold`),
and the pages it emptied stay out (`Emptied`).  Migrations: the advisory lock is
held from the read to the unlock.  Backups: what is flushed survives power
loss, and a check keeps the manifest it compares with.  Grants: at most one live
page holds the slug, and an effect is on the page its grant is bound to.

**Serving.** Links: a save lies over the newest of the versions that were there
(`SavesSound`), and what is shown is the newest of its page (`LargestPosition`,
`NewestOfSome`, `NewestIsThere`).  Answers: `TellsOK` and `ReceiptsOK` follow a call from its
commit to its second read.  Bootstrap: what the environment file carries over
(`CarriedOK`) opens the database before and after the role's password is set,
because it is the same one (`PasswordOK`), or the file has none.

**Gates.** Tools, handlers and routes are tables, and lemmas read each row once:
what it may call (`RunsHaveShape`, `AdminRows`, `RestRows`), that every
announced tool and every routed operation has a row (`CatalogNames`,
`AdminNames`, `RestNames`), and what a route says of method and path
(`RestTable`, `PagesOnly`).  `Resolved` says that what the router finds is a
route that matches, `ToolsRun`, `RestAnswers` and `AdminAnswers` that what a
surface runs is a row whose gate let the request through.

**Addresses.** A page's address matches its own route, whatever the slug.  An
earlier route of the same method would take it only if it matched as well, and
it cannot: it ends in another word, or has a word where the address has an id
(a number, so never `versions` or `preflight`), or is longer than the address
allows; and the one pattern that a nested slug could complete, a slug followed
by `versions` and an id, needs a slug with a reserved segment, which
`NormalizeSlug` refuses.

**Schedules.** A time is a day and a minute of it (`Moment`, `Earlier`), so the
latest fire up to an instant is the last minute of the nearest day that matches
(`FirstDayIs`, `SearchBack`, `SearchAhead`); the nearest exists because a set of
naturals has a least element (`NatMin`).  `Parsed` says that the sets the parser
builds name what the fields name, Sunday twice and stars included.  That the
walk of `MaxGap` is a function at all is an argument about the least time at
which it would not be (`WalkBack`, `WidestIs`); `WalkMeets` says that it meets
every fire of the week and stops behind the first one before it.

**Upkeep.** Limits: `WindowOK` says for each key that its window and the log of
what it let through fit: the last of three windows begins a stretch after the
first has ended, but for what a request may wait.  RefreshHealth: `Near` says
which runs answer a fire, `CoversIs` that the code's cover test, with its
tolerance capped at half the interval, finds them and no others.  Templates:
`ShelfOK` has at most one template that is not retired, whose current revision
is its highest, `HoldersOK` that its row has one holder, which read the highest
revision under the lock, and `LockOK` that a rerender finds the page it locked.

### Assumptions

All are facts of the code or of what surrounds it.  `BoundsAssumption`,
`LoadsAssumption`, `MixesAssumption`, `UpdateAssumption`, `StagedDocuments` and
the `Nat` bounds of some theorems say that the parameters of a model have their
kind, and TLC evaluates the named `ASSUME`s on every run.  The others:

- `DocumentsAssumption`: uploads are documents; a layout is not both managed
  and a deck (one parser decides).
- `LimitsAssumption`: a transaction is shorter than `StaleAfter`, which is
  shorter than the TTL (timeouts of seconds, an hour, a day).
- `NamesAssumption`, `OwnOrigin`, `WorkspaceIds`, `MigrationFiles`: the values
  that stand for "none" are not real values (ids and sessions start at 1, names
  are not empty).
- `SessionsAssumption`; `AuthAssumption`: a logout token stops verifying before
  its replay record is purged, and Auth does not move an address from one
  account to another (what happens otherwise is under the hazards below).
- `AccessAssumption`: the delays double up to a maximum that the highest
  recorded count reaches (`passwordgate` constants).
- `Budgets`: a budget lets a request through and a key is never the "no
  session" value; `FireTimes`: fires and graces are times.
- `SurfaceInputs`: segments of a slug are not empty and a version's id is a
  number; `ScheduleQuestions`: times are of this century, far from the zero time
  of Go, and the comparison stays within the eight years that a search looks.

### Only model-checked

- `FenceLifts` and `TurnsReturn`: liveness under fairness.
- `DocumentsFaithful`, `SchemasFaithful`, `ProfilesFaithful` (`JsonValues`,
  `Patching`, `Schemas`, `Patterns`, `Profiles`, `CoverageGaps`): recursive
  operators over data, whose meaning for every input needs induction; they are
  checked on bounded inputs.
- `HostsFaithful`: files and headers (`EnvFiles`, `ForwardedFor`) are read by
  folds over their characters, which is induction as well, and the addresses of
  `ClientAddresses` are cut with powers of two, for which the provers have no
  theory.

## Findings

1. `gated_docs`: on a gated page `DeployLocked` dedupes onto an approved version
   of equal bytes and answers "approved"; docs/API.md:108 and :693 say that
   gated pages land pending.
2. `update_quiesced`: admission is checked before the transaction opens, and the
   marker lapses after 15 minutes; db.go:145 and update.go:611 promise that all
   writes are locked out.
3. `idle_docs`: `IdentityAt` revokes on a read that another request's touch has
   made stale; central.go:53 bounds the loss to a minute.
4. `health_docs`: a later version with an older stamp hides the refresh that
   answered a fire; refreshhealth.go:48 says overdue means that nothing happened.

Seen while modelling, without a run:

- Versions are ordered by `created_at`, which is when their transaction began
  (migrations/001_init.sql:51, deploy.go:640).  An update that began before the
  editor's base and waited for the page's lock is stored after it and counts as
  older, so the next save of a deck lies over it and nothing is told.
  docs/AUTHORING.md:182 says of a newer version that "Pages refuses the stale
  save".  The models have the behaviour (`late` of `Links`, `created` of
  `PageVersions`), and what they promise is that nothing else is passed over.
- `Start` counts a token's uploads and reaps them in two statements
  (uploads.go:331, :343), so a row may be reaped although another call freed a
  slot in between; the comment at :340 speaks of a token at its cap.
  `SlotsFair` states what holds: silent while the token was found at the cap.

## Hazards without a property

Every hazard of `PROJECT.json` has a property.  Beyond them we know of these
behaviours, which the models leave out: the JWKS key cache under a rotation
(tokens.go:454); an address that Auth moves to another subject (store.go:281,
excluded by `AuthAssumption`); a restart, which gives turns and delays back
(passwordgate.go:140); the broker's digest of a row that is rotated
(serve.go:253); `LoadCurrent` reading a template that is retired before the
build (build.go:60; the build goes through, and the model lets it); the
eight-year horizon of cron searches (cron.go:70); look-behind in patterns
(jsregex.go:1203); profiles that look at the next sample only (profile.go:673);
the lock order of concurrent uploads, where PostgreSQL breaks a deadlock
(uploads.go:230); a `source_as_of` in the future (deploy.go:269); a data refresh
repeated after a lost answer (deploy.go:966); a bootstrap killed between the
rename and the move of the assets, and a first token shown once
(bootstrap.go:264, :519).

## Not modelled

Rendering, the shell, CSP, preflight and composition are text generation and
static analysis of HTML; the HTML scanner that finds the managed blocks belongs
to them.  The `coverage_gap` verdict of the health report and the order of its
rows are left out, and so is the schema upgrade of a Node-era scratch copy.  The front end is browser code.  `doctor`, the development environment
and stage one of the updater orchestrate tools of the host without state of
their own.  Reading request bodies, readiness and shutdown are the HTTP
library's.  Titles, themes, labels, names and listings are columns that nothing
else reads.

## Plan

1. `KeyCache`: concurrent refreshes of the JWKS resolver, its refresh limit, a
   retired and a rotated key.
2. `SlugClaim`: create and restore at the statement level (unique index, retry).
3. Proofs about `ClientAddresses` (which peers are trusted, one key per subnet),
   with lemmas on the high bits of a word in place of powers of two.
