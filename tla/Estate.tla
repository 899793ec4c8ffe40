------------------------------- MODULE Estate -------------------------------
(***************************************************************************)
(* The smaller state machines, one of them per behaviour: `active` says    *)
(* which of the Machines of a run moves, the others stay in an initial     *)
(* state.  What reaches the program from outside and the questions to a    *)
(* page's schedule are two of them: one step each, to the input that is    *)
(* asked about.                                                            *)
(***************************************************************************)
EXTENDS Integers, Sequences, FiniteSets

CONSTANTS
  Machines,                 \* those a run follows
  Conns,                    \* connections, and migration runners
  Schedules, RefreshGrace, RefreshEarly, RefreshStaleSlack, \* RefreshHealth
  Week, UnscheduledStaleAfter, MaxTime, MaxEvents, MaxWait,
  Designs, MaxTemplates, MaxRevisions, MaxLibrary,          \* Templates
  Addresses, Sessions, WindowMs, Limit, MaxClock, MaxDelay, \* Limits
  MaxPages,                 \* rows of pages, of Workspaces and Grants
  Folders, Names,           \* Workspaces
  Tokens,                   \* Grants
  Captures, MaxChange,      \* Backups
  Releases,                 \* Migrations
  Hosts, MaxFresh,          \* Bootstrap
  LinkStaff, TemplateRevisions, \* Links
  MaxSaves, MaxLinks,
  Agents, Texts,            \* Answers
  Staged, MaxStored,
  AddressInputs, RequestInputs, CallInputs,                 \* Surfaces
  HourMinutes, DayHours, SearchDays, Reach, ScheduleInputs  \* Schedules

VARIABLES active,
  now, fires, hpage, hrows, check, waiting, newest,                   \* RefreshHealth
  tmpls, revs, tpage, trows, conn,                             \* Templates
  folders, wpages, trail, caller,                              \* Workspaces
  tokens, gpages, glinks, request, effect,                     \* Grants
  service, lock, capture, dirs, bcheck, scratch,               \* Backups
  app, assets, envfile, pg, unit, up, proxy, run, fresh, settled, \* Bootstrap
  clock, windows, pending, admitted, answer,                   \* Limits
  kpages, kversions, links, minting, editor, shown,            \* Links
  apages, aversions, calls, receipts, said,                    \* Answers
  recorded, schema, holder, runners, history,                  \* Migrations
  input,                                                       \* Surfaces
  question                                                     \* Schedules

H == INSTANCE RefreshHealth WITH page <- hpage, rows <- hrows
T == INSTANCE Templates WITH page <- tpage, rows <- trows
W == INSTANCE Workspaces WITH pages <- wpages, Callers <- Conns
G == INSTANCE Grants WITH pages <- gpages, links <- glinks
B == INSTANCE Backups WITH check <- bcheck
I == INSTANCE Bootstrap
L == INSTANCE Limits WITH MaxTime <- MaxClock
K == INSTANCE Links WITH pages <- kpages, versions <- kversions, Staff <- LinkStaff, Revisions <- TemplateRevisions,
       MaxVersions <- MaxSaves
A == INSTANCE Answers WITH pages <- apages, versions <- aversions, answer <- said, Callers <- Agents, Contents <- Texts,
       MaxVersions <- MaxStored
M == INSTANCE Migrations WITH Runners <- Conns
API == INSTANCE Surfaces
C == INSTANCE Schedules

ASSUME SurfaceInputs == API!SurfacesAssumption
ASSUME ScheduleQuestions == C!SchedulesAssumption

hv == <<now, fires, hpage, hrows, check, waiting, newest>>
tv == <<tmpls, revs, tpage, trows, conn>>
wv == <<folders, wpages, trail, caller>>
gv == <<tokens, gpages, glinks, request, effect>>
bv == <<service, lock, capture, dirs, bcheck, scratch>>
iv == <<app, assets, envfile, pg, unit, up, proxy, run, fresh, settled>>
lv == <<clock, windows, pending, admitted, answer>>
kv == <<kpages, kversions, links, minting, editor, shown>>
av == <<apages, aversions, calls, receipts, said>>
mv == <<recorded, schema, holder, runners, history>>
qv == <<input, question>>
vars == <<active, hv, tv, wv, gv, bv, iv, lv, kv, av, mv, qv>>

\* RefreshHealth and Bootstrap have many initial states: the idle ones are fixed.
HealthAtRest == fires = (CHOOSE f \in Schedules : TRUE) /\ hpage = [scheduled |-> FALSE, gated |-> FALSE, live |-> 0]
HostAtRest == app.is = "absent" /\ assets = "none"

Init ==
  /\ active \in Machines
  /\ H!HealthInit /\ (active # "health" => HealthAtRest)
  /\ I!BootInit /\ (active # "bootstrap" => HostAtRest)
  /\ T!TemplatesInit /\ W!WorkspacesInit /\ G!GrantsInit /\ B!BackupsInit /\ L!LimitsInit /\ K!LinksInit /\ A!AnswersInit
  /\ M!MigrationsInit /\ API!SurfacesInit /\ C!SchedulesInit

HealthStep     == active = "health" /\ H!HealthNext /\ UNCHANGED <<active, tv, wv, gv, bv, iv, lv, kv, av, mv, qv>>
TemplatesStep  == active = "templates" /\ T!TemplatesNext /\ UNCHANGED <<active, hv, wv, gv, bv, iv, lv, kv, av, mv, qv>>
WorkspacesStep == active = "workspaces" /\ W!WorkspacesNext /\ UNCHANGED <<active, hv, tv, gv, bv, iv, lv, kv, av, mv, qv>>
GrantsStep     == active = "grants" /\ G!GrantsNext /\ UNCHANGED <<active, hv, tv, wv, bv, iv, lv, kv, av, mv, qv>>
BackupsStep    == active = "backups" /\ B!BackupsNext /\ UNCHANGED <<active, hv, tv, wv, gv, iv, lv, kv, av, mv, qv>>
BootstrapStep  == active = "bootstrap" /\ I!BootNext /\ UNCHANGED <<active, hv, tv, wv, gv, bv, lv, kv, av, mv, qv>>
LimitsStep     == active = "limits" /\ L!LimitsNext /\ UNCHANGED <<active, hv, tv, wv, gv, bv, iv, kv, av, mv, qv>>
LinksStep      == active = "links" /\ K!LinksNext /\ UNCHANGED <<active, hv, tv, wv, gv, bv, iv, lv, av, mv, qv>>
AnswersStep    == active = "answers" /\ A!AnswersNext /\ UNCHANGED <<active, hv, tv, wv, gv, bv, iv, lv, kv, mv, qv>>
MigrationsStep == active = "migrations" /\ M!MigrationsNext /\ UNCHANGED <<active, hv, tv, wv, gv, bv, iv, lv, kv, av, qv>>
SurfacesStep   == active = "surfaces" /\ API!SurfacesNext /\ UNCHANGED <<active, hv, tv, wv, gv, bv, iv, lv, kv, av, mv, question>>
CalendarStep   == active = "calendar" /\ C!SchedulesNext /\ UNCHANGED <<active, hv, tv, wv, gv, bv, iv, lv, kv, av, mv, input>>

Next ==
  \/ HealthStep \/ TemplatesStep \/ WorkspacesStep \/ GrantsStep
  \/ BackupsStep \/ BootstrapStep \/ LimitsStep \/ LinksStep \/ AnswersStep \/ MigrationsStep
  \/ SurfacesStep \/ CalendarStep
Spec == Init /\ [][Next]_vars

---------------------------------------------------------------------------
\* The variables of each component keep their types.
EstateTypeOK ==
  CASE active = "health" -> H!HealthTypeOK
    [] active = "templates" -> T!TemplatesTypeOK
    [] active = "workspaces" -> W!WorkspacesTypeOK
    [] active = "grants" -> G!GrantsTypeOK
    [] active = "backups" -> B!BackupsTypeOK
    [] active = "bootstrap" -> I!BootTypeOK
    [] active = "limits" -> L!LimitsTypeOK
    [] active = "links" -> K!LinksTypeOK
    [] active = "answers" -> A!AnswersTypeOK
    [] active = "migrations" -> M!MigrationsTypeOK

\* A page is overdue when a fire was missed, since the first one that was, and
\* not when a run that can still be seen answered it (refreshhealth.go: HealthOf).
HealthTruthful == active = "health" => H!OverdueTruthful /\ H!SinceFirstMissed

\* The audit trail of a page says which workspace it is in (workspaces.go).
MembershipAudited == active = "workspaces" => W!MembershipAudited

\* A published backup can be restored, also after a power loss, and what
\* check-integrity calls verified is what it rehearsed (backup.Create, Check).
BackupsHold == active = "backups" => B!BackupsHold

\* A tool tells what the slug serves, and a retried upload nothing about a
\* page that took the slug over (tools_pages.go, tools_uploads.go).
AnswersTruthful == active = "answers" => A!AnswersTruthful

\* Every route of every page answers at its own address, and a request to the
\* APIs or a call of an MCP tool runs only what its credentials, its gates and
\* its arguments allow, all of it or nothing (internal/route, routens,
\* adminapi, api, csrf, tokens, mcp, mcpproto).
SurfacesFaithful == API!SurfacesHold

\* A schedule fires when its five fields say so, whichever of cron's searches
\* one asks (cron.Prev, Next, MaxGap).
SchedulesFaithful == C!SchedulesHold

\* A registered design is the one the library serves (templates.RegisterWithTx).
RegisteredIsCurrent == T!RegisteredIsCurrent

\* A build that arrives again reverts nothing (templates: assertExistingPage).
RetryNeverReverts == T!RetryNeverReverts

\* A grant keeps to the page it was bound to (tokens.Verify).
GrantsHold == G!GrantsHold

\* A signed link shows and saves what it was minted for (rawtoken, contentview).
LinksHold == active = "links" => K!LinksHold

\* A bootstrap that is run again keeps what the one before it made
\* (bootstrap.go).
InstallKeeps == I!InstallKeeps

\* A migration is applied once, whole and in order (migrate.go, compat.go).
MigrationsHold == active = "migrations" => M!MigrationsHold

\* No key is let through more often than its limit, and none is refused
\* without a reason (ratelimit.Hit).
BudgetHeld == L!BudgetHeld
=============================================================================
