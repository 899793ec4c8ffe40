SPECIFICATION Spec
CONSTANTS
  Machines = {"health", "templates", "workspaces", "limits", "calendar", "links", "grants", "answers", "surfaces", "backups", "bootstrap", "migrations"}
  Conns = {c1, c2}
  Schedules = {{3, 5, 8}, {2, 4, 5}}
  RefreshGrace = 1
  RefreshEarly = 2
  RefreshStaleSlack = 2
  Week = 4
  UnscheduledStaleAfter = 4
  MaxTime = 9
  MaxEvents = 5
  MaxWait = 1
  Designs = {1, 2}
  MaxTemplates = 2
  MaxRevisions = 2
  MaxLibrary = 3
  Addresses = {"p"}
  Sessions = {"s"}
  WindowMs = 3
  Limit = 1
  MaxClock = 5
  MaxDelay = 1
  MaxPages = 2
  Folders = {1, 2}
  Names = {"a", "b"}
  Tokens = {1}
  Captures = {"b1"}
  MaxChange = 1
  Releases <- ThreeReleases
  Hosts = {"h1", "h2"}
  MaxFresh = 5
  LinkStaff = {"s"}
  TemplateRevisions = {1}
  MaxSaves = 3
  MaxLinks = 1
  Agents = {1}
  Texts = {1, 2}
  Staged <- OneStaged
  MaxStored = 2
  AddressInputs <- MCAddresses
  RequestInputs <- MCRequests
  CallInputs <- MCCalls
  HourMinutes = 3
  DayHours = 2
  SearchDays = 2929
  Reach = 420
  ScheduleInputs <- MCSchedules
INVARIANTS HealthTruthful MembershipAudited SchedulesFaithful LinksHold AnswersTruthful SurfacesFaithful BackupsHold MigrationsHold
PROPERTIES RegisteredIsCurrent RetryNeverReverts GrantsHold InstallKeeps BudgetHeld
SYMMETRY AnyOrder
CHECK_DEADLOCK FALSE
