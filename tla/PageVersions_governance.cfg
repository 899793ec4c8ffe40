SPECIFICATION Spec
CONSTANTS
  l1 = l1
  l2 = l2
  dk = dk
  Slugs = {"s"}
  Clients = {}
  Layouts = {l1, l2}
  ManagedLayouts = {}
  DeckLayouts = {}
  Configs = {0}
  DataSets = {0}
  Accepts <- NoSchemas
  Uploads <- PlainUploads
  MaxAsOf = 0
  Stamps = {0}
  MaxPages = 2
  MaxVersions = 3
  MaxTime = 1
  MaxDeletes = 1
INVARIANTS PointerApproved AuditReplays
PROPERTIES HistoryFinal Governed
