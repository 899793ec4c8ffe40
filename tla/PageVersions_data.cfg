SPECIFICATION Spec
CONSTANTS
  l1 = l1
  l2 = l2
  dk = dk
  Slugs = {"s"}
  Clients = {"c"}
  Layouts = {l1, l2, dk}
  ManagedLayouts = {l1, l2}
  DeckLayouts = {dk}
  Configs = {0, 1}
  DataSets = {0, 1, 2}
  Accepts <- DataSchemas
  Uploads <- DataUploads
  MaxAsOf = 1
  Stamps = {0}
  MaxPages = 1
  MaxVersions = 3
  MaxTime = 2
  MaxDeletes = 0
CONSTRAINT OneWorld
INVARIANT DeckSaveNewest
PROPERTIES CoverageMonotone RefreshKeepsTemplate
