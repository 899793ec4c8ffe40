SPECIFICATION Spec
CONSTANTS
  Pages = {1}
  Portals = {1, 2}
  Secrets = {"a", "b"}
  Calls = {"c1", "c2"}
  BaseDelay = 1
  MaxDelay = 2
  MaxCount = 2
  Mixes <- AllMixes
INVARIANTS ChargesKept PortalsSound
PROPERTIES Entitled PacedGuesses CopyKept TurnsReturn
CHECK_DEADLOCK FALSE
