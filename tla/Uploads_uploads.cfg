SPECIFICATION Spec
CONSTANTS
  Tokens = {"t"}
  Calls = {c1, c2}
  Loads <- SlotsAndBytes
  MaxChunk = 2
  MaxActiveUploads = 1
  TTL = 4
  StaleAfter = 2
  TicketTTL = 2
  TxSpan = 1
SYMMETRY AnyOrder
INVARIANTS CapHeld ConsumedOnce
PROPERTIES ContentKept SlotsFair
CHECK_DEADLOCK FALSE
