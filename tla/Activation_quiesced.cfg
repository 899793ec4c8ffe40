SPECIFICATION Spec
CONSTANTS
  Writers = {"plain", "upload"}
  Bypass = {"upload"}
  Legacy = {FALSE}
  Forced = {FALSE}
INVARIANT QuiescedMeansQuiet
CHECK_DEADLOCK FALSE
