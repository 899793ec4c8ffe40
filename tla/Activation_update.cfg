SPECIFICATION Spec
CONSTANTS
  Writers = {"plain", "upload"}
  Bypass = {"upload"}
  Legacy = {TRUE, FALSE}
  Forced = {TRUE, FALSE}
INVARIANT ReportTrue
PROPERTY FenceLifts
CHECK_DEADLOCK FALSE
