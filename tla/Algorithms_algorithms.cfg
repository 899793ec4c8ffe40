SPECIFICATION Spec
INVARIANTS DocumentsFaithful SchemasFaithful ProfilesFaithful HostsFaithful
CHECK_DEADLOCK FALSE
