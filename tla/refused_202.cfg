SPECIFICATION Spec
CONSTANTS
  Requests = {r1}
  Truncated = {}
  Unreadable = {}
  Junk = {}
  None = None
  Workers = {w1}
  Faults = {"nack"}
INVARIANTS AcceptedIsQueued
CHECK_DEADLOCK FALSE
