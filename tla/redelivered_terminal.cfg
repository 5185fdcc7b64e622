SPECIFICATION Spec
CONSTANTS
  Requests = {r1}
  Truncated = {}
  Unreadable = {}
  Junk = {}
  None = None
  Workers = {w1}
  Faults = {"crash"}
PROPERTIES TerminalIsFinal
CHECK_DEADLOCK FALSE
