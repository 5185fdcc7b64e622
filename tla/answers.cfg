SPECIFICATION FairSpec
CONSTANTS
  Requests = {r1, r2}
  Truncated = {}
  Unreadable = {}
  Junk = {}
  None = None
  Workers = {w1}
  Faults = {"crash", "s3", "link"}
PROPERTIES AcceptedLeavesQueue AnsweredForGood UploadIsAnswered
CHECK_DEADLOCK FALSE
