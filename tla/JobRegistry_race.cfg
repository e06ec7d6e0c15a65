\* An update and a delete of one job at the same time.
SPECIFICATION Spec
CONSTANTS
  Job = {j1}
  Request = {r1, r2}
  GoodTrigger = {a}
  OneShot = {}
  BadTrigger = {}
  None = None
  MaxRequests = 3
  MaxCrashes = 0
PROPERTIES DeleteIsFinalAlways
CHECK_DEADLOCK FALSE
