\* Two concurrent requests, two jobs, a cron trigger, a date and a bad one, one restart.
SPECIFICATION Spec
CONSTANTS
  Job = {j1, j2}
  Request = {r1, r2}
  GoodTrigger = {a, b}
  OneShot = {b}
  BadTrigger = {bad}
  None = None
  MaxRequests = 3
  MaxCrashes = 1
SYMMETRY RequestSymmetry
INVARIANTS TypeOK StoresAgree EntryHasId TokenAsTold
PROPERTIES DeleteIsFinal
CHECK_DEADLOCK FALSE
