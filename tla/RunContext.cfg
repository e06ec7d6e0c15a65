\* A run beside two requests for secrets, one for policies, an edit and a restart.
SPECIFICATION Spec
CONSTANTS
  None = None
  v1 = v1
  v2 = v2
  k1 = k1
  k2 = k2
  j1 = j1
  Stored <- MCStored
  Existing <- MCExisting
  Names <- MCNames
  Upper <- MCUpper
  Values = {v1, v2}
  Keys = {k1, k2}
  Requests = {q1, q2}
  Jobs = {j1}
  Limits = {1}
  Complete <- MCComplete
  Partial <- MCPartial
  Clients = {c1}
  Durations = {1, 2}
  JobRows <- MCJobRows
  Params <- MCParams
  Runs = {r1}
  MaxRuns = 1
  MaxCalls = 3
INVARIANTS TypeOK AsAnswered AlertsExact
 
SYMMETRY MCSymmetry
CHECK_DEADLOCK FALSE
