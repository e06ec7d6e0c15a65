\* Two slots, three tasks, one docker job, one stop or crash, a database that may fail.
SPECIFICATION Spec
CONSTANTS
  Job = {j1}
  DockerJob = {j1}
  Task = {t1, t2, t3}
  NoJob = NoJob
  MaxConcurrent = 2
  MaxRuns = 3
  DbMayFail = TRUE
  MaxStops = 1
SYMMETRY TaskSymmetry
INVARIANTS TypeOK SlotAccounting OwnRow NoScheduledOverlap
PROPERTIES ImplementsLedger
