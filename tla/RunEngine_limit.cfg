\* One slot and two tasks, which may both be pipeline nodes.
SPECIFICATION Spec
CONSTANTS
  Job = {j1, j2}
  DockerJob = {}
  Task = {t1, t2}
  NoJob = NoJob
  MaxConcurrent = 1
  MaxRuns = 2
  DbMayFail = FALSE
  MaxStops = 0
INVARIANTS ExecutionLimit
