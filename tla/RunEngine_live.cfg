\* One slot, two tasks, a venv job, one stop or crash; no fairness on scripts.
SPECIFICATION LoopSpec
CONSTANTS
  Job = {j1}
  DockerJob = {}
  Task = {t1, t2}
  NoJob = NoJob
  MaxConcurrent = 1
  MaxRuns = 3
  DbMayFail = FALSE
  MaxStops = 1
INVARIANTS OpenRowHasTask
PROPERTIES QueueServed RunPersisted StopCompletes
