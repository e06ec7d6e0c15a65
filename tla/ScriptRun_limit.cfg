\* A job with a timeout whose script keeps its output open.
SPECIFICATION Spec
CONSTANTS
  Listener = {l1}
  Jobs <- MCJobs
  PipeSize = 1
  Cancellable = FALSE
PROPERTIES HardLimit
CHECK_DEADLOCK FALSE
