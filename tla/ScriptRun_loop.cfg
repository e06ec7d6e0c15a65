\* A container that runs and prints nothing, and a browser.
SPECIFICATION Spec
CONSTANTS
  Listener = {l1}
  Jobs <- MCJobs
  PipeSize = 1
  Cancellable = FALSE
PROPERTIES Connects
CHECK_DEADLOCK FALSE
