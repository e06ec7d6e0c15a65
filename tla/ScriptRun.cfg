\* Two listeners, three venv jobs and two Docker jobs, pipes of one line, and a
\* shutdown at any time.
SPECIFICATION Spec
CONSTANTS
  Listener = {l1, l2}
  Jobs <- MCJobs
  PipeSize = 1
  Cancellable = TRUE
INVARIANTS TypeOK LogFaithful ListenersFollow NothingLeft DaemonClean
PROPERTIES RunEnds
CHECK_DEADLOCK FALSE
