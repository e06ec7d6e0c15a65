\* All lists of up to four edges over four jobs (the diamond is one), parallel edges included.
SPECIFICATION Spec
CONSTANTS
  Job = {j1, j2, j3, j4}
  MaxEdges = 4
  EdgeLists <- MCEdgeLists
INVARIANTS TypeOK SortedIsTopological ErrorIsCycle
PROPERTIES Terminates
CHECK_DEADLOCK FALSE
