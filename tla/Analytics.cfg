\* The clock passes midnight once, two ticks a day, requests over one day, three rows.
SPECIFICATION Spec
CONSTANTS
  Job = {j1, j2}
  None = None
  DateIsText = TRUE
  Day = 2
  Days = 1
  Limit = 2
  Cap = 3
  MinRuns = 3
  Threshold <- MCThreshold
  Ending = {"failed", "running"}
  InsertDelay = 1
  MinTime = 1
  MaxTime = 3
  MaxRuns = 3
INVARIANTS TypeOK WindowCovered OpenRunsTakeNoPlace AnomalyRare SpikeReported
SYMMETRY MCSymmetry
CHECK_DEADLOCK FALSE
