CONSTANTS
  Path = {1, 2}
  PathTimeout = 1
  Capacity = 0
  Talker = {"client"}
  MaxSeq = 1
  MaxRuns = 3
SPECIFICATION Spec
PROPERTIES RemovedIsDuplicate
\* The processes are used up when both have ended for good.
CHECK_DEADLOCK FALSE
