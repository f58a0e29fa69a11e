CONSTANTS
  Path = {1}
  PathTimeout = 1
  Capacity = 0
  Talker = {"client"}
  MaxSeq = 1
  MaxRuns = 5
SPECIFICATION Spec
PROPERTIES PathsFollow
\* The processes are used up when both have ended for good.
CHECK_DEADLOCK FALSE
