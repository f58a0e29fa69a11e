CONSTANTS
  Req = {}
  Peer = {p1}
  Limit = {0}
  Days = {1}
  MaxTime = 2
  MaxBytes = 2
  MaxCrashes = 0
SPECIFICATION Spec
INVARIANTS ForgivenIsForgotten
