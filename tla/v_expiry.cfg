CONSTANTS
  Req = {r1}
  Peer = {}
  Limit = {1}
  Days = {0}
  MaxTime = 2
  MaxBytes = 1
  MaxCrashes = 0
SPECIFICATION Spec
PROPERTIES ExpiryStopsXray
