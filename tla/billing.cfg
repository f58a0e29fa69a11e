CONSTANTS
  Req = {r1}
  Peer = {p1}
  Limit = {0}
  Days = {1}
  MaxTime = 1
  MaxBytes = 1
  MaxCrashes = 0
SPECIFICATION Spec
INVARIANTS TypeOK BilledOnce WireGuardBounded
