CONSTANTS
  Req = {r1}
  Peer = {}
  Limit = {1}
  Days = {1}
  MaxTime = 2
  MaxBytes = 1
  MaxCrashes = 1
SPECIFICATION Spec
PROPERTIES IsLedger DisabledByHandStays QuotaStopsXray
