CONSTANTS
  WireGuard = {w}
  Tor = {}
  OpenVPN = {}
  Version = {v}
  Key = {k1}
  Handler = {h1, h2}
  Job = {d1}
  None = None
  Own = Own
  Broken = Broken
  MaxFaults = 1
SPECIFICATION Spec
INVARIANTS RefusedIsForeign
