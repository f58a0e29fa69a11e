CONSTANTS
  WireGuard = {w}
  Tor = {}
  OpenVPN = {}
  Version = {v}
  Key = {k1}
  Handler = {h1}
  Job = {d1, d2}
  None = None
  Own = Own
  Broken = Broken
  MaxFaults = 0
SPECIFICATION Spec
INVARIANTS OnlineIsDeployed
