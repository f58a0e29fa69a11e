CONSTANTS
  WireGuard = {w}
  Tor = {}
  OpenVPN = {}
  Version = {v}
  Key = {k1, k2}
  Handler = {h1}
  Job = {d1, d2}
  None = None
  Own = Own
  Broken = Broken
  MaxFaults = 2
SPECIFICATION Spec
SYMMETRY Symmetry
CONSTRAINT OneAtLast
INVARIANTS TypeOK Inv SuccessIsReal RunningIsManaged
PROPERTIES OwnUntouched PasswordKept
