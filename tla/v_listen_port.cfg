CONSTANTS
  Req = {q1, q2}
  NodeId = {n1}
  UserId = {}
  InboundId = {i1, i2}
  OutboundId = {}
  GroupId = {}
  RuleId = {}
  ClientId = {}
  Name = {a, b}
  Slot = {p1, p2}
  Tag = {t1}
  SavedStates <- NodesAndUsers
SPECIFICATION Spec
SYMMETRY Symmetry
INVARIANTS ListenPortsDistinct
\* Identifiers are bounded and never reused: a run ends when they are used up.
CHECK_DEADLOCK FALSE
