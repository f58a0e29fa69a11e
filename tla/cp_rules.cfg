CONSTANTS
  Req = {q1, q2}
  NodeId = {n1, n2}
  UserId = {u1}
  InboundId = {i1}
  OutboundId = {}
  GroupId = {}
  RuleId = {k1}
  ClientId = {}
  Name = {a}
  Slot = {p1}
  Tag = {t1}
  SavedStates <- NodesAndUsers
SPECIFICATION Spec
SYMMETRY Symmetry
INVARIANTS Inv
\* Identifiers are bounded and never reused: a run ends when they are used up.
CHECK_DEADLOCK FALSE
