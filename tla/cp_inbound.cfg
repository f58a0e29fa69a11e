CONSTANTS
  Req = {q1, q2}
  NodeId = {n1}
  UserId = {u1}
  InboundId = {i1, i2}
  OutboundId = {}
  GroupId = {}
  RuleId = {}
  ClientId = {c1, c2}
  Name = {a, b}
  Slot = {p1, p2}
  Tag = {t1}
  SavedStates <- Blank
SPECIFICATION Spec
SYMMETRY Symmetry
INVARIANTS TypeOK IntegrityUnlessStale
PROPERTIES RollBackRestores RollBackIsLocal
\* Identifiers are bounded and never reused: a run ends when they are used up.
CHECK_DEADLOCK FALSE
