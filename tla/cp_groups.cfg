CONSTANTS
  Req = {q1, q2}
  NodeId = {n1}
  UserId = {}
  InboundId = {}
  OutboundId = {o1}
  GroupId = {g1}
  RuleId = {k1}
  ClientId = {}
  Name = {a}
  Slot = {p1}
  Tag = {t1,t2}
  SavedStates <- NodesAndUsers
SPECIFICATION Spec
SYMMETRY Symmetry
INVARIANTS IntegrityUnlessStale
PROPERTIES RollBackRestores
CHECK_DEADLOCK FALSE
