CONSTANTS
  NodeId = {n1}
  Probe = {p1, p2}
SPECIFICATION Spec
PROPERTIES DisabledSettles
