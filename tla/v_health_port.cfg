CONSTANTS
  Outbound = {1, 2}
  Port = {1, 2}
  InboundPort = {}
  Request = {}
  Concurrency = 1
SPECIFICATION Spec
INVARIANTS MeasuresItself
