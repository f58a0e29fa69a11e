CONSTANTS
  Outbound = {1}
  Port = {1, 2}
  InboundPort = {1}
  Request = {q}
  Concurrency = 1
SPECIFICATION Spec
INVARIANTS TypeOK StatusFitsFailures MeasuredAsConfigured
PROPERTIES HealthySettles UnhealthySettles
