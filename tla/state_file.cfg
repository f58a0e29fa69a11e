CONSTANTS
  Value = {a, b}
  Initial = a
  Cell = {c1, c2, c3, c4}
  Reader = {r1, r2}
SPECIFICATION Spec
INVARIANTS Inv FailureChangesNothing
PROPERTIES IsAtomic
