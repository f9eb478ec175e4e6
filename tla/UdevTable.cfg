SPECIFICATION Spec
CONSTANTS
  Ports = {p1, p2}
  Models = {m1, m2}
  MaxPlugs = 3
  MaxOthers = 1
INVARIANTS ChangesArePending ListenerKnows
CHECK_DEADLOCK FALSE
