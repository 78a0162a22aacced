CONSTANTS
  c1 = c1
  c2 = c2
  Client = {c1}
  Capacity = 2
  MaxEvents = 3
SPECIFICATION Spec
PROPERTY ClientEnds
CHECK_DEADLOCK FALSE
