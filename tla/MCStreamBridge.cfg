CONSTANTS
  c1 = c1
  c2 = c2
  Client = {c1, c2}
  Capacity = 2
  MaxEvents = 4
SPECIFICATION Spec
INVARIANTS
  NoLostWakeup
PROPERTIES
  ImplementsLog
  SubscriberEnds
CHECK_DEADLOCK FALSE
