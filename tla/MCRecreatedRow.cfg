CONSTANTS
  r1 = r1
  r2 = r2
  c1 = c1
  c2 = c2
  p1 = p1
  p2 = p2
  t1 = t1
  NoRun = NoRun
  Run = {r1, r2}
  Client = {c1, c2}
  Proc = {p1}
  MaxCrash = 0
  Thread <- MCThread
  ThreadOf <- MCThreadOf
  OwnerOf <- MCOwnerOf
SPECIFICATION Spec
INVARIANT RecreatedRowAgrees
CHECK_DEADLOCK FALSE
