SPECIFICATION Spec
CONSTANTS
  t1 = t1
  t2 = t2
  t3 = t3
  p1 = p1
  p2 = p2
  Tasks = {t1, t2, t3}
  Paths = {p1, p2}
  Footprint <- Chain
  Writers = {t1, t2, t3}
  Verifiers = {}
  Coders = {t1, t2, t3}
  Answers <- Working
  MaxAttempts = 2
  MaxConcurrent = 2
  Hazards = {}
  MaxFaults = 1
  NoTask = NoTask
INVARIANTS LeaseHeldWhileWriting NoWastedAnswer
