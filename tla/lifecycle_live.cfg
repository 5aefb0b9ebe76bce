SPECIFICATION FairSpec
CONSTANTS
  t1 = t1
  t2 = t2
  t3 = t3
  p1 = p1
  p2 = p2
  Tasks = {t1, t2}
  Paths = {p1}
  Footprint <- Shared
  Writers = {t1}
  Verifiers = {t2}
  Coders = {}
  Answers <- Asked
  MaxAttempts = 1
  MaxConcurrent = 2
  Hazards = {"crash", "infra"}
  MaxFaults = 1
  NoTask = NoTask
PROPERTY EveryTaskSettles
INVARIANT NoOrphan
