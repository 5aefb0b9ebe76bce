SPECIFICATION Spec
CONSTANTS
  t1 = t1
  t2 = t2
  t3 = t3
  p1 = p1
  p2 = p2
  Tasks = {t1, t2}
  Paths = {p1}
  Footprint <- Shared
  Writers = {t1, t2}
  Verifiers = {}
  Coders = {t1, t2}
  Answers <- TwoJudges
  MaxAttempts = 2
  MaxConcurrent = 1
  Hazards = {}
  MaxFaults = 0
  NoTask = NoTask
SYMMETRY TaskSymmetry
INVARIANT MergedIsGreen
