SPECIFICATION Spec
CONSTANTS
  t1 = t1
  t2 = t2
  t3 = t3
  p1 = p1
  p2 = p2
  Tasks = {t1, t2}
  Paths = {p1}
  Footprint <- Shared
  Writers = {t1, t2}
  Verifiers = {}
  Coders = {t1, t2}
  Answers <- Broad
  MaxAttempts = 2
  MaxConcurrent = 2
  Hazards = {"crash", "infra", "lost_claim", "lost_write", "slow_commit", "cancel", "fast_ci", "slow_post", "lost_verdict"}
  MaxFaults = 1
  NoTask = NoTask
INVARIANT TypeOK
INVARIANT ExecutionOwnsRow
INVARIANT InFlightBound
INVARIANT AwaitingHasJudge
PROPERTY MergedStands
PROPERTY CancelledNeverAdvances
SYMMETRY TaskSymmetry
