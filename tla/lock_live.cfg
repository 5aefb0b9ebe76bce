SPECIFICATION FairSpec
CONSTANTS
  i1 = i1
  i2 = i2
  i3 = i3
  t1 = t1
  t2 = t2
  NoOne = NoOne
  NoTask = NoTask
  Instances = {i1, i2, i3}
  Tasks = {t1}
  Period = 1
  Stale = 4
  Hazards = {"crash", "pause", "unreachable", "lost_claim", "skew"}
  MaxFaults = 1
PROPERTY RivalsDoNotLast
PROPERTY BrainComesBack
