SPECIFICATION Spec
CONSTANTS
  i1 = i1
  i2 = i2
  i3 = i3
  t1 = t1
  t2 = t2
  NoOne = NoOne
  NoTask = NoTask
  Instances = {i1, i2, i3}
  Tasks = {t1, t2}
  Period = 1
  Stale = 5
  Hazards = {"crash", "unreachable"}
  MaxFaults = 2
SYMMETRY Symmetry
INVARIANT TypeOK
INVARIANT HolderKeepsItsTasks
