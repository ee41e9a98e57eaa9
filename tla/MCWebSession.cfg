CONSTANTS
  d1 = d1
  d2 = d2
  Datasets = {d1, d2}
  Default = d1
  None = None
  MaxStarts = 3
  MaxRestarts = 2
SPECIFICATION Spec
INVARIANTS
  RememberedIsShown
  ShownIsCurrent
