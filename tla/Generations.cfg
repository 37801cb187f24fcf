SPECIFICATION Spec
CONSTANTS
  b1 = b1
  b2 = b2
  r1 = r1
  r2 = r2
  Bundles = {b1, b2}
  Runtimes = {r1, r2}
  Plans <- MCPlans
  Fragile = {b1, r1}
  MaxFaults = 2
  None = None
INVARIANTS TypeOK SelectionWhole
PROPERTIES SwitchKeepsBoth
