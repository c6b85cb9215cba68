SPECIFICATION Spec
CONSTANTS
  Uid = {root, u1, u2}
  Gid = {g1, g2}
  Root = root
  Keep = Keep
SYMMETRY Renaming
INVARIANTS
  DumpableVouches
  DropsForGood
PROPERTY
  RootTakesCapabilities
