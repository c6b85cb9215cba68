SPECIFICATION Spec
CONSTANT BufferSize = 2
INVARIANTS
  MutualExclusion
  NeverWaitsOnFull
  SlotsAccounted
  IndicesAgree
PROPERTIES
  KeepsLanes
  EveryoneGoesOn
