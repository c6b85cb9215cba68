SPECIFICATION SignalSpec
CONSTANT BufferSize = 2
INVARIANT MutualExclusion
