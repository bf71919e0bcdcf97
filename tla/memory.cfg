SPECIFICATION Spec
CONSTANTS
  MAX_FMT = 1
  MAX_CHANNELS = 2
  none = none
  NoRequest <- none
  Requests <- MCRequests
  Dialled <- MCDialled
INVARIANTS
  MemoryTypeOK
  PresetKnown
  NetsKept
  ModeValid
