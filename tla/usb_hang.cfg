SPECIFICATION FairSpec
CONSTANTS
  ChannelStrokes = {"KEY_CH_INC", "KEY_CH_DEC"}
  KeyStrokes = {"KEY_PRESET"}
  KEY_MAIN = "KEY_MAIN"
  KEY_GUARD = "KEY_GUARD"
  NOT_USED = "NOT_USED"
INVARIANT WaitsForHostOnly
