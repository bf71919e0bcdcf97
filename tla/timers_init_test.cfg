CONSTANTS
  Tones <- PausingTone
  HalfSec <- MCHalfSec
  OneSec <- MCOneSec
  FourSecs <- MCFourSecs
  MaxTime <- MCMaxTime
  WdtTicks <- MCWdtTicks
SPECIFICATION Spec
INVARIANT InitTestLastsOneSecond
