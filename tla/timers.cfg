CONSTANTS
  Tones <- AllTones
  HalfSec <- MCHalfSec
  OneSec <- MCOneSec
  FourSecs <- MCFourSecs
  MaxTime <- MCMaxTime
  WdtTicks <- MCWdtTicks
SPECIFICATION FairSpec
INVARIANTS
  TypeOK
  NoStuckTone
  LateTestHasTone
PROPERTIES
  ToneEnds
  TextGivesWay
