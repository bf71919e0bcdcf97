SPECIFICATION FairSpec
CONSTANTS
  Stops <- MCStops
  Strays <- MCStrays
  HostChannels <- MCHostChannels
  MaxWrong = 3
INVARIANT TypeOK
PROPERTIES
  ReportPassed
  StrokesFollow
  SelectorFollowed
