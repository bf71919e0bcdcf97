CONSTANTS
  LastRow = 4
  FreqEnd = 2
  BootRow = 0
  Wired <- MCWired
  Uses <- MCUses
  Digits <- MCDigits
  First = 1
  Mnl <- MCMnl
  Test <- MCTest
  Power <- MCPower
  Squelch <- MCSquelch
SPECIFICATION FairSpec
PROPERTIES
  ImplementsDebouncedKeys
  NoGhostKey
  SwitchesFollowed
  TestFollowsButton
  SelectorShown
  DialKept
