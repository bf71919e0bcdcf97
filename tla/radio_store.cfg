SPECIFICATION Spec
CONSTANTS
  Channels = {20}
  Firsts <- MCFirsts
  Mids <- MCMids
  Lasts <- MCLasts
  HostChannels = {1}
INVARIANT FmtChgStores
