SPECIFICATION Spec
CONSTANTS
  Ssids = {Home, Work, Cafe}
  Passwords = {First, Second}
  Empty = Empty
  MaxNetworks = 2
  Timeout = 1
  NoSsid = NoSsid
  NoEntry = NoEntry
  NoFile = NoFile
PROPERTIES SavedIsConnected ConnectEnds StoreIsFifo
