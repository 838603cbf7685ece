SPECIFICATION SendSpec
CONSTANTS
  MSGSIZE = 56
  PASSSIZE = 16
  IDENTS = 2
  Codes <- MCCodes
  Values <- MCValues
  VendorValues <- MCVendorValues
  OptionSets <- MCOptionSets
  Secrets <- MCSecrets
  NoSecret = NoSecret
  MaxCreates = 2
  MAXSERVERS = 2
  Addrs <- MCAddrs
  ServerMenu <- MCServerMenu
  ReplyCodes <- MCReplyCodes
  ReplySizes <- MCReplySizes
  Strays <- MCStrays
  MaxBuffered = 1
  a1 = a1
  a2 = a2
  s1 = s1
  s2 = s2
INVARIANT AccessRequestCarriesPassword
