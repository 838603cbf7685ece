SPECIFICATION SendSpec
CONSTANTS
  MSGSIZE = 60
  PASSSIZE = 16
  IDENTS = 2
  Codes <- MCAccessCodes
  Values <- MCSaltValues
  VendorValues <- MCNoVendorValues
  OptionSets <- MCSaltOptions
  Secrets <- MCSecrets
  NoSecret = NoSecret
  MaxCreates = 2
  MAXSERVERS = 2
  Addrs <- MCAddrs
  ServerMenu <- MCServerMenu
  ReplyCodes <- MCReplyCodes
  ReplySizes <- MCReplySizes
  Strays <- MCStrays
  MaxBuffered = 1
  a1 = a1
  a2 = a2
  s1 = s1
  s2 = s2
INVARIANT SaltOpensAtServer
