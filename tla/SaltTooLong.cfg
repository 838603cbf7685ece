SPECIFICATION Spec
CONSTANTS
  MSGSIZE = 300
  PASSSIZE = 32
  IDENTS = 2
  Codes <- MCCodes
  Values <- MCValues
  VendorValues <- MCVendorValues
  OptionSets <- MCOptionSets
  Secrets = {s1}
  NoSecret = NoSecret
  MaxCreates = 2
INVARIANT RefusalIsSurvived
