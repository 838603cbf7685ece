SPECIFICATION Spec
CONSTANTS
  BYTE = 32
  CHUNK = 4
  MAXMANGLED = 8
  MPPE_KEY_LEN = 4
  MAXSERVERS = 2
  Secrets <- MCSecrets
  NoSecret = NoSecret
  Letters <- MCLetters
  Vendors <- MCVendors
  Lengths <- MCLengths
  Randoms <- MCRandoms
  Behind <- MCBehind
  MaxCreates = 2
  s1 = s1
  s2 = s2
SYMMETRY MCSymmetry
INVARIANTS
  ValuesTypeOK
  VendorReadsBack
  AnswerOpens
  SaltReadsBack
  OverrunIsOneChunk
  ConversionsReadBack
  KeyLeavesItsText
CHECK_DEADLOCK FALSE
