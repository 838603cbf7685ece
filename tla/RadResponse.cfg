SPECIFICATION Spec
CONSTANTS
  POS_ATTRS = 1
  Bytes = {0, 2, 3}
  MaxDatagram = 5
  HALF = 32768
  Garbage <- MCGarbage
  MaxTaken = 3
INVARIANTS
  ResponseTypeOK
  ScanInsideMessage
  ScanIsExact
