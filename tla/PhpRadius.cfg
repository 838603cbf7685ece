SPECIFICATION Spec
CONSTANTS
  Symbols <- MCSymbols
  MAXCONFLINE = 24
  MAXSERVERS = 2
  KnownHosts <- MCKnownHosts
  Entries <- MCEntries
  Asides <- MCAsides
  Faults <- MCFaults
  Vars <- MCVars
  MaxOpens = 2
  Files <- MCFiles
  Added <- MCAdded
  v1 = v1
  v2 = v2
SYMMETRY MCSymmetry
INVARIANTS
  ScriptTypeOK
  HandlesAreOwned
  ReleasedOnce
  NothingIsLeft
  ClosedIsClosed
  ConfigReadsWritten
  LineEndIsCut
