CONSTANTS
  Readers = {r1, r2}
  SectorsPerTrack = 2
  Cylinders = 2
  Lbas = {3, 4, 8}
  Tries = 2
  None = None
SPECIFICATION FairSpec
INVARIANTS
  TypeOK
  ReadRight
  StopsOnlyDisturbed
  SettingsMatch
  QuietBetweenReads
PROPERTIES
  ReadReturns
VIEW ControlOnly
