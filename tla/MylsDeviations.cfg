SPECIFICATION FairSpec
CONSTANTS
  Names = {1, 2, 3, 4, 5}
  Directories = {{2, 4}, {1, 2, 3}}
  Orphans = {}
  Age <- McAge
  Contents <- McContents
  MaxChanges = 1
  MaxEof = 1
INVARIANTS TypeOK StayedShown YearShown BeginningShown
PROPERTIES ContentEnds
CHECK_DEADLOCK FALSE
