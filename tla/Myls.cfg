SPECIFICATION FairSpec
CONSTANTS
  Names = {1, 2, 3, 4, 5}
  Directories = {{}, {2}, {3, 5}, {1, 2, 4}, {1, 2, 3, 4}}
  Orphans = {5}
  Age <- McAge
  Contents <- McContents
  MaxChanges = 3
  MaxEof = 2
INVARIANTS SortedShown NothingForgotten HeadShown
PROPERTIES Terminates
CHECK_DEADLOCK FALSE
