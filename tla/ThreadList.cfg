SPECIFICATION FairListSpec
CONSTANTS
  External = {1, 2}
  Official = {2, 3, 4}
  Accounts = {1, 2}
  Limits = {1, 2}
  MaxTime = 2
  MaxChanges = 1
  Nothing = Nothing
CHECK_DEADLOCK FALSE
INVARIANTS
  PagesAreInOrder
  NothingSkipped
PROPERTIES
  ListingEnds
