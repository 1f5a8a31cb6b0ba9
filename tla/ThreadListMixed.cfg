SPECIFICATION ListSpec
CONSTANTS
  External = {1}
  Official = {2, 3}
  Accounts = {1}
  Limits = {2}
  MaxTime = 2
  MaxChanges = 0
  Nothing = Nothing
CHECK_DEADLOCK FALSE
INVARIANTS
  NoPageIsRefused
