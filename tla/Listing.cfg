SPECIFICATION ListSpec
CONSTANTS
  reader = reader
  Top = 5
  Delim = 2
  Key <- SomeKeys
  Reader = {reader}
  Walks <- AllWalks
  InitTables <- Tables
  BatchSize = 2
  MaxChanges = 2
  MaxWalks = 1
  MaxEntries = 7
CHECK_DEADLOCK FALSE
INVARIANTS ListedInOrder WalksAreComplete
