SPECIFICATION DavSpec
CONSTANTS
  p1 = p1
  p2 = p2
  Proc = {p1, p2}
  Files <- SomeFiles
  Names <- SomeNames
  Batches <- TwoKeys
  InitTrees <- Trees
  PageSize = 2
  MaxList = 3
  Kinds = {"mkcol", "put", "delete", "move", "s3put", "batch"}
  MaxWrites = 5
  MaxRequests = 2
  MaxFaults = 1
  MaxCrashes = 1
SYMMETRY Symmetric
CHECK_DEADLOCK FALSE
INVARIANTS NothingIsLost SuccessIsWhole
