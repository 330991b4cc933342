SPECIFICATION TransferSpec
CONSTANTS
  a = a
  b = b
  Byte = {a, b}
  None = None
  MaxSize = 3
  MaxChunk = 2
  MaxLength = 4
  MaxBytes = 3
  MaxUploads = 1
  MaxObjects = 3
SYMMETRY Symmetric
CHECK_DEADLOCK FALSE
INVARIANTS StoredAsSent PiecesAreOfOneObject
