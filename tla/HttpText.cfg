CONSTANTS
  Pieces <- MCPieces
  MaxPieces = 4
SPECIFICATION Spec
INVARIANTS
  FieldArrives DecodersAgree PathArrives
  HeaderArrives ChunkedArrives PartsArrive PathInside
CHECK_DEADLOCK FALSE
