\* Debug passthrough with writes of every length up to the attribute size
\* and any allocator byte past a short write's NUL.
CONSTANTS
  MAX_RESPONSE = 5
  MAX_PAYLOAD = 1
  ByteVals = {0, 1}
  RespVals = {7}
  Garbage <- MCGarbageAny
SPECIFICATION Spec
INVARIANTS
  TypeOK
PROPERTIES
  ReadsSeeLastResponse
