\* Every buffer of up to seven bytes after the header, every pair of lists of
\* parts for every hash input, every sequence of draws up to the limit of tries.
\* A call ends, and with it the system.
CONSTANTS
  Radix = 2
  MaxPrefix = 2
  MaxMessage = 12
  Header <- MCHeader
  MessageSpec <- MCMessageSpec
  Buffers <- MCBuffers
  Strings <- MCStrings
  Fixed <- MCFixed
  DSI <- MCDSI
  BlockSize = 5
  Base = 4
  Size = 2
  MaskLimit = 2
  Order = 11
  MaxTries = 3
SPECIFICATION MCSpec
CHECK_DEADLOCK FALSE
INVARIANTS StaysInBounds AcceptsOnlyEncodings AcceptsEveryEncoding PreimagesAreSound GivesUpOnlyOnZeros EvenOdds
