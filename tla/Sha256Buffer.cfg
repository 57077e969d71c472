\* Chunks of eight bytes with a length of two; messages of up to four
\* chunks, whose length in bits takes both bytes.
CONSTANTS
  Block = 8
  Field = 2
  MaxSize = 33
SPECIFICATION Spec
INVARIANTS
  NothingLost
  PaddedAsStandard
