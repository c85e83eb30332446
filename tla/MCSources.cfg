CONSTANTS
  b1 = b1
  b2 = b2
  t1 = t1
  Bitbs <- MCBitbs
  Trngs <- MCTrngs
  Texts <- MCTexts
  Identifiers <- MCIdentifiers
  MaxNumber = 8
  Sizes = {8}
  Starts = {7}
  Intervals = {1, 8}
  Heads <- MCHeads
  Tokens <- MCTokens
  MaxTokens = 5
  Offsets <- MCOffsets
  Delays <- MCDelays
  Acquisitions <- MCAcquisitions
SYMMETRY MCSymmetry
SPECIFICATION Spec
INVARIANTS
  SourcesTypeOK
  SourcesAreHonest
  NamesAreTrue
