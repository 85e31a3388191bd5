\* All texts of two parts; the end of a call is the end of the behaviour.
SPECIFICATION FairSpec
CONSTANTS
  Texts <- MCTexts
  MinChars = 4
  MaxChars = 5
CHECK_DEADLOCK FALSE
INVARIANTS
  ChunksTile
  ChunksAreBounded
  ShortChunksAreForced
PROPERTY
  ChunkingEnds
