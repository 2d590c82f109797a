SPECIFICATION Spec
CONSTANTS
  ImageSize = 5
  BlockSize = 2
  MaxBlocks = 2
  MaxOffset = 5
  MaxLength = 6
INVARIANTS
  LruMirrorsBlocks
  CacheCoherent
  OutIsImagePrefix
PROPERTIES
  ImplementsImageRead
