SPECIFICATION Spec
CONSTANTS
  alpha = alpha
  beta = beta
  long = long
  cut = cut
  FS_MAX_INODES = 5
  TABLE_INODES = 4
  FS_MAX_DATA_BLOCKS = 4
  FS_DIRECT_BLOCKS = 2
  ENTRIES = 1
  FS_BLOCK_SIZE = 2
  Names <- MCNames
  Stored <- MCStored
  Texts <- MCTexts
  MaxFormats = 1
SYMMETRY MCSymmetry
INVARIANT CatShowsFiles
