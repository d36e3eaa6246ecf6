\* Two slabs on a pool of eight pages, in caches of two.  The first cache of
\* the smaller slab holds fewer objects than its others, that of the larger one
\* as many: both happen in the code.
SPECIFICATION Spec
CONSTANTS
  BlocksCount = 15
  Sizes = {1, 2, 4}
  Slabs = 2
  CachePages = 2
  RootObjects <- MCRootObjects
  CacheObjects = 2
  None = None
  PageSize = 4096
  MinSlabSize = 16
  HeaderSize = 8
  Asked = {23, 31, 12288}
INVARIANTS
  TypeOK
  ObjectsSound
  ListsSound
  Tiling
  EnoughRoom
PROPERTIES
  UsesWhatItHolds
