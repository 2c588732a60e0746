\* Modules that are loaded, linked or fixed to the end stop there.
SPECIFICATION MCSpec
CONSTANTS
  Module = {"code first", "data first", "too many"}
  Segments <- MCSegments
  MaxDataSeg = 2
  Bits = 4
  WordSize = 2
  Words = 8
  Limit = 256
  Base = 64
  Stub = 200
  NULL = NULL
  Images <- MCImages
  Table <- MCTable
  Needed <- MCNeeded
  PC = 3
  Functions <- MCFunctions
  Programs <- MCPrograms
  PatchBase = 16
  PatchSize = 24
  CaveBase = 236
  CaveSize = 36
  OffsetLimit = 64
  AddressLimit = 1024
  Absent = Absent
  Halfwords = 19
  Entries <- MCEntries
  Libzip <- MCLibzip
  Open <- MCOpen
  Destinations = {"debug", "other"}
  Paths = {"apk", "other"}
  Archives = {"a1", "a2", "a3"}
  MaxDepth = 3
  NoArchive = "none"
INVARIANTS LoaderInv LinkInv ArenaInv HooksInv
CHECK_DEADLOCK FALSE
