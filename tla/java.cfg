\* A conversion that has read its source stops.
SPECIFICATION MCSpec
CONSTANTS
  Class = {"Song", "Pattern"}
  FieldValue = {"two"}
  NameToMethodId <- MCNameToMethodId
  Methods <- MCMethods
  NameToFieldId <- MCNameToFieldId
  InitialFields <- MCInitialFields
  Address = {1, 2, 3, 4, 5}
  Null = 0
  Value = {"x"}
  Type = {"object", "byte"}
  Length <- MCLength
  Index <- MCIndex
  MaxRefs = 2
  MaxPointers = 1
  MaxClasses = 1
  MaxStale = 1
  NULL = NULL
  Units <- MCUnits
  Bytes <- MCBytes
  JunkUnits = {0, 66, 8364, 55357}
  JunkBytes = {0, 66, 195}
  Number = {0, 2}
  Utf8Strings <- MCUtf8Strings
  Utf16Strings <- MCUtf16Strings
  Rooms = {1, 3, 4, 12}
INVARIANTS CallInv HeapInv StringInv ConverterInv
CHECK_DEADLOCK FALSE
