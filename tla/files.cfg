\* Every file call; one formatting call, after which nothing is left to do; extractions.
SPECIFICATION MCSpec
CONSTANTS
  Segment <- MCSegment
  WithColon <- MCWithColon
  AppVolume = {"app0:"}
  UxVolume = {"ux0:", "ux0:x"}
  OutputSize = 7
  Input <- MCInput
  Handle = {h1, h2}
  Item <- MCItem
  MaxItems = 3
  Objects = {1, 3, 6}
  MaxRequest = 7
  Unknown = Unknown
  Assumed = 9
  TempSize = 4
  Packages <- MCPackages
  Disks <- MCDisks
INVARIANTS FileInv ZipInv FormatInv
CHECK_DEADLOCK FALSE
