CONSTANTS
  Path <- MCPath
  Data <- MCData
  Empty = ""
  Fits <- MCFits
  Rom <- MCRom
  RomDir <- MCRomDir
  RomTable <- MCRomTable
  RomDirs <- MCRomDirs
  MaxFiles = 2
  MaxDirs = 2
  MaxSeen = 2
  TmpMax = 10
  PathMax = 7
  NameMax = 3
  DepthMax = 2
  Byte <- MCByte
  Inputs <- MCInputs
SPECIFICATION Spec
INVARIANTS OneSlotPerPath NoFileIsMadeDir ListingExact ResolvesLexically
PROPERTY StoreSpec
