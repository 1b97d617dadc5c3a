CONSTANTS
  Sectors = 2
  PagesPerSector = 1
  ChipPages = 2
  BufSize = 9
  Files <- MCFiles
  Haste = 2
  Blank = Blank
  Old = Old
  Garbage = Garbage
  Faults = {"interrupt", "programFails", "overrun"}
SPECIFICATION FairSpec
INVARIANTS
  TypeOK
  CommandsUnderstood
  BufferHeld
  QuietRunTells
PROPERTIES
  ImplementsUpdater
  UndisturbedSucceeds
  PausedResumes
