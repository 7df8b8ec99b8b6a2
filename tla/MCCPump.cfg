SPECIFICATION FairSpec
CONSTANTS
  None = None
  SizeMod = 256
  Component <- Components
  Port <- Ports
  Internal <- Internals
  World <- Worlds
  Statement <- Deferreds
  Source <- Sources
  Owner <- Owners
  Body <- Bodies
  Blocks <- Blocking_
  Client <- AllClients
  Entry <- Entries
  Calls <- LeftTwice
  Together <- AllSystems
INVARIANTS TypeOK AssertionsHold NothingLeft RestIsClean
PROPERTY CallReturns
