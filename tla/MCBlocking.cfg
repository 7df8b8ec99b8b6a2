SPECIFICATION FairSpec
CONSTANTS
  None = None
  Component <- Components
  Port <- Ports
  World <- Worlds
  Statement <- Statements
  Owner <- Owners
  Body <- Bodies
  Blocks <- Blocking_
  Entry <- Entries
  Sync <- Promptly
  Client <- AllClients
  Together <- AllSystems
  Calls <- DoubleTwice
  Guarded <- AllButMux
INVARIANTS TypeOK SelfIsActive PortFound QuietIsClean NonOverlapping ReturnsAfterReply
PROPERTY CallReturns
