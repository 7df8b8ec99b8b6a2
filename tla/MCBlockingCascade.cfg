SPECIFICATION FairSpec
CONSTANTS
  None = None
  Component <- Components
  Port <- Ports
  World <- Worlds
  Statement <- Statements
  Owner <- Owners
  Body <- Bodies
  Blocks <- Blocking_
  Entry <- Entries
  Sync <- Never
  Client <- Cascades
  Together <- OneSystem
  Calls <- Once
  Guarded <- Components
INVARIANT PortFound
