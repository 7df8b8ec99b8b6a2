SPECIFICATION FairSpec
CONSTANTS
  None = None
  Component <- Components
  Port <- Ports
  World <- Worlds
  Statement <- Statements
  Owner <- Owners
  Body <- Bodies
  Blocks <- Blocking_
  Entry <- Entries
  Sync <- Never
  Client <- Proxies
  Together <- OneSystem
  Calls <- Once
  Guarded <- Components
INVARIANT NonOverlapping
