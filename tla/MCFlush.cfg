SPECIFICATION Spec
CONSTANTS
  Null = "world"
  Reentry = FALSE
  Shared = TRUE
  Component <- MCComponent
  Native <- MCNative
  In <- MCIn
  Out <- MCOut
  Provide <- MCProvide
  Require <- MCRequire
  Statement <- MCStatement
  Owner <- MCOwner
  Body <- MCBody
  Parent <- MCParent
  Rank <- MCRank
INVARIANTS TypeOK AtRest
PROPERTY RunsToCompletion
