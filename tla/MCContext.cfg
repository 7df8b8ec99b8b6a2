SPECIFICATION FairSpec
CONSTANTS
  Ctx = {x1, x2}
  Zero = Zero
  None = None
INVARIANTS TypeOK OnlyActiveRuns ReleaseFindsBlocked
PROPERTIES FinalIsFinal ControlArrives LifetimeReturns
