SPECIFICATION FairSpec
CONSTANTS
  App = {a1, a2}
  Event = {e1, e2}
  Deferred = {d1, d2}
  Timer = {i1}
  Blocker = {}
  Ops = {"wait", "stop", "pause"}
  Promises = {"posts_precede_stop", "waits_end_before_stop", "cancelling_is_pruned"}
  WaitForTimeouts = TRUE
  None = None
INVARIANTS TypeOK AssertionsHold StopDrains
PROPERTIES WaitMeansIdle EventExecuted DeferredSettles WaitReturns StopReturns
