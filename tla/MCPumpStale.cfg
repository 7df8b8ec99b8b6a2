SPECIFICATION FairSpec
CONSTANTS
  App = {a1}
  Event = {e1}
  Deferred = {d1, d2}
  Timer = {i1}
  Blocker = {}
  Ops = {"wait", "stop"}
  Promises = {"posts_precede_stop", "waits_end_before_stop"}
  WaitForTimeouts = TRUE
  None = None
PROPERTY DeferredSettles
