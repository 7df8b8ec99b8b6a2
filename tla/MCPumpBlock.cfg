SPECIFICATION FairSpec
CONSTANTS
  App = {a1}
  Event = {e1, e2, e3}
  Deferred = {d1}
  Timer = {i1}
  Blocker = {e1, e2}
  Ops = {}
  Promises = {"posts_precede_stop", "waits_end_before_stop"}
  WaitForTimeouts = TRUE
  None = None
PROPERTY ReleasedGoesOn
