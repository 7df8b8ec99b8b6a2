SPECIFICATION FairSpec
CONSTANTS
  Caller = {c1}
  Task = {t1, t2}
  Job = {j1, j2, j3}
  None = None
INVARIANTS TypeOK AssignSafe NoCircularWait PoolNeverAborts
PROPERTIES ImplementsStdAsync FutureReady DestructorReturns
