SPECIFICATION Spec
CONSTANTS
  o1 = o1  o2 = o2  r1 = r1  r2 = r2  a1 = a1
  Orders = {o1, o2}
  Refs = {r1, r2}
  Accounts = {a1}
  Keys = {k1, k2}
  Procs = {w, g, h}
  Worker = w
  Callbacks <- Shared
  NoRef = NoRef  NoAccount = NoAccount  NoKey = NoKey  NoProc = NoProc
  NoOrder = NoOrder
  PreIssued = {}
  Closings = {}
  AgesReached = {}
  FaultBudget = 0
INVARIANT OneOrderPerKey
PROPERTY ImplementsLedger
CHECK_DEADLOCK FALSE
