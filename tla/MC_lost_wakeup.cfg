SPECIFICATION Spec
CONSTANTS
  o1 = o1  o2 = o2  r1 = r1  r2 = r2  a1 = a1
  Orders = {o1}
  Refs = {r1}
  Accounts = {a1}
  Keys = {k1}
  Procs = {w, g}
  Worker = w
  Callbacks <- OneTransfer
  NoRef = NoRef  NoAccount = NoAccount  NoKey = NoKey  NoProc = NoProc
  NoOrder = NoOrder
  PreIssued = {}
  Closings = {"EXPIRED"}
  AgesReached = {"expired", "final"}
  FaultBudget = 0
INVARIANT EvidenceScheduled
CHECK_DEADLOCK FALSE
