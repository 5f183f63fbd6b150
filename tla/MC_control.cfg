SPECIFICATION Spec
CONSTANTS
  g1 = g1  w1 = w1  d1 = d1  c1 = c1
  Deployers = {d1}
  NoDeployer = NoDeployer
  Ops = {g1, w1}
  WorkerOps = {w1}
  Duties <- MCDuties
  Drafts <- MCDrafts
  Blank = Blank
  LegacyClient = "c1"
  LegacySums = {"s1"}
  FirstKeys <- MCKeys
  Budget = 2
  Callers = {c1}
  Main = Main
INVARIANTS ConfirmedByPayOS CallbacksVerifiable AnswersHold
PROPERTY CommitsCovered
CHECK_DEADLOCK FALSE
