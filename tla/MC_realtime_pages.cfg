SPECIFICATION Spec
CONSTANTS
  g1 = g1  c1 = c1
  Gateways = {g1}
  NoGateway = NoGateway
  Writers = {g1}
  Streams = {}
  Clients = {c1}
  Public = {}
  Hidden = {}
  MaxSeq = 3
  InputCap = 1
  BufferCap = 1
  Batch = 2
  EarlyClients = FALSE
  FaultBudget = 1
PROPERTIES NoSilentGap ShownOnce NothingPassedOver
