SPECIFICATION FairSpec
CONSTANTS
  g1 = g1  c1 = c1
  Gateways = {g1}
  NoGateway = NoGateway
  Writers = {g1}
  Streams = {}
  Clients = {c1}
  Public = {}
  Hidden = {}
  MaxSeq = 2
  InputCap = 1
  BufferCap = 1
  Batch = 2
  EarlyClients = TRUE
  FaultBudget = 1
PROPERTY EventsArrive
