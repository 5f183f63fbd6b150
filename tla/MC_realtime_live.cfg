SPECIFICATION FairSpec
CONSTANTS
  g1 = g1  c1 = c1
  Gateways = {g1}
  NoGateway = NoGateway
  Writers = {}
  Streams = {g1}
  Clients = {c1}
  Public = {c1}
  Hidden = {1}
  MaxSeq = 2
  InputCap = 1
  BufferCap = 1
  Batch = 2
  EarlyClients = FALSE
  FaultBudget = 1
PROPERTY EventsArrive
