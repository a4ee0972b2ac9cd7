SPECIFICATION FairSpec
CONSTANTS
  w1 = w1  w2 = w2  a1 = a1  a2 = a2  e1 = e1  e2 = e2  n1 = n1
  WgConfigs = {w1}
  AppConfigs = {a1}
  NoConfig = NoConfig
  Hosts = {e1, e2}
  Nets = {n1}
  EndpointsOf <- MCEndpointsOf
  PinnedOf <- MCPinnedOf
  AdvertisedOf <- MCAdvertisedOf
  Handlers = {h1, h2}
  Conns = {k1, k2}
  Requests = {"start", "wg.stop"}
  Faulty = {}
  PinClient = {FALSE}
  Disturbances = {}
  None = None
INVARIANT AnswersMatch
PROPERTIES RequestsReturn ConnectionsDrain
