SPECIFICATION Spec
CONSTANTS
  w1 = w1  w2 = w2  a1 = a1  a2 = a2  e1 = e1  e2 = e2  n1 = n1
  WgConfigs = {w1, w2}
  AppConfigs = {a1, a2}
  NoConfig = NoConfig
  Hosts = {e1, e2}
  Nets = {n1}
  EndpointsOf <- MCEndpointsOf
  PinnedOf <- MCPinnedOf
  AdvertisedOf <- MCAdvertisedOf
  Handlers = {h1}
  Conns = {k1}
  Requests = {"apply", "start", "stop", "restart", "wg.start", "wg.restart"}
  Faulty = {"wg.start", "wg.stop", "wg.restart", "routes.apply", "routes.pin_client", "bird.start", "bird.stop", "bird.reload", "wg.status"}
  PinClient = {TRUE}
  Disturbances = {"die", "crash", "save"}
  None = None
INVARIANTS TypeOK SuccessMeansDone EndpointOutsideTunnel
