SPECIFICATION Spec
CONSTANTS
  t1 = t1  t2 = t2  t3 = t3  a1 = a1  a2 = a2  h1 = h1  h2 = h2  n1 = n1
  Texts = {t1, t2}
  AppConfigs = {a1, a2}
  Hosts = {h1, h2}
  V6 = {v6}
  Nets = {n1}
  Name = Name
  Resolutions = {{}, {h1}, {h2}, {h1, h2, v6}}
  None = None
  Garbled = Garbled
  EndpointOf <- MCEndpointOf
  PinnedOf <- MCPinnedOf
  BareOf <- MCBareOf
  AdvertisedOf <- MCAdvertisedOf
INVARIANTS TypeOK PinnedBeforeRouted AppliedMeansRouted
PROPERTY ImplementsRoutes
