SPECIFICATION FairRSpec
CONSTANTS
  c1 = c1  c2 = c2  c3 = c3  a1 = a1  a2 = a2
  Configs = {c1, c2, c3}
  NoConfig = NoConfig
  Addresses = {a1, a2}
  AddressesOf <- MCAddressesOf
  MTUOf <- MCMTUOf
  Procs = {p1, p2}
  NoProc = NoProc
INVARIANTS TypeOK NoLateDevice FailureDropsProcess StopMeansDown OkMeansConfigured
PROPERTIES Implements OperationReturns
