SPECIFICATION FairSpec
CONSTANTS
  Daemons = {d1, d2, d3}
  NoDaemon = NoDaemon
  MaxPolls = 2
INVARIANT TypeOK
PROPERTIES ImplementsBird OperationReturns
