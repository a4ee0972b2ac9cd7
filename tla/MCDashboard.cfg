SPECIFICATION FairSpec
CONSTANTS
  Fetches = {f1, f2}
  StreamEvents = 1
  MaxDisturb = 2
INVARIANTS TypeOK IndicatorHonest
PROPERTIES PageCatchesUp ButtonsComeBack
