SPECIFICATION Spec
CONSTANTS
  b1 = b1
  Tabs = {t1, t2}
  Browsers = {b1}
  BrowserOf <- MCBrowserOf
  TTL = 1
  None = None
  MaxTime = 2
  Ids = {i1, i2, i3}
  MaxBoots = 2
SYMMETRY Symmetry
INVARIANTS TypeOK AuthorizedOnly SessionLifetime OwnPageWorks
