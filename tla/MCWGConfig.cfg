SPECIFICATION Spec
CONSTANTS
  k1 = k1  k2 = k2  k3 = k3  k4 = k4  addr = addr  mtu = mtu  e1 = e1  e2 = e2
  Keys = {k1, k2, k3, k4}
  Values = {addr, mtu, e1, e2}
  Accepts <- MCAccepts
  Redacted = Redacted
  Empty = Empty
  Users = {u1, u2}
  NoFile = NoFile
  Placed <- MCPlaced
  Pastes <- MCPastes
  Lines <- MCLines
  MaxEdits = 2
SYMMETRY UserSymmetry
INVARIANTS TypeOK OnlyCommentsShowKeys RoundTrip 
PROPERTIES EditKeepsKeys KeysStayInRole
