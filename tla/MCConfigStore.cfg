SPECIFICATION Spec
CONSTANTS
  Handlers = {h1, h2}
  Birds = {b1}
  Runs = {r1}
  Keys = {k1, k2}
  Default = Default
  Placeholder = Placeholder
  Missing = Missing
  Empty = Empty
  Mixed = Mixed
SYMMETRY HandlerSymmetry
INVARIANTS TypeOK SavesKept KeyKept
