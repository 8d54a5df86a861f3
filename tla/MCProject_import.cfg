CONSTANTS
  a = a  b = b  c = c  x = x
  NoCluster = NoCluster
  Unread = Unread
  Names = {a, b, c}
  Exts = {x}
  Clients = {c1, c2}
  Starts <- MCStarts
  MaxRequests = 1
  MaxRacing = 1
SPECIFICATION Spec
INVARIANTS ImportReplacesNothing
SYMMETRY Symmetry
CHECK_DEADLOCK FALSE
