CONSTANTS
  a = a  b = b  c = c  x = x
  NoCluster = NoCluster
  Unread = Unread
  Names = {a, b, c}
  Exts = {x}
  Clients = {c1, c2}
  Starts <- MCStarts
  MaxRequests = 3
  MaxRacing = 2
SPECIFICATION BrowserSpec
INVARIANTS ClusterRefsExist SourcesExist RenameReplacesNothing
PROPERTIES OthersKeepTheirMeta FilesAddNoClash
SYMMETRY Symmetry
CHECK_DEADLOCK FALSE
