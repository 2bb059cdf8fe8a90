SPECIFICATION Spec
CONSTANTS
  Threads = {t1}
  App = app0
  ux0 = ux0
  a = a
  Devices = {app0, ux0}
  Names = {a}
  RealPaths <- MCRealPaths
  Spelled <- MCSpelled
  Ids = {f1, f2, f3}
  Fds = {3, 4, 5}
  DupFds = {}
  TableSize = 2
  Nothing = nothing
INVARIANT FstatIsStat
