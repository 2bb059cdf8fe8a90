SPECIFICATION Spec
CONSTANTS
  Threads = {t1, t2}
  App = app0
  ux0 = ux0
  a = a
  Devices = {app0, ux0}
  Names = {a}
  RealPaths <- MCRealPaths
  Spelled <- MCSpelled
  Ids = {f1, f2, f3}
  Fds = {3, 4, 5}
  DupFds = {4, 5}
  TableSize = 2
  Nothing = nothing
SYMMETRY Symmetry
INVARIANTS TypeOK OneInoPerFile NoSharedIno
