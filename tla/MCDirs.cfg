SPECIFICATION Spec
CONSTANTS
  Threads = {t1, t2}
  short = short
  long = long
  Names = {short, long}
  Length <- MCLength
  Handles = {h1, h2}
  NoHandle = nohandle
  NoName = noname
  MaxChanges = 1
INVARIANTS TypeOK HandlesOwned EndMeansAll NoFalseError
PROPERTY EnumerationEnds
