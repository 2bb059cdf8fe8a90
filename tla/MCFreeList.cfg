SPECIFICATION Spec
CONSTANTS
  PageSize = 2
  AddrEnd = 11
  Sizes = {2, 4}
INVARIANT Sorted
PROPERTY ListIsSet
