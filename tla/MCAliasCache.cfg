CONSTANTS
  Entries = 3
  NodeIDs = {1, 2, 3, 4}
  Aliases = {1, 2}
  NOT_RESPONDING = 10
SPECIFICATION Spec
INVARIANT Consistent
PROPERTY ImplementsTable
VIEW CacheView
