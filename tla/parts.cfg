\* A live table of one object and two URLs, the drain window of one node, a
\* relationship tree with cycles that is larger than its node limit, and two
\* CRDs that come and go.
SPECIFICATION Spec
CONSTANTS
  x = x
  here = here
  elsewhere = elsewhere
  Uids = {x}
  Urls = {here, elsewhere}
  Match <- MCMatch
  MaxChanges = 4
  MaxTableUpsets = 2
  MaxJobs = 2
  MaxProgress = 1
  MaxWatchers = 1
  MaxOrphans = 1
  MaxPanelUpsets = 1
  a = a
  b = b
  c = c
  d = d
  o = o
  Resources = {a, b, c, d, o}
  Root = a
  Owners <- MCOwners
  Below <- MCBelow
  Cached = {b}
  Unknown = {o}
  MaxDepth = 3
  MaxNodes = 7
  Permits = 1
  CustomKinds = {k1, k2}
  MaxCatalogChanges = 3
  MaxCatalogUpsets = 2
INVARIANTS
  ShownIsApplied
  NothingStale
  LogIsHistory
  WithinBudget
  NothingOmitted
PROPERTIES
  TableSettles
  
  TreeIsBuilt
  CatalogCatchesUp
CHECK_DEADLOCK FALSE
