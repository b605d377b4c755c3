SPECIFICATION StartSpec
CONSTANTS
  MaxEvalDepth = 6
  MaxEvalValues = 3
  Configured <- MCConfigured
  Order <- MCOrder
  Langs = {"en", "de", "fr"}
  Programs <- MCPrograms
  Outside <- MCOutside
  MaxBranches = 2
  Wrappers = {"purgeBound", "serveBound"}
  MethodSets <- MCMethodSets
  MainPackage = {"main", "lit"}
  Literals = {"lit"}
  StringFields <- MCStringFields
INVARIANTS
  StringsCovered
  RoutesFound
  MiddlewareShown
  GuardsRun
  EntryPointsFound
CHECK_DEADLOCK FALSE
