SPECIFICATION ServedSpec
CONSTANTS
  Functions <- MCFunctions
  Own <- MCOwn
  AuthFuncs = {}
  AuthRoles <- MCAuthRoles
  MaxConsults = 6
  Programs <- MCPrograms
  Requested = {"GET", "POST", "PUT"}
  RouteMethods <- MCRouteMethods
  MaxStack = 4
  Schema = {"users"}
  Documents <- MCDocuments
  DocumentQueries <- MCDocumentQueries
  DepthLimits = {2, 3, 16}
INVARIANTS
  SinksShown
  KeptLeadsToSink
  RefsExpanded
  CallsCounted
  ExecutedIsShown
  PathsComplete
CHECK_DEADLOCK FALSE
