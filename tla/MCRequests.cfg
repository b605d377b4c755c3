SPECIFICATION Spec
CONSTANTS
  Functions <- MCFunctions
  Own <- MCOwn
  AuthFuncs = {}
  AuthRoles <- MCAuthRoles
  MaxConsults = 2
  Handlers <- AllHandlers
  Programs <- MCPrograms
  Requested = {"GET", "POST"}
  RouteMethods <- MCRouteMethods
  MaxStack = 5
INVARIANTS
  RunsAsScoped
  GuardedFirst
  DeniedWithoutWork
  PublicAsksNobody
CHECK_DEADLOCK FALSE
