SPECIFICATION FairSpec
CONSTANTS
  c1 = c1
  c2 = c2
  x1 = x1
  f1 = f1
  Nobody = Nobody
  Callers = {c1, c2}
  Closers = {x1}
  Files = {f1}
  MaxConns = 1
  MaxAsks = 2
  PipeRoom = 1
  MaxOwn = 0
CHECK_DEADLOCK FALSE
PROPERTIES
  RequestsReturn
  CloseStops
  ImplementsExchange
