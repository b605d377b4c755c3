SPECIFICATION FairSpec
CONSTANTS
  r1 = r1
  r2 = r2
  a1 = a1
  a2 = a2
  k1 = k1
  s1 = s1
  s2 = s2
  Nobody = Nobody
  Readers = {r1}
  Analyzers = {a1, a2}
  Closers = {k1}
  Streams = {}
  MaxAnalyses = 3
PROPERTIES
  ReaderGetsIn
  ReanalyzeReturns
  CloseReturns
