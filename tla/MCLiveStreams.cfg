SPECIFICATION FairSpec
CONSTANTS
  r1 = r1
  r2 = r2
  a1 = a1
  a2 = a2
  k1 = k1
  s1 = s1
  s2 = s2
  Nobody = Nobody
  Readers = {}
  Analyzers = {a1, a2}
  Closers = {}
  Streams = {s1}
  MaxAnalyses = 2
PROPERTIES
  StreamCatchesUp
