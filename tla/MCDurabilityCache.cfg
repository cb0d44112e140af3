SPECIFICATION PSpec
CONSTANTS
  Requests = {r1, r2}
  SpillMax = 2
  DMixes <- MCDMixes
  Keys = {k1}
  Values = {v1, v2}
  Callers = {c1, c2, c3}
  Nothing = Nothing
  Failed = Failed
  MaxWrites = 1
  MaxCalls = 3
INVARIANTS AckedServed  CleanShutdown PublishedDurable
PROPERTIES RequestsEnd GetReturns Implements
CHECK_DEADLOCK FALSE
