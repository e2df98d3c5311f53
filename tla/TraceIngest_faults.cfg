SPECIFICATION FairSpec
CONSTANTS
  s1 = s1  s2 = s2  s3 = s3  s4 = s4  s5 = s5
  t1 = t1  t2 = t2
  h1 = h1  p1 = p1  p2 = p2  k1 = k1
  b1 = b1  b2 = b2
  Span <- MCSpan
  Trace <- MCTrace
  Project <- MCProject
  Hash <- MCHash
  Breakpoint <- MCBreakpoint
  Worker = {w1, w2}
  Info <- MCInfo
  Batch <- MCBatch
  Request <- MCRequest
  DefaultProject = p2
  MaxAttempts = 2
  Faults = TRUE
  Free = Free
  NoRow = NoRow
  NoSpan = NoSpan
  NoHash = NoHash
  NoBatch = NoBatch
INVARIANT TypeOK
INVARIANT ReferentialIntegrity
INVARIANT AckedIsDurable
INVARIANT ListedTraceAgrees
INVARIANT HitsCountStoredSpans
INVARIANT UniqueProjects
INVARIANT ReadersSeeWholeBatches
PROPERTY ImplementsSpanLog
PROPERTY EveryHandlerEnds
\* The exporter's finite traffic ends.
CHECK_DEADLOCK FALSE
