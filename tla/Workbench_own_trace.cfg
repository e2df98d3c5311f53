SPECIFICATION Spec
CONSTANTS
  s1 = s1  s2 = s2  s3 = s3  t1 = t1  t2 = t2  k1 = k1  k2 = k2
  Span <- MCSpan
  Trace <- MCTrace
  Breakpoint = {k1}
  TraceOf <- MCTraceOf
  ToolSpan <- MCToolSpan
  Matches <- MCMatchesAny
  InOrders = {TRUE}
  MaxClicks = 3
  MaxHits = 1
  MaxEvents = 5
  MaxErrors = 0
  MaxCalls = 2
  NoTrace = NoTrace
  NoSpan = NoSpan
  NoHit = NoHit
  Unset = Unset
  Pending = Pending
INVARIANT ReplaysOwnTrace
