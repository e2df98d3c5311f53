SPECIFICATION MCLiveSpec
CONSTANTS
  s1 = s1  s2 = s2  s3 = s3  t1 = t1  t2 = t2  k1 = k1  k2 = k2
  Span <- MCSpan
  Trace <- MCTrace
  Breakpoint = {k1, k2}
  TraceOf <- MCTraceOf
  ToolSpan <- MCToolSpan
  Matches <- MCMatches
  InOrders = {TRUE, FALSE}
  MaxClicks = 3
  MaxHits = 2
  MaxEvents = 5
  MaxErrors = 1
  MaxCalls = 2
  NoTrace = NoTrace
  NoSpan = NoSpan
  NoHit = NoHit
  Unset = Unset
  Pending = Pending
INVARIANT TypeOK
INVARIANT PanesAgree
PROPERTY HitIsFocused
PROPERTY ReplayEnds
PROPERTY NewestHitIsAnnounced
PROPERTY Reconnects
