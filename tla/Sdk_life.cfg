SPECIFICATION Spec
CONSTANTS
  t1 = t1  t2 = t2  plain = plain  strict = strict
  Thread = {t1, t2}
  Config = {strict}
  Default = plain
  MaxConfigures = 2
  MaxShutdowns = 2
  MaxSpans = 2
  None = None
INVARIANT TypeOK
INVARIANT OneProvider
INVARIANT RedactsAsConfigured
INVARIANT RootIsLast
CHECK_DEADLOCK FALSE
