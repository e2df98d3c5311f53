SPECIFICATION MCSpec
CONSTANTS
  None = None
  Absent = Absent
  MaxSpans = 4
  Key = {k1, k2}
  Content = {c1, c2}
  MaxLen = 3
  Trace <- TracesKept
  Spans <- SpansKept
  MaxOpen = 2
  MaxErrors = 1
  Field = {"f"}
  Word = {"inf", "0x10"}
  NumberWord <- NumberWords
  Literal <- Literals
  FieldValue <- FieldValues
  MaxLexemes = 4
  MaxSimple = 11
  MaxNested = 5
  Delivery = {d1, d2}
  Export <- Exports
  MaxAged = 1
  Worker = {w1}
  Thread = {t1, t2}
  PoolKey = {s1, s2}
  JwksTTL = 1
  SessionTTL = 3
  ShareTTL = 4
  MaxNow = 4
  MaxRestarts = 1
  MaxTokens = 1
INVARIANT BestAlignment
INVARIANT DivergesAtTheChange
INVARIANT ParsesTheGrammar
INVARIANT MirrorsHold
INVARIANT OneForest
INVARIANT MovesFollowTheWalk
INVARIANT PayloadsComeBack
INVARIANT LastDiffShown
INVARIANT GoodTokensPass
INVARIANT WithdrawnKeysFade
