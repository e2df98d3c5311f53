SPECIFICATION Spec
CONSTANTS
  plan = plan  lookup = lookup  order = order  good = good  bad = bad
  Original = {o1}
  Request = {q1}
  Llm = {plan}
  Tool = {lookup, order}
  Value = {good, bad}
  Ask <- MCLookTwice
  Said <- MCSaid
  Careless = {}
  MaxFaults = 0
  Stop = Stop  Raised = Raised  None = None
INVARIANT RecordedToolsReplayed
