SPECIFICATION FairSpec
CONSTANTS
  plan = plan  lookup = lookup  order = order  good = good  bad = bad
  Original = {o1}
  Request = {q1, q2}
  Llm = {plan}
  Tool = {lookup, order}
  Value = {good, bad}
  Ask <- MCOrderBot
  Said <- MCSaid
  Careless = {q2}
  MaxFaults = 1
  Stop = Stop  Raised = Raised  None = None
INVARIANT TypeOK
INVARIANT FollowsSourceToTheEdit
INVARIANT SourceIsWhole
INVARIANT DoneMeansStored
PROPERTY BranchIsAnswered
