CONSTANTS
  Calls = {rings, dialled}
  Inbound = {rings}
  Recorded = {rings, dialled}
  Channels = {c}
  ChannelOf <- OneChannel
  Operators = {o1, o2}
  NoOperator = nobody
  TokenFor <- Watchers
  Crowds = FALSE
  Limits <- Faults
SPECIFICATION FairSpec
INVARIANTS EndsOnce NoStreamLeftOpen StopReports
PROPERTIES EndReported
