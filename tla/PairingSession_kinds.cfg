CONSTANTS
  Requests = {r1, r2}
  Kinds <- TwoKinds
  Starts <- Unpaired
  MaxCodes = 1
  Limits <- Ordinary
  NoOne = NoOne
  Remover = Remover
SPECIFICATION FairSpec
INVARIANTS OneAtATime
PROPERTIES PairingsEnd
