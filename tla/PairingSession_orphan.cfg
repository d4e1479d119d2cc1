CONSTANTS
  Requests = {r1, r2}
  Kinds <- OnlyQR
  Starts <- Unpaired
  MaxCodes = 1
  Limits <- Unsaid
  NoOne = NoOne
  Remover = Remover
SPECIFICATION FairSpec
PROPERTY PairingsEnd
