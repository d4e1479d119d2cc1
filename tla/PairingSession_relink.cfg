CONSTANTS
  Requests = {r1, r2}
  Kinds <- OnlyRelink
  Starts <- WithDevice
  MaxCodes = 0
  Limits <- AllButPublish
  NoOne = NoOne
  Remover = Remover
SYMMETRY AnyRequest
SPECIFICATION Spec
INVARIANTS SessionIsHeard QuietUnlessResumed NoSessionLeft
