SPECIFICATION Spec
CONSTANTS
  Subjects = {"reply"}
  Pairings = {1, 2, 3, 4}
  Histories = {1, 2}
  Capacity = 2
  Instances = {i1, i2}
  NoOwner = NoOwner
  Shards = 2
  Trouble = 2
  Rings = {1, 2, 3}
  Identities = {"lid", "pn"}
  Groups = {}
  KnownAs <- MCKnownAs
  Window = 2
  MaxTime = 3
  MaxSlips = 1
  MaxVersion = 2
  Connectors = {1}
  LogoutLanes = {1, 2}
  Budget <- MCBudget
  CachedGroups = {1}
  CachedPersons = {2}
  Callers = {1, 2}
  MaxChanges = 2
  MaxEntries = 2
  Requests = {1, 2}
  Operations = {"contacts", "groups"}
  OperationOf <- MCOperationOf
  Answerable = {1}
  Prefetch = 1
  RpcFaults = 2
  MaxSpoken = 2
  MaxTicks = 1
  MaxPlays = 1
  QueueFrames = 1
  RingFrames = 2
  MaxIOErrors = 1
  MaxVideo = 1
  MediaConcurrency = 2
  MaxMessages = 2
  MaxBytes = 11
  Envelope = 2
  Header = 2
INVARIANT OneMessage
