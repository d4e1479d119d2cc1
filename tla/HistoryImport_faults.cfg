CONSTANTS
  Channels = {c1, c2}
  Chats = {x}
  Shapes <- Kinds
  Chunks = 1
  StoreAttempts = 1
  Limits <- Faults
SPECIFICATION FairSpec
INVARIANTS TypeOK WholeAndInOrder SilentOnceReplaced ReleasedWhenPublished EndsWithTotal
PROPERTIES QueuesDrain
