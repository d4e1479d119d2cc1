CONSTANTS
  Channels = {c1}
  Chats = {x}
  Shapes <- Kinds
  Chunks = 1
  StoreAttempts = 1
  Limits <- Quiet
SPECIFICATION Spec
INVARIANT NothingOnceReplaced
