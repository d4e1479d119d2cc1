CONSTANTS
  Channels = {a}
  Responsive = {a}
  MaxCommands = 2
  Backlog = 1
  Prefetch = 3
  MaxLostConfirms = 1
  MaxStalls = 1
  MaxRestarts = 1
SPECIFICATION FairSpec
INVARIANTS NoCommandLost SendNeverBlocks
PROPERTIES EveryCommandSettles StopTerminates
