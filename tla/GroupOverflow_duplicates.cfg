CONSTANTS
  Channels = {a}
  Responsive = {a}
  MaxCommands = 4
  Backlog = 1
  Prefetch = 4
  MaxLostConfirms = 1
  MaxStalls = 0
  MaxRestarts = 0
SPECIFICATION Spec
INVARIANT InOrder
