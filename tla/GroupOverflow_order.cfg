CONSTANTS
  Channels = {a, b}
  Responsive = {b}
  MaxCommands = 3
  Backlog = 1
  Prefetch = 3
  MaxLostConfirms = 0
  MaxStalls = 0
  MaxRestarts = 0
SPECIFICATION HangingSpec
PROPERTIES FifoSpec Isolation
