SPECIFICATION CommandsSpec
CONSTANTS
  Instances = {i1}
  GroupCount = 2
  GroupHaltLimit = 2
  Copies = 2
  Limits <- GroupFaults
  SendCopies = 2
  SendLimits <- SendFaults
INVARIANTS AnsweredBeforeAck ShutdownIsNotAFailure AttemptsBounded
PROPERTIES NoReapply NoResend HonestFailure
