SPECIFICATION FairSpec
CONSTANTS
  Null = null
  timeout = 2
  Grace = 2
INVARIANTS ProgramTypeOK RecvKeepsItsReceiver DroppedExactlyOnce
PROPERTY ExitsAfterLoop
