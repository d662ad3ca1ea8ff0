SPECIFICATION Spec
CONSTANTS
  Null = null
  timeout = 2
  Grace = 2
INVARIANT NoRecvOnClosedReceiver
