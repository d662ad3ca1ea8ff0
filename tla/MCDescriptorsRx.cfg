SPECIFICATION Spec
CONSTANTS
  TxHandle = {t1}
  RxHandle = {r1}
  ByClose = {}
  Fd = {3,4}
  Free = free
  r1 = r1
  t1 = t1
INVARIANTS OpenOwnsItsDescriptor
