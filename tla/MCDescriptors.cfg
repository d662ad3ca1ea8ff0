SPECIFICATION Spec
CONSTANTS
  TxHandle = {t1,t2}
  RxHandle = {r1}
  ByClose = {t2}
  Fd = {3,4,5}
  Free = free
  r1 = r1
  t1 = t1
  t2 = t2
INVARIANT NothingLeaks
PROPERTY FirstLossIsASecondClose
