SPECIFICATION RingSpec
CONSTANTS
  WIFI_MTU = 34
  Byte = {b0, b1}
  ZeroByte = b0
  Meta = {m0, m1}
  DefaultMeta = m0
  CfgRingSize = 3
  BufLen = {1, 2}
  b0 = b0
  b1 = b1
  m0 = m0
  m1 = m1
INVARIANTS RingTypeOK CursorsAgree
PROPERTY RingIsFifo
