SPECIFICATION FairSpec
CONSTANTS
  WIFI_MTU = 33
  Byte <- MCByte
  ZeroByte = "zero"
  Meta <- MCMeta
  DefaultMeta <- MCDefaultMeta
  CfgRingSize = 2
  BufLen = {1}
  ignore_self_injected = TRUE
  Packet <- OnePacket
  FcsByte = "fcs"
  stream_id = 1
  Timeouts = {1}
  TicksPerMs = 1
  PollMax = 1
  KernelCap = 1
PROPERTY RecvReturns
