SPECIFICATION FairSpec
CONSTANTS
  WIFI_MTU = 33
  Byte <- MCByte
  ZeroByte = "zero"
  Meta <- MCMeta
  DefaultMeta <- MCDefaultMeta
  CfgRingSize = 2
  BufLen = {1}
  ignore_self_injected = TRUE
  Packet <- SafetyPackets
  FcsByte = "fcs"
  stream_id = 1
  Timeouts = {0, 1, 2}
  TicksPerMs = 2
  PollMax = 1
  KernelCap = 2
INVARIANTS TypeOK NeverWaitsOnAFrame FcsNeverDelivered NeverWaitsPastTimeout
PROPERTIES ReceiverIsLossyFifo TimeoutNotEarly RecvReturnsWhenQuiet
