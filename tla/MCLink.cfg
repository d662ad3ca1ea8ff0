SPECIFICATION LinkSpec
CONSTANTS
  WIFI_MTU = 33
  Byte <- MCByte
  ZeroByte = "zero"
  Meta <- MCMeta
  DefaultMeta <- MCDefaultMeta
  CfgRingSize = 2
  BufLen = {2}
  ignore_self_injected = TRUE
  Packet <- MCPackets
  stream_id = 1
  Timeouts = {1}
  TicksPerMs = 1
  PollMax = 1
  KernelCap = 2
  ByteValues = 2
  CallPayload <- MCPeerLines
  frame_type = "data"
  SeqNumbers = 3
  PeerSendsMax = 3
  OwnSendsMax = 1
  OwnPayload <- MCOwnLines
  RadiotapLen = {8}
  FcsByte = "fcs"
  Radio = {0}
  Noise <- MCNoise
INVARIANTS LinkTypeOK HeardAsSent
PROPERTIES AwaitedIsKept CapturedIsHeard
CHECK_DEADLOCK FALSE
