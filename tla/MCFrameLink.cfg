SPECIFICATION TxSpec
CONSTANTS
  WIFI_MTU = 34
  ByteValues = 2
  Byte <- MCByte
  CallPayload <- MCCallPayload
  CallSeq = {11}
  stream_id = 1
  frame_type = "data"
  SeqNumbers = 3
  MaxSends = 5
  ignore_self_injected = TRUE
  RadiotapLen = {8, 13}
  FcsByte = "fcs"
  Radio = {"r"}
INVARIANTS TxTypeOK SeqControlDistinct NeverAFragment SentIsAccepted
