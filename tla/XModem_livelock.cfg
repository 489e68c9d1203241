SPECIFICATION FairSpec
CONSTANTS
  ByteMod = 8
  PAYLOAD_SZ = 2
  SOH = 1
  ACK = 6
  NAK = 5
  EOT = 4
  Banner = 3
  Images <- PlainImages
  MaxNaks = 1
  LateNaks = TRUE
  Prompt = TRUE
  LineCapacity = 3
PROPERTY Completes
