SPECIFICATION Spec
CONSTANTS
  ByteMod = 8
  PAYLOAD_SZ = 2
  SOH = 1
  ACK = 6
  NAK = 5
  EOT = 4
  Banner = 3
  Images <- PlainImages
  MaxNaks = 2
  LateNaks = TRUE
  Prompt = FALSE
  LineCapacity = 3
INVARIANT LoadsSoundly
INVARIANT CountersAgree
INVARIANT SentMeansBooted
PROPERTY Implements
