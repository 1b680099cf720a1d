SPECIFICATION DTFairSpec
CONSTANTS
  Req = {r1}
  Plan = {"suffix"}
  LoadFailurePolicy = "recompute"
  MayAbort = TRUE
  Modes = {TRUE, FALSE}
  Buffer = {b1}
  NoBuffer = NoBuffer
  Workers = 1
INVARIANT DecodesWithOfferedKV
PROPERTY DecoderResolvesDirect PulledIsReleasedDirect
