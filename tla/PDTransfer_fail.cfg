SPECIFICATION PDFairSpec
CONSTANTS
  Req = {r1}
  Plan = {"suffix"}
  LoadFailurePolicy = "fail"
  MayAbort = TRUE
INVARIANT NoDecodeWithoutKV AckMeansDone ReadyIsTracked
PROPERTY PullsOnce DecoderResolves PulledIsReleased
