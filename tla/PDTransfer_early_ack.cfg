SPECIFICATION PDSpec
CONSTANTS
  Req = {r1}
  Plan = {"suffix"}
  LoadFailurePolicy = "fail"
  MayAbort = FALSE
PROPERTY AckEndsLease
