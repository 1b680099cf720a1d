SPECIFICATION MCFairSpec
CONSTANTS
  Req = {r1}
  Plan = {"suffix", "nonsuffix", "empty", "malformed"}
  MaxInFlight = 2
INVARIANT ServedKVIsOriginal ReadyIsServed PeerTablesFollowLease
PROPERTY AtMostOnePreparation ImplementsLease HeldIsReleased EveryPlanAnswered
