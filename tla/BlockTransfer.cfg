SPECIFICATION Spec
CONSTANTS
  BlockSizes = {1, 2, 3}
  MaxPrompt = 11
  MaxBlocks = 5
  DecoderIds = {0, 1, 2, 3, 4, 5}
INVARIANT PlanIsAccepted PrefixIsComplete OthersUntouched BucketIsLeast
\* A request that has been inserted or notified takes no further step.
CHECK_DEADLOCK FALSE
