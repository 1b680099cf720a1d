SPECIFICATION FairSpec
CONSTANTS
  r1 = r1
  r2 = r2
  Req = {r1, r2}
  DP = 2
  Paddings = {1, 2, 4}
  Rank <- MCRank
  Engine = {1, 2}
  Stage = {0, 1, 2}
  Chips = {0, 1, 2, 3}
  Cores = 2
  Deployments <- MCDeployments
  MaxSteps = 3
  Batch <- MCBatch
INVARIANT ChipsAreOwn InputIsOfTheStep EverythingIsPulled
PROPERTY StepsComplete
\* The engine may have nothing to do.
CHECK_DEADLOCK FALSE
