SPECIFICATION Spec
CONSTANTS
  r1 = r1
  r2 = r2
  r3 = r3
  Req = {r1, r2, r3}
  DP = 2
  Paddings = {1, 2, 4, 8, 16, 32}
  Rank <- MCRank
  Prompt <- MCPrompt
  Configs <- MCConfigs
CHECK_DEADLOCK FALSE
INVARIANT SampledIsNext ReceivedInOrder HostCatchesUp LengthsAgree ExpertsFollowTokens
