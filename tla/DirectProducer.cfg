SPECIFICATION FairSpec
CONSTANTS
  Req = {r1, r2}
  Modes = {TRUE, FALSE}
  Buffer = {b1}
  NoBuffer = NoBuffer
  Workers = 2
INVARIANT BufferHasOneOwner NoBufferLost
PROPERTY ImplementsLease HeldIsReleased
