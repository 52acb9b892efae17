SPECIFICATION FairSpec
CONSTANTS
  Instances = {i1}
  Keys = {k}
  Requests = {r1, r2, r3}
  NoSha = NoSha
  Faults = 1
  Pulling = {i1}
INVARIANT TypeOK
INVARIANT OneWinner
INVARIANT NoGhostClaims
PROPERTY ClaimLeaseSpec
PROPERTY MirrorHeals
