SPECIFICATION Spec
CONSTANTS
  r1 = r1
  r2 = r2
  k1 = k1
  k2 = k2
  k3 = k3
  Rx = {r1, r2}
  Dropper = {poll, program}
  Key = {k1, k2, k3}
  NoKey = NoKey
  StreamOf <- MCStreamOf
  BucketSizes = {1, 2}
  ChainSize = 1
  MaxEntries = 3
  MaxRefs = 2
INVARIANTS
  TableInv
  ClaimsAreSafe
  LiveEntriesReachable
  OneEntryPerFlow
