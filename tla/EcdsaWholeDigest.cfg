SPECIFICATION Spec
CONSTANTS
  P = 11
  A = 2
  B = 7
  BaseX = 6
  BaseY = 2
  Order = 7
  ByteBits = 2
  Digests <- TwinDigests
  Truncations = {FALSE}
  Secrets = {2, 3}
  Candidates = {0, 1, 3, 7}
  MaxStream = 3
  MaxSeeds = 1
  Mixes = {{"deterministic"}}
INVARIANT NonceOnceAnyDigest
