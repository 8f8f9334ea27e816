CONSTANTS
  Challenge = {c1}
  Callback = {h1}
  Pubkey = {k1, k2}
  Compressed = {k1}
  OnCurve = {k1}
  Wallet = {w1}
  NonZero = {w1}
  User = {u1}
  TTL = 1
  Absent = Absent
SPECIFICATION Spec
INVARIANT ProvingReads202
