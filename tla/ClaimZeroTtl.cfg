CONSTANTS
  Challenge = {c1, c2}
  Callback = {h1, h2}
  Pubkey = {k1, k2}
  Compressed = {k1}
  OnCurve = {k1}
  Wallet = {w1}
  NonZero = {w1}
  User = {u1}
  TTL = 0
  Absent = Absent
SYMMETRY AlikeIds
SPECIFICATION Spec
INVARIANT ZeroTtlKeepsNothing
