CONSTANTS
  Challenge = {c1, c2}
  Callback = {h1, h2}
  Pubkey = {k1, k2}
  Compressed = {k1, k2}
  OnCurve = {k1, k2}
  Wallet = {w1, w2}
  NonZero = {w1, w2}
  User = {u1, u2}
  TTL = 1
  Absent = Absent
SYMMETRY Alike
SPECIFICATION Spec
INVARIANTS SingleUse ProofBoundToRequest Binding
