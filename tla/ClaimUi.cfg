CONSTANTS
  Challenge = {c1}
  Callback = {h1, h2}
  Pubkey = {k1, k2}
  Compressed = {k1}
  OnCurve = {k1}
  Wallet = {w1}
  NonZero = {w1}
  User = {u1}
  TTL = 2
  Absent = Absent
SPECIFICATION UiFairSpec
INVARIANTS OneStory
PROPERTIES OutcomeIsNotMissed PollingEnds
