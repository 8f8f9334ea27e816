CONSTANTS
  Challenge = {c1, c2}
  Callback = {h1}
  Traced = h1
  Pubkey = {k1, k2}
  Compressed = {k1, k2}
  OnCurve = {k1}
  Wallet = {w1, w2}
  NonZero = {w1, w2}
  User <- MCUser
  TTL = 1
  ApiHost = "api.github.com"
  UserInfoPath = "/user"
  ChainId = "chain"
  VerifierContract = "verifier"
  NotaryAddress = "notary"
  Handshake <- MCHandshake
  Responses <- MCResponses
  MaxDrift = 1
  MaxTime = 1
  Nobody = "nobody"
  Absent = Absent
SPECIFICATION ClaimFlowSpec
INVARIANTS ServedProofIsGood
PROPERTIES ImplementsHandleClaim
