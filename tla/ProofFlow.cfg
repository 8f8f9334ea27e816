CONSTANTS
  Account <- MCAccount
  Pubkey = {k1, k2}
  OnCurve = {k1}
  Wallet = {w1}
  ApiHost = "api.github.com"
  UserInfoPath = "/user"
  ChainId = "chain"
  VerifierContract = "verifier"
  NotaryAddress = "notary"
  Handshake <- MCHandshake
  Responses <- MCResponses
  MaxDrift = 2
  MaxTime = 2
  Nobody = "nobody"
  Absent = Absent
CHECK_DEADLOCK FALSE
SPECIFICATION Spec
INVARIANTS TypeOK AcceptedOnChain ProofOfOwnSession
PROPERTIES HonestNotaryAccepted OtherDeploymentIsNamed
