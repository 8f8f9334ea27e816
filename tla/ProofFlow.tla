----------------------------- MODULE ProofFlow -----------------------------
(***************************************************************************)
(* One run of the proving flow (src/flow/mod.rs): an MPC-TLS session       *)
(* with GitHub through the notary, the notary's response, the independent  *)
(* checks of that response against the prover's own view of the session,   *)
(* and the assembly of the bind-ready proof.  HandleClaim takes a run as   *)
(* one step with the outcomes in FlowOutcomes; this is what is inside.     *)
(*                                                                         *)
(* External, and modelled from how the flow uses them: GitHub, the notary  *)
(* (which may be broken: it sends any member of Responses), the TLSNotary  *)
(* prover, hashes and signatures (without collisions), and the verifier    *)
(* contract the proof is for.                                              *)
(***************************************************************************)
EXTENDS Integers, Transcript

CONSTANTS
  Account,          \* GitHub accounts: a login, an id and a name (or Absent)
  Pubkey, OnCurve,  \* session keys of accepted challenges; those on the curve
  Wallet,
  ApiHost,          \* platform_config.api_host
  UserInfoPath,     \* platform_config.user_info_path
  ChainId, VerifierContract, NotaryAddress,  \* the rest of FlowContext
  Handshake,        \* client random, server random and ephemeral key of a session
  Responses,        \* what the notary may send
  MaxDrift,         \* MAX_TIMESTAMP_DRIFT_SECS, in ticks
  MaxTime,          \* bound: the clock stops here
  Nobody,           \* an address that no key of interest has
  Absent

ASSUME FlowAssumption ==
  /\ MaxTime \in Nat /\ MaxDrift \in Nat
  /\ OnCurve \subseteq Pubkey
  /\ Absent \notin Account
  /\ NotaryAddress \notin {Absent, Nobody}

Field == {"client_random", "server_random", "server_ephemeral_key"}

\* Why a run fails, and why a run never starts (Config to NotaryUrl).
ErrorKind ==
  {"Config", "OAuthFailed", "NotaryConnect", "NotaryUrl",
   "ApiParse", "CryptoFailed", "MpcTlsFailed", "AttestationInvalid",
   "DomainMismatch", "EndpointMismatch", "TimestampDrift", "TlsHandshakeMismatch",
   "MerkleLeafMismatch", "MissingMerkleLeaf", "TooFewMerkleLeaves",
   "TranscriptRootMismatch", "NotarySignatureMismatch", "MalformedRequestLine",
   "PresentationBuildFailed", "Io", "Json", "Tlsn", "Transcript", "Crypto"}

\* TlsHandshakeData and NotaryResponse, as far as their shape goes.
ASSUME ShapeAssumption ==
  /\ \A hs \in Handshake : hs = [field \in Field |-> hs[field]]
  /\ \A r \in Responses :
       LET proof == r.evm_proof
           sig   == proof.notary_signature IN
       /\ proof.handshake = [field \in Field |-> proof.handshake[field]]
       /\ proof.leaves \in Seq({proof.leaves[i] : i \in DOMAIN proof.leaves})
       /\ proof.timestamp \in Nat
       /\ sig = [signer |-> sig.signer, v |-> sig.v, digest |-> sig.digest]

VARIABLES
  claim,     \* whose token, for which key and wallet: the arguments of run
  phase,     \* the operation that comes next
  clock,     \* this server's wall clock
  session,   \* the prover's own view of the TLS session
  response,  \* the notary's response
  outcome    \* what the run has returned

vars == <<claim, phase, clock, session, response, outcome>>

-----------------------------------------------------------------------------
\* Signatures.

\* The recovery byte of a signature: 0 or 1, 27 or 28, or some other byte.
VByte == {"raw", "evm", "other"}

\* recover_eth_claim, then the address.  Over another digest than the one that
\* was signed it is nobody's address, or none; whether the library refuses an
\* odd recovery byte is its own affair (Absent is its error).
Recovered(signature, digest) ==
  {signature.signer : d \in {digest} \cap {signature.digest}}
    \cup (IF signature.digest = digest THEN {} ELSE {Nobody})
    \cup (IF signature.digest = digest /\ signature.v # "other" THEN {} ELSE {Absent})

-----------------------------------------------------------------------------
\* The response body: an account, or an answer that is none (Absent).

\* parse_github_user: a PlatformUser.  A name is optional and may be anything.
ExtractUser_DisplayName(body) ==
  LET display == IF body.name = Absent THEN body.login ELSE body.name IN
  [id |-> body.id, username |-> display, display_name |-> display]

ExtractUser(body) ==
  [id           |-> body.id,
   username     |-> body.login,
   display_name |-> IF body.name = Absent THEN body.login ELSE body.name]

\* External: find_json_snippet_range, which cuts a field out of a body as it is
\* spelled.  In an account it finds the login as the notary reveals it, or, where
\* that is spelled another way (with a space, say), nothing.
FindSnippet(body) == {Absent} \cup {LoginSnippet(b.login) : b \in {body} \ {Absent}}

\* assemble_registration_proof rebuilds the id's text from the parsed id.
IdSnippet(id) == <<"id", id, ",">>

-----------------------------------------------------------------------------
\* The request: its first line, as words with single spaces between them.

RequestLine == <<"GET", UserInfoPath, "HTTP/1.1">>

\* verify_common_checks: rsplit_once takes the version off, split_once the
\* method, if there is one.  What is left is the endpoint.
EndpointOf(line) ==
  IF Len(line) < 2 THEN Absent
  ELSE IF Len(line) = 2 THEN <<line[1]>>
  ELSE SubSeq(line, 2, Len(line) - 1)

\* What the notary reports of that request.
UserInfoEndpoint == <<UserInfoPath>>

ASSUME EndpointAssumption == UserInfoEndpoint # Absent

-----------------------------------------------------------------------------
\* The checks.

\* verify_tls_handshake: the three fields, one by one.
VerifyTlsHandshake_TwoFields(own, theirs) ==
  \A field \in {"client_random", "server_random"} : own[field] = theirs[field]

VerifyTlsHandshake(own, theirs) == \A field \in Field : own[field] = theirs[field]

\* verify_timestamp_freshness: abs_diff, either way.
Fresh_NeverAhead(timestamp, now) == timestamp <= now /\ now - timestamp < MaxDrift

Fresh(timestamp, now) == now - timestamp < MaxDrift /\ timestamp - now < MaxDrift

\* The digest verify_common_checks recovers the signature over: from the proof's
\* fields, and this deployment's chain and contract.
ExpectedDigest(proof) ==
  NotaryDigest(ChainId, VerifierContract, proof.domain, proof.handshake,
               proof.transcript_root, proof.timestamp)

\* The address the signature yields has to be the notary's.
IsNotary_Any(recovered) == recovered # Absent

IsNotary(recovered) == recovered = NotaryAddress

\* What verify and verify_common_checks may object to in the notary's response;
\* recovered is the address its signature yields.
Objection(error, r, recovered) ==
  LET proof == r.evm_proof IN
  \/ error = "AttestationInvalid" /\ ~r.attested
  \/ error = "ApiParse" /\ session.body = Absent
  \/ error = "TlsHandshakeMismatch"
       /\ ~VerifyTlsHandshake(session.handshake, proof.handshake)
  \/ error = "DomainMismatch" /\ proof.domain # ApiHost
  \/ error = "TimestampDrift" /\ ~Fresh(proof.timestamp, clock)
  \/ error = "MalformedRequestLine" /\ EndpointOf(session.request) = Absent
  \/ error = "EndpointMismatch" /\ proof.endpoint # EndpointOf(session.request)
  \/ error = "TooFewMerkleLeaves" /\ Len(proof.leaves) < 3
  \/ /\ error = "MerkleLeafMismatch" /\ Len(proof.leaves) >= 3
     /\ \/ proof.leaves[1] # Leaf("domain:", proof.domain)
        \/ proof.leaves[2] # Leaf("endpoint:", EndpointOf(session.request))
  \/ error = "TranscriptRootMismatch" /\ Root(proof.leaves) # proof.transcript_root
  \/ error = "CryptoFailed" /\ recovered = Absent
  \/ error = "NotarySignatureMismatch" /\ ~IsNotary(recovered)
  \/ error = "MpcTlsFailed" /\ session.snippet = Absent
  \/ /\ error = "MissingMerkleLeaf"
     /\ \A i \in 3..Len(proof.leaves) : proof.leaves[i] # Leaf("recv:", session.snippet)

\* The order in which the code looks for them: the first one is returned.
CheckOrder ==
  <<"AttestationInvalid", "ApiParse", "TlsHandshakeMismatch", "DomainMismatch",
    "TimestampDrift", "MalformedRequestLine", "EndpointMismatch",
    "TooFewMerkleLeaves", "MerkleLeafMismatch", "TranscriptRootMismatch",
    "CryptoFailed", "NotarySignatureMismatch", "MpcTlsFailed", "MissingMerkleLeaf">>

FirstObjection(r, recovered) ==
  {CheckOrder[i] : i \in {i \in DOMAIN CheckOrder :
     /\ Objection(CheckOrder[i], r, recovered)
     /\ \A j \in 1..(i - 1) : ~Objection(CheckOrder[j], r, recovered)}}

Verified(r, recovered) == \A error \in ErrorKind : ~Objection(error, r, recovered)

\* iter().position: where a leaf comes first, if it does.
FirstPosition_FromThird(leaves, leaf) ==
  {i \in 1..(Len(leaves) - 2) :
     leaves[i + 2] = leaf /\ \A j \in 1..(i - 1) : leaves[j + 2] # leaf}

FirstPosition(leaves, leaf) ==
  {i \in DOMAIN leaves : leaves[i] = leaf /\ \A j \in 1..(i - 1) : leaves[j] # leaf}

\* solidity_sig: 0/1 become 27/28.  Any other byte panics (see Assemble).
SoliditySig_Unchanged(signature) == signature

SoliditySig(signature) == [signature EXCEPT !.v = "evm"]

\* pubkey_to_session_address
SessionAddress(p) == [address_of |-> p]

\* assemble_registration_proof, once both leaves are found, at these positions:
\* a RegistrationProof, which its VerifyResponse repeats in part.
RegistrationProof(p, user, loginAt, idAt) ==
  [session_address  |-> SessionAddress(claim.pubkey),
   handle           |-> user.username,
   user_id          |-> user.id,
   domain           |-> p.domain,
   endpoint         |-> p.endpoint,
   registry_address |-> VerifierContract,
   tls_proof |->
     [notarySignature |-> SoliditySig(p.notary_signature),
      walletAddress   |-> claim.wallet,
      handshake       |-> p.handshake,
      transcriptRoot  |-> p.transcript_root,
      timestamp       |-> p.timestamp,
      domainPath      |-> MerkleProof(p.leaves, 1),
      endpointPath    |-> MerkleProof(p.leaves, 2),
      usernamePath    |-> MerkleProof(p.leaves, loginAt),
      idPath          |-> MerkleProof(p.leaves, idAt)]]

VerifyResponse(p, user, registration) ==
  [user               |-> user,
   eth_address        |-> SessionAddress(claim.pubkey),
   timestamp          |-> p.timestamp,
   registration_proof |-> registration]

-----------------------------------------------------------------------------
\* The run.

Outcome(result, error, proof) == [result |-> result, error |-> error, proof |-> proof]

Failed(error) == Outcome("failed", error, Absent)
Panicked      == Outcome("panicked", Absent, Absent)
Running       == Outcome("running", Absent, Absent)
Done(p)       == Outcome("complete", Absent, p)

Init ==
  /\ claim \in [account : Account, pubkey : Pubkey, wallet : Wallet]
  /\ phase = "derive"
  /\ clock = 0
  /\ session = Absent
  /\ response = Absent
  /\ outcome = Running

\* An error at this operation ends the run.
Fail(error) ==
  /\ phase' = "over"
  /\ outcome' = Failed(error)
  /\ UNCHANGED <<claim, clock, session, response>>

Proceed(next) == phase' = next /\ UNCHANGED <<claim, clock, outcome>>

\* pubkey_to_session_address, before any connection is used.
DeriveSession_Unchecked ==
  phase = "derive" /\ Proceed("prove") /\ UNCHANGED <<session, response>>

DeriveSession ==
  /\ phase = "derive"
  /\ \/ claim.pubkey \notin OnCurve /\ Fail("CryptoFailed")
     \/ /\ claim.pubkey \in OnCurve
        /\ Proceed("prove")
        /\ UNCHANGED <<session, response>>

\* libid_tlsn::prover: a session with the account's answer, however that is
\* spelled, or with one that is no account.
Prove ==
  /\ phase = "prove"
  /\ \/ Fail("Tlsn")
     \/ /\ \E hs \in Handshake, body \in {claim.account, Absent} :
          \E snippet \in FindSnippet(body) :
             session' = [handshake |-> hs, body |-> body, snippet |-> snippet,
                         request |-> RequestLine]
        /\ Proceed("exchange")
        /\ UNCHANGED response

\* write_msg, and read_msg of what the notary sends.
Exchange ==
  /\ phase = "exchange"
  /\ \/ Fail("Transcript")
     \/ /\ response' \in Responses
        /\ Proceed("verify")
        /\ UNCHANGED session

Verify ==
  /\ phase = "verify"
  /\ \E recovered \in Recovered(response.evm_proof.notary_signature,
                                ExpectedDigest(response.evm_proof)) :
       \/ \E error \in FirstObjection(response, recovered) : Fail(error)
       \/ /\ Verified(response, recovered)
          /\ Proceed("present")
          /\ UNCHANGED <<session, response>>

\* build_presentation: the library may refuse.
BuildPresentation ==
  /\ phase = "present"
  /\ \/ Fail("PresentationBuildFailed")
     \/ Proceed("assemble") /\ UNCHANGED <<session, response>>

\* The id leaf is looked for only here: verify does not ask for one.
Assemble ==
  LET proof   == response.evm_proof
      user    == ExtractUser(session.body)
      LoginAt == FirstPosition(proof.leaves, Leaf("recv:", session.snippet))
      IdAt    == FirstPosition(proof.leaves, Leaf("recv:", IdSnippet(user.id)))
  IN
  /\ phase = "assemble"
  /\ \/ (LoginAt = {} \/ IdAt = {}) /\ outcome' = Failed("MissingMerkleLeaf")
     \/ \E i \in LoginAt, j \in IdAt :
          IF proof.notary_signature.v = "other" THEN outcome' = Panicked
          ELSE outcome' = Done(VerifyResponse(proof, user,
                                              RegistrationProof(proof, user, i, j)))
  /\ phase' = "over"
  /\ UNCHANGED <<claim, clock, session, response>>

Tick ==
  /\ clock < MaxTime
  /\ phase # "over"
  /\ clock' = clock + 1
  /\ UNCHANGED <<claim, phase, session, response, outcome>>

Next ==
  DeriveSession \/ Prove \/ Exchange \/ Verify \/ BuildPresentation \/ Assemble \/ Tick

Spec == Init /\ [][Next]_vars

-----------------------------------------------------------------------------
\* Properties.

\* Every variable has its type; a finished proof names the session by the address
\* of a point on the curve, and its signature has a recovery byte of the EVM's.
TypeOK ==
  /\ claim \in [account : Account, pubkey : Pubkey, wallet : Wallet]
  /\ phase \in {"derive", "prove", "exchange", "verify", "present", "assemble", "over"}
  /\ clock \in 0..MaxTime
  /\ session \in [handshake : Handshake, body : Account \cup {Absent},
                  snippet : {LoginSnippet(u.login) : u \in Account} \cup {Absent},
                  request : {RequestLine}] \cup {Absent}
  /\ response \in Responses \cup {Absent}
  /\ outcome.result \in {"running", "failed", "panicked", "complete"}
  /\ outcome.error \in ErrorKind \cup {Absent}
  /\ outcome.result = "complete" =>
       /\ outcome.proof.eth_address \in {SessionAddress(p) : p \in OnCurve}
       /\ outcome.proof.registration_proof.tls_proof.notarySignature.v = "evm"

Complete == outcome.result = "complete"

\* External: what the verifier contract, for its own chain and address, requires
\* of a registration proof (types.rs, FullTlsProof; tests/proof_flow.rs).
ContractAccepts(p) ==
  LET tls == p.tls_proof
      digest == NotaryDigest(ChainId, VerifierContract, ApiHost, tls.handshake,
                             tls.transcriptRoot, tls.timestamp)
  IN
  /\ tls.notarySignature.v = "evm"
  /\ tls.notarySignature.digest = digest
  /\ tls.notarySignature.signer = NotaryAddress
  /\ MerkleVerify(tls.domainPath, tls.transcriptRoot, Leaf("domain:", ApiHost))
  /\ MerkleVerify(tls.endpointPath, tls.transcriptRoot, Leaf("endpoint:", UserInfoEndpoint))
  /\ MerkleVerify(tls.usernamePath, tls.transcriptRoot, Leaf("recv:", LoginSnippet(p.handle)))
  /\ MerkleVerify(tls.idPath, tls.transcriptRoot, Leaf("recv:", RevealedId(p.user_id)))

\* A proof that is handed out is one the contract accepts: whatever the notary
\* sent, a claim fails here rather than as a revert on-chain (flow/mod.rs:10-19).
AcceptedOnChain == Complete => ContractAccepts(outcome.proof.registration_proof)

\* A proof that is handed out is of this run's own TLS session and account, for
\* this run's key and wallet, in the response's own fields and in the proof's: a
\* notary's response about any other session is refused.
ProofOfOwnSession ==
  LET registration == outcome.proof.registration_proof
      tls == registration.tls_proof IN
  Complete =>
    /\ registration.handle = claim.account.login
    /\ registration.user_id = claim.account.id
    /\ outcome.proof.user.username = claim.account.login
    /\ outcome.proof.user.id = claim.account.id
    /\ registration.session_address = SessionAddress(claim.pubkey)
    /\ outcome.proof.eth_address = SessionAddress(claim.pubkey)
    /\ tls.walletAddress = claim.wallet
    /\ tls.notarySignature.digest.handshake = session.handshake
    /\ tls.notarySignature.digest.timestamp = outcome.proof.timestamp

\* What the run knows once the response is verified, whatever the clock does
\* afterwards: the inductive invariant behind the two properties above.
ResponseChecked ==
  LET proof == response.evm_proof IN
  /\ session.body = claim.account
  /\ session.snippet = LoginSnippet(claim.account.login)
  /\ proof.handshake = session.handshake
  /\ proof.domain = ApiHost /\ proof.endpoint = UserInfoEndpoint
  /\ Len(proof.leaves) >= 3
  /\ proof.leaves[1] = Leaf("domain:", ApiHost)
  /\ proof.leaves[2] = Leaf("endpoint:", UserInfoEndpoint)
  /\ proof.transcript_root = Root(proof.leaves)
  /\ proof.notary_signature.signer = NotaryAddress
  /\ proof.notary_signature.digest = ExpectedDigest(proof)

FlowInv ==
  /\ TypeOK
  /\ phase \in {"prove", "exchange", "verify", "present", "assemble"} =>
       claim.pubkey \in OnCurve
  /\ phase \in {"exchange", "verify", "present", "assemble"} =>
       /\ session.handshake \in Handshake
       /\ session.body \in {claim.account, Absent}
       /\ session.snippet \in FindSnippet(session.body)
       /\ session.request = RequestLine
  /\ phase \in {"verify", "present", "assemble"} => response \in Responses
  /\ phase \in {"present", "assemble"} => ResponseChecked
  /\ phase # "over" => outcome = Running
  /\ AcceptedOnChain
  /\ ProofOfOwnSession

\* What a working notary sends for this session, when it signs for a chain and
\* a contract.
HonestLeaves(user) == NotaryLeaves(ApiHost, UserInfoEndpoint, user.login, user.id)

HonestFor(r, chain, contract) ==
  LET proof == r.evm_proof IN
  /\ r.attested
  /\ proof.domain = ApiHost /\ proof.endpoint = UserInfoEndpoint
  /\ proof.handshake = session.handshake
  /\ proof.leaves = HonestLeaves(session.body)
  /\ proof.transcript_root = Root(proof.leaves)
  /\ proof.notary_signature.signer = NotaryAddress
  /\ proof.notary_signature.digest =
       NotaryDigest(chain, contract, proof.domain, proof.handshake,
                    proof.transcript_root, proof.timestamp)
  /\ proof.notary_signature.v # "other"

Honest(r) == HonestFor(r, ChainId, VerifierContract)

\* Within the drift, on either side of this server's clock.
InTime(timestamp) == timestamp - clock \in (1 - MaxDrift)..(MaxDrift - 1)

\* The checks refuse nothing they should let through: a working notary's response,
\* checked while its time is within the drift either way, fails neither the
\* verification nor the assembly.  That the login is found in the body, so that the
\* body is spelled as the notary reveals it, is GitHub's part.
HonestNotaryAccepted ==
  [][/\ phase \in {"verify", "assemble"}
     /\ session.snippet # Absent
     /\ Honest(response)
     /\ phase = "verify" => InTime(response.evm_proof.timestamp)
     => outcome'.result \notin {"failed", "panicked"}]_vars

\* A working notary that signs for another chain or another contract than this
\* server is set to (the value config.rs:63-72 warns about) is noticed here, and
\* reported as an error of the signature and of nothing else.  No proof is handed
\* out, so nothing is left to bind on-chain (see WrongContractShowsOnChain).
OtherDeploymentIsNamed ==
  [][/\ phase = "verify"
     /\ phase' # phase
     /\ session.snippet # Absent
     /\ InTime(response.evm_proof.timestamp)
     /\ LET signed == response.evm_proof.notary_signature.digest IN
          /\ <<signed.chain, signed.contract>> # <<ChainId, VerifierContract>>
          /\ HonestFor(response, signed.chain, signed.contract)
     => /\ outcome'.result = "failed"
        /\ outcome'.error \in {"NotarySignatureMismatch", "CryptoFailed"}]_vars

-----------------------------------------------------------------------------
\* What the documents say and the code does not do.

\* README.md:99 and config.rs:69-72: with VERIFIER_CONTRACT_ADDRESS set to another
\* contract than the one the notary signs for, "every bind reverts" on-chain, with a
\* notary-signature failure.  So the flow itself does not fail with one, and hands
\* out a proof to bind.
WrongContractShowsOnChain ==
  /\ response # Absent
  /\ session.snippet # Absent
  /\ LET signed == response.evm_proof.notary_signature.digest IN
       /\ signed.chain = ChainId /\ signed.contract # VerifierContract
       /\ HonestFor(response, signed.chain, signed.contract)
  => outcome.error # "NotarySignatureMismatch"
=============================================================================
