-------------------------- MODULE ProofFlowProofs --------------------------
(***************************************************************************)
(* Theorems about ProofFlow, for any accounts, sessions and responses, any *)
(* drift and any context.                                                  *)
(***************************************************************************)
EXTENDS ProofFlow, SequenceTheorems, TLAPS

\* The run starts with nothing handed out.
LEMMA InitFlowInv == Init => FlowInv
BY FlowAssumption
   DEF Init, FlowInv, TypeOK, Running, Outcome, AcceptedOnChain, ProofOfOwnSession, Complete

\* A signature that recovers to the notary was made by the notary over exactly
\* the digest that was expected.
LEMMA RecoveredNotary ==
  ASSUME NEW signature, NEW digest, NotaryAddress \in Recovered(signature, digest)
  PROVE  signature.signer = NotaryAddress /\ signature.digest = digest
BY FlowAssumption DEF Recovered

\* The path to a position of a leaf verifies against the root of the leaves.
LEMMA PathVerifies ==
  ASSUME NEW leaves, NEW i \in DOMAIN leaves
  PROVE  MerkleVerify(MerkleProof(leaves, i), Root(leaves), leaves[i])
BY DEF MerkleVerify, MerkleProof

\* The endpoint of the request line is the configured path.
LEMMA EndpointOfRequest == EndpointOf(RequestLine) = UserInfoEndpoint
<1>1. /\ Len(RequestLine) = 3
      /\ RequestLine[2] = UserInfoPath
      /\ EndpointOf(RequestLine) = SubSeq(RequestLine, 2, 2)
  BY DEF EndpointOf, RequestLine
<1>2. /\ Len(SubSeq(RequestLine, 2, 2)) = 1
      /\ SubSeq(RequestLine, 2, 2) \in Seq({UserInfoPath})
      /\ SubSeq(RequestLine, 2, 2)[1] = UserInfoPath
  BY <1>1, SubSeqProperties
<1>3. /\ Len(<<UserInfoPath>>) = 1
      /\ <<UserInfoPath>> \in Seq({UserInfoPath})
      /\ <<UserInfoPath>>[1] = UserInfoPath
  OBVIOUS
<1>4. SubSeq(RequestLine, 2, 2) = <<UserInfoPath>>
  <2>. DEFINE e == SubSeq(RequestLine, 2, 2)
              l == <<UserInfoPath>>
  <2>1. /\ Len(e) = Len(l)
        /\ e \in Seq({UserInfoPath}) /\ l \in Seq({UserInfoPath})
        /\ \A i \in 1..Len(e) : e[i] = l[i]
    BY <1>2, <1>3
  <2>. HIDE DEF e, l
  <2>2. e = l
    BY <2>1, SeqEqual
  <2>. QED  BY <2>2 DEF e, l
<1>. QED  BY <1>1, <1>4 DEF UserInfoEndpoint

\* What is let through has met none of the objections.
LEMMA VerifiedChecks ==
  ASSUME NEW r, NEW recovered, Verified(r, recovered)
  PROVE  LET proof == r.evm_proof
             endpoint == EndpointOf(session.request) IN
         /\ session.body # Absent /\ session.snippet # Absent
         /\ VerifyTlsHandshake(session.handshake, proof.handshake)
         /\ proof.domain = ApiHost
         /\ proof.endpoint = endpoint
         /\ ~(Len(proof.leaves) < 3)
         /\ Len(proof.leaves) >= 3 =>
              /\ proof.leaves[1] = Leaf("domain:", proof.domain)
              /\ proof.leaves[2] = Leaf("endpoint:", endpoint)
         /\ Root(proof.leaves) = proof.transcript_root
         /\ recovered = NotaryAddress
<1>1. /\ ~Objection("ApiParse", r, recovered)
      /\ ~Objection("TlsHandshakeMismatch", r, recovered)
      /\ ~Objection("DomainMismatch", r, recovered)
      /\ ~Objection("EndpointMismatch", r, recovered)
      /\ ~Objection("TooFewMerkleLeaves", r, recovered)
      /\ ~Objection("MerkleLeafMismatch", r, recovered)
      /\ ~Objection("TranscriptRootMismatch", r, recovered)
      /\ ~Objection("NotarySignatureMismatch", r, recovered)
      /\ ~Objection("MpcTlsFailed", r, recovered)
  BY DEF Verified, ErrorKind
<1>. QED  BY <1>1 DEF Objection, IsNotary

\* What verify lets through has been checked.
LEMMA VerifiedIsChecked ==
  ASSUME FlowInv, phase = "verify",
         NEW recovered \in Recovered(response.evm_proof.notary_signature,
                                     ExpectedDigest(response.evm_proof)),
         Verified(response, recovered)
  PROVE  ResponseChecked
<1>. DEFINE proof == response.evm_proof
<1>1. /\ response \in Responses
      /\ session.handshake \in Handshake
      /\ session.body \in {claim.account, Absent}
      /\ session.snippet \in FindSnippet(session.body)
      /\ session.request = RequestLine
  BY DEF FlowInv
<1>2. /\ session.body # Absent /\ session.snippet # Absent
      /\ VerifyTlsHandshake(session.handshake, proof.handshake)
      /\ proof.domain = ApiHost
      /\ proof.endpoint = UserInfoEndpoint
      /\ ~(Len(proof.leaves) < 3)
      /\ Len(proof.leaves) >= 3 =>
           /\ proof.leaves[1] = Leaf("domain:", proof.domain)
           /\ proof.leaves[2] = Leaf("endpoint:", UserInfoEndpoint)
      /\ Root(proof.leaves) = proof.transcript_root
      /\ recovered = NotaryAddress
  BY <1>1, VerifiedChecks, EndpointOfRequest
<1>3. proof.handshake = session.handshake
  BY <1>1, <1>2, ShapeAssumption DEF VerifyTlsHandshake
<1>4. /\ proof.notary_signature.signer = NotaryAddress
      /\ proof.notary_signature.digest = ExpectedDigest(proof)
  BY <1>2, RecoveredNotary
<1>5. Len(proof.leaves) \in Nat
  BY <1>1, ShapeAssumption
<1>6. session.snippet = LoginSnippet(claim.account.login)
  BY <1>1, <1>2 DEF FindSnippet
<1>. QED  BY <1>1, <1>2, <1>3, <1>4, <1>5, <1>6 DEF ResponseChecked

\* What is assembled from a checked response is a proof of this session that
\* the contract accepts.
LEMMA AssembledIsAccepted ==
  ASSUME FlowInv, phase = "assemble",
         NEW i \in FirstPosition(response.evm_proof.leaves, Leaf("recv:", session.snippet)),
         NEW j \in FirstPosition(response.evm_proof.leaves,
                                 Leaf("recv:", IdSnippet(ExtractUser(session.body).id))),
         UNCHANGED <<claim, session>>,
         outcome' = Done(VerifyResponse(response.evm_proof, ExtractUser(session.body),
                           RegistrationProof(response.evm_proof,
                                             ExtractUser(session.body), i, j)))
  PROVE  AcceptedOnChain' /\ ProofOfOwnSession'
<1>. DEFINE proof == response.evm_proof
            user  == ExtractUser(session.body)
            p     == RegistrationProof(proof, user, i, j)
            full  == VerifyResponse(proof, user, p)
<1>1. /\ response \in Responses
      /\ ResponseChecked
  BY DEF FlowInv
<1>2. /\ i \in DOMAIN proof.leaves /\ j \in DOMAIN proof.leaves
      /\ proof.leaves[i] = Leaf("recv:", LoginSnippet(session.body.login))
      /\ proof.leaves[j] = Leaf("recv:", IdSnippet(session.body.id))
      /\ user.username = session.body.login /\ user.id = session.body.id
  BY <1>1 DEF FirstPosition, ExtractUser, ResponseChecked
<1>3. 1 \in DOMAIN proof.leaves /\ 2 \in DOMAIN proof.leaves
  BY <1>1, ShapeAssumption DEF ResponseChecked
<1>4. /\ full.user = user
      /\ full.eth_address = SessionAddress(claim.pubkey)
      /\ full.timestamp = proof.timestamp
      /\ full.registration_proof = p
      /\ p.handle = user.username /\ p.user_id = user.id
      /\ p.session_address = SessionAddress(claim.pubkey)
      /\ p.tls_proof.walletAddress = claim.wallet
      /\ p.tls_proof.handshake = proof.handshake
      /\ p.tls_proof.transcriptRoot = proof.transcript_root
      /\ p.tls_proof.timestamp = proof.timestamp
      /\ p.tls_proof.notarySignature = SoliditySig(proof.notary_signature)
      /\ p.tls_proof.domainPath = MerkleProof(proof.leaves, 1)
      /\ p.tls_proof.endpointPath = MerkleProof(proof.leaves, 2)
      /\ p.tls_proof.usernamePath = MerkleProof(proof.leaves, i)
      /\ p.tls_proof.idPath = MerkleProof(proof.leaves, j)
  BY DEF RegistrationProof, VerifyResponse
<1>. HIDE DEF p, full, user
<1>5. /\ p.tls_proof.notarySignature.v = "evm"
      /\ p.tls_proof.notarySignature.signer = NotaryAddress
      /\ p.tls_proof.notarySignature.digest = ExpectedDigest(proof)
  BY <1>1, <1>4, ShapeAssumption DEF SoliditySig, ResponseChecked
<1>6. ContractAccepts(p)
  <2>1. /\ LoginSnippet(p.handle) = LoginSnippet(session.body.login)
        /\ RevealedId(p.user_id) = IdSnippet(session.body.id)
    BY <1>2, <1>4 DEF RevealedId, IdSnippet
  <2>2. /\ MerkleVerify(p.tls_proof.domainPath, proof.transcript_root,
                        Leaf("domain:", ApiHost))
        /\ MerkleVerify(p.tls_proof.endpointPath, proof.transcript_root,
                        Leaf("endpoint:", UserInfoEndpoint))
        /\ MerkleVerify(p.tls_proof.usernamePath, proof.transcript_root,
                        Leaf("recv:", LoginSnippet(session.body.login)))
        /\ MerkleVerify(p.tls_proof.idPath, proof.transcript_root,
                        Leaf("recv:", IdSnippet(session.body.id)))
    BY <1>1, <1>2, <1>3, <1>4, PathVerifies DEF ResponseChecked
  <2>3. ExpectedDigest(proof) =
          NotaryDigest(ChainId, VerifierContract, ApiHost, p.tls_proof.handshake,
                       p.tls_proof.transcriptRoot, p.tls_proof.timestamp)
    BY <1>1, <1>4 DEF ExpectedDigest, ResponseChecked
  <2>. QED  BY <1>4, <1>5, <2>1, <2>2, <2>3 DEF ContractAccepts
<1>7. outcome'.proof = full /\ outcome'.result = "complete"
  BY DEF Done, Outcome, p, full, user
<1>8. /\ p.tls_proof.notarySignature.digest.handshake = session.handshake
      /\ p.tls_proof.notarySignature.digest.timestamp = proof.timestamp
  BY <1>1, <1>5 DEF ExpectedDigest, NotaryDigest, ResponseChecked
<1>. QED  BY <1>1, <1>2, <1>4, <1>6, <1>7, <1>8
          DEF AcceptedOnChain, ProofOfOwnSession, ResponseChecked

\* Every operation of the run preserves the invariant.
LEMMA NextFlowInv == FlowInv /\ [Next]_vars => FlowInv'
<1>. SUFFICES ASSUME FlowInv, [Next]_vars PROVE FlowInv'
  OBVIOUS
<1>. USE DEF FlowInv
<1>. USE DEF Outcome
<1>1. ASSUME NEW error \in ErrorKind, Fail(error) PROVE FlowInv'
  BY <1>1 DEF Fail, TypeOK, Failed, AcceptedOnChain, ProofOfOwnSession, Complete
<1>2. CASE DeriveSession
  BY <1>1, <1>2 DEF DeriveSession, ErrorKind, Proceed, TypeOK, Running, AcceptedOnChain,
     ProofOfOwnSession, Complete
<1>3. CASE Prove
  <2>1. CASE Fail("Tlsn")
    BY <1>1, <2>1 DEF ErrorKind
  <2>2. ASSUME NEW hs \in Handshake, NEW body \in {claim.account, Absent},
               NEW snippet \in FindSnippet(body),
               session' = [handshake |-> hs, body |-> body, snippet |-> snippet,
                           request |-> RequestLine],
               Proceed("exchange"), response' = response
        PROVE  FlowInv'
    <3>1. body \in Account \cup {Absent} /\ claim \in [account : Account, pubkey : Pubkey, wallet : Wallet]
      BY DEF TypeOK
    <3>2. snippet \in {LoginSnippet(u.login) : u \in Account} \cup {Absent}
      BY <3>1 DEF FindSnippet
    <3>. QED  BY <1>3, <2>2, <3>1, <3>2 DEF Prove, Proceed, TypeOK, Running, AcceptedOnChain,
              ProofOfOwnSession, Complete
  <2>. QED  BY <1>3, <2>1, <2>2 DEF Prove
<1>4. CASE Exchange
  BY <1>1, <1>4 DEF Exchange, ErrorKind, Proceed, TypeOK, Running, AcceptedOnChain,
     ProofOfOwnSession, Complete
<1>5. CASE Verify
  <2>1. PICK recovered \in Recovered(response.evm_proof.notary_signature,
                                     ExpectedDigest(response.evm_proof)) :
          \/ \E error \in FirstObjection(response, recovered) : Fail(error)
          \/ /\ Verified(response, recovered)
             /\ Proceed("present")
             /\ UNCHANGED <<session, response>>
    BY <1>5 DEF Verify
  <2>2. CASE \E error \in FirstObjection(response, recovered) : Fail(error)
    <3>1. \A i \in DOMAIN CheckOrder : CheckOrder[i] \in ErrorKind
      BY DEF CheckOrder, ErrorKind
    <3>. QED  BY <1>1, <2>2, <3>1 DEF FirstObjection
  <2>3. CASE Verified(response, recovered) /\ Proceed("present")
             /\ UNCHANGED <<session, response>>
    <3>1. ResponseChecked'
      BY <1>5, <2>3, VerifiedIsChecked DEF Verify, Proceed, ResponseChecked, ExpectedDigest
    <3>. QED  BY <1>5, <2>3, <3>1 DEF Verify, Proceed, TypeOK, Running, AcceptedOnChain,
              ProofOfOwnSession, Complete
  <2>. QED  BY <2>1, <2>2, <2>3
<1>6. CASE BuildPresentation
  BY <1>1, <1>6 DEF BuildPresentation, ErrorKind, Proceed, TypeOK, Running, AcceptedOnChain,
     ProofOfOwnSession, Complete, ResponseChecked, ExpectedDigest
<1>7. CASE Assemble
  <2>1. /\ phase = "assemble" /\ phase' = "over"
        /\ UNCHANGED <<claim, clock, session, response>>
    BY <1>7 DEF Assemble
  <2>2. CASE outcome' \in {Failed("MissingMerkleLeaf"), Panicked}
    BY <2>1, <2>2 DEF ErrorKind, TypeOK, Failed, Panicked, AcceptedOnChain, ProofOfOwnSession, Complete
  <2>3. ASSUME NEW i \in FirstPosition(response.evm_proof.leaves,
                                       Leaf("recv:", session.snippet)),
               NEW j \in FirstPosition(response.evm_proof.leaves,
                                       Leaf("recv:", IdSnippet(ExtractUser(session.body).id))),
               outcome' = Done(VerifyResponse(response.evm_proof, ExtractUser(session.body),
                                 RegistrationProof(response.evm_proof,
                                                   ExtractUser(session.body), i, j)))
        PROVE  FlowInv'
    <3>1. AcceptedOnChain' /\ ProofOfOwnSession'
      BY <2>1, <2>3, AssembledIsAccepted
    <3>2. outcome'.result = "complete" =>
            /\ outcome'.proof.eth_address \in {SessionAddress(p) : p \in OnCurve}
            /\ outcome'.proof.registration_proof.tls_proof.notarySignature.v = "evm"
      BY <2>1, <3>1 DEF AcceptedOnChain, ProofOfOwnSession, Complete, ContractAccepts
    <3>. QED  BY <2>1, <2>3, <3>1, <3>2 DEF TypeOK, Done
  <2>. QED  BY <1>7, <2>2, <2>3 DEF Assemble
<1>8. CASE Tick
  BY <1>8, FlowAssumption DEF Tick, TypeOK, Running, AcceptedOnChain, ProofOfOwnSession,
     Complete, ResponseChecked, ExpectedDigest
<1>9. CASE UNCHANGED vars
  BY <1>9 DEF vars, TypeOK, AcceptedOnChain, ProofOfOwnSession, Complete, ContractAccepts,
     ResponseChecked, ExpectedDigest
<1>. QED  BY <1>2, <1>3, <1>4, <1>5, <1>6, <1>7, <1>8, <1>9 DEF Next

\* The invariant holds in every reachable state.
THEOREM FlowInvariance == Spec => []FlowInv
<1>. QED  BY InitFlowInv, NextFlowInv, PTL DEF Spec

\* Every variable always has its type.
THEOREM FlowTypeCorrect == Spec => []TypeOK
<1>1. FlowInv => TypeOK
  BY DEF FlowInv
<1>. QED  BY <1>1, FlowInvariance, PTL

\* Whatever the notary sends, a proof that is handed out is one the verifier
\* contract accepts.
THEOREM ProofsAreAccepted == Spec => []AcceptedOnChain
<1>1. FlowInv => AcceptedOnChain
  BY DEF FlowInv
<1>. QED  BY <1>1, FlowInvariance, PTL

\* Whatever the notary sends, a proof that is handed out is of the run's own
\* session, account, key and wallet.
THEOREM ProofsAreOwn == Spec => []ProofOfOwnSession
<1>1. FlowInv => ProofOfOwnSession
  BY DEF FlowInv
<1>. QED  BY <1>1, FlowInvariance, PTL

-----------------------------------------------------------------------------
\* What a working notary sends is let through, unless it is signed for another
\* deployment.

\* The leaves of a working notary.
LEMMA HonestLeavesAre ==
  ASSUME NEW user
  PROVE  /\ Len(HonestLeaves(user)) = 4 /\ DOMAIN HonestLeaves(user) = 1..4
         /\ HonestLeaves(user)[1] = Leaf("domain:", ApiHost)
         /\ HonestLeaves(user)[2] = Leaf("endpoint:", UserInfoEndpoint)
         /\ HonestLeaves(user)[3] = Leaf("recv:", LoginSnippet(user.login))
         /\ HonestLeaves(user)[4] = Leaf("recv:", IdSnippet(user.id))
BY DEF HonestLeaves, NotaryLeaves, IdSnippet, RevealedId

\* Whatever chain and contract it signs for, the checks can object to nothing of a
\* timely response but its signature.
LEMMA HonestObjections ==
  ASSUME FlowInv, phase = "verify", session.snippet # Absent,
         NEW chain, NEW contract, HonestFor(response, chain, contract),
         InTime(response.evm_proof.timestamp),
         NEW recovered, NEW error, Objection(error, response, recovered)
  PROVE  \/ error = "CryptoFailed" /\ recovered = Absent
         \/ error = "NotarySignatureMismatch" /\ recovered # NotaryAddress
<1>. DEFINE proof == response.evm_proof
<1>0. /\ session.body = claim.account /\ session.body # Absent
      /\ session.snippet = LoginSnippet(session.body.login)
  BY DEF FlowInv, FindSnippet
<1>1. /\ session.request = RequestLine
      /\ response.attested
      /\ proof.domain = ApiHost /\ proof.endpoint = UserInfoEndpoint
      /\ proof.handshake = session.handshake
      /\ proof.leaves = HonestLeaves(session.body)
      /\ proof.transcript_root = Root(proof.leaves)
  BY DEF FlowInv, HonestFor
<1>2. /\ EndpointOf(session.request) = UserInfoEndpoint
      /\ EndpointOf(session.request) # Absent
  BY <1>1, EndpointOfRequest, EndpointAssumption
<1>3. VerifyTlsHandshake(session.handshake, proof.handshake)
  BY <1>1 DEF VerifyTlsHandshake
<1>4. /\ Len(proof.leaves) = 4
      /\ proof.leaves[1] = Leaf("domain:", proof.domain)
      /\ proof.leaves[2] = Leaf("endpoint:", EndpointOf(session.request))
      /\ proof.leaves[3] = Leaf("recv:", session.snippet)
  BY <1>0, <1>1, <1>2, HonestLeavesAre
<1>5. \E i \in 3..Len(proof.leaves) : proof.leaves[i] = Leaf("recv:", session.snippet)
  BY <1>4
<1>6. Fresh(proof.timestamp, clock)
  <2>1. response \in Responses /\ clock \in Nat
    BY FlowAssumption DEF FlowInv, TypeOK
  <2>2. proof.timestamp \in Nat
    BY <2>1, ShapeAssumption
  <2>. QED  BY <2>1, <2>2, FlowAssumption DEF InTime, Fresh
<1>. QED  BY <1>0, <1>1, <1>2, <1>3, <1>4, <1>5, <1>6 DEF Objection, IsNotary

\* A leaf that is there has a first position.
LEMMA HonestPositions ==
  ASSUME NEW user
  PROVE  /\ FirstPosition(HonestLeaves(user), Leaf("recv:", LoginSnippet(user.login))) # {}
         /\ FirstPosition(HonestLeaves(user), Leaf("recv:", IdSnippet(user.id))) # {}
<1>. DEFINE leaves == HonestLeaves(user)
<1>1. ASSUME NEW leaf, NEW i \in {3, 4}, leaves[i] = leaf,
             leaf.prefix = "recv:"
      PROVE  FirstPosition(leaves, leaf) # {}
  <2>1. leaves[1] # leaf /\ leaves[2] # leaf
    <3>1. /\ Leaf("domain:", ApiHost).prefix = "domain:"
          /\ Leaf("endpoint:", UserInfoEndpoint).prefix = "endpoint:"
      BY DEF Leaf
    <3>. QED  BY <1>1, <3>1, HonestLeavesAre
  <2>2. CASE leaves[3] = leaf
    <3>1. 3 \in FirstPosition(leaves, leaf)
      BY <2>1, <2>2, HonestLeavesAre DEF FirstPosition
    <3>. QED  BY <3>1
  <2>3. CASE leaves[3] # leaf
    <3>1. 4 \in FirstPosition(leaves, leaf)
      BY <1>1, <2>1, <2>3, HonestLeavesAre DEF FirstPosition
    <3>. QED  BY <3>1
  <2>. QED  BY <2>2, <2>3
<1>2. /\ Leaf("recv:", LoginSnippet(user.login)).prefix = "recv:"
      /\ Leaf("recv:", IdSnippet(user.id)).prefix = "recv:"
  BY DEF Leaf
<1>. QED  BY <1>1, <1>2, HonestLeavesAre

\* The checks refuse nothing they should let through: a working notary's response,
\* checked in time, fails neither the verification nor the assembly (verify,
\* verify_common_checks, assemble_registration_proof).
THEOREM HonestNotaryIsAccepted == Spec => HonestNotaryAccepted
<1>1. ASSUME FlowInv, [Next]_vars,
             phase \in {"verify", "assemble"},
             session.snippet # Absent,
             Honest(response),
             phase = "verify" => InTime(response.evm_proof.timestamp)
      PROVE  outcome'.result \notin {"failed", "panicked"}
  <2>. DEFINE proof == response.evm_proof
  <2>1. outcome.result = "running"
    BY <1>1 DEF FlowInv, Running, Outcome
  <2>2. CASE Verify
    <3>1. PICK recovered \in Recovered(proof.notary_signature, ExpectedDigest(proof)) :
            \/ \E error \in FirstObjection(response, recovered) : Fail(error)
            \/ Proceed("present")
      BY <2>2 DEF Verify
    <3>2. recovered = NotaryAddress /\ NotaryAddress # Absent
      BY <1>1, FlowAssumption DEF Honest, HonestFor, ExpectedDigest, Recovered
    <3>3. \A error : ~Objection(error, response, recovered)
      BY <1>1, <2>2, <3>2, HonestObjections DEF Verify, Honest
    <3>4. Proceed("present")
      BY <3>1, <3>3 DEF FirstObjection
    <3>. QED  BY <2>1, <3>4 DEF Proceed
  <2>3. CASE Assemble
    <3>0. session.snippet = LoginSnippet(session.body.login)
      BY <1>1, <2>3 DEF FlowInv, ResponseChecked, Assemble
    <3>1. /\ FirstPosition(proof.leaves, Leaf("recv:", session.snippet)) # {}
          /\ FirstPosition(proof.leaves, Leaf("recv:", IdSnippet(ExtractUser(session.body).id))) # {}
          /\ proof.notary_signature.v # "other"
      BY <1>1, <3>0, HonestPositions DEF Honest, HonestFor, ExtractUser
    <3>2. PICK p : outcome' = Done(p)
      BY <2>3, <3>1 DEF Assemble
    <3>. QED  BY <3>2 DEF Done, Outcome
  <2>4. CASE Tick \/ UNCHANGED vars
    BY <2>1, <2>4 DEF Tick, vars
  <2>. QED  BY <1>1, <2>2, <2>3, <2>4
            DEF Next, DeriveSession, Prove, Exchange, BuildPresentation
<1>. DEFINE Accepted ==
       /\ phase \in {"verify", "assemble"}
       /\ session.snippet # Absent
       /\ Honest(response)
       /\ phase = "verify" => InTime(response.evm_proof.timestamp)
       => outcome'.result \notin {"failed", "panicked"}
<1>2. FlowInv /\ [Next]_vars => [Accepted]_vars
  BY <1>1
<1>3. HonestNotaryAccepted <=> [][Accepted]_vars
  BY DEF HonestNotaryAccepted
<1>. HIDE DEF Accepted
<1>. QED  BY <1>2, <1>3, FlowInvariance, PTL DEF Spec

\* A working notary that signs for another chain or another contract is noticed
\* here, and reported as an error of the signature and of nothing else
\* (compute_notary_digest and the recovery in verify_common_checks).
THEOREM OtherDeploymentsAreNamed == Spec => OtherDeploymentIsNamed
<1>. DEFINE Elsewhere ==
       LET signed == response.evm_proof.notary_signature.digest IN
       /\ <<signed.chain, signed.contract>> # <<ChainId, VerifierContract>>
       /\ HonestFor(response, signed.chain, signed.contract)
<1>1. ASSUME FlowInv, [Next]_vars,
             phase = "verify", phase' # phase, session.snippet # Absent,
             InTime(response.evm_proof.timestamp), Elsewhere
      PROVE  /\ outcome'.result = "failed"
             /\ outcome'.error \in {"NotarySignatureMismatch", "CryptoFailed"}
  <2>. DEFINE proof  == response.evm_proof
              signed == proof.notary_signature.digest
  <2>1. Verify
    BY <1>1 DEF Next, DeriveSession, Prove, Exchange, BuildPresentation, Assemble, Tick, vars
  <2>2. PICK recovered \in Recovered(proof.notary_signature, ExpectedDigest(proof)) :
          \/ \E error \in FirstObjection(response, recovered) : Fail(error)
          \/ Verified(response, recovered)
    BY <2>1 DEF Verify
  <2>3. signed # ExpectedDigest(proof)
    <3>1. signed.chain # ChainId \/ signed.contract # VerifierContract
      BY <1>1
    <3>2. ExpectedDigest(proof).chain = ChainId /\ ExpectedDigest(proof).contract = VerifierContract
      BY DEF ExpectedDigest, NotaryDigest
    <3>. QED  BY <3>1, <3>2
  <2>4. recovered # NotaryAddress
    BY <2>3, FlowAssumption DEF Recovered
  <2>5. Objection("NotarySignatureMismatch", response, recovered)
    BY <2>4 DEF Objection, IsNotary
  <2>6. PICK error : error \in FirstObjection(response, recovered) /\ Fail(error)
    BY <2>2, <2>5 DEF Verified, ErrorKind
  <2>7. error \in {"NotarySignatureMismatch", "CryptoFailed"}
    <3>1. Objection(error, response, recovered)
      BY <2>6 DEF FirstObjection
    <3>. QED  BY <1>1, <3>1, HonestObjections
  <2>. QED  BY <2>6, <2>7 DEF Fail, Failed, Outcome
<1>. DEFINE Named ==
       /\ phase = "verify"
       /\ phase' # phase
       /\ session.snippet # Absent
       /\ InTime(response.evm_proof.timestamp)
       /\ Elsewhere
       => /\ outcome'.result = "failed"
          /\ outcome'.error \in {"NotarySignatureMismatch", "CryptoFailed"}
<1>2. FlowInv /\ [Next]_vars => [Named]_vars
  BY <1>1
<1>3. OtherDeploymentIsNamed <=> [][Named]_vars
  BY DEF OtherDeploymentIsNamed
<1>. HIDE DEF Named
<1>. QED  BY <1>2, <1>3, FlowInvariance, PTL DEF Spec
=============================================================================
