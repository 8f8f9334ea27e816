---------------------------- MODULE MCProofFlow ----------------------------
(***************************************************************************)
(* A small instance of ProofFlow for TLC: two accounts, one session, and a *)
(* notary that gets any combination of the parts of its response wrong.    *)
(***************************************************************************)
EXTENDS ProofFlow

MCAccount ==
  {[login |-> "alice", id |-> 42, name |-> "Alice A"],
   [login |-> "bob", id |-> 7, name |-> Absent]}

Handshakes(random, reply, key) ==
  [client_random : random, server_random : reply, server_ephemeral_key : key]

MCHandshake == Handshakes({"own"}, {"own"}, {"own"})

\* What the notary may report of the session: one field wrong at most.
ReportedHandshakes ==
  MCHandshake \cup Handshakes({"other"}, {"own"}, {"own"})
    \cup Handshakes({"own"}, {"other"}, {"own"}) \cup Handshakes({"own"}, {"own"}, {"other"})

DomainLeaf   == Leaf("domain:", ApiHost)
EndpointLeaf == Leaf("endpoint:", UserInfoEndpoint)
LoginLeaf(a) == Leaf("recv:", LoginSnippet(a.login))
IdLeaf(a)    == Leaf("recv:", RevealedId(a.id))

\* For each account: as they should be, the two recv leaves swapped, one leaf or
\* two missing, the first two swapped, a leaf twice, another domain.
LeafSeqs ==
  UNION {{<<DomainLeaf, EndpointLeaf, LoginLeaf(a), IdLeaf(a)>>,
          <<DomainLeaf, EndpointLeaf, IdLeaf(a), LoginLeaf(a)>>,
          <<DomainLeaf, EndpointLeaf, LoginLeaf(a)>>,
          <<DomainLeaf, EndpointLeaf, IdLeaf(a)>>,
          <<DomainLeaf, EndpointLeaf>>,
          <<EndpointLeaf, DomainLeaf, LoginLeaf(a), IdLeaf(a)>>,
          <<DomainLeaf, EndpointLeaf, LoginLeaf(a), LoginLeaf(a), IdLeaf(a)>>,
          <<Leaf("domain:", "example.org"), EndpointLeaf, LoginLeaf(a), IdLeaf(a)>>} :
         a \in Account}

\* Signed over the fields of the proof or over another time, for this deployment
\* or for another chain or contract.
SignedFor ==
  {[chain |-> ChainId, contract |-> VerifierContract, late |-> 0],
   [chain |-> "other", contract |-> VerifierContract, late |-> 0],
   [chain |-> ChainId, contract |-> "other", late |-> 0],
   [chain |-> ChainId, contract |-> VerifierContract, late |-> 1]}

EvmProofs ==
  {LET root == IF committed THEN Root(leaves) ELSE Root(<<>>) IN
   [domain |-> d, endpoint |-> e, handshake |-> hs, leaves |-> leaves,
    transcript_root |-> root, timestamp |-> t,
    notary_signature |->
      [signer |-> s, v |-> v,
       digest |-> NotaryDigest(f.chain, f.contract, d, hs, root, t + f.late)]] :
   d \in {ApiHost, "example.org"}, e \in {UserInfoEndpoint, <<"/other">>},
   hs \in ReportedHandshakes, leaves \in LeafSeqs, committed \in BOOLEAN,
   t \in 0..MaxTime, s \in {NotaryAddress, "0x2"}, v \in VByte, f \in SignedFor}

MCResponses == [attested : BOOLEAN, evm_proof : EvmProofs]
=============================================================================
