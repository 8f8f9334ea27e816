---------------------------- MODULE MCClaimFlow ----------------------------
(***************************************************************************)
(* A small instance of ClaimFlow for TLC: a notary that gets at most one   *)
(* part of its response wrong.                                             *)
(***************************************************************************)
EXTENDS ClaimFlow, Transcript, TLC

MCUser ==
  {[login |-> "alice", id |-> 42, name |-> "Alice A"],
   [login |-> "bob", id |-> 7, name |-> Absent]}

HandshakeOf(random) ==
  [client_random |-> random, server_random |-> "own", server_ephemeral_key |-> "own"]

MCHandshake == {HandshakeOf("own")}

\* A response that is right for this account.
Right(u) ==
  LET leaves == NotaryLeaves(ApiHost, <<UserInfoPath>>, u.login, u.id) IN
  [domain |-> ApiHost, endpoint |-> <<UserInfoPath>>, handshake |-> HandshakeOf("own"),
   leaves |-> leaves, transcript_root |-> Root(leaves), timestamp |-> 0]

\* One part wrong: the session, the leaves (swapped, or no id), the time.
Parts(u) ==
  LET right == Right(u)
      WithLeaves(leaves) ==
        [right EXCEPT !.leaves = leaves, !.transcript_root = Root(leaves)]
      l == right.leaves
  IN {right, [right EXCEPT !.handshake = HandshakeOf("other")],
      [right EXCEPT !.timestamp = 1 + MaxDrift],
      WithLeaves(<<l[1], l[2], l[4], l[3]>>), WithLeaves(<<l[1], l[2], l[3]>>)}

Signed(parts, signer, contract, v) ==
  parts @@
    [notary_signature |->
      [signer |-> signer, v |-> v,
       digest |-> NotaryDigest(ChainId, contract, parts.domain, parts.handshake,
                                    parts.transcript_root, parts.timestamp)]]

MCResponses ==
  [attested : {TRUE}, evm_proof :
     UNION {{Signed(parts, NotaryAddress, VerifierContract, "raw") : parts \in Parts(u)}
            \cup {Signed(Right(u), Nobody, VerifierContract, "raw"),
                  Signed(Right(u), NotaryAddress, "other", "raw"),
                  Signed(Right(u), NotaryAddress, VerifierContract, "other")} : u \in User}]
=============================================================================
