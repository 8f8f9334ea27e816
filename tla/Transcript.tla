----------------------------- MODULE Transcript -----------------------------
(***************************************************************************)
(* What the proving flow (src/flow/mod.rs) hashes and signs, without       *)
(* collisions: the leaves a notary commits to, the Merkle tree over them,  *)
(* and the digest it signs.  All external: the libid_crypto and libid_tlsn *)
(* libraries, as the flow uses them.                                       *)
(***************************************************************************)
EXTENDS Sequences

\* double_hash_leaf
Leaf(prefix, data) == [prefix |-> prefix, data |-> data]

\* build_merkle_tree: a root determines its leaves.
Root(leaves) == [tree |-> leaves]

\* merkle_proof, with positions from 1, and merkle_verify.
MerkleProof(leaves, i) == [tree |-> leaves, at |-> i]

MerkleVerify(path, root, leaf) ==
  /\ Root(path.tree) = root
  /\ path.at \in DOMAIN path.tree
  /\ path.tree[path.at] = leaf

\* compute_notary_digest
NotaryDigest(chain, contract, domain, handshake, root, timestamp) ==
  [chain |-> chain, contract |-> contract, domain |-> domain,
   handshake |-> handshake, root |-> root, timestamp |-> timestamp]

\* The raw text of a field as the body has it and the notary reveals it; a bare
\* number goes with the comma that ends it.
LoginSnippet(login) == <<"login", login>>

RevealedId(id) == <<"id", id, ",">>

\* The leaves of a working notary.
NotaryLeaves(domain, endpoint, login, id) ==
  <<Leaf("domain:", domain), Leaf("endpoint:", endpoint),
    Leaf("recv:", LoginSnippet(login)), Leaf("recv:", RevealedId(id))>>
=============================================================================
