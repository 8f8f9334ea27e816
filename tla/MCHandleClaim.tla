--------------------------- MODULE MCHandleClaim ---------------------------
(***************************************************************************)
(* Small instances of HandleClaim for TLC.                                 *)
(***************************************************************************)
EXTENDS HandleClaim, TLC

\* Ids, keys, wallets and accounts are only ever compared for equality.  Used
\* by the runs whose constants make the members of each set alike.
Alike ==
  Permutations(Challenge) \cup Permutations(Callback) \cup Permutations(Pubkey)
    \cup Permutations(Wallet) \cup Permutations(User)

AlikeIds == Permutations(Challenge) \cup Permutations(Callback)
=============================================================================
