--------------------------- MODULE MCLendPoolLoan ---------------------------
(***************************************************************************)
(* LendPoolLoan for TLC: two accounts, two NFTs of one collection, so that *)
(* one counter counts both, and enough loan ids to pledge an NFT again     *)
(* after its first loan has ended.                                         *)
(***************************************************************************)
EXTENDS LendPoolLoan, TLC

CONSTANTS alice, bob, nft1, nft2, apes

MCCollection == nft1 :> apes @@ nft2 :> apes

Symmetry == Permutations({alice, bob}) \cup Permutations({nft1, nft2})

=============================================================================
