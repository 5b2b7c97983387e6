----------------------------- MODULE MCLendPool -----------------------------
(***************************************************************************)
(* LendPool for TLC.  Units are small: a ray is 2, a wad and 100% are 10.  *)
(* A price of 10 lets an account borrow 4 (ltv 40%) and tolerates a debt   *)
(* of 6; a fall to 5, or interest, makes the loan one to auction.          *)
(***************************************************************************)
EXTENDS LendPool, TLC

CONSTANTS alice, bob, nft1, nft2, apes

MCCollection == [n \in NFT |-> apes]

\* 40% loan to value, 60% liquidation threshold, auctions of one time unit.
MCConfig == [NoConfig EXCEPT
  !.ltv = 4, !.liquidationThreshold = 6, !.redeemFine = 2, !.minBidFine = 1,
  !.redeemDuration = 1, !.auctionDuration = 1]

\* ... or of two.
MCConfigs == {MCConfig, [MCConfig EXCEPT !.redeemDuration = 2, !.auctionDuration = 2]}

\* The NFT is configured and priced, or it is not yet.
MCReady == [n \in NFT |-> [MCConfig EXCEPT !.active = TRUE, !.configTimestamp = 1]]
MCPriced == [n \in NFT |-> 10]
MCUnready == [n \in NFT |-> NoConfig]
MCUnpriced == [n \in NFT |-> 0]

\* Everyone has enough for a few bids; the uToken can lend once or twice.
MCWeth == [h \in Holder |-> IF h = LendPoolAddr THEN 0 ELSE 8]

Symmetry == Permutations({nft1, nft2})

=============================================================================
