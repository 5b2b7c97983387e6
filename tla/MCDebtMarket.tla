---------------------------- MODULE MCDebtMarket ----------------------------
(***************************************************************************)
(* DebtMarket for TLC, with the instance of MCLendPool.                    *)
(***************************************************************************)
EXTENDS DebtMarket, MCLendPool

MCTerm(sell, start, end) ==
  [sellPrice |-> sell, startBiddingPrice |-> start, auctionEndTimestamp |-> end]

\* At a fixed price, or in an auction that ends at time 2.
MCTerms == {MCTerm(3, 0, 0), MCTerm(0, 3, 2)}

\* Mixed: sold at once for 5, or in an auction from 3 that ends at time 2.
MCMixedTerms == {MCTerm(5, 3, 2)}

\* For 9, which a holder of a lockey gets for 5, or in an auction from 3 that
\* ends at time 1.
MCShortTerms == {MCTerm(9, 3, 1)}

\* The market has no money at the start.
MCMarketWeth == [h \in Holder |-> IF h \in {LendPoolAddr, DebtMarketAddr} THEN 0 ELSE 8]

=============================================================================
