--------------------------- MODULE MCAuctionClock ---------------------------
(***************************************************************************)
(* AuctionClock for TLC, with the instance of MCLendPool.                  *)
(***************************************************************************)
EXTENDS AuctionClock, MCLendPool

=============================================================================
