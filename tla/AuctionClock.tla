---------------------------- MODULE AuctionClock ----------------------------
(***************************************************************************)
(* LendPool observed by a clock that stops while the pool is paused: for   *)
(* each loan the unpaused time since the first bid of its auction, and the *)
(* number of pauses that began since.  The observer reads the pool and     *)
(* never constrains it.                                                    *)
(***************************************************************************)
EXTENDS LendPool

VARIABLES
  openTime,  \* loan id -> unpaused time since its auction began
  pauses     \* loan id -> pauses begun since then: 0, 1 or 2 (several)

clockVars == <<poolVars, openTime, pauses>>

Auctioned(id) == loans[id].state = "Auction"

ClockInit ==
  /\ PoolInit
  /\ openTime = [id \in LoanIds |-> 0]
  /\ pauses = [id \in LoanIds |-> 0]

Observe ==
  /\ openTime' = [id \in LoanIds |->
       IF Auctioned(id) /\ Auctioned(id)'
       THEN openTime[id] + (IF paused THEN 0 ELSE now' - now) ELSE 0]
  /\ pauses' = [id \in LoanIds |->
       IF Auctioned(id) /\ Auctioned(id)'
       THEN IF ~paused /\ paused' /\ pauses[id] < 2 THEN pauses[id] + 1
                                                  ELSE pauses[id]
       ELSE 0]

ClockNext == PoolNext /\ Observe

ClockSpec == ClockInit /\ [][ClockNext]_clockVars

\* Bidders and borrower have the auction's full duration of unpaused time,
\* and no more.
FullDuration(id) ==
  ~paused => AuctionEnd(id) - now
               = nftConfig[loans[id].nft].auctionDuration - openTime[id]

\* A pause during an auction does not shorten it, and a pause that ended
\* before the first bid does not prolong it, as long as there is one pause per
\* auction: the pool keeps the start and length of the last one only.
OnePauseIsAdded == \A id \in Auctions : pauses[id] <= 1 => FullDuration(id)

\* "If pool paused after bidding start, add pool pausing time as extra auction
\* duration" (LiquidateLogic): whatever the number of pauses.
EveryPauseIsAdded == \A id \in Auctions : FullDuration(id)

=============================================================================
