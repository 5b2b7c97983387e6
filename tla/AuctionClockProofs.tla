------------------------- MODULE AuctionClockProofs -------------------------
(***************************************************************************)
(* Proof that one pause during an auction is added to it, for every set of *)
(* accounts, NFTs and configurations, any durations and any bound on the   *)
(* time.  The property speaks of states in which the pool is not paused;   *)
(* the invariant must also say how far the clock had come when the running *)
(* pause began, and that a pause no auction has seen ended before it.      *)
(***************************************************************************)
EXTENDS AuctionClock, LendPoolProofs

\* The clock of an auction that saw at most one pause, in terms of what the
\* pool remembers of its last pause.
AuctionTimed(id) ==
  LET start == loans[id].bidStartTimestamp IN
  /\ start <= now
  /\ paused => pauses[id] # 0
  /\ pauses[id] = 0 => /\ pauseStartTime + pauseDurationTime <= start
                       /\ openTime[id] = now - start
  /\ pauses[id] = 1 =>
       /\ start <= pauseStartTime
       /\ openTime[id] = IF paused THEN pauseStartTime - start
                                   ELSE now - start - pauseDurationTime

ClockInv ==
  /\ PoolInv
  /\ openTime \in [LoanIds -> Nat]
  /\ pauses \in [LoanIds -> 0 .. 2]
  /\ ~paused => pauseStartTime + pauseDurationTime <= now
  /\ \A id \in Auctions : AuctionTimed(id)

-----------------------------------------------------------------------------
(* The clock.                                                              *)

\* What the observer notes of one loan.
LEMMA Observed ==
  ASSUME Observe, NEW id \in LoanIds
  PROVE  /\ ~(Auctioned(id) /\ Auctioned(id)') => openTime'[id] = 0 /\ pauses'[id] = 0
         /\ Auctioned(id) /\ Auctioned(id)' =>
              /\ openTime'[id] = openTime[id] + (IF paused THEN 0 ELSE now' - now)
              /\ pauses'[id] = IF ~paused /\ paused' /\ pauses[id] < 2
                               THEN pauses[id] + 1 ELSE pauses[id]
BY DEF Observe

LEMMA ClockNextInv ==
  ASSUME ClockInv, [ClockNext]_clockVars
  PROVE  ClockInv'
<1>1. CASE UNCHANGED clockVars
  <2>1. UNCHANGED poolVars /\ UNCHANGED <<openTime, pauses>>
    BY <1>1 DEF clockVars
  <2>2. PoolInv' BY <2>1, PoolNextKeeps DEF ClockInv
  <2>3. UNCHANGED <<loans, now, paused, pauseStartTime, pauseDurationTime>>
    BY <2>1 DEF poolVars, loanVars, bookVars, marketVars, pauseVars
  <2> QED BY <2>1, <2>2, <2>3 DEF ClockInv, Auctions, AuctionTimed
<1>2. CASE ClockNext
  <2>1. PoolNext /\ Observe BY <1>2 DEF ClockNext
  <2>2. PoolInv' BY <2>1, PoolNextKeeps DEF ClockInv
  <2>3. /\ now \in Nat /\ now' \in Nat
        /\ pauseStartTime \in Nat /\ pauseStartTime' \in Nat
        /\ pauseDurationTime \in Nat /\ pauseDurationTime' \in Nat
        /\ paused \in BOOLEAN /\ paused' \in BOOLEAN
        /\ pauseStartTime <= now
    BY <2>2 DEF ClockInv, PoolInv, PoolTypeOK
  <2>4. \A id \in LoanIds : /\ openTime[id] \in Nat /\ pauses[id] \in 0 .. 2
                            /\ loans[id].bidStartTimestamp \in Nat
                            /\ loans'[id].bidStartTimestamp \in Nat
    BY <2>2 DEF ClockInv, PoolInv, LoanInv, LoanTypeOK, LoanData
  <2>5. \/ StartsKept /\ UNCHANGED <<now, pauseVars>>
        \/ UNCHANGED <<loans, pauseVars>> /\ now' = now + 1
        \/ UNCHANGED <<loans, now>> /\ \E val \in Switches : SetPause(val)
    BY <2>1, StepOfPool DEF ClockInv
  <2>6. (\E val \in Switches : SetPause(val)) =>
           \/ ~paused /\ paused' /\ pauseStartTime' = now
           \/ /\ paused /\ ~paused' /\ pauseStartTime' = pauseStartTime
              /\ pauseDurationTime' = now - pauseStartTime
    BY <2>3 DEF SetPause
  <2>7. now' >= now BY <2>3, <2>5
  <2>8. /\ openTime' \in [LoanIds -> Nat]
        /\ pauses' \in [LoanIds -> 0 .. 2]
    <3>1. \A id \in LoanIds : openTime'[id] \in Nat /\ pauses'[id] \in 0 .. 2
      <4> TAKE id \in LoanIds
      <4>1. CASE Auctioned(id) /\ Auctioned(id)'
        BY <4>1, <2>1, <2>3, <2>4, <2>7, Observed
      <4>2. CASE ~(Auctioned(id) /\ Auctioned(id)')
        BY <4>2, <2>1, Observed
      <4> QED BY <4>1, <4>2
    <3>2. DOMAIN openTime' = LoanIds /\ DOMAIN pauses' = LoanIds
          /\ openTime' = [id \in LoanIds |-> openTime'[id]]
          /\ pauses' = [id \in LoanIds |-> pauses'[id]]
      BY <2>1 DEF Observe
    <3> QED BY <3>1, <3>2
  <2>9. ~paused' => pauseStartTime' + pauseDurationTime' <= now'
    <3>1. CASE UNCHANGED <<now, pauseVars>>
      BY <3>1 DEF ClockInv, pauseVars
    <3>2. CASE UNCHANGED pauseVars /\ now' = now + 1
      <4>1. ~paused => pauseStartTime + pauseDurationTime <= now
        BY DEF ClockInv
      <4> QED BY <2>3, <3>2, <4>1 DEF pauseVars
    <3>3. CASE UNCHANGED now /\ \E val \in Switches : SetPause(val)
      <4>1. \/ paused'
            \/ /\ pauseStartTime' = pauseStartTime
               /\ pauseDurationTime' = now - pauseStartTime
        BY <2>6, <3>3
      <4>2. now' = now BY <3>3
      <4>3. now \in Nat /\ pauseStartTime \in Nat BY <2>3
      <4>4. CASE /\ pauseStartTime' = pauseStartTime
                 /\ pauseDurationTime' = now - pauseStartTime
        <5>1. pauseStartTime' + pauseDurationTime' = now BY <4>3, <4>4
        <5> QED BY <4>2, <4>3, <5>1
      <4> QED BY <4>1, <4>4
    <3> QED BY <2>5, <3>1, <3>2, <3>3
  <2>10. ASSUME NEW id \in LoanIds, Auctioned(id)'
        PROVE  AuctionTimed(id)'
    <3> DEFINE s == loans[id].bidStartTimestamp
               t == loans'[id].bidStartTimestamp
    <3>1. s \in Nat /\ t \in Nat /\ openTime[id] \in Nat /\ pauses[id] \in 0 .. 2
      BY <2>4
    <3>2. CASE Auctioned(id)
      <4>1. /\ s <= now
            /\ paused => pauses[id] # 0
            /\ pauses[id] = 0 => /\ pauseStartTime + pauseDurationTime <= s
                                 /\ openTime[id] = now - s
            /\ pauses[id] = 1 =>
                 /\ s <= pauseStartTime
                 /\ openTime[id] = IF paused THEN pauseStartTime - s
                                   ELSE now - s - pauseDurationTime
        BY <3>2 DEF ClockInv, AuctionTimed, Auctions, Auctioned
      <4>2. t = s
        BY <2>5, <2>10, <3>2 DEF StartsKept, StartKept, Auctioned
      <4>3. /\ openTime'[id] = openTime[id] + (IF paused THEN 0 ELSE now' - now)
            /\ pauses'[id] = IF ~paused /\ paused' /\ pauses[id] < 2
                             THEN pauses[id] + 1 ELSE pauses[id]
        BY <2>1, <2>10, <3>2, Observed
      <4> HIDE DEF s
      <4>4. /\ t <= now'
            /\ paused' => pauses'[id] # 0
            /\ pauses'[id] = 0 => /\ pauseStartTime' + pauseDurationTime' <= t
                                  /\ openTime'[id] = now' - t
            /\ pauses'[id] = 1 =>
                 /\ t <= pauseStartTime'
                 /\ openTime'[id] = IF paused' THEN pauseStartTime' - t
                                    ELSE now' - t - pauseDurationTime'
        <5>1. CASE UNCHANGED <<now, pauseVars>>
          BY <5>1, <2>3, <3>1, <4>1, <4>2, <4>3 DEF pauseVars
        <5>2. CASE UNCHANGED pauseVars /\ now' = now + 1
          BY <5>2, <2>3, <3>1, <4>1, <4>2, <4>3 DEF pauseVars
        <5>3. CASE now' = now /\ \E val \in Switches : SetPause(val)
          <6>1. now' = now BY <5>3
          <6>2. CASE ~paused /\ paused' /\ pauseStartTime' = now
            <7>1. /\ pauses[id] = 0 => pauses'[id] = 1
                  /\ pauses[id] # 0 => pauses'[id] = 2
                  /\ openTime'[id] = openTime[id]
              BY <6>1, <6>2, <2>3, <3>1, <4>3
            <7>2. t <= now' /\ pauses'[id] # 0
              BY <6>1, <7>1, <3>1, <4>1, <4>2
            <7>3. ASSUME pauses'[id] = 1 PROVE pauses[id] = 0
              BY <7>1, <7>3
            <7>4. ASSUME pauses'[id] = 1
                  PROVE  t <= pauseStartTime' /\ openTime'[id] = pauseStartTime' - t
              BY <6>1, <6>2, <7>1, <7>3, <7>4, <4>1, <4>2
            <7> QED BY <6>2, <7>2, <7>4
          <6>3. CASE /\ paused /\ ~paused' /\ pauseStartTime' = pauseStartTime
                     /\ pauseDurationTime' = now - pauseStartTime
            BY <6>1, <6>3, <2>3, <3>1, <4>1, <4>2, <4>3
          <6> QED BY <5>3, <6>2, <6>3, <2>6
        <5> QED BY <2>5, <5>1, <5>2, <5>3
      <4> QED BY <4>4 DEF AuctionTimed
    <3>3. CASE ~Auctioned(id)
      <4>1. StartsKept /\ UNCHANGED <<now, pauseVars>>
        BY <2>5, <2>10, <3>3 DEF Auctioned
      <4>2. t = now /\ ~paused
        BY <4>1, <2>10, <3>3 DEF StartsKept, StartKept, Auctioned
      <4>3. openTime'[id] = 0 /\ pauses'[id] = 0
        BY <2>1, <3>3, Observed
      <4>4. pauseStartTime + pauseDurationTime <= now BY <4>2 DEF ClockInv
      <4> QED BY <2>3, <4>1, <4>2, <4>3, <4>4 DEF AuctionTimed, pauseVars
    <3> QED BY <3>2, <3>3
  <2> QED BY <2>2, <2>8, <2>9, <2>10 DEF ClockInv, Auctions, Auctioned
<1> QED BY <1>1, <1>2

LEMMA ClockInitInv == ClockInit => ClockInv
<1> SUFFICES ASSUME ClockInit PROVE ClockInv OBVIOUS
<1>1. PoolInv BY PoolInitInv DEF ClockInit
<1>2. openTime \in [LoanIds -> Nat] /\ pauses \in [LoanIds -> 0 .. 2]
  BY DEF ClockInit
<1>3. pauseStartTime + pauseDurationTime <= now
  BY DEF ClockInit, PoolInit
<1>4. Auctions = {}
  BY DEF ClockInit, PoolInit, LoanInit, NoLoan, Auctions
<1> QED BY <1>1, <1>2, <1>3, <1>4 DEF ClockInv

\* The clock's invariant holds in every reachable state.
THEOREM ClockInvariant == ClockSpec => []ClockInv
BY ClockInitInv, ClockNextInv, PTL DEF ClockSpec

\* A pause during an auction neither shortens nor prolongs the unpaused time
\* bidders and borrower have, and an earlier pause is not counted, as long as
\* there is one pause per auction: for every duration and every length of the
\* pause, also when bid and pause share a timestamp.
THEOREM OnePauseAdded == ClockSpec => []OnePauseIsAdded
<1>1. ASSUME ClockInv PROVE OnePauseIsAdded
  <2> SUFFICES ASSUME NEW id \in Auctions, pauses[id] <= 1, ~paused
               PROVE  AuctionEnd(id) - now
                        = nftConfig[loans[id].nft].auctionDuration - openTime[id]
    BY DEF OnePauseIsAdded, FullDuration
  <2> DEFINE s == loans[id].bidStartTimestamp
             d == nftConfig[loans[id].nft].auctionDuration
  <2>1. id \in LoanIds /\ loans[id].nft \in NFT
    BY <1>1 DEF ClockInv, PoolInv, LoanInv, OneOpenLoanPerNFT, Auctions, Live,
                LiveStates
  <2>2. /\ s \in Nat /\ openTime[id] \in Nat /\ pauses[id] \in 0 .. 2
        /\ now \in Nat /\ pauseStartTime \in Nat /\ pauseDurationTime \in Nat
    BY <1>1, <2>1 DEF ClockInv, PoolInv, PoolTypeOK, LoanTypeOK, LoanData
  <2>3. d \in Nat
    BY <1>1, <2>1 DEF ClockInv, PoolInv, PoolTypeOK, NftConfig
  <2>4. AuctionTimed(id) BY <1>1 DEF ClockInv
  <2>5. AuctionEnd(id) = s + (IF pauseDurationTime > 0 /\ s <= pauseStartTime
                              THEN pauseDurationTime ELSE 0) + d
    BY DEF AuctionEnd, ExtraDuration
  <2>6. pauses[id] = 0 \/ pauses[id] = 1 BY <2>2
  <2>7. /\ pauses[id] = 0 => /\ pauseStartTime + pauseDurationTime <= s
                             /\ openTime[id] = now - s
        /\ pauses[id] = 1 => /\ s <= pauseStartTime
                             /\ openTime[id] = now - s - pauseDurationTime
    BY <2>4 DEF AuctionTimed
  <2> HIDE DEF s, d
  <2>8. AuctionEnd(id) - now = d - openTime[id]
    BY <2>2, <2>3, <2>5, <2>6, <2>7
  <2> QED BY <2>8 DEF d
<1> QED BY <1>1, ClockInvariant, PTL

=============================================================================
