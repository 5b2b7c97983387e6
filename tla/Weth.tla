-------------------------------- MODULE Weth --------------------------------
(***************************************************************************)
(* The reserve token as the protocol uses it (contracts/mock/WETH9.sol).   *)
(* A transaction makes a sequence of transfers, each of which needs the    *)
(* balance left by the ones before it; if one fails they all revert.       *)
(* Approvals to the protocol's contracts are taken as given.               *)
(***************************************************************************)
EXTENDS Integers, Sequences

CONSTANT Holder  \* the addresses that hold the token

VARIABLE weth    \* balanceOf

Transfer(from, to, amount) == [from |-> from, to |-> to, amount |-> amount]

\* No transfer at all when the amount is 0 (the callers test it).
TransferAny(from, to, amount) ==
  IF amount = 0 THEN <<>> ELSE <<Transfer(from, to, amount)>>

Moved(balance, t) ==
  [[balance EXCEPT ![t.from] = @ - t.amount] EXCEPT ![t.to] = @ + t.amount]

\* The balances after the first k transfers.
BalancesAfter(transfers) ==
  LET after[k \in 0 .. Len(transfers)] ==
        IF k = 0 THEN weth ELSE Moved(after[k - 1], transfers[k])
  IN  after

\* Mutant: balances are not checked.
TransfersUnchecked(transfers) ==
  LET after == BalancesAfter(transfers) IN weth' = after[Len(transfers)]

\* A transaction that makes these transfers, in order, and no other.
Transfers(transfers) ==
  LET after == BalancesAfter(transfers) IN
  /\ \A k \in 1 .. Len(transfers) :
       after[k - 1][transfers[k].from] >= transfers[k].amount
  /\ weth' = after[Len(transfers)]

=============================================================================
