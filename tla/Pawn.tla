-------------------------------- MODULE Pawn --------------------------------
(***************************************************************************)
(* What the loan book promises, without its bookkeeping: no loan ids, no   *)
(* counters, no vault.  Each item has one ticket.  A free item belongs to  *)
(* its holder.  A pledged item secures what its holder owes; it comes back *)
(* to the holder when the debt is repaid, or it is put up for auction, or  *)
(* it is forfeited.  While it is auctioned bids only rise and the debt is  *)
(* frozen, until the auction is called off by paying some of the debt.     *)
(***************************************************************************)
EXTENDS Integers

CONSTANTS
  Item,    \* what can be pledged
  Party,   \* who can hold, owe or bid
  Nobody,  \* no bidder
  Debt,    \* the debts a ticket can record
  Price    \* the bids

VARIABLE ticket

Free(holder) == [status |-> "free", holder |-> holder, owed |-> 0,
                 bid |-> 0, bidder |-> Nobody]

Pledged(holder, debt) == [status |-> "pledged", holder |-> holder,
                          owed |-> debt, bid |-> 0, bidder |-> Nobody]

Auctioned(holder, debt, price, bidder) ==
  [status |-> "auctioned", holder |-> holder, owed |-> debt, bid |-> price,
   bidder |-> bidder]

\* The ticket of item i becomes t, the others stay.
Rewrite(i, t) == ticket' = [ticket EXCEPT ![i] = t]

Init == ticket \in [Item -> {Free(p) : p \in Party}]

Sell(i) ==
  /\ ticket[i].status = "free"
  /\ \E p \in Party : Rewrite(i, Free(p))

Pledge(i) ==
  /\ ticket[i].status = "free"
  /\ \E p \in Party, d \in Debt : Rewrite(i, Pledged(p, d))

\* Borrowing more or repaying a part: not while the item is auctioned.
Amend(i) ==
  /\ ticket[i].status = "pledged"
  /\ \E d \in Debt \ {ticket[i].owed} : Rewrite(i, Pledged(ticket[i].holder, d))

Return(i) ==
  /\ ticket[i].status = "pledged"
  /\ Rewrite(i, Free(ticket[i].holder))

Offer(i) ==
  /\ ticket[i].status = "pledged"
  /\ \E p \in Party, b \in Price :
       Rewrite(i, Auctioned(ticket[i].holder, ticket[i].owed, b, p))

Outbid(i) ==
  /\ ticket[i].status = "auctioned"
  /\ \E p \in Party, b \in Price :
       /\ b > ticket[i].bid
       /\ Rewrite(i, Auctioned(ticket[i].holder, ticket[i].owed, b, p))

CallOff(i) ==
  /\ ticket[i].status = "auctioned"
  /\ \E d \in Debt :
       /\ d < ticket[i].owed
       /\ Rewrite(i, Pledged(ticket[i].holder, d))

\* The debt, and the claim on the item, pass to another party.
Assign(i) ==
  /\ ticket[i].status # "free"
  /\ \E p \in Party : Rewrite(i, [ticket[i] EXCEPT !.holder = p])

Forfeit(i) ==
  /\ ticket[i].status # "free"
  /\ \E p \in Party : Rewrite(i, Free(p))

Next == \E i \in Item :
  \/ Sell(i) \/ Pledge(i) \/ Amend(i) \/ Return(i) \/ Offer(i) \/ Outbid(i)
  \/ CallOff(i) \/ Assign(i) \/ Forfeit(i)

Spec == Init /\ [][Next]_ticket

=============================================================================
