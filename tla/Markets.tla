------------------------------ MODULE Markets ------------------------------
(***************************************************************************)
(* What the deployment promises of the markets it makes, whatever fails:   *)
(* a market, once open, gets a contract for each slot at most once, and no *)
(* contract serves two markets or two slots.  What stands behind a         *)
(* contract may be upgraded; the address that users hold never moves.      *)
(***************************************************************************)
EXTENDS Naturals

CONSTANT Fixed              \* the slots that hold proxies

VARIABLE markets            \* market -> slot -> contract, or Nobody
Nobody == 0

Taken == DOMAIN markets \union UNION {{markets[m][s] : s \in Fixed} : m \in DOMAIN markets}

Open(m) ==
    /\ m \notin Taken \union {Nobody}
    /\ markets' = [n \in DOMAIN markets \union {m} |->
                     IF n \in DOMAIN markets THEN markets[n] ELSE [s \in Fixed |-> Nobody]]

Settle(m, s, c) ==
    /\ m \in DOMAIN markets /\ markets[m][s] = Nobody
    /\ c \notin Taken \union {Nobody}
    /\ markets' = [markets EXCEPT ![m][s] = c]

Init == markets = [m \in {} |-> [s \in Fixed |-> Nobody]]

Next == \E m \in DOMAIN markets' :
          \/ Open(m)
          \/ \E s \in Fixed : Settle(m, s, markets'[m][s])

(* No contract stands in two slots, of one market or of two. *)
NoneShared ==
    \A m \in DOMAIN markets, n \in DOMAIN markets, s \in Fixed, t \in Fixed :
      markets[m][s] = markets[n][t] /\ markets[m][s] # Nobody => m = n /\ s = t

Spec == Init /\ [][Next]_markets
=============================================================================
