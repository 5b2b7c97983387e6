--------------------------- MODULE MarketsProofs ---------------------------
(***************************************************************************)
(* Proofs about the abstract markets, for every set of slots and every     *)
(* number of markets.                                                      *)
(***************************************************************************)
EXTENDS Markets, TLAPS

(* Every market is a function on the slots.                                *)
Shape == markets = [m \in DOMAIN markets |-> [s \in Fixed |-> markets[m][s]]]

MarketsInv == Shape /\ NoneShared

\* Opening a market adds a row without contracts.
LEMMA OpenInv ==
  ASSUME MarketsInv, NEW m, Open(m)
  PROVE  MarketsInv'
<1>1. m \notin DOMAIN markets BY DEF Open, Taken
<1>2. DOMAIN markets' = DOMAIN markets \union {m} BY DEF Open
<1>3. \A n \in DOMAIN markets : markets'[n] = markets[n] BY <1>2 DEF Open
<1>4. markets'[m] = [s \in Fixed |-> Nobody] BY <1>1, <1>2 DEF Open
<1>5. \A n \in DOMAIN markets : markets[n] = [s \in Fixed |-> markets[n][s]]
  BY DEF MarketsInv, Shape
<1>6. \A n \in DOMAIN markets' : markets'[n] = [s \in Fixed |-> markets'[n][s]]
  BY <1>2, <1>3, <1>4, <1>5
<1>7. Shape'
  <2>1. markets' = [n \in DOMAIN markets' |-> markets'[n]] BY DEF Open
  <2> QED BY <2>1, <1>6 DEF Shape
<1>8. NoneShared'
  <2> SUFFICES ASSUME NEW p \in DOMAIN markets', NEW q \in DOMAIN markets',
                      NEW s \in Fixed, NEW t \in Fixed,
                      markets'[p][s] = markets'[q][t], markets'[p][s] # Nobody
               PROVE  p = q /\ s = t
    BY DEF NoneShared
  <2>1. p # m /\ q # m BY <1>4
  <2>2. p \in DOMAIN markets /\ q \in DOMAIN markets BY <2>1, <1>2
  <2> QED BY <2>2, <1>3 DEF MarketsInv, NoneShared
<1> QED BY <1>7, <1>8 DEF MarketsInv

\* A contract that no market has yet fills one slot of one market.
LEMMA SettleInv ==
  ASSUME MarketsInv, NEW m, NEW s \in Fixed, NEW c, Settle(m, s, c)
  PROVE  MarketsInv'
<1>1. m \in DOMAIN markets /\ c \notin Taken /\ c # Nobody BY DEF Settle
<1>2. DOMAIN markets' = DOMAIN markets BY DEF Settle
<1>3. \A n \in DOMAIN markets : markets[n] = [t \in Fixed |-> markets[n][t]]
  BY DEF MarketsInv, Shape
<1>4. \A n \in DOMAIN markets, t \in Fixed :
        markets'[n][t] = IF n = m /\ t = s THEN c ELSE markets[n][t]
  BY <1>1, <1>3 DEF Settle
<1>5. \A n \in DOMAIN markets : markets'[n] = [t \in Fixed |-> markets'[n][t]]
  BY <1>1, <1>3 DEF Settle
<1>6. Shape'
  <2>1. markets' = [n \in DOMAIN markets' |-> markets'[n]] BY DEF Settle
  <2> QED BY <2>1, <1>2, <1>5 DEF Shape
<1>7. NoneShared'
  <2> SUFFICES ASSUME NEW p \in DOMAIN markets', NEW q \in DOMAIN markets',
                      NEW t \in Fixed, NEW u \in Fixed,
                      markets'[p][t] = markets'[q][u], markets'[p][t] # Nobody
               PROVE  p = q /\ t = u
    BY DEF NoneShared
  <2>1. \A n \in DOMAIN markets, v \in Fixed : markets[n][v] # c BY <1>1 DEF Taken
  <2>2. p \in DOMAIN markets /\ q \in DOMAIN markets BY <1>2
  <2> DEFINE old == markets[p][t]
            other == markets[q][u]
  <2>3. markets'[p][t] = (IF p = m /\ t = s THEN c ELSE old) BY <2>2, <1>4
  <2>4. markets'[q][u] = (IF q = m /\ u = s THEN c ELSE other) BY <2>2, <1>4
  <2>5. old # c /\ other # c BY <2>1, <2>2
  <2>6. old = other /\ old # Nobody => p = q /\ t = u BY <2>2 DEF MarketsInv, NoneShared
  <2> HIDE DEF old, other
  <2>7. CASE p = m /\ t = s BY <2>7, <2>3, <2>4, <2>5
  <2>8. CASE ~(p = m /\ t = s) BY <2>8, <2>3, <2>4, <2>5, <2>6
  <2> QED BY <2>7, <2>8
<1> QED BY <1>6, <1>7 DEF MarketsInv

\* No contract ever stands in two slots, of one market or of two: what
\* somebody who was given an address of a market can rely on.
THEOREM NoContractShared == Spec => []NoneShared
<1>1. Init => MarketsInv
  <2> SUFFICES ASSUME Init PROVE MarketsInv OBVIOUS
  <2>1. DOMAIN markets = {} BY DEF Init
  <2>2. Shape BY <2>1 DEF Init, Shape
  <2>3. NoneShared BY <2>1 DEF NoneShared
  <2> QED BY <2>2, <2>3 DEF MarketsInv
<1>2. MarketsInv /\ [Next]_markets => MarketsInv'
  <2> SUFFICES ASSUME MarketsInv, [Next]_markets PROVE MarketsInv' OBVIOUS
  <2>1. CASE Next
    <3>1. PICK m \in DOMAIN markets' :
            Open(m) \/ \E s \in Fixed : Settle(m, s, markets'[m][s])
      BY <2>1 DEF Next
    <3>2. CASE Open(m) BY <3>2, OpenInv
    <3>3. CASE \E s \in Fixed : Settle(m, s, markets'[m][s]) BY <3>3, SettleInv
    <3> QED BY <3>1, <3>2, <3>3
  <2>2. CASE UNCHANGED markets BY <2>2 DEF MarketsInv, Shape, NoneShared
  <2> QED BY <2>1, <2>2
<1>3. MarketsInv => NoneShared BY DEF MarketsInv
<1> QED BY <1>1, <1>2, <1>3, PTL DEF Spec
=============================================================================
