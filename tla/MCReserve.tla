------------------------------ MODULE MCReserve ------------------------------
(***************************************************************************)
(* Reserve for TLC.  A ray is 10000, a wad 5000, and a year four units of  *)
(* time.                                                                   *)
(***************************************************************************)
EXTENDS Reserve

Curve(optimal, base, slope1, slope2) ==
  [optimal |-> optimal, base |-> base, slope1 |-> slope1, slope2 |-> slope2]

(* The strategy of WETH in markets/unlockd/rateStrategies.ts, and one that *)
(* is flatter.                                                             *)
WethStrategy == {Curve(8000, 2000, 1600, 20000)}
TwoStrategies == WethStrategy \union {Curve(8000, 300, 400, 10000)}
=============================================================================
