----------------------------- MODULE MCZnsGate ------------------------------
(* ZnsGate with writes, resets and an unknown operation on every page.     *)
EXTENDS ZnsGate

InsideLbas == 0..(NumZones * ZoneSize - 1)
GateSqes == {Entry(l, op) : l \in InsideLbas, op \in {1, 2, 3}}
=============================================================================
