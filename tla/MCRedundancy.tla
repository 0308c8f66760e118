---------------------------- MODULE MCRedundancy ----------------------------
(* Redundancy for TLC: stations of rising levels.                            *)
EXTENDS Redundancy

Rising == [s \in Stations |-> s]
AllModes == {High, Low, Optimal, 1}
HighOnly == {High}
=============================================================================
