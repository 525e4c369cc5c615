-------------------------------- MODULE MCParty --------------------------------
(* Instances of Party for TLC.                                             *)
EXTENDS Party, TLC

CONSTANTS n1, n2

TwoSlots   == {1, 2}
ThreeSlots == {1, 2, 3}

TwoNames == {n1, n2}

(* All names fit, or two of twelve letters differ in the last only.        *)
Whole == [n \in Names |-> n]
Cut   == [n \in Names |-> n1]

Memory == Permutations(Addresses) \cup Permutations(IDs)
================================================================================
