--------------------------- MODULE MCFNCharacters ---------------------------
(* Instances of FNCharacters for TLC.                                      *)
EXTENDS FNCharacters, TLC

OneSlot  == {0}
TwoSlots == {0, 1}

(* What singles a guid out is whether it can be read.                      *)
Guids == Permutations(Chars \ Unreadable)
=============================================================================
