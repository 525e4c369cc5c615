-------------------------------- MODULE MCVote --------------------------------
(* Instances of Vote for TLC.                                              *)
EXTENDS Vote

AndTheNinth == {1, 2, 9}
FirstSlots  == {1, 2, 3}
===============================================================================
