--------------------------- MODULE MCAreaTransition ---------------------------
(* Instances of AreaTransition for TLC.                                    *)
EXTENDS AreaTransition

(* The last has no bit in the byte.                                        *)
AndTheNinth == {1, 2, 3, 9}

(* All but bDidVote, which no step reads but to announce the vote once.    *)
ButTheNotice == <<playerVars, PlayerVotes, scriptVars, travel, history>>
===============================================================================
