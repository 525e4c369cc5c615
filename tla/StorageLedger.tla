---------------------------- MODULE StorageLedger ----------------------------
(* What a player may rely on when he uses the bank: units of a kind change  *)
(* hands between what he carries and what is stored, whole and one kind at  *)
(* a time, and only a script makes more of them: as many as it was told.    *)
EXTENDS Integers

CONSTANTS Kinds, Start   \* Start: what the player carries first

VARIABLES carried, stored, told

Init ==
  /\ carried = Start
  /\ stored = [k \in Kinds |-> 0]
  /\ told = [k \in Kinds |-> 0]

Deposit(k) ==
  \E amt \in 1..carried[k] :
    /\ carried' = [carried EXCEPT ![k] = @ - amt]
    /\ stored' = [stored EXCEPT ![k] = @ + amt]
    /\ UNCHANGED told

Withdraw(k) ==
  \E amt \in 1..stored[k] :
    /\ stored' = [stored EXCEPT ![k] = @ - amt]
    /\ carried' = [carried EXCEPT ![k] = @ + amt]
    /\ UNCHANGED told

Grant(k) ==
  /\ told'[k] > told[k]
  /\ told' = [told EXCEPT ![k] = told'[k]]
  /\ stored' = [stored EXCEPT ![k] = @ + told'[k] - told[k]]
  /\ UNCHANGED carried

Next == \E k \in Kinds : Deposit(k) \/ Withdraw(k) \/ Grant(k)

Spec == Init /\ [][Next]_<<carried, stored, told>>
=============================================================================
