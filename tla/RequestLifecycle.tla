-------------------------- MODULE RequestLifecycle --------------------------
(***************************************************************************)
(* What the rest of the game may rely on about a request it hands to the   *)
(* request manager: it is answered at most once, or dropped; never both,   *)
(* never again afterwards, and one of the two happens eventually.          *)
(***************************************************************************)
CONSTANT Requests     \* the request objects the game ever makes

VARIABLE fate         \* what has become of each of them

Fates == {"new", "pending", "answered", "dropped"}

Init == fate = [r \in Requests |-> "new"]

Become(r, from, to) ==
  /\ fate[r] = from
  /\ fate' = [fate EXCEPT ![r] = to]

Submit(r) == Become(r, "new", "pending")      \* QueueRequest returned true
Refuse(r) == Become(r, "new", "dropped")      \* QueueRequest returned false
Answer(r) == Become(r, "pending", "answered") \* ResponseCallback ran
Drop(r)   == Become(r, "pending", "dropped")  \* deleted with no callback

Resolve(r) == Answer(r) \/ Drop(r)

Next == \E r \in Requests : Submit(r) \/ Refuse(r) \/ Resolve(r)

Spec == Init /\ [][Next]_fate

(* Whatever was accepted is answered or dropped in the end.                *)
Resolution == \A r \in Requests :
  fate[r] = "pending" ~> fate[r] \in {"answered", "dropped"}
=============================================================================
