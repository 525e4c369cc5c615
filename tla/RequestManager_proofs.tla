------------------------ MODULE RequestManager_proofs ------------------------
(***************************************************************************)
(* Proofs about RequestManager, for any set of requests, any length of the *)
(* drain loop, and whether or not curl may refuse a handle.                *)
(***************************************************************************)
EXTENDS RequestManager, TLAPS

-----------------------------------------------------------------------------
(* What erasing one element does to a sequence without repetitions.        *)

Distinct(s) == \A j, k \in 1 .. Len(s) : s[j] = s[k] => j = k

(* vector::erase(begin + n): one shorter, the front kept, the rest moved   *)
(* up by one.                                                              *)
LEMMA WithoutShape ==
  ASSUME NEW S, NEW s \in Seq(S), NEW n \in 1 .. Len(s)
  PROVE  /\ Without(s, n) \in Seq(S)
         /\ Len(Without(s, n)) = Len(s) - 1
         /\ \A k \in 1 .. Len(s) - 1 :
              Without(s, n)[k] = IF k < n THEN s[k] ELSE s[k + 1]
<1> DEFINE w == Without(s, n)
<1>1. Len(s) \in Nat /\ Len(s) - 1 \in Nat
  OBVIOUS
<1>2. \A k \in 1 .. Len(s) - 1 : (IF k < n THEN s[k] ELSE s[k + 1]) \in S
  OBVIOUS
<1>3. w \in [1 .. Len(s) - 1 -> S]
  BY <1>2 DEF Without
<1>4. w \in Seq(S) /\ Len(w) = Len(s) - 1
  BY <1>1, <1>3
<1>5. \A k \in 1 .. Len(s) - 1 : w[k] = IF k < n THEN s[k] ELSE s[k + 1]
  BY DEF Without
<1> QED
  BY <1>4, <1>5

(* Erasing element n of a vector without repetitions removes exactly it.   *)
LEMMA WithoutElements ==
  ASSUME NEW S, NEW s \in Seq(S), NEW n \in 1 .. Len(s), Distinct(s)
  PROVE  /\ Elements(Without(s, n)) = Elements(s) \ {s[n]}
         /\ Distinct(Without(s, n))
<1> DEFINE w == Without(s, n)
<1>1. /\ Len(w) = Len(s) - 1
      /\ \A k \in 1 .. Len(s) - 1 : w[k] = IF k < n THEN s[k] ELSE s[k + 1]
  BY WithoutShape
<1> HIDE DEF w
<1>2. ASSUME NEW x \in Elements(w)
      PROVE  x \in Elements(s) \ {s[n]}
  <2>1. PICK k \in 1 .. Len(s) - 1 : x = w[k]
    BY <1>1, <1>2 DEF Elements
  <2>2. CASE k < n
    BY <1>1, <2>1, <2>2 DEF Elements, Distinct
  <2>3. CASE ~(k < n)
    BY <1>1, <2>1, <2>3 DEF Elements, Distinct
  <2> QED
    BY <2>2, <2>3
<1>3. ASSUME NEW x \in Elements(s) \ {s[n]}
      PROVE  x \in Elements(w)
  <2>1. PICK k \in 1 .. Len(s) : x = s[k] /\ k # n
    BY <1>3 DEF Elements
  <2>2. CASE k < n
    <3>1. k \in 1 .. Len(w) /\ w[k] = x
      BY <1>1, <2>1, <2>2
    <3> QED
      BY <3>1 DEF Elements
  <2>3. CASE k > n
    <3>1. k - 1 \in 1 .. Len(w) /\ w[k - 1] = x
      BY <1>1, <2>1, <2>3
    <3> QED
      BY <3>1 DEF Elements
  <2> QED
    BY <2>1, <2>2, <2>3
<1>4. Distinct(w)
  <2> SUFFICES ASSUME NEW j \in 1 .. Len(w), NEW k \in 1 .. Len(w), w[j] = w[k]
               PROVE  j = k
    BY DEF Distinct
  <2>1. CASE j < n /\ k < n
    BY <1>1, <2>1 DEF Distinct
  <2>2. CASE j < n /\ ~(k < n)
    BY <1>1, <2>2 DEF Distinct
  <2>3. CASE ~(j < n) /\ k < n
    BY <1>1, <2>3 DEF Distinct
  <2>4. CASE ~(j < n) /\ ~(k < n)
    <3>1. s[j + 1] = s[k + 1] /\ j + 1 \in 1 .. Len(s) /\ k + 1 \in 1 .. Len(s)
      BY <1>1, <2>4
    <3>2. j + 1 = k + 1
      BY <3>1 DEF Distinct
    <3> QED
      BY <3>2
  <2> QED
    BY <2>1, <2>2, <2>3, <2>4
<1> QED
  BY <1>2, <1>3, <1>4 DEF w

-----------------------------------------------------------------------------
(* The inductive invariant.  The run-time invariants say what holds between *)
(* the passes; Behind says what a pass has already established about the   *)
(* elements it has walked over, which is what makes the end of a pass      *)
(* imply NothingSkipped, and the end of the aborting one the empty vector. *)

Behind ==
  /\ pc = "start" =>
       \A k \in 1 .. Len(m_vRequests) : k < i => state[m_vRequests[k]] # "QUEUED"
  /\ pc = "reap" =>
       \A k \in 1 .. Len(m_vRequests) : k < i =>
         /\ state[m_vRequests[k]] # "FINISHED"
         /\ mode = "abort" => state[m_vRequests[k]] # "EXECUTED"
  /\ pc \in {"start", "perform"} => \A r \in Requests : state[r] # "FINISHED"
  /\ mode = "aborted" => pc = "out"

IInv ==
  /\ TypeOK
  /\ OwnedOnce
  /\ CurlHoldsExecuting
  /\ NothingSkipped
  /\ NothingSurvivesShutdown
  /\ Behind

(* A position the walk is at is an index of the vector and names a live    *)
(* request.                                                                *)
LEMMA HereAlive ==
  ASSUME IInv, i =< Len(m_vRequests)
  PROVE  i \in 1 .. Len(m_vRequests) /\ Here \in Requests /\ Here \in Alive
<1>1. i \in 1 .. Len(m_vRequests)
  BY DEF IInv, TypeOK
<1>2. Here \in Elements(m_vRequests)
  BY <1>1 DEF Here, Elements
<1> QED
  BY <1>1, <1>2 DEF IInv, OwnedOnce, Alive

(* Deleting the request the walk is at keeps the vector and the live       *)
(* requests in step.                                                       *)
LEMMA DeleteHereOwned ==
  ASSUME IInv, i =< Len(m_vRequests), DeleteHere
  PROVE  /\ m_vRequests' \in Seq(Requests) /\ state' \in [Requests -> States]
         /\ i' \in Nat \ {0}
         /\ OwnedOnce'
         /\ \A r \in Requests \ {Here} : state'[r] = state[r]
         /\ Here \in Requests /\ state'[Here] = "DELETED"
         /\ \A k \in 1 .. Len(m_vRequests') : k < i =>
              /\ k \in 1 .. Len(m_vRequests)
              /\ m_vRequests'[k] = m_vRequests[k]
              /\ m_vRequests'[k] # Here
         /\ m_vRequests = << >> => m_vRequests' = << >>
<1> DEFINE v == m_vRequests
<1>1. /\ i \in 1 .. Len(v) /\ Here \in Requests /\ Here \in Alive
      /\ v \in Seq(Requests) /\ Distinct(v) /\ Elements(v) = Alive
      /\ state \in [Requests -> States] /\ Here = v[i]
  BY HereAlive DEF IInv, TypeOK, OwnedOnce, Distinct, Here
<1>2. /\ v' = Without(v, i) /\ i' = i
      /\ state' = [state EXCEPT ![Here] = "DELETED"]
  BY DEF DeleteHere
<1>3. /\ v' \in Seq(Requests) /\ Len(v') = Len(v) - 1
      /\ \A k \in 1 .. Len(v) - 1 : v'[k] = IF k < i THEN v[k] ELSE v[k + 1]
  BY <1>1, <1>2, WithoutShape
<1>4. Elements(v') = Elements(v) \ {Here} /\ Distinct(v')
  BY <1>1, <1>2, WithoutElements
<1>5. state' \in [Requests -> States] /\ i' \in Nat \ {0}
  BY <1>1, <1>2 DEF States
<1>6. state'[Here] = "DELETED" /\ \A r \in Requests \ {Here} : state'[r] = state[r]
  BY <1>1, <1>2
<1>7. Alive' = Alive \ {Here}
  BY <1>1, <1>6 DEF Alive
<1>8. OwnedOnce'
  BY <1>1, <1>4, <1>7 DEF OwnedOnce, Distinct, Elements
<1>9. \A k \in 1 .. Len(v') : k < i =>
        k \in 1 .. Len(v) /\ v'[k] = v[k] /\ v'[k] # Here
  BY <1>1, <1>3 DEF Distinct
<1>10. v # << >>
  BY <1>1
<1> QED
  BY <1>3, <1>5, <1>6, <1>8, <1>9, <1>10, <1>1

-----------------------------------------------------------------------------
(* One lemma per action.                                                   *)

LEMMA InitInvariant == Init => IInv
<1> SUFFICES ASSUME Init PROVE IInv
  OBVIOUS
<1> USE DEF Init
<1>1. TypeOK
  <2>1. m_bLoaded \in BOOLEAN
    BY Zenon
  <2>2. m_vRequests \in Seq(Requests)
    <3>1. m_vRequests = << >>
      OBVIOUS
    <3> QED
      BY ONLY <3>1
  <2>3. /\ state \in [Requests -> States] /\ calls \in [Requests -> Nat]
        /\ mode \in Modes /\ pc \in Places /\ waited \in Nat /\ i \in Nat \ {0}
    BY DEF States, Modes, Places
  <2> QED
    BY <2>1, <2>2, <2>3 DEF TypeOK
<1>2. OwnedOnce
  BY DEF OwnedOnce, Elements, Alive
<1>3. CurlHoldsExecuting
  BY DEF CurlHoldsExecuting
<1>4. NothingSkipped /\ NothingSurvivesShutdown /\ Behind
  BY DEF NothingSkipped, NothingSurvivesShutdown, Behind
<1> QED
  BY <1>1, <1>2, <1>3, <1>4 DEF IInv

LEMMA QueueRequestInvariant ==
  ASSUME IInv, NEW r \in Requests, QueueRequest(r)
  PROVE  IInv'
<1> DEFINE v == m_vRequests
<1>1. /\ TypeOK /\ Distinct(v) /\ Elements(v) = Alive /\ state[r] = "NEW"
      /\ r \notin Elements(v)
      /\ pc = "out" /\ mode = "frame" /\ pc' = pc /\ mode' = mode
      /\ UNCHANGED <<m_bLoaded, handle, multi, done, calls, waited, i>>
  BY DEF IInv, OwnedOnce, Distinct, Alive, QueueRequest
<1>2. CASE m_bLoaded
  <2>1. state' = [state EXCEPT ![r] = "QUEUED"] /\ v' = Append(v, r)
    BY <1>2 DEF QueueRequest
  <2>2. /\ v' \in Seq(Requests) /\ Len(v') = Len(v) + 1 /\ Len(v) \in Nat
        /\ v'[Len(v) + 1] = r /\ \A k \in 1 .. Len(v) : v'[k] = v[k]
    BY <1>1, <2>1 DEF TypeOK
  <2>3. TypeOK'
    BY <1>1, <2>1, <2>2 DEF TypeOK, States
  <2>4. Alive' = Alive \cup {r}
    BY <1>1, <2>1 DEF Alive, TypeOK
  <2>5. Elements(v') = Elements(v) \cup {r}
    BY <2>2 DEF Elements
  <2>6. \A k \in 1 .. Len(v) : v[k] # r
    BY <1>1 DEF Elements
  <2>7. Distinct(v')
    BY <1>1, <2>2, <2>6 DEF Distinct
  <2>8. OwnedOnce'
    BY <1>1, <2>4, <2>5, <2>7 DEF OwnedOnce, Distinct, Elements
  <2>9. CurlHoldsExecuting'
    BY <1>1, <2>1 DEF IInv, CurlHoldsExecuting, TypeOK
  <2>10. NothingSkipped' /\ NothingSurvivesShutdown' /\ Behind'
    BY <1>1, <1>2, <2>1 DEF IInv, NothingSkipped, NothingSurvivesShutdown, Behind, TypeOK
  <2> QED
    BY <2>3, <2>8, <2>9, <2>10 DEF IInv
<1>3. CASE ~m_bLoaded
  <2>1. state' = [state EXCEPT ![r] = "DELETED"] /\ v' = v
    BY <1>3 DEF QueueRequest
  <2>2. TypeOK'
    BY <1>1, <2>1 DEF TypeOK, States
  <2>3. Alive' = Alive
    BY <1>1, <2>1 DEF Alive, TypeOK
  <2>4. OwnedOnce'
    BY <1>1, <2>1, <2>3 DEF OwnedOnce, Distinct, Elements
  <2>5. CurlHoldsExecuting'
    BY <1>1, <2>1 DEF IInv, CurlHoldsExecuting, TypeOK
  <2>6. NothingSkipped' /\ NothingSurvivesShutdown' /\ Behind'
    BY <1>1, <2>1 DEF IInv, NothingSkipped, NothingSurvivesShutdown, Behind, TypeOK
  <2> QED
    BY <2>2, <2>4, <2>5, <2>6 DEF IInv
<1> QED
  BY <1>2, <1>3

(* The steps of a pass that only move on keep all but Behind at once.      *)
LEMMA SameRequests ==
  ASSUME IInv, UNCHANGED <<m_bLoaded, m_vRequests, state, handle, multi, calls>>,
         mode' = mode, waited' \in Nat, pc' \in Places, i' \in Nat \ {0},
         done' \subseteq multi
  PROVE  TypeOK' /\ OwnedOnce' /\ CurlHoldsExecuting' /\ NothingSurvivesShutdown'
<1>1. TypeOK'
  BY DEF IInv, TypeOK
<1>2. OwnedOnce'
  BY DEF IInv, OwnedOnce, Elements, Alive
<1>3. CurlHoldsExecuting'
  BY DEF IInv, CurlHoldsExecuting
<1>4. NothingSurvivesShutdown'
  BY DEF IInv, NothingSurvivesShutdown
<1> QED
  BY <1>1, <1>2, <1>3, <1>4

LEMMA ThinkBeginInvariant ==
  ASSUME IInv, ThinkBegin, pc = "out", mode # "aborted",
         mode' \in Modes \ {"aborted"}, waited' = waited
  PROVE  IInv'
<1>1. /\ UNCHANGED <<m_bLoaded, m_vRequests, state, handle, multi, done, calls, waited>>
      /\ pc' = "start" /\ i' = 1
  BY DEF ThinkBegin
<1>2. TypeOK'
  BY <1>1 DEF IInv, TypeOK, Places
<1>3. OwnedOnce' /\ CurlHoldsExecuting'
  BY <1>1 DEF IInv, OwnedOnce, Elements, Alive, CurlHoldsExecuting
<1>4. NothingSkipped' /\ NothingSurvivesShutdown'
  BY <1>1 DEF IInv, NothingSkipped, NothingSurvivesShutdown
<1>5. Behind'
  BY <1>1 DEF IInv, Behind, NothingSkipped
<1> QED
  BY <1>2, <1>3, <1>4, <1>5 DEF IInv

(* The walk goes on past an element that Behind may from now on count.     *)
LEMMA StartSkipInvariant == IInv /\ StartSkip => IInv'
<1> SUFFICES ASSUME IInv, StartSkip PROVE IInv'
  OBVIOUS
<1>1. /\ UNCHANGED <<m_bLoaded, m_vRequests, state, handle, multi, done, calls, mode, waited, pc>>
      /\ pc = "start" /\ i' = i + 1 /\ state[m_vRequests[i]] # "QUEUED"
      /\ i \in Nat \ {0} /\ Len(m_vRequests) \in Nat
  BY DEF StartSkip, Skip, Walking, Here, IInv, TypeOK
<1>2. TypeOK' /\ OwnedOnce' /\ CurlHoldsExecuting' /\ NothingSurvivesShutdown'
  BY <1>1, SameRequests DEF IInv, TypeOK, CurlHoldsExecuting
<1>3. NothingSkipped'
  BY <1>1 DEF IInv, NothingSkipped
<1>4. Behind'
  <2>1. \A k \in 1 .. Len(m_vRequests) : k < i + 1 => state[m_vRequests[k]] # "QUEUED"
    BY <1>1 DEF IInv, Behind
  <2> QED
    BY <1>1, <2>1 DEF IInv, Behind
<1> QED
  BY <1>2, <1>3, <1>4 DEF IInv

LEMMA StartDiscardInvariant == IInv /\ StartDiscard => IInv'
<1> SUFFICES ASSUME IInv, StartDiscard PROVE IInv'
  OBVIOUS
<1>1. /\ UNCHANGED <<m_bLoaded, handle, multi, done, calls, mode, waited, pc>>
      /\ pc = "start" /\ i' = i /\ i =< Len(m_vRequests) /\ DeleteHere
      /\ state[Here] = "QUEUED"
  BY DEF StartDiscard, Walking, DeleteHere
<1>2. /\ m_vRequests' \in Seq(Requests) /\ state' \in [Requests -> States]
      /\ OwnedOnce'
      /\ \A r \in Requests \ {Here} : state'[r] = state[r]
      /\ Here \in Requests /\ state'[Here] = "DELETED"
      /\ \A k \in 1 .. Len(m_vRequests') : k < i =>
           /\ k \in 1 .. Len(m_vRequests)
           /\ m_vRequests'[k] = m_vRequests[k] /\ m_vRequests'[k] # Here
      /\ m_vRequests = << >> => m_vRequests' = << >>
  BY <1>1, DeleteHereOwned
<1>3. TypeOK'
  BY <1>1, <1>2 DEF IInv, TypeOK
<1>4. CurlHoldsExecuting'
  BY <1>1, <1>2 DEF IInv, CurlHoldsExecuting
<1>5. NothingSkipped' /\ NothingSurvivesShutdown'
  BY <1>1, <1>2 DEF IInv, NothingSkipped, NothingSurvivesShutdown
<1>6. Behind'
  <2>1. ASSUME NEW k \in 1 .. Len(m_vRequests'), k < i'
        PROVE  state'[m_vRequests'[k]] # "QUEUED"
    <3>1. k \in 1 .. Len(m_vRequests) /\ m_vRequests'[k] = m_vRequests[k]
          /\ m_vRequests'[k] \in Requests \ {Here}
      BY <1>1, <1>2, <2>1
    <3> QED
      BY <1>1, <1>2, <2>1, <3>1 DEF IInv, Behind
  <2>2. \A r \in Requests : state'[r] # "FINISHED"
    BY <1>1, <1>2 DEF IInv, Behind
  <2> QED
    BY <1>1, <2>1, <2>2 DEF IInv, Behind
<1> QED
  BY <1>2, <1>3, <1>4, <1>5, <1>6 DEF IInv

LEMMA StartTransferInvariant == IInv /\ StartTransfer => IInv'
<1> SUFFICES ASSUME IInv, StartTransfer PROVE IInv'
  OBVIOUS
<1> DEFINE v == m_vRequests
<1>1. /\ UNCHANGED <<m_bLoaded, m_vRequests, done, calls, mode, waited, pc>>
      /\ state' = [state EXCEPT ![Here] = "EXECUTED"] /\ state[Here] = "QUEUED"
      /\ handle' = handle \cup {Here} /\ multi' = multi \cup {Here}
      /\ pc = "start" /\ i' = i + 1 /\ i =< Len(v)
  BY DEF StartTransfer, Walking, Skip
<1>2. i \in 1 .. Len(v) /\ Here \in Requests /\ Here = v[i]
  BY <1>1, HereAlive DEF Here
<1>3. TypeOK'
  BY <1>1, <1>2 DEF IInv, TypeOK, States
<1>4. Alive' = Alive
  BY <1>1, <1>2 DEF Alive, IInv, TypeOK
<1>5. OwnedOnce'
  BY <1>1, <1>4 DEF IInv, OwnedOnce, Elements
<1>6. CurlHoldsExecuting'
  BY <1>1, <1>2 DEF IInv, CurlHoldsExecuting, TypeOK
<1>7. NothingSkipped' /\ NothingSurvivesShutdown'
  BY <1>1 DEF IInv, NothingSkipped, NothingSurvivesShutdown
<1>8. Behind'
  <2>1. ASSUME NEW k \in 1 .. Len(v), k < i + 1
        PROVE  state'[v[k]] # "QUEUED"
    <3>1. v[k] \in Requests
      BY DEF IInv, TypeOK
    <3>2. CASE v[k] = Here
      BY <1>1, <1>2, <3>2 DEF IInv, TypeOK
    <3>3. CASE v[k] # Here
      <4>1. k < i
        BY <1>2, <2>1, <3>3 DEF IInv, TypeOK
      <4> QED
        BY <1>1, <1>2, <3>1, <3>3, <4>1 DEF IInv, Behind, TypeOK
    <3> QED
      BY <3>2, <3>3
  <2>2. \A r \in Requests : state'[r] # "FINISHED"
    BY <1>1, <1>2 DEF IInv, Behind, TypeOK
  <2> QED
    BY <1>1, <2>1, <2>2 DEF IInv, Behind
<1> QED
  BY <1>3, <1>5, <1>6, <1>7, <1>8 DEF IInv

(* The end of pass 1: everything the vector holds is behind the walk.      *)
LEMMA StartEndInvariant == IInv /\ StartEnd => IInv'
<1> SUFFICES ASSUME IInv, StartEnd PROVE IInv'
  OBVIOUS
<1>1. /\ UNCHANGED <<m_bLoaded, m_vRequests, state, handle, multi, done, calls, mode, waited, i>>
      /\ pc = "start" /\ pc' = "perform" /\ i > Len(m_vRequests)
  BY DEF StartEnd
<1>2. TypeOK' /\ OwnedOnce' /\ CurlHoldsExecuting' /\ NothingSurvivesShutdown'
  BY <1>1, SameRequests DEF IInv, TypeOK, CurlHoldsExecuting, Places
<1>3. ASSUME NEW r \in Requests
      PROVE  state[r] # "QUEUED"
  <2> SUFFICES ASSUME state[r] = "QUEUED" PROVE FALSE
    OBVIOUS
  <2>1. PICK k \in 1 .. Len(m_vRequests) : m_vRequests[k] = r
    BY DEF IInv, OwnedOnce, Alive, Elements
  <2>2. k < i
    BY <1>1 DEF IInv, TypeOK
  <2> QED
    BY <1>1, <2>1, <2>2 DEF IInv, Behind
<1>4. NothingSkipped' /\ Behind'
  BY <1>1, <1>3 DEF IInv, NothingSkipped, Behind
<1> QED
  BY <1>2, <1>4 DEF IInv

LEMMA PerformInvariant ==
  ASSUME IInv, NEW finished \in SUBSET multi, Perform(finished)
  PROVE  IInv'
<1>1. /\ UNCHANGED <<m_bLoaded, m_vRequests, state, handle, multi, calls, mode, waited, i>>
      /\ pc = "perform" /\ pc' = "complete" /\ done' = done \cup finished
  BY DEF Perform
<1>2. TypeOK' /\ OwnedOnce' /\ CurlHoldsExecuting' /\ NothingSurvivesShutdown'
  BY <1>1, SameRequests DEF IInv, TypeOK, CurlHoldsExecuting, Places
<1>3. NothingSkipped' /\ Behind'
  BY <1>1 DEF IInv, NothingSkipped, Behind
<1> QED
  BY <1>2, <1>3 DEF IInv

(* A completion is always delivered to a live request: done is part of     *)
(* multi, which is the executing requests.                                 *)
LEMMA CompleteInvariant ==
  ASSUME IInv, NEW r \in Requests, Complete(r)
  PROVE  IInv'
<1>1. /\ UNCHANGED <<m_bLoaded, m_vRequests, mode, waited, pc, i>>
      /\ pc = "complete" /\ r \in done /\ state[r] = "EXECUTED"
      /\ done' = done \ {r} /\ multi' = multi \ {r} /\ handle' = handle \ {r}
      /\ calls' = [calls EXCEPT ![r] = @ + 1]
      /\ state' = [state EXCEPT ![r] = "FINISHED"]
  BY DEF Complete, IInv, CurlHoldsExecuting
<1>2. TypeOK'
  BY <1>1 DEF IInv, TypeOK, States
<1>3. Alive' = Alive
  BY <1>1 DEF Alive, IInv, TypeOK
<1>4. OwnedOnce'
  BY <1>1, <1>3 DEF IInv, OwnedOnce, Elements
<1>5. CurlHoldsExecuting'
  BY <1>1 DEF IInv, CurlHoldsExecuting, TypeOK
<1>6. NothingSkipped' /\ NothingSurvivesShutdown' /\ Behind'
  BY <1>1 DEF IInv, NothingSkipped, NothingSurvivesShutdown, Behind, TypeOK
<1> QED
  BY <1>2, <1>4, <1>5, <1>6 DEF IInv

LEMMA CompleteEndInvariant == IInv /\ CompleteEnd => IInv'
<1> SUFFICES ASSUME IInv, CompleteEnd PROVE IInv'
  OBVIOUS
<1>1. /\ UNCHANGED <<m_bLoaded, m_vRequests, state, handle, multi, done, calls, mode, waited>>
      /\ pc = "complete" /\ pc' = "reap" /\ i' = 1
  BY DEF CompleteEnd
<1>2. TypeOK' /\ OwnedOnce' /\ CurlHoldsExecuting' /\ NothingSurvivesShutdown'
  BY <1>1, SameRequests DEF IInv, TypeOK, CurlHoldsExecuting, Places
<1>3. NothingSkipped' /\ Behind'
  BY <1>1 DEF IInv, NothingSkipped, Behind
<1> QED
  BY <1>2, <1>3 DEF IInv

LEMMA ReapSkipInvariant == IInv /\ ReapSkip => IInv'
<1> SUFFICES ASSUME IInv, ReapSkip PROVE IInv'
  OBVIOUS
<1>1. /\ UNCHANGED <<m_bLoaded, m_vRequests, state, handle, multi, done, calls, mode, waited, pc>>
      /\ pc = "reap" /\ i' = i + 1 /\ state[m_vRequests[i]] # "FINISHED"
      /\ mode = "abort" => state[m_vRequests[i]] # "EXECUTED"
      /\ i \in Nat \ {0} /\ Len(m_vRequests) \in Nat
  BY DEF ReapSkip, Skip, Walking, Here, bForceDiscard, IInv, TypeOK
<1>2. TypeOK' /\ OwnedOnce' /\ CurlHoldsExecuting' /\ NothingSurvivesShutdown'
  BY <1>1, SameRequests DEF IInv, TypeOK, CurlHoldsExecuting
<1>3. NothingSkipped'
  BY <1>1 DEF IInv, NothingSkipped
<1>4. Behind'
  <2>1. \A k \in 1 .. Len(m_vRequests) : k < i + 1 =>
          /\ state[m_vRequests[k]] # "FINISHED"
          /\ mode = "abort" => state[m_vRequests[k]] # "EXECUTED"
    BY <1>1 DEF IInv, Behind
  <2> QED
    BY <1>1, <2>1 DEF IInv, Behind
<1> QED
  BY <1>2, <1>3, <1>4 DEF IInv

(* What both deletions of pass 2 have in common.                           *)
LEMMA ReapDeletes ==
  ASSUME IInv, Walking("reap"), DeleteHere,
         UNCHANGED <<m_bLoaded, calls, mode, waited, pc>>
  PROVE  /\ Here \in Requests /\ state' \in [Requests -> States]
         /\ m_vRequests' \in Seq(Requests)
         /\ \A r \in Requests \ {Here} : state'[r] = state[r]
         /\ state'[Here] = "DELETED" /\ i' = i
         /\ OwnedOnce' /\ NothingSkipped' /\ NothingSurvivesShutdown' /\ Behind'
<1>1. /\ pc = "reap" /\ i' = i /\ i =< Len(m_vRequests)
  BY DEF Walking, DeleteHere
<1>2. /\ m_vRequests' \in Seq(Requests) /\ state' \in [Requests -> States]
      /\ OwnedOnce'
      /\ \A r \in Requests \ {Here} : state'[r] = state[r]
      /\ Here \in Requests /\ state'[Here] = "DELETED"
      /\ \A k \in 1 .. Len(m_vRequests') : k < i =>
           /\ k \in 1 .. Len(m_vRequests)
           /\ m_vRequests'[k] = m_vRequests[k] /\ m_vRequests'[k] # Here
      /\ m_vRequests = << >> => m_vRequests' = << >>
  BY <1>1, DeleteHereOwned
<1>3. NothingSkipped' /\ NothingSurvivesShutdown'
  BY <1>1, <1>2 DEF IInv, NothingSkipped, NothingSurvivesShutdown
<1>4. Behind'
  <2>1. ASSUME NEW k \in 1 .. Len(m_vRequests'), k < i'
        PROVE  /\ state'[m_vRequests'[k]] # "FINISHED"
               /\ mode = "abort" => state'[m_vRequests'[k]] # "EXECUTED"
    <3>1. /\ k \in 1 .. Len(m_vRequests) /\ m_vRequests'[k] = m_vRequests[k]
          /\ m_vRequests'[k] \in Requests \ {Here}
      BY <1>1, <1>2, <2>1
    <3> QED
      BY <1>1, <1>2, <2>1, <3>1 DEF IInv, Behind
  <2> QED
    BY <1>1, <2>1 DEF IInv, Behind
<1> QED
  BY <1>1, <1>2, <1>3, <1>4

LEMMA ReapFinishedInvariant == IInv /\ ReapFinished => IInv'
<1> SUFFICES ASSUME IInv, ReapFinished PROVE IInv'
  OBVIOUS
<1>1. /\ UNCHANGED <<m_bLoaded, handle, multi, done, calls, mode, waited, pc>>
      /\ Walking("reap") /\ DeleteHere /\ state[Here] = "FINISHED"
  BY DEF ReapFinished
<1>2. /\ Here \in Requests /\ state' \in [Requests -> States]
      /\ m_vRequests' \in Seq(Requests)
      /\ \A r \in Requests \ {Here} : state'[r] = state[r]
      /\ state'[Here] = "DELETED" /\ i' = i
      /\ OwnedOnce' /\ NothingSkipped' /\ NothingSurvivesShutdown' /\ Behind'
  BY <1>1, ReapDeletes
<1>3. TypeOK'
  BY <1>1, <1>2 DEF IInv, TypeOK
<1>4. CurlHoldsExecuting'
  BY <1>1, <1>2 DEF IInv, CurlHoldsExecuting
<1> QED
  BY <1>2, <1>3, <1>4 DEF IInv

LEMMA ReapAbortedInvariant == IInv /\ ReapAborted => IInv'
<1> SUFFICES ASSUME IInv, ReapAborted PROVE IInv'
  OBVIOUS
<1>1. /\ UNCHANGED <<m_bLoaded, calls, mode, waited, pc>>
      /\ Walking("reap") /\ DeleteHere /\ state[Here] = "EXECUTED"
      /\ multi' = multi \ {Here} /\ done' = done \ {Here} /\ handle' = handle \ {Here}
  BY DEF ReapAborted
<1>2. /\ Here \in Requests /\ state' \in [Requests -> States]
      /\ m_vRequests' \in Seq(Requests)
      /\ \A r \in Requests \ {Here} : state'[r] = state[r]
      /\ state'[Here] = "DELETED" /\ i' = i
      /\ OwnedOnce' /\ NothingSkipped' /\ NothingSurvivesShutdown' /\ Behind'
  BY <1>1, ReapDeletes
<1>3. TypeOK'
  BY <1>1, <1>2 DEF IInv, TypeOK
<1>4. CurlHoldsExecuting'
  BY <1>1, <1>2 DEF IInv, CurlHoldsExecuting
<1> QED
  BY <1>2, <1>3, <1>4 DEF IInv

(* The end of pass 2: nothing finished is left; when tearing down, nothing *)
(* at all, since nothing is queued any more and nothing executing was      *)
(* walked over.                                                            *)
LEMMA ReapEndInvariant == IInv /\ ReapEnd => IInv'
<1> SUFFICES ASSUME IInv, ReapEnd PROVE IInv'
  OBVIOUS
<1> DEFINE v == m_vRequests
<1>1. /\ UNCHANGED <<m_bLoaded, m_vRequests, state, handle, multi, done, calls, i>>
      /\ pc = "reap" /\ pc' = "out" /\ i > Len(v)
      /\ waited' = IF mode = "drain" THEN waited + 1 ELSE waited
      /\ mode' = IF mode = "abort" THEN "aborted" ELSE mode
  BY DEF ReapEnd
<1>2. TypeOK'
  BY <1>1 DEF IInv, TypeOK, Places, Modes
<1>3. OwnedOnce' /\ CurlHoldsExecuting'
  BY <1>1 DEF IInv, OwnedOnce, Elements, Alive, CurlHoldsExecuting
<1>4. \A k \in 1 .. Len(v) : k < i /\ v[k] \in Requests /\ v[k] \in Alive
  BY <1>1 DEF IInv, TypeOK, OwnedOnce, Elements
<1>5. NothingSkipped'
  <2>1. ASSUME NEW r \in Requests, state[r] = "FINISHED"
        PROVE  FALSE
    <3>1. PICK k \in 1 .. Len(v) : v[k] = r
      BY <2>1 DEF IInv, OwnedOnce, Alive, Elements
    <3> QED
      BY <1>1, <1>4, <2>1, <3>1 DEF IInv, Behind
  <2> QED
    BY <1>1, <2>1 DEF NothingSkipped
<1>6. ASSUME mode = "abort"
      PROVE  v = << >>
  <2>1. ASSUME NEW k \in 1 .. Len(v)
        PROVE  FALSE
    <3>1. state[v[k]] \in {"QUEUED", "EXECUTED", "FINISHED"} /\ v[k] \in Requests
      BY <1>4 DEF Alive
    <3>2. state[v[k]] # "QUEUED"
      BY <1>1, <3>1 DEF IInv, NothingSkipped
    <3>3. state[v[k]] # "FINISHED" /\ state[v[k]] # "EXECUTED"
      BY <1>1, <1>4, <1>6 DEF IInv, Behind
    <3> QED
      BY <3>1, <3>2, <3>3
  <2>2. Len(v) = 0
    BY <2>1 DEF IInv, TypeOK
  <2> QED
    BY <2>2 DEF IInv, TypeOK
<1>7. NothingSurvivesShutdown'
  BY <1>1, <1>6 DEF IInv, NothingSurvivesShutdown
<1>8. Behind'
  BY <1>1 DEF IInv, Behind
<1> QED
  BY <1>2, <1>3, <1>5, <1>7, <1>8 DEF IInv

LEMMA InitFirstInvariant == IInv /\ InitFirst => IInv'
<1> SUFFICES ASSUME IInv, InitFirst PROVE IInv'
  OBVIOUS
<1>1. /\ UNCHANGED <<m_vRequests, state, handle, multi, done, calls, mode, waited, pc, i>>
      /\ m_bLoaded' \in BOOLEAN /\ ~m_bLoaded
  BY DEF InitFirst, Fresh
<1>2. TypeOK'
  BY <1>1 DEF IInv, TypeOK
<1>3. OwnedOnce' /\ CurlHoldsExecuting'
  BY <1>1 DEF IInv, OwnedOnce, Elements, Alive, CurlHoldsExecuting
<1>4. NothingSkipped' /\ NothingSurvivesShutdown' /\ Behind'
  BY <1>1 DEF IInv, NothingSkipped, NothingSurvivesShutdown, Behind
<1> QED
  BY <1>2, <1>3, <1>4 DEF IInv

LEMMA ShutdownBeginInvariant == IInv /\ ShutdownBegin => IInv'
<1> SUFFICES ASSUME IInv, ShutdownBegin PROVE IInv'
  OBVIOUS
<1>1. /\ UNCHANGED <<m_bLoaded, m_vRequests, state, handle, multi, done, calls, pc, i>>
      /\ mode' = "drain" /\ waited' = 0 /\ pc = "out"
  BY DEF ShutdownBegin
<1>2. TypeOK'
  BY <1>1 DEF IInv, TypeOK, Modes
<1>3. OwnedOnce' /\ CurlHoldsExecuting'
  BY <1>1 DEF IInv, OwnedOnce, Elements, Alive, CurlHoldsExecuting
<1>4. NothingSkipped' /\ NothingSurvivesShutdown' /\ Behind'
  BY <1>1 DEF IInv, NothingSkipped, NothingSurvivesShutdown, Behind
<1> QED
  BY <1>2, <1>3, <1>4 DEF IInv

(* "belt-and-braces": the loop that deletes survivors has none to delete.  *)
LEMMA ShutdownEndInvariant == IInv /\ ShutdownEnd => IInv'
<1> SUFFICES ASSUME IInv, ShutdownEnd PROVE IInv'
  OBVIOUS
<1>1. /\ UNCHANGED <<handle, multi, done, calls, waited, pc, i>>
      /\ m_bLoaded' \in BOOLEAN /\ mode' = "frame" /\ m_vRequests' = << >>
      /\ m_vRequests = << >> /\ pc = "out"
      /\ state' = [r \in Requests |->
                     IF r \in Elements(m_vRequests) THEN "DELETED" ELSE state[r]]
  BY DEF ShutdownEnd, Fresh, IInv, NothingSurvivesShutdown, Behind
<1>2. state' = state
  BY <1>1 DEF Elements, IInv, TypeOK
<1>3. TypeOK'
  BY <1>1, <1>2 DEF IInv, TypeOK, Modes
<1>4. OwnedOnce' /\ CurlHoldsExecuting'
  BY <1>1, <1>2 DEF IInv, OwnedOnce, Elements, Alive, CurlHoldsExecuting
<1>5. NothingSkipped' /\ NothingSurvivesShutdown' /\ Behind'
  BY <1>1, <1>2 DEF IInv, NothingSkipped, NothingSurvivesShutdown, Behind
<1> QED
  BY <1>3, <1>4, <1>5 DEF IInv

-----------------------------------------------------------------------------
LEMMA NextInvariant == IInv /\ [Next]_vars => IInv'
<1> SUFFICES ASSUME IInv, [Next]_vars PROVE IInv'
  OBVIOUS
<1>1. ASSUME NEW r \in Requests, QueueRequest(r) PROVE IInv'
  BY <1>1, QueueRequestInvariant
<1>2. CASE FrameThink
  BY <1>2, ThinkBeginInvariant DEF FrameThink, IInv, TypeOK
<1>3. CASE StartSkip \/ StartDiscard \/ StartTransfer \/ StartEnd
  BY <1>3, StartSkipInvariant, StartDiscardInvariant, StartTransferInvariant, StartEndInvariant
<1>4. ASSUME NEW finished \in SUBSET multi, Perform(finished) PROVE IInv'
  BY <1>4, PerformInvariant
<1>5. ASSUME NEW r \in Requests, Complete(r) PROVE IInv'
  BY <1>5, CompleteInvariant
<1>6. CASE CompleteEnd
  BY <1>6, CompleteEndInvariant
<1>7. CASE ReapSkip \/ ReapFinished \/ ReapAborted \/ ReapEnd
  BY <1>7, ReapSkipInvariant, ReapFinishedInvariant, ReapAbortedInvariant, ReapEndInvariant
<1>8. CASE DrainThink
  BY <1>8, ThinkBeginInvariant DEF DrainThink, IInv, TypeOK
<1>9. CASE AbortThink
  BY <1>9, ThinkBeginInvariant DEF AbortThink, Modes
<1>10. CASE ShutdownEnd
  BY <1>10, ShutdownEndInvariant
<1>11. CASE InitFirst
  BY <1>11, InitFirstInvariant
<1>12. CASE ShutdownBegin
  BY <1>12, ShutdownBeginInvariant
<1>13. CASE UNCHANGED vars
  <2>1. UNCHANGED <<m_bLoaded, m_vRequests, state, handle, multi, done, calls, mode, waited, pc, i>>
    BY <1>13 DEF vars
  <2>2. TypeOK' /\ OwnedOnce' /\ CurlHoldsExecuting' /\ NothingSurvivesShutdown'
    BY <2>1, SameRequests DEF IInv, TypeOK, CurlHoldsExecuting
  <2>3. NothingSkipped' /\ Behind'
    BY <2>1 DEF IInv, NothingSkipped, Behind
  <2> QED
    BY <2>2, <2>3 DEF IInv
<1> QED
  BY <1>1, <1>2, <1>3, <1>4, <1>5, <1>6, <1>7, <1>8, <1>9, <1>10, <1>11, <1>12, <1>13
     DEF Next, Inside

(* The invariant of the request manager holds in every reachable state.    *)
THEOREM Invariance == Spec => []IInv
<1> QED
  BY InitInvariant, NextInvariant, PTL DEF Spec

(* Every variable of CRequestManager keeps its type.                       *)
THEOREM TypeCorrect == Spec => []TypeOK
<1>1. IInv => TypeOK
  BY DEF IInv
<1> QED
  BY <1>1, Invariance, PTL

(* The vector holds exactly the live requests, each once: nothing accepted *)
(* is leaked, and no pass of Think touches a deleted request.              *)
THEOREM Ownership == Spec => []OwnedOnce
<1>1. IInv => OwnedOnce
  BY DEF IInv
<1> QED
  BY <1>1, Invariance, PTL

(* The curl multi handle holds exactly the executing requests, each with   *)
(* its own easy handle, whether they complete or are aborted.              *)
THEOREM CurlHandles == Spec => []CurlHoldsExecuting
<1>1. IInv => CurlHoldsExecuting
  BY DEF IInv
<1> QED
  BY <1>1, Invariance, PTL

(* Erasing while walking skips no request, in either pass.                 *)
THEOREM PassesComplete == Spec => []NothingSkipped
<1>1. IInv => NothingSkipped
  BY DEF IInv
<1> QED
  BY <1>1, Invariance, PTL

(* "Think(true) leaves this empty": nothing survives the shutdown at a map *)
(* change.                                                                 *)
THEOREM ShutdownEmpties == Spec => []NothingSurvivesShutdown
<1>1. IInv => NothingSurvivesShutdown
  BY DEF IInv
<1> QED
  BY <1>1, Invariance, PTL

-----------------------------------------------------------------------------
(* The manager implements RequestLifecycle.                                *)

(* How often a request has been answered, by its state.                    *)
Counted ==
  \A r \in Requests :
    /\ state[r] \in {"NEW", "QUEUED", "EXECUTED"} => calls[r] = 0
    /\ state[r] = "FINISHED" => calls[r] = 1
    /\ state[r] = "DELETED" => calls[r] \in {0, 1}

fate == [r \in Requests |-> Fate(r)]

(* What the fate of a counted request is.                                  *)
LEMMA FateOf ==
  ASSUME TypeOK, Counted, NEW r \in Requests
  PROVE  /\ state[r] = "NEW" => Fate(r) = "new"
         /\ state[r] \in {"QUEUED", "EXECUTED"} => Fate(r) = "pending"
         /\ state[r] = "FINISHED" => Fate(r) = "answered"
         /\ state[r] = "DELETED" /\ calls[r] = 1 => Fate(r) = "answered"
         /\ state[r] = "DELETED" /\ calls[r] = 0 => Fate(r) = "dropped"
<1>1. CASE calls[r] = 0
  BY <1>1 DEF Counted, Fate
<1>2. CASE calls[r] = 1
  BY <1>2 DEF Counted, Fate
<1>3. calls[r] \in {0, 1}
  BY DEF TypeOK, Counted, States
<1> QED
  BY <1>1, <1>2, <1>3

(* A step that touches one request moves only that request's fate.         *)
LEMMA FateMovesOne ==
  ASSUME NEW r \in Requests, TypeOK, TypeOK', Counted, Counted',
         \A q \in Requests \ {r} : state'[q] = state[q] /\ calls'[q] = calls[q],
         \/ Fate(r)' = Fate(r)
         \/ Fate(r) = "new" /\ Fate(r)' \in {"pending", "dropped"}
         \/ Fate(r) = "pending" /\ Fate(r)' \in {"answered", "dropped"}
  PROVE  [Lifecycle!Next]_fate
<1>1. \A q \in Requests \ {r} : Fate(q)' = Fate(q)
  BY DEF Fate
<1>2. fate' = [fate EXCEPT ![r] = Fate(r)'] /\ fate[r] = Fate(r)
  BY <1>1 DEF fate
<1>3. CASE Fate(r)' = Fate(r)
  BY <1>1, <1>3 DEF fate
<1>4. CASE Fate(r) = "new" /\ Fate(r)' \in {"pending", "dropped"}
  <2>1. Lifecycle!Submit(r) \/ Lifecycle!Refuse(r)
    BY <1>2, <1>4 DEF Lifecycle!Submit, Lifecycle!Refuse, Lifecycle!Become, fate
  <2> QED
    BY <2>1 DEF Lifecycle!Next
<1>5. CASE Fate(r) = "pending" /\ Fate(r)' \in {"answered", "dropped"}
  <2>1. Lifecycle!Resolve(r)
    BY <1>2, <1>5 DEF Lifecycle!Resolve, Lifecycle!Answer, Lifecycle!Drop,
                      Lifecycle!Become, fate
  <2> QED
    BY <2>1 DEF Lifecycle!Next
<1> QED
  BY <1>3, <1>4, <1>5

(* A step that leaves states and counts alone leaves fates alone.          *)
LEMMA FateStutters ==
  ASSUME Counted, UNCHANGED <<state, calls>>
  PROVE  Counted' /\ [Lifecycle!Next]_fate
  BY DEF Counted, fate, Fate

(* A deletion drops a request that was not answered, and does not answer   *)
(* one that was.                                                           *)
LEMMA DeleteHereFate ==
  ASSUME IInv, IInv', Counted, i =< Len(m_vRequests), DeleteHere, UNCHANGED calls
  PROVE  Counted' /\ [Lifecycle!Next]_fate
<1>1. PICK h \in Requests :
        /\ h \in Alive /\ state'[h] = "DELETED"
        /\ \A r \in Requests \ {h} : state'[r] = state[r] /\ calls'[r] = calls[r]
  BY HereAlive, DeleteHereOwned
<1>2. Counted'
  BY <1>1 DEF Counted, Alive
<1>3. calls'[h] = calls[h] /\ TypeOK /\ TypeOK'
  BY DEF IInv
<1>4. CASE state[h] = "FINISHED"
  <2>1. calls[h] = 1 /\ Fate(h) = "answered"
    BY <1>3, <1>4, FateOf DEF Counted
  <2>2. Fate(h)' = "answered"
    BY <1>3, <2>1 DEF Fate
  <2> QED
    BY <1>1, <1>2, <1>3, <2>1, <2>2, FateMovesOne
<1>5. CASE state[h] \in {"QUEUED", "EXECUTED"}
  <2>1. calls[h] = 0 /\ Fate(h) = "pending"
    BY <1>3, <1>5, FateOf DEF Counted
  <2>2. Fate(h)' = "dropped"
    BY <1>1, <1>3, <2>1 DEF Fate
  <2> QED
    BY <1>1, <1>2, <1>3, <2>1, <2>2, FateMovesOne
<1> QED
  BY <1>1, <1>2, <1>4, <1>5 DEF Alive

LEMMA QueueRequestFate ==
  ASSUME IInv, IInv', Counted, NEW r \in Requests, QueueRequest(r)
  PROVE  Counted' /\ [Lifecycle!Next]_fate
<1>1. /\ state[r] = "NEW" /\ state'[r] \in {"QUEUED", "DELETED"} /\ calls' = calls
      /\ \A q \in Requests \ {r} : state'[q] = state[q] /\ calls'[q] = calls[q]
  BY DEF QueueRequest, IInv, TypeOK
<1>2. calls[r] = 0 /\ Counted'
  BY <1>1 DEF Counted
<1>3. TypeOK /\ TypeOK' /\ Fate(r) = "new"
  BY <1>1, FateOf DEF IInv
<1>4. Fate(r)' \in {"pending", "dropped"}
  BY <1>1, <1>2 DEF Fate
<1> QED
  BY <1>1, <1>2, <1>3, <1>4, FateMovesOne

LEMMA StartTransferFate ==
  ASSUME IInv, IInv', Counted, StartTransfer
  PROVE  Counted' /\ [Lifecycle!Next]_fate
<1>1. PICK h \in Requests : h = Here
  BY HereAlive DEF StartTransfer, Walking
<1>2. /\ state[h] = "QUEUED" /\ state'[h] = "EXECUTED" /\ calls' = calls
      /\ \A r \in Requests \ {h} : state'[r] = state[r] /\ calls'[r] = calls[r]
  BY <1>1 DEF StartTransfer, IInv, TypeOK
<1>3. calls[h] = 0 /\ Counted'
  BY <1>2 DEF Counted
<1>4. TypeOK /\ TypeOK' /\ Fate(h)' = Fate(h)
  BY <1>2, <1>3 DEF IInv, Fate
<1> QED
  BY <1>2, <1>3, <1>4, FateMovesOne

(* The callback runs for an executing request, which was never answered.   *)
LEMMA CompleteFate ==
  ASSUME IInv, IInv', Counted, NEW r \in Requests, Complete(r)
  PROVE  Counted' /\ [Lifecycle!Next]_fate
<1>1. /\ state[r] = "EXECUTED" /\ state'[r] = "FINISHED" /\ calls'[r] = calls[r] + 1
      /\ \A q \in Requests \ {r} : state'[q] = state[q] /\ calls'[q] = calls[q]
  BY DEF Complete, IInv, TypeOK, CurlHoldsExecuting
<1>2. calls[r] = 0 /\ calls'[r] = 1 /\ Counted'
  BY <1>1 DEF Counted
<1>3. TypeOK /\ TypeOK' /\ Fate(r) = "pending"
  BY <1>1, FateOf DEF IInv
<1>4. Fate(r)' = "answered"
  BY <1>2 DEF Fate
<1> QED
  BY <1>1, <1>2, <1>3, <1>4, FateMovesOne

(* Every step of the manager is a step of the lifecycle or a stutter.      *)
LEMMA NextFate ==
  ASSUME IInv, IInv', Counted, [Next]_vars
  PROVE  Counted' /\ [Lifecycle!Next]_fate
<1>1. ASSUME NEW r \in Requests, QueueRequest(r) PROVE Counted' /\ [Lifecycle!Next]_fate
  BY <1>1, QueueRequestFate
<1>2. ASSUME NEW r \in Requests, Complete(r) PROVE Counted' /\ [Lifecycle!Next]_fate
  BY <1>2, CompleteFate
<1>3. CASE StartTransfer
  BY <1>3, StartTransferFate
<1>4. CASE StartDiscard \/ ReapFinished \/ ReapAborted
  BY <1>4, DeleteHereFate DEF StartDiscard, ReapFinished, ReapAborted, Walking
<1>5. CASE FrameThink \/ DrainThink \/ AbortThink
  BY <1>5, FateStutters DEF FrameThink, DrainThink, AbortThink, ThinkBegin
<1>6. CASE StartSkip \/ StartEnd \/ CompleteEnd \/ ReapSkip \/ ReapEnd
  BY <1>6, FateStutters DEF StartSkip, StartEnd, CompleteEnd, ReapSkip, ReapEnd
<1>7. ASSUME NEW finished \in SUBSET multi, Perform(finished)
      PROVE  Counted' /\ [Lifecycle!Next]_fate
  BY <1>7, FateStutters DEF Perform
<1>8. CASE InitFirst \/ ShutdownBegin
  BY <1>8, FateStutters DEF InitFirst, ShutdownBegin
<1>9. CASE ShutdownEnd
  <2>1. m_vRequests = << >>
    BY <1>9 DEF ShutdownEnd, IInv, NothingSurvivesShutdown
  <2>2. state' = state /\ calls' = calls
    BY <1>9, <2>1 DEF ShutdownEnd, Elements, IInv, TypeOK
  <2> QED
    BY <2>2, FateStutters
<1>10. CASE UNCHANGED vars
  BY <1>10, FateStutters DEF vars
<1> QED
  BY <1>1, <1>2, <1>3, <1>4, <1>5, <1>6, <1>7, <1>8, <1>9, <1>10 DEF Next, Inside

LEMMA InitFate == Init => Counted /\ Lifecycle!Init
<1> SUFFICES ASSUME Init PROVE Counted /\ Lifecycle!Init
  OBVIOUS
<1>1. Counted
  BY DEF Init, Counted
<1>2. TypeOK
  BY InitInvariant DEF IInv
<1>3. \A r \in Requests : state[r] = "NEW"
  BY DEF Init
<1>4. \A r \in Requests : Fate(r) = "new"
  BY <1>1, <1>2, <1>3, FateOf
<1> QED
  BY <1>1, <1>4 DEF Lifecycle!Init

(* CRequestManager implements RequestLifecycle: ResponseCallback runs at   *)
(* most once for a request, and never after the request was dropped by a   *)
(* refusal or a teardown.                                                  *)
THEOREM Refinement == Spec => AnsweredOrDroppedOnce
<1>1. Init => Counted /\ Lifecycle!Init
  BY InitFate
<1>2. IInv /\ IInv' /\ Counted /\ [Next]_vars => Counted' /\ [Lifecycle!Next]_fate
  BY NextFate
<1> QED
  BY <1>1, <1>2, Invariance, PTL DEF Spec, AnsweredOrDroppedOnce, Lifecycle!Spec, fate
=============================================================================
