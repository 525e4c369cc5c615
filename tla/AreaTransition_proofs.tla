------------------------ MODULE AreaTransition_proofs ------------------------
(***************************************************************************)
(* Proofs about AreaTransition, for any set of slots and areas.            *)
(***************************************************************************)
EXTENDS AreaTransition, TLAPS

-----------------------------------------------------------------------------
(* The inductive invariant.  Votes and history disagree in general: a      *)
(* player who walks out keeps his bit.  They agree about the players an    *)
(* area counts as inside, whenever it counts everyone in the world as      *)
(* inside and nobody has left the server since everyone gathered.          *)

(* An acceptance is withdrawn by leaving the area.                         *)
SaidInside == \A s \in Slots : said[s] \in {NoArea, CurrentTransArea[s]}

(* The bits an area has of players inside are acceptances.                 *)
BitsAreSaid ==
  \A a \in Areas : a \notin deserted /\ FAllPlayersAreTouchingMe(a) =>
    \A s \in PlayerVotes[a] : CurrentTransArea[s] = a => said[s] = a

(* Every acceptance is a bit.                                              *)
SaidAreBits ==
  \A s \in Slots : s =< VoteBits /\ said[s] # NoArea => s \in PlayerVotes[said[s]]

(* Bits of players who are not in the world come from spectators or from   *)
(* players who left.                                                       *)
BitsAreActive ==
  \A a \in Areas : a \notin outsiders \cup deserted => PlayerVotes[a] \subseteq Active

IInv ==
  /\ TypeOK
  /\ SaidInside
  /\ BitsAreSaid
  /\ SaidAreBits
  /\ BitsAreActive

LEMMA InitInvariant == Init => IInv
<1> SUFFICES ASSUME Init PROVE IInv
  OBVIOUS
<1>1. TypeOK
  BY DEF Init, TypeOK, Stages
<1>2. SaidInside /\ BitsAreSaid /\ SaidAreBits /\ BitsAreActive
  BY DEF Init, SaidInside, BitsAreSaid, SaidAreBits, BitsAreActive
<1> QED
  BY <1>1, <1>2 DEF IInv

-----------------------------------------------------------------------------
(* One lemma per action.                                                   *)

LEMMA ClientPutInServerInvariant ==
  ASSUME IInv, NEW s \in Slots, ClientPutInServer(s)
  PROVE  IInv'
<1>1. /\ stage' = [stage EXCEPT ![s] = "spectator"] /\ stage[s] = "absent"
      /\ UNCHANGED <<CurrentTransArea, PlayerVotes, said, deserted, outsiders>>
  BY DEF ClientPutInServer, areaVars, history
<1>2. Active' = Active
  BY <1>1 DEF Active, IInv, TypeOK
<1>3. TypeOK'
  BY <1>1 DEF IInv, TypeOK, Stages, ClientPutInServer, areaVars, scriptVars, history
<1>4. SaidInside' /\ SaidAreBits'
  BY <1>1 DEF IInv, SaidInside, SaidAreBits
<1>5. BitsAreSaid' /\ BitsAreActive'
  BY <1>1, <1>2 DEF IInv, BitsAreSaid, BitsAreActive, FAllPlayersAreTouchingMe
<1> QED
  BY <1>3, <1>4, <1>5 DEF IInv

LEMMA EnterWorldInvariant ==
  ASSUME IInv, NEW s \in Slots, EnterWorld(s)
  PROVE  IInv'
<1>1. /\ stage' = [stage EXCEPT ![s] = "active"]
      /\ UNCHANGED <<CurrentTransArea, PlayerVotes, said, deserted, outsiders>>
  BY DEF EnterWorld, areaVars, history
<1>2. Active \subseteq Active'
  BY <1>1 DEF Active, IInv, TypeOK
<1>3. TypeOK'
  BY <1>1 DEF IInv, TypeOK, Stages, EnterWorld, areaVars, scriptVars, history
<1>4. SaidInside' /\ SaidAreBits'
  BY <1>1 DEF IInv, SaidInside, SaidAreBits
<1>5. BitsAreSaid' /\ BitsAreActive'
  BY <1>1, <1>2 DEF IInv, BitsAreSaid, BitsAreActive, FAllPlayersAreTouchingMe
<1> QED
  BY <1>3, <1>4, <1>5 DEF IInv

(* A player who leaves the server marks every area as deserted.            *)
LEMMA ClientDisconnectedInvariant ==
  ASSUME IInv, NEW s \in Slots, ClientDisconnected(s)
  PROVE  IInv'
<1>1. /\ CurrentTransArea' = [CurrentTransArea EXCEPT ![s] = NoArea]
      /\ said' = [said EXCEPT ![s] = NoArea]
      /\ PlayerVotes' = PlayerVotes /\ deserted' = Areas
  BY DEF ClientDisconnected, areaVars
<1>2. TypeOK'
  BY DEF IInv, TypeOK, Stages, ClientDisconnected, areaVars, scriptVars
<1>3. SaidInside' /\ SaidAreBits'
  BY <1>1 DEF IInv, TypeOK, SaidInside, SaidAreBits
<1>4. BitsAreSaid' /\ BitsAreActive'
  BY <1>1 DEF BitsAreSaid, BitsAreActive
<1> QED
  BY <1>2, <1>3, <1>4 DEF IInv

(* Entering an area either clears its votes or leaves it with somebody     *)
(* outside; any other area loses the player.                               *)
LEMMA OnControlsInvariant ==
  ASSUME IInv, NEW s \in Slots, NEW a \in Areas, OnControls(s, a)
  PROVE  IInv'
<1> DEFINE gathered == \A t \in Active \ {s} : CurrentTransArea[t] = a
<1>1. /\ CurrentTransArea' = [CurrentTransArea EXCEPT ![s] = a]
      /\ stage' = stage /\ Active' = Active
      /\ said'[s] = NoArea
      /\ \A t \in Slots : said'[t] \in {NoArea, said[t]}
  BY DEF OnControls, IInv, TypeOK, Active
<1>2. TypeOK'
  BY DEF IInv, TypeOK, OnControls, scriptVars
<1>3. SaidInside'
  BY <1>1 DEF IInv, TypeOK, SaidInside
<1>4. ASSUME gathered
      PROVE  /\ PlayerVotes' = [PlayerVotes EXCEPT ![a] = {}]
             /\ \A t \in Slots : said'[t] # a
             /\ deserted' = deserted \ {a} /\ outsiders' = outsiders \ {a}
  BY <1>4, AreasAssumption DEF OnControls, IInv, TypeOK
<1>5. ASSUME ~gathered
      PROVE  /\ PlayerVotes' = PlayerVotes
             /\ deserted' = deserted /\ outsiders' = outsiders
             /\ ~FAllPlayersAreTouchingMe(a)'
  <2>1. /\ PlayerVotes' = PlayerVotes
        /\ deserted' = deserted /\ outsiders' = outsiders
    BY <1>5 DEF OnControls
  <2>2. PICK t \in Active \ {s} : CurrentTransArea[t] # a
    BY <1>5
  <2>3. t \in Active' /\ CurrentTransArea'[t] # a
    BY <1>1, <2>2 DEF IInv, TypeOK, Active
  <2> QED
    BY <2>1, <2>3 DEF FAllPlayersAreTouchingMe
<1>6. ASSUME NEW b \in Areas \ {a}
      PROVE  PlayerVotes'[b] = PlayerVotes[b]
  BY <1>4, <1>5 DEF IInv, TypeOK
<1>7. ASSUME NEW b \in Areas \ {a}, b \notin deserted', FAllPlayersAreTouchingMe(b)',
             NEW t \in PlayerVotes'[b], CurrentTransArea'[t] = b
      PROVE  said'[t] = b
  <2>1. t \in Slots /\ t # s /\ CurrentTransArea[t] = b
    BY <1>1, <1>2, <1>7 DEF IInv, TypeOK
  <2>2. b \notin deserted
    BY <1>4, <1>5, <1>7
  <2>3. s \notin Active
    BY <1>1, <1>7 DEF FAllPlayersAreTouchingMe, IInv, TypeOK
  <2>4. FAllPlayersAreTouchingMe(b)
    BY <1>1, <1>7, <2>3 DEF FAllPlayersAreTouchingMe, IInv, TypeOK, Active
  <2>5. said[t] = b
    BY <1>6, <1>7, <2>1, <2>2, <2>4 DEF IInv, BitsAreSaid
  <2>6. said' = [u \in Slots |-> IF u = s \/ said[u] = a THEN NoArea ELSE said[u]]
        \/ said' = [said EXCEPT ![s] = NoArea]
    BY DEF OnControls
  <2> QED
    BY <1>7, <2>1, <2>5, <2>6 DEF IInv, TypeOK
<1>8. BitsAreSaid'
  <2>1. ASSUME a \notin deserted', FAllPlayersAreTouchingMe(a)'
        PROVE  PlayerVotes'[a] = {}
    BY <1>4, <1>5, <2>1 DEF IInv, TypeOK
  <2> QED
    BY <1>7, <2>1 DEF BitsAreSaid
<1>9. SaidAreBits'
  <2> SUFFICES ASSUME NEW t \in Slots, t =< VoteBits, said'[t] # NoArea
               PROVE  t \in PlayerVotes'[said'[t]]
    BY DEF SaidAreBits
  <2>1. said[t] = said'[t] /\ said[t] \in Areas /\ t \in PlayerVotes[said[t]]
    BY <1>1 DEF IInv, TypeOK, SaidAreBits
  <2> QED
    BY <1>4, <1>5, <1>6, <2>1
<1>10. BitsAreActive'
  <2> SUFFICES ASSUME NEW b \in Areas, b \notin (outsiders \cup deserted)'
               PROVE  PlayerVotes'[b] \subseteq Active
    BY <1>1 DEF BitsAreActive
  <2>1. CASE b = a /\ gathered
    BY <1>4, <2>1 DEF IInv, TypeOK
  <2>2. CASE ~(b = a /\ gathered)
    BY <1>4, <1>5, <1>6, <2>2 DEF IInv, BitsAreActive
  <2> QED
    BY <2>1, <2>2
<1> QED
  BY <1>2, <1>3, <1>8, <1>9, <1>10 DEF IInv

LEMMA DeathNoticeInvariant ==
  ASSUME IInv, NEW s \in Slots, NEW a \in Areas, DeathNotice(s, a)
  PROVE  IInv'
<1>1. /\ CurrentTransArea' = [CurrentTransArea EXCEPT ![s] = NoArea]
      /\ said' = [said EXCEPT ![s] = NoArea]
      /\ UNCHANGED <<stage, PlayerVotes, deserted, outsiders>>
  BY DEF DeathNotice
<1>2. Active' = Active
  BY <1>1 DEF Active
<1>3. TypeOK'
  BY DEF IInv, TypeOK, DeathNotice, scriptVars
<1>4. SaidInside' /\ SaidAreBits' /\ BitsAreActive'
  BY <1>1, <1>2 DEF IInv, TypeOK, SaidInside, SaidAreBits, BitsAreActive
<1>5. BitsAreSaid'
  <2> SUFFICES ASSUME NEW b \in Areas, b \notin deserted, FAllPlayersAreTouchingMe(b)',
                      NEW t \in PlayerVotes[b], CurrentTransArea'[t] = b
               PROVE  said'[t] = b
    BY <1>1 DEF BitsAreSaid
  <2>1. t \in Slots /\ t # s /\ CurrentTransArea[t] = b
    BY <1>1, AreasAssumption DEF IInv, TypeOK
  <2>2. FAllPlayersAreTouchingMe(b)
    BY <1>1, <1>2, AreasAssumption DEF FAllPlayersAreTouchingMe, IInv, TypeOK, Active
  <2>3. said[t] = b
    BY <2>1, <2>2 DEF IInv, BitsAreSaid
  <2> QED
    BY <1>1, <2>1, <2>3 DEF IInv, TypeOK
<1> QED
  BY <1>3, <1>4, <1>5 DEF IInv

(* What an accept changes, for the area of the player.                     *)
LEMMA AcceptEffect ==
  ASSUME IInv, NEW s \in Slots, Accept(s)
  PROVE  LET a == CurrentTransArea[s]
             counted == PlayerVotes[a] \cup PlayerBits(s)
         IN  /\ a \in Areas
             /\ UNCHANGED <<stage, CurrentTransArea, deserted>>
             /\ outsiders' = IF s \in Active THEN outsiders ELSE outsiders \cup {a}
             /\ \/ /\ ~FAllPlayersAreTouchingMe(a)
                   /\ UNCHANGED <<PlayerVotes, travel, said>>
                \/ /\ FAllPlayersAreTouchingMe(a)
                   /\ said' = [said EXCEPT ![s] = a]
                   /\ s \in PlayerVotes[a]
                   /\ UNCHANGED <<PlayerVotes, travel>>
                \/ /\ FAllPlayersAreTouchingMe(a)
                   /\ said' = [said EXCEPT ![s] = a]
                   /\ PlayerVotes' = [PlayerVotes EXCEPT ![a] = counted]
                   /\ travel' = IF counted = Active THEN travel \cup {a} ELSE travel
<1> DEFINE a == CurrentTransArea[s]
<1>1. a \in Areas /\ MSQuery(s, a) /\ UNCHANGED <<stage, CurrentTransArea, deserted>>
      /\ outsiders' = IF s \in Active THEN outsiders ELSE outsiders \cup {a}
  BY DEF Accept, playerVars, IInv, TypeOK
<1>2. CASE ~FAllPlayersAreTouchingMe(a)
  BY <1>1, <1>2 DEF MSQuery
<1>3. CASE FAllPlayersAreTouchingMe(a) /\ PlayerBits(s) \cap PlayerVotes[a] # {}
  <2>1. s \in PlayerVotes[a]
    BY <1>3 DEF PlayerBits
  <2>2. said' = [said EXCEPT ![s] = a] /\ UNCHANGED <<PlayerVotes, travel>>
    BY <1>1, <1>3 DEF MSQuery
  <2> QED
    BY <1>1, <1>3, <2>1, <2>2
<1>4. CASE FAllPlayersAreTouchingMe(a) /\ PlayerBits(s) \cap PlayerVotes[a] = {}
  <2>1. /\ said' = [said EXCEPT ![s] = a]
        /\ PlayerVotes' = [PlayerVotes EXCEPT ![a] = @ \cup PlayerBits(s)]
        /\ travel' = IF PlayerVotes'[a] = AllVotes THEN travel \cup {a} ELSE travel
    BY <1>1, <1>4 DEF MSQuery
  <2>2. PlayerVotes'[a] = PlayerVotes[a] \cup PlayerBits(s)
    BY <1>1, <2>1 DEF IInv, TypeOK
  <2> QED
    BY <1>1, <1>4, <2>1, <2>2 DEF AllVotes
<1> QED
  BY <1>2, <1>3, <1>4

LEMMA AcceptInvariant ==
  ASSUME IInv, NEW s \in Slots, Accept(s)
  PROVE  IInv'
<1> DEFINE a == CurrentTransArea[s]
<1>1. /\ a \in Areas
      /\ UNCHANGED <<stage, CurrentTransArea, deserted>>
      /\ outsiders' = IF s \in Active THEN outsiders ELSE outsiders \cup {a}
  BY AcceptEffect
<1>2. Active' = Active
  BY <1>1 DEF Active
<1>3. CASE UNCHANGED <<PlayerVotes, said>>
  <2>1. TypeOK'
    BY <1>1, <1>3, AcceptEffect
       DEF Accept, MSQuery, playerVars, scriptVars, IInv, TypeOK
  <2>2. SaidInside' /\ SaidAreBits'
    BY <1>1, <1>3 DEF IInv, SaidInside, SaidAreBits
  <2>3. BitsAreSaid' /\ BitsAreActive'
    BY <1>1, <1>2, <1>3 DEF IInv, BitsAreSaid, BitsAreActive, FAllPlayersAreTouchingMe
  <2> QED
    BY <2>1, <2>2, <2>3 DEF IInv
<1>4. ASSUME NEW V \in SUBSET Slots,
             PlayerVotes[a] \subseteq V, V \subseteq PlayerVotes[a] \cup {s},
             s =< VoteBits => s \in V,
             PlayerVotes' = [PlayerVotes EXCEPT ![a] = V],
             said' = [said EXCEPT ![s] = a]
      PROVE  IInv'
  <2>1. /\ \A b \in Areas : PlayerVotes'[b] = IF b = a THEN V ELSE PlayerVotes[b]
        /\ \A t \in Slots : said'[t] = IF t = s THEN a ELSE said[t]
    BY <1>4 DEF IInv, TypeOK
  <2>2. TypeOK'
    <3>1. travel' \in SUBSET Areas
      BY AcceptEffect DEF IInv, TypeOK
    <3>2. bDidVote' \in [Areas -> BOOLEAN]
      BY <1>1 DEF Accept, MSQuery, IInv, TypeOK
    <3>3. UNCHANGED <<stage, where, CurrentTransArea, locked, disabled, deserted>>
      BY DEF Accept, playerVars, scriptVars
    <3>4. outsiders' \subseteq Areas
      BY <1>1 DEF IInv, TypeOK
    <3> QED
      BY <1>1, <1>4, <3>1, <3>2, <3>3, <3>4 DEF IInv, TypeOK
  <2>3. SaidInside'
    BY <1>1, <2>1 DEF IInv, SaidInside
  <2>4. SaidAreBits'
    BY <1>1, <1>4, <2>1 DEF IInv, TypeOK, SaidAreBits
  <2>5. BitsAreSaid'
    <3> SUFFICES ASSUME NEW b \in Areas, b \notin deserted, FAllPlayersAreTouchingMe(b),
                        NEW t \in PlayerVotes'[b], CurrentTransArea[t] = b
                 PROVE  said'[t] = b
      BY <1>1, <1>2 DEF BitsAreSaid, FAllPlayersAreTouchingMe
    <3>1. CASE t = s
      BY <2>1, <3>1
    <3>2. CASE t # s
      <4>1. t \in PlayerVotes[b] /\ t \in Slots
        BY <1>4, <2>1, <3>2 DEF IInv, TypeOK
      <4> QED
        BY <2>1, <3>2, <4>1 DEF IInv, BitsAreSaid
    <3> QED
      BY <3>1, <3>2
  <2>6. BitsAreActive'
    BY <1>1, <1>2, <1>4, <2>1 DEF IInv, BitsAreActive
  <2> QED
    BY <2>2, <2>3, <2>4, <2>5, <2>6 DEF IInv
<1>5. CASE s \in PlayerVotes[a] /\ PlayerVotes' = PlayerVotes /\ said' = [said EXCEPT ![s] = a]
  <2> DEFINE V == PlayerVotes[a]
  <2>1. V \in SUBSET Slots /\ PlayerVotes' = [PlayerVotes EXCEPT ![a] = V]
    BY <1>1, <1>5 DEF IInv, TypeOK
  <2> QED
    BY <1>4, <1>5, <2>1
<1>6. CASE /\ PlayerVotes' = [PlayerVotes EXCEPT ![a] = PlayerVotes[a] \cup PlayerBits(s)]
           /\ said' = [said EXCEPT ![s] = a]
  <2> DEFINE V == PlayerVotes[a] \cup PlayerBits(s)
  <2>1. /\ V \in SUBSET Slots /\ V \subseteq PlayerVotes[a] \cup {s}
        /\ s =< VoteBits => s \in V
    BY <1>1 DEF IInv, TypeOK, PlayerBits
  <2> QED
    BY <1>4, <1>6, <2>1
<1> QED
  BY <1>3, <1>5, <1>6, AcceptEffect

LEMMA NextInvariant == IInv /\ [Next]_vars => IInv'
<1> SUFFICES ASSUME IInv, [Next]_vars PROVE IInv'
  OBVIOUS
<1>1. ASSUME NEW s \in Slots, ClientPutInServer(s) PROVE IInv'
  BY <1>1, ClientPutInServerInvariant
<1>2. ASSUME NEW s \in Slots, EnterWorld(s) PROVE IInv'
  BY <1>2, EnterWorldInvariant
<1>3. ASSUME NEW s \in Slots, ClientDisconnected(s) PROVE IInv'
  BY <1>3, ClientDisconnectedInvariant
<1>4. ASSUME NEW s \in Slots, NEW a \in Areas \cup {NoArea}, Walk(s, a) PROVE IInv'
  <2>1. TypeOK'
    BY <1>4 DEF Walk, IInv, TypeOK, areaVars, scriptVars, history
  <2>2. UNCHANGED <<stage, CurrentTransArea, PlayerVotes, history>>
    BY <1>4 DEF Walk, areaVars
  <2> QED
    BY <2>1, <2>2 DEF IInv, SaidInside, BitsAreSaid, SaidAreBits, BitsAreActive,
                      FAllPlayersAreTouchingMe, Active, history
<1>5. ASSUME NEW s \in Slots, UpdateMiscPositions(s) PROVE IInv'
  BY <1>5, OnControlsInvariant, DeathNoticeInvariant DEF UpdateMiscPositions
<1>6. ASSUME NEW s \in Slots, Accept(s) PROVE IInv'
  BY <1>6, AcceptInvariant
<1>7. CASE ScriptSwitches \/ UNCHANGED vars
  <2>1. TypeOK'
    BY <1>7 DEF ScriptSwitches, vars, IInv, TypeOK, playerVars, areaVars, scriptVars, history
  <2>2. UNCHANGED <<stage, CurrentTransArea, PlayerVotes, history>>
    BY <1>7 DEF ScriptSwitches, vars, playerVars, areaVars
  <2> QED
    BY <2>1, <2>2 DEF IInv, SaidInside, BitsAreSaid, SaidAreBits, BitsAreActive,
                      FAllPlayersAreTouchingMe, Active, history
<1> QED
  BY <1>1, <1>2, <1>3, <1>4, <1>5, <1>6, <1>7 DEF Next

(* The invariant of the votes holds in every reachable state.              *)
THEOREM Invariance == Spec => []IInv
<1> QED
  BY InitInvariant, NextInvariant, PTL DEF Spec

(* Every variable keeps its type.                                          *)
THEOREM TypeCorrect == Spec => []TypeOK
<1>1. IInv => TypeOK
  BY DEF IInv
<1> QED
  BY <1>1, Invariance, PTL

-----------------------------------------------------------------------------
(* What the vote decides.                                                  *)

(* The vote of s succeeds: everybody else inside has voted before.         *)
LEMMA AcceptUnanimous ==
  ASSUME IInv, NEW s \in Slots, Accept(s),
         NEW a \in travel' \ travel, a \notin deserted
  PROVE  Unanimous(a)' \/ NinthAlone'
<1>1. /\ a = CurrentTransArea[s] /\ a \in Areas
      /\ UNCHANGED <<stage, CurrentTransArea>>
      /\ FAllPlayersAreTouchingMe(a)
      /\ said' = [said EXCEPT ![s] = a]
      /\ PlayerVotes[a] \cup PlayerBits(s) = Active
  BY AcceptEffect
<1>2. Active' = Active /\ s \in Here'
  BY <1>1 DEF Active, Here, Accept
<1>4. Active # {} \/ s > VoteBits
  <2>1. s \in Nat /\ VoteBits \in Nat
    BY SlotsAssumption, VoteBitsAssumption
  <2> QED BY <1>1, <2>1 DEF PlayerBits
<1>3. ASSUME NEW t \in Active
      PROVE  CurrentTransArea[t] = a /\ said'[t] = a
  <2>1. t \in Slots /\ CurrentTransArea[t] = a
    BY <1>1 DEF Active, FAllPlayersAreTouchingMe
  <2>2. t # s => t \in PlayerVotes[a]
    BY <1>1 DEF PlayerBits
  <2>3. t # s => said[t] = a
    BY <1>1, <2>1, <2>2 DEF IInv, BitsAreSaid
  <2> QED
    BY <1>1, <2>1, <2>3 DEF IInv, TypeOK
<1> QED
  BY <1>1, <1>2, <1>3, <1>4 DEF Unanimous, NinthAlone

(* Nothing but an accept makes a vote succeed.                             *)
LEMMA TravelChanges ==
  ASSUME [Next]_vars
  PROVE  travel' = travel \/ \E s \in Slots : Accept(s)
BY DEF Next, vars, ClientPutInServer, EnterWorld, ClientDisconnected, Walk,
       UpdateMiscPositions, OnControls, DeathNotice, ScriptSwitches

(* "Everyone voted, switch the map": as long as nobody has left the server *)
(* since everyone gathered in the area, a vote succeeds only when every    *)
(* player in the world is inside and has himself accepted since he came,   *)
(* or nobody is in the world and a spectator's slot has no bit.            *)
THEOREM VoteIsUnanimous == Spec => CalmVoteIsUnanimous
<1>1. IInv /\ [Next]_vars =>
        [\A a \in travel' \ travel : a \notin deserted => Unanimous(a)' \/ NinthAlone']_vars
  BY TravelChanges, AcceptUnanimous
<1> QED
  BY <1>1, Invariance, PTL DEF Spec, CalmVoteIsUnanimous

-----------------------------------------------------------------------------
(* The converse.                                                           *)

(* The last acceptance is compared with what it should be.                 *)
LEMMA AcceptTravels ==
  ASSUME IInv, CalmUnanimityTravels, NEW s \in Slots, Accept(s)
  PROVE  CalmUnanimityTravels'
<1> SUFFICES ASSUME NEW b \in Areas, Unanimous(b)', b \notin (outsiders \cup deserted)',
                    \A t \in Active' : t =< VoteBits
             PROVE  b \in travel'
  BY DEF CalmUnanimityTravels
<1> DEFINE a == CurrentTransArea[s]
<1>1. /\ a \in Areas /\ travel \subseteq travel'
      /\ UNCHANGED <<stage, CurrentTransArea>>
      /\ b \notin outsiders \cup deserted
      /\ b = a => s \in Active
      /\ said' = said \/ said' = [said EXCEPT ![s] = a]
  BY AcceptEffect
<1>2. Active' = Active
  BY <1>1 DEF Active
<1>3. Active # {} /\ \A t \in Active : CurrentTransArea[t] = b /\ said'[t] = b
  BY <1>1, <1>2 DEF Unanimous
<1>4. CASE Unanimous(b)
  BY <1>1, <1>2, <1>4 DEF CalmUnanimityTravels
<1>5. CASE ~Unanimous(b)
  <2>1. PICK t \in Active : said[t] # b
    BY <1>3, <1>5 DEF Unanimous
  <2>2. t = s /\ b = a /\ said' # said
    BY <1>1, <1>3, <2>1 DEF Active, IInv, TypeOK
  <2>3. s \notin PlayerVotes[a]
    BY <1>1, <1>3, <2>1, <2>2 DEF IInv, BitsAreSaid, FAllPlayersAreTouchingMe
  <2>4. travel' = IF PlayerVotes[a] \cup PlayerBits(s) = Active THEN travel \cup {a}
                                                               ELSE travel
    BY <2>2, <2>3, AcceptEffect
  <2>5. PlayerVotes[a] \cup PlayerBits(s) \subseteq Active
    BY <1>1, <2>2 DEF IInv, BitsAreActive, PlayerBits
  <2>6. ASSUME NEW u \in Active
        PROVE  u \in PlayerVotes[a] \cup PlayerBits(s)
    <3>1. u \in Slots /\ u =< VoteBits
      BY <1>2 DEF Active
    <3>2. CASE u = s
      BY <3>1, <3>2 DEF PlayerBits
    <3>3. CASE u # s
      <4>1. said[u] = a /\ a # NoArea
        BY <1>1, <1>3, <2>2, <3>1, <3>3, AreasAssumption DEF IInv, TypeOK
      <4> QED
        BY <3>1, <4>1 DEF IInv, SaidAreBits
    <3> QED
      BY <3>2, <3>3
  <2> QED
    BY <2>2, <2>4, <2>5, <2>6
<1> QED
  BY <1>4, <1>5

(* A step that neither records an acceptance nor takes a player out of an  *)
(* area he is counted in makes no vote unanimous.                          *)
LEMMA QuietTravels ==
  ASSUME CalmUnanimityTravels,
         Active' = Active, travel' = travel,
         \A b \in Areas : b \in outsiders \cup deserted /\ b \notin (outsiders \cup deserted)'
                            => \A t \in Slots : said'[t] # b,
         \A b \in Areas, t \in Active : CurrentTransArea'[t] = b /\ said'[t] = b
                            => CurrentTransArea[t] = b /\ said[t] = b
  PROVE  CalmUnanimityTravels'
<1> SUFFICES ASSUME NEW b \in Areas, Unanimous(b)', b \notin (outsiders \cup deserted)',
                    \A t \in Active : t =< VoteBits
             PROVE  b \in travel
  BY DEF CalmUnanimityTravels
<1>1. Active # {} /\ \A t \in Active : CurrentTransArea'[t] = b /\ said'[t] = b
  BY DEF Unanimous
<1>2. b \notin outsiders \cup deserted
  BY <1>1 DEF Active
<1>3. Unanimous(b)
  BY <1>1 DEF Unanimous
<1> QED
  BY <1>2, <1>3 DEF CalmUnanimityTravels

LEMMA NextTravels ==
  ASSUME IInv, CalmUnanimityTravels, [Next]_vars
  PROVE  CalmUnanimityTravels'
<1>1. ASSUME NEW s \in Slots, ClientPutInServer(s) PROVE CalmUnanimityTravels'
  <2>1. Active' = Active
    BY <1>1 DEF ClientPutInServer, Active, IInv, TypeOK
  <2> QED
    BY <1>1, <2>1, QuietTravels DEF ClientPutInServer, history
<1>2. ASSUME NEW s \in Slots, EnterWorld(s) PROVE CalmUnanimityTravels'
  <2> SUFFICES ASSUME NEW b \in Areas, Unanimous(b)', b \notin outsiders \cup deserted,
                      \A t \in Active' : t =< VoteBits
               PROVE  b \in travel
    BY <1>2 DEF EnterWorld, history, CalmUnanimityTravels
  <2>1. s \in Active' /\ s \notin Active /\ said' = said
    BY <1>2 DEF EnterWorld, history, Active, IInv, TypeOK
  <2>2. said[s] = b /\ b # NoArea
    BY <2>1, AreasAssumption DEF Unanimous
  <2>3. s \in PlayerVotes[b]
    BY <2>1, <2>2 DEF IInv, SaidAreBits, Active
  <2> QED
    BY <2>1, <2>3 DEF IInv, BitsAreActive
<1>3. ASSUME NEW s \in Slots, ClientDisconnected(s) PROVE CalmUnanimityTravels'
  BY <1>3 DEF ClientDisconnected, CalmUnanimityTravels
<1>4. ASSUME NEW s \in Slots, NEW a \in Areas \cup {NoArea}, Walk(s, a)
      PROVE  CalmUnanimityTravels'
  BY <1>4, QuietTravels DEF Walk, history, Active
<1>5. ASSUME NEW s \in Slots, NEW a \in Areas, OnControls(s, a) PROVE CalmUnanimityTravels'
  <2>1. /\ CurrentTransArea' = [CurrentTransArea EXCEPT ![s] = a]
        /\ Active' = Active /\ travel' = travel
    BY <1>5 DEF OnControls, Active
  <2>2. \/ /\ said' = [t \in Slots |-> IF t = s \/ said[t] = a THEN NoArea ELSE said[t]]
           /\ deserted' = deserted \ {a} /\ outsiders' = outsiders \ {a}
        \/ /\ said' = [said EXCEPT ![s] = NoArea]
           /\ deserted' = deserted /\ outsiders' = outsiders
    BY <1>5 DEF OnControls
  <2>3. \A b \in Areas : b \in outsiders \cup deserted /\ b \notin (outsiders \cup deserted)'
                           => \A t \in Slots : said'[t] # b
    BY <2>2, AreasAssumption
  <2>4. \A b \in Areas, t \in Active : CurrentTransArea'[t] = b /\ said'[t] = b
                           => CurrentTransArea[t] = b /\ said[t] = b
    BY <2>1, <2>2, AreasAssumption DEF Active, IInv, TypeOK
  <2> QED
    BY <2>1, <2>3, <2>4, QuietTravels
<1>6. ASSUME NEW s \in Slots, NEW a \in Areas, DeathNotice(s, a) PROVE CalmUnanimityTravels'
  <2>1. /\ CurrentTransArea' = [CurrentTransArea EXCEPT ![s] = NoArea]
        /\ said' = [said EXCEPT ![s] = NoArea]
        /\ Active' = Active /\ travel' = travel
        /\ deserted' = deserted /\ outsiders' = outsiders
    BY <1>6 DEF DeathNotice, Active
  <2>2. \A b \in Areas, t \in Active : CurrentTransArea'[t] = b /\ said'[t] = b
                           => CurrentTransArea[t] = b /\ said[t] = b
    BY <2>1, AreasAssumption DEF Active, IInv, TypeOK
  <2> QED
    BY <2>1, <2>2, QuietTravels
<1>7. ASSUME NEW s \in Slots, Accept(s) PROVE CalmUnanimityTravels'
  BY <1>7, AcceptTravels
<1>8. CASE ScriptSwitches \/ UNCHANGED vars
  BY <1>8, QuietTravels DEF ScriptSwitches, vars, playerVars, history, Active
<1> QED
  BY <1>1, <1>2, <1>3, <1>4, <1>5, <1>6, <1>7, <1>8 DEF Next, UpdateMiscPositions

(* "Compare the votes to what it should be": a unanimous vote has          *)
(* succeeded, as long as no spectator accepted and nobody has left the     *)
(* server since everyone gathered in the area, if everyone in the world    *)
(* has a bit in PlayerBits.                                                *)
THEOREM UnanimousVoteTravels == Spec => []CalmUnanimityTravels
<1>1. Init => CalmUnanimityTravels
  BY DEF Init, CalmUnanimityTravels, Unanimous, Active
<1>2. IInv /\ CalmUnanimityTravels /\ [Next]_vars => CalmUnanimityTravels'
  BY NextTravels
<1> QED
  BY <1>1, <1>2, Invariance, PTL DEF Spec
===============================================================================
