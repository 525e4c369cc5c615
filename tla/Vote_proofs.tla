------------------------------ MODULE Vote_proofs ------------------------------
(***************************************************************************)
(* For any number of slots, people and ticks: type correctness of Vote,    *)
(* that a vote bans the accused or nobody, that a majority of votes the    *)
(* byte can hold prevails, and that only a majority decides as long as     *)
(* nobody leaves.                                                          *)
(***************************************************************************)
EXTENDS Vote, FiniteSetTheorems, TLAPS

USE SlotsAssumption, SteamIDsAssumption, NumbersAssumption

(* While a kick vote runs the SteamID that will be banned is the accused's.*)
AccusedIsTarget ==
  fActive /\ Type = "kick" => TargetPlayerWonID = accused /\ accused \in SteamIDs

(* Whoever has voted has his bit, if there is one; until somebody leaves,  *)
(* who has a bit has voted, and who has voted counts, unless he voted      *)
(* before he had his HUD.                                                  *)
TallyIsHonest ==
  /\ fActive => Countable \subseteq VoteTally
  /\ fActive /\ ~left => VoteTally \subseteq yes
  /\ fActive /\ ~early => yes \subseteq hud

IInv == TypeOK /\ AccusedIsTarget /\ TallyIsHonest

-----------------------------------------------------------------------------

LEMMA InitInv == ASSUME Init PROVE IInv
<1>1. Here = {}
  BY DEF Init, Here
<1>2. TypeOK
  BY <1>1 DEF Init, TypeOK
<1>3. ~fActive
  BY DEF Init
<1> QED BY <1>2, <1>3 DEF IInv, AccusedIsTarget, TallyIsHonest, Countable

LEMMA ClientConnectedKeeps ==
  ASSUME IInv, NEW s \in Slots, NEW id \in SteamIDs, ClientConnected(s, id)
  PROVE  IInv'
<1>1. Here' = Here \cup {s}
  BY DEF IInv, TypeOK, ClientConnected, Here
<1>2. TypeOK'
  <2>1. player' \in [Slots -> SteamIDs \cup {NoID}]
    BY DEF IInv, TypeOK, ClientConnected
  <2>2. hud' \subseteq Here' /\ fresh' \subseteq Here' \ hud'
    BY <1>1 DEF IInv, TypeOK, ClientConnected
  <2> QED BY <1>1, <2>1, <2>2 DEF IInv, TypeOK, ClientConnected, voteVars, history
<1> QED BY <1>2 DEF IInv, AccusedIsTarget, TallyIsHonest, Countable, ClientConnected, voteVars,
                    history

LEMMA InitHUDKeeps ==
  ASSUME IInv, NEW s \in Slots, InitHUD(s)
  PROVE  IInv'
<1>1. Here' = Here /\ s \in Here
  BY DEF InitHUD, Here
<1>2. TypeOK'
  BY <1>1 DEF IInv, TypeOK, InitHUD, voteVars, history
<1> QED BY <1>2 DEF IInv, AccusedIsTarget, TallyIsHonest, Countable, InitHUD, voteVars, history

LEMMA ClientDisconnectedKeeps ==
  ASSUME IInv, NEW s \in Slots, ClientDisconnected(s)
  PROVE  IInv'
<1>1. Here' = Here \ {s}
  BY DEF IInv, TypeOK, ClientDisconnected, Here
<1>2. TypeOK'
  <2>1. /\ player' \in [Slots -> SteamIDs \cup {NoID}]
        /\ m_TimeCanVote' \in [Slots -> Nat]
    BY DEF IInv, TypeOK, ClientDisconnected
  <2>2. hud' \subseteq Here' /\ fresh' \subseteq Here' \ hud' /\ yes' \subseteq Here'
    BY <1>1 DEF IInv, TypeOK, ClientDisconnected
  <2>3. left' \in BOOLEAN
    BY DEF IInv, TypeOK, ClientDisconnected
  <2> QED BY <2>1, <2>2, <2>3 DEF IInv, TypeOK, ClientDisconnected, voteVars
<1>3. AccusedIsTarget'
  BY DEF IInv, AccusedIsTarget, ClientDisconnected, voteVars
<1>4. TallyIsHonest'
  <2>1. fActive' => left'
    BY DEF ClientDisconnected, voteVars
  <2>2. /\ fActive' = fActive /\ early' = early /\ VoteTally' = VoteTally
        /\ yes' = yes \ {s} /\ hud' = hud \ {s}
    BY DEF ClientDisconnected, voteVars
  <2>3. Countable' \subseteq Countable
    BY <2>2 DEF Countable
  <2> QED BY <2>1, <2>2, <2>3 DEF IInv, TallyIsHonest
<1> QED BY <1>2, <1>3, <1>4 DEF IInv

LEMMA StartVoteKeeps ==
  ASSUME IInv, NEW s \in Slots, NEW type \in VotesTypes, NEW target \in Slots,
         StartVote(s, type, target)
  PROVE  IInv'
<1>1. Here' = Here /\ s \in Here /\ PlayerBit(s) \subseteq {s}
  BY DEF StartVote, Here, PlayerBit
<1>2. TypeOK'
  <2>1. time + VoteTime \in Nat /\ time + VoteTime + Pause \in Nat
    BY DEF IInv, TypeOK
  <2>2. m_TimeCanVote' \in [Slots -> Nat] /\ EndTime' \in Nat
    BY <2>1 DEF IInv, TypeOK, StartVote
  <2>3. /\ TargetPlayer' \in Slots \cup {0}
        /\ TargetPlayerWonID' \in SteamIDs \cup {NoID} /\ accused' \in SteamIDs \cup {NoID}
    BY DEF IInv, TypeOK, StartVote
  <2>4. fActive' \in BOOLEAN /\ left' \in BOOLEAN /\ early' \in BOOLEAN
    BY Zenon DEF StartVote
  <2>5. VoteTally' \subseteq Slots /\ yes' \subseteq Here'
    BY <1>1 DEF StartVote, Emptied, Here
  <2> QED BY <1>1, <2>2, <2>3, <2>4, <2>5 DEF IInv, TypeOK, StartVote
<1>3. AccusedIsTarget'
  BY DEF IInv, TypeOK, AccusedIsTarget, StartVote, Here
<1>4. TallyIsHonest'
  <2>1. VoteTally' \subseteq {s} /\ yes' = {s} /\ hud' = hud /\ (~early' => s \in hud)
    BY <1>1 DEF StartVote, Emptied
  <2>2. Countable' \subseteq VoteTally'
    BY DEF StartVote, Emptied, Countable, PlayerBit
  <2> QED BY <2>1, <2>2 DEF TallyIsHonest
<1> QED BY <1>2, <1>3, <1>4 DEF IInv

LEMMA VoteCommandKeeps ==
  ASSUME IInv, NEW s \in Slots, VoteCommand(s)
  PROVE  IInv'
<1>1. Here' = Here /\ s \in Here /\ PlayerBit(s) \subseteq {s}
  BY DEF VoteCommand, Here, PlayerBit, players
<1>2. /\ VoteTally' = VoteTally \cup PlayerBit(s) /\ yes' = yes \cup {s}
      /\ early' = (early \/ s \notin hud)
      /\ UNCHANGED <<time, players, fActive, Type, TargetPlayer, TargetPlayerWonID, EndTime,
                     g_BanList, accused, left>>
  BY DEF VoteCommand, TallyVote
<1>3. TypeOK'
  <2>1. early' \in BOOLEAN
    BY <1>2 DEF IInv, TypeOK
  <2>2. VoteTally' \subseteq Slots /\ yes' \subseteq Here'
    BY <1>1, <1>2 DEF IInv, TypeOK, Here
  <2> QED BY <1>1, <1>2, <2>1, <2>2 DEF IInv, TypeOK, players
<1>4. AccusedIsTarget'
  BY <1>2 DEF IInv, AccusedIsTarget
<1>5. TallyIsHonest'
  <2>1. hud' = hud /\ (~early' => ~early /\ s \in hud)
    BY <1>2 DEF players
  <2>2. fActive /\ Countable' \subseteq Countable \cup PlayerBit(s)
    BY <1>2 DEF VoteCommand, Countable, PlayerBit
  <2> QED BY <1>1, <1>2, <2>1, <2>2 DEF IInv, TallyIsHonest
<1> QED BY <1>3, <1>4, <1>5 DEF IInv

LEMMA ThinkKeeps ==
  ASSUME IInv, Think
  PROVE  IInv'
<1>1. Here' = Here /\ time' \in Nat
  BY DEF Think, Here, IInv, TypeOK
<1>2. CASE UpdateVote
  <2>1. g_BanList' \subseteq SteamIDs
    <3>1. fActive
      BY <1>2 DEF UpdateVote
    <3>2. Banned \subseteq SteamIDs
      <4>1. SUFFICES ASSUME Passed, Type = "kick" PROVE TargetPlayerWonID \in SteamIDs
        BY DEF Banned
      <4> QED BY <3>1, <4>1 DEF IInv, AccusedIsTarget
    <3> QED BY <1>2, <3>2 DEF UpdateVote, IInv, TypeOK
  <2>2. fActive' = FALSE /\ left' = FALSE /\ early' = FALSE
    BY <1>2 DEF UpdateVote
  <2> QED BY <1>1, <1>2, <2>1, <2>2
            DEF UpdateVote, Think, IInv, TypeOK, AccusedIsTarget, TallyIsHonest, Countable
<1>3. CASE UNCHANGED <<voteVars, g_BanList, history>>
  BY <1>1, <1>3 DEF Think, IInv, TypeOK, AccusedIsTarget, TallyIsHonest, Countable, voteVars,
                    history
<1> QED BY <1>2, <1>3 DEF Think

LEMMA ChangeMapKeeps ==
  ASSUME IInv, ChangeMap
  PROVE  IInv'
<1>1. Here' = {}
  BY DEF ChangeMap, Here
<1>2. fActive' = FALSE /\ left' = FALSE /\ early' = FALSE /\ g_BanList' = g_BanList
  BY DEF ChangeMap
<1>3. /\ player' \in [Slots -> SteamIDs \cup {NoID}] /\ m_TimeCanVote' \in [Slots -> Nat]
      /\ time' \in Nat /\ EndTime' \in Nat
  BY DEF ChangeMap
<1>4. TypeOK'
  BY <1>1, <1>2, <1>3 DEF ChangeMap, IInv, TypeOK
<1> QED BY <1>2, <1>4 DEF IInv, AccusedIsTarget, TallyIsHonest, Countable

LEMMA StepKeeps ==
  ASSUME IInv, [Next]_vars
  PROVE  IInv'
<1>1. ASSUME NEW s \in Slots,
             \/ \E id \in SteamIDs : ClientConnected(s, id)
             \/ InitHUD(s)
             \/ ClientDisconnected(s)
             \/ \E type \in VotesTypes, target \in Slots : StartVote(s, type, target)
             \/ VoteCommand(s)
      PROVE  IInv'
  BY <1>1, ClientConnectedKeeps, InitHUDKeeps, ClientDisconnectedKeeps, StartVoteKeeps,
     VoteCommandKeeps
<1>2. CASE UNCHANGED vars
  <2>1. Here' = Here
    BY <1>2 DEF vars, players, Here
  <2> QED BY <1>2, <2>1 DEF IInv, TypeOK, AccusedIsTarget, TallyIsHonest, Countable, vars,
                            players, voteVars, history
<1> QED BY <1>1, <1>2, ThinkKeeps, ChangeMapKeeps DEF Next

LEMMA Always == Spec => []IInv
<1>1. IInv /\ [Next]_vars => IInv'
  BY StepKeeps
<1> QED BY <1>1, InitInv, PTL DEF Spec
-----------------------------------------------------------------------------
(* Every variable of the vote keeps its type.                              *)
THEOREM TypeCorrect == Spec => []TypeOK
<1>1. IInv => TypeOK
  BY DEF IInv
<1> QED BY <1>1, Always, PTL

(* A vote bans the player it was started against, or nobody, whoever is in *)
(* his slot when it ends.                                                  *)
THEOREM OnlyTheAccused == Spec => BansTheAccused
<1>1. ASSUME IInv, [Next]_vars
      PROVE  [g_BanList' \subseteq g_BanList \cup {accused}]_vars
  <2>1. CASE fActive /\ UpdateVote
    <3>1. Banned \subseteq {accused}
      BY <1>1, <2>1 DEF Banned, IInv, AccusedIsTarget
    <3> QED BY <2>1, <3>1 DEF UpdateVote
  <2>2. CASE g_BanList' = g_BanList
    BY <2>2
  <2>3. UNCHANGED vars \/ (fActive /\ UpdateVote) \/ g_BanList' = g_BanList
    BY <1>1 DEF Next, ClientConnected, InitHUD, ClientDisconnected, StartVote, VoteCommand, Think,
                ChangeMap, UpdateVote
  <2> QED BY <2>1, <2>2, <2>3
<1>2. IInv /\ [Next]_vars => [g_BanList' \subseteq g_BanList \cup {accused}]_vars
  BY <1>1
<1> QED BY <1>2, Always, PTL DEF Spec, BansTheAccused

(* If nobody left during the vote and nobody voted before he had his HUD,  *)
(* a vote that succeeds has more than half of the players counted.         *)
THEOREM MajorityUnlessLeft == Spec => SettledMajorityDecides
<1>1. ASSUME IInv, UpdateVote, Passed, ~early, ~left PROVE Majority
  <2>1. VoteTally \subseteq yes \cap hud
    BY <1>1 DEF UpdateVote, IInv, TallyIsHonest, Countable
  <2>2. IsFiniteSet(yes \cap hud) /\ IsFiniteSet(hud)
    <3>1. hud \subseteq Slots
      BY <1>1 DEF IInv, TypeOK, Here
    <3> QED BY <3>1, FS_Subset
  <2>3. Cardinality(VoteTally) =< Cardinality(yes \cap hud) /\ IsFiniteSet(VoteTally)
    BY <2>1, <2>2, FS_Subset
  <2>4. Cardinality(VoteTally) \in Nat /\ Cardinality(yes \cap hud) \in Nat /\ Cardinality(hud) \in Nat
    BY <2>2, <2>3, FS_CardinalityType
  <2>5. 2 * Cardinality(VoteTally) > Cardinality(hud)
    BY <1>1 DEF Passed, Total
  <2> QED BY <2>3, <2>4, <2>5 DEF Majority
<1>2. IInv => [UpdateVote /\ Passed /\ ~early /\ ~left => Majority]_vars
  BY <1>1
<1> QED BY <1>2, Always, PTL DEF SettledMajorityDecides

(* A kick vote with more than half of the players counted, in the votes of *)
(* slots that have a bit, bans the accused, with any number of slots.      *)
THEOREM MajorityBans == Spec => MajorityPrevails
<1>1. ASSUME IInv, UpdateVote, Type = "kick", 2 * Cardinality(Countable) > Cardinality(hud)
      PROVE  accused \in g_BanList'
  <2>1. Countable \subseteq VoteTally /\ TargetPlayerWonID = accused
    BY <1>1 DEF UpdateVote, IInv, TallyIsHonest, AccusedIsTarget, Countable
  <2>2. IsFiniteSet(VoteTally) /\ IsFiniteSet(hud)
    <3>1. VoteTally \subseteq Slots /\ hud \subseteq Slots
      BY <1>1 DEF IInv, TypeOK, Here
    <3> QED BY <3>1, FS_Subset
  <2>3. Cardinality(Countable) =< Cardinality(VoteTally) /\ IsFiniteSet(Countable)
    BY <2>1, <2>2, FS_Subset
  <2>4. /\ Cardinality(VoteTally) \in Nat /\ Cardinality(hud) \in Nat
        /\ Cardinality(Countable) \in Nat
    BY <2>2, <2>3, FS_CardinalityType
  <2>5. Passed
    BY <1>1, <2>3, <2>4 DEF Passed, Total
  <2>6. Banned = {accused}
    BY <1>1, <2>1, <2>5 DEF Banned
  <2> QED BY <1>1, <2>6 DEF UpdateVote
<1>2. IInv => [UpdateVote /\ Type = "kick" /\ 2 * Cardinality(Countable) > Cardinality(hud)
                 => accused \in g_BanList']_vars
  BY <1>1
<1> QED BY <1>2, Always, PTL DEF MajorityPrevails
===============================================================================
