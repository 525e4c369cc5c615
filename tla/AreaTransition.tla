---------------------------- MODULE AreaTransition ----------------------------
(***************************************************************************)
(* CAreaTransition: the areas of a map that lead to another map.  A player *)
(* in one may accept to travel; when everyone who is in the world stands   *)
(* in the same area and has accepted, the players are saved and the game   *)
(* master changes the map.  Votes are bits of client slots, kept by the    *)
(* area.                                                                   *)
(*                                                                         *)
(* Each handler is one step of the game thread.  Where a player stands and *)
(* when his area is looked at again (CheckAreaTime, every 1.5 seconds) are *)
(* separate steps, so what an area believes lags behind where players are. *)
(***************************************************************************)
EXTENDS Integers

CONSTANTS
  Slots,          \* entity indexes of the clients, from 1 .. maxClients
  Areas,          \* the msarea_transition entities
  NoArea,
  VoteBits        \* bits of the byte PlayerBits

ASSUME SlotsAssumption == Slots \subseteq Nat \ {0}
ASSUME AreasAssumption == NoArea \notin Areas
ASSUME VoteBitsAssumption == VoteBits \in Nat

VARIABLES
  stage,             \* what the slot holds: nobody, a spectator, a player in the world
  where,             \* the area the player stands in
  CurrentTransArea,  \* CBasePlayer::CurrentTransArea
  PlayerVotes,       \* CAreaTransition::PlayerVotes, as a set of slots
  bDidVote,          \* CAreaTransition::bDidVote
  locked,            \* areas whose ms_master is not triggered
  disabled,          \* the game master's GM_DISABLE_TRANSITIONS
  travel,            \* areas whose vote has succeeded
  said,              \* history: the area this player accepted since he entered it
  deserted,          \* history: areas for which somebody left the server since everyone
                     \* last gathered in them
  outsiders          \* history: likewise, a spectator accepted

playerVars == <<stage, where, CurrentTransArea>>
areaVars   == <<PlayerVotes, bDidVote>>
scriptVars == <<locked, disabled>>
history    == <<said, deserted, outsiders>>
vars == <<playerVars, areaVars, scriptVars, travel, history>>

Stages == {"absent", "spectator", "active"}

Here == {s \in Slots : stage[s] # "absent"}

(* CBasePlayer::IsActive: PLR_IN_WORLD, which scripts set for a player who *)
(* has a character (so m_CharacterState is not UNLOADED) and leave set; no *)
(* bot, and no fewer than 15 hit points.                                   *)
Active == {s \in Slots : stage[s] = "active"}

FAllPlayersAreTouchingMe(a) == \A s \in Active : CurrentTransArea[s] = a

(* Mutant of PlayerBits: the bit of the slot below.                        *)
PlayerBits_ZeroBased(s) == IF s =< VoteBits THEN {s - 1} ELSE {}

(* byte PlayerBits = 1 << (iRequest - 1): no bit is left for the slots     *)
(* above the eighth.                                                       *)
PlayerBits(s) == IF s =< VoteBits THEN {s} ELSE {}

-----------------------------------------------------------------------------
(* Players come, get a character, walk and go.                             *)

(* A new entity starts from zeroed memory.                                 *)
ClientPutInServer(s) ==
  /\ stage[s] = "absent"
  /\ stage' = [stage EXCEPT ![s] = "spectator"]
  /\ UNCHANGED <<where, CurrentTransArea, areaVars, scriptVars, travel, history>>

EnterWorld(s) ==
  /\ stage[s] = "spectator"
  /\ stage' = [stage EXCEPT ![s] = "active"]
  /\ UNCHANGED <<where, CurrentTransArea, areaVars, scriptVars, travel, history>>

Walk(s, a) ==
  /\ s \in Here
  /\ where' = [where EXCEPT ![s] = a]
  /\ UNCHANGED <<stage, CurrentTransArea, areaVars, scriptVars, travel, history>>

(* SUB_Remove; no area is told.                                            *)
ClientDisconnected(s) ==
  /\ s \in Here
  /\ stage' = [stage EXCEPT ![s] = "absent"]
  /\ where' = [where EXCEPT ![s] = NoArea]
  /\ CurrentTransArea' = [CurrentTransArea EXCEPT ![s] = NoArea]
  /\ said' = [said EXCEPT ![s] = NoArea]
  /\ deserted' = Areas
  /\ UNCHANGED <<areaVars, scriptVars, travel, outsiders>>

(* The game master script and the map's triggers.                          *)
ScriptSwitches ==
  /\ disabled' \in BOOLEAN
  /\ locked' \in SUBSET Areas
  /\ UNCHANGED <<playerVars, areaVars, travel, history>>

-----------------------------------------------------------------------------
(* UpdateMiscPositions: the area a player stands in gets OnControls, the   *)
(* one he has left DeathNotice.                                            *)

(* Mutant of OnControls: the last one to arrive does not clear the votes.  *)
OnControls_NoReset(s, a) ==
  /\ where[s] = a /\ a \notin locked /\ ~disabled
  /\ CurrentTransArea[s] # a
  /\ CurrentTransArea' = [CurrentTransArea EXCEPT ![s] = a]
  /\ said' = [said EXCEPT ![s] = NoArea]
  /\ UNCHANGED <<stage, where, areaVars, scriptVars, travel, deserted, outsiders>>

(* The last one to arrive clears the votes: with s inside, everyone is.    *)
(* The character is saved (FNCharacters!Save).                             *)
OnControls(s, a) ==
  /\ where[s] = a /\ a \notin locked /\ ~disabled
  /\ CurrentTransArea[s] # a
  /\ CurrentTransArea' = [CurrentTransArea EXCEPT ![s] = a]
  /\ IF \A t \in Active \ {s} : CurrentTransArea[t] = a
     THEN /\ PlayerVotes' = [PlayerVotes EXCEPT ![a] = {}]
          /\ said' = [t \in Slots |-> IF t = s \/ said[t] = a THEN NoArea ELSE said[t]]
          /\ deserted' = deserted \ {a}
          /\ outsiders' = outsiders \ {a}
     ELSE /\ UNCHANGED <<PlayerVotes, deserted, outsiders>>
          /\ said' = [said EXCEPT ![s] = NoArea]
  /\ UNCHANGED <<stage, where, bDidVote, scriptVars, travel>>

(* An area that is locked or disabled ignores the notice and goes on       *)
(* counting the player as inside.                                          *)
DeathNotice(s, a) ==
  /\ where[s] = NoArea /\ CurrentTransArea[s] = a
  /\ a \notin locked /\ ~disabled
  /\ CurrentTransArea' = [CurrentTransArea EXCEPT ![s] = NoArea]
  /\ bDidVote' = [bDidVote EXCEPT ![a] = FALSE]
  /\ said' = [said EXCEPT ![s] = NoArea]
  /\ UNCHANGED <<stage, where, PlayerVotes, scriptVars, travel, deserted, outsiders>>

UpdateMiscPositions(s) ==
  /\ s \in Here
  /\ \E a \in Areas : OnControls(s, a) \/ DeathNotice(s, a)

-----------------------------------------------------------------------------
(* "accept": MSQuery of the player's area.                                 *)

(* Mutant of AllVotes: players who are not in the world are waited for.    *)
AllVotes_Here == Here

AllVotes == Active

(* Votes only count while everyone is inside.  A bit that is set already   *)
(* ends the call before the votes are compared.                            *)
MSQuery(s, a) ==
  /\ ~disabled
  /\ bDidVote' = [bDidVote EXCEPT ![a] = TRUE]
  /\ said' = IF FAllPlayersAreTouchingMe(a) THEN [said EXCEPT ![s] = a] ELSE said
  /\ IF FAllPlayersAreTouchingMe(a) /\ PlayerBits(s) \cap PlayerVotes[a] = {}
     THEN /\ PlayerVotes' = [PlayerVotes EXCEPT ![a] = @ \cup PlayerBits(s)]
          /\ travel' = IF PlayerVotes'[a] = AllVotes THEN travel \cup {a} ELSE travel
     ELSE UNCHANGED <<PlayerVotes, travel>>

Accept(s) ==
  /\ s \in Here
  /\ CurrentTransArea[s] # NoArea
  /\ MSQuery(s, CurrentTransArea[s])
  /\ outsiders' = IF s \in Active THEN outsiders ELSE outsiders \cup {CurrentTransArea[s]}
  /\ UNCHANGED <<playerVars, scriptVars, deserted>>

-----------------------------------------------------------------------------
(* A new map: the areas are new entities in zeroed memory.                 *)
Init ==
  /\ stage = [s \in Slots |-> "absent"]
  /\ where = [s \in Slots |-> NoArea]
  /\ CurrentTransArea = [s \in Slots |-> NoArea]
  /\ PlayerVotes = [a \in Areas |-> {}]
  /\ bDidVote = [a \in Areas |-> FALSE]
  /\ locked \in SUBSET Areas
  /\ disabled = FALSE
  /\ travel = {}
  /\ said = [s \in Slots |-> NoArea]
  /\ deserted = {} /\ outsiders = {}

Next ==
  \/ \E s \in Slots :
       \/ ClientPutInServer(s) \/ EnterWorld(s) \/ ClientDisconnected(s)
       \/ \E a \in Areas \cup {NoArea} : Walk(s, a)
       \/ UpdateMiscPositions(s)
       \/ Accept(s)
  \/ ScriptSwitches

Spec == Init /\ [][Next]_vars

-----------------------------------------------------------------------------
(* Properties.                                                             *)

(* Every variable keeps its type.                                          *)
TypeOK ==
  /\ stage \in [Slots -> Stages]
  /\ where \in [Slots -> Areas \cup {NoArea}]
  /\ CurrentTransArea \in [Slots -> Areas \cup {NoArea}]
  /\ PlayerVotes \in [Areas -> SUBSET Slots]
  /\ bDidVote \in [Areas -> BOOLEAN]
  /\ locked \subseteq Areas /\ disabled \in BOOLEAN
  /\ travel \subseteq Areas
  /\ said \in [Slots -> Areas \cup {NoArea}]
  /\ deserted \subseteq Areas /\ outsiders \subseteq Areas

(* Every player in the world is in the area and has himself accepted since *)
(* he entered it.                                                          *)
Unanimous(a) ==
  /\ Active # {}
  /\ \A s \in Active : CurrentTransArea[s] = a /\ said[s] = a

(* A spectator whose slot has no bit accepts with nobody in the world: no  *)
(* votes are what they should be, and the map changes.                     *)
NinthAlone == Active = {} /\ \E s \in Here : s > VoteBits

(* As long as nobody has left the server since everyone gathered in the    *)
(* area, a vote succeeds only if it is unanimous: whoever walks, connects, *)
(* enters the world, or finds the area locked, in whatever slot, but for   *)
(* the ninth player alone.                                                 *)
CalmVoteIsUnanimous ==
  [][\A a \in travel' \ travel : a \notin deserted => Unanimous(a)' \/ NinthAlone']_vars

(* The converse, "Compare the votes to what it should be": a vote among    *)
(* players in the world that is unanimous has succeeded, if again nobody   *)
(* left the server and all in the world are within VoteBits.  With a ninth *)
(* among them it never does.                                               *)
CalmUnanimityTravels ==
  \A a \in Areas :
    /\ Unanimous(a) /\ a \notin outsiders \cup deserted
    /\ \A s \in Active : s =< VoteBits
    => a \in travel
===============================================================================
