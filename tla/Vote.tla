--------------------------------- MODULE Vote ---------------------------------
(***************************************************************************)
(* The server's vote (CHalfLifeMultiplay::m_CurrentVote): one at a time,   *)
(* started and answered by console commands, counted every frame, ended by *)
(* its time limit or by the server holding no more than one player.  A     *)
(* kick vote that succeeds bans its target.  Yes votes are bits of client  *)
(* slots; the ban names a SteamID.                                         *)
(*                                                                         *)
(* Every command and every frame's UpdateVote is one step of the game      *)
(* thread; any number of commands, connections and disconnections comes    *)
(* between two frames.                                                     *)
(***************************************************************************)
EXTENDS Integers, FiniteSets

CONSTANTS
  Slots,      \* entity indexes of the clients, 1 .. maxClients
  SteamIDs,
  NoID,
  VoteBits,   \* bits of the byte PlayerBit
  VoteTime,   \* how long a vote lasts
  Pause,      \* how long its starter has to wait after that
  MaxTime     \* bound: the clock of one map

ASSUME SlotsAssumption == Slots \subseteq Nat \ {0} /\ IsFiniteSet(Slots)
ASSUME SteamIDsAssumption == NoID \notin SteamIDs
ASSUME NumbersAssumption == {VoteBits, VoteTime, Pause, MaxTime} \subseteq Nat

VARIABLES
  time,               \* gpGlobals->time
  player,             \* the SteamID connected in a slot
  hud,                \* slots with m_fGameHUDInitialized
  fresh,              \* slots whose player came since the last frame
  m_TimeCanVote,
  fActive, Type, TargetPlayer, TargetPlayerWonID, EndTime, VoteTally,  \* m_CurrentVote
  g_BanList,
  yes,                \* history: slots whose present player voted yes in this vote
  accused,            \* history: the player a kick vote was started against
  left,               \* history: a player left during this vote
  early               \* history: a player without HUD voted in this vote

players  == <<player, hud, fresh, m_TimeCanVote>>
voteVars == <<fActive, Type, TargetPlayer, TargetPlayerWonID, EndTime, VoteTally>>
history  == <<yes, accused, left, early>>
vars == <<time, players, voteVars, g_BanList, history>>

VotesTypes == {"kick", "advtime"}

Here == {s \in Slots : player[s] # NoID}

(* Mutant of PlayerBit: the bit of the slot below.                         *)
PlayerBit_ZeroBased(s) == IF s =< VoteBits THEN {s - 1} ELSE {}

(* byte PlayerBit = 1 << (entindex - 1): no bit is left for the slots      *)
(* above the eighth.                                                       *)
PlayerBit(s) == IF s =< VoteBits THEN {s} ELSE {}

-----------------------------------------------------------------------------
(* Players come and go.                                                    *)

(* The engine lets a SteamID in once; the game refuses the banned.         *)
ClientConnected(s, id) ==
  /\ s \notin Here
  /\ id \notin g_BanList
  /\ \A t \in Here : player[t] # id
  /\ player' = [player EXCEPT ![s] = id]
  /\ fresh' = fresh \cup {s}
  /\ UNCHANGED <<time, hud, m_TimeCanVote, voteVars, g_BanList, history>>

(* The first UpdateClientData of the player, in a later frame.             *)
InitHUD(s) ==
  /\ s \in Here \ (hud \cup fresh)
  /\ hud' = hud \cup {s}
  /\ UNCHANGED <<time, player, fresh, m_TimeCanVote, voteVars, g_BanList, history>>

(* The vote is not told.  The slot's next entity starts from zeroed memory. *)
ClientDisconnected(s) ==
  /\ s \in Here
  /\ player' = [player EXCEPT ![s] = NoID]
  /\ hud' = hud \ {s} /\ fresh' = fresh \ {s}
  /\ m_TimeCanVote' = [m_TimeCanVote EXCEPT ![s] = 0]
  /\ yes' = yes \ {s}
  /\ left' = fActive
  /\ UNCHANGED <<time, voteVars, g_BanList, accused, early>>

-----------------------------------------------------------------------------
(* "startvote" and "vote".                                                 *)

(* Mutant of TallyVote: the bits are assigned, not set.                    *)
TallyVote_Assigns(s) ==
  /\ VoteTally' = PlayerBit(s)
  /\ yes' = yes \cup {s}
  /\ early' = (early \/ s \notin hud)

(* TallyVote: a yes counts once per slot.                                  *)
TallyVote(s) ==
  /\ VoteTally' = VoteTally \cup PlayerBit(s)
  /\ yes' = yes \cup {s}
  /\ early' = (early \/ s \notin hud)

(* Mutant of Emptied: the votes of the vote before still count.            *)
Emptied_Not == VoteTally

Emptied == {}

(* The starter's own yes is tallied right away.                            *)
StartVote(s, type, target) ==
  /\ s \in Here /\ ~fActive /\ time >= m_TimeCanVote[s]
  /\ time + VoteTime =< MaxTime
  /\ type = "kick" => target \in Here
  /\ fActive' = TRUE /\ Type' = type
  /\ TargetPlayer' = IF type = "kick" THEN target ELSE 0
  /\ TargetPlayerWonID' = IF type = "kick" THEN player[target] ELSE NoID
  /\ EndTime' = time + VoteTime
  /\ VoteTally' = Emptied \cup PlayerBit(s)
  /\ m_TimeCanVote' = [m_TimeCanVote EXCEPT ![s] = time + VoteTime + Pause]
  /\ yes' = {s} /\ early' = (s \notin hud) /\ left' = FALSE
  /\ accused' = IF type = "kick" THEN player[target] ELSE NoID
  /\ UNCHANGED <<time, player, hud, fresh, g_BanList>>

(* Anything but a yes is not counted.                                      *)
VoteCommand(s) ==
  /\ s \in Here /\ fActive
  /\ TallyVote(s)
  /\ UNCHANGED <<time, players, fActive, Type, TargetPlayer, TargetPlayerWonID, EndTime,
                 g_BanList, accused, left>>

-----------------------------------------------------------------------------
(* UpdateVote, every frame.                                                *)

Total == Cardinality(hud)

(* "If yes ratio is over 50%"; with no player left, x / 0.0 is over 50%    *)
(* for any x above zero.                                                   *)
Passed == 2 * Cardinality(VoteTally) > Total

(* Mutant of Banned: whoever is in the target's slot now is banned.        *)
Banned_BySlot == IF Passed /\ Type = "kick" THEN {player[TargetPlayer]} \ {NoID} ELSE {}

(* The SteamID the vote was started against, wherever its player is now.   *)
Banned == IF Passed /\ Type = "kick" THEN {TargetPlayerWonID} ELSE {}

(* Mutant of TimeIsUp: the vote waits for everybody.                       *)
TimeIsUp_Never == Total =< 1 \/ yes = Here

(* "If only one player is on the server, finish the vote immediately."     *)
TimeIsUp == time >= EndTime \/ Total =< 1

(* The kick that goes with the ban is a server command the engine runs     *)
(* later (ClientDisconnected).                                             *)
UpdateVote ==
  /\ fActive /\ TimeIsUp
  /\ fActive' = FALSE
  /\ g_BanList' = g_BanList \cup Banned
  /\ yes' = {} /\ accused' = NoID /\ left' = FALSE /\ early' = FALSE
  /\ UNCHANGED <<Type, TargetPlayer, TargetPlayerWonID, EndTime, VoteTally>>

Think ==
  /\ \/ UpdateVote
     \/ ~(fActive /\ TimeIsUp) /\ UNCHANGED <<voteVars, g_BanList, history>>
  /\ time' \in {time, time + 1} /\ time' =< MaxTime
  /\ fresh' = {}
  /\ UNCHANGED <<player, hud, m_TimeCanVote>>

(* EndMultiplayerGame and the next map's CHalfLifeMultiplay: the vote is   *)
(* dropped, the ban list stays.                                            *)
ChangeMap ==
  /\ time' = 0
  /\ player' = [s \in Slots |-> NoID]
  /\ hud' = {} /\ fresh' = {}
  /\ m_TimeCanVote' = [s \in Slots |-> 0]
  /\ fActive' = FALSE /\ Type' = "none"
  /\ TargetPlayer' = 0 /\ TargetPlayerWonID' = NoID
  /\ EndTime' = 0 /\ VoteTally' = {}
  /\ yes' = {} /\ accused' = NoID /\ left' = FALSE /\ early' = FALSE
  /\ UNCHANGED g_BanList

-----------------------------------------------------------------------------
(* m_CurrentVote before the first vote is not read.                        *)
Init ==
  /\ time = 0
  /\ player = [s \in Slots |-> NoID]
  /\ hud = {} /\ fresh = {}
  /\ m_TimeCanVote = [s \in Slots |-> 0]
  /\ fActive = FALSE /\ Type = "none"
  /\ TargetPlayer = 0 /\ TargetPlayerWonID = NoID
  /\ EndTime = 0 /\ VoteTally = {}
  /\ g_BanList = {}
  /\ yes = {} /\ accused = NoID /\ left = FALSE /\ early = FALSE

Next ==
  \/ \E s \in Slots :
       \/ \E id \in SteamIDs : ClientConnected(s, id)
       \/ InitHUD(s)
       \/ ClientDisconnected(s)
       \/ \E type \in VotesTypes, target \in Slots : StartVote(s, type, target)
       \/ VoteCommand(s)
  \/ Think
  \/ ChangeMap

Spec == Init /\ [][Next]_vars

(* Frames go on, and time with them.                                       *)
FairSpec == Spec /\ WF_vars(Think /\ (UpdateVote \/ time' # time))

-----------------------------------------------------------------------------
(* Properties.                                                             *)

(* Every variable keeps its type.                                          *)
TypeOK ==
  /\ time \in Nat
  /\ player \in [Slots -> SteamIDs \cup {NoID}]
  /\ hud \subseteq Here /\ fresh \subseteq Here \ hud
  /\ m_TimeCanVote \in [Slots -> Nat]
  /\ fActive \in BOOLEAN /\ Type \in VotesTypes \cup {"none"}
  /\ TargetPlayer \in Slots \cup {0} /\ TargetPlayerWonID \in SteamIDs \cup {NoID}
  /\ EndTime \in Nat /\ VoteTally \subseteq Slots
  /\ g_BanList \subseteq SteamIDs
  /\ yes \subseteq Here /\ accused \in SteamIDs \cup {NoID}
  /\ left \in BOOLEAN /\ early \in BOOLEAN

(* "If the player leaves and a new player joins, don't kick/ban the new    *)
(* player": a vote bans the player it was started against or nobody.       *)
BansTheAccused == [][g_BanList' \subseteq g_BanList \cup {accused}]_vars

(* More than half of the players that are counted have voted yes.          *)
Majority == 2 * Cardinality(yes \cap hud) > Cardinality(hud)

(* "If yes ratio is over 50%, take action": among players who vote with    *)
(* their HUD there, and with somebody left on the server, a vote succeeds  *)
(* only with the votes of a majority of the players still there.           *)
MajorityDecides ==
  [][UpdateVote /\ Passed /\ ~early /\ hud # {} => Majority]_vars

(* That is so if nobody left the server during the vote: whoever connects, *)
(* in whatever slot.                                                       *)
SettledMajorityDecides == [][UpdateVote /\ Passed /\ ~early /\ ~left => Majority]_vars

(* Votes the byte can hold: a yes from a slot above VoteBits is lost.       *)
Countable == {s \in yes : s =< VoteBits}

(* The other way round: a kick vote that more than half of the counted     *)
(* players want, with the yes of slots the byte has a bit for, bans the    *)
(* accused, whoever joined, left or took a slot since; a leaver's yes can  *)
(* only add to it.  The yes of a ninth player does not help.               *)
MajorityPrevails ==
  [][UpdateVote /\ Type = "kick" /\ 2 * Cardinality(Countable) > Cardinality(hud)
       => accused \in g_BanList']_vars

(* A vote comes to an end, whoever votes, leaves or stays silent.          *)
VoteEnds == fActive ~> ~fActive
===============================================================================
