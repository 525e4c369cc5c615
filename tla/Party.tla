--------------------------------- MODULE Party ---------------------------------
(***************************************************************************)
(* Parties (CTeam).  A player founds a party by naming it, asks the leader *)
(* of an existing one to let him in, leaves, and is put back into the      *)
(* party his character was saved with when it is loaded, after a reconnect *)
(* or a map change.  The leader is the first member.  A party is an object *)
(* of the server's memory: players point to it, and once it is deleted a   *)
(* new one may be made at the same address.                                *)
(*                                                                         *)
(* Each command and each frame is one step of the game thread.  Empty      *)
(* parties live until the next frame.  A slot is always used by the same   *)
(* person with the same character, and a load returns what was saved last: *)
(* FNCharacters has what happens if not.                                   *)
(***************************************************************************)
EXTENDS Integers, Sequences

CONSTANTS
  Slots,       \* entity indexes of the clients
  Addresses,   \* where a CTeam may be allocated
  NoTeam,      \* NULL
  IDs,         \* what NewTeamID may draw
  NoID,        \* 0
  Names,       \* of up to MAX_TEAMNAME_LEN letters
  NoName,      \* the empty name
  SavedName,   \* a name cut to the 11 letters that Data.Party holds
  Collisions   \* a draw may meet the ID of a party that only lives in saved records

ASSUME SlotsAssumption == Slots \subseteq Nat
ASSUME AddressesAssumption == NoTeam \notin Addresses
ASSUME IDsAssumption == NoID \notin IDs
ASSUME NamesAssumption == NoName \notin Names /\ SavedName \in [Names -> Names]
ASSUME CollisionsAssumption == Collisions \in BOOLEAN

VARIABLES
  stage,        \* what the slot holds: nobody, a spectator, a player with his character
  m_pTeam,      \* CBasePlayer::m_pTeam
  m_pJoinTeam,  \* CBasePlayer::m_pJoinTeam
  saved,        \* the party in the character's record
  Teams,        \* CTeam::Teams
  party,        \* m_TeamName and m_ID
  MemberList,
  was,          \* history: the party ID of the player when he was last saved on the way out
  intact,       \* history: players whose party nobody changed since they loaded
  refused       \* history: party IDs that a load in this map has not restored

playerVars == <<stage, m_pTeam, m_pJoinTeam>>
teamVars   == <<Teams, party, MemberList>>
history    == <<was, intact, refused>>
vars == <<playerVars, saved, teamVars, history>>

Stages == {"absent", "spectator", "loaded"}

NoParty == [name |-> NoName, id |-> NoID]
Parties == [name : Names, id : IDs]

Here == {p \in Slots : stage[p] # "absent"}

Elements(s) == {s[k] : k \in DOMAIN s}

Without(s, n) == [k \in 1 .. Len(s) - 1 |-> IF k < n THEN s[k] ELSE s[k + 1]]

Min(S) == CHOOSE p \in S : \A q \in S : p =< q

-----------------------------------------------------------------------------
(* CTeam.                                                                  *)

Named(name) == {t \in Teams : party[t].name = name}
WithID(id)  == {t \in Teams : party[t].id = id}

(* Mutant of NewTeamID: 0 may be drawn.                                    *)
NewTeamID_Zero == {id \in IDs \cup {NoID} : WithID(id) = {}}

(* RANDOM_LONG until no party of this map has the ID.                      *)
NewTeamID ==
  {id \in IDs : WithID(id) = {} /\ (Collisions \/ \A p \in Slots : saved[p].id # id)}

(* ValidateUnits: members whose entity is gone are erased.                 *)
Validated(s) ==
  IF Elements(s) \subseteq Here THEN s ELSE SelectSeq(s, LAMBDA p : p \in Here)

PartyOf(p) == IF m_pTeam[p] = NoTeam THEN NoParty ELSE party[m_pTeam[p]]

(* RemoveFromTeam, on m_pTeam[p].                                          *)
Removed(list, p) ==
  LET t == m_pTeam[p]
      v == Validated(list[t])
      N == {k \in DOMAIN v : v[k] = p}
  IN IF t = NoTeam \/ p \notin Here \/ N = {} THEN list
     ELSE [list EXCEPT ![t] = Without(v, Min(N))]

(* Mutant of Added: a new member goes first.                               *)
Added_First(list, p, t) ==
  IF t = NoTeam \/ p \in Elements(list[t]) THEN list
  ELSE [list EXCEPT ![t] = <<p>> \o Validated(@)]

(* AddToTeam.                                                              *)
Added(list, p, t) ==
  IF t = NoTeam \/ p \in Elements(list[t]) THEN list
  ELSE [list EXCEPT ![t] = Append(Validated(@), p)]

(* CBasePlayer::SetTeam, also of the party the player is in: he is then    *)
(* erased and added again.                                                 *)
SetTeam(p, t) ==
  /\ m_pTeam' = [m_pTeam EXCEPT ![p] = t]
  /\ MemberList' = Added(Removed(MemberList, p), p, t)

(* Mutant of Allowed: only the ID has to be new.                           *)
Allowed_AnyName(name) == TRUE

(* "A different party already uses this name."                             *)
Allowed(name) == Named(name) = {}

(* CreateTeam(name, id) on t, with the ID drawn or given.                  *)
New(t, name, id) ==
  /\ t \in Addresses \ Teams
  /\ Teams' = Teams \cup {t}
  /\ party' = [party EXCEPT ![t] = [name |-> name, id |-> id]]

-----------------------------------------------------------------------------
(* The commands.                                                           *)

(* "joinparty" with a new name.                                            *)
Found(p, name) ==
  /\ p \in Here /\ m_pTeam[p] = NoTeam
  /\ Named(name) = {}
  /\ \E t \in Addresses, id \in NewTeamID : New(t, name, id) /\ SetTeam(p, t)
  /\ intact' = intact \ {p}
  /\ UNCHANGED <<stage, m_pJoinTeam, saved, was, refused>>

(* "joinparty" with the name of a party.  It goes to the player in         *)
(* MemberList[0], also if the list is empty: the cell then still holds the *)
(* slot of the last member, who may be on the server or not.               *)
Ask(p, name) ==
  /\ p \in Here /\ m_pTeam[p] = NoTeam
  /\ \E t \in Named(name) :
       /\ MemberList' = [MemberList EXCEPT ![t] = Validated(@)]
       /\ m_pJoinTeam' = [m_pJoinTeam EXCEPT ![p] = t]
  /\ UNCHANGED <<stage, m_pTeam, saved, Teams, party, was, intact, refused>>

(* "leaveparty": an empty party stays until the frame deletes it.          *)
LeaveParty(p) ==
  /\ p \in Here /\ m_pTeam[p] # NoTeam
  /\ SetTeam(p, NoTeam)
  /\ intact' = intact \ {p}
  /\ UNCHANGED <<stage, m_pJoinTeam, saved, Teams, party, was, refused>>

Leads(p, t) == t # NoTeam /\ MemberList[t] # <<>> /\ MemberList[t][1] = p

Waiting(t) == {q \in Here : m_pJoinTeam[q] = t}

(* "accept" of a party's leader: the lowest slot that waits is taken in,   *)
(* whatever has become of it since it asked.                               *)
Accept(p) ==
  LET t == m_pTeam[p]
  IN /\ p \in Here /\ Leads(p, t)
     /\ \E q \in Waiting(t) :
          /\ \A r \in Waiting(t) : q =< r
          /\ SetTeam(q, t)
          /\ m_pJoinTeam' = [m_pJoinTeam EXCEPT ![q] = NoTeam]
          /\ intact' = intact \ {q}
     /\ UNCHANGED <<stage, saved, Teams, party, was, refused>>

-----------------------------------------------------------------------------
(* Players come, load, are saved and go.                                   *)

ClientPutInServer(p) ==
  /\ stage[p] = "absent"
  /\ stage' = [stage EXCEPT ![p] = "spectator"]
  /\ UNCHANGED <<m_pTeam, m_pJoinTeam, saved, teamVars, history>>

(* RestoreAllServer: SetTeam(CreateTeam(Data.Party, Data.PartyID)).        *)
Restore(p, name, id) ==
  \/ /\ name # NoName /\ WithID(id) # {}
     /\ \E t \in WithID(id) : SetTeam(p, t)
     /\ UNCHANGED <<Teams, party, refused>>
  \/ /\ name # NoName /\ WithID(id) = {} /\ Allowed(name)
     /\ \E t \in Addresses : New(t, name, id) /\ SetTeam(p, t)
     /\ UNCHANGED refused
  \/ /\ name = NoName \/ (WithID(id) = {} /\ ~Allowed(name))
     /\ SetTeam(p, NoTeam)
     /\ refused' = refused \cup ({id} \ {NoID})
     /\ UNCHANGED <<Teams, party>>

LoadCharacter(p) ==
  /\ stage[p] = "spectator"
  /\ stage' = [stage EXCEPT ![p] = "loaded"]
  /\ Restore(p, saved[p].name, saved[p].id)
  /\ intact' = intact \cup {p}
  /\ UNCHANGED <<m_pJoinTeam, saved, was>>

Record(p) ==
  IF PartyOf(p) = NoParty THEN NoParty
  ELSE [name |-> SavedName[PartyOf(p).name], id |-> PartyOf(p).id]

(* Saved with his party, then Deactivate takes him out of it.  What was    *)
(* saved earlier is overwritten now, so SaveChar is no action of its own.  *)
ClientDisconnected(p) ==
  /\ p \in Here
  /\ IF stage[p] = "loaded"
     THEN saved' = [saved EXCEPT ![p] = Record(p)] /\ was' = [was EXCEPT ![p] = PartyOf(p).id]
     ELSE UNCHANGED <<saved, was>>
  /\ SetTeam(p, NoTeam)
  /\ stage' = [stage EXCEPT ![p] = "absent"]
  /\ m_pJoinTeam' = [m_pJoinTeam EXCEPT ![p] = NoTeam]
  /\ intact' = intact \ {p}
  /\ UNCHANGED <<Teams, party, refused>>

-----------------------------------------------------------------------------
(* The frame, and the end of the map.                                      *)

Deleted(S) ==
  /\ Teams' = Teams \ S
  /\ party' = [t \in Addresses |-> IF t \in S THEN NoParty ELSE party[t]]
  /\ MemberList' = [t \in Addresses |-> IF t \in S THEN <<>> ELSE MemberList[t]]

(* Mutant of Empty: a party of one is no party.                            *)
Empty_OrAlone == {t \in Teams : Len(MemberList[t]) =< 1}

Empty == {t \in Teams : MemberList[t] = <<>>}

(* ~CTeam finds nobody whose m_pTeam it would reset.                       *)
Think ==
  /\ Empty # {}
  /\ Deleted(Empty)
  /\ UNCHANGED <<playerVars, saved, history>>

(* Mutant of SavedAtEnd: the parties are deleted before the save.          *)
SavedAtEnd_TeamsFirst == [p \in Slots |-> IF stage[p] = "loaded" THEN NoParty ELSE saved[p]]

SavedAtEnd == [p \in Slots |-> IF stage[p] = "loaded" THEN Record(p) ELSE saved[p]]

(* The players are saved, then EndMultiplayerGame deletes the parties and  *)
(* every entity is removed.                                                *)
MSGameEnd ==
  /\ saved' = SavedAtEnd
  /\ was' = [p \in Slots |-> IF stage[p] = "loaded" THEN PartyOf(p).id ELSE was[p]]
  /\ Deleted(Teams)
  /\ stage' = [p \in Slots |-> "absent"]
  /\ m_pTeam' = [p \in Slots |-> NoTeam]
  /\ m_pJoinTeam' = [p \in Slots |-> NoTeam]
  /\ intact' = {} /\ refused' = {}

-----------------------------------------------------------------------------
(* No character has been saved in a party yet.                             *)
Init ==
  /\ stage = [p \in Slots |-> "absent"]
  /\ m_pTeam = [p \in Slots |-> NoTeam]
  /\ m_pJoinTeam = [p \in Slots |-> NoTeam]
  /\ saved = [p \in Slots |-> NoParty]
  /\ Teams = {}
  /\ party = [t \in Addresses |-> NoParty]
  /\ MemberList = [t \in Addresses |-> <<>>]
  /\ was = [p \in Slots |-> NoID]
  /\ intact = {} /\ refused = {}

Next ==
  \/ \E p \in Slots :
       \/ \E name \in Names : Found(p, name) \/ Ask(p, name)
       \/ LeaveParty(p)
       \/ Accept(p)
       \/ ClientPutInServer(p)
       \/ LoadCharacter(p)
       \/ ClientDisconnected(p)
  \/ Think
  \/ MSGameEnd

Spec == Init /\ [][Next]_vars

-----------------------------------------------------------------------------
(* Properties.                                                             *)

(* Every variable keeps its type.                                          *)
TypeOK ==
  /\ stage \in [Slots -> Stages]
  /\ m_pTeam \in [Slots -> Addresses \cup {NoTeam}]
  /\ m_pJoinTeam \in [Slots -> Addresses \cup {NoTeam}]
  /\ saved \in [Slots -> Parties \cup {NoParty}]
  /\ Teams \subseteq Addresses
  /\ party \in [Addresses -> Parties \cup {NoParty}]
  /\ MemberList \in [Addresses -> Seq(Slots)]
  /\ was \in [Slots -> IDs \cup {NoID}]
  /\ intact \subseteq Here /\ refused \subseteq IDs

(* A player and his party agree: he points to it, it is not deleted, and   *)
(* he is once in its list; nobody else is in a list.                       *)
MembersAgree ==
  /\ \A p \in Slots : m_pTeam[p] \in Teams \cup {NoTeam}
  /\ \A p \in Slots, t \in Addresses : m_pTeam[p] = t <=> p \in Elements(MemberList[t])
  /\ \A t \in Addresses : \A j, k \in DOMAIN MemberList[t] :
       MemberList[t][j] = MemberList[t][k] => j = k

(* No two parties have a name or an ID in common.                          *)
DistinctParties ==
  \A t, u \in Teams : party[t].name = party[u].name \/ party[t].id = party[u].id => t = u

(* "Delete teams only after the save": a player whose party nobody changed *)
(* since he loaded is in the party he last left the server with, unless a  *)
(* load in this map has found its name taken.                              *)
RestoredToHisParty ==
  \A p \in intact : was[p] \notin refused => PartyOf(p).id = was[p]

(* The leader of a party is replaced only if he leaves it, or is himself   *)
(* put into it again.                                                      *)
LeaderStays ==
  [][\A t \in Teams \cap Teams' : \A p \in Slots :
       Leads(p, t) /\ m_pTeam'[p] = t /\ stage'[p] = stage[p] /\ m_pJoinTeam'[p] = m_pJoinTeam[p]
         => Leads(p, t)']_vars

(* "All members with that ID end up in the same team, no matter who loads  *)
(* first."                                                                 *)
MembersReunite ==
  \A p, q \in intact : was[p] = was[q] => m_pTeam[p] = m_pTeam[q]
================================================================================
