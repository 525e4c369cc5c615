---------------------------- MODULE FNCharacters ----------------------------
(***************************************************************************)
(* Character persistence over FuzzNet (FN): the three character slots a    *)
(* connected player has (charinfo_t), the four kinds of request FNShared   *)
(* queues on the request manager, what each OnResponse does to the slot,   *)
(* the commands that use a slot (select, create, delete, save) and the     *)
(* FN backend that stores the characters.                                  *)
(*                                                                         *)
(* The game runs in one thread: every command handler, every frame's       *)
(* CRequestManager::Think and every map change is one atomic step.  What   *)
(* interleaves is the answers of the backend, the players' commands and    *)
(* disconnects, and map changes.  RequestManager.tla opens up Think and    *)
(* Shutdown; here a Think starts what is queued and reaps at most one      *)
(* completed transfer, a frame that reaps several being several Thinks in  *)
(* a row with nothing left to start.                                       *)
(*                                                                         *)
(* A character is named by the guid the backend gave it; a stored blob is  *)
(* abstracted to the character whose data it holds.                        *)
(***************************************************************************)
EXTENDS Integers, FiniteSets

CONSTANTS
  Players,      \* SteamIDs
  Slots,        \* the character slots, 0 .. MAX_CHARSLOTS-1
  Chars,        \* guids the backend can hand out
  NoChar,       \* no guid, or no character data
  Nowhere,      \* backend: the home of a guid that names no stored character
  Blank,        \* the data of a player whose items were taken away before a restore that failed
  Unreadable,   \* characters whose blob this build cannot parse (newer format, damaged)
  Banned,       \* players with FN_FLAG_BANNED
  AddCanFail,   \* curl_easy_init or curl_multi_add_handle may fail in Think
  NetCanFail,   \* a transfer may end in a CURL error (timeout, refused connection)
  InitCanFail,  \* curl_multi_init may fail, or the server is not dedicated
  MaxReqs,      \* bound: requests queued in a behaviour
  MaxJoins,     \* bound: connections per player and map
  MaxMaps       \* bound: map changes

ASSUME PlayersAssumption == IsFiniteSet(Players)
ASSUME SlotsAssumption ==
  /\ IsFiniteSet(Slots) /\ Slots # {}
  /\ Slots = 0 .. (Cardinality(Slots) - 1)
ASSUME CharsAssumption ==
  /\ NoChar \notin Chars /\ Blank \notin Chars /\ NoChar # Blank
  /\ Nowhere \notin Players \X Slots
  /\ Unreadable \subseteq Chars
ASSUME BannedAssumption == Banned \subseteq Players
ASSUME SwitchAssumption == {AddCanFail, NetCanFail, InitCanFail} \subseteq BOOLEAN
ASSUME BoundAssumption == {MaxReqs, MaxJoins, MaxMaps} \subseteq Nat

VARIABLES
  phase,      \* "running", or "changing" between MSGameEnd and the next map's MSGameInit
  maps,       \* map changes so far
  loaded,     \* CRequestManager::m_bLoaded
  online,     \* players with an entity
  joins,      \* connections of a player in this map
  info,       \* CBasePlayer::m_CharInfo, with what the client was last sent
  charState,  \* CBasePlayer::m_CharacterState
  charNum,    \* CBasePlayer::m_CharacterNum
  playing,    \* whose data the player entity holds
  pending,    \* CRequestManager::m_vRequests
  nextId,     \* requests queued so far
  late,       \* requests the client side gave up on and the backend may still serve
  home,       \* backend: the slot a character belongs to
  body,       \* backend: whose data its record holds
  overlapped  \* history: players who connected again in a map while an answer to their
              \* connection before was still due

playerVars  == <<online, joins, charState, charNum, playing, overlapped>>
backendVars == <<late, home, body>>
mapVars     == <<phase, maps, loaded>>
vars == <<mapVars, playerVars, info, pending, nextId, backendVars>>

Status     == {"UNLOADED", "LOADING", "LOADED", "NOTFOUND"}   \* chardatastatus_e, CDS_*
CharStates == {"UNLOADED", "LOADED", "LOADING"}               \* CHARSTATE_*
Kinds      == {"LOAD", "CREATE", "DELETE", "UPDATE"}
Replies    == {"none", "ok", "empty", "error"}                \* not served, 2xx, 204, 4xx/5xx/garbled
Data       == Chars \cup {NoChar, Blank}
Homes      == (Players \X Slots) \cup {Nowhere}

SlotInfo ==
  [status : Status, cached : Status, data : Data, guid : Chars \cup {NoChar},
   shown : Status \X Data]

Request ==
  [id : Nat, kind : Kinds, p : Players, s : Slots, prev : Status,
   guid : Chars \cup {NoChar}, body : Data, st : {"QUEUED", "EXECUTED"},
   reply : Replies]

(* The part of a slot Think_SendCharData sends: the character only if it   *)
(* is loaded.                                                              *)
View(c) == <<c.status, IF c.status = "LOADED" THEN c.data ELSE NoChar>>

(* A slot of a fresh CBasePlayer (zeroed entity memory).                   *)
FreshSlot == [status |-> "UNLOADED", cached |-> "UNLOADED", data |-> NoChar,
              guid |-> NoChar, shown |-> <<"UNLOADED", NoChar>>]

Readable(d) == d \notin Unreadable \cup {NoChar}

NeedsAnswer(r) == r.kind # "UPDATE"          \* m_bNoCallback is set for saves

-----------------------------------------------------------------------------
(* Queueing.  NewRequest is the constructor of the four request classes.   *)

NewRequest(n, k, p, s, prev, guid, blob) ==
  [id |-> n, kind |-> k, p |-> p, s |-> s, prev |-> prev,
   guid |-> guid, body |-> blob, st |-> "QUEUED", reply |-> "none"]

(* Mutant of Pinned: the caller's pin is not taken back on a refusal.      *)
Pinned_NoRestore(c) == [c EXCEPT !.status = "LOADING", !.cached = "UNLOADED"]

(* QueueSlotRequest, together with the caller's pinning of the slot: the   *)
(* slot goes LOADING, and back to its old status when the manager is not   *)
(* loaded and refuses the request.                                         *)
Pinned(c) ==
  IF loaded THEN [c EXCEPT !.status = "LOADING", !.cached = "UNLOADED"]
            ELSE [c EXCEPT !.cached = "UNLOADED"]

QueueOne(k, p, s, prev, guid, blob) ==
  IF loaded
  THEN /\ nextId < MaxReqs
       /\ nextId' = nextId + 1
       /\ pending' = pending \cup {NewRequest(nextId, k, p, s, prev, guid, blob)}
  ELSE UNCHANGED <<nextId, pending>>

QueueSlotRequest(k, p, s, guid, blob) ==
  /\ QueueOne(k, p, s, info[p][s].status, guid, blob)
  /\ info' = [info EXCEPT ![p][s] = Pinned(@)]

(* FNShared::LoadCharacter(pPlayer): every slot that is not LOADING.  A    *)
(* refusal ends the loop at the first slot, fresh or not.                  *)
LoadAll(p) ==
  LET todo == {s \in Slots : info[p][s].status # "LOADING"}
  IN IF loaded
     THEN /\ nextId + Cardinality(Slots) =< MaxReqs
          /\ nextId' = nextId + Cardinality(Slots)
          /\ pending' = pending \cup
               {NewRequest(nextId + s, "LOAD", p, s, info[p][s].status, NoChar, NoChar) :
                  s \in todo}
          /\ info' = [info EXCEPT ![p] = [s \in Slots |->
                        IF s \in todo THEN Pinned(@[s]) ELSE @[s]]]
     ELSE UNCHANGED <<info, nextId, pending>>

-----------------------------------------------------------------------------
(* Player commands.                                                        *)

(* SUB_Remove / REMOVE_ENTITY: the CBasePlayer and its m_CharInfo are gone; *)
(* the next entity of the player starts from zeroed memory.                *)
RemoveEntities(P) ==
  /\ online' = online \ P
  /\ info' = [p \in Players |-> IF p \in P THEN [s \in Slots |-> FreshSlot] ELSE info[p]]
  /\ charState' = [p \in Players |-> IF p \in P THEN "UNLOADED" ELSE charState[p]]
  /\ charNum' = [p \in Players |-> IF p \in P THEN 0 ELSE charNum[p]]
  /\ playing' = [p \in Players |-> IF p \in P THEN NoChar ELSE playing[p]]

(* ClientPutInServer: a new entity, Spawn -> InitialSpawn and, as no       *)
(* character is loaded, PreLoadChars.                                      *)
ClientPutInServer(p) ==
  /\ phase = "running"
  /\ p \notin online
  /\ joins[p] < MaxJoins
  /\ online' = online \cup {p}
  /\ joins' = [joins EXCEPT ![p] = @ + 1]
  /\ overlapped' = IF joins[p] > 0 /\ \E r \in pending : r.p = p /\ NeedsAnswer(r)
                   THEN overlapped \cup {p} ELSE overlapped
  /\ LoadAll(p)
  /\ UNCHANGED <<mapVars, charState, charNum, playing, backendVars>>

(* Mutant of DeleteCharacter: allowed while a character is being played.   *)
DeleteCharacter_WhilePlaying(p, s) ==
  /\ p \in online
  /\ info[p][s].status # "LOADING"
  /\ QueueSlotRequest("DELETE", p, s, info[p][s].guid, NoChar)
  /\ UNCHANGED <<mapVars, playerVars, backendVars>>

(* "char -1 <slot>": FNShared::DeleteCharacter.  A slot that is LOADING    *)
(* is left alone.                                                          *)
DeleteCharacter(p, s) ==
  /\ p \in online
  /\ charState[p] = "UNLOADED"
  /\ info[p][s].status # "LOADING"
  /\ QueueSlotRequest("DELETE", p, s, info[p][s].guid, NoChar)
  /\ UNCHANGED <<mapVars, playerVars, backendVars>>

(* Mutant of CreateChar: the save file's one-based number as the slot.     *)
CreateChar_OneBased(p, s) ==
  /\ p \in online
  /\ charState[p] = "UNLOADED"
  /\ charNum' = [charNum EXCEPT ![p] = s + 1]
  /\ IF info[p][s].status = "LOADING"
     THEN UNCHANGED <<info, pending, nextId>>
     ELSE QueueSlotRequest("CREATE", p, s, NoChar, NoChar)
  /\ UNCHANGED <<mapVars, online, joins, charState, playing, overlapped, backendVars>>

(* "char <slot> <name> <gender> <weapon>": CreateChar sets m_CharacterNum  *)
(* and calls SaveChar with CHARSTATE_LOADED for the time of the call; the  *)
(* character state is UNLOADED again afterwards.  A slot that is LOADING   *)
(* is busy.                                                                *)
CreateChar(p, s) ==
  /\ p \in online
  /\ charState[p] = "UNLOADED"
  /\ charNum' = [charNum EXCEPT ![p] = s]
  /\ IF info[p][s].status = "LOADING"
     THEN UNCHANGED <<info, pending, nextId>>
     ELSE QueueSlotRequest("CREATE", p, s, NoChar, NoChar)
  /\ UNCHANGED <<mapVars, online, joins, charState, playing, overlapped, backendVars>>

(* Mutant of LoadCharacter: m_CharacterNum is not updated.                 *)
LoadCharacter_KeepsNumber(p, s) ==
  /\ p \in online
  /\ charState[p] = "UNLOADED"
  /\ info[p][s].status = "LOADED"
  /\ Readable(info[p][s].data)
  /\ charState' = [charState EXCEPT ![p] = "LOADED"]
  /\ playing' = [playing EXCEPT ![p] = info[p][s].data]
  /\ UNCHANGED <<mapVars, online, joins, charNum, info, pending, nextId, overlapped,
                 backendVars>>

(* "char <slot>": LoadCharacter(Num) and RestoreAllServer.  On unreadable  *)
(* data RestoreAllServer has already taken the items away and returns with *)
(* CHARSTATE_LOADING, the kick is a server command that runs later, and    *)
(* m_CharacterNum keeps its old value.                                     *)
LoadCharacter(p, s) ==
  /\ p \in online
  /\ charState[p] = "UNLOADED"
  /\ info[p][s].status = "LOADED"
  /\ IF Readable(info[p][s].data)
     THEN /\ charState' = [charState EXCEPT ![p] = "LOADED"]
          /\ playing' = [playing EXCEPT ![p] = info[p][s].data]
          /\ charNum' = [charNum EXCEPT ![p] = s]
     ELSE /\ charState' = [charState EXCEPT ![p] = "LOADING"]
          /\ playing' = [playing EXCEPT ![p] = Blank]
          /\ UNCHANGED charNum
  /\ UNCHANGED <<mapVars, online, joins, info, pending, nextId, overlapped, backendVars>>

(* MSChar_Interface::SaveChar with no new character: CreateOrUpdate with   *)
(* bIsUpdate.  Only CHARSTATE_UNLOADED refuses; the slot is not pinned.    *)
(* A player with fresh stats has 15 hit points, which passes the MaxHP     *)
(* test.                                                                   *)
SaveChar(p) ==
  IF charState[p] = "UNLOADED"
  THEN UNCHANGED <<pending, nextId>>
  ELSE LET c == info[p][charNum[p]]
       IN QueueOne("UPDATE", p, charNum[p], c.status, c.guid, playing[p])

(* AutoSave, a change of gear, an area transition, setelite: all of them   *)
(* call SaveChar for a player in the game.                                 *)
Save(p) ==
  /\ p \in online
  /\ charState[p] # "UNLOADED"
  /\ SaveChar(p)
  /\ UNCHANGED <<mapVars, playerVars, info, backendVars>>

(* ClientDisconnect -> ClientDisconnected: save, then SUB_Remove.          *)
ClientDisconnected(p) ==
  /\ p \in online
  /\ SaveChar(p)
  /\ RemoveEntities({p})
  /\ UNCHANGED <<mapVars, joins, overlapped, backendVars>>

Sent(c) == IF c.cached = c.status THEN c
           ELSE [c EXCEPT !.cached = c.status, !.shown = View(c)]

(* Think_SendCharData: the slots whose status differs from the cached one. *)
Think_SendCharData(p) ==
  /\ p \in online
  /\ charState[p] # "LOADED"
  /\ \E s \in Slots : info[p][s].cached # info[p][s].status
  /\ info' = [info EXCEPT ![p] = [s \in Slots |-> Sent(@[s])]]
  /\ UNCHANGED <<mapVars, playerVars, pending, nextId, backendVars>>

-----------------------------------------------------------------------------
(* Responses.  `code` is what ResponseCallback passes on: a reply of the   *)
(* backend, or "lost" for code 0, a CURL error.                            *)

MarkNotFound(c) == [c EXCEPT !.status = "NOTFOUND", !.cached = "UNLOADED"]

(* Mutant of Assigned: no forced update of the client.                     *)
Assigned_NoForce(c, r) == [c EXCEPT !.status = "LOADED", !.data = r.body, !.guid = r.guid]

(* AssignChar followed by the unconditional CDS_LOADED, Guid and forced    *)
(* update at the end of OnResponse.                                        *)
Assigned(c, r) == [c EXCEPT !.status = "LOADED", !.cached = "UNLOADED",
                            !.data = r.body, !.guid = r.guid]

(* LoadCharacterRequest::OnResponse.  A banned player is kicked and the    *)
(* slot keeps its status.                                                  *)
OnLoad(c, r, code) ==
  IF code # "ok" THEN MarkNotFound(c)
  ELSE IF r.p \in Banned THEN c ELSE Assigned(c, r)

(* CreateCharacterRequest::OnResponse.  Code 0 is below 400, but its empty *)
(* body does not parse, which also ends in MarkNotFound.                   *)
OnCreate(c, r, code) == IF code = "ok" THEN Assigned(c, r) ELSE MarkNotFound(c)

(* DeleteCharacterRequest::OnResponse.  Only a code of 400 or more brings  *)
(* the previous status back.                                               *)
OnDelete(c, r, code) ==
  IF code = "error" THEN [c EXCEPT !.status = r.prev, !.cached = "UNLOADED"]
                    ELSE MarkNotFound(c)

OnResponse(c, r, code) ==
  CASE r.kind = "LOAD"   -> OnLoad(c, r, code)
    [] r.kind = "CREATE" -> OnCreate(c, r, code)
    [] r.kind = "DELETE" -> OnDelete(c, r, code)
    [] r.kind = "UPDATE" -> c

(* UTIL_PlayerBySteamID finds whoever is connected under that SteamID now. *)
Respond(r, code) ==
  info' = IF r.p \in online THEN [info EXCEPT ![r.p][r.s] = OnResponse(@, r, code)]
                            ELSE info

(* Mutant of Codes: a transfer that fails or times out never completes.    *)
Codes_OnlyReplies(r) == IF r.reply = "none" THEN {} ELSE {r.reply}

(* How a started transfer can end in this frame.                           *)
Codes(r) == (IF r.reply = "none" THEN {} ELSE {r.reply})
              \cup (IF NetCanFail THEN {"lost"} ELSE {})

(* What may still reach the store after the game has stopped waiting.      *)
GivenUp(R) == {r \in R : r.reply = "none" /\ r.kind # "LOAD"}

(* Pass 1 of CRequestManager::Think: a request that curl refuses is        *)
(* deleted without a response.                                             *)
Queued == {r \in pending : r.st = "QUEUED"}

Refusable == IF AddCanFail THEN Queued ELSE {}

Started(refused) ==
  {[r EXCEPT !.st = "EXECUTED"] : r \in pending \ refused}

ThinkStart(refused) ==
  /\ Queued # {}
  /\ pending' = Started(refused)
  /\ UNCHANGED <<info, late>>

ThinkComplete(refused, id) ==
  \E r \in Started(refused) :
    /\ r.id = id
    /\ \E code \in Codes(r) :
         /\ pending' = Started(refused) \ {r}
         /\ late' = late \cup GivenUp({r})
         /\ Respond(r, code)

Reap(id) ==
  /\ loaded
  /\ \E refused \in SUBSET Refusable : ThinkComplete(refused, id)
  /\ UNCHANGED <<mapVars, playerVars, nextId, home, body>>

Start ==
  /\ loaded
  /\ \E refused \in SUBSET Refusable : ThinkStart(refused)
  /\ UNCHANGED <<mapVars, playerVars, nextId, home, body>>

Think == Start \/ \E id \in {r.id : r \in pending} : Reap(id)

-----------------------------------------------------------------------------
(* The FN backend (external).  It serves started requests in any order.    *)

Stored(c) == c \in Chars /\ home[c] # Nowhere

Unused == {c \in Chars : /\ home[c] = Nowhere /\ body[c] = NoChar}

Residents(p, s) == {c \in Chars : home[c] = <<p, s>>}

(* The request refused or unanswerable: the store is unchanged.            *)
Refuse(r, answer) == answer = "error" /\ UNCHANGED <<home, body>> 

ServeLoad(r, answer, c) ==
  /\ r.kind = "LOAD"
  /\ UNCHANGED <<home, body>>
  /\ IF Residents(r.p, r.s) = {} THEN answer = "empty" /\ c = NoChar
                                 ELSE answer = "ok" /\ c \in Residents(r.p, r.s)

ServeCreate(r, answer, c) ==
  /\ r.kind = "CREATE"
  /\ Residents(r.p, r.s) = {}
  /\ c \in Unused
  /\ answer = "ok"
  /\ home' = [home EXCEPT ![c] = <<r.p, r.s>>]
  /\ body' = [body EXCEPT ![c] = c]

ServeDelete(r, answer) ==
  /\ r.kind = "DELETE"
  /\ Stored(r.guid)
  /\ answer = "ok"
  /\ home' = [home EXCEPT ![r.guid] = Nowhere]
  /\ UNCHANGED body

ServeUpdate(r, answer) ==
  /\ r.kind = "UPDATE"
  /\ Stored(r.guid)
  /\ answer = "ok"
  /\ body' = [body EXCEPT ![r.guid] = r.body]
  /\ UNCHANGED home

Serve(r, answer, c) ==
  \/ Refuse(r, answer) /\ c = r.guid
  \/ ServeLoad(r, answer, c)
  \/ ServeCreate(r, answer, c)
  \/ (ServeDelete(r, answer) \/ ServeUpdate(r, answer)) /\ c = r.guid

(* The answer carries the guid and, for a load, the stored data; a created *)
(* character's data is what was posted, a new identity of its own.         *)
Answered(r, answer, c) ==
  [r EXCEPT !.reply = answer, !.guid = c,
            !.body = CASE r.kind = "LOAD" /\ c \in Chars -> body[c]
                       [] r.kind = "CREATE"              -> c
                       [] OTHER                          -> r.body]

BackendServes ==
  \E r \in pending, answer \in {"ok", "empty", "error"}, c \in Chars \cup {NoChar} :
    /\ r.st = "EXECUTED"
    /\ r.reply = "none"
    /\ Serve(r, answer, c)
    /\ pending' = (pending \ {r}) \cup {Answered(r, answer, c)}
    /\ UNCHANGED <<mapVars, playerVars, info, nextId, late>>

BackendServesLate ==
  \E r \in late, answer \in {"ok", "error"}, c \in Chars \cup {NoChar} :
    /\ Serve(r, answer, c)
    /\ late' = late \ {r}
    /\ UNCHANGED <<mapVars, playerVars, info, pending, nextId>>

-----------------------------------------------------------------------------
(* Map change.  MSGameEnd saves every loaded player and removes the        *)
(* entities; MSGameInit's CRequestManager::Init then runs Shutdown, whose  *)
(* drain loop calls Think(false) for up to five seconds and then aborts    *)
(* what is left.  No player connects before Init has returned.             *)

Leaving == {p \in online : charState[p] = "LOADED"}

(* One UPDATE per loaded player, numbered in any order.                    *)
MSGameEnd ==
  /\ phase = "running"
  /\ maps < MaxMaps
  /\ phase' = "changing"
  /\ maps' = maps + 1
  /\ IF loaded
     THEN \E num \in [Leaving -> nextId .. (nextId + Cardinality(Leaving) - 1)] :
            /\ \A p, q \in Leaving : num[p] = num[q] => p = q
            /\ nextId + Cardinality(Leaving) =< MaxReqs
            /\ nextId' = nextId + Cardinality(Leaving)
            /\ pending' = pending \cup
                 {NewRequest(num[p], "UPDATE", p, charNum[p], info[p][charNum[p]].status,
                             info[p][charNum[p]].guid, playing[p]) : p \in Leaving}
     ELSE UNCHANGED <<nextId, pending>>
  /\ RemoveEntities(online)
  /\ UNCHANGED <<loaded, joins, overlapped, backendVars>>

(* Mutant of MSGameInit: the manager is kept across the map change.        *)
MSGameInit_NoShutdown ==
  /\ phase = "changing"
  /\ phase' = "running"
  /\ joins' = [p \in Players |-> 0]
  /\ UNCHANGED <<maps, loaded, online, charState, charNum, playing, info, pending,
                 nextId, overlapped, backendVars>>

MSGameInit ==
  /\ phase = "changing"
  /\ phase' = "running"
  /\ pending' = {}
  /\ late' = late \cup GivenUp(pending)
  /\ joins' = [p \in Players |-> 0]
  /\ loaded' \in (IF InitCanFail THEN BOOLEAN ELSE {TRUE})
  /\ UNCHANGED <<maps, online, charState, charNum, playing, info, nextId, home, body,
                 overlapped>>

-----------------------------------------------------------------------------
(* A server that has just started: nobody connected, and a store that      *)
(* holds any characters, at most one per slot.                             *)
Init ==
  /\ phase = "running"
  /\ maps = 0
  /\ loaded \in (IF InitCanFail THEN BOOLEAN ELSE {TRUE})
  /\ online = {}
  /\ joins = [p \in Players |-> 0]
  /\ info = [p \in Players |-> [s \in Slots |-> FreshSlot]]
  /\ charState = [p \in Players |-> "UNLOADED"]
  /\ charNum = [p \in Players |-> 0]
  /\ playing = [p \in Players |-> NoChar]
  /\ pending = {}
  /\ nextId = 0
  /\ late = {}
  /\ home \in [Chars -> Homes]
  /\ \A c, d \in Chars : home[c] = home[d] /\ home[c] # Nowhere => c = d
  /\ body = [c \in Chars |-> IF home[c] = Nowhere THEN NoChar ELSE c]
  /\ overlapped = {}

Commands(p) ==
  \/ ClientPutInServer(p)
  \/ \E s \in Slots : DeleteCharacter(p, s)
  \/ \E s \in Slots : CreateChar(p, s)
  \/ \E s \in Slots : LoadCharacter(p, s)
  \/ Save(p)
  \/ ClientDisconnected(p)
  \/ Think_SendCharData(p)

Next ==
  \/ \E p \in Players : Commands(p)
  \/ Think
  \/ BackendServes
  \/ BackendServesLate
  \/ MSGameEnd
  \/ MSGameInit

Spec == Init /\ [][Next]_vars

(* A frame calls Think, and CURLOPT_TIMEOUT_MS ends every transfer within  *)
(* five seconds, answered or not; the engine finishes a map change.  No    *)
(* player command and no backend step is assumed to happen.                *)
FairSpec ==
  /\ Spec
  /\ \A id \in 0 .. MaxReqs : WF_vars(Reap(id))
  /\ WF_vars(MSGameInit)

-----------------------------------------------------------------------------
(* Properties.                                                             *)

(* Every variable keeps its type.                                          *)
TypeOK ==
  /\ phase \in {"running", "changing"} /\ maps \in Nat /\ loaded \in BOOLEAN
  /\ online \subseteq Players /\ joins \in [Players -> Nat]
  /\ info \in [Players -> [Slots -> SlotInfo]]
  /\ charState \in [Players -> CharStates]
  /\ charNum \in [Players -> Slots]
  /\ playing \in [Players -> Data]
  /\ pending \subseteq Request /\ late \subseteq Request /\ nextId \in Nat
  /\ home \in [Chars -> Homes] /\ body \in [Chars -> Data]
  /\ overlapped \subseteq Players

Awaited(p, s) == \E r \in pending : r.p = p /\ r.s = s /\ NeedsAnswer(r)

(* "Busy, wait for callback!", and no callback will come.  (A banned       *)
(* player's load never resolves; the player is kicked.)                    *)
Stranded(p, s) ==
  p \in online \ Banned /\ info[p][s].status = "LOADING" /\ ~Awaited(p, s)

(* The callback the slot waits for is of a request not yet handed to curl. *)
Unsent(p, s) == \E r \in Queued : r.p = p /\ r.s = s /\ NeedsAnswer(r)

(* A slot that reads LOADING is left without a callback only by curl's     *)
(* refusing a request of its (pass 1 of CRequestManager::Think, before the *)
(* request is sent): no disconnect, reconnect, answer, timeout, refused    *)
(* queueing or map change does it.                                         *)
OnlyCurlStrands ==
  [][\A p \in Players, s \in Slots :
       Stranded(p, s)' /\ ~Stranded(p, s) => AddCanFail /\ Unsent(p, s)]_vars

(* m_CachedStatus: whenever Think_SendCharData would skip a slot, what the *)
(* client was last sent is what the slot holds.                            *)
ClientViewFresh ==
  \A p \in online, s \in Slots :
    LET c == info[p][s] IN c.cached = c.status => c.shown = View(c)

(* The LOADING status is a lock: no two requests that answer into the same *)
(* slot are outstanding together, map changes included (the drain in       *)
(* Shutdown closes the old map's requests).  Except: who disconnects and   *)
(* connects again in one map before an answer is in has it unlock the slot *)
(* of his new connection; the lock is promised to those who never did.     *)
OneCallbackPerSlot ==
  \A q, r \in pending :
    NeedsAnswer(q) /\ NeedsAnswer(r) /\ q.p = r.p /\ q.s = r.s /\ q.p \notin overlapped
      => q = r

(* The data a guid may come with: its own or, where some character cannot  *)
(* be restored, what a stripped player was saved with.                     *)
Own(g) == {g} \cup (IF Unreadable = {} THEN {} ELSE {Blank})

(* A player in the game plays the character of the slot m_CharacterNum     *)
(* names: no late answer, delete or create replaces the slot under it,     *)
(* reconnects included unless an answer to the connection before was due.  *)
PlayedCharIsTheSlots ==
  \A p \in online \ overlapped :
    charState[p] = "LOADED" =>
      LET c == info[p][charNum[p]]
      IN c.status = "LOADED" /\ c.data = playing[p] /\ playing[p] \in Own(c.guid)

(* Saves address their character by guid only.  Unless its player once     *)
(* connected with an answer to his connection before still due, the        *)
(* backend's record of a character never holds another one's data; nor a   *)
(* stripped player's, if every character can be restored.                  *)
StoreKeepsIdentity ==
  \A c \in Chars : Stored(c) /\ home[c][1] \notin overlapped => body[c] \in Own(c)

(* A slot leaves LOADING, or its player leaves, or curl has refused the    *)
(* last request it waited for.  (A banned player is kicked.)               *)
LoadingResolves ==
  \A p \in Players \ Banned, s \in Slots :
    (p \in online /\ info[p][s].status = "LOADING")
      ~> (p \notin online \/ info[p][s].status # "LOADING" \/ ~Awaited(p, s))

(* The request r was answered in this step, to a player still there.       *)
JustAnswered(r) ==
  /\ r.p \in online \cap online'
  /\ \A q \in pending' : q.id # r.id

(* "the delete failed, so the character still exists server-side": when    *)
(* the answer of a delete marks the slot NOTFOUND, the store no longer has *)
(* the character.                                                          *)
DeletedIsGone ==
  [][\A r \in pending :
       /\ r.kind = "DELETE" /\ JustAnswered(r)
       /\ info'[r.p][r.s].status = "NOTFOUND" /\ r.prev = "LOADED"
       => ~Stored(r.guid)]_vars
=============================================================================
