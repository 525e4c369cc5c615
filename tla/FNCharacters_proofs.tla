------------------------- MODULE FNCharacters_proofs -------------------------
(***************************************************************************)
(* Proofs about FNCharacters, for any finite set of players, any number of *)
(* slots, any set of guids, any bound, every combination of failures and   *)
(* any number of connections in a map.                                     *)
(***************************************************************************)
EXTENDS FNCharacters, FiniteSetTheorems, TLAPS

-----------------------------------------------------------------------------
(* Types of the operators on one slot and one request.                     *)

LEMMA SlotNumbers == Slots \subseteq Nat /\ 0 \in Slots /\ Cardinality(Slots) \in Nat
<1>1. Cardinality(Slots) \in Nat /\ Slots # {}
  BY SlotsAssumption, FS_CardinalityType
<1>2. Slots = 0 .. (Cardinality(Slots) - 1)
  BY SlotsAssumption
<1> QED
  BY <1>1, <1>2

LEMMA FreshSlotType == FreshSlot \in SlotInfo
  BY DEF FreshSlot, SlotInfo, Status, Data

(* The handlers change a slot only to slots of the same type.              *)
LEMMA SlotTypes ==
  ASSUME NEW c \in SlotInfo
  PROVE  /\ Pinned(c) \in SlotInfo
         /\ Sent(c) \in SlotInfo
         /\ \A r \in Request : \A code : OnResponse(c, r, code) \in SlotInfo
<1>1. Pinned(c) \in SlotInfo
  BY DEF Pinned, SlotInfo, Status
<1>2. Sent(c) \in SlotInfo
  BY DEF Sent, View, SlotInfo, Status, Data
<1>3. ASSUME NEW r \in Request, NEW code
      PROVE  OnResponse(c, r, code) \in SlotInfo
  <2>1. MarkNotFound(c) \in SlotInfo
    BY DEF MarkNotFound, SlotInfo, Status
  <2>2. Assigned(c, r) \in SlotInfo
    BY DEF Assigned, SlotInfo, Request, Status
  <2>3. [c EXCEPT !.status = r.prev, !.cached = "UNLOADED"] \in SlotInfo
    BY DEF SlotInfo, Request, Status
  <2>4. OnLoad(c, r, code) \in SlotInfo /\ OnCreate(c, r, code) \in SlotInfo
    BY <2>1, <2>2 DEF OnLoad, OnCreate
  <2>5. OnDelete(c, r, code) \in SlotInfo
    BY <2>1, <2>3 DEF OnDelete
  <2>6. r.kind \in {"LOAD", "CREATE", "DELETE", "UPDATE"}
    BY DEF Request, Kinds
  <2> QED
    BY <2>4, <2>5, <2>6 DEF OnResponse
<1> QED
  BY <1>1, <1>2, <1>3

LEMMA NewRequestType ==
  ASSUME TypeOK, NEW n \in Nat, NEW k \in Kinds, NEW p \in Players, NEW s \in Slots,
         NEW prev \in Status, NEW guid \in Chars \cup {NoChar}, NEW blob \in Data
  PROVE  NewRequest(n, k, p, s, prev, guid, blob) \in Request
  BY DEF NewRequest, Request, TypeOK, Replies

LEMMA AnsweredType ==
  ASSUME TypeOK, NEW r \in Request, NEW answer \in {"ok", "empty", "error"},
         NEW c \in Chars \cup {NoChar}
  PROVE  /\ Answered(r, answer, c) \in Request
         /\ Answered(r, answer, c).kind = r.kind
         /\ Answered(r, answer, c).p = r.p /\ Answered(r, answer, c).s = r.s
         /\ Answered(r, answer, c).prev = r.prev
<1> DEFINE blob == CASE r.kind = "LOAD" /\ c \in Chars -> body[c]
                     [] r.kind = "CREATE"              -> c
                     [] OTHER                          -> r.body
<1>1. blob \in Data
  BY DEF TypeOK, Request, Data
<1>2. Answered(r, answer, c) = [r EXCEPT !.reply = answer, !.guid = c, !.body = blob]
  BY DEF Answered
<1> HIDE DEF blob
<1> QED
  BY <1>1, <1>2 DEF Request, Replies

(* A step of the backend keeps the types of its store.                     *)
LEMMA ServeTypes ==
  ASSUME TypeOK, NEW r \in Request, NEW answer, NEW c \in Chars \cup {NoChar},
         Serve(r, answer, c)
  PROVE  home' \in [Chars -> Homes] /\ body' \in [Chars -> Data]
<1>1. CASE Refuse(r, answer) \/ ServeLoad(r, answer, c)
  BY <1>1 DEF Refuse, ServeLoad, TypeOK
<1>2. CASE ServeCreate(r, answer, c)
  <2>1. c \in Chars /\ <<r.p, r.s>> \in Homes
    BY <1>2 DEF ServeCreate, Unused, Homes, Request
  <2> QED
    BY <1>2, <2>1 DEF ServeCreate, TypeOK, Data
<1>3. CASE ServeDelete(r, answer) \/ ServeUpdate(r, answer)
  BY <1>3 DEF ServeDelete, ServeUpdate, TypeOK, Homes, Request
<1> QED
  BY <1>1, <1>2, <1>3 DEF Serve

-----------------------------------------------------------------------------
(* The inductive invariant.  ClientViewFresh is not inductive: a delete    *)
(* that fails writes an old status back, and writing UNLOADED back, which  *)
(* is also what m_CachedStatus is forced to, would hide the slot from      *)
(* Think_SendCharData.  So it has to be known which statuses a delete can  *)
(* carry, hence which a connected player's slot can have, hence what a     *)
(* slot is before its first request.                                       *)

ChangingIsEmpty == phase = "changing" => online = {}

PendingNeedsManager == ~loaded => pending = {}

DeletesRestore ==
  \A r \in pending : r.kind = "DELETE" => r.prev \in {"LOADED", "NOTFOUND"}

SlotSound(p, s) ==
  /\ p \notin online \/ ~loaded => info[p][s] = FreshSlot
  /\ p \in online /\ loaded => info[p][s].status # "UNLOADED"
  /\ info[p][s].cached = info[p][s].status => info[p][s].shown = View(info[p][s])

SlotsSound == \A p \in Players, s \in Slots : SlotSound(p, s)

IInv ==
  /\ TypeOK
  /\ ChangingIsEmpty
  /\ PendingNeedsManager
  /\ DeletesRestore
  /\ SlotsSound

LEMMA FreshSlotView == FreshSlot.cached = FreshSlot.status /\ FreshSlot.shown = View(FreshSlot)
  BY DEF FreshSlot, View

(* Queueing adds at most the new request, and nothing without a manager.   *)
LEMMA QueueOneAdds ==
  ASSUME TypeOK, NEW k \in Kinds, NEW p \in Players, NEW s \in Slots,
         NEW prev \in Status, NEW guid \in Chars \cup {NoChar}, NEW blob \in Data,
         QueueOne(k, p, s, prev, guid, blob)
  PROVE  /\ pending' \subseteq Request /\ nextId' \in Nat
         /\ pending \subseteq pending'
         /\ ~loaded => pending' = pending
         /\ \A r \in pending' \ pending :
              r.kind = k /\ r.p = p /\ r.s = s /\ r.prev = prev
         /\ loaded => NewRequest(nextId, k, p, s, prev, guid, blob) \in pending'
<1> DEFINE q == NewRequest(nextId, k, p, s, prev, guid, blob)
<1>1. q \in Request
  BY NewRequestType DEF TypeOK
<1>2. q.kind = k /\ q.p = p /\ q.s = s /\ q.prev = prev
  BY DEF NewRequest
<1> HIDE DEF q
<1>3. loaded => pending' = pending \cup {q} /\ nextId' = nextId + 1
  BY DEF QueueOne, q
<1>4. ~loaded => pending' = pending /\ nextId' = nextId
  BY DEF QueueOne
<1>5. pending \subseteq Request /\ nextId \in Nat
  BY DEF TypeOK
<1> QED
  BY <1>1, <1>2, <1>3, <1>4, <1>5 DEF q

(* A save adds at most an update.                                          *)
LEMMA SaveCharAdds ==
  ASSUME TypeOK, NEW p \in Players, SaveChar(p)
  PROVE  /\ pending' \subseteq Request /\ nextId' \in Nat
         /\ pending \subseteq pending'
         /\ ~loaded => pending' = pending
         /\ \A r \in pending' \ pending : r.kind = "UPDATE"
<1>1. CASE charState[p] = "UNLOADED"
  BY <1>1 DEF SaveChar, TypeOK
<1>2. CASE charState[p] # "UNLOADED"
  <2> DEFINE c == info[p][charNum[p]]
  <2>1. /\ charNum[p] \in Slots /\ c \in SlotInfo /\ playing[p] \in Data
        /\ "UPDATE" \in Kinds
    BY DEF TypeOK, Kinds
  <2>2. c.status \in Status /\ c.guid \in Chars \cup {NoChar}
    BY <2>1 DEF SlotInfo
  <2>3. QueueOne("UPDATE", p, charNum[p], c.status, c.guid, playing[p])
    BY <1>2 DEF SaveChar
  <2> HIDE DEF c
  <2> QED
    BY <2>1, <2>2, <2>3, QueueOneAdds
<1> QED
  BY <1>1, <1>2

(* Removing entities leaves fresh slots behind and the others alone.       *)
LEMMA RemoveEntitiesSound ==
  ASSUME IInv, NEW P \in SUBSET Players, RemoveEntities(P), loaded' = loaded
  PROVE  /\ online' \subseteq Players /\ info' \in [Players -> [Slots -> SlotInfo]]
         /\ charState' \in [Players -> CharStates]
         /\ charNum' \in [Players -> Slots] /\ playing' \in [Players -> Data]
         /\ SlotsSound'
         /\ \A p \in Players : p \in online' => p \in online /\ info'[p] = info[p]
<1>1. /\ online \subseteq Players /\ info \in [Players -> [Slots -> SlotInfo]]
      /\ charState \in [Players -> CharStates]
      /\ charNum \in [Players -> Slots] /\ playing \in [Players -> Data]
  BY DEF IInv, TypeOK
<1>2. online' = online \ P
  BY DEF RemoveEntities
<1>3. info' \in [Players -> [Slots -> SlotInfo]]
  BY <1>1, FreshSlotType DEF RemoveEntities
<1>4. /\ charState' \in [Players -> CharStates]
      /\ charNum' \in [Players -> Slots] /\ playing' \in [Players -> Data]
  BY <1>1, SlotNumbers DEF RemoveEntities, CharStates, Data
<1>5. \A p \in Players : p \in online' => p \in online /\ info'[p] = info[p]
  BY <1>2 DEF RemoveEntities
<1>6. ASSUME NEW p \in Players, NEW s \in Slots PROVE SlotSound(p, s)'
  <2>1. CASE p \in P
    <3>1. info'[p][s] = FreshSlot /\ p \notin online'
      BY <1>2, <2>1 DEF RemoveEntities
    <3> QED
      BY <3>1, FreshSlotView DEF SlotSound, View
  <2>2. CASE p \notin P
    <3>1. info'[p][s] = info[p][s] /\ (p \in online' <=> p \in online)
      BY <1>2, <2>2 DEF RemoveEntities
    <3> QED
      BY <3>1 DEF SlotSound, View, IInv, SlotsSound
  <2> QED
    BY <2>1, <2>2
<1> QED
  BY <1>1, <1>2, <1>3, <1>4, <1>5, <1>6 DEF SlotsSound

(* Pinning a connected player's slot: it is LOADING with its cache forced, *)
(* or, with no manager, the fresh slot it was.                             *)
LEMMA PinnedSound ==
  ASSUME IInv, NEW p \in Players, NEW s \in Slots
  PROVE  /\ loaded => Pinned(info[p][s]).status = "LOADING"
                      /\ Pinned(info[p][s]).cached = "UNLOADED"
         /\ ~loaded => Pinned(info[p][s]) = FreshSlot
<1>1. info[p][s] \in SlotInfo
  BY DEF IInv, TypeOK
<1>2. CASE loaded
  BY <1>1, <1>2 DEF Pinned, SlotInfo
<1>3. CASE ~loaded
  BY <1>3 DEF Pinned, IInv, SlotsSound, SlotSound, FreshSlot
<1> QED
  BY <1>2, <1>3

LEMMA QueueSlotRequestSound ==
  ASSUME IInv, NEW p \in online, NEW s \in Slots, NEW k \in {"CREATE", "DELETE"},
         NEW guid \in Chars \cup {NoChar}, info[p][s].status # "LOADING",
         QueueSlotRequest(k, p, s, guid, NoChar),
         UNCHANGED <<phase, maps, loaded, online>>
  PROVE  /\ pending' \subseteq Request /\ nextId' \in Nat
         /\ info' \in [Players -> [Slots -> SlotInfo]]
         /\ PendingNeedsManager' /\ DeletesRestore' /\ SlotsSound'
<1> DEFINE prev == info[p][s].status
<1>1. /\ p \in Players /\ info \in [Players -> [Slots -> SlotInfo]]
      /\ info[p][s] \in SlotInfo /\ prev \in Status /\ k \in Kinds /\ NoChar \in Data
  BY DEF IInv, TypeOK, SlotInfo, Kinds, Data
<1>2. info' = [info EXCEPT ![p][s] = Pinned(@)]
  BY DEF QueueSlotRequest
<1>3. QueueOne(k, p, s, prev, guid, NoChar)
  BY DEF QueueSlotRequest
<1>4. loaded => prev \in {"LOADED", "NOTFOUND"}
  BY <1>1 DEF IInv, SlotsSound, SlotSound, Status
<1> HIDE DEF prev
<1>5. /\ pending' \subseteq Request /\ nextId' \in Nat
      /\ ~loaded => pending' = pending
      /\ \A r \in pending' \ pending : r.prev = prev
  <2>1. TypeOK
    BY DEF IInv
  <2> QED
    BY ONLY <1>1, <1>3, <2>1, QueueOneAdds
<1>6. info' \in [Players -> [Slots -> SlotInfo]]
  BY <1>1, <1>2, SlotTypes
<1>7. PendingNeedsManager' /\ DeletesRestore'
  BY <1>4, <1>5 DEF IInv, PendingNeedsManager, DeletesRestore
<1>8. ASSUME NEW q \in Players, NEW t \in Slots PROVE SlotSound(q, t)'
  <2>1. CASE q = p /\ t = s
    <3>1. info'[q][t] = Pinned(info[p][s])
      BY <1>1, <1>2, <2>1
    <3> QED
      BY <1>1, <2>1, <3>1, PinnedSound, FreshSlotView DEF SlotSound, View
  <2>2. CASE ~(q = p /\ t = s)
    <3>1. info'[q][t] = info[q][t]
      BY <1>1, <1>2, <2>2
    <3> QED
      BY <3>1 DEF SlotSound, View, IInv, SlotsSound
  <2> QED
    BY <2>1, <2>2
<1> QED
  BY <1>5, <1>6, <1>7, <1>8 DEF SlotsSound

-----------------------------------------------------------------------------
(* One lemma per action.                                                   *)

LEMMA InitInvariant == Init => IInv
<1> SUFFICES ASSUME Init PROVE IInv
  OBVIOUS
<1>1. /\ phase \in {"running", "changing"} /\ maps \in Nat /\ loaded \in BOOLEAN
      /\ online \subseteq Players /\ joins \in [Players -> Nat]
  BY SwitchAssumption DEF Init
<1>2. /\ charState \in [Players -> CharStates] /\ playing \in [Players -> Data]
      /\ charNum \in [Players -> Slots]
  BY SlotNumbers DEF Init, CharStates, Data
<1>3. info \in [Players -> [Slots -> SlotInfo]]
  BY FreshSlotType DEF Init
<1>4. /\ pending \subseteq Request /\ late \subseteq Request /\ nextId \in Nat
      /\ home \in [Chars -> Homes] /\ body \in [Chars -> Data]
      /\ overlapped \subseteq Players
  BY DEF Init, Data
<1>5. TypeOK
  BY <1>1, <1>2, <1>3, <1>4 DEF TypeOK
<1>6. ChangingIsEmpty /\ PendingNeedsManager /\ DeletesRestore
  BY DEF Init, ChangingIsEmpty, PendingNeedsManager, DeletesRestore
<1>7. SlotsSound
  BY FreshSlotView DEF Init, SlotsSound, SlotSound
<1> QED
  BY <1>5, <1>6, <1>7 DEF IInv

(* The requests of LoadAll.                                                *)
LEMMA LoadAllSound ==
  ASSUME IInv, NEW p \in Players, p \notin online, LoadAll(p),
         online' = online \cup {p}, loaded' = loaded
  PROVE  /\ pending' \subseteq Request /\ nextId' \in Nat
         /\ info' \in [Players -> [Slots -> SlotInfo]]
         /\ pending \subseteq pending'
         /\ ~loaded => pending' = pending
         /\ DeletesRestore' /\ SlotsSound'
         /\ \A q \in Players \ {p} : info'[q] = info[q]
         /\ loaded => \A s \in Slots : \E r \in pending' :
                        r.kind = "LOAD" /\ r.p = p /\ r.s = s
         /\ ~loaded => info' = info
<1> DEFINE req(s) == NewRequest(nextId + s, "LOAD", p, s, info[p][s].status, NoChar, NoChar)
<1>1. /\ info \in [Players -> [Slots -> SlotInfo]] /\ pending \subseteq Request
      /\ nextId \in Nat /\ joins \in [Players -> Nat] /\ TypeOK
  BY DEF IInv, TypeOK
<1>2. \A s \in Slots : info[p][s] = FreshSlot
  BY DEF IInv, SlotsSound, SlotSound
<1>3. ASSUME NEW s \in Slots
      PROVE  req(s) \in Request /\ req(s).kind = "LOAD" /\ req(s).p = p /\ req(s).s = s
  <2>1. /\ nextId + s \in Nat /\ "LOAD" \in Kinds /\ NoChar \in Data
        /\ info[p][s].status \in Status
    BY <1>1, SlotNumbers DEF Kinds, Data, SlotInfo
  <2>2. req(s) \in Request
    BY <1>1, <2>1, NewRequestType
  <2>3. req(s).kind = "LOAD" /\ req(s).p = p /\ req(s).s = s
    BY DEF NewRequest
  <2> HIDE DEF req
  <2> QED
    BY <2>2, <2>3
<1>4. \A s \in Slots : info[p][s].status # "LOADING"
  BY <1>2 DEF FreshSlot
<1>5. CASE loaded
  <2>1. /\ nextId' = nextId + Cardinality(Slots)
        /\ pending' = pending \cup {req(s) : s \in Slots}
        /\ info' = [info EXCEPT ![p] = [s \in Slots |-> Pinned(@[s])]]
    BY <1>4, <1>5 DEF LoadAll
  <2> HIDE DEF req
  <2>2. pending' \subseteq Request /\ nextId' \in Nat /\ pending \subseteq pending'
    BY <1>1, <1>3, <2>1, SlotNumbers
  <2>3. info' \in [Players -> [Slots -> SlotInfo]]
    BY <1>1, <2>1, SlotTypes
  <2>4. DeletesRestore'
    BY <1>3, <2>1 DEF IInv, DeletesRestore
  <2>5. \A q \in Players \ {p} : info'[q] = info[q]
    BY <1>1, <2>1
  <2>6. \A s \in Slots : info'[p][s] = Pinned(info[p][s])
    BY <1>1, <2>1
  <2>7. ASSUME NEW q \in Players, NEW t \in Slots PROVE SlotSound(q, t)'
    <3>1. CASE q = p
      BY <1>5, <2>6, <3>1, PinnedSound DEF SlotSound
    <3>2. CASE q # p
      BY <2>5, <3>2 DEF SlotSound, View, IInv, SlotsSound
    <3> QED
      BY <3>1, <3>2
  <2>8. \A s \in Slots : \E r \in pending' : r.kind = "LOAD" /\ r.p = p /\ r.s = s
    BY <1>3, <2>1
  <2> QED
    BY <1>5, <2>2, <2>3, <2>4, <2>5, <2>7, <2>8 DEF SlotsSound
<1>6. CASE ~loaded
  <2>1. UNCHANGED <<info, nextId, pending>>
    BY <1>6 DEF LoadAll
  <2>2. DeletesRestore'
    BY <2>1 DEF IInv, DeletesRestore
  <2>3. SlotsSound'
    BY <1>6, <2>1 DEF IInv, SlotsSound, SlotSound, View
  <2> QED
    BY <1>1, <1>6, <2>1, <2>2, <2>3
<1> QED
  BY <1>5, <1>6

LEMMA ClientPutInServerInvariant ==
  ASSUME IInv, NEW p \in Players, ClientPutInServer(p)
  PROVE  IInv'
<1>1. /\ phase = "running" /\ p \notin online /\ LoadAll(p)
      /\ online' = online \cup {p} /\ joins' = [joins EXCEPT ![p] = @ + 1]
      /\ overlapped' \subseteq overlapped \cup {p}
      /\ UNCHANGED <<phase, maps, loaded, charState, charNum, playing, late, home, body>>
  BY DEF ClientPutInServer, mapVars, backendVars
<1>2. /\ pending' \subseteq Request /\ nextId' \in Nat
      /\ info' \in [Players -> [Slots -> SlotInfo]]
      /\ ~loaded => pending' = pending
      /\ DeletesRestore' /\ SlotsSound'
  BY <1>1, LoadAllSound
<1>3. TypeOK'
  <2>1. /\ online' \subseteq Players /\ joins' \in [Players -> Nat]
        /\ overlapped' \subseteq Players
    BY <1>1 DEF IInv, TypeOK
  <2> QED
    BY <1>1, <1>2, <2>1 DEF IInv, TypeOK
<1>4. ChangingIsEmpty' /\ PendingNeedsManager'
  BY <1>1, <1>2 DEF IInv, ChangingIsEmpty, PendingNeedsManager
<1> QED
  BY <1>2, <1>3, <1>4 DEF IInv

LEMMA DeleteCharacterInvariant ==
  ASSUME IInv, NEW p \in Players, NEW s \in Slots, DeleteCharacter(p, s)
  PROVE  IInv'
<1>1. /\ p \in online /\ info[p][s].status # "LOADING"
      /\ QueueSlotRequest("DELETE", p, s, info[p][s].guid, NoChar)
      /\ UNCHANGED <<phase, maps, loaded, online, joins, overlapped, charState, charNum,
                     playing, late, home, body>>
  BY DEF DeleteCharacter, mapVars, playerVars, backendVars
<1>2. info[p][s].guid \in Chars \cup {NoChar}
  BY DEF IInv, TypeOK, SlotInfo
<1>3. /\ pending' \subseteq Request /\ nextId' \in Nat
      /\ info' \in [Players -> [Slots -> SlotInfo]]
      /\ PendingNeedsManager' /\ DeletesRestore' /\ SlotsSound'
  BY <1>1, <1>2, QueueSlotRequestSound
<1>4. TypeOK' /\ ChangingIsEmpty'
  BY <1>1, <1>3 DEF IInv, TypeOK, ChangingIsEmpty
<1> QED
  BY <1>3, <1>4 DEF IInv

LEMMA CreateCharInvariant ==
  ASSUME IInv, NEW p \in Players, NEW s \in Slots, CreateChar(p, s)
  PROVE  IInv'
<1>1. /\ p \in online /\ charNum' = [charNum EXCEPT ![p] = s]
      /\ UNCHANGED <<phase, maps, loaded, online, joins, overlapped, charState, playing,
                     late, home, body>>
  BY DEF CreateChar, mapVars, backendVars
<1>2. /\ pending' \subseteq Request /\ nextId' \in Nat
      /\ info' \in [Players -> [Slots -> SlotInfo]]
      /\ PendingNeedsManager' /\ DeletesRestore' /\ SlotsSound'
  <2>1. CASE info[p][s].status = "LOADING"
    <3>1. UNCHANGED <<info, pending, nextId>>
      BY <2>1 DEF CreateChar
    <3> QED
      BY <1>1, <3>1 DEF IInv, TypeOK, PendingNeedsManager, DeletesRestore, SlotsSound,
                        SlotSound, View
  <2>2. CASE info[p][s].status # "LOADING"
    <3>1. QueueSlotRequest("CREATE", p, s, NoChar, NoChar)
      BY <2>2 DEF CreateChar
    <3> QED
      BY <1>1, <2>2, <3>1, QueueSlotRequestSound
  <2> QED
    BY <2>1, <2>2
<1>3. TypeOK' /\ ChangingIsEmpty'
  BY <1>1, <1>2 DEF IInv, TypeOK, ChangingIsEmpty
<1> QED
  BY <1>2, <1>3 DEF IInv

(* A readable slot is not the fresh one, so there is a manager; nothing of *)
(* the slot changes.                                                       *)
LEMMA LoadCharacterInvariant ==
  ASSUME IInv, NEW p \in Players, NEW s \in Slots, LoadCharacter(p, s)
  PROVE  IInv'
<1>1. UNCHANGED <<phase, maps, loaded, online, joins, overlapped, info, pending, nextId,
                  late, home, body>>
  BY DEF LoadCharacter, mapVars, backendVars
<1>2. info[p][s].data \in Data
  BY DEF IInv, TypeOK, SlotInfo
<1>3. /\ charState' \in [Players -> CharStates] /\ charNum' \in [Players -> Slots]
      /\ playing' \in [Players -> Data]
  BY <1>2 DEF LoadCharacter, IInv, TypeOK, CharStates, Data
<1>4. TypeOK'
  BY <1>1, <1>3 DEF IInv, TypeOK
<1>5. /\ ChangingIsEmpty' /\ PendingNeedsManager' /\ DeletesRestore' /\ SlotsSound'
  BY <1>1 DEF IInv, ChangingIsEmpty, PendingNeedsManager, DeletesRestore, SlotsSound,
              SlotSound, View
<1> QED
  BY <1>4, <1>5 DEF IInv

LEMMA SaveInvariant ==
  ASSUME IInv, NEW p \in Players, Save(p)
  PROVE  IInv'
<1>1. /\ SaveChar(p)
      /\ UNCHANGED <<phase, maps, loaded, online, joins, overlapped, charState, charNum,
                     playing, info, late, home, body>>
  BY DEF Save, mapVars, playerVars, backendVars
<1>2. TypeOK
  BY DEF IInv
<1>3. /\ pending' \subseteq Request /\ nextId' \in Nat
      /\ ~loaded => pending' = pending
      /\ \A r \in pending' \ pending : r.kind = "UPDATE"
  BY <1>1, <1>2, SaveCharAdds
<1>4. TypeOK'
  BY <1>1, <1>3 DEF IInv, TypeOK
<1>5. ChangingIsEmpty' /\ PendingNeedsManager' /\ DeletesRestore' /\ SlotsSound'
  BY <1>1, <1>3 DEF IInv, ChangingIsEmpty, PendingNeedsManager, DeletesRestore, SlotsSound,
                    SlotSound, View
<1> QED
  BY <1>4, <1>5 DEF IInv

LEMMA ClientDisconnectedInvariant ==
  ASSUME IInv, NEW p \in Players, ClientDisconnected(p)
  PROVE  IInv'
<1>1. /\ SaveChar(p) /\ RemoveEntities({p})
      /\ UNCHANGED <<phase, maps, loaded, joins, overlapped, late, home, body>>
  BY DEF ClientDisconnected, mapVars, backendVars
<1>2. TypeOK
  BY DEF IInv
<1>3. /\ pending' \subseteq Request /\ nextId' \in Nat
      /\ ~loaded => pending' = pending
      /\ \A r \in pending' \ pending : r.kind = "UPDATE"
  BY <1>1, <1>2, SaveCharAdds
<1>4. /\ online' \subseteq Players /\ info' \in [Players -> [Slots -> SlotInfo]]
      /\ charState' \in [Players -> CharStates]
      /\ charNum' \in [Players -> Slots] /\ playing' \in [Players -> Data]
      /\ SlotsSound'
      /\ \A q \in Players : q \in online' => q \in online
  BY <1>1, RemoveEntitiesSound
<1>5. TypeOK'
  BY <1>1, <1>3, <1>4 DEF IInv, TypeOK
<1>6. ChangingIsEmpty' /\ PendingNeedsManager' /\ DeletesRestore'
  BY <1>1, <1>3, <1>4 DEF IInv, ChangingIsEmpty, PendingNeedsManager, DeletesRestore
<1> QED
  BY <1>4, <1>5, <1>6 DEF IInv

LEMMA Think_SendCharDataInvariant ==
  ASSUME IInv, NEW p \in Players, Think_SendCharData(p)
  PROVE  IInv'
<1>1. /\ p \in online
      /\ info' = [info EXCEPT ![p] = [s \in Slots |-> Sent(@[s])]]
      /\ UNCHANGED <<phase, maps, loaded, online, joins, overlapped, charState, charNum,
                     playing, pending, nextId, late, home, body>>
  BY DEF Think_SendCharData, mapVars, playerVars, backendVars
<1>2. info \in [Players -> [Slots -> SlotInfo]]
  BY DEF IInv, TypeOK
<1>3. info' \in [Players -> [Slots -> SlotInfo]]
  BY <1>1, <1>2, SlotTypes
<1>4. TypeOK'
  BY <1>1, <1>3 DEF IInv, TypeOK
<1>5. ChangingIsEmpty' /\ PendingNeedsManager' /\ DeletesRestore'
  BY <1>1 DEF IInv, ChangingIsEmpty, PendingNeedsManager, DeletesRestore
<1>6. ASSUME NEW q \in Players, NEW t \in Slots PROVE SlotSound(q, t)'
  <2> DEFINE c == info[q][t]
  <2>1. CASE q = p
    <3>1. info'[q][t] = Sent(c) /\ c \in SlotInfo
      BY <1>1, <1>2, <2>1
    <3>2. /\ Sent(c).status = c.status /\ View(Sent(c)) = View(c)
          /\ Sent(c).shown = IF c.cached = c.status THEN c.shown ELSE View(c)
      BY <3>1 DEF Sent, View, SlotInfo
    <3>3. c = FreshSlot => Sent(c) = FreshSlot
      BY DEF Sent, FreshSlot
    <3> QED
      BY <1>1, <3>1, <3>2, <3>3 DEF SlotSound, IInv, SlotsSound
  <2>2. CASE q # p
    BY <1>1, <2>2 DEF SlotSound, View, IInv, SlotsSound
  <2> QED
    BY <2>1, <2>2
<1> QED
  BY <1>4, <1>5, <1>6 DEF IInv, SlotsSound

(* What a response leaves in a slot: the slot as it was, or a known status *)
(* with the client's update forced.                                        *)
LEMMA ResponseForces ==
  ASSUME NEW c \in SlotInfo, NEW r \in Request, NEW code,
         r.kind = "DELETE" => r.prev \in {"LOADED", "NOTFOUND"}
  PROVE  \/ OnResponse(c, r, code) = c /\ (r.kind = "UPDATE" \/ r.p \in Banned)
         \/ /\ OnResponse(c, r, code).status \in {"LOADED", "NOTFOUND"}
            /\ OnResponse(c, r, code).cached = "UNLOADED"
<1>1. MarkNotFound(c).status = "NOTFOUND" /\ MarkNotFound(c).cached = "UNLOADED"
  BY DEF MarkNotFound, SlotInfo
<1>2. Assigned(c, r).status = "LOADED" /\ Assigned(c, r).cached = "UNLOADED"
  BY DEF Assigned, SlotInfo
<1>3. CASE r.kind = "LOAD"
  BY <1>1, <1>2, <1>3 DEF OnResponse, OnLoad
<1>4. CASE r.kind = "CREATE"
  BY <1>1, <1>2, <1>4 DEF OnResponse, OnCreate
<1>5. CASE r.kind = "DELETE"
  <2>1. OnResponse(c, r, code) = OnDelete(c, r, code)
    BY <1>5 DEF OnResponse
  <2> QED
    BY <1>1, <1>5, <2>1 DEF OnDelete, SlotInfo
<1>6. CASE r.kind = "UPDATE"
  BY <1>6 DEF OnResponse
<1> QED
  BY <1>3, <1>4, <1>5, <1>6 DEF Request, Kinds

(* Handing the queued requests to curl changes nothing else about them.    *)
LEMMA StartedSame ==
  ASSUME TypeOK, NEW refused
  PROVE  /\ Started(refused) \subseteq Request
         /\ \A q \in Started(refused) : \E r \in pending :
              q.kind = r.kind /\ q.p = r.p /\ q.s = r.s /\ q.prev = r.prev
         /\ \A r \in pending \ refused : \E q \in Started(refused) :
              q.kind = r.kind /\ q.p = r.p /\ q.s = r.s
<1>1. ASSUME NEW r \in pending
      PROVE  /\ [r EXCEPT !.st = "EXECUTED"] \in Request
             /\ [r EXCEPT !.st = "EXECUTED"].kind = r.kind
             /\ [r EXCEPT !.st = "EXECUTED"].p = r.p
             /\ [r EXCEPT !.st = "EXECUTED"].s = r.s
             /\ [r EXCEPT !.st = "EXECUTED"].prev = r.prev
  BY DEF TypeOK, Request
<1> QED
  BY <1>1 DEF Started

LEMMA RespondSound ==
  ASSUME IInv, loaded, NEW r \in Request, NEW code, Respond(r, code),
         r.kind = "DELETE" => r.prev \in {"LOADED", "NOTFOUND"},
         online' = online, loaded' = loaded
  PROVE  info' \in [Players -> [Slots -> SlotInfo]] /\ SlotsSound'
<1>1. /\ info \in [Players -> [Slots -> SlotInfo]] /\ r.p \in Players /\ r.s \in Slots
  BY DEF IInv, TypeOK, Request
<1>2. CASE r.p \notin online
  <2>1. info' = info
    BY <1>2 DEF Respond
  <2> QED
    BY <1>1, <2>1 DEF IInv, SlotsSound, SlotSound, View
<1>3. CASE r.p \in online
  <2> DEFINE c == info[r.p][r.s]
             d == OnResponse(c, r, code)
  <2>1. info' = [info EXCEPT ![r.p][r.s] = d]
    BY <1>3 DEF Respond
  <2>2. c \in SlotInfo
    BY <1>1
  <2>3. d \in SlotInfo
    BY <2>2, SlotTypes
  <2>4. d = c \/ (d.status \in {"LOADED", "NOTFOUND"} /\ d.cached = "UNLOADED")
    BY <2>2, ResponseForces
  <2> HIDE DEF d
  <2>5. info' \in [Players -> [Slots -> SlotInfo]]
    BY <1>1, <2>1, <2>3
  <2>6. ASSUME NEW q \in Players, NEW t \in Slots PROVE SlotSound(q, t)'
    <3>1. CASE q = r.p /\ t = r.s
      <4>1. info'[q][t] = d
        BY <1>1, <2>1, <3>1
      <4> QED
        BY <1>3, <2>4, <3>1, <4>1 DEF SlotSound, View, IInv, SlotsSound
    <3>2. CASE ~(q = r.p /\ t = r.s)
      <4>1. info'[q][t] = info[q][t]
        BY <1>1, <2>1, <3>2
      <4> QED
        BY <4>1 DEF SlotSound, View, IInv, SlotsSound
    <3> QED
      BY <3>1, <3>2
  <2> QED
    BY <2>5, <2>6 DEF SlotsSound
<1> QED
  BY <1>2, <1>3

LEMMA StartInvariant == IInv /\ Start => IInv'
<1> SUFFICES ASSUME IInv, Start PROVE IInv'
  OBVIOUS
<1>1. /\ loaded
      /\ UNCHANGED <<phase, maps, loaded, online, joins, overlapped, charState, charNum,
                     playing, info, nextId, late, home, body>>
  BY DEF Start, ThinkStart, mapVars, playerVars
<1>2. PICK refused : pending' = Started(refused)
  BY DEF Start, ThinkStart
<1>3. /\ pending' \subseteq Request
      /\ \A q \in pending' : \E r \in pending : q.kind = r.kind /\ q.prev = r.prev
  BY <1>2, StartedSame DEF IInv
<1>4. TypeOK'
  BY <1>1, <1>3 DEF IInv, TypeOK
<1>5. ChangingIsEmpty' /\ PendingNeedsManager' /\ DeletesRestore' /\ SlotsSound'
  BY <1>1, <1>3 DEF IInv, ChangingIsEmpty, PendingNeedsManager, DeletesRestore, SlotsSound,
                    SlotSound, View
<1> QED
  BY <1>4, <1>5 DEF IInv

LEMMA ReapInvariant ==
  ASSUME IInv, NEW id, Reap(id)
  PROVE  IInv'
<1>1. /\ loaded
      /\ UNCHANGED <<phase, maps, loaded, online, joins, overlapped, charState, charNum,
                     playing, nextId, home, body>>
  BY DEF Reap, mapVars, playerVars
<1>2. PICK refused : ThinkComplete(refused, id)
  BY DEF Reap
<1>3. PICK r \in Started(refused) :
        \E code : /\ pending' = Started(refused) \ {r}
                  /\ late' = late \cup GivenUp({r})
                  /\ Respond(r, code)
  BY <1>2 DEF ThinkComplete
<1>4. PICK code : /\ pending' = Started(refused) \ {r}
                  /\ late' = late \cup GivenUp({r})
                  /\ Respond(r, code)
  BY <1>3
<1>5. /\ Started(refused) \subseteq Request
      /\ \A q \in Started(refused) : \E o \in pending : q.kind = o.kind /\ q.prev = o.prev
  BY StartedSame DEF IInv
<1>6. /\ r \in Request /\ pending' \subseteq Request /\ late' \subseteq Request
      /\ r.kind = "DELETE" => r.prev \in {"LOADED", "NOTFOUND"}
      /\ DeletesRestore'
  BY <1>4, <1>5 DEF IInv, TypeOK, GivenUp, DeletesRestore
<1>7. info' \in [Players -> [Slots -> SlotInfo]] /\ SlotsSound'
  BY <1>1, <1>4, <1>6, RespondSound
<1>8. TypeOK'
  BY <1>1, <1>6, <1>7 DEF IInv, TypeOK
<1>9. ChangingIsEmpty' /\ PendingNeedsManager'
  BY <1>1 DEF IInv, ChangingIsEmpty, PendingNeedsManager
<1> QED
  BY <1>6, <1>7, <1>8, <1>9 DEF IInv

LEMMA BackendServesInvariant == IInv /\ BackendServes => IInv'
<1> SUFFICES ASSUME IInv, BackendServes PROVE IInv'
  OBVIOUS
<1>1. PICK r \in pending, answer \in {"ok", "empty", "error"}, c \in Chars \cup {NoChar} :
        /\ Serve(r, answer, c)
        /\ pending' = (pending \ {r}) \cup {Answered(r, answer, c)}
        /\ UNCHANGED <<phase, maps, loaded, online, joins, overlapped, charState, charNum,
                       playing, info, nextId, late>>
  BY DEF BackendServes, mapVars, playerVars
<1>2. TypeOK /\ r \in Request
  BY DEF IInv, TypeOK
<1>3. /\ Answered(r, answer, c) \in Request
      /\ Answered(r, answer, c).kind = r.kind /\ Answered(r, answer, c).prev = r.prev
  BY <1>2, AnsweredType
<1>4. home' \in [Chars -> Homes] /\ body' \in [Chars -> Data]
  BY <1>1, <1>2, ServeTypes
<1>5. TypeOK'
  BY <1>1, <1>3, <1>4 DEF IInv, TypeOK
<1>6. ChangingIsEmpty' /\ PendingNeedsManager' /\ DeletesRestore' /\ SlotsSound'
  BY <1>1, <1>3 DEF IInv, ChangingIsEmpty, PendingNeedsManager, DeletesRestore, SlotsSound,
                    SlotSound, View
<1> QED
  BY <1>5, <1>6 DEF IInv

LEMMA BackendServesLateInvariant == IInv /\ BackendServesLate => IInv'
<1> SUFFICES ASSUME IInv, BackendServesLate PROVE IInv'
  OBVIOUS
<1>1. PICK r \in late, answer \in {"ok", "error"}, c \in Chars \cup {NoChar} :
        /\ Serve(r, answer, c)
        /\ late' = late \ {r}
        /\ UNCHANGED <<phase, maps, loaded, online, joins, overlapped, charState, charNum,
                       playing, info, pending, nextId>>
  BY DEF BackendServesLate, mapVars, playerVars
<1>2. TypeOK /\ r \in Request
  BY DEF IInv, TypeOK
<1>3. home' \in [Chars -> Homes] /\ body' \in [Chars -> Data]
  BY <1>1, <1>2, ServeTypes
<1>4. TypeOK'
  BY <1>1, <1>3 DEF IInv, TypeOK
<1>5. ChangingIsEmpty' /\ PendingNeedsManager' /\ DeletesRestore' /\ SlotsSound'
  BY <1>1 DEF IInv, ChangingIsEmpty, PendingNeedsManager, DeletesRestore, SlotsSound,
              SlotSound, View
<1> QED
  BY <1>4, <1>5 DEF IInv

(* What MSGameEnd queues: updates only.                                    *)
LEMMA MSGameEndAdds ==
  ASSUME TypeOK, MSGameEnd
  PROVE  /\ pending' \subseteq Request /\ nextId' \in Nat
         /\ ~loaded => pending' = pending
         /\ \A r \in pending' \ pending : r.kind = "UPDATE"
<1>1. CASE ~loaded
  BY <1>1 DEF MSGameEnd, TypeOK
<1>2. CASE loaded
  <2> DEFINE last == nextId + Cardinality(Leaving) - 1
             req(num, p) == NewRequest(num[p], "UPDATE", p, charNum[p],
                                       info[p][charNum[p]].status,
                                       info[p][charNum[p]].guid, playing[p])
  <2>1. Cardinality(Leaving) \in Nat
    <3>1. Leaving \subseteq Players
      BY DEF Leaving, TypeOK
    <3> QED
      BY <3>1, PlayersAssumption, FS_Subset, FS_CardinalityType
  <2>2. PICK num \in [Leaving -> nextId .. last] :
          /\ nextId' = nextId + Cardinality(Leaving)
          /\ pending' = pending \cup {req(num, p) : p \in Leaving}
    BY <1>2 DEF MSGameEnd
  <2>3. ASSUME NEW p \in Leaving
        PROVE  req(num, p) \in Request /\ req(num, p).kind = "UPDATE"
    <3>1. num[p] \in Nat
      BY <2>1, <2>2 DEF TypeOK
    <3>2. /\ p \in Players /\ charNum[p] \in Slots /\ playing[p] \in Data
          /\ info[p][charNum[p]] \in SlotInfo /\ "UPDATE" \in Kinds
      BY DEF Leaving, TypeOK, Kinds
    <3>3. /\ info[p][charNum[p]].status \in Status
          /\ info[p][charNum[p]].guid \in Chars \cup {NoChar}
      BY <3>2 DEF SlotInfo
    <3>4. req(num, p) \in Request
      BY <3>1, <3>2, <3>3, NewRequestType
    <3> QED
      BY <3>4 DEF NewRequest
  <2> HIDE DEF req
  <2> QED
    BY <1>2, <2>1, <2>2, <2>3 DEF TypeOK
<1> QED
  BY <1>1, <1>2

LEMMA MSGameEndInvariant == IInv /\ MSGameEnd => IInv'
<1> SUFFICES ASSUME IInv, MSGameEnd PROVE IInv'
  OBVIOUS
<1>1. /\ phase' = "changing" /\ maps' = maps + 1 /\ RemoveEntities(online)
      /\ UNCHANGED <<loaded, joins, overlapped, late, home, body>>
  BY DEF MSGameEnd, backendVars
<1>2. online \in SUBSET Players
  BY DEF IInv, TypeOK
<1>3. /\ online' \subseteq Players /\ info' \in [Players -> [Slots -> SlotInfo]]
      /\ charState' \in [Players -> CharStates]
      /\ charNum' \in [Players -> Slots] /\ playing' \in [Players -> Data]
      /\ SlotsSound'
  BY <1>1, <1>2, RemoveEntitiesSound
<1>4. /\ pending' \subseteq Request /\ nextId' \in Nat
      /\ ~loaded => pending' = pending
      /\ \A r \in pending' \ pending : r.kind = "UPDATE"
  BY MSGameEndAdds DEF IInv
<1>5. TypeOK'
  BY <1>1, <1>3, <1>4 DEF IInv, TypeOK
<1>6. ChangingIsEmpty' /\ PendingNeedsManager' /\ DeletesRestore'
  BY <1>1, <1>4 DEF IInv, ChangingIsEmpty, PendingNeedsManager, DeletesRestore, RemoveEntities
<1> QED
  BY <1>3, <1>5, <1>6 DEF IInv

(* Nobody is connected while the manager is replaced, so every slot is     *)
(* fresh, whichever way Init ends.                                         *)
LEMMA MSGameInitInvariant == IInv /\ MSGameInit => IInv'
<1> SUFFICES ASSUME IInv, MSGameInit PROVE IInv'
  OBVIOUS
<1>1. /\ phase = "changing" /\ phase' = "running" /\ pending' = {}
      /\ late' = late \cup GivenUp(pending) /\ joins' = [p \in Players |-> 0]
      /\ loaded' \in BOOLEAN
      /\ UNCHANGED <<maps, online, charState, charNum, playing, info, nextId, home, body,
                     overlapped>>
  BY DEF MSGameInit
<1>2. online = {}
  BY <1>1 DEF IInv, ChangingIsEmpty
<1>3. late' \subseteq Request
  BY <1>1 DEF GivenUp, IInv, TypeOK
<1>4. TypeOK'
  BY <1>1, <1>3 DEF IInv, TypeOK
<1>5. ChangingIsEmpty' /\ PendingNeedsManager' /\ DeletesRestore'
  BY <1>1 DEF ChangingIsEmpty, PendingNeedsManager, DeletesRestore
<1>6. SlotsSound'
  BY <1>1, <1>2 DEF IInv, SlotsSound, SlotSound, View
<1> QED
  BY <1>4, <1>5, <1>6 DEF IInv

-----------------------------------------------------------------------------
LEMMA NextInvariant == IInv /\ [Next]_vars => IInv'
<1> SUFFICES ASSUME IInv, [Next]_vars PROVE IInv'
  OBVIOUS
<1>1. ASSUME NEW p \in Players, Commands(p) PROVE IInv'
  BY <1>1, ClientPutInServerInvariant, DeleteCharacterInvariant, CreateCharInvariant,
     LoadCharacterInvariant, SaveInvariant, ClientDisconnectedInvariant,
     Think_SendCharDataInvariant
     DEF Commands
<1>2. CASE Think
  BY <1>2, StartInvariant, ReapInvariant DEF Think
<1>3. CASE BackendServes \/ BackendServesLate
  BY <1>3, BackendServesInvariant, BackendServesLateInvariant
<1>4. CASE MSGameEnd \/ MSGameInit
  BY <1>4, MSGameEndInvariant, MSGameInitInvariant
<1>5. CASE UNCHANGED vars
  <2>1. UNCHANGED <<phase, maps, loaded, online, joins, overlapped, charState, charNum,
                    playing, info, pending, nextId, late, home, body>>
    BY <1>5 DEF vars, mapVars, playerVars, backendVars
  <2>2. TypeOK'
    BY <2>1 DEF IInv, TypeOK
  <2>3. ChangingIsEmpty' /\ PendingNeedsManager' /\ DeletesRestore' /\ SlotsSound'
    BY <2>1 DEF IInv, ChangingIsEmpty, PendingNeedsManager, DeletesRestore, SlotsSound,
                SlotSound, View
  <2> QED
    BY <2>2, <2>3 DEF IInv
<1> QED
  BY <1>1, <1>2, <1>3, <1>4, <1>5 DEF Next

(* The invariant of the character model holds in every reachable state.   *)
THEOREM Invariance == Spec => []IInv
<1> QED
  BY InitInvariant, NextInvariant, PTL DEF Spec

(* Every variable of the character model keeps its type.                   *)
THEOREM TypeCorrect == Spec => []TypeOK
<1>1. IInv => TypeOK
  BY DEF IInv
<1> QED
  BY <1>1, Invariance, PTL

(* m_CachedStatus never hides a change: whenever Think_SendCharData skips  *)
(* a slot, the client has been sent what the slot holds, whatever failed,  *)
(* arrived late or was refused before.                                     *)
THEOREM ClientViewCorrect == Spec => []ClientViewFresh
<1>1. IInv => ClientViewFresh
  BY DEF IInv, TypeOK, SlotsSound, SlotSound, ClientViewFresh
<1> QED
  BY <1>1, Invariance, PTL

-----------------------------------------------------------------------------
(* OnlyCurlStrands.  StaysStranded is what every step but Think does: it   *)
(* leaves no slot LOADING without a callback that was not so before.       *)

StaysStranded == \A p \in Players, s \in Slots : Stranded(p, s)' => Stranded(p, s)

(* Steps that keep the connected players' statuses and the requests.       *)
LEMMA KeepsRequests ==
  ASSUME IInv,
         \A p \in online' : p \in online,
         \A p \in online', s \in Slots : info'[p][s].status = info[p][s].status,
         \A p \in online', s \in Slots : Awaited(p, s) => Awaited(p, s)'
  PROVE  StaysStranded
  BY DEF StaysStranded, Stranded

LEMMA SlotRequestLoading ==
  ASSUME IInv, NEW p \in online, NEW s \in Slots,
         NEW k \in {"CREATE", "DELETE"}, NEW guid \in Chars \cup {NoChar},
         info[p][s].status # "LOADING", QueueSlotRequest(k, p, s, guid, NoChar),
         online' = online
  PROVE  StaysStranded
<1> DEFINE prev == info[p][s].status
<1>1. /\ p \in Players /\ info \in [Players -> [Slots -> SlotInfo]]
      /\ info[p][s] \in SlotInfo /\ prev \in Status /\ k \in Kinds /\ NoChar \in Data
      /\ TypeOK
  BY DEF IInv, TypeOK, SlotInfo, Kinds, Data
<1>2. info' = [info EXCEPT ![p][s] = Pinned(@)] /\ QueueOne(k, p, s, prev, guid, NoChar)
  BY DEF QueueSlotRequest
<1> HIDE DEF prev
<1>3. pending \subseteq pending'
  BY ONLY <1>1, <1>2, QueueOneAdds
<1>4. CASE loaded
  <2>1. NewRequest(nextId, k, p, s, prev, guid, NoChar) \in pending'
    BY ONLY <1>1, <1>2, <1>4, QueueOneAdds
  <2>2. Awaited(p, s)'
    BY <2>1 DEF Awaited, NewRequest, NeedsAnswer
  <2>3. ASSUME NEW q \in Players, NEW t \in Slots, ~(q = p /\ t = s), Stranded(q, t)'
        PROVE  Stranded(q, t)
    <3>1. info'[q][t] = info[q][t]
      BY <1>1, <1>2, <2>3 DEF IInv, TypeOK
    <3> QED
      BY <1>3, <2>3, <3>1 DEF Stranded, Awaited
  <2> QED
    BY <2>2, <2>3 DEF StaysStranded, Stranded
<1>5. CASE ~loaded
  <2>1. Pinned(info[p][s]).status = info[p][s].status
    BY <1>1, <1>5 DEF Pinned, SlotInfo
  <2>2. \A q \in online, t \in Slots : info'[q][t].status = info[q][t].status
    BY <1>1, <1>2, <2>1 DEF IInv, TypeOK
  <2> QED
    BY <1>3, <2>2, KeepsRequests DEF Awaited
<1> QED
  BY <1>4, <1>5

LEMMA ClientPutInServerLoading ==
  ASSUME IInv, NEW p \in Players, ClientPutInServer(p)
  PROVE  StaysStranded
<1>1. /\ p \notin online /\ LoadAll(p) /\ online' = online \cup {p} /\ loaded' = loaded
  BY DEF ClientPutInServer, mapVars
<1>2. /\ pending \subseteq pending'
      /\ \A q \in Players \ {p} : info'[q] = info[q]
      /\ loaded => \A s \in Slots : \E r \in pending' :
                     r.kind = "LOAD" /\ r.p = p /\ r.s = s
      /\ ~loaded => info' = info
  BY <1>1, LoadAllSound
<1>3. \A s \in Slots : info[p][s].status # "LOADING"
  BY <1>1 DEF IInv, SlotsSound, SlotSound, FreshSlot
<1>4. ASSUME NEW q \in Players, NEW s \in Slots, Stranded(q, s)'
      PROVE  Stranded(q, s)
  <2>1. CASE q = p
    <3>1. loaded
      BY <1>2, <1>3, <1>4, <2>1 DEF Stranded
    <3>2. Awaited(p, s)'
      BY <1>2, <3>1 DEF Awaited, NeedsAnswer
    <3> QED
      BY <1>4, <2>1, <3>2 DEF Stranded
  <2>2. CASE q # p
    BY <1>1, <1>2, <1>4, <2>2 DEF Stranded, Awaited
  <2> QED
    BY <2>1, <2>2
<1> QED
  BY <1>4 DEF StaysStranded

LEMMA CommandsLoading ==
  ASSUME IInv, NEW p \in Players, Commands(p)
  PROVE  StaysStranded
<1>1. CASE ClientPutInServer(p)
  BY <1>1, ClientPutInServerLoading
<1>2. ASSUME NEW s \in Slots, DeleteCharacter(p, s) PROVE StaysStranded
  <2>1. info[p][s].guid \in Chars \cup {NoChar}
    BY DEF IInv, TypeOK, SlotInfo
  <2> QED
    BY <1>2, <2>1, SlotRequestLoading DEF DeleteCharacter, playerVars
<1>3. ASSUME NEW s \in Slots, CreateChar(p, s) PROVE StaysStranded
  <2>1. CASE info[p][s].status = "LOADING"
    BY <1>3, <2>1, KeepsRequests DEF CreateChar, Awaited
  <2>2. CASE info[p][s].status # "LOADING"
    BY <1>3, <2>2, SlotRequestLoading DEF CreateChar
  <2> QED
    BY <2>1, <2>2
<1>4. ASSUME NEW s \in Slots, LoadCharacter(p, s) PROVE StaysStranded
  BY <1>4, KeepsRequests DEF LoadCharacter, Awaited
<1>5. CASE Save(p)
  <2>1. pending \subseteq pending'
    BY <1>5, SaveCharAdds DEF Save, IInv
  <2> QED
    BY <1>5, <2>1, KeepsRequests DEF Save, playerVars, Awaited
<1>6. CASE ClientDisconnected(p)
  <2>1. pending \subseteq pending'
    BY <1>6, SaveCharAdds DEF ClientDisconnected, IInv
  <2>2. RemoveEntities({p}) /\ loaded' = loaded
    BY <1>6 DEF ClientDisconnected, mapVars
  <2>3. \A q \in Players : q \in online' => q \in online /\ info'[q] = info[q]
    BY <2>2, RemoveEntitiesSound
  <2>4. online' \subseteq Players
    BY <2>2, RemoveEntitiesSound
  <2> QED
    BY <2>1, <2>3, <2>4, KeepsRequests DEF Awaited
<1>7. CASE Think_SendCharData(p)
  <2>1. /\ info' = [info EXCEPT ![p] = [s \in Slots |-> Sent(@[s])]]
        /\ online' = online /\ pending' = pending
    BY <1>7 DEF Think_SendCharData, playerVars
  <2>2. \A c \in SlotInfo : Sent(c).status = c.status
    BY DEF Sent, SlotInfo
  <2>3. info \in [Players -> [Slots -> SlotInfo]]
    BY DEF IInv, TypeOK
  <2>4. ASSUME NEW q \in Players, NEW s \in Slots
        PROVE  info'[q][s].status = info[q][s].status
    <3>1. info'[q][s] = IF q = p THEN Sent(info[q][s]) ELSE info[q][s]
      BY <2>1, <2>3
    <3> QED
      BY <2>2, <2>3, <3>1
  <2> QED
    BY <2>1, <2>4, KeepsRequests DEF Awaited, IInv, TypeOK
<1> QED
  BY <1>1, <1>2, <1>3, <1>4, <1>5, <1>6, <1>7 DEF Commands

(* What curl refuses had not been sent.                                    *)
LEMMA RefusedUnsent ==
  ASSUME NEW refused \in SUBSET Refusable, NEW p \in Players, NEW s \in Slots,
         NEW r \in refused, r.p = p, r.s = s, NeedsAnswer(r)
  PROVE  AddCanFail /\ Unsent(p, s)
  BY DEF Refusable, Unsent

LEMMA StartLoading ==
  ASSUME IInv, Start, NEW p \in Players, NEW s \in Slots, Stranded(p, s)'
  PROVE  Stranded(p, s) \/ (AddCanFail /\ Unsent(p, s))
<1>1. PICK refused \in SUBSET Refusable : pending' = Started(refused)
  BY DEF Start, ThinkStart
<1>2. online' = online /\ info' = info
  BY DEF Start, ThinkStart, playerVars
<1>3. ASSUME NEW r \in pending \ refused, r.p = p, r.s = s, NeedsAnswer(r)
      PROVE  FALSE
  <2>1. \E q \in pending' : q.kind = r.kind /\ q.p = r.p /\ q.s = r.s
    BY <1>1, StartedSame DEF IInv
  <2> QED
    BY <1>3, <2>1 DEF Stranded, Awaited, NeedsAnswer
<1> QED
  BY <1>2, <1>3, RefusedUnsent DEF Stranded, Awaited

(* The answered request leaves the queue, and its slot leaves LOADING.     *)
LEMMA ReapLoading ==
  ASSUME IInv, NEW id, Reap(id), NEW p \in Players, NEW s \in Slots, Stranded(p, s)'
  PROVE  Stranded(p, s) \/ (AddCanFail /\ Unsent(p, s))
<1>1. PICK refused \in SUBSET Refusable : ThinkComplete(refused, id)
  BY DEF Reap
<1>2. PICK r \in Started(refused) :
        \E code : pending' = Started(refused) \ {r} /\ Respond(r, code)
  BY <1>1 DEF ThinkComplete
<1>3. PICK code : pending' = Started(refused) \ {r} /\ Respond(r, code)
  BY <1>2
<1>4. /\ r \in Request
      /\ r.kind = "DELETE" => r.prev \in {"LOADED", "NOTFOUND"}
      /\ \A o \in pending \ refused : \E q \in Started(refused) :
           q.kind = o.kind /\ q.p = o.p /\ q.s = o.s
  <2>1. TypeOK /\ DeletesRestore
    BY DEF IInv
  <2>2. /\ r \in Request
        /\ \E o \in pending : r.kind = o.kind /\ r.prev = o.prev
    BY <2>1, StartedSame
  <2> QED
    BY <2>1, <2>2, StartedSame DEF DeletesRestore
<1>5. online' = online
  BY DEF Reap, playerVars
<1>6. /\ p \in online \ Banned /\ info'[p][s].status = "LOADING"
      /\ \A q \in Started(refused) \ {r} : ~(q.p = p /\ q.s = s /\ NeedsAnswer(q))
  BY <1>3, <1>5 DEF Stranded, Awaited
<1>7. r.p \in Players /\ r.s \in Slots /\ info \in [Players -> [Slots -> SlotInfo]]
  BY <1>4 DEF IInv, TypeOK, Request
<1>8. ~(r.p = p /\ r.s = s /\ NeedsAnswer(r))
  <2> SUFFICES ASSUME r.p = p, r.s = s, NeedsAnswer(r) PROVE FALSE
    OBVIOUS
  <2> DEFINE c == info[p][s]
             d == OnResponse(c, r, code)
  <2>1. info'[p][s] = d /\ c \in SlotInfo
    BY <1>3, <1>6, <1>7 DEF Respond
  <2>2. d.status \in {"LOADED", "NOTFOUND"}
    BY <1>4, <1>6, <2>1, ResponseForces DEF NeedsAnswer
  <2> QED
    BY <1>6, <2>1, <2>2
<1>9. info'[p][s] = info[p][s]
  <2>1. CASE r.p = p /\ r.s = s
    BY <1>3, <1>7, <1>8, <2>1 DEF Respond, NeedsAnswer, OnResponse
  <2>2. CASE ~(r.p = p /\ r.s = s)
    BY <1>3, <1>7, <2>2 DEF Respond
  <2> QED
    BY <2>1, <2>2
<1>10. ASSUME NEW o \in pending \ refused, o.p = p, o.s = s, NeedsAnswer(o)
       PROVE  FALSE
  BY <1>4, <1>6, <1>8, <1>10 DEF NeedsAnswer
<1> QED
  BY <1>6, <1>9, <1>10, RefusedUnsent DEF Stranded, Awaited

LEMMA NextLoading ==
  ASSUME IInv, [Next]_vars, NEW p \in Players, NEW s \in Slots, Stranded(p, s)'
  PROVE  Stranded(p, s) \/ (AddCanFail /\ Unsent(p, s))
<1>1. ASSUME NEW q \in Players, Commands(q) PROVE Stranded(p, s)
  BY <1>1, CommandsLoading DEF StaysStranded
<1>2. CASE Think
  BY <1>2, StartLoading, ReapLoading DEF Think
<1>3. CASE BackendServes
  <2>1. PICK r \in pending, answer \in {"ok", "empty", "error"}, c \in Chars \cup {NoChar} :
          /\ pending' = (pending \ {r}) \cup {Answered(r, answer, c)}
          /\ online' = online /\ info' = info
    BY <1>3 DEF BackendServes, playerVars
  <2>2. /\ Answered(r, answer, c).kind = r.kind
        /\ Answered(r, answer, c).p = r.p /\ Answered(r, answer, c).s = r.s
    <3>1. TypeOK /\ r \in Request
      BY DEF IInv, TypeOK
    <3> QED
      BY <3>1, AnsweredType
  <2>3. \A q \in online, t \in Slots : Awaited(q, t) => Awaited(q, t)'
    BY <2>1, <2>2 DEF Awaited, NeedsAnswer
  <2> QED
    BY <2>1, <2>3, KeepsRequests DEF StaysStranded
<1>4. CASE BackendServesLate
  BY <1>4, KeepsRequests DEF BackendServesLate, playerVars, Awaited, StaysStranded
<1>5. CASE MSGameEnd \/ MSGameInit
  <2>1. online' = {}
    BY <1>5 DEF MSGameEnd, RemoveEntities, MSGameInit, IInv, ChangingIsEmpty
  <2> QED
    BY <2>1 DEF Stranded
<1>6. CASE UNCHANGED vars
  BY <1>6, KeepsRequests DEF vars, playerVars, Awaited, StaysStranded
<1> QED
  BY <1>1, <1>2, <1>3, <1>4, <1>5, <1>6 DEF Next

(* "Busy, wait for callback!": a slot that reads LOADING is left without   *)
(* the callback that would unlock it only when curl refuses a request for  *)
(* it that was still queued (OnlyCurlStrands), so never by a refused       *)
(* queueing, a disconnect and reconnect, an answer, a timeout or a map     *)
(* change; and not at all if curl refuses none.                            *)
THEOREM NoStuckSlot == Spec => OnlyCurlStrands
<1>1. IInv /\ [Next]_vars
        => [\A p \in Players, s \in Slots :
              Stranded(p, s)' /\ ~Stranded(p, s) => AddCanFail /\ Unsent(p, s)]_vars
  BY NextLoading
<1> QED
  BY <1>1, Invariance, PTL DEF Spec, OnlyCurlStrands

-----------------------------------------------------------------------------
(* The slot as a lock, for the players whose connections do not overlap.   *)
(* A request that will answer is of a connection of this map, so whoever   *)
(* connects without being overlapped has none; and while it is pending its *)
(* slot reads LOADING, so nothing else asks for that slot.                 *)

OnceHere ==
  /\ \A p \in online : joins[p] >= 1
  /\ \A r \in pending : NeedsAnswer(r) => joins[r.p] >= 1

AnswerLocks ==
  \A r \in pending :
    NeedsAnswer(r) /\ r.p \in online \ overlapped => info[r.p][r.s].status = "LOADING"

LInv == OnceHere /\ AnswerLocks /\ OneCallbackPerSlot

(* Steps that take over requests, each at most once, and change neither a  *)
(* connected player's status nor his connections.                          *)
LEMMA LocksKept ==
  ASSUME LInv, UNCHANGED <<joins, overlapped>>,
         \A r \in pending' : NeedsAnswer(r) => r \in pending,
         \A p \in online' : p \in online,
         \A r \in pending : r.p \in online' =>
           info'[r.p][r.s].status = info[r.p][r.s].status
  PROVE  LInv'
<1>1. AnswerLocks'
  BY DEF LInv, AnswerLocks, NeedsAnswer
<1>2. OneCallbackPerSlot'
  BY DEF LInv, OneCallbackPerSlot, NeedsAnswer
<1>3. OnceHere'
  BY DEF LInv, OnceHere, NeedsAnswer
<1> QED BY <1>1, <1>2, <1>3 DEF LInv

(* A request for a slot that is not LOADING: nothing else will answer.     *)
LEMMA SlotRequestLocks ==
  ASSUME IInv, LInv, NEW p \in online, NEW s \in Slots,
         NEW k \in {"CREATE", "DELETE"}, NEW guid \in Chars \cup {NoChar},
         info[p][s].status # "LOADING", QueueSlotRequest(k, p, s, guid, NoChar),
         online' = online, joins' = joins, overlapped' = overlapped
  PROVE  LInv'
<1> DEFINE prev == info[p][s].status
           q == NewRequest(nextId, k, p, s, prev, guid, NoChar)
<1>1. /\ p \in Players /\ info \in [Players -> [Slots -> SlotInfo]]
      /\ info[p][s] \in SlotInfo /\ pending \subseteq Request
  BY DEF IInv, TypeOK
<1>2. info' = [info EXCEPT ![p][s] = Pinned(@)]
  BY DEF QueueSlotRequest
<1>3. CASE ~loaded
  <2>1. pending' = pending
    BY <1>3 DEF QueueSlotRequest, QueueOne
  <2>2. Pinned(info[p][s]).status = info[p][s].status
    BY <1>1, <1>3 DEF Pinned, SlotInfo
  <2>3. \A o \in Players, t \in Slots : info'[o][t].status = info[o][t].status
    BY <1>1, <1>2, <2>2
  <2>4. \A r \in pending : r.p \in Players /\ r.s \in Slots
    BY <1>1 DEF Request
  <2> QED BY <2>1, <2>3, <2>4, LocksKept
<1>4. CASE loaded
  <2>1. pending' = pending \cup {q}
    BY <1>4 DEF QueueSlotRequest, QueueOne
  <2>2. q.p = p /\ q.s = s
    BY DEF NewRequest
  <2>3. info'[p][s].status = "LOADING"
    BY <1>1, <1>2, <1>4 DEF Pinned, SlotInfo
  <2>4. p \notin overlapped =>
          \A r \in pending : NeedsAnswer(r) => ~(r.p = p /\ r.s = s)
    BY DEF LInv, AnswerLocks
  <2> HIDE DEF q
  <2>5. \A r \in pending : NeedsAnswer(r) /\ r.p \notin overlapped =>
          r.p \in Players /\ r.s \in Slots /\ info'[r.p][r.s] = info[r.p][r.s]
    BY <1>1, <1>2, <2>4 DEF Request
  <2>6. AnswerLocks'
    BY <2>1, <2>2, <2>3, <2>5 DEF LInv, AnswerLocks, NeedsAnswer
  <2>7. OneCallbackPerSlot'
    BY <2>1, <2>2, <2>4 DEF LInv, OneCallbackPerSlot, NeedsAnswer
  <2>8. OnceHere'
    BY <2>1, <2>2 DEF LInv, OnceHere, NeedsAnswer
  <2> QED BY <2>6, <2>7, <2>8 DEF LInv
<1> QED BY <1>3, <1>4

(* The loads of a new connection, one per slot: if it overlaps no earlier  *)
(* one, there is nothing else that will answer.                            *)
LEMMA ClientPutInServerLocks ==
  ASSUME IInv, LInv, NEW p \in Players, ClientPutInServer(p)
  PROVE  LInv'
<1> DEFINE req(s) == NewRequest(nextId + s, "LOAD", p, s, info[p][s].status, NoChar, NoChar)
<1>1. /\ p \notin online /\ LoadAll(p) /\ online' = online \cup {p}
      /\ joins' = [joins EXCEPT ![p] = @ + 1]
      /\ overlapped' = IF joins[p] > 0 /\ \E r \in pending : r.p = p /\ NeedsAnswer(r)
                       THEN overlapped \cup {p} ELSE overlapped
  BY DEF ClientPutInServer
<1>2. /\ joins \in [Players -> Nat] /\ info \in [Players -> [Slots -> SlotInfo]] /\ pending \subseteq Request
      /\ online \subseteq Players
  BY DEF IInv, TypeOK
<1>3. /\ overlapped \subseteq overlapped'
      /\ \A r \in pending : NeedsAnswer(r) /\ r.p \notin overlapped' =>
                             r.p \in Players \ {p}
      /\ joins'[p] >= 1 /\ \A o \in Players : joins'[o] >= joins[o]
  BY <1>1, <1>2 DEF LInv, OnceHere, Request
<1>4. \A s \in Slots : info[p][s] \in SlotInfo /\ info[p][s].status # "LOADING"
  BY <1>1, <1>2 DEF IInv, SlotsSound, SlotSound, FreshSlot
<1>5. \A s \in Slots : req(s).p = p /\ req(s).s = s
  BY DEF NewRequest
<1>6. CASE ~loaded
  <2>1. info' = info /\ pending' = pending
    BY <1>1, <1>6 DEF LoadAll
  <2>2. AnswerLocks'
    BY <1>1, <1>3, <2>1 DEF LInv, AnswerLocks, NeedsAnswer
  <2>3. OneCallbackPerSlot'
    BY <1>3, <2>1 DEF LInv, OneCallbackPerSlot, NeedsAnswer
  <2>4. OnceHere'
    BY <1>1, <1>2, <1>3, <2>1 DEF LInv, OnceHere, NeedsAnswer, Request
  <2> QED BY <2>2, <2>3, <2>4 DEF LInv
<1>7. CASE loaded
  <2>1. /\ pending' = pending \cup {req(s) : s \in Slots}
        /\ info' = [info EXCEPT ![p] = [s \in Slots |-> Pinned(@[s])]]
    BY <1>1, <1>4, <1>7 DEF LoadAll
  <2> HIDE DEF req
  <2>2. \A o \in Players \ {p} : info'[o] = info[o]
    BY <1>2, <2>1
  <2>3. \A s \in Slots : info'[p][s].status = "LOADING"
    BY <1>2, <1>4, <1>7, <2>1 DEF Pinned, SlotInfo
  <2>4. AnswerLocks'
    BY <1>1, <1>3, <1>5, <2>1, <2>2, <2>3 DEF LInv, AnswerLocks, NeedsAnswer
  <2>5. OneCallbackPerSlot'
    <3>1. ASSUME NEW q \in pending', NEW r \in pending', NeedsAnswer(q), NeedsAnswer(r),
                 q.p = r.p, q.s = r.s, q.p \notin overlapped'
          PROVE  q = r
      <4>1. CASE q.p = p
        <5>1. q \notin pending /\ r \notin pending
          BY <1>3, <3>1, <4>1
        <5>2. PICK s \in Slots, u \in Slots : q = req(s) /\ r = req(u)
          BY <2>1, <5>1
        <5> QED BY <1>5, <3>1, <5>2
      <4>2. CASE q.p # p
        BY <1>3, <1>5, <2>1, <3>1, <4>2 DEF LInv, OneCallbackPerSlot
      <4> QED BY <4>1, <4>2
    <3> QED BY <3>1 DEF OneCallbackPerSlot, NeedsAnswer
  <2>6. OnceHere'
    BY <1>1, <1>2, <1>3, <1>5, <2>1 DEF LInv, OnceHere, NeedsAnswer, Request
  <2> QED BY <2>4, <2>5, <2>6 DEF LInv
<1> QED BY <1>6, <1>7

LEMMA CommandsLocks ==
  ASSUME IInv, LInv, NEW p \in Players, Commands(p)
  PROVE  LInv'
<1> USE DEF playerVars, NeedsAnswer
<1>1. CASE ClientPutInServer(p)
  BY <1>1, ClientPutInServerLocks
<1>2. ASSUME NEW s \in Slots, DeleteCharacter(p, s) PROVE LInv'
  <2>1. info[p][s].guid \in Chars \cup {NoChar}
    BY DEF IInv, TypeOK, SlotInfo
  <2> QED BY <1>2, <2>1, SlotRequestLocks DEF DeleteCharacter
<1>3. ASSUME NEW s \in Slots, CreateChar(p, s) PROVE LInv'
  <2>1. CASE info[p][s].status = "LOADING"
    BY <1>3, <2>1, LocksKept DEF CreateChar
  <2>2. CASE info[p][s].status # "LOADING"
    BY <1>3, <2>2, SlotRequestLocks DEF CreateChar
  <2> QED BY <2>1, <2>2
<1>4. ASSUME NEW s \in Slots, LoadCharacter(p, s) PROVE LInv'
  BY <1>4, LocksKept DEF LoadCharacter
<1>5. CASE Save(p)
  <2>1. \A r \in pending' \ pending : r.kind = "UPDATE"
    BY <1>5, SaveCharAdds DEF Save, IInv
  <2> QED BY <1>5, <2>1, LocksKept DEF Save
<1>6. CASE ClientDisconnected(p)
  <2>1. \A r \in pending' \ pending : r.kind = "UPDATE"
    BY <1>6, SaveCharAdds DEF ClientDisconnected, IInv
  <2>2. RemoveEntities({p}) /\ loaded' = loaded /\ joins' = joins /\ overlapped' = overlapped
    BY <1>6 DEF ClientDisconnected, mapVars
  <2>3. /\ online' \subseteq Players
        /\ \A q \in Players : q \in online' => q \in online /\ info'[q] = info[q]
    BY <2>2, RemoveEntitiesSound
  <2> QED BY <2>1, <2>2, <2>3, LocksKept
<1>7. CASE Think_SendCharData(p)
  <2>1. /\ info' = [info EXCEPT ![p] = [s \in Slots |-> Sent(@[s])]]
        /\ online' = online /\ pending' = pending /\ joins' = joins /\ overlapped' = overlapped
    BY <1>7 DEF Think_SendCharData
  <2>2. \A c \in SlotInfo : Sent(c).status = c.status
    BY DEF Sent, SlotInfo
  <2>3. info \in [Players -> [Slots -> SlotInfo]] /\ pending \subseteq Request
    BY DEF IInv, TypeOK
  <2>4. ASSUME NEW q \in Players, NEW s \in Slots
        PROVE  info'[q][s].status = info[q][s].status
    <3>1. info'[q][s] = IF q = p THEN Sent(info[q][s]) ELSE info[q][s]
      BY <2>1, <2>3
    <3> QED BY <2>2, <2>3, <3>1
  <2>5. \A r \in pending : r.p \in Players /\ r.s \in Slots
    BY <2>3 DEF Request
  <2> QED BY <2>1, <2>4, <2>5, LocksKept
<1> QED BY <1>1, <1>2, <1>3, <1>4, <1>5, <1>6, <1>7 DEF Commands

(* What Started makes of a request.                                        *)
LEMMA StartedIs ==
  ASSUME TypeOK, NEW refused, NEW q \in Started(refused)
  PROVE  \E r \in pending : /\ q = [r EXCEPT !.st = "EXECUTED"] /\ r \in Request
                            /\ q.id = r.id /\ q.kind = r.kind /\ q.p = r.p /\ q.s = r.s
                            /\ q.prev = r.prev /\ q.guid = r.guid /\ q.body = r.body
                            /\ q.reply = r.reply
<1>1. PICK r \in pending : q = [r EXCEPT !.st = "EXECUTED"]
  BY DEF Started
<1>2. r \in Request
  BY DEF TypeOK
<1> QED BY <1>1, <1>2 DEF Request

(* Starting requests leaves all of it true of them.                        *)
LEMMA StartedLocks ==
  ASSUME IInv, LInv, NEW refused
  PROVE  /\ \A q \in Started(refused) : NeedsAnswer(q) => joins[q.p] >= 1
         /\ \A q \in Started(refused) :
              NeedsAnswer(q) /\ q.p \in online \ overlapped =>
                info[q.p][q.s].status = "LOADING"
         /\ \A q, r \in Started(refused) :
              NeedsAnswer(q) /\ NeedsAnswer(r) /\ q.p = r.p /\ q.s = r.s
              /\ q.p \notin overlapped => q = r
<1>1. TypeOK
  BY DEF IInv
<1>2. ASSUME NEW q \in Started(refused), NEW r \in Started(refused),
             NeedsAnswer(q), NeedsAnswer(r), q.p = r.p, q.s = r.s, q.p \notin overlapped
      PROVE  q = r
  <2>1. PICK a \in pending : /\ q = [a EXCEPT !.st = "EXECUTED"]
                             /\ q.kind = a.kind /\ q.p = a.p /\ q.s = a.s
    BY <1>1, StartedIs
  <2>2. PICK b \in pending : /\ r = [b EXCEPT !.st = "EXECUTED"]
                             /\ r.kind = b.kind /\ r.p = b.p /\ r.s = b.s
    BY <1>1, StartedIs
  <2>3. a = b
    BY <1>2, <2>1, <2>2 DEF LInv, OneCallbackPerSlot, NeedsAnswer
  <2> QED BY <2>1, <2>2, <2>3
<1>3. ASSUME NEW q \in Started(refused), NeedsAnswer(q), q.p \in online \ overlapped
      PROVE  info[q.p][q.s].status = "LOADING"
  <2>1. PICK a \in pending : q.kind = a.kind /\ q.p = a.p /\ q.s = a.s
    BY <1>1, StartedIs
  <2> QED BY <1>3, <2>1 DEF LInv, AnswerLocks, NeedsAnswer
<1>4. ASSUME NEW q \in Started(refused), NeedsAnswer(q)
      PROVE  joins[q.p] >= 1
  <2>1. PICK a \in pending : q.kind = a.kind /\ q.p = a.p
    BY <1>1, StartedIs
  <2> QED BY <1>4, <2>1 DEF LInv, OnceHere, NeedsAnswer
<1> QED BY <1>2, <1>3, <1>4

LEMMA StartLocks ==
  ASSUME IInv, LInv, Start
  PROVE  LInv'
<1>1. PICK refused : pending' = Started(refused)
  BY DEF Start, ThinkStart
<1>2. UNCHANGED <<online, joins, overlapped, info>>
  BY DEF Start, ThinkStart, playerVars
<1> QED
  BY <1>1, <1>2, StartedLocks DEF LInv, OnceHere, AnswerLocks, OneCallbackPerSlot, NeedsAnswer

(* An answer changes no slot that another request will answer into.        *)
LEMMA RespondElsewhere ==
  ASSUME IInv, LInv, NEW refused, NEW r \in Started(refused), NEW code, Respond(r, code),
         NEW q \in Started(refused), q # r, NeedsAnswer(q), q.p \notin overlapped
  PROVE  info'[q.p][q.s] = info[q.p][q.s]
<1>1. info \in [Players -> [Slots -> SlotInfo]] /\ q.p \in Players /\ q.s \in Slots
  BY StartedSame DEF IInv, TypeOK, Request
<1>2. CASE NeedsAnswer(r)
  <2>1. ~(q.p = r.p /\ q.s = r.s)
    BY <1>2, StartedLocks
  <2> QED BY <1>1, <2>1 DEF Respond
<1>3. CASE ~NeedsAnswer(r)
  <2>1. OnResponse(info[q.p][q.s], r, code) = info[q.p][q.s]
    BY <1>3 DEF NeedsAnswer, OnResponse
  <2>2. CASE q.p = r.p /\ q.s = r.s
    BY <1>1, <2>1, <2>2 DEF Respond
  <2>3. CASE ~(q.p = r.p /\ q.s = r.s)
    BY <1>1, <2>3 DEF Respond
  <2> QED BY <2>2, <2>3
<1> QED BY <1>2, <1>3

(* The one request that answers into its slot is gone.                     *)
LEMMA ReapLocks ==
  ASSUME IInv, LInv, NEW id, Reap(id)
  PROVE  LInv'
<1>1. PICK refused : ThinkComplete(refused, id)
  BY DEF Reap
<1>2. PICK r \in Started(refused) :
        \E code : pending' = Started(refused) \ {r} /\ Respond(r, code)
  BY <1>1 DEF ThinkComplete
<1>3. PICK code : pending' = Started(refused) \ {r} /\ Respond(r, code)
  BY <1>2
<1>4. online' = online /\ joins' = joins /\ overlapped' = overlapped
  BY DEF Reap, playerVars
<1>5. \A q \in pending' : NeedsAnswer(q) /\ q.p \notin overlapped =>
        info'[q.p][q.s] = info[q.p][q.s]
  BY <1>3, RespondElsewhere
<1>6. OnceHere' /\ OneCallbackPerSlot'
  BY <1>3, <1>4, StartedLocks DEF LInv, OnceHere, OneCallbackPerSlot, NeedsAnswer
<1>7. AnswerLocks'
  BY <1>3, <1>4, <1>5, StartedLocks DEF AnswerLocks, NeedsAnswer
<1> QED BY <1>6, <1>7 DEF LInv

LEMMA BackendServesLocks ==
  ASSUME IInv, LInv, BackendServes
  PROVE  LInv'
<1>1. PICK r \in pending, answer \in {"ok", "empty", "error"}, c \in Chars \cup {NoChar} :
        /\ pending' = (pending \ {r}) \cup {Answered(r, answer, c)}
        /\ UNCHANGED <<online, joins, overlapped, info>>
  BY DEF BackendServes, playerVars
<1> DEFINE q == Answered(r, answer, c)
<1>2. q.kind = r.kind /\ q.p = r.p /\ q.s = r.s
  BY AnsweredType DEF IInv, TypeOK
<1> HIDE DEF q
<1>3. NeedsAnswer(q) <=> NeedsAnswer(r)
  BY <1>2 DEF NeedsAnswer
<1>4. pending' = (pending \ {r}) \cup {q}
  BY <1>1 DEF q
<1>5. OnceHere' /\ AnswerLocks'
  BY <1>1, <1>2, <1>3, <1>4 DEF LInv, OnceHere, AnswerLocks, NeedsAnswer
<1>6. OneCallbackPerSlot'
  BY <1>1, <1>2, <1>3, <1>4 DEF LInv, OneCallbackPerSlot, NeedsAnswer
<1> QED BY <1>5, <1>6 DEF LInv

LEMMA MSGameEndLocks ==
  ASSUME IInv, LInv, MSGameEnd
  PROVE  LInv'
<1>1. online' = {} /\ joins' = joins /\ overlapped' = overlapped
  BY DEF MSGameEnd, RemoveEntities
<1>2. \A r \in pending' \ pending : r.kind = "UPDATE"
  BY MSGameEndAdds DEF IInv
<1> QED BY <1>1, <1>2, LocksKept DEF NeedsAnswer

LEMMA MSGameInitLocks ==
  ASSUME IInv, LInv, MSGameInit
  PROVE  LInv'
<1>1. pending' = {} /\ online' = {}
  BY DEF MSGameInit, IInv, ChangingIsEmpty
<1> QED BY <1>1 DEF LInv, OnceHere, AnswerLocks, OneCallbackPerSlot

LEMMA NextLocks ==
  ASSUME IInv, LInv, [Next]_vars
  PROVE  LInv'
<1>1. ASSUME NEW p \in Players, Commands(p) PROVE LInv'
  BY <1>1, CommandsLocks
<1>2. CASE Think
  BY <1>2, StartLocks, ReapLocks DEF Think
<1>3. CASE BackendServes \/ MSGameEnd \/ MSGameInit
  BY <1>3, BackendServesLocks, MSGameEndLocks, MSGameInitLocks
<1>4. CASE BackendServesLate \/ UNCHANGED vars
  BY <1>4, LocksKept DEF BackendServesLate, playerVars, vars
<1> QED BY <1>1, <1>2, <1>3, <1>4 DEF Next

LEMMA LocksInvariance == Spec => []LInv
<1>1. Init => LInv
  BY DEF Init, LInv, OnceHere, AnswerLocks, OneCallbackPerSlot
<1> QED BY <1>1, NextLocks, Invariance, PTL DEF Spec

(* The LOADING status is a lock: no two requests that will answer into one *)
(* slot are under way, whatever fails, is refused by curl, or spans a map  *)
(* change, for every player whose connections did not overlap: who did not *)
(* connect while an answer to an earlier connection of his was due.        *)
THEOREM OneCallback == Spec => []OneCallbackPerSlot
<1>1. LInv => OneCallbackPerSlot
  BY DEF LInv
<1> QED BY <1>1, LocksInvariance, PTL

-----------------------------------------------------------------------------
(* Whose the characters are.  A guid that a player's slots, requests or    *)
(* saved data carry was once stored, so the backend will not hand it out   *)
(* again, and what it names is that player's or deleted.  This holds       *)
(* whatever overlaps.                                                      *)

Belongs(p, g) ==
  g \in Chars => body[g] # NoChar /\ (home[g] = Nowhere \/ home[g][1] = p)

SlotOf(p, c) == Belongs(p, c.guid) /\ Belongs(p, c.data)

RequestOf(r) ==
  /\ Belongs(r.p, r.guid) /\ Belongs(r.p, r.body)
  /\ r.kind = "UPDATE" => r.body # NoChar
  /\ r.kind = "LOAD" /\ r.reply = "none" => r.guid = NoChar

PlayerOf(p) ==
  Belongs(p, playing[p]) /\ (charState[p] # "UNLOADED" => playing[p] # NoChar)

StoreOf == \A c \in Chars : Stored(c) => body[c] # NoChar /\ Belongs(home[c][1], body[c])

OInv ==
  /\ \A p \in Players, s \in Slots : SlotOf(p, info[p][s])
  /\ \A r \in pending \cup late : RequestOf(r)
  /\ \A p \in Players : PlayerOf(p)
  /\ StoreOf

(* Whatever overlaps, no player's character is saved as one of another     *)
(* player.                                                                 *)
StoreKeepsPlayersApart ==
  \A c, d \in Chars : Stored(c) /\ Stored(d) /\ body[c] = d => home[c][1] = home[d][1]

LEMMA SlotKeepsCharacter ==
  ASSUME NEW c \in SlotInfo
  PROVE  /\ Pinned(c).data = c.data /\ Pinned(c).guid = c.guid
         /\ Sent(c).data = c.data /\ Sent(c).guid = c.guid
  BY DEF Pinned, Sent, SlotInfo

(* Steps that leave the store and what was given up alone, put no new      *)
(* character into a slot, and queue what belongs to the player.            *)
LEMMA KeepsOwned ==
  ASSUME OInv, UNCHANGED <<home, body, late>>,
         \A q \in Players, t \in Slots :
           /\ info'[q][t].data \in {info[q][t].data, NoChar}
           /\ info'[q][t].guid \in {info[q][t].guid, NoChar},
         \A r \in pending' : r \in pending \/ RequestOf(r),
         \A q \in Players :
           Belongs(q, playing'[q]) /\ (charState'[q] # "UNLOADED" => playing'[q] # NoChar)
  PROVE  OInv'
<1> USE DEF Belongs
<1>1. ASSUME NEW q \in Players, NEW t \in Slots PROVE SlotOf(q, info[q][t])'
  <2>1. SlotOf(q, info[q][t])
    BY DEF OInv
  <2> QED BY <2>1, CharsAssumption DEF SlotOf
<1>2. ASSUME NEW r \in pending' \cup late' PROVE RequestOf(r)'
  <2>1. RequestOf(r)
    BY DEF OInv
  <2> QED BY <2>1 DEF RequestOf
<1>3. \A q \in Players : PlayerOf(q)'
  BY DEF PlayerOf
<1>4. StoreOf'
  BY DEF OInv, StoreOf, Stored
<1> QED BY <1>1, <1>2, <1>3, <1>4 DEF OInv

LEMMA StatesKept ==
  ASSUME OInv, UNCHANGED <<charState, playing>>
  PROVE  \A q \in Players :
           Belongs(q, playing'[q]) /\ (charState'[q] # "UNLOADED" => playing'[q] # NoChar)
  BY DEF OInv, PlayerOf

LEMMA SlotRequestOwned ==
  ASSUME IInv, OInv, NEW p \in online, NEW s \in Slots,
         NEW k \in {"CREATE", "DELETE"}, NEW guid \in {info[p][s].guid, NoChar},
         QueueSlotRequest(k, p, s, guid, NoChar)
  PROVE  /\ \A q \in Players, t \in Slots :
              /\ info'[q][t].data \in {info[q][t].data, NoChar}
              /\ info'[q][t].guid \in {info[q][t].guid, NoChar}
         /\ \A r \in pending' : r \in pending \/ RequestOf(r)
<1> DEFINE new == NewRequest(nextId, k, p, s, info[p][s].status, guid, NoChar)
<1>1. p \in Players /\ info \in [Players -> [Slots -> SlotInfo]]
  BY DEF IInv, TypeOK
<1>2. info' = [info EXCEPT ![p][s] = Pinned(@)] /\ pending' \subseteq pending \cup {new}
  BY DEF QueueSlotRequest, QueueOne
<1>3. RequestOf(new)
  <2>1. new.kind = k /\ new.p = p /\ new.guid = guid /\ new.body = NoChar
    BY DEF NewRequest
  <2>2. Belongs(p, info[p][s].guid)
    BY <1>1 DEF OInv, SlotOf
  <2> HIDE DEF new
  <2> QED BY <2>1, <2>2, CharsAssumption DEF RequestOf, Belongs
<1>4. \A q \in Players, t \in Slots :
        info'[q][t] = IF q = p /\ t = s THEN Pinned(info[q][t]) ELSE info[q][t]
  BY <1>1, <1>2
<1> HIDE DEF new
<1> QED BY <1>1, <1>2, <1>3, <1>4, SlotKeepsCharacter

LEMMA SaveCharOwned ==
  ASSUME IInv, OInv, NEW p \in Players, SaveChar(p)
  PROVE  \A r \in pending' : r \in pending \/ RequestOf(r)
<1>1. CASE charState[p] = "UNLOADED"
  BY <1>1 DEF SaveChar
<1>2. CASE charState[p] # "UNLOADED"
  <2> DEFINE c == info[p][charNum[p]]
             new == NewRequest(nextId, "UPDATE", p, charNum[p], c.status, c.guid, playing[p])
  <2>1. pending' \subseteq pending \cup {new}
    BY <1>2 DEF SaveChar, QueueOne
  <2>2. new.kind = "UPDATE" /\ new.p = p /\ new.guid = c.guid /\ new.body = playing[p]
    BY DEF NewRequest
  <2>3. charNum[p] \in Slots
    BY DEF IInv, TypeOK
  <2>4. Belongs(p, c.guid) /\ Belongs(p, playing[p]) /\ playing[p] # NoChar
    BY <1>2, <2>3 DEF OInv, SlotOf, PlayerOf
  <2> HIDE DEF new
  <2> QED BY <2>1, <2>2, <2>4 DEF RequestOf
<1> QED BY <1>1, <1>2

LEMMA RemoveEntitiesOwned ==
  ASSUME OInv, NEW P \in SUBSET Players, RemoveEntities(P), UNCHANGED <<late, home, body>>,
         \A r \in pending' : r \in pending \/ RequestOf(r)
  PROVE  OInv'
<1>1. \A q \in Players, t \in Slots :
        info'[q][t] = IF q \in P THEN FreshSlot ELSE info[q][t]
  BY DEF RemoveEntities
<1>2. FreshSlot.data = NoChar /\ FreshSlot.guid = NoChar
  BY DEF FreshSlot
<1>3. \A q \in Players :
        Belongs(q, playing'[q]) /\ (charState'[q] # "UNLOADED" => playing'[q] # NoChar)
  <2>1. \A q \in P : Belongs(q, playing'[q]) /\ charState'[q] = "UNLOADED"
    BY CharsAssumption DEF RemoveEntities, Belongs
  <2>2. \A q \in Players \ P : playing'[q] = playing[q] /\ charState'[q] = charState[q]
    BY DEF RemoveEntities
  <2> QED BY <2>1, <2>2 DEF OInv, PlayerOf
<1> QED BY <1>1, <1>2, <1>3, KeepsOwned

LEMMA ClientPutInServerOwned ==
  ASSUME IInv, OInv, NEW p \in Players, ClientPutInServer(p)
  PROVE  OInv'
<1> DEFINE req(s) == NewRequest(nextId + s, "LOAD", p, s, info[p][s].status, NoChar, NoChar)
<1>1. LoadAll(p) /\ UNCHANGED <<charState, playing, late, home, body>>
  BY DEF ClientPutInServer, backendVars
<1>2. info \in [Players -> [Slots -> SlotInfo]]
  BY DEF IInv, TypeOK
<1>3. \A s \in Slots : RequestOf(req(s))
  BY CharsAssumption DEF NewRequest, RequestOf, Belongs
<1> HIDE DEF req
<1>4. /\ \A r \in pending' : r \in pending \/ RequestOf(r)
      /\ \A q \in Players, t \in Slots :
           /\ info'[q][t].data \in {info[q][t].data, NoChar}
           /\ info'[q][t].guid \in {info[q][t].guid, NoChar}
  <2>1. CASE loaded
    <3> DEFINE todo == {s \in Slots : info[p][s].status # "LOADING"}
    <3>1. /\ pending' = pending \cup {req(s) : s \in todo}
          /\ info' = [info EXCEPT ![p] = [s \in Slots |->
                        IF s \in todo THEN Pinned(@[s]) ELSE @[s]]]
      BY <1>1, <2>1 DEF LoadAll, req
    <3>2. \A q \in Players, t \in Slots : info'[q][t] \in {info[q][t], Pinned(info[q][t])}
      BY <1>2, <3>1
    <3> QED BY <1>2, <1>3, <3>1, <3>2, SlotKeepsCharacter
  <2>2. CASE ~loaded
    BY <1>1, <2>2 DEF LoadAll
  <2> QED BY <2>1, <2>2
<1> QED BY <1>1, <1>4, StatesKept, KeepsOwned

LEMMA LoadCharacterOwned ==
  ASSUME IInv, OInv, NEW p \in Players, NEW s \in Slots, LoadCharacter(p, s)
  PROVE  OInv'
<1>1. UNCHANGED <<info, pending, late, home, body>>
  BY DEF LoadCharacter, backendVars
<1>2. Belongs(p, info[p][s].data) /\ Belongs(p, Blank)
  BY CharsAssumption DEF OInv, SlotOf, Belongs
<1>3. /\ charState \in [Players -> CharStates] /\ playing \in [Players -> Data]
  BY DEF IInv, TypeOK
<1>4. \E d : /\ playing' = [playing EXCEPT ![p] = d] /\ Belongs(p, d) /\ d # NoChar
             /\ \A q \in Players \ {p} : charState'[q] = charState[q]
  <2>1. CASE Readable(info[p][s].data)
    BY <1>2, <1>3, <2>1 DEF LoadCharacter, Readable
  <2>2. CASE ~Readable(info[p][s].data)
    BY <1>2, <1>3, <2>2, CharsAssumption DEF LoadCharacter
  <2> QED BY <2>1, <2>2
<1>5. \A q \in Players :
        Belongs(q, playing'[q]) /\ (charState'[q] # "UNLOADED" => playing'[q] # NoChar)
  BY <1>3, <1>4 DEF OInv, PlayerOf
<1> QED BY <1>1, <1>5, KeepsOwned

LEMMA CommandsOwned ==
  ASSUME IInv, OInv, NEW p \in Players, Commands(p)
  PROVE  OInv'
<1> USE DEF playerVars, backendVars
<1>1. CASE ClientPutInServer(p)
  BY <1>1, ClientPutInServerOwned
<1>2. ASSUME NEW s \in Slots, DeleteCharacter(p, s) PROVE OInv'
  <2>1. /\ p \in online /\ QueueSlotRequest("DELETE", p, s, info[p][s].guid, NoChar)
        /\ UNCHANGED <<charState, playing, late, home, body>>
    BY <1>2 DEF DeleteCharacter
  <2> QED BY <2>1, SlotRequestOwned, StatesKept, KeepsOwned
<1>3. ASSUME NEW s \in Slots, CreateChar(p, s) PROVE OInv'
  <2>1. p \in online /\ UNCHANGED <<charState, playing, late, home, body>>
    BY <1>3 DEF CreateChar
  <2>2. CASE info[p][s].status = "LOADING"
    BY <1>3, <2>1, <2>2, StatesKept, KeepsOwned DEF CreateChar
  <2>3. CASE info[p][s].status # "LOADING"
    <3>1. QueueSlotRequest("CREATE", p, s, NoChar, NoChar)
      BY <1>3, <2>3 DEF CreateChar
    <3> QED BY <2>1, <3>1, SlotRequestOwned, StatesKept, KeepsOwned
  <2> QED BY <2>2, <2>3
<1>4. ASSUME NEW s \in Slots, LoadCharacter(p, s) PROVE OInv'
  BY <1>4, LoadCharacterOwned
<1>5. CASE Save(p)
  BY <1>5, SaveCharOwned, StatesKept, KeepsOwned DEF Save
<1>6. CASE ClientDisconnected(p)
  BY <1>6, SaveCharOwned, RemoveEntitiesOwned DEF ClientDisconnected
<1>7. CASE Think_SendCharData(p)
  <2>1. /\ info' = [info EXCEPT ![p] = [s \in Slots |-> Sent(@[s])]]
        /\ UNCHANGED <<charState, playing, pending, late, home, body>>
    BY <1>7 DEF Think_SendCharData
  <2>2. info \in [Players -> [Slots -> SlotInfo]]
    BY DEF IInv, TypeOK
  <2>3. \A q \in Players, t \in Slots : info'[q][t] \in {info[q][t], Sent(info[q][t])}
    BY <2>1, <2>2
  <2> QED BY <2>1, <2>2, <2>3, SlotKeepsCharacter, StatesKept, KeepsOwned
<1> QED BY <1>1, <1>2, <1>3, <1>4, <1>5, <1>6, <1>7 DEF Commands

LEMMA StartedOwned ==
  ASSUME IInv, OInv, NEW refused
  PROVE  \A q \in Started(refused) : RequestOf(q)
<1> SUFFICES ASSUME NEW q \in Started(refused) PROVE RequestOf(q)
  OBVIOUS
<1>1. PICK a \in pending : /\ q.kind = a.kind /\ q.p = a.p /\ q.guid = a.guid
                           /\ q.body = a.body /\ q.reply = a.reply
  BY StartedIs DEF IInv
<1> QED BY <1>1 DEF OInv, RequestOf

LEMMA StartOwned ==
  ASSUME IInv, OInv, Start
  PROVE  OInv'
<1>1. PICK refused : pending' = Started(refused)
  BY DEF Start, ThinkStart
<1>2. UNCHANGED <<charState, playing, info, late, home, body>>
  BY DEF Start, ThinkStart, playerVars
<1> QED BY <1>1, <1>2, StartedOwned, StatesKept, KeepsOwned

(* An answer brings the character of its request.                          *)
LEMMA ReapOwned ==
  ASSUME IInv, OInv, NEW id, Reap(id)
  PROVE  OInv'
<1>1. PICK refused : ThinkComplete(refused, id)
  BY DEF Reap
<1>2. PICK r \in Started(refused) :
        \E code : /\ pending' = Started(refused) \ {r}
                  /\ late' = late \cup GivenUp({r}) /\ Respond(r, code)
  BY <1>1 DEF ThinkComplete
<1>3. PICK code : /\ pending' = Started(refused) \ {r}
                  /\ late' = late \cup GivenUp({r}) /\ Respond(r, code)
  BY <1>2
<1>4. UNCHANGED <<charState, playing, home, body>>
  BY DEF Reap, playerVars
<1>5. RequestOf(r) /\ r \in Request
  BY StartedOwned, StartedSame DEF IInv
<1>6. info \in [Players -> [Slots -> SlotInfo]] /\ r.p \in Players /\ r.s \in Slots
  BY <1>5 DEF IInv, TypeOK, Request
<1>7. ASSUME NEW c \in SlotInfo
      PROVE  /\ OnResponse(c, r, code).data \in {c.data, r.body}
             /\ OnResponse(c, r, code).guid \in {c.guid, r.guid}
  <2>1. /\ MarkNotFound(c).data = c.data /\ MarkNotFound(c).guid = c.guid
        /\ Assigned(c, r).data = r.body /\ Assigned(c, r).guid = r.guid
        /\ [c EXCEPT !.status = r.prev, !.cached = "UNLOADED"].data = c.data
        /\ [c EXCEPT !.status = r.prev, !.cached = "UNLOADED"].guid = c.guid
    BY DEF MarkNotFound, Assigned, SlotInfo
  <2>2. r.kind \in {"LOAD", "CREATE", "DELETE", "UPDATE"}
    BY <1>5 DEF Request, Kinds
  <2> QED BY <2>1, <2>2 DEF OnResponse, OnLoad, OnCreate, OnDelete
<1>8. ASSUME NEW q \in Players, NEW t \in Slots PROVE SlotOf(q, info[q][t])'
  <2>1. SlotOf(q, info[q][t]) /\ info[q][t] \in SlotInfo
    BY <1>6 DEF OInv
  <2>2. CASE info'[q][t] = info[q][t]
    BY <1>4, <2>1, <2>2 DEF SlotOf, Belongs
  <2>3. CASE info'[q][t] # info[q][t]
    <3>1. q = r.p /\ info'[q][t] = OnResponse(info[q][t], r, code)
      BY <1>3, <1>6, <2>3 DEF Respond
    <3> QED BY <1>4, <1>5, <1>7, <2>1, <3>1 DEF SlotOf, RequestOf, Belongs
  <2> QED BY <2>2, <2>3
<1>9. ASSUME NEW q \in pending' \cup late' PROVE RequestOf(q)'
  <2>1. q \in Started(refused) \cup late
    BY <1>3 DEF GivenUp
  <2>2. RequestOf(q)
    BY <2>1, StartedOwned DEF OInv
  <2> QED BY <1>4, <2>2 DEF RequestOf, Belongs
<1>10. (\A q \in Players : PlayerOf(q)') /\ StoreOf'
  BY <1>4 DEF OInv, PlayerOf, StoreOf, Stored, Belongs
<1> QED BY <1>8, <1>9, <1>10 DEF OInv

(* The store changes hands of no character: a new one has a guid that was  *)
(* never used, and a save reaches only a character of its player.          *)
LEMMA ServeOwned ==
  ASSUME TypeOK, StoreOf, NEW r \in Request, RequestOf(r), NEW answer,
         NEW c \in Chars \cup {NoChar}, Serve(r, answer, c)
  PROVE  /\ \A p, g : Belongs(p, g) => Belongs(p, g)'
         /\ StoreOf'
         /\ Belongs(r.p, c)'
         /\ r.kind = "LOAD" /\ c \in Chars /\ r.reply = "none" => Belongs(r.p, body[c])
<1> USE DEF Belongs
<1>1. /\ home \in [Chars -> Homes] /\ body \in [Chars -> Data]
      /\ <<r.p, r.s>> # Nowhere /\ <<r.p, r.s>>[1] = r.p
  BY CharsAssumption DEF TypeOK, Request
<1>2. CASE Refuse(r, answer) /\ c = r.guid
  BY <1>2, CharsAssumption DEF Refuse, StoreOf, Stored, RequestOf
<1>3. CASE ServeLoad(r, answer, c)
  <2>1. UNCHANGED <<home, body>> /\ (c \in Chars => home[c] = <<r.p, r.s>>)
    BY <1>3, CharsAssumption DEF ServeLoad, Residents
  <2> QED BY <1>1, <2>1 DEF StoreOf, Stored
<1>4. CASE ServeCreate(r, answer, c)
  <2>1. /\ c \in Chars /\ home[c] = Nowhere /\ body[c] = NoChar /\ r.kind = "CREATE"
        /\ home' = [home EXCEPT ![c] = <<r.p, r.s>>] /\ body' = [body EXCEPT ![c] = c]
    BY <1>4 DEF ServeCreate, Unused
  <2>2. /\ home'[c] = <<r.p, r.s>> /\ body'[c] = c /\ c # NoChar
        /\ \A d \in Chars \ {c} : home'[d] = home[d] /\ body'[d] = body[d]
    BY <1>1, <2>1, CharsAssumption
  <2>3. \A p, g : Belongs(p, g) => Belongs(p, g)'
    BY <2>1, <2>2
  <2>4. Belongs(r.p, c)'
    BY <1>1, <2>2
  <2>5. StoreOf'
    BY <1>1, <2>1, <2>2, <2>3, <2>4 DEF StoreOf, Stored
  <2> QED BY <2>1, <2>3, <2>4, <2>5
<1>5. CASE ServeDelete(r, answer) /\ c = r.guid
  <2>1. /\ r.kind = "DELETE" /\ c \in Chars /\ body' = body
        /\ home' = [home EXCEPT ![c] = Nowhere]
    BY <1>5 DEF ServeDelete, Stored
  <2>2. /\ home'[c] = Nowhere
        /\ \A d \in Chars \ {c} : home'[d] = home[d]
    BY <1>1, <2>1
  <2>3. \A p, g : Belongs(p, g) => Belongs(p, g)'
    BY <2>1, <2>2
  <2>4. StoreOf'
    BY <2>1, <2>2 DEF StoreOf, Stored
  <2> QED BY <1>5, <2>1, <2>3, <2>4 DEF RequestOf
<1>6. CASE ServeUpdate(r, answer) /\ c = r.guid
  <2>1. /\ r.kind = "UPDATE" /\ c \in Chars /\ home[c] # Nowhere /\ home' = home
        /\ body' = [body EXCEPT ![c] = r.body]
    BY <1>6 DEF ServeUpdate, Stored
  <2>2. body'[c] = r.body /\ \A d \in Chars \ {c} : body'[d] = body[d]
    BY <1>1, <2>1
  <2>3. r.body # NoChar /\ Belongs(r.p, r.body) /\ home[c][1] = r.p
    BY <1>6, <2>1 DEF RequestOf
  <2>4. \A p, g : Belongs(p, g) => Belongs(p, g)'
    BY <2>1, <2>2, <2>3
  <2>5. StoreOf'
    BY <2>1, <2>2, <2>3, <2>4 DEF StoreOf, Stored
  <2> QED BY <1>6, <2>1, <2>4, <2>5 DEF RequestOf
<1> QED BY <1>2, <1>3, <1>4, <1>5, <1>6 DEF Serve

(* What the step of the backend leaves as it was still belongs.            *)
LEMMA RestStaysOwned ==
  ASSUME OInv, \A p, g : Belongs(p, g) => Belongs(p, g)', StoreOf',
         UNCHANGED <<info, charState, playing>>,
         \A r \in pending' \cup late' : r \in pending \cup late \/ RequestOf(r)'
  PROVE  OInv'
<1>1. \A q \in Players, t \in Slots : SlotOf(q, info[q][t])'
  BY DEF OInv, SlotOf
<1>2. \A q \in Players : PlayerOf(q)'
  BY DEF OInv, PlayerOf
<1>3. ASSUME NEW r \in pending' \cup late' PROVE RequestOf(r)'
  BY DEF OInv, RequestOf
<1> QED BY <1>1, <1>2, <1>3 DEF OInv

LEMMA BackendServesOwned ==
  ASSUME IInv, OInv, BackendServes
  PROVE  OInv'
<1>1. PICK r \in pending, answer \in {"ok", "empty", "error"}, c \in Chars \cup {NoChar} :
        /\ r.reply = "none" /\ Serve(r, answer, c)
        /\ pending' = (pending \ {r}) \cup {Answered(r, answer, c)}
        /\ UNCHANGED <<info, charState, playing, late>>
  BY DEF BackendServes, playerVars
<1>2. TypeOK /\ StoreOf /\ r \in Request /\ RequestOf(r)
  BY DEF IInv, TypeOK, OInv
<1>3. /\ \A p, g : Belongs(p, g) => Belongs(p, g)'
      /\ StoreOf' /\ Belongs(r.p, c)'
      /\ r.kind = "LOAD" /\ c \in Chars => Belongs(r.p, body[c])
  BY <1>1, <1>2, ServeOwned
<1>4. PICK q : q = Answered(r, answer, c)
  OBVIOUS
<1>5. /\ q.kind = r.kind /\ q.p = r.p /\ q.guid = c /\ q.reply = answer
      /\ r.kind = "LOAD" /\ c \in Chars => q.body = body[c]
      /\ r.kind = "CREATE" => q.body = c
      /\ r.kind # "CREATE" /\ ~(r.kind = "LOAD" /\ c \in Chars) => q.body = r.body
  BY <1>2, <1>4 DEF Answered, Request
<1>6. RequestOf(q)'
  BY <1>2, <1>3, <1>5 DEF RequestOf
<1> QED BY <1>1, <1>3, <1>4, <1>6, RestStaysOwned DEF OInv

LEMMA BackendServesLateOwned ==
  ASSUME IInv, OInv, BackendServesLate
  PROVE  OInv'
<1>1. PICK r \in late, answer \in {"ok", "error"}, c \in Chars \cup {NoChar} :
        /\ Serve(r, answer, c) /\ late' = late \ {r}
        /\ UNCHANGED <<info, charState, playing, pending>>
  BY DEF BackendServesLate, playerVars
<1>2. TypeOK /\ StoreOf /\ r \in Request /\ RequestOf(r)
  BY DEF IInv, TypeOK, OInv
<1>3. (\A p, g : Belongs(p, g) => Belongs(p, g)') /\ StoreOf'
  BY <1>1, <1>2, ServeOwned
<1> QED BY <1>1, <1>3, RestStaysOwned

LEMMA MSGameEndOwned ==
  ASSUME IInv, OInv, MSGameEnd
  PROVE  OInv'
<1>1. /\ RemoveEntities(online) /\ UNCHANGED <<late, home, body>>
  BY DEF MSGameEnd, backendVars
<1>2. online \in SUBSET Players
  BY DEF IInv, TypeOK
<1>3. \A r \in pending' : r \in pending \/ RequestOf(r)
  <2>1. CASE ~loaded
    BY <2>1 DEF MSGameEnd
  <2>2. CASE loaded
    <3> DEFINE req(num, p) == NewRequest(num[p], "UPDATE", p, charNum[p],
                                         info[p][charNum[p]].status,
                                         info[p][charNum[p]].guid, playing[p])
    <3>1. PICK num : pending' = pending \cup {req(num, p) : p \in Leaving}
      BY <2>2 DEF MSGameEnd
    <3>2. ASSUME NEW p \in Leaving PROVE RequestOf(req(num, p))
      <4>1. p \in Players /\ charNum[p] \in Slots /\ charState[p] = "LOADED"
        BY DEF Leaving, IInv, TypeOK
      <4>2. /\ Belongs(p, info[p][charNum[p]].guid) /\ Belongs(p, playing[p])
            /\ playing[p] # NoChar
        BY <4>1 DEF OInv, SlotOf, PlayerOf
      <4> QED BY <4>2 DEF NewRequest, RequestOf
    <3> HIDE DEF req
    <3> QED BY <3>1, <3>2
  <2> QED BY <2>1, <2>2
<1> QED BY <1>1, <1>2, <1>3, RemoveEntitiesOwned

LEMMA MSGameInitOwned ==
  ASSUME OInv, MSGameInit
  PROVE  OInv'
<1>1. /\ pending' = {} /\ late' = late \cup GivenUp(pending)
      /\ UNCHANGED <<charState, playing, info, home, body>>
  BY DEF MSGameInit
<1>2. \A p, g : Belongs(p, g) => Belongs(p, g)'
  BY <1>1 DEF Belongs
<1>3. StoreOf'
  BY <1>1 DEF OInv, StoreOf, Stored, Belongs
<1> QED BY <1>1, <1>2, <1>3, RestStaysOwned DEF GivenUp

LEMMA NextOwned ==
  ASSUME IInv, OInv, [Next]_vars
  PROVE  OInv'
<1>1. ASSUME NEW p \in Players, Commands(p) PROVE OInv'
  BY <1>1, CommandsOwned
<1>2. CASE Think
  BY <1>2, StartOwned, ReapOwned DEF Think
<1>3. CASE BackendServes \/ BackendServesLate
  BY <1>3, BackendServesOwned, BackendServesLateOwned
<1>4. CASE MSGameEnd \/ MSGameInit
  BY <1>4, MSGameEndOwned, MSGameInitOwned
<1>5. CASE UNCHANGED vars
  BY <1>5, StatesKept, KeepsOwned DEF vars, playerVars, backendVars
<1> QED BY <1>1, <1>2, <1>3, <1>4, <1>5 DEF Next

LEMMA InitOwned == Init => OInv
<1> SUFFICES ASSUME Init PROVE OInv
  OBVIOUS
<1>1. /\ \A p \in Players, s \in Slots : SlotOf(p, info[p][s])
      /\ \A p \in Players : PlayerOf(p)
  BY CharsAssumption DEF Init, SlotOf, FreshSlot, PlayerOf, Belongs
<1>2. StoreOf
  BY CharsAssumption DEF Init, StoreOf, Stored, Belongs
<1> QED BY <1>1, <1>2 DEF Init, OInv

LEMMA OwnedInvariance == Spec => []OInv
  BY InitOwned, NextOwned, Invariance, PTL DEF Spec

(* Saves go by guid, and a guid may be long stale when its request is      *)
(* served; still no player's character ever reaches the record of another  *)
(* player's, however connections overlap (StoreKeepsPlayersApart).         *)
THEOREM PlayersStayApart == Spec => []StoreKeepsPlayersApart
<1>1. OInv => StoreKeepsPlayersApart
  BY DEF OInv, StoreOf, Stored, Belongs, StoreKeepsPlayersApart
<1> QED BY <1>1, OwnedInvariance, PTL

-----------------------------------------------------------------------------
(* The identity of what is saved, for the players whose connections do not *)
(* overlap.  A slot of theirs holds the data its guid names, an answer and *)
(* a save the data of their guid; a delete that may fail leaves a slot it  *)
(* can bring back as LOADED.  If a restore can fail, all of them may       *)
(* instead be the data of a stripped player (Own).                         *)

LEMMA OwnIs ==
  /\ \A g : g \in Own(g)
  /\ \A g : Unreadable # {} => Blank \in Own(g)
  /\ \A g, d : d \in Own(g) => d \in {g, Blank} /\ (Unreadable = {} => d = g)
BY DEF Own

SlotSelf(c) == c.data \in Own(c.guid) /\ (c.status = "LOADED" => c.guid \in Chars)

SlotsSelf == \A p \in Players \ overlapped, s \in Slots : SlotSelf(info[p][s])

RequestSelf(r) ==
  /\ r.kind = "UPDATE" => r.body \in Own(r.guid)
  /\ r.reply = "ok" /\ r.kind \in {"LOAD", "CREATE"} =>
       r.body \in Own(r.guid) /\ r.guid \in Chars

RequestsSelf == \A r \in pending \cup late : r.p \notin overlapped => RequestSelf(r)

DeletesRemember ==
  \A r \in pending :
    r.kind = "DELETE" /\ r.prev = "LOADED" /\ r.p \in online \ overlapped =>
      info[r.p][r.s].guid \in Chars

(* Who is LOADING lost what he had to a restore that failed.               *)
BlankIsLoading ==
  \A p \in Players :
    /\ charState[p] = "LOADING" /\ p \notin overlapped =>
         Unreadable # {} /\ playing[p] = Blank
    /\ p \notin online => charState[p] = "UNLOADED"

PlayedIsSlotData ==
  \A p \in online \ overlapped :
    charState[p] = "LOADED" =>
      LET c == info[p][charNum[p]] IN c.status = "LOADED" /\ c.data = playing[p]

DInv ==
  /\ SlotsSelf /\ RequestsSelf /\ DeletesRemember /\ BlankIsLoading
  /\ PlayedIsSlotData /\ StoreKeepsIdentity

(* Steps that keep of every slot what identifies its character, and of the *)
(* states and the store everything.  What they queue is sound.             *)
LEMMA IdentityKept ==
  ASSUME DInv, IInv,
         UNCHANGED <<online, overlapped, charState, charNum, playing, home, body>>,
         \A p \in Players, s \in Slots :
           /\ p \notin overlapped => SlotSelf(info'[p][s])
           /\ info'[p][s].data = info[p][s].data
           /\ info'[p][s].guid = info[p][s].guid
           /\ charState[p] = "LOADED" /\ charNum[p] = s =>
                info'[p][s].status = info[p][s].status,
         late' = late, pending' \subseteq Request,
         \A r \in pending' : r.p \notin overlapped => RequestSelf(r),
         \A r \in pending' :
           r.kind = "DELETE" /\ r.prev = "LOADED" /\ r.p \in online \ overlapped =>
             info[r.p][r.s].guid \in Chars
  PROVE  DInv'
<1>1. SlotsSelf' /\ RequestsSelf'
  BY DEF DInv, SlotsSelf, SlotSelf, RequestsSelf, RequestSelf
<1>2. \A r \in pending' :
        r.kind = "DELETE" /\ r.prev = "LOADED" /\ r.p \in online' \ overlapped' =>
          info'[r.p][r.s].guid \in Chars
  BY DEF Request
<1>3. BlankIsLoading' /\ StoreKeepsIdentity'
  BY DEF DInv, BlankIsLoading, StoreKeepsIdentity, Stored
<1>4. PlayedIsSlotData'
  <2>1. ASSUME NEW p \in online \ overlapped, charState[p] = "LOADED"
        PROVE  LET c == info'[p][charNum[p]]
               IN c.status = "LOADED" /\ c.data = playing[p]
    <3>1. p \in Players /\ charNum[p] \in Slots
      BY DEF IInv, TypeOK
    <3> QED BY <2>1, <3>1 DEF DInv, PlayedIsSlotData, SlotSelf
  <2> QED BY <2>1 DEF PlayedIsSlotData
<1> QED BY <1>1, <1>2, <1>3, <1>4 DEF DInv, DeletesRemember

(* A slot that is not LOADING is asked for: its data stay.                 *)
LEMMA SlotRequestIdentity ==
  ASSUME IInv, DInv, NEW p \in online, NEW s \in Slots,
         NEW k \in {"CREATE", "DELETE"}, NEW guid \in Chars \cup {NoChar},
         charState[p] = "UNLOADED", QueueSlotRequest(k, p, s, guid, NoChar)
  PROVE  /\ pending' \subseteq Request
         /\ \A r \in pending' : r.p \notin overlapped => RequestSelf(r)
         /\ \A r \in pending' :
              r.kind = "DELETE" /\ r.prev = "LOADED" /\ r.p \in online \ overlapped =>
                info[r.p][r.s].guid \in Chars
         /\ \A q \in Players, t \in Slots :
              /\ q \notin overlapped => SlotSelf(info'[q][t])
              /\ info'[q][t].data = info[q][t].data
              /\ info'[q][t].guid = info[q][t].guid
              /\ q # p => info'[q][t].status = info[q][t].status
<1> DEFINE prev == info[p][s].status
           new == NewRequest(nextId, k, p, s, prev, guid, NoChar)
<1>1. /\ p \in Players /\ info \in [Players -> [Slots -> SlotInfo]]
      /\ info[p][s] \in SlotInfo /\ prev \in Status /\ k \in Kinds /\ NoChar \in Data
      /\ TypeOK
  BY DEF IInv, TypeOK, SlotInfo, Kinds, Data
<1>2. info' = [info EXCEPT ![p][s] = Pinned(@)] /\ QueueOne(k, p, s, prev, guid, NoChar)
  BY DEF QueueSlotRequest
<1>3. pending' \subseteq pending \cup {new}
  BY <1>2 DEF QueueOne
<1>4. /\ new.kind = k /\ new.p = p /\ new.s = s /\ new.prev = prev /\ new.reply = "none"
  BY DEF NewRequest
<1>5. p \notin overlapped => SlotSelf(info[p][s])
  BY <1>1 DEF DInv, SlotsSelf
<1>6. RequestSelf(new)
  BY <1>4 DEF RequestSelf
<1>7. prev = "LOADED" /\ p \notin overlapped => info[p][s].guid \in Chars
  BY <1>5 DEF SlotSelf
<1>8. \A r \in pending : r.p \notin overlapped => RequestSelf(r)
  BY DEF DInv, RequestsSelf
<1> HIDE DEF new
<1>9. \A r \in pending' :
        r.kind = "DELETE" /\ r.prev = "LOADED" /\ r.p \in online \ overlapped =>
          info[r.p][r.s].guid \in Chars
  BY <1>3, <1>4, <1>7 DEF DInv, DeletesRemember
<1>10. /\ p \notin overlapped => SlotSelf(Pinned(info[p][s]))
       /\ Pinned(info[p][s]).data = info[p][s].data
       /\ Pinned(info[p][s]).guid = info[p][s].guid
  BY <1>1, <1>5 DEF Pinned, SlotSelf, SlotInfo
<1>11. ASSUME NEW q \in Players, NEW t \in Slots
       PROVE  /\ q \notin overlapped => SlotSelf(info'[q][t])
              /\ info'[q][t].data = info[q][t].data
              /\ info'[q][t].guid = info[q][t].guid
              /\ q # p => info'[q][t].status = info[q][t].status
  <2>1. CASE q = p /\ t = s
    <3>1. info'[q][t] = Pinned(info[p][s])
      BY <1>1, <1>2, <2>1
    <3> QED BY <1>10, <2>1, <3>1
  <2>2. CASE ~(q = p /\ t = s)
    <3>1. info'[q][t] = info[q][t]
      BY <1>1, <1>2, <2>2
    <3> QED BY <3>1 DEF DInv, SlotsSelf
  <2> QED BY <2>1, <2>2
<1>12. pending' \subseteq Request
  <2> HIDE DEF prev
  <2> QED BY ONLY <1>1, <1>2, QueueOneAdds
<1> QED BY <1>3, <1>6, <1>8, <1>9, <1>11, <1>12

(* What a save queues is the data of the character it names.               *)
LEMMA SaveCharIdentity ==
  ASSUME IInv, DInv, NEW p \in online, SaveChar(p)
  PROVE  \A r \in pending' : /\ r.p \notin overlapped => RequestSelf(r)
                             /\ r \in pending \/ r.kind = "UPDATE"
<1>1. \A r \in pending : r.p \notin overlapped => RequestSelf(r)
  BY DEF DInv, RequestsSelf
<1>2. CASE charState[p] = "UNLOADED"
  BY <1>1, <1>2 DEF SaveChar
<1>3. CASE charState[p] # "UNLOADED"
  <2> DEFINE c == info[p][charNum[p]]
             new == NewRequest(nextId, "UPDATE", p, charNum[p], c.status, c.guid, playing[p])
  <2>1. /\ p \in Players /\ charNum[p] \in Slots
        /\ charState[p] = "LOADED" \/ charState[p] = "LOADING"
    BY <1>3 DEF IInv, TypeOK, CharStates
  <2>2. p \notin overlapped => playing[p] \in Own(c.guid)
    <3>1. CASE charState[p] = "LOADED"
      BY <2>1, <3>1 DEF DInv, PlayedIsSlotData, SlotsSelf, SlotSelf
    <3>2. CASE charState[p] = "LOADING"
      BY <2>1, <3>2, OwnIs DEF DInv, BlankIsLoading
    <3> QED BY <2>1, <3>1, <3>2
  <2>3. pending' \subseteq pending \cup {new}
    BY <1>3 DEF SaveChar, QueueOne
  <2>4. /\ new.p = p /\ new.kind = "UPDATE" /\ new.guid = c.guid
        /\ new.body = playing[p] /\ new.reply = "none"
    BY DEF NewRequest
  <2> HIDE DEF new
  <2>5. p \notin overlapped => RequestSelf(new)
    BY <2>2, <2>4 DEF RequestSelf
  <2> QED BY <1>1, <2>3, <2>4, <2>5
<1> QED BY <1>2, <1>3

(* Who leaves takes his slots along and plays nothing.                     *)
LEMMA RemoveEntitiesIdentity ==
  ASSUME IInv, DInv, NEW P \in SUBSET Players, RemoveEntities(P), loaded' = loaded,
         UNCHANGED <<overlapped, late, home, body>>,
         \A r \in pending' : /\ r.p \notin overlapped => RequestSelf(r)
                             /\ r \in pending \/ r.kind = "UPDATE"
  PROVE  DInv'
<1>1. /\ online' = online \ P
      /\ \A p \in Players : p \in P => charState'[p] = "UNLOADED"
      /\ \A p \in Players \ P : charState'[p] = charState[p] /\ charNum'[p] = charNum[p]
                              /\ playing'[p] = playing[p] /\ info'[p] = info[p]
      /\ \A p \in Players, s \in Slots : p \in P => info'[p][s] = FreshSlot
  BY DEF RemoveEntities
<1>2. online \subseteq Players
  BY DEF IInv, TypeOK
<1>3. SlotSelf(FreshSlot)
  BY OwnIs DEF SlotSelf, FreshSlot
<1>4. SlotsSelf' /\ BlankIsLoading'
  BY <1>1, <1>3 DEF DInv, SlotsSelf, SlotSelf, BlankIsLoading
<1>5. RequestsSelf' /\ StoreKeepsIdentity'
  BY DEF DInv, RequestsSelf, RequestSelf, StoreKeepsIdentity, Stored
<1>6. DeletesRemember'
  BY <1>1, <1>2 DEF DInv, DeletesRemember
<1>7. PlayedIsSlotData'
  BY <1>1, <1>2 DEF DInv, PlayedIsSlotData
<1> QED BY <1>4, <1>5, <1>6, <1>7 DEF DInv

LEMMA ClientPutInServerIdentity ==
  ASSUME IInv, LInv, DInv, NEW p \in Players, ClientPutInServer(p)
  PROVE  DInv'
<1> DEFINE req(s) == NewRequest(nextId + s, "LOAD", p, s, info[p][s].status, NoChar, NoChar)
<1>1. /\ p \notin online /\ LoadAll(p) /\ online' = online \cup {p}
      /\ overlapped' = IF joins[p] > 0 /\ \E r \in pending : r.p = p /\ NeedsAnswer(r)
                       THEN overlapped \cup {p} ELSE overlapped
      /\ UNCHANGED <<loaded, charState, charNum, playing, late, home, body>>
  BY DEF ClientPutInServer, mapVars, backendVars
<1>2. /\ info \in [Players -> [Slots -> SlotInfo]] /\ pending \subseteq Request
      /\ online \subseteq Players /\ joins \in [Players -> Nat]
  BY DEF IInv, TypeOK
<1>3. /\ overlapped \subseteq overlapped'
      /\ \A r \in pending : NeedsAnswer(r) /\ r.p \notin overlapped' => r.p # p
  BY <1>1, <1>2 DEF LInv, OnceHere
<1>4. \A s \in Slots : info[p][s] = FreshSlot
  BY <1>1 DEF IInv, SlotsSound, SlotSound
<1>5. \A s \in Slots : req(s).kind = "LOAD" /\ req(s).reply = "none"
  BY DEF NewRequest
<1>6. charState[p] = "UNLOADED"
  BY <1>1 DEF DInv, BlankIsLoading
<1>7. /\ \A r \in pending' : r \in pending \/ (r.kind = "LOAD" /\ r.reply = "none")
      /\ \A q \in Players \ {p} : info'[q] = info[q]
      /\ \A s \in Slots : SlotSelf(info'[p][s])
  <2>1. CASE loaded
    <3>1. \A s \in Slots : info[p][s].status # "LOADING"
      BY <1>4 DEF FreshSlot
    <3>2. /\ pending' = pending \cup {req(s) : s \in Slots}
          /\ info' = [info EXCEPT ![p] = [s \in Slots |-> Pinned(@[s])]]
      BY <1>1, <2>1, <3>1 DEF LoadAll
    <3> HIDE DEF req
    <3>3. \A s \in Slots : info'[p][s] = Pinned(FreshSlot)
      BY <1>2, <1>4, <3>2
    <3>4. SlotSelf(Pinned(FreshSlot))
      BY OwnIs DEF SlotSelf, Pinned, FreshSlot
    <3> QED BY <1>2, <1>5, <3>2, <3>3, <3>4
  <2>2. CASE ~loaded
    <3>1. info' = info /\ pending' = pending
      BY <1>1, <2>2 DEF LoadAll
    <3>2. SlotSelf(FreshSlot)
      BY OwnIs DEF SlotSelf, FreshSlot
    <3> QED BY <1>4, <3>1, <3>2
  <2> QED BY <2>1, <2>2
<1>8. SlotsSelf'
  BY <1>3, <1>7 DEF DInv, SlotsSelf, SlotSelf
<1>9. RequestsSelf'
  BY <1>1, <1>3, <1>7 DEF DInv, RequestsSelf, RequestSelf
<1>10. DeletesRemember'
  BY <1>1, <1>2, <1>3, <1>7 DEF DInv, DeletesRemember, NeedsAnswer, Request
<1>11. BlankIsLoading' /\ StoreKeepsIdentity'
  BY <1>1, <1>3 DEF DInv, BlankIsLoading, StoreKeepsIdentity, Stored
<1>12. PlayedIsSlotData'
  BY <1>1, <1>2, <1>3, <1>6, <1>7 DEF DInv, PlayedIsSlotData
<1> QED BY <1>8, <1>9, <1>10, <1>11, <1>12 DEF DInv

(* Who selects a loaded slot plays its data, or nothing any more.          *)
LEMMA LoadCharacterIdentity ==
  ASSUME IInv, DInv, NEW p \in Players, NEW s \in Slots, LoadCharacter(p, s)
  PROVE  DInv'
<1> DEFINE c == info[p][s]
<1>1. /\ p \in online /\ c.status = "LOADED"
      /\ UNCHANGED <<online, overlapped, info, pending, late, home, body>>
  BY DEF LoadCharacter, backendVars
<1>2. p \notin overlapped => c.guid \in Chars /\ c.data \in Own(c.guid)
  BY <1>1 DEF DInv, SlotsSelf, SlotSelf
<1>3. ~Readable(c.data) /\ p \notin overlapped => Unreadable # {}
  BY <1>2, OwnIs, CharsAssumption DEF Readable
<1>4. \/ /\ charState' = [charState EXCEPT ![p] = "LOADED"]
         /\ playing' = [playing EXCEPT ![p] = c.data]
         /\ charNum' = [charNum EXCEPT ![p] = s]
      \/ /\ charState' = [charState EXCEPT ![p] = "LOADING"]
         /\ playing' = [playing EXCEPT ![p] = Blank]
         /\ charNum' = charNum /\ (p \notin overlapped => Unreadable # {})
  BY <1>3 DEF LoadCharacter
<1>5. /\ charState \in [Players -> CharStates] /\ playing \in [Players -> Data]
      /\ charNum \in [Players -> Slots] /\ online \subseteq Players
  BY DEF IInv, TypeOK
<1>6. BlankIsLoading'
  BY <1>1, <1>4, <1>5 DEF DInv, BlankIsLoading
<1>7. PlayedIsSlotData'
  <2>1. ASSUME NEW q \in online \ overlapped, charState'[q] = "LOADED"
        PROVE  LET d == info[q][charNum'[q]]
               IN d.status = "LOADED" /\ d.data = playing'[q]
    <3>1. CASE q = p
      BY <1>1, <1>4, <1>5, <2>1, <3>1
    <3>2. CASE q # p
      <4>1. charState[q] = "LOADED" /\ charNum'[q] = charNum[q] /\ playing'[q] = playing[q]
        BY <1>4, <1>5, <2>1, <3>2
      <4> QED BY <4>1 DEF DInv, PlayedIsSlotData
    <3> QED BY <3>1, <3>2
  <2> QED BY <1>1, <2>1 DEF PlayedIsSlotData
<1>8. SlotsSelf' /\ RequestsSelf' /\ DeletesRemember' /\ StoreKeepsIdentity'
  BY <1>1 DEF DInv, SlotsSelf, SlotSelf, RequestsSelf, RequestSelf, DeletesRemember,
              StoreKeepsIdentity, Stored
<1> QED BY <1>6, <1>7, <1>8 DEF DInv

LEMMA CommandsIdentity ==
  ASSUME IInv, LInv, DInv, NEW p \in Players, Commands(p)
  PROVE  DInv'
<1> USE DEF playerVars, backendVars
<1>0. /\ \A r \in pending : r.p \notin overlapped => RequestSelf(r)
      /\ \A q \in Players \ overlapped, t \in Slots : SlotSelf(info[q][t])
      /\ \A r \in pending :
           r.kind = "DELETE" /\ r.prev = "LOADED" /\ r.p \in online \ overlapped =>
             info[r.p][r.s].guid \in Chars
      /\ pending \subseteq Request
  BY DEF DInv, RequestsSelf, SlotsSelf, DeletesRemember, IInv, TypeOK
<1>1. CASE ClientPutInServer(p)
  BY <1>1, ClientPutInServerIdentity
<1>2. ASSUME NEW s \in Slots, DeleteCharacter(p, s) PROVE DInv'
  <2>1. info[p][s].guid \in Chars \cup {NoChar}
    BY DEF IInv, TypeOK, SlotInfo
  <2>2. /\ p \in online /\ charState[p] = "UNLOADED"
        /\ QueueSlotRequest("DELETE", p, s, info[p][s].guid, NoChar)
        /\ UNCHANGED <<online, overlapped, charState, charNum, playing, late, home, body>>
    BY <1>2 DEF DeleteCharacter
  <2> QED BY <2>1, <2>2, SlotRequestIdentity, IdentityKept
<1>3. ASSUME NEW s \in Slots, CreateChar(p, s) PROVE DInv'
  <2>1. /\ p \in online /\ charState[p] = "UNLOADED" /\ charNum' = [charNum EXCEPT ![p] = s]
        /\ UNCHANGED <<online, overlapped, charState, playing, late, home, body>>
    BY <1>3 DEF CreateChar
  <2>2. /\ pending' \subseteq Request
        /\ \A r \in pending' : r.p \notin overlapped => RequestSelf(r)
        /\ \A r \in pending' :
             r.kind = "DELETE" /\ r.prev = "LOADED" /\ r.p \in online \ overlapped =>
               info[r.p][r.s].guid \in Chars
        /\ \A q \in Players, t \in Slots :
             /\ q \notin overlapped => SlotSelf(info'[q][t])
             /\ info'[q][t].data = info[q][t].data
             /\ info'[q][t].guid = info[q][t].guid
             /\ q # p => info'[q][t].status = info[q][t].status
    <3>1. CASE info[p][s].status = "LOADING"
      BY <1>0, <1>3, <3>1 DEF CreateChar
    <3>2. CASE info[p][s].status # "LOADING"
      BY <1>3, <2>1, <3>2, SlotRequestIdentity DEF CreateChar
    <3> QED BY <3>1, <3>2
  <2>3. SlotsSelf' /\ RequestsSelf' /\ BlankIsLoading' /\ StoreKeepsIdentity'
    BY <2>1, <2>2 DEF DInv, SlotsSelf, SlotSelf, RequestsSelf, RequestSelf, BlankIsLoading,
                      StoreKeepsIdentity, Stored
  <2>4. DeletesRemember'
    BY <2>1, <2>2 DEF DeletesRemember, Request
  <2>5. PlayedIsSlotData'
    <3>1. ASSUME NEW q \in online \ overlapped, charState[q] = "LOADED"
          PROVE  LET d == info'[q][charNum'[q]]
                 IN d.status = "LOADED" /\ d.data = playing[q]
      <4>1. q # p /\ q \in Players /\ charNum[q] \in Slots /\ charNum'[q] = charNum[q]
        BY <2>1, <3>1 DEF IInv, TypeOK
      <4> QED BY <2>2, <3>1, <4>1 DEF DInv, PlayedIsSlotData, SlotSelf
    <3> QED BY <2>1, <3>1 DEF PlayedIsSlotData
  <2> QED BY <2>3, <2>4, <2>5 DEF DInv
<1>4. ASSUME NEW s \in Slots, LoadCharacter(p, s) PROVE DInv'
  BY <1>4, LoadCharacterIdentity
<1>5. CASE Save(p)
  <2>1. /\ p \in online /\ SaveChar(p)
        /\ UNCHANGED <<online, overlapped, charState, charNum, playing, info, late, home,
                       body>>
    BY <1>5 DEF Save
  <2>2. \A r \in pending' : /\ r.p \notin overlapped => RequestSelf(r)
                            /\ r \in pending \/ r.kind = "UPDATE"
    BY <2>1, SaveCharIdentity
  <2>3. pending' \subseteq Request
    BY <2>1, SaveCharAdds DEF IInv
  <2> QED BY <1>0, <2>1, <2>2, <2>3, IdentityKept
<1>6. CASE ClientDisconnected(p)
  <2>1. /\ p \in online /\ SaveChar(p) /\ RemoveEntities({p})
        /\ UNCHANGED <<loaded, overlapped, late, home, body>>
    BY <1>6 DEF ClientDisconnected, mapVars
  <2>2. \A r \in pending' : /\ r.p \notin overlapped => RequestSelf(r)
                            /\ r \in pending \/ r.kind = "UPDATE"
    BY <2>1, SaveCharIdentity
  <2> QED BY <2>1, <2>2, RemoveEntitiesIdentity
<1>7. CASE Think_SendCharData(p)
  <2>1. /\ info' = [info EXCEPT ![p] = [s \in Slots |-> Sent(@[s])]]
        /\ UNCHANGED <<online, overlapped, charState, charNum, playing, pending, late, home, body>>
    BY <1>7 DEF Think_SendCharData
  <2>2. \A c \in SlotInfo : /\ Sent(c).status = c.status /\ Sent(c).data = c.data
                            /\ Sent(c).guid = c.guid
    BY DEF Sent, SlotInfo
  <2>3. info \in [Players -> [Slots -> SlotInfo]]
    BY DEF IInv, TypeOK
  <2>4. ASSUME NEW q \in Players, NEW s \in Slots
        PROVE  /\ q \notin overlapped => SlotSelf(info'[q][s])
               /\ info'[q][s].data = info[q][s].data
               /\ info'[q][s].guid = info[q][s].guid
               /\ info'[q][s].status = info[q][s].status
    <3>1. info'[q][s] = IF q = p THEN Sent(info[q][s]) ELSE info[q][s]
      BY <2>1, <2>3
    <3>2. info[q][s] \in SlotInfo /\ (q \notin overlapped => SlotSelf(info[q][s]))
      BY <1>0, <2>3
    <3> QED BY <2>2, <3>1, <3>2 DEF SlotSelf
  <2> QED BY <1>0, <2>1, <2>4, IdentityKept
<1> QED BY <1>1, <1>2, <1>3, <1>4, <1>5, <1>6, <1>7 DEF Commands

-----------------------------------------------------------------------------
(* Answers, the backend, map changes.                                      *)

(* Starting requests leaves all of it true of them.                        *)
LEMMA StartedSelf ==
  ASSUME IInv, DInv, NEW refused
  PROVE  \A q \in Started(refused) :
           /\ q.p \notin overlapped => RequestSelf(q)
           /\ q.kind = "DELETE" /\ q.prev = "LOADED" /\ q.p \in online \ overlapped =>
                info[q.p][q.s].guid \in Chars
<1>1. ASSUME NEW q \in Started(refused)
      PROVE  /\ q.p \notin overlapped => RequestSelf(q)
             /\ q.kind = "DELETE" /\ q.prev = "LOADED" /\ q.p \in online \ overlapped =>
                  info[q.p][q.s].guid \in Chars
  <2>1. PICK a \in pending : /\ q.kind = a.kind /\ q.p = a.p /\ q.s = a.s
                             /\ q.prev = a.prev /\ q.guid = a.guid /\ q.body = a.body
                             /\ q.reply = a.reply
    BY StartedIs DEF IInv
  <2>2. a.p \notin overlapped => RequestSelf(a)
    BY DEF DInv, RequestsSelf
  <2> QED BY <2>1, <2>2 DEF RequestSelf, DInv, DeletesRemember
<1> QED BY <1>1

LEMMA StartIdentity ==
  ASSUME IInv, DInv, Start
  PROVE  DInv'
<1>1. PICK refused : pending' = Started(refused)
  BY DEF Start, ThinkStart
<1>2. UNCHANGED <<online, overlapped, charState, charNum, playing, info, late, home, body>>
  BY DEF Start, ThinkStart, playerVars
<1>3. pending' \subseteq Request
  BY <1>1, StartedSame DEF IInv
<1>4. \A q \in Players \ overlapped, t \in Slots : SlotSelf(info[q][t])
  BY DEF DInv, SlotsSelf
<1> QED BY <1>1, <1>2, <1>3, <1>4, StartedSelf, IdentityKept

(* What an answer puts into a slot is the data of its guid.                *)
LEMMA ResponseSelf ==
  ASSUME NEW c \in SlotInfo, SlotSelf(c), NEW r \in Request, RequestSelf(r),
         NEW code \in Codes(r),
         r.kind = "DELETE" /\ r.prev = "LOADED" => c.guid \in Chars
  PROVE  SlotSelf(OnResponse(c, r, code))
<1>1. SlotSelf(MarkNotFound(c))
  BY DEF SlotSelf, MarkNotFound, SlotInfo
<1>2. ASSUME code = "ok", r.kind \in {"LOAD", "CREATE"} PROVE SlotSelf(Assigned(c, r))
  <2>1. r.reply = "ok"
    BY <1>2 DEF Codes
  <2> QED BY <1>2, <2>1 DEF SlotSelf, Assigned, SlotInfo, RequestSelf
<1>3. CASE r.kind = "LOAD"
  BY <1>1, <1>2, <1>3 DEF OnResponse, OnLoad
<1>4. CASE r.kind = "CREATE"
  BY <1>1, <1>2, <1>4 DEF OnResponse, OnCreate
<1>5. CASE r.kind = "DELETE"
  <2>1. OnResponse(c, r, code) = OnDelete(c, r, code)
    BY <1>5 DEF OnResponse
  <2>2. SlotSelf([c EXCEPT !.status = r.prev, !.cached = "UNLOADED"])
    BY <1>5 DEF SlotSelf, SlotInfo
  <2> QED BY <1>1, <2>1, <2>2 DEF OnDelete
<1>6. CASE r.kind = "UPDATE"
  BY <1>6 DEF OnResponse
<1> QED BY <1>3, <1>4, <1>5, <1>6 DEF Request, Kinds

(* An answer goes into a LOADING slot, hence into no slot that is played.  *)
LEMMA ReapIdentity ==
  ASSUME IInv, LInv, DInv, NEW id, Reap(id)
  PROVE  DInv'
<1>1. PICK refused : ThinkComplete(refused, id)
  BY DEF Reap
<1>2. PICK r \in Started(refused) :
        \E code \in Codes(r) : /\ pending' = Started(refused) \ {r}
                               /\ late' = late \cup GivenUp({r}) /\ Respond(r, code)
  BY <1>1 DEF ThinkComplete
<1>3. PICK code \in Codes(r) : /\ pending' = Started(refused) \ {r}
                              /\ late' = late \cup GivenUp({r}) /\ Respond(r, code)
  BY <1>2
<1>4. UNCHANGED <<online, overlapped, charState, charNum, playing, home, body>>
  BY DEF Reap, playerVars
<1>5. /\ info \in [Players -> [Slots -> SlotInfo]] /\ online \subseteq Players
      /\ charNum \in [Players -> Slots]
      /\ Started(refused) \subseteq Request /\ r.p \in Players /\ r.s \in Slots
  BY StartedSame DEF IInv, TypeOK, Request
<1>6. r.p \notin overlapped => RequestSelf(r)
  BY StartedSelf
<1> DEFINE c == info[r.p][r.s]
           d == OnResponse(c, r, code)
<1>7. c \in SlotInfo /\ (r.p \notin overlapped => SlotSelf(c))
  BY <1>5 DEF DInv, SlotsSelf
<1>8. r.p \in online \ overlapped => SlotSelf(d)
  BY <1>5, <1>6, <1>7, StartedSelf, ResponseSelf
<1>9. NeedsAnswer(r) /\ r.p \in online \ overlapped => c.status = "LOADING"
  BY StartedLocks
<1>10. ~NeedsAnswer(r) => d = c
  BY DEF NeedsAnswer, OnResponse
<1> HIDE DEF d
<1>11. \A p \in Players, s \in Slots :
         info'[p][s] = IF p = r.p /\ s = r.s /\ r.p \in online THEN d ELSE info[p][s]
  <2>1. info' = IF r.p \in online THEN [info EXCEPT ![r.p][r.s] = d] ELSE info
    BY <1>3 DEF Respond, d
  <2> QED BY <1>5, <2>1
<1>12. SlotsSelf'
  BY <1>4, <1>8, <1>11 DEF DInv, SlotsSelf, SlotSelf
<1>13. RequestsSelf'
  <2>1. \A q \in pending' \cup late' : q \in Started(refused) \/ q \in late
    BY <1>3 DEF GivenUp
  <2>2. \A q \in pending' \cup late' : q.p \notin overlapped => RequestSelf(q)
    BY <2>1, StartedSelf DEF DInv, RequestsSelf
  <2> QED BY <1>4, <2>2 DEF RequestsSelf, RequestSelf
<1>14. DeletesRemember'
  <2>1. \A q \in pending' : q.kind = "DELETE" /\ q.p \notin overlapped =>
          info'[q.p][q.s] = info[q.p][q.s]
    BY <1>3, RespondElsewhere DEF NeedsAnswer
  <2> QED BY <1>3, <1>4, <2>1, StartedSelf DEF DeletesRemember
<1>15. BlankIsLoading' /\ StoreKeepsIdentity'
  BY <1>4 DEF DInv, BlankIsLoading, StoreKeepsIdentity, Stored
<1>16. PlayedIsSlotData'
  <2>1. ASSUME NEW p \in online \ overlapped, charState[p] = "LOADED"
        PROVE  info'[p][charNum[p]] = info[p][charNum[p]]
    <3>1. info[p][charNum[p]].status = "LOADED"
      BY <2>1 DEF DInv, PlayedIsSlotData
    <3>2. CASE p = r.p /\ charNum[p] = r.s
      BY <1>5, <1>9, <1>10, <1>11, <3>1, <3>2
    <3>3. CASE ~(p = r.p /\ charNum[p] = r.s)
      BY <1>5, <1>11, <3>3
    <3> QED BY <3>2, <3>3
  <2> QED BY <1>4, <2>1 DEF DInv, PlayedIsSlotData
<1> QED BY <1>12, <1>13, <1>14, <1>15, <1>16 DEF DInv

(* The backend stores and sends what its guid names.                       *)
LEMMA ServeKeepsStore ==
  ASSUME TypeOK, StoreKeepsIdentity, NEW r \in Request, RequestOf(r), r.reply = "none",
         r.p \notin overlapped => RequestSelf(r), overlapped' = overlapped,
         NEW answer, NEW c \in Chars \cup {NoChar}, Serve(r, answer, c)
  PROVE  /\ StoreKeepsIdentity'
         /\ r.p \notin overlapped => RequestSelf(Answered(r, answer, c))
<1> DEFINE q == Answered(r, answer, c)
<1>1. /\ q.kind = r.kind /\ q.reply = answer /\ q.guid = c
      /\ r.kind = "LOAD" /\ c \in Chars => q.body = body[c]
      /\ r.kind = "CREATE" => q.body = c
      /\ r.kind \in {"DELETE", "UPDATE"} => q.body = r.body
  BY DEF Answered, Request
<1> HIDE DEF q
<1>2. home \in [Chars -> Homes] /\ body \in [Chars -> Data]
  BY DEF TypeOK
<1>3. CASE Refuse(r, answer) /\ c = r.guid
  <2>1. r.p \notin overlapped => RequestSelf(q)
    BY <1>1, <1>3 DEF Refuse, RequestSelf, Request, Kinds
  <2> QED BY <1>3, <2>1 DEF Refuse, StoreKeepsIdentity, Stored, q
<1>4. CASE ServeLoad(r, answer, c)
  <2>1. answer = "ok" => c \in Chars /\ home[c] = <<r.p, r.s>>
    BY <1>4 DEF ServeLoad, Residents
  <2>2. <<r.p, r.s>> # Nowhere /\ <<r.p, r.s>>[1] = r.p
    BY CharsAssumption DEF Request
  <2>3. answer = "ok" /\ r.p \notin overlapped => body[c] \in Own(c)
    BY <2>1, <2>2 DEF StoreKeepsIdentity, Stored
  <2>4. r.p \notin overlapped => RequestSelf(q)
    BY <1>1, <1>4, <2>1, <2>3 DEF ServeLoad, RequestSelf
  <2> QED BY <1>4, <2>4 DEF ServeLoad, StoreKeepsIdentity, Stored, q
<1>5. CASE ServeCreate(r, answer, c)
  <2>1. c \in Chars
    BY <1>5 DEF ServeCreate, Unused
  <2>2. r.p \notin overlapped => RequestSelf(q)
    BY <1>1, <1>5, <2>1, OwnIs DEF ServeCreate, RequestSelf
  <2>3. StoreKeepsIdentity'
    BY <1>2, <1>5, <2>1, OwnIs DEF ServeCreate, StoreKeepsIdentity, Stored
  <2> QED BY <2>2, <2>3 DEF q
<1>6. CASE ServeDelete(r, answer) /\ c = r.guid
  <2>1. r.p \notin overlapped => RequestSelf(q)
    BY <1>1, <1>6 DEF ServeDelete, RequestSelf
  <2>2. StoreKeepsIdentity'
    BY <1>2, <1>6 DEF ServeDelete, StoreKeepsIdentity, Stored
  <2> QED BY <2>1, <2>2 DEF q
<1>7. CASE ServeUpdate(r, answer) /\ c = r.guid
  <2>1. /\ r.p \notin overlapped => r.body \in Own(r.guid)
        /\ home[r.guid][1] = r.p
    BY <1>7 DEF ServeUpdate, RequestSelf, RequestOf, Belongs, Stored
  <2>2. r.p \notin overlapped => RequestSelf(q)
    BY <1>1, <1>7, <2>1 DEF ServeUpdate, RequestSelf
  <2>3. StoreKeepsIdentity'
    BY <1>2, <1>7, <2>1 DEF ServeUpdate, StoreKeepsIdentity, Stored
  <2> QED BY <2>2, <2>3 DEF q
<1> QED BY <1>3, <1>4, <1>5, <1>6, <1>7 DEF Serve

LEMMA BackendServesIdentity ==
  ASSUME IInv, OInv, DInv, BackendServes
  PROVE  DInv'
<1>1. PICK r \in pending, answer \in {"ok", "empty", "error"}, c \in Chars \cup {NoChar} :
        /\ r.reply = "none" /\ Serve(r, answer, c)
        /\ pending' = (pending \ {r}) \cup {Answered(r, answer, c)}
        /\ UNCHANGED <<online, overlapped, charState, charNum, playing, info, late>>
  BY DEF BackendServes, playerVars
<1> DEFINE q == Answered(r, answer, c)
<1>2. TypeOK /\ r \in Request /\ StoreKeepsIdentity /\ RequestOf(r)
  BY DEF IInv, TypeOK, DInv, OInv
<1>3. r.p \notin overlapped => RequestSelf(r)
  BY DEF DInv, RequestsSelf
<1>4. (r.p \notin overlapped => RequestSelf(q)) /\ StoreKeepsIdentity'
  BY <1>1, <1>2, <1>3, ServeKeepsStore
<1>5. q.kind = r.kind /\ q.p = r.p /\ q.s = r.s /\ q.prev = r.prev
  BY <1>2, AnsweredType
<1>6. pending' = (pending \ {r}) \cup {q}
  BY <1>1
<1> HIDE DEF q
<1>7. \A o \in pending' \cup late' : o.p \notin overlapped => RequestSelf(o)
  BY <1>1, <1>4, <1>5, <1>6 DEF DInv, RequestsSelf
<1>8. RequestsSelf'
  BY <1>1, <1>7 DEF RequestsSelf, RequestSelf
<1>9. DeletesRemember'
  BY <1>1, <1>5, <1>6 DEF DInv, DeletesRemember
<1>10. SlotsSelf' /\ BlankIsLoading' /\ PlayedIsSlotData'
  BY <1>1 DEF DInv, SlotsSelf, SlotSelf, BlankIsLoading, PlayedIsSlotData
<1> QED BY <1>4, <1>8, <1>9, <1>10 DEF DInv

LEMMA BackendServesLateIdentity ==
  ASSUME IInv, OInv, DInv, BackendServesLate, \A r \in late : r.reply = "none"
  PROVE  DInv'
<1>1. PICK r \in late, answer \in {"ok", "error"}, c \in Chars \cup {NoChar} :
        /\ Serve(r, answer, c) /\ late' = late \ {r}
        /\ UNCHANGED <<online, overlapped, charState, charNum, playing, info, pending>>
  BY DEF BackendServesLate, playerVars
<1>2. /\ TypeOK /\ r \in Request /\ StoreKeepsIdentity /\ RequestOf(r) /\ r.reply = "none"
      /\ r.p \notin overlapped => RequestSelf(r)
  BY DEF IInv, TypeOK, DInv, OInv, RequestsSelf
<1>3. StoreKeepsIdentity'
  BY <1>1, <1>2, ServeKeepsStore
<1>4. /\ RequestsSelf' /\ DeletesRemember' /\ SlotsSelf' /\ BlankIsLoading'
      /\ PlayedIsSlotData'
  BY <1>1 DEF DInv, RequestsSelf, RequestSelf, DeletesRemember, SlotsSelf, SlotSelf,
              BlankIsLoading, PlayedIsSlotData
<1> QED BY <1>3, <1>4 DEF DInv

(* What is queued at the end of a map is what its players play.            *)
LEMMA MSGameEndIdentity ==
  ASSUME IInv, DInv, MSGameEnd
  PROVE  DInv'
<1>1. /\ RemoveEntities(online) /\ UNCHANGED <<loaded, overlapped, late, home, body>>
  BY DEF MSGameEnd, backendVars
<1>2. online \in SUBSET Players
  BY DEF IInv, TypeOK
<1>3. \A r \in pending : r.p \notin overlapped => RequestSelf(r)
  BY DEF DInv, RequestsSelf
<1>4. \A r \in pending' : /\ r.p \notin overlapped => RequestSelf(r)
                          /\ r \in pending \/ r.kind = "UPDATE"
  <2>1. CASE ~loaded
    BY <1>3, <2>1 DEF MSGameEnd
  <2>2. CASE loaded
    <3> DEFINE req(num, p) == NewRequest(num[p], "UPDATE", p, charNum[p],
                                         info[p][charNum[p]].status,
                                         info[p][charNum[p]].guid, playing[p])
    <3>1. PICK num : pending' = pending \cup {req(num, p) : p \in Leaving}
      BY <2>2 DEF MSGameEnd
    <3>2. ASSUME NEW p \in Leaving
          PROVE  /\ req(num, p).p = p /\ req(num, p).kind = "UPDATE"
                 /\ p \notin overlapped => RequestSelf(req(num, p))
      <4>1. p \in Players /\ charNum[p] \in Slots
        BY DEF Leaving, IInv, TypeOK
      <4>2. p \notin overlapped => playing[p] \in Own(info[p][charNum[p]].guid)
        BY <4>1 DEF Leaving, DInv, PlayedIsSlotData, SlotsSelf, SlotSelf
      <4> QED BY <4>2 DEF NewRequest, RequestSelf
    <3> HIDE DEF req
    <3> QED BY <1>3, <3>1, <3>2
  <2> QED BY <2>1, <2>2
<1> QED BY <1>1, <1>2, <1>4, RemoveEntitiesIdentity

LEMMA MSGameInitIdentity ==
  ASSUME IInv, DInv, MSGameInit
  PROVE  DInv'
<1>1. /\ phase = "changing" /\ pending' = {} /\ late' = late \cup GivenUp(pending)
      /\ UNCHANGED <<online, overlapped, charState, charNum, playing, info, home, body>>
  BY DEF MSGameInit
<1>2. \A r \in late' : r.p \notin overlapped => RequestSelf(r)
  BY <1>1 DEF DInv, RequestsSelf, GivenUp
<1>3. RequestsSelf'
  BY <1>1, <1>2 DEF RequestsSelf, RequestSelf
<1>4. DeletesRemember'
  BY <1>1 DEF DeletesRemember
<1>5. SlotsSelf' /\ BlankIsLoading' /\ PlayedIsSlotData' /\ StoreKeepsIdentity'
  BY <1>1 DEF DInv, SlotsSelf, SlotSelf, BlankIsLoading, PlayedIsSlotData,
              StoreKeepsIdentity, Stored
<1> QED BY <1>3, <1>4, <1>5 DEF DInv

-----------------------------------------------------------------------------
(* What the game gave up on had not been answered.                         *)
LateUnanswered == \A r \in late : r.reply = "none"

LEMMA LateStaysUnanswered ==
  ASSUME LateUnanswered, [Next]_vars
  PROVE  LateUnanswered'
<1>1. \A R : \A r \in GivenUp(R) : r.reply = "none"
  BY DEF GivenUp
<1>2. ASSUME NEW p \in Players, Commands(p) PROVE late' = late
  BY <1>2 DEF Commands, ClientPutInServer, DeleteCharacter, CreateChar, LoadCharacter, Save,
              ClientDisconnected, Think_SendCharData, backendVars
<1>3. CASE Think
  BY <1>1, <1>3 DEF Think, Start, ThinkStart, Reap, ThinkComplete, LateUnanswered
<1>4. CASE BackendServes \/ BackendServesLate \/ MSGameEnd \/ MSGameInit
  BY <1>1, <1>4 DEF BackendServes, BackendServesLate, MSGameEnd, MSGameInit, backendVars,
                    LateUnanswered
<1>5. CASE UNCHANGED vars
  BY <1>5 DEF vars, backendVars, LateUnanswered
<1> QED BY <1>2, <1>3, <1>4, <1>5 DEF Next, LateUnanswered

LEMMA NextIdentity ==
  ASSUME IInv, LInv, OInv, DInv, LateUnanswered, [Next]_vars
  PROVE  DInv'
<1>1. ASSUME NEW p \in Players, Commands(p) PROVE DInv'
  BY <1>1, CommandsIdentity
<1>2. CASE Think
  BY <1>2, StartIdentity, ReapIdentity DEF Think
<1>3. CASE BackendServes \/ BackendServesLate
  BY <1>3, BackendServesIdentity, BackendServesLateIdentity DEF LateUnanswered
<1>4. CASE MSGameEnd \/ MSGameInit
  BY <1>4, MSGameEndIdentity, MSGameInitIdentity
<1>5. CASE UNCHANGED vars
  <2>1. UNCHANGED <<online, overlapped, charState, charNum, playing, info, pending, late,
                    home, body>>
    BY <1>5 DEF vars, playerVars, backendVars
  <2> QED
    BY <2>1 DEF DInv, SlotsSelf, SlotSelf, RequestsSelf, RequestSelf, DeletesRemember,
                BlankIsLoading, PlayedIsSlotData, StoreKeepsIdentity, Stored
<1> QED BY <1>1, <1>2, <1>3, <1>4, <1>5 DEF Next

LEMMA InitIdentity == Init => DInv /\ LateUnanswered
<1> SUFFICES ASSUME Init PROVE DInv /\ LateUnanswered
  OBVIOUS
<1>1. SlotsSelf /\ BlankIsLoading
  BY OwnIs DEF Init, SlotsSelf, SlotSelf, FreshSlot, BlankIsLoading
<1>2. /\ RequestsSelf /\ DeletesRemember /\ PlayedIsSlotData /\ StoreKeepsIdentity
      /\ LateUnanswered
  BY OwnIs DEF Init, RequestsSelf, DeletesRemember, PlayedIsSlotData, StoreKeepsIdentity, Stored,
               LateUnanswered
<1> QED BY <1>1, <1>2 DEF DInv

LEMMA IdentityInvariance == Spec => [](DInv /\ LateUnanswered)
<1>1. IInv /\ LInv /\ OInv /\ (DInv /\ LateUnanswered) /\ [Next]_vars => (DInv /\ LateUnanswered)'
  BY NextIdentity, LateStaysUnanswered
<1> QED BY <1>1, InitIdentity, Invariance, LocksInvariance, OwnedInvariance, PTL DEF Spec

(* A player in the game plays the character of the slot m_CharacterNum     *)
(* names, and it is the slot's guid's or, if some data cannot be read, a   *)
(* stripped player's; a reconnect while an answer to the connection before *)
(* is due is the one exception (PlayedCharIsTheSlots).                     *)
THEOREM PlayedIsTheSlots == Spec => []PlayedCharIsTheSlots
<1>1. ASSUME IInv, DInv PROVE PlayedCharIsTheSlots
  <2>1. ASSUME NEW p \in online \ overlapped, charState[p] = "LOADED"
        PROVE  LET c == info[p][charNum[p]]
               IN c.status = "LOADED" /\ c.data = playing[p] /\ playing[p] \in Own(c.guid)
    <3>1. p \in Players /\ charNum[p] \in Slots
      BY <1>1 DEF IInv, TypeOK
    <3>2. SlotSelf(info[p][charNum[p]])
      BY <1>1, <2>1, <3>1 DEF DInv, SlotsSelf
    <3> QED BY <1>1, <2>1, <3>2 DEF DInv, PlayedIsSlotData, SlotSelf
  <2> QED BY <2>1 DEF PlayedCharIsTheSlots
<1> QED BY <1>1, Invariance, IdentityInvariance, PTL

(* No save puts one character's data under another's guid, however late it *)
(* is served, unless its player's connections overlapped                   *)
(* (StoreKeepsIdentity; PlayersStayApart holds of those too).              *)
THEOREM SavesKeepIdentity == Spec => []StoreKeepsIdentity
<1>1. DInv => StoreKeepsIdentity
  BY DEF DInv
<1> QED BY <1>1, IdentityInvariance, PTL
=============================================================================
