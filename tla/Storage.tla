------------------------------- MODULE Storage -------------------------------
(* The bank: a player's storage (player.cpp, client.cpp), the panel he sees *)
(* it in (vgui_storage.cpp) and the monster that lends it (npcscript.cpp).  *)
(* What the server sends arrives at once; what the client sends waits in    *)
(* commands for the round trip.  The loops of Storage_AddItem,              *)
(* Storage_PutSwigs and Storage_Validate take a step for each pass, and     *)
(* nothing else runs before they end.                                       *)
EXTENDS Integers, Sequences, SequencesExt, FiniteSets

CONSTANTS
  Groupables,             \* kinds of which a stack counts once
  Plains,                 \* kinds that count one by one
  Potions,                \* kinds kept by their swigs (Storage_CombinesSwigs)
  Tellers,                \* monsters whose script opens the storage
  NUM_MAX_STACK,
  STORAGE_MAX_SWIGS,
  STORAGE_MAX_ITEMS,
  STORAGE_DEFAULT_ITEMS,
  STORAGE_ITEMS_PER_MSG,
  STORAGE_MAX_TRANSFER,
  PotionSize,             \* swigs in a full potion
  Start,                  \* what the player carries first, of each kind
  MaxCommands,            \* bound: client commands under way
  MaxGranted              \* bound: what scripts add in all

Kinds == Groupables \cup Plains \cup Potions

ASSUME KindsAssumption ==
  /\ Groupables \cap Plains = {}
  /\ (Groupables \cup Plains) \cap Potions = {}
ASSUME LimitsAssumption ==
  /\ {NUM_MAX_STACK, STORAGE_MAX_SWIGS, STORAGE_ITEMS_PER_MSG, PotionSize} \subseteq Nat \ {0}
  /\ {STORAGE_MAX_ITEMS, STORAGE_DEFAULT_ITEMS} \subseteq Nat \ {0}
  /\ STORAGE_MAX_TRANSFER \in Nat
ASSUME StartAssumption == Start \in [Kinds -> Nat]

VARIABLES
  m_Storage,      \* stored items, in order
  m_StorageMax,   \* 0: never set
  storing,        \* what Storage_AddItem or Validate has yet to put, in order
  unchecked,      \* items Storage_Validate has yet to look at
  carried,        \* units of each kind the player has on him
  Active, Teller, \* m_CurrentStorage: is it open, and through whom
  ClientItems,    \* how many of m_Storage the client was sent
  transfers,      \* moves counted this frame
  shown,          \* the client has the storage panel up
  view,           \* the client's m_Storage
  commands,       \* client commands on their way
  there,          \* is a teller near and alive, away (or dead), or gone
  using,          \* history: _success events a teller got without a _done
  granted         \* history: units scripts were told were added

store   == <<m_Storage, storing, unchecked>>
session == <<Active, Teller, using>>
client  == <<shown, view, commands>>
vars == <<store, m_StorageMax, carried, session, ClientItems, transfers, client, there, granted>>

Item == [ID : Nat, Kind : Kinds, Quantity : 1..NUM_MAX_STACK, Quality : 0..STORAGE_MAX_SWIGS]

-----------------------------------------------------------------------------
(* Counting.                                                               *)

AtMost(a, b)  == IF a < b THEN a ELSE b
AtLeast(a, b) == IF a > b THEN a ELSE b
Total(sizes) ==
  LET sum[i \in 0..Len(sizes)] == IF i = 0 THEN 0 ELSE sum[i - 1] + sizes[i]
  IN  sum[Len(sizes)]

(* "A stack of groupable items only counts once".                          *)
ItemCount(it) == IF it.Kind \in Groupables THEN 1 ELSE it.Quantity
Storage_ItemCount(s) == Total([i \in DOMAIN s |-> ItemCount(s[i])])

Storage_MaxItems ==
  AtMost(IF m_StorageMax > 0 THEN m_StorageMax ELSE STORAGE_DEFAULT_ITEMS, STORAGE_MAX_ITEMS)

(* Mutant of Storage_StackRoom: one more than a stack holds.               *)
Storage_StackRoom_Over(it, k) ==
  IF it.Kind # k THEN 0
  ELSE IF k \in Potions THEN AtLeast(STORAGE_MAX_SWIGS - it.Quality, 0)
                        ELSE AtLeast(NUM_MAX_STACK + 1 - it.Quantity, 0)

(* Storage_StackRoom, and for a potion the room it has for swigs.  A kind  *)
(* stands for a name, and but for potions a quality.                       *)
Storage_StackRoom(it, k) ==
  IF it.Kind # k THEN 0
  ELSE IF k \in Potions THEN AtLeast(STORAGE_MAX_SWIGS - it.Quality, 0)
                        ELSE AtLeast(NUM_MAX_STACK - it.Quantity, 0)

StackRooms(k) == Total([i \in DOMAIN m_Storage |-> Storage_StackRoom(m_Storage[i], k)])

Storage_SwigRoom(k) ==
  AtLeast(Storage_MaxItems - Storage_ItemCount(m_Storage), 0) * STORAGE_MAX_SWIGS + StackRooms(k)

(* Mutant of Fits: any room on a stack will do in a full storage.          *)
Fits_SomeRoom(k, amt) ==
  CASE k \in Potions    -> amt =< Storage_SwigRoom(k)
    [] k \in Plains     -> Storage_ItemCount(m_Storage) + amt =< Storage_MaxItems
    [] k \in Groupables -> \/ Storage_ItemCount(m_Storage) < Storage_MaxItems
                           \/ StackRooms(k) > 0

(* "Check before changing anything, so that a stack is never left half     *)
(* stored."                                                                *)
Fits(k, amt) ==
  CASE k \in Potions    -> amt =< Storage_SwigRoom(k)
    [] k \in Plains     -> Storage_ItemCount(m_Storage) + amt =< Storage_MaxItems
    [] k \in Groupables -> \/ Storage_ItemCount(m_Storage) < Storage_MaxItems
                           \/ StackRooms(k) >= amt

IDs(s) == {s[i].ID : i \in DOMAIN s}

(* Mutant of NewID: the place in the list.                                 *)
NewID_Place(s) == Len(s)

(* "Determine a unique ID": the first one free.                            *)
NewID(s) == CHOOSE id \in 0..Len(s) :
              id \notin IDs(s) /\ \A j \in 0..(id - 1) : j \in IDs(s)

-----------------------------------------------------------------------------
(* Server to client: the storage messages (vgui_storage.cpp).              *)

(* Where the client finds an ID.                                           *)
Found(v, id, j) ==
  j \in DOMAIN v /\ v[j].ID = id /\ \A h \in 1..(j - 1) : v[h].ID # id

Storage_ItemUpdateMsg(it) ==
  view' = [j \in DOMAIN view |->
             IF Found(view, it.ID, j)
             THEN [view[j] EXCEPT !.Quantity = it.Quantity, !.Quality = it.Quality]
             ELSE view[j]]

Storage_ItemRemoveMsg(id) ==
  \/ \E j \in DOMAIN view : Found(view, id, j) /\ view' = RemoveAt(view, j)
  \/ id \notin IDs(view) /\ view' = view

(* Mutant of Storage_SendItemUpdate: off by one.                           *)
Storage_SendItemUpdate_NotLast(i) ==
  IF i < ClientItems THEN Storage_ItemUpdateMsg(m_Storage'[i]) ELSE UNCHANGED view

(* Storage_SendItemUpdate: only of an item the client knows about.         *)
Storage_SendItemUpdate(i) ==
  IF i =< ClientItems THEN Storage_ItemUpdateMsg(m_Storage'[i]) ELSE UNCHANGED view

(* The panel's Close tells the server; without a panel nothing is sent.    *)
Closed(cmds) == IF shown THEN Append(cmds, [cmd |-> "stop", ID |-> 0]) ELSE cmds
-----------------------------------------------------------------------------
(* The loops: while one runs, the server does nothing else.                *)

Busy == storing # <<>> \/ unchecked > 0

Units(it) == IF it.Kind \in Potions THEN it.Quantity * it.Quality ELSE it.Quantity

(* Storage_Validate, from the last item down: potions are taken out.       *)
Validate ==
  /\ unchecked > 0
  /\ unchecked' = unchecked - 1
  /\ LET it == m_Storage[unchecked] IN
     IF it.Kind \in Potions
     THEN /\ m_Storage' = RemoveAt(m_Storage, unchecked)
          /\ storing' = Append(storing, [Kind |-> it.Kind, Amount |-> Units(it), Checked |-> FALSE])
     ELSE UNCHANGED <<m_Storage, storing>>
  /\ UNCHANGED <<m_StorageMax, carried, session, ClientItems, transfers, client, there, granted>>

(* Mutant of Put: what did not stack is forgotten.                         *)
Put_Rest(amt) == storing' = Tail(storing)

(* What is left to put once amt of the first is put.                       *)
Put(amt) ==
  storing' = IF amt < Head(storing).Amount
             THEN <<[Head(storing) EXCEPT !.Amount = @ - amt]>> \o Tail(storing)
             ELSE Tail(storing)

Enlarged(it, amt) ==
  IF it.Kind \in Potions THEN [it EXCEPT !.Quality = @ + amt] ELSE [it EXCEPT !.Quantity = @ + amt]

(* "Identical items stack": the first with room takes what it can.         *)
StackOn(i) ==
  LET todo == Head(storing)
      room == Storage_StackRoom(m_Storage[i], todo.Kind)
      amt  == AtMost(todo.Amount, room)
  IN /\ room > 0
     /\ \A j \in 1..(i - 1) : Storage_StackRoom(m_Storage[j], todo.Kind) = 0
     /\ m_Storage' = [m_Storage EXCEPT ![i] = Enlarged(@, amt)]
     /\ Put(amt)
     /\ Storage_SendItemUpdate(i)

(* "What's left becomes a new item", or as many potions as it fills.       *)
Storage_NewItem ==
  LET todo == Head(storing)
      amt  == IF todo.Kind \in Potions THEN AtMost(todo.Amount, STORAGE_MAX_SWIGS)
                                        ELSE todo.Amount
  IN /\ \A i \in DOMAIN m_Storage : Storage_StackRoom(m_Storage[i], todo.Kind) = 0
     /\ m_Storage' = Append(m_Storage,
          [ID |-> NewID(m_Storage), Kind |-> todo.Kind,
           Quantity |-> IF todo.Kind \in Potions THEN 1 ELSE amt,
           Quality  |-> IF todo.Kind \in Potions THEN amt ELSE 0])
     /\ Put(amt)
     /\ UNCHANGED view

Store ==
  /\ unchecked = 0 /\ storing # <<>>
  /\ (\E i \in DOMAIN m_Storage : StackOn(i)) \/ Storage_NewItem
  /\ UNCHANGED <<unchecked, m_StorageMax, carried, session, ClientItems, transfers,
                 shown, commands, there, granted>>

-----------------------------------------------------------------------------
(* Opening and ending.                                                     *)

(* Mutant of Done: also when the storage is not open.                      *)
Done_Again == [t \in Tellers |-> IF t = Teller /\ there[t] # "gone" THEN using[t] - 1
                                                                  ELSE using[t]]

(* Storage_End, if the storage is open: the teller, if still there, gets   *)
(* its _done.                                                              *)
Done == [t \in Tellers |-> IF Active /\ t = Teller /\ there[t] # "gone" THEN using[t] - 1
                                                                    ELSE using[t]]

(* "In case I still have it open through another entity": _done to that    *)
(* one, _success to this one.  The client drops its list, closes a panel   *)
(* that is up and shows it again.                                          *)
Trade(t) ==
  /\ ~Busy /\ there[t] # "gone" /\ Len(commands) =< MaxCommands
  /\ Active' = TRUE /\ Teller' = t /\ ClientItems' = 0
  /\ using' = [Done EXCEPT ![t] = @ + 1]
  /\ shown' = TRUE /\ view' = <<>> /\ commands' = Closed(commands)
  /\ UNCHANGED <<store, m_StorageMax, carried, transfers, there, granted>>

Storage_End ==
  /\ Active' = FALSE
  /\ ClientItems' = IF Active THEN 0 ELSE ClientItems
  /\ using' = Done
  /\ UNCHANGED Teller

(* The server hides the panel too, which makes the client send its stop.   *)
Storage_Close(cmds) ==
  /\ Storage_End
  /\ shown' = FALSE /\ commands' = Closed(cmds)

(* Mutant of Storage_UpdateClient: one message, and no more.               *)
Storage_UpdateClient_Once ==
  LET count == AtMost(Len(m_Storage), STORAGE_ITEMS_PER_MSG) - ClientItems
  IN IF Active /\ count > 0
     THEN /\ view' = view \o SubSeq(m_Storage, ClientItems + 1, ClientItems + count)
          /\ ClientItems' = ClientItems + count
     ELSE UNCHANGED <<view, ClientItems>>

(* Storage_UpdateClient: "one message per frame".                          *)
Storage_UpdateClient ==
  LET count == AtMost(Len(m_Storage) - ClientItems, STORAGE_ITEMS_PER_MSG)
  IN IF Active /\ count > 0
     THEN /\ view' = view \o SubSeq(m_Storage, ClientItems + 1, ClientItems + count)
          /\ ClientItems' = ClientItems + count
     ELSE UNCHANGED <<view, ClientItems>>

(* "pTeller && pTeller->pev->deadflag == DEAD_NO" and within range.        *)
Near == there[Teller] = "near"

(* Each frame: Storage_CheckTeller, then Storage_UpdateClient.             *)
PreThink ==
  /\ ~Busy
  /\ transfers' = 0
  /\ \/ Active /\ ~Near /\ Storage_Close(commands) /\ UNCHANGED view
     \/ ~(Active /\ ~Near) /\ Storage_UpdateClient /\ UNCHANGED <<session, shown, commands>>
  /\ UNCHANGED <<store, m_StorageMax, carried, there, granted>>

(* The player and the teller walk, the teller dies or is removed.          *)
Walk(t) ==
  /\ ~Busy /\ there[t] # "gone"
  /\ \E where \in {"near", "away", "gone"} \ {there[t]} : there' = [there EXCEPT ![t] = where]
  /\ UNCHANGED <<store, m_StorageMax, carried, session, ClientItems, transfers, client, granted>>

(* The player's entity is saved, ends its use and is gone; the player      *)
(* comes back with what was saved: IDs are the places in the list.         *)
Rejoin ==
  /\ ~Busy
  /\ Storage_End
  /\ m_Storage' = [i \in DOMAIN m_Storage |-> [m_Storage[i] EXCEPT !.ID = i - 1]]
  /\ unchecked' = Len(m_Storage)
  /\ transfers' = 0 /\ shown' = FALSE /\ view' = <<>> /\ commands' = <<>>
  /\ UNCHANGED <<storing, m_StorageMax, carried, there, granted>>

-----------------------------------------------------------------------------
(* Scripts.                                                                *)

Storage_SetMax(max) ==
  /\ ~Busy
  /\ m_StorageMax' = AtLeast(AtMost(max, STORAGE_MAX_ITEMS), 1)
  /\ UNCHANGED <<store, carried, session, ClientItems, transfers, client, there, granted>>

(* How many of n the storage has room for; each is a potion of q swigs.    *)
Added(k, n, q) ==
  CASE k \in Potions    -> AtMost(n, Storage_SwigRoom(k) \div q)
    [] k \in Plains     -> AtMost(n, Storage_MaxItems - Storage_ItemCount(m_Storage))
    [] k \in Groupables -> IF Fits(k, n) THEN n ELSE 0

(* A pass of Storage_AddItems; a larger quantity is a run of passes.       *)
Storage_AddItems(k, n, q) ==
  LET each == IF k \in Potions THEN q ELSE 1
  IN \E added \in 1..n :
       /\ ~Busy
       /\ added = Added(k, n, q)
       /\ FoldFunction(+, added * each, granted) =< MaxGranted
       /\ storing' = <<[Kind |-> k, Amount |-> added * each, Checked |-> TRUE]>>
       /\ granted' = [granted EXCEPT ![k] = @ + added * each]
       /\ UNCHANGED <<m_Storage, unchecked, m_StorageMax, carried, session, ClientItems,
                      transfers, client, there>>
-----------------------------------------------------------------------------
(* The client.  What it asks to move is settled when the server gets it.   *)

Commands == [cmd : {"stop", "add", "remove", "split"}, ID : Nat]

(* A click in the panel names an item by the ID the client knows.          *)
ClientCommand(cmd, id) ==
  /\ ~Busy /\ shown /\ Len(commands) < MaxCommands
  /\ cmd # "add" => id \in IDs(view)
  /\ commands' = Append(commands, [cmd |-> cmd, ID |-> id])
  /\ UNCHANGED <<store, m_StorageMax, carried, session, ClientItems, transfers, shown, view,
                 there, granted>>

(* CStoragePanel::Close.                                                   *)
ClosePanel ==
  /\ ~Busy /\ shown /\ Len(commands) < MaxCommands
  /\ shown' = FALSE /\ commands' = Closed(commands)
  /\ UNCHANGED <<store, m_StorageMax, carried, session, ClientItems, transfers, view,
                 there, granted>>

-----------------------------------------------------------------------------
(* The server's "storage" command.                                         *)

ReceiveStop ==
  /\ ~Busy /\ commands # <<>> /\ Head(commands).cmd = "stop"
  /\ Storage_End
  /\ commands' = Tail(commands)
  /\ UNCHANGED <<store, m_StorageMax, carried, transfers, shown, view, there, granted>>

(* "storage add": a stack or a part of it, one item, or one potion.        *)
Storage_AddItem ==
  \E k \in Kinds :
  \E amt \in CASE k \in Potions -> 1..PotionSize
              [] k \in Plains  -> {1}
              [] OTHER         -> 1..NUM_MAX_STACK :
    /\ amt =< carried[k] /\ Fits(k, amt)
    /\ storing' = <<[Kind |-> k, Amount |-> amt, Checked |-> TRUE]>>
    /\ carried' = [carried EXCEPT ![k] = @ - amt]

(* Storage_RemoveItem and Storage_RemoveSwigs: an item stays while         *)
(* something is left of it.                                                *)
Storage_RemoveItem(i, amt) ==
  LET it   == m_Storage[i]
      rest == IF it.Kind \in Potions THEN [it EXCEPT !.Quality = @ - amt]
                                      ELSE [it EXCEPT !.Quantity = @ - amt]
  IN IF amt < Units(it)
     THEN /\ m_Storage' = [m_Storage EXCEPT ![i] = rest]
          /\ Storage_SendItemUpdate(i)
     ELSE /\ m_Storage' = RemoveAt(m_Storage, i)
          /\ IF i =< ClientItems THEN Storage_ItemRemoveMsg(it.ID) ELSE UNCHANGED view

ClientItemsWithout(i, amt) ==
  IF amt < Units(m_Storage[i]) \/ i > ClientItems THEN ClientItems ELSE ClientItems - 1

(* What comes out: "a groupable item comes out as the whole stack. Anything *)
(* else comes out one at a time", a potion full if there is enough; a split *)
(* is of a stack.                                                          *)
Amounts(cmd, it) ==
  IF cmd = "split" THEN IF it.Kind \in Groupables THEN 1..it.Quantity ELSE {}
  ELSE CASE it.Kind \in Groupables -> {it.Quantity}
         [] it.Kind \in Plains     -> {1}
         [] it.Kind \in Potions    -> {AtMost(it.Quality, PotionSize)}

(* "storage remove" and "split", where GiveTo or PutInPack take the item:   *)
(* into hands closes the storage.                                          *)
Take(cmd, id, hands) ==
  \E i \in DOMAIN m_Storage : \E amt \in Amounts(cmd, m_Storage[i]) :
    /\ Found(m_Storage, id, i)
    /\ Storage_RemoveItem(i, amt)
    /\ carried' = [carried EXCEPT ![m_Storage[i].Kind] = @ + amt]
    /\ IF hands
       THEN Storage_Close(Tail(commands))
       ELSE /\ ClientItems' = ClientItemsWithout(i, amt)
            /\ commands' = Tail(commands)
            /\ UNCHANGED <<session, shown>>

(* Not Active, too many this frame, no such item, no room, or it does not  *)
(* fit: the command changes nothing but the count.                         *)
Refused ==
  /\ commands' = Tail(commands)
  /\ UNCHANGED <<m_Storage, carried, session, ClientItems, shown, view>>

ReceiveMove ==
  /\ ~Busy /\ commands # <<>> /\ Head(commands).cmd # "stop"
  /\ LET c == Head(commands)
         counts == Active /\ transfers < STORAGE_MAX_TRANSFER
     IN /\ transfers' = IF counts THEN transfers + 1 ELSE transfers
        /\ \/ Refused /\ UNCHANGED storing
           \/ /\ counts /\ c.cmd = "add" /\ Storage_AddItem
              /\ commands' = Tail(commands)
              /\ UNCHANGED <<m_Storage, session, ClientItems, shown, view>>
           \/ /\ counts /\ UNCHANGED storing
              /\ \/ c.cmd = "remove" /\ \E hands \in BOOLEAN : Take("remove", c.ID, hands)
                 \/ c.cmd = "split" /\ Take("split", c.ID, FALSE)
  /\ UNCHANGED <<unchecked, m_StorageMax, there, granted>>

-----------------------------------------------------------------------------
Init ==
  /\ m_Storage = <<>> /\ m_StorageMax = 0 /\ storing = <<>> /\ unchecked = 0
  /\ carried = Start
  /\ Active = FALSE /\ Teller \in Tellers /\ ClientItems = 0 /\ transfers = 0
  /\ shown = FALSE /\ view = <<>> /\ commands = <<>>
  /\ there = [t \in Tellers |-> "near"] /\ using = [t \in Tellers |-> 0]
  /\ granted = [k \in Kinds |-> 0]

Next ==
  \/ Validate \/ Store
  \/ \E t \in Tellers : Trade(t) \/ Walk(t)
  \/ PreThink \/ Rejoin
  \/ \E max \in 1..STORAGE_MAX_ITEMS : Storage_SetMax(max)
  \/ \E k \in Kinds, n \in 1..NUM_MAX_STACK, q \in 1..STORAGE_MAX_SWIGS : Storage_AddItems(k, n, q)
  \/ \E cmd \in {"remove", "split"}, id \in IDs(view) : ClientCommand(cmd, id)
  \/ ClientCommand("add", 0) \/ ClosePanel
  \/ ReceiveStop \/ ReceiveMove

Spec == Init /\ [][Next]_vars

(* The server's loops end and its frames go on.                            *)
FairSpec == Spec /\ WF_vars(Validate) /\ WF_vars(Store) /\ WF_vars(PreThink)

-----------------------------------------------------------------------------
(* Properties.                                                             *)

(* Every variable keeps its type; a stack stays within NUM_MAX_STACK, a    *)
(* stored potion within STORAGE_MAX_SWIGS.                                 *)
TypeOK ==
  /\ m_Storage \in Seq(Item) /\ m_StorageMax \in 0..STORAGE_MAX_ITEMS
  /\ storing \in Seq([Kind : Kinds, Amount : Nat \ {0}, Checked : BOOLEAN])
  /\ unchecked \in 0..Len(m_Storage)
  /\ carried \in [Kinds -> Nat]
  /\ Active \in BOOLEAN /\ Teller \in Tellers /\ using \in [Tellers -> Int]
  /\ ClientItems \in 0..Len(m_Storage) /\ transfers \in 0..STORAGE_MAX_TRANSFER
  /\ shown \in BOOLEAN /\ view \in Seq(Item) /\ commands \in Seq(Commands)
  /\ there \in [Tellers -> {"near", "away", "gone"}]
  /\ granted \in [Kinds -> Nat]

(* "Unique within the storage": a command cannot mean two items.           *)
UniqueIDs == \A i, j \in DOMAIN m_Storage : m_Storage[i].ID = m_Storage[j].ID => i = j

(* ClientItems is the "number of items in my storage that the client knows *)
(* about": while the storage is open, the client holds exactly the first   *)
(* ClientItems of it, in order and up to date.                             *)
ClientHoldsPrefix == Active => view = SubSeq(m_Storage, 1, ClientItems)

(* What is stored of each kind, what a loop has still to put included.     *)
UnitsOf(it, k)  == IF it.Kind = k THEN Units(it) ELSE 0
AmountOf(it, k) == IF it.Kind = k THEN it.Amount ELSE 0
Stored == [k \in Kinds |->
  Total([i \in DOMAIN m_Storage |-> UnitsOf(m_Storage[i], k)])
  + Total([i \in DOMAIN storing |-> AmountOf(storing[i], k)])]

Books == INSTANCE StorageLedger WITH stored <- Stored, told <- granted

(* Moving, stacking, splitting, closing and rejoining neither make nor lose *)
(* anything: the storage implements StorageLedger, in which units only     *)
(* change hands, or are added by a script, as many as it was told.         *)
KeepsTheBooks == Books!Spec

(* What the check lets in fits: no pass of adding takes the count over the *)
(* maximum, however the swigs or the stack come to lie.  (Storage_Validate *)
(* does not check, and refills a storage whose maximum was lowered.)       *)
WithinMax ==
  [][Store /\ Head(storing).Checked /\ Storage_ItemCount(m_Storage') > Storage_MaxItems
     => Storage_ItemCount(m_Storage') =< Storage_ItemCount(m_Storage)]_vars

(* "Calls cb_prefix_success now, and cb_prefix_done when the player is     *)
(* finished": a teller still there owes a _done for the open use, no other. *)
OneDonePerSuccess ==
  \A t \in Tellers : there[t] # "gone" =>
    using[t] = IF Active /\ Teller = t THEN 1 ELSE 0

(* "One message per frame": an item of an open storage comes into the      *)
(* client's view, whatever is moved meanwhile, or is taken, or the use ends. *)
ItemsGetShown ==
  \A id \in 0..STORAGE_MAX_ITEMS :
    Active /\ id \in IDs(m_Storage) ~> ~Active \/ id \notin IDs(m_Storage) \/ id \in IDs(view)
=============================================================================
