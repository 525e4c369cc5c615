# MasterSword: Rebirth, in TLA+

TLA+ models of the parts of the MasterSword: Rebirth game server whose
correctness lies in the order of things: the request manager behind the FuzzNet
(FN) character service, the character slots that use it, the vote of the players
that changes the map, the server's kick vote, parties, the spawners of monsters and
the bank. Paths without a
directory are below `src/src/game/server`.

The server is a Half-Life game library. One thread runs everything: the engine
calls `ClientPutInServer`, `ClientCommand`, `ClientDisconnect` and one frame
after the other; a map change runs `MSGameEnd`, then starts the library's objects
again with `MSGameInit`. Nothing is locked, so the hard behaviours are not
races. They are

- answers of a web service that arrive frames after the request, for a player who
  has disconnected, reconnected, or selected another slot by then;
- transfers that time out or that the backend serves after the game gave up;
- votes and membership lists that are compared or cleaned at moments other than
  those at which players come and go;
- lists that server and client both keep, while the commands that speak of them are
  under way;
- pointers, slot numbers and bits that outlive the player or object they meant.

## Components

| component | state it keeps | operations | interacts with | correct if |
|---|---|---|---|---|
| Request manager, `fn/RequestManager.cpp`, `fn/HTTPRequest.cpp` | vector of requests, their state, curl handles | QueueRequest, Think, Init, Shutdown | curl; `ResponseCallback` of the request classes | each request is owned once, answered at most once, eventually answered or dropped; nothing survives a shutdown |
| FN characters, `fn/FNSharedDefs.cpp`, `fn/*CharacterReq.cpp`, `client.cpp`, `player/player.cpp` | `m_CharInfo`, `m_CharacterState`, `m_CharacterNum`; the store | load, create, delete, save, select, map change | request manager, backend | a LOADING slot is always released; one answer per slot at a time; a save goes to the character it is of; the client sees the slots as they are |
| Area transitions, `msmapents.cpp` | votes per area, area per player | OnControls, DeathNotice, MSQuery, `accept` | players, game master script | the map changes exactly if everybody in the world agrees |
| Server vote, `gamerules/multiplay_gamerules.cpp` | `m_CurrentVote`, ban list | vote commands, UpdateVote | players, ban list | a majority decides, the accused is the one banned, a vote ends |
| Parties, `gamerules/team.cpp`, `player/player.cpp` | `CTeam::Teams`, member lists, pointers, the party in the save | joinparty, leaveparty, accept, restore, frame | characters (save and load) | pointers and lists agree, parties are distinct, members find their party again |
| Monster spawners, `msmapents.cpp` | per slot: lives left, spawned, address of its monster, timers | think, DeathNotice, ResetUse, triggers | monsters, game master (spawn limit), scripts | a living monster is tracked by its slot; what is fired at the end is fired at the end; waves of limited lives end |
| Bank storage, `player/player.cpp`, `client.cpp`, `monsters/npcscript.cpp`, `vgui_storage.cpp` | `m_Storage`, `m_CurrentStorage`; the client's copy | open, add, remove, split, stop, frame, validate, script grants | client panel, tellers' scripts | nothing is made or lost; the client's list is the server's; each `_success` gets one `_done` |
| Join and reset timers, `gamerules/multiplay_gamerules.cpp:194` | three timers | frame | slot states | the map is not reset under a player who is still loading |
| Items and stores, `player/playershared.cpp`, `store.cpp` | hands, worn, packs, gold | take, put, buy, sell | players | an item is in one place, money is kept |
| Script events, `shared/ms/script.cpp` | event queue per script | schedule, run | everything | an event runs once, at its time |
| AngelScript coroutines, events, pools, `shared/ms/angelscript` | suspended contexts, handler lists, pooled objects | suspend, resume, emit, release | scripts | no handler is called after it left, no object is released twice |
| Voice manager, `shared/voice_gamemgr.cpp` | masks | frame | clients | masks follow the game rules |
| Save format, local files, blocking validation, combat, effects, client library | | | | sequential, or no protocol |

`PROJECT.json` lists each of them with its files and, under `hazards`, what in this
code is hard to test, at its line, with the properties about it.

## Modules

    RequestLifecycle                what users may rely on: answered once or dropped
      ^ implemented by
    RequestManager  <- RequestManager_proofs,  MCRequestManager
    FNCharacters    <- FNCharacters_proofs,    MCFNCharacters
    AreaTransition  <- AreaTransition_proofs,  MCAreaTransition
    Vote            <- Vote_proofs,            MCVote
    Party           <- Party_proofs,           MCParty
    MonsterSpawn    <- MonsterSpawn_proofs,    MCMonsterSpawn
    StorageLedger                   what users may rely on: units change hands
      ^ implemented by
    Storage         <- Storage_proofs,         MCStorage
                       StorageBooks_proofs

Each handler of the game thread is one atomic action: the thread is not
interrupted. There are two exceptions. `RequestManager` opens `Think` up into the
iterations of its loops because their correctness is about erasing from a vector
while walking it; no other operation runs in between (`pc # "out"`). `Storage` takes
one step for each pass of the loops that stack and refill, which are about what is
not yet put; nothing else runs while `Busy`.
Operators named `X_Something` preceded by "Mutant of X" are faulty versions of `X`
that no specification uses; `PROJECT.json` says which property notices each.

**RequestManager** (`fn/RequestManager.cpp`, `fn/HTTPRequest.cpp`). `m_vRequests`, the
state and curl handle of each request, and the multi handle with its unread
completions. `ThinkBegin` .. `StartEnd` is pass 1, `Perform` is
`curl_multi_perform`, `Complete` the loop over the completions, `Reap*` pass 2.
`ShutdownBegin`, `DrainThink`, `AbortThink` and `ShutdownEnd` are `Shutdown`, which `Init`
calls on every map. `RequestLifecycle` is its abstraction; `Fate` maps a request to
what has become of it.

**FNCharacters**. `info` is `m_CharInfo` with what the client was last sent
(`shown`); `playing` is whose data the player entity holds; `home` and `body` are
the backend. `ClientPutInServer`, `CreateChar`, `DeleteCharacter`, `LoadCharacter` (the
selection of a loaded slot), `Save`, `ClientDisconnected`, `Think_SendCharData`, `MSGameEnd` and
`MSGameInit` are the handlers of these names. `Start` and `Reap` are a `Think` of the
manager, abstracted as that module's refinement allows: queued requests start,
one that has ended is answered (`Respond`). Between `MSGameEnd` and `MSGameInit`
(`phase = "changing"`) the queued saves wait; `MSGameInit` drains and aborts. The
backend (`BackendServes`, `BackendServesLate`) is external, inferred from the requests
and the codes they handle. It may serve in any order, refuse, stay silent,
or serve what the game has given up on.

**AreaTransition** (`msmapents.cpp:1617-1937`). `where` is the place a player stands,
`CurrentTransArea` what the game believes; `UpdateMiscPositions` aligns them every
1.5 seconds by `OnControls` and `DeathNotice`. `Accept` is the command, with
`MSQuery`. Areas that are locked or disabled ignore their events, as in the code.

**Vote** (`multiplay_gamerules.cpp`). `UpdateVote` runs before the players' own
frames, so a player who connects is counted (`hud`) only from a later frame
(`fresh`). A change of map (`ChangeMap`) makes a new rules object, without a vote, and
keeps the ban list. The target of a kick is a player; the code takes any edict that exists.

**Party** (`gamerules/team.cpp` and its users). `Addresses` are where a `CTeam` may be
allocated: a deleted party's address may be used again, and `m_pJoinTeam` is not
cleared. Empty parties live until the next frame (`Think`). `saved` is the party in
a character's record; its name is cut to 11 letters by `SavedName`.

**MonsterSpawn** (`msmapents.cpp:671-1365`). `data` is `mdSpawnMonster`; `kv` holds the key
values of the mapper, which never change, and with them what may go wrong around this
spawner (`Troubles`). `mob` says who lives or lies dead at each address: the spawner
knows a monster by `lPrivData` only. A `Think` is one pass of `SpawnMonsters`
over all slots, each with one of the outcomes its data allows (`Possible`);
`SpawnMonstersEnds` is its end, with `fireallperish`, whose target may lead back into
this spawner's `ResetUse` before `m_fActive` is cleared. `Killed` is the death of a monster
with its `DeathNotice`. Players and scripts change requirements (`Requirement`), the spawn limit
(`SpawnLimit`), revive and delete monsters.

**Storage**. `m_Storage` and the client's copy `view`; `ClientItems` of them have been sent,
`STORAGE_ITEMS_PER_MSG` a frame (`PreThink`). A message to the client arrives at once and
in order; what the client sends waits in `commands` and is judged by what the server holds when it
arrives. `ReceiveMove` is the `storage` command, `Trade` the opening by a script,
which closes a panel that is up, and that closing sends a `stop` (`Closed`). What the player carries is a
number of units per kind; whether hands or packs take an item is a
choice (`Refused`, `hands`). `StorageLedger` is its abstraction: `Stored` counts what is in the
list and what a loop has still to put.

## Runs

| run | shows | instance |
|---|---|---|
| `rm_manager` | ownership (`OwnedOnce`), curl's handles (`CurlHoldsExecuting`), complete passes (`NothingSkipped`), an empty manager after shutdown (`NothingSurvivesShutdown`), and `ShutdownReturns` with nothing assumed of the backend; the manager implements `RequestLifecycle`, safety (`AnsweredOrDroppedOnce`) and, if `BackendAnswers`, liveness (`EventuallyResolved`) | 4 requests, 2 drain steps |
| `fn_core` | the played character is the selected slot's (`PlayedCharIsTheSlots`), the store never holds one character's data under another's name (`StoreKeepsIdentity`), both unless the player connected again while an answer to his connection before was due (`overlapped`) | 1 player who may reconnect, 2 slots, 3 characters, 5 requests, no map change |
| `fn_reconnect` | no two requests will answer into one slot, with the same exception (`OneCallbackPerSlot`); only curl's refusing a request leaves a LOADING slot without one that will release it (`OnlyCurlStrands`), and otherwise it is released (`LoadingResolves`); what the client was not sent again is what it has (`ClientViewFresh`) | 2 players, one banned, reconnects, a manager that may not load, transfers curl may refuse, an unreadable character, 3 requests, 1 map change |
| `fn_lost_delete` | violated: `DeletedIsGone` | 1 player, 1 slot |
| `at_vote` | if nobody left the server since everybody gathered: only unanimous votes succeed (`CalmVoteIsUnanimous`), unless a spectator without a bit is alone, and unanimous votes do (`CalmUnanimityTravels`), if everyone in the world has a bit | 4 slots, one of them the ninth, 1 area and the rest of the map |
| `vote_rules` | a kick bans the accused or nobody (`BansTheAccused`), a vote succeeds only with a majority if nobody left (`SettledMajorityDecides`), a majority whose votes have bits prevails (`MajorityPrevails`), every vote ends (`VoteEnds`) | 3 slots, one of them the ninth, 3 people, 1 tick |
| `vote_leaver` | violated: `MajorityDecides` | 3 slots, 3 people |
| `party_members` | pointers and lists agree (`MembersAgree`), names and IDs are unique (`DistinctParties`), who left with a party is restored to it unless its name is taken (`RestoredToHisParty`), the leader stays (`LeaderStays`) | 2 players, 3 addresses, 3 IDs, 2 names saved alike |
| `party_reunion` | violated: `MembersReunite` | 3 players, names that fit |
| `spawn_waves` | a living monster's slot knows it (`LivingIsTracked`) and final targets fire last (`PerishIsFinal`), both but for monsters that `game_death` revived; they fire once (`FinalDeathOnce`); a spawner with limited lives comes to its end (`WavesEnd`) | 2 slots, 2 addresses, six spawners that meet no trouble and one that meets all |
| `spawn_limit` | violated: `DepletedGoesInactive` | 2 slots, a spawner that meets only the spawn limit |
| `storage_bank` | an ID means one item (`UniqueIDs`), the client has the first `ClientItems` of the storage (`ClientHoldsPrefix`) and is sent the rest (`ItemsGetShown`), an open use owes one `_done` (`OneDonePerSuccess`), no checked addition exceeds the maximum (`WithinMax`), the storage implements `StorageLedger` (`KeepsTheBooks`) | an arrow, a sword and a mana potion kind, limits of 2, 1 teller, 1 command under way |

### Bounds

- `MaxReqs`, `MaxJoins`, `MaxMaps` (FNCharacters): requests in a behaviour, connections
  per player and map, map changes. A conflict over a slot takes a load, one
  command and an answer of an earlier connection: three requests and two
  connections, which both runs have. `fn_core` has five requests, enough to create, select,
  delete, create again and save within a map; the proofs have them across maps.
  `FNCharacters` is also finite with larger values; `fn_reconnect` with four requests and one
  readable character takes over a million states without the liveness property.
- `DrainSteps`: `kDrainTimeoutMs / kStepMs`, 2 instead of 100; nothing depends on the
  number (the proofs have it as a constant).
- `Requests`: with four, the index can be before, at, between and after erased
  elements in either pass.
- `MaxTime`, `VoteTime`, `Pause` (Vote): ticks. The code compares with them only,
  so one tick before, at and after a limit suffices.
- `VoteBits`: 8, the bits of the byte a slot is shifted into. `at_vote` and `vote_rules`
  number their last slot 9, which has none.
- `at_vote`: with three slots that have bits, a leaver, a newcomer and a voter at once, and
  the ninth in whatever role. One area and `NoArea` show every relation of an area to the
  players; areas share only `disabled`. Its `VIEW` leaves out `bDidVote`, which decides nothing
  but whether a script is told of the vote once more.
- `vote_rules`: a majority of three that is not everybody, slots that change hands, a ninth
  who votes or is the accused. A vote starts at the first tick of a map and ends at the
  second, or at once with one player left, and others may follow it; more slots and more
  ticks are what the proofs have.
- Two slots and two addresses (MonsterSpawn): a slot's monster dies while the other's lives,
  and an address comes back to the other slot or to its own. `perished` counts
  to two, which is enough to see a second time; `fired` flips at every firing, so a firing
  whose chain resets the spawner in the same step is seen as well.
- Limits of 2 and one item per message (Storage): a full stack, a full storage, an
  item not yet sent, one left over after stacking. `MaxCommands` is the commands
  a client may have under way (an opening may add a stop), `MaxGranted` what scripts
  add in all. The proofs have any limits, and any number of commands.
- `Collisions` (Party): whether a drawn ID, of 31 random bits, may equal that of a
  party which only lives in saved records. TRUE in `party_members`, whose properties
  do not depend on it (nor do the proofs); FALSE in `party_reunion`, so that the
  violation is not such an accident.
- Two players in `party_members` and three addresses: a list is then emptied, led, joined
  and restored, and an address used again while another waits for deletion. What a third
  member adds, a place in the middle of a list, is covered by the proofs, which have
  any number of slots.
- Symmetry: guids (`fn_core`), and addresses and IDs (`party_*`), only where no constant
  singles one out and no liveness is checked. Slots are ordered in the code and
  are never permuted.

`CHECK_DEADLOCK FALSE` is in the `fn_*` runs, where with all requests and connections
used up and everybody gone the bounded model stops, and in the `spawn_*` runs: a spawner
that was stopped, or is done and may not be reset, has nothing left to do. Elsewhere
nothing may stop.

### Fairness

- `ThreadSpec` (RequestManager): weak fairness of the steps inside a Think or a
  Shutdown. The thread does not stop inside a function.
- `BackendAnswers` (RequestManager), the premise of `EventuallyResolved` only: also weak
  fairness of frames, since the engine calls `StartFrame` and `MSGameThink` for ever, and strong
  fairness of each transfer's end: `CURLOPT_TIMEOUT_MS` bounds it
  (`fn/HTTPRequest.cpp:104`) as long as `curl_multi_perform` is called. Strong,
  because a transfer can end only in the middle of a Think. `ShutdownReturns` does
  without.
- `FairSpec` (FNCharacters): weak fairness of `Reap(id)`, of one request each, for
  both reasons above, and of `MSGameInit`, as the engine finishes a map change. The
  backend, the players and later requests are not assumed to do anything.
- `FairSpec` (Vote): frames go on and time with them.
- `FairSpec` (MonsterSpawn): the engine runs the thinks and time passes; the game, for the
  question whether waves end, kills monsters, fades bodies, triggers templates and lifts
  a limit it reached. Strong fairness that some monster is made
  (`SomeoneSpawns`): one think may find no free address, or lose the draw of
  `spawnchance`, but not for ever.
- `FairSpec` (Storage): the loops of the server end and its frames go on. Nothing is
  assumed of the player.

## Proofs

`tlapm` checks every proof with SMT, Zenon and LS4. Each theorem is about every
value of the constants that satisfies the named assumptions.

**RequestManager_proofs**: `TypeCorrect`, `Ownership`, `CurlHandles`, `PassesComplete`,
`ShutdownEmpties` and `Refinement`, the last being that the manager implements
`RequestLifecycle`. `OwnedOnce` and `CurlHoldsExecuting` are almost inductive; `NothingSkipped`
is not: that nothing queued is left after pass 1 needs that everything *behind* the
index has been dealt with, at each place of the walk. `IInv` adds that, and that no
completion is left outside the loop that reads them. The lemmas `Without*` say what
erasing keeps of a sequence without duplicates. For the refinement, each action
moves at most one request's `Fate`, along `RequestLifecycle`; `IInv` gives that a
request is answered only while it is executing and unanswered.

**FNCharacters_proofs**: no theorem assumes anything of reconnects, refusals or failures.
`TypeCorrect` and `ClientViewCorrect` rest on `IInv`, type correctness with: while the map
changes nobody is online (`ChangingIsEmpty`); requests exist only while the manager is loaded
(`PendingNeedsManager`); a pending delete remembers LOADED or NOTFOUND, so an error releases the
slot (`DeletesRestore`); and `SlotsSound`: a slot is fresh while its player is away or no
manager is loaded, otherwise not UNLOADED, and if its cached status is its status the client
has its view. `NoStuckSlot` (`OnlyCurlStrands`) shows step by step that what takes a slot's last
callback away releases the slot, refused queueings included; the one step left is the
first pass of `Think` deleting a request that curl refuses.

`OneCallback` rests on `LInv`: for a player whose connections never overlapped, a request that
will answer is of his present connection and the slot it answers into reads LOADING
(`AnswerLocks`), so no command puts a second one there. `overlapped` remembers who connected
again in a map while an answer was due: for him the lock is not promised, and without
the exception TLC finds behaviours in which a create and such an answer cross and one
character is saved as another. How far that goes is `PlayersStayApart`, without any
exception: every guid and every piece of data in a slot, a request, a player and the store
belongs to its player (`OInv`), so a character can be lost to another of the same player, never
to another player's. `PlayedIsTheSlots` and `SavesKeepIdentity` add `DInv`: a slot
holds the data its guid names, an answer and a save carry the data of their guid, and a
delete that may still fail leaves a slot it can bring back. Both are about any
`Unreadable`: if every character can be read the data is the guid's own, which is
what `fn_core` checks, otherwise it may be a stripped player's (`Own`), because a player
whose character could not be restored has nothing, and can be saved so.

**AreaTransition_proofs**: `TypeCorrect`, `VoteIsUnanimous` and `UnanimousVoteTravels`.
`PlayerVotes`
is a set of bits and the property speaks of what players said; `SaidInside`, `BitsAreSaid`,
`SaidAreBits` and `BitsAreActive` connect the two, each under the absence of a leaver
(`deserted`) or of a spectator's accept (`outsiders`) it needs. Slots may be any numbers, also
above `VoteBits`: what a missing bit spoils is in the properties, `NinthAlone` in the one, a
world with a ninth in the other.

**Party_proofs**: `TypeCorrect`, `MembersAlwaysAgree`, `PartiesDistinct`, `Restored` and
`LeaderKept`: every property of `party_members`. `WithoutMembers` and `AppendMembers` say what
erasing and appending do to a list without duplicates; `SetTeamMembers` puts them
together for `SetTeam`. To the properties `IInv` adds that whoever is in a party is on
the server (`MembersAreHere`), so that `ValidateUnits` erases nobody, and that the ID in a
record is that of the party the player left (`RecordsAgree`), without which nothing
could be said of what a load restores. They assume only that the null values are no
values and that slots are numbers.

**Vote_proofs**: `TypeCorrect`, `OnlyTheAccused` (`BansTheAccused`), `MajorityUnlessLeft`
(`SettledMajorityDecides`) and `MajorityBans` (`MajorityPrevails`). A kick is of the accused because a kick vote keeps the
SteamID it was called with (`AccusedIsTarget`), whoever is in the slot by then.
The majority needs that the bits counted are of players who said yes and,
unless somebody left, are still there, and that no yes that has a bit is lost
(`TallyIsHonest`). Slots may be any numbers here too.

**MonsterSpawn_proofs**: `TypeCorrect`, `LivingTracked`, `PerishesLast` and `PerishesOnce`.
`LivingIsTracked` is inductive with the types: a death takes a slot with the dead
monster's address, and the living monster of any other slot has another address. `fireallperish`
and a `perishtarget` are fired only for slots that are not spawned, which
therefore have nobody alive whose death was not noticed. Monsters that `game_death` revived
(`Revenants`) are the exception of both: they live, and their slot counts them as dead. `PerishesOnce` (`FinalDeathOnce`) needs `FInv`: as long as the dead
stay dead and the allocator gives no slot an address another one holds, the slots'
addresses differ (`Apart`), and a slot that has perished has no lives, no monster and the
address of a dead one, until a reset gives it lives (`Ended`).

**Storage_proofs**: `TypeCorrect`, `IDsStayUnique`, `ClientKnowsPrefix` and `DoneMatchesSuccess`.
`NewIDIsFree` is a pigeonhole argument: `Len(s)` items cannot hold all of `0..Len(s)`. The
invariant (`Ind`, in two halves: what is stored and what is known of the use)
adds that while `Storage_Validate` runs the storage is closed, that a closed one has sent
nothing, that a stored potion is one potion with swigs, and that what is to be put of
any other kind fits one stack, without which `Item` would not be closed under the
loops.

**StorageBooks_proofs**: `BooksAreKept` (`KeepsTheBooks`, the refinement of `StorageLedger`) and
`AddsStayWithinMax` (`WithinMax`), both about sums over lists of any length. The library's
induction theorems take an operator, which the provers cannot instantiate. Here a set takes
the operator's place: `LeastNatural` (every set of naturals has a least element) comes
from the well-foundedness of proper inclusion among finite sets, and `UpTo` is induction for
a given set. `Total` is a recursive function that exists by `UpTo`; lemmas say what it does
when a list is appended to, shortened or changed in one place, and the `Weigh` lemmas
lift them to lists of items. With them:

- `BooksAreKept`: each pass takes from `storing` or `unchecked` what it puts into `m_Storage`
  (`PutBooks`, `StackOnBooks`, `NewItemBooks`), a removal gives the hands what the item
  loses (`RemoveItemBooks`), a rejoin sets aside all that is stored (`RejoinBooks`), and a
  script is told exactly what goes in. Each step of Storage is thus one of `StorageLedger` or a
  stutter, over the invariant `Ind` of Storage_proofs.
- `AddsStayWithinMax`: `Fits` is asked once and the loop then runs for many passes, so
  `WithinMax` is not inductive. `CheckedFits` is: what was checked is alone in `storing`, nobody
  validates, and what is *left* of it still fits by the same three rules. For potions
  that is a trade: a pass that refills a bottle costs as much room as it stores, and one that
  starts a bottle costs a place (`EnlargedRoom`, `StackingFits`, `NewFits`).

Only model-checked: all liveness (`EventuallyResolved`, `ShutdownReturns`, `LoadingResolves`,
`VoteEnds`, `WavesEnd`, `ItemsGetShown`), which is out of the prover's reach. Every other
property of a passing run is stated by a theorem.

## Disagreements of code and text

The violated runs each contradict a sentence of the repository:

- `fn_lost_delete`: a delete that ends in a CURL error (code 0) passes for a success
  because only codes of 400 and more are failures (`fn/DeleteCharacterReq.cpp:26`);
  the slot is shown empty and the character is in the store.
- `vote_leaver`: `UpdateVote` counts the votes of players who have left among
  the players who are present (`multiplay_gamerules.cpp:2291`).
- `party_reunion`: a restore whose name is taken is not retried, so members of one
  party end up apart (`gamerules/team.cpp:36`).
- `spawn_limit`: a think that meets the spawn limit returns before it sets the next one
  (`msmapents.cpp:1131`), so a spawner whose monsters then die stays active for ever,
  against the comment at line 738, "Set to false when ALL monsters run out of lives."

Behaviours that the models contain and the checked properties exclude by a
condition, for whoever changes this code:

- A request that curl refuses in pass 1 is deleted without a callback
  (`fn/RequestManager.cpp:78`) and its slot stays LOADING: the exception in
  `OnlyCurlStrands` and `LoadingResolves`.
- A restore that fails leaves `CHARSTATE_LOADING` and a player without items, and
  saving is refused in `CHARSTATE_UNLOADED` only (`fn/FNSharedDefs.cpp:239`), so a blank
  character can be saved (`Unreadable`, `Blank`).
- A failed delete writes the status of an earlier connection into the slot of the
  present one (`fn/DeleteCharacterReq.cpp:32`).
- A player who reconnects in a map gets the answers of his earlier connection into the
  new slots; together with a lost delete and a create, one of his characters can be saved as
  another (`fn/LoadCharacterReq.cpp:22`; the exception `overlapped`).
- The load of a banned player is never resolved; he is kicked.
- Votes in an area are compared only after a new one (`msmapents.cpp:1867`): if the last
  player who had not voted leaves the server, nobody compares any more (`deserted`).
- A vote in an area is not withdrawn when its player walks away; it counts again
  if the others gather by somebody's leaving the server (`deserted`).
- A player in the ninth slot or above has no bit in `PlayerBits` and `PlayerBit`: with
  him in the world no travel vote succeeds, and his yes is not counted, so a majority
  that needs it fails; as a spectator in an area with nobody in the world his accept makes
  nothing equal to nothing, and the map changes (`NinthAlone`).
- A spectator's accept in an area sets a bit that is not in `AllVotes` (`outsiders`).
- `m_pJoinTeam` is kept when its party is deleted and when its player founds another:
  the leader of a party made at the same address may let in somebody
  who did not ask him, and a member of one party may be taken into another.
- `SetTeam` with the player's own party moves him to the end of its list.
- A monster that a script deletes (`shared/ms/scriptcmds.cpp:2967`) leaves its slot spawned for
  ever. A death under the spawn limit fires no perishtarget
  (`msmapents.cpp:938`) and starts no respawn delay.
- A slot that misses its `reqhp` gets a `spawnchance` of -1, which nothing takes back.
- A monster whose address equals an old one's is counted for the first slot that
  remembers the address (`Troubles`). A monster revived by its `game_death` has been counted as
  dead: its slot may spawn another beside it, the final targets fire while it lives, and when
  it dies again its `perishtarget` may fire again.
- A 33rd template is written behind the array of 32 (`msmapents.cpp:1107`).
- An opening of the bank while its panel is up makes the panel send `storage stop`, which
  then ends the use just opened.
- IDs of stored items are used again at once, so a late command may take another item than the
  one clicked.
- A `_done` callback that opens the storage again does so inside `Storage_Open`.
- `Storage_Validate` does not look at the maximum: a storage whose maximum was
  lowered is refilled above it on the next join. It counts a stored potion by its swigs, so
  one without any vanishes.
- A save of a map change waits in the queue for the next map's `Init` (`svglobals.cpp:534`): an
  engine that exits between the two loses it. `ms_central_enabled` is read once per map
  (`svglobals.cpp:515`): turned off, it leaves the last map's manager loaded and nobody to drain it.
- Two saves of one player may be under way on two connections and be served in either order
  (`fn/RequestManager.cpp:43`).

## Not modelled

Inside the modelled components: characters in local files (`ms_central_enabled` 0,
or turned off while the server runs), the parsing of 64-bit IDs, the
intermission after `g_fGameOver`, the time between automatic saves, `JoinType`, the
blocking validation requests at map start, the age of a save (two saves of one
character may be served in either order, and the code promises none), `EnableControl`
after a travel vote, script events, a kick target that is no player, refusals
of a save in developer mode or below 15 hit points; random lists of monsters, what a script
does inside a monster's own `Spawn`; the count of moved items the panel shows, stored
items whose script no longer exists; a slot number of the client's that is none, and a
carried stack above `NUM_MAX_STACK`, neither of which the code checks. In `Party` a slot is always used
by the same person, and a load returns the last save; `FNCharacters` has what
happens otherwise.

The other components of the table above are listed with their reasons in `PROJECT.json`.
Nearest to the models: where an item is. Reading it for `Storage` showed four
places a model of hands and packs should cover: a pack that is full takes
a groupable it cannot absorb (`shared/weapons/gipack.cpp:243-290`); `GiveTo` removes
an item from its owner before an `AddItem` that may fail
(`shared/weapons/genericitem.cpp:863-928`); a purchase takes the gold whether or not `GiveTo`
succeeds (`player/player.cpp`); a split of a stack ignores that result (`client.cpp`).

## Plan

Done, in this order, the most important first: RequestManager with its
abstraction, FNCharacters, AreaTransition, Vote, Party, MonsterSpawn, Storage with its
abstraction, and proofs for all of them.

Next, models:

1. `Items`: hands, worn and packs as one location per item; stores with gold. The
   abstract specification "every item is in one place, gold is conserved", of which
   `StorageLedger` is the part for the bank.
2. `MapTimers`, composed with FNCharacters: the timers of `multiplay_gamerules.cpp:194-258`
   over the slots' status. Property: no reset while a slot is LOADING, and
   eventually one when nobody can play.
3. `ScriptEvents`, then the coroutine manager, event manager and object pool: handlers
   that unregister or schedule while they are called.
4. The voice masks.

Next, proofs: the safety of the modules above.
