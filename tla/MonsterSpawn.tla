----------------------------- MODULE MonsterSpawn -----------------------------
(***************************************************************************)
(* CAreaMonsterSpawn, the entity that spawns the monsters of an area       *)
(* (src/src/game/server/msmapents.cpp), with the monsters it makes.        *)
(*                                                                         *)
(* The spawner knows a monster only by the address it had when it was      *)
(* made: lPrivData is compared with the dying monster's and never cleared. *)
(* Addresses are those the allocator hands out, so one may come back.      *)
(*                                                                         *)
(* The server is single threaded: each handler is one step.  A FireTargets *)
(* runs the targets before it returns; the one that may lead back into     *)
(* this entity while it is half way, fireallperish, does so when kv.loops. *)
(***************************************************************************)
EXTENDS Integers, FiniteSets

CONSTANTS
  NSlots,       \* iMonstersToSpawn
  Addresses,    \* addresses a monster can be allocated at
  NoAddress,    \* lPrivData of a slot that never spawned
  KeyValues     \* the key values the mapper may have given, see KeyValue

Slots == 1 .. NSlots

(* The spawn limit is reached; scripts delete monsters; the dead get their *)
(* life back; requirements cease to be met, or begin to; a monster is made *)
(* at an address that another slot still holds.                            *)
Troubles == {"limit", "delete", "revive", "needs", "reuse"}

(* What the mapper chose.  lives: -1 is unlimited; needs: whether a slot   *)
(* asks for players, for hit points, for the one a random list asks for,   *)
(* or for nothing; misses: spawnchance is below 100; loops: the            *)
(* fireallperish target leads back to this spawner's ResetUse.  calm: the  *)
(* spawn limit is off, scripts neither delete nor revive monsters, the     *)
(* requirements stay as they are and no address is handed out again that  *)
(* another slot holds.                                                     *)
KeyValueType ==
  [lives : [Slots -> {-1} \cup (Nat \ {0})], onTrigger : [Slots -> BOOLEAN],
   needs : [Slots -> {"none", "nplayers", "reqhp"}],
   resetwhen : 0 .. 2, spawnstart : BOOLEAN, misses : BOOLEAN,
   loops : BOOLEAN, may : SUBSET Troubles]

ASSUME SpawnAssumption ==
  /\ NSlots \in Nat \ {0}
  /\ NoAddress \notin Addresses
  /\ KeyValues \subseteq KeyValueType

VARIABLES
  kv,             \* the key values, fixed when the map loads
  data,           \* mdSpawnMonster
  m_fActive,
  didfirstspawn,
  thinks,         \* pev->nextthink is set
  limited,        \* SpawnLimitReached()
  met,            \* slots whose requirement is met now
  mob,            \* who lives, or lies dead, at each address
  fired,          \* history: flips whenever fireallperish fires
  perished        \* history: firings of each perishtarget since the reset, up to 2

vars == <<kv, data, m_fActive, didfirstspawn, thinks, limited, met, mob, fired, perished>>

Nobody == [life |-> "free", slot |-> 0]

Up(n) == IF n < 2 THEN n + 1 ELSE n

-----------------------------------------------------------------------------
(* Activate of every slot, then Spawn of the area.                         *)
Init ==
  /\ kv \in KeyValues
  /\ data = [i \in Slots |-> [livesleft |-> kv.lives[i], spawned |-> FALSE,
                              triggered |-> FALSE, delayed |-> FALSE,
                              never |-> FALSE, lPrivData |-> NoAddress]]
  /\ m_fActive = ~kv.spawnstart
  /\ didfirstspawn = FALSE
  /\ thinks = ~kv.spawnstart
  /\ limited = FALSE
  /\ met \in SUBSET {i \in Slots : kv.needs[i] # "none"}
  /\ mob = [a \in Addresses |-> Nobody]
  /\ fired = FALSE
  /\ perished = [i \in Slots |-> 0]

OutOfLives(i, d) == kv.lives[i] > 0 /\ d.livesleft <= 0

(* RespawnMonster on the slot's data d: a monster with lives left waits    *)
(* for its respawn delay.  The spawn limit turns it into nothing.          *)
RespawnMonster(i, d) ==
  IF ~d.spawned /\ ~limited /\ (kv.lives[i] = -1 \/ d.livesleft > 0)
  THEN [d EXCEPT !.delayed = TRUE] ELSE d

(* Mutant of FiresPerish: fired at every death.                            *)
FiresPerish_AnyDeath(i, d) == ~d.spawned /\ ~limited /\ kv.lives[i] > 0

(* ... and fires the perishtarget when it has none.                        *)
FiresPerish(i, d) == ~d.spawned /\ ~limited /\ OutOfLives(i, d)

(* Whether ResetUse restores slot i's lives, and the slot after it did.    *)
Resets(i, d) ==
  kv.resetwhen = 1 /\ didfirstspawn => d.livesleft = 0 /\ ~d.spawned

NewWave(d) == [d EXCEPT !.spawned = @ /\ ~(kv.resetwhen = 2 /\ didfirstspawn)]

Reset(d) ==
  [i \in Slots |-> IF Resets(i, d[i])
                   THEN [NewWave(d[i]) EXCEPT !.livesleft = kv.lives[i], !.delayed = FALSE]
                   ELSE d[i]]

ResetPerished(d) == [i \in Slots |-> IF Resets(i, d[i]) THEN 0 ELSE perished[i]]

(* ResetUse: the spawner is triggered.                                     *)
ResetUse ==
  /\ m_fActive => kv.resetwhen # 0
  /\ data' = Reset(data)
  /\ perished' = ResetPerished(data)
  /\ didfirstspawn' = TRUE /\ m_fActive' = TRUE /\ thinks' = TRUE
  /\ UNCHANGED <<kv, limited, met, mob, fired>>

(* MSQuery: the spawn-on-trigger template of slot i is triggered.          *)
MSQuery(i) ==
  /\ kv.onTrigger[i]
  /\ data' = [data EXCEPT ![i].triggered = TRUE, ![i].delayed = FALSE]
  /\ UNCHANGED <<kv, m_fActive, didfirstspawn, thinks, limited, met, mob, fired, perished>>

(* CTrigStopMonsterSpawn::Use on this area.                                *)
StopSpawn ==
  /\ m_fActive' = FALSE /\ thinks' = FALSE
  /\ UNCHANGED <<kv, data, didfirstspawn, limited, met, mob, fired, perished>>

-----------------------------------------------------------------------------
(* SpawnMonsters, the spawner's think.                                     *)

Unmet(i) == kv.needs[i] # "none" /\ i \notin met

(* It must be triggered the first time.                                    *)
Held(i) ==
  /\ kv.onTrigger[i] /\ ~data[i].triggered
  /\ kv.lives[i] = data[i].livesleft

(* Not spawned, with lives left.                                           *)
Due(i) == ~data[i].spawned /\ ~OutOfLives(i, data[i])

Ready(i) == Due(i) /\ ~Unmet(i) /\ ~Held(i) /\ ~data[i].delayed

(* Mutant of Dead: a slot whose last monster is out counts as dead.        *)
Dead_LivesOnly(i) == OutOfLives(i, data[i]) \/ (~data[i].spawned /\ Unmet(i))

(* The slots SpawnMonsters counts in iDeadMonsters.                        *)
Dead(i) == ~data[i].spawned /\ (OutOfLives(i, data[i]) \/ Unmet(i))

(* What the loop makes of slot i.  "later" is a monster that cannot be     *)
(* made, or that waits for the 0.2 s between two monsters of a spawnstart  *)
(* spawner; "missed" is the spawnchance.                                   *)
Outcome == {"busy", "dead", "waits", "spawn", "later", "missed"}

Possible(i, out) ==
  \/ out = "busy" /\ data[i].spawned
  \/ out = "dead" /\ Dead(i)
  \/ out = "waits" /\ Due(i) /\ ~Unmet(i) /\ (Held(i) \/ data[i].delayed)
  \/ out \in {"spawn", "later"} /\ Ready(i) /\ ~data[i].never
  \/ out = "missed" /\ Ready(i) /\ (data[i].never \/ kv.misses)

(* Where the allocator may put slot i's monster.                           *)
Fresh(i) == {a \in Addresses :
  /\ mob[a].life = "free"
  /\ "reuse" \notin kv.may => \A j \in Slots \ {i} : data[j].lPrivData # a}

(* Mutants of Visited: the monster's address is not noted; unlimited lives *)
(* are counted too.                                                        *)
Visited_NoAddress(i, out, at) ==
  IF out = "spawn"
  THEN [data[i] EXCEPT !.spawned = TRUE, !.triggered = FALSE, !.livesleft = @ - 1]
  ELSE data[i]

Visited_CountsAll(i, out, at) ==
  IF out = "spawn"
  THEN [data[i] EXCEPT !.lPrivData = at[i], !.spawned = TRUE, !.livesleft = @ - 1]
  ELSE data[i]

(* Slot i after the loop body; at is where its monster was allocated.  A   *)
(* slot that misses its reqhp gets a spawnchance of -1.                    *)
Visited(i, out, at) ==
  LET d == data[i]
  IN  CASE out = "spawn" ->
             [d EXCEPT !.lPrivData = at[i], !.spawned = TRUE, !.triggered = FALSE,
                       !.livesleft = IF kv.lives[i] > 0 THEN @ - 1 ELSE @]
        [] out = "missed" -> RespawnMonster(i, d)
        [] out = "dead" -> [d EXCEPT !.never = @ \/ (kv.needs[i] = "reqhp" /\ Due(i))]
        [] OTHER -> d

(* With the limit reached the think returns at once, and nothing sets      *)
(* nextthink again.                                                        *)
ThinkLimited ==
  /\ thinks /\ limited
  /\ thinks' = FALSE
  /\ UNCHANGED <<kv, data, m_fActive, didfirstspawn, limited, met, mob, fired, perished>>

(* Mutant of SpawnMonstersEnds: nextthink is set only while no slot is     *)
(* counted as dead.                                                        *)
SpawnMonstersEnds_StopsEarly(now, allDead) ==
  /\ data' = now
  /\ thinks' = \A i \in Slots : now[i].livesleft # 0
  /\ m_fActive' = (m_fActive /\ ~allDead)
  /\ UNCHANGED <<perished, fired, didfirstspawn>>

(* The loop has filled the slots' data to now; allDead: each was counted.  *)
(* A chain that comes back meets m_fActive still set: it is refused with   *)
(* resetwhen 0, and otherwise resets what m_fActive = false then disables. *)
SpawnMonstersEnds(now, allDead) ==
  LET fires == allDead /\ m_fActive
      again == fires /\ kv.loops /\ kv.resetwhen # 0
  IN  /\ data' = IF again THEN Reset(now) ELSE now
      /\ perished' = IF again THEN ResetPerished(now) ELSE perished
      /\ fired' = IF fires THEN ~fired ELSE fired
      /\ didfirstspawn' = (didfirstspawn \/ again)
      /\ m_fActive' = (m_fActive /\ ~fires)
      /\ thinks' = (~fires \/ again)

Made(out) == {i \in Slots : out[i] = "spawn"}

SpawnMonsters(out, at) ==
  /\ thinks /\ ~limited
  /\ \A i \in Made(out) : at[i] \in Fresh(i)
  /\ \A i, j \in Made(out) : at[i] = at[j] => i = j
  /\ kv.spawnstart => Cardinality(Made(out)) <= 1
  /\ mob' = [a \in Addresses |->
               IF \E i \in Made(out) : at[i] = a
               THEN [life |-> "alive", slot |-> CHOOSE i \in Made(out) : at[i] = a]
               ELSE mob[a]]
  /\ SpawnMonstersEnds([i \in Slots |-> Visited(i, out[i], at)],
                       \A i \in Slots : out[i] = "dead")
  /\ UNCHANGED <<kv, limited, met>>

Think ==
  \/ ThinkLimited
  \/ \E out \in {o \in [Slots -> Outcome] : \A i \in Slots : Possible(i, o[i])} :
       \E at \in [Made(out) -> Addresses] : SpawnMonsters(out, at)

(* delayvalue has passed since deathtime.                                  *)
Elapse(i) ==
  /\ data[i].delayed
  /\ data' = [data EXCEPT ![i].delayed = FALSE]
  /\ UNCHANGED <<kv, m_fActive, didfirstspawn, thinks, limited, met, mob, fired, perished>>

-----------------------------------------------------------------------------
(* The monsters.                                                           *)

(* DeathNotice: the first slot with the dying monster's address loses it.  *)
DeathNotice(a) ==
  LET mine == {i \in Slots : data[i].lPrivData = a}
      d(i) == [data[i] EXCEPT !.spawned = FALSE]
  IN  \/ mine = {} /\ UNCHANGED <<data, perished>>
      \/ \E i \in mine :
           /\ \A j \in mine : i <= j
           /\ data' = [data EXCEPT ![i] = RespawnMonster(i, d(i))]
           /\ perished' = IF FiresPerish(i, d(i))
                          THEN [perished EXCEPT ![i] = Up(@)] ELSE perished

(* CMSMonster::Killed tells the owner, the spawner.                        *)
Killed(a) ==
  /\ mob[a].life \in {"alive", "revived"}
  /\ mob' = [mob EXCEPT ![a].life = "corpse"]
  /\ DeathNotice(a)
  /\ UNCHANGED <<kv, m_fActive, didfirstspawn, thinks, limited, met, fired>>

(* game_death may give the dead monster its life back (skeletons do).      *)
Revived(a) ==
  /\ "revive" \in kv.may
  /\ mob[a].life = "corpse"
  /\ mob' = [mob EXCEPT ![a].life = "revived"]
  /\ UNCHANGED <<kv, data, m_fActive, didfirstspawn, thinks, limited, met, fired, perished>>

(* The body fades and its memory is given back.                            *)
Faded(a) ==
  /\ mob[a].life = "corpse"
  /\ mob' = [mob EXCEPT ![a] = Nobody]
  /\ UNCHANGED <<kv, data, m_fActive, didfirstspawn, thinks, limited, met, fired, perished>>

(* deleteent and deleteme of a script: removed, nobody is told.            *)
DeleteEntity(a) ==
  /\ "delete" \in kv.may
  /\ mob[a].life \in {"alive", "revived"}
  /\ mob' = [mob EXCEPT ![a] = Nobody]
  /\ UNCHANGED <<kv, data, m_fActive, didfirstspawn, thinks, limited, met, fired, perished>>

-----------------------------------------------------------------------------
(* What the rest of the game decides.                                      *)

(* The game master's scripts move GM_SPAWN_COUNT past GM_SPAWN_LIMIT and   *)
(* back.                                                                   *)
SpawnLimit ==
  /\ "limit" \in kv.may
  /\ limited' = ~limited
  /\ UNCHANGED <<kv, data, m_fActive, didfirstspawn, thinks, met, mob, fired, perished>>

(* Players come, go, and gain hit points.                                  *)
Requirement(i) ==
  /\ "needs" \in kv.may
  /\ kv.needs[i] # "none"
  /\ met' = IF i \in met THEN met \ {i} ELSE met \cup {i}
  /\ UNCHANGED <<kv, data, m_fActive, didfirstspawn, thinks, limited, mob, fired, perished>>

Next ==
  \/ ResetUse \/ StopSpawn \/ Think \/ SpawnLimit
  \/ \E i \in Slots : MSQuery(i) \/ Elapse(i) \/ Requirement(i)
  \/ \E a \in Addresses : Killed(a) \/ Revived(a) \/ Faded(a) \/ DeleteEntity(a)

Spec == Init /\ [][Next]_vars

(* A monster is made, which needs a free address and luck in the draw:     *)
(* never promised by one think, and not refused for ever.                  *)
SomeoneSpawns == Think /\ \E i \in Slots : ~data[i].spawned /\ data'[i].spawned

(* The engine runs thinks and time passes; the game kills monsters, fades  *)
(* bodies, triggers templates and lifts a limit it reached.                *)
FairSpec ==
  /\ Spec
  /\ WF_vars(Think) /\ SF_vars(SomeoneSpawns)
  /\ WF_vars(\E i \in Slots : Elapse(i))
  /\ WF_vars(\E i \in Slots : Held(i) /\ MSQuery(i))
  /\ WF_vars(\E a \in Addresses : Killed(a))
  /\ WF_vars(\E a \in Addresses : Faded(a))
  /\ WF_vars(limited /\ SpawnLimit)

-----------------------------------------------------------------------------
(* Properties.                                                             *)

SlotType ==
  [livesleft : {-1} \cup Nat, spawned : BOOLEAN, triggered : BOOLEAN,
   delayed : BOOLEAN, never : BOOLEAN, lPrivData : Addresses \cup {NoAddress}]

(* Every variable keeps its type.                                          *)
TypeOK ==
  /\ kv \in KeyValues
  /\ data \in [Slots -> SlotType]
  /\ m_fActive \in BOOLEAN /\ didfirstspawn \in BOOLEAN
  /\ thinks \in BOOLEAN /\ limited \in BOOLEAN
  /\ met \subseteq Slots
  /\ mob \in [Addresses -> [life : {"free", "alive", "revived", "corpse"},
                             slot : 0 .. NSlots]]
  /\ fired \in BOOLEAN
  /\ perished \in [Slots -> 0 .. 2]

Alive(i) == {a \in Addresses : mob[a].life \in {"alive", "revived"} /\ mob[a].slot = i}

(* The living to whom game_death has given their life back: the spawner    *)
(* has noticed their death and counts them as dead.                        *)
Revenants == {a \in Addresses : mob[a].life = "revived"}

(* However bodies fade and addresses come back, a slot whose monster lives *)
(* holds its address and is marked spawned, so no slot has two living      *)
(* monsters, but for those that game_death revived: their slot fills again *)
(* while they live.  (resetwhen 2 gives up living monsters, by design.)    *)
LivingIsTracked ==
  kv.resetwhen # 2 =>
    \A i \in Slots : \A a \in Alive(i) \ Revenants :
      data[i].spawned /\ data[i].lPrivData = a

(* fireallperish fires when no monster of the spawner lives, and a         *)
(* perishtarget ("Trigger on Final Death") when no monster of its slot     *)
(* does and its lives are used up, but for monsters that game_death        *)
(* revived, which may live on.  A chain that resets the spawner as it      *)
(* fires is no exception.                                                  *)
PerishIsFinal ==
  [][kv.resetwhen # 2 =>
       /\ fired' # fired => \A i \in Slots : Alive(i) \subseteq Revenants
       /\ \A i \in Slots : perished'[i] > perished[i] =>
            Alive(i)' \subseteq Revenants' /\ OutOfLives(i, data[i])]_vars

(* Between two resets a perishtarget fires at most once, unless the dead   *)
(* come back or a slot takes the death of another slot's monster for its   *)
(* own.                                                                    *)
FinalDeathOnce ==
  kv.may \cap {"revive", "reuse"} = {} => \A i \in Slots : perished[i] <= 1

(* With limited lives and reset only when all have perished, an active     *)
(* spawner comes to its end, whatever its chances, triggers and delays, if *)
(* no monster is deleted, no think meets the limit, no requirement changes *)
(* and no address is reused.                                               *)
WavesEnd ==
  (/\ m_fActive /\ kv.may = {}
   /\ kv.resetwhen = 0 /\ \A i \in Slots : kv.lives[i] > 0)
    ~> ~m_fActive

AllDepleted == \A i \in Slots : OutOfLives(i, data[i]) /\ Alive(i) = {}

(* "m_fActive, //Set to false when ALL monsters run out of lives."         *)
DepletedGoesInactive == (m_fActive /\ AllDepleted) ~> ~(m_fActive /\ AllDepleted)
=============================================================================
