-------------------------- MODULE MonsterSpawn_proofs --------------------------
(***************************************************************************)
(* Type correctness of MonsterSpawn, that a living monster is tracked by   *)
(* its slot however addresses come back, that nothing perishes while one   *)
(* lives, both but for monsters that game_death revived, and that a slot   *)
(* perishes once.                                                          *)
(***************************************************************************)
EXTENDS MonsterSpawn, TLAPS

USE SpawnAssumption

Inv == TypeOK /\ LivingIsTracked

(* The monsters of slot i whose death the spawner has not noticed.         *)
FirstLife(i) == Alive(i) \ Revenants

LEMMA InitInv == ASSUME Init PROVE Inv
<1>1. kv \in KeyValueType
  BY DEF Init
<1>2. kv.lives \in [Slots -> {-1} \cup (Nat \ {0})] /\ kv.spawnstart \in BOOLEAN
  BY <1>1 DEF KeyValueType
<1>3. data \in [Slots -> SlotType]
  BY <1>2 DEF Init, SlotType
<1>4. mob \in [Addresses -> [life : {"free", "alive", "revived", "corpse"},
                            slot : 0 .. NSlots]]
  BY DEF Init, Nobody
<1>5. TypeOK
  <2>1. m_fActive \in BOOLEAN /\ thinks \in BOOLEAN
    BY <1>2 DEF Init
  <2>2. /\ kv \in KeyValues /\ met \subseteq Slots /\ perished \in [Slots -> 0 .. 2]
    BY DEF Init
  <2>3. didfirstspawn \in BOOLEAN /\ limited \in BOOLEAN /\ fired \in BOOLEAN
    BY DEF Init
  <2> QED BY <1>3, <1>4, <2>1, <2>2, <2>3 DEF TypeOK
<1>6. LivingIsTracked
  BY DEF Init, LivingIsTracked, FirstLife, Alive, Revenants, Nobody
<1> QED BY <1>5, <1>6 DEF Inv

(* What RespawnMonster leaves alone.                                       *)
LEMMA RespawnMonsterKeeps ==
  ASSUME NEW i \in Slots, NEW d \in SlotType
  PROVE  /\ RespawnMonster(i, d) \in SlotType
         /\ RespawnMonster(i, d).spawned = d.spawned
         /\ RespawnMonster(i, d).lPrivData = d.lPrivData
         /\ RespawnMonster(i, d).livesleft = d.livesleft
BY DEF RespawnMonster, SlotType

(* A reset restores lives; unless resetwhen is 2 it forgets no monster.    *)
LEMMA ResetKeeps ==
  ASSUME TypeOK, NEW d \in [Slots -> SlotType]
  PROVE  /\ Reset(d) \in [Slots -> SlotType]
         /\ kv.resetwhen # 2 => \A i \in Slots :
              Reset(d)[i].spawned = d[i].spawned /\ Reset(d)[i].lPrivData = d[i].lPrivData
<1>1. kv.lives \in [Slots -> {-1} \cup (Nat \ {0})]
  BY DEF TypeOK, KeyValueType
<1>2. ASSUME NEW i \in Slots
      PROVE  /\ NewWave(d[i]) \in SlotType
             /\ NewWave(d[i]).lPrivData = d[i].lPrivData
             /\ kv.resetwhen # 2 => NewWave(d[i]).spawned = d[i].spawned
  <2>1. d[i] \in SlotType
    OBVIOUS
  <2>2. d[i].spawned \in BOOLEAN /\ NewWave(d[i]).spawned \in BOOLEAN
    BY <2>1 DEF NewWave, SlotType
  <2>3. NewWave(d[i]) \in SlotType /\ NewWave(d[i]).lPrivData = d[i].lPrivData
    BY <2>1, <2>2 DEF NewWave, SlotType
  <2>4. kv.resetwhen # 2 => NewWave(d[i]).spawned = d[i].spawned
    BY <2>1 DEF NewWave, SlotType
  <2> QED BY <2>3, <2>4
<1> HIDE DEF NewWave
<1>3. ASSUME NEW i \in Slots
      PROVE  /\ Reset(d)[i] \in SlotType
             /\ Reset(d)[i].lPrivData = d[i].lPrivData
             /\ kv.resetwhen # 2 => Reset(d)[i].spawned = d[i].spawned
  BY <1>1, <1>2 DEF Reset, SlotType
<1>4. Reset(d) = [i \in Slots |-> Reset(d)[i]]
  BY DEF Reset
<1> QED BY <1>3, <1>4

LEMMA ResetPerishedKeeps ==
  ASSUME TypeOK, NEW d
  PROVE  /\ ResetPerished(d) \in [Slots -> 0 .. 2]
         /\ \A i \in Slots : ~(ResetPerished(d)[i] > perished[i])
BY DEF ResetPerished, TypeOK

(* One slot of the think's loop.                                           *)
LEMMA VisitedKeeps ==
  ASSUME TypeOK, NEW i \in Slots, NEW out \in Outcome, Possible(i, out),
         NEW at, out = "spawn" => at[i] \in Addresses
  PROVE  /\ Visited(i, out, at) \in SlotType
         /\ out # "spawn" => /\ Visited(i, out, at).spawned = data[i].spawned
                             /\ Visited(i, out, at).lPrivData = data[i].lPrivData
         /\ out = "spawn" => /\ Visited(i, out, at).spawned
                             /\ Visited(i, out, at).lPrivData = at[i]
                             /\ ~data[i].spawned
<1>1. /\ data[i] \in SlotType
      /\ kv.lives[i] \in {-1} \cup (Nat \ {0})
  BY DEF TypeOK, KeyValueType
<1>2. CASE out = "spawn"
  <2>1. Ready(i)
    BY <1>2 DEF Possible
  <2>2. ~data[i].spawned /\ (kv.lives[i] > 0 => data[i].livesleft > 0)
    BY <2>1, <1>1 DEF Ready, Due, OutOfLives, SlotType
  <2> DEFINE left == IF kv.lives[i] > 0 THEN data[i].livesleft - 1 ELSE data[i].livesleft
  <2>3. left \in {-1} \cup Nat
    BY <1>1, <2>2 DEF SlotType
  <2>4. Visited(i, out, at) = [data[i] EXCEPT !.lPrivData = at[i], !.spawned = TRUE,
                                 !.triggered = FALSE, !.livesleft = left]
    BY <1>2 DEF Visited
  <2> HIDE DEF left
  <2> QED BY <1>1, <1>2, <2>2, <2>3, <2>4 DEF SlotType
<1>3. CASE out = "missed"
  BY <1>1, <1>3, RespawnMonsterKeeps DEF Visited
<1>4. CASE out = "dead"
  <2> DEFINE n == data[i].never \/ (kv.needs[i] = "reqhp" /\ Due(i))
  <2>1. Visited(i, out, at) = [data[i] EXCEPT !.never = n]
    BY <1>4 DEF Visited
  <2>2. n \in BOOLEAN
    BY <1>1 DEF SlotType
  <2> HIDE DEF n
  <2>3. [data[i] EXCEPT !.never = n] \in SlotType
    BY <1>1, <2>2 DEF SlotType
  <2> QED BY <1>1, <1>4, <2>1, <2>3 DEF SlotType
<1>5. CASE out \in {"busy", "waits", "later"}
  BY <1>1, <1>5 DEF Visited
<1> QED BY <1>2, <1>3, <1>4, <1>5 DEF Outcome

(* The monsters a think makes: each at a free address, for its own slot.   *)
LEMMA SpawnMonstersMobs ==
  ASSUME TypeOK, NEW out \in [Slots -> Outcome], NEW at \in [Made(out) -> Addresses],
         SpawnMonsters(out, at)
  PROVE  /\ mob' \in [Addresses -> [life : {"free", "alive", "revived", "corpse"},
                                    slot : 0 .. NSlots]]
         /\ \A i \in Slots : \A a \in FirstLife(i)' :
              \/ i \in Made(out) /\ at[i] = a
              \/ a \in FirstLife(i) /\ \A j \in Made(out) : at[j] # a
<1> DEFINE chosen(a) == CHOOSE i \in Made(out) : at[i] = a
<1>1. /\ \A i \in Made(out) : at[i] \in Fresh(i)
      /\ mob' = [a \in Addresses |->
                  IF \E i \in Made(out) : at[i] = a
                  THEN [life |-> "alive", slot |-> chosen(a)] ELSE mob[a]]
  BY DEF SpawnMonsters
<1>2. ASSUME NEW a \in Addresses, \E i \in Made(out) : at[i] = a
      PROVE  chosen(a) \in Made(out) /\ at[chosen(a)] = a
  BY <1>2
<1> HIDE DEF chosen
<1>3. Made(out) \subseteq 0 .. NSlots /\ Made(out) \subseteq Slots
  BY DEF Made, Slots
<1>4. mob' \in [Addresses -> [life : {"free", "alive", "revived", "corpse"},
                             slot : 0 .. NSlots]]
  BY <1>1, <1>2, <1>3 DEF TypeOK
<1>5. ASSUME NEW i \in Slots, NEW a \in FirstLife(i)'
      PROVE  \/ i \in Made(out) /\ at[i] = a
             \/ a \in FirstLife(i) /\ \A j \in Made(out) : at[j] # a
  <2>1. a \in Addresses /\ mob'[a].life = "alive" /\ mob'[a].slot = i
    BY DEF FirstLife, Alive, Revenants
  <2>2. CASE \E j \in Made(out) : at[j] = a
    BY <2>1, <2>2, <1>1, <1>2
  <2>3. CASE ~\E j \in Made(out) : at[j] = a
    BY <2>1, <2>3, <1>1 DEF FirstLife, Alive, Revenants
  <2> QED BY <2>2, <2>3
<1> QED BY <1>4, <1>5

(* A think keeps the invariant; what it adds to fired or to a slot's       *)
(* perished is told too.                                                   *)
LEMMA SpawnMonstersKeeps ==
  ASSUME Inv, NEW out \in {o \in [Slots -> Outcome] : \A i \in Slots : Possible(i, o[i])},
         NEW at \in [Made(out) -> Addresses], SpawnMonsters(out, at)
  PROVE  /\ Inv'
         /\ fired' # fired => \A i \in Slots : ~data[i].spawned
         /\ \A i \in Slots : ~(perished'[i] > perished[i])
<1> DEFINE now == [i \in Slots |-> Visited(i, out[i], at)]
           allDead == \A i \in Slots : out[i] = "dead"
           fires == allDead /\ m_fActive
           again == fires /\ kv.loops /\ kv.resetwhen # 0
<1>1. /\ TypeOK /\ LivingIsTracked
      /\ SpawnMonstersEnds(now, allDead)
      /\ UNCHANGED <<kv, limited, met>>
  BY DEF Inv, SpawnMonsters
<1>2. \A i \in Slots : out[i] = "spawn" => at[i] \in Addresses
  BY DEF Made
<1>3. ASSUME NEW i \in Slots
      PROVE  /\ now[i] \in SlotType
             /\ out[i] # "spawn" => /\ now[i].spawned = data[i].spawned
                                    /\ now[i].lPrivData = data[i].lPrivData
             /\ out[i] = "spawn" => /\ now[i].spawned /\ now[i].lPrivData = at[i]
                                    /\ ~data[i].spawned
  BY <1>1, <1>2, VisitedKeeps
<1>4. now \in [Slots -> SlotType]
  BY <1>3
<1>5. /\ data' = IF again THEN Reset(now) ELSE now
      /\ perished' = IF again THEN ResetPerished(now) ELSE perished
      /\ fired' = IF fires THEN ~fired ELSE fired
      /\ didfirstspawn' = (didfirstspawn \/ again)
      /\ m_fActive' = (m_fActive /\ ~fires)
      /\ thinks' = (~fires \/ again)
  BY <1>1 DEF SpawnMonstersEnds
<1>6. fired' # fired => fires
  BY <1>1, <1>5 DEF TypeOK
<1> HIDE DEF now
<1>7. /\ data' \in [Slots -> SlotType]
      /\ kv.resetwhen # 2 => \A i \in Slots : /\ data'[i].spawned = now[i].spawned
                                              /\ data'[i].lPrivData = now[i].lPrivData
  BY <1>1, <1>4, <1>5, ResetKeeps
<1>8. TypeOK'
  <2>1. didfirstspawn' \in BOOLEAN /\ m_fActive' \in BOOLEAN /\ thinks' \in BOOLEAN
    BY <1>5
  <2>2. fired' \in BOOLEAN
    BY <1>1, <1>5 DEF Up, TypeOK
  <2>3. perished' \in [Slots -> 0 .. 2]
    BY <1>1, <1>5, ResetPerishedKeeps DEF TypeOK
  <2>4. mob' \in [Addresses -> [life : {"free", "alive", "revived", "corpse"},
                               slot : 0 .. NSlots]]
    BY <1>1, SpawnMonstersMobs
  <2>5. kv' \in KeyValues /\ limited' \in BOOLEAN /\ met' \subseteq Slots
    BY <1>1 DEF TypeOK
  <2> QED BY <1>7, <2>1, <2>2, <2>3, <2>4, <2>5 DEF TypeOK
<1>9. LivingIsTracked'
  <2> SUFFICES ASSUME kv.resetwhen # 2, NEW i \in Slots, NEW a \in FirstLife(i)'
               PROVE  now[i].spawned /\ now[i].lPrivData = a
    BY <1>1, <1>7 DEF LivingIsTracked, FirstLife
  <2>1. \/ i \in Made(out) /\ at[i] = a
        \/ a \in FirstLife(i) /\ \A j \in Made(out) : at[j] # a
    BY <1>1, SpawnMonstersMobs
  <2>2. CASE i \in Made(out) /\ at[i] = a
    BY <2>2, <1>3 DEF Made
  <2>3. CASE a \in FirstLife(i)
    <3>1. data[i].spawned /\ data[i].lPrivData = a
      BY <2>3, <1>1 DEF LivingIsTracked, FirstLife
    <3> QED BY <3>1, <1>3
  <2> QED BY <2>1, <2>2, <2>3
<1>10. fires => \A i \in Slots : ~data[i].spawned
  BY DEF Possible, Dead
<1>11. \A i \in Slots : ~(perished'[i] > perished[i])
  BY <1>1, <1>5, ResetPerishedKeeps DEF TypeOK
<1> QED BY <1>6, <1>8, <1>9, <1>10, <1>11 DEF Inv

(* A death, of the slot that holds the address first.                      *)
LEMMA KilledKeeps ==
  ASSUME Inv, NEW a \in Addresses, Killed(a)
  PROVE  /\ Inv'
         /\ fired' = fired
         /\ \A i \in Slots : perished'[i] > perished[i] =>
              ~data'[i].spawned /\ OutOfLives(i, data[i])
<1>1. /\ TypeOK /\ LivingIsTracked
      /\ mob' = [mob EXCEPT ![a].life = "corpse"]
      /\ DeathNotice(a)
      /\ UNCHANGED <<kv, m_fActive, didfirstspawn, thinks, limited, met, fired>>
  BY DEF Inv, Killed
<1>2. mob' \in [Addresses -> [life : {"free", "alive", "revived", "corpse"},
                             slot : 0 .. NSlots]]
  BY <1>1 DEF TypeOK
<1>3. \A i \in Slots : FirstLife(i)' = FirstLife(i) \ {a}
  BY <1>1 DEF TypeOK, FirstLife, Alive, Revenants
<1>4. CASE /\ {i \in Slots : data[i].lPrivData = a} = {}
           /\ UNCHANGED <<data, perished>>
  <2>1. TypeOK'
    BY <1>1, <1>2, <1>4 DEF TypeOK
  <2>2. LivingIsTracked'
    BY <1>1, <1>3, <1>4 DEF LivingIsTracked, FirstLife
  <2> QED BY <1>1, <1>4, <2>1, <2>2 DEF Inv, TypeOK
<1>5. ASSUME NEW i \in Slots, data[i].lPrivData = a,
             data' = [data EXCEPT ![i] =
               RespawnMonster(i, [data[i] EXCEPT !.spawned = FALSE])],
             perished' = IF FiresPerish(i, [data[i] EXCEPT !.spawned = FALSE])
                         THEN [perished EXCEPT ![i] = Up(@)] ELSE perished
      PROVE  /\ Inv'
             /\ \A j \in Slots : perished'[j] > perished[j] =>
                  ~data'[j].spawned /\ OutOfLives(j, data[j])
  <2> DEFINE d == [data[i] EXCEPT !.spawned = FALSE]
  <2>1. /\ d \in SlotType /\ d.spawned = FALSE
        /\ d.lPrivData = a /\ d.livesleft = data[i].livesleft
    <3>1. data[i] \in SlotType
      BY <1>1 DEF TypeOK
    <3> QED BY <1>5, <3>1 DEF SlotType
  <2> HIDE DEF d
  <2>2. /\ RespawnMonster(i, d) \in SlotType
        /\ RespawnMonster(i, d).spawned = FALSE
    BY <2>1, RespawnMonsterKeeps
  <2>3. data' = [data EXCEPT ![i] = RespawnMonster(i, d)]
    BY <1>5 DEF d
  <2>4. data' \in [Slots -> SlotType] /\ ~data'[i].spawned
    BY <1>1, <2>2, <2>3 DEF TypeOK
  <2>5. perished' \in [Slots -> 0 .. 2]
    BY <1>1, <1>5 DEF TypeOK, Up
  <2>6. TypeOK'
    BY <1>1, <1>2, <2>4, <2>5 DEF TypeOK
  <2>7. LivingIsTracked'
    <3> SUFFICES ASSUME kv.resetwhen # 2, NEW j \in Slots, NEW b \in FirstLife(j) \ {a}
                 PROVE  data'[j].spawned /\ data'[j].lPrivData = b
      BY <1>1, <1>3 DEF LivingIsTracked, FirstLife
    <3>1. data[j].spawned /\ data[j].lPrivData = b
      BY <1>1 DEF LivingIsTracked, FirstLife
    <3>2. j # i
      BY <1>5, <3>1
    <3> QED BY <1>1, <2>3, <3>1, <3>2 DEF TypeOK
  <2>8. ASSUME NEW j \in Slots, perished'[j] > perished[j]
        PROVE  ~data'[j].spawned /\ OutOfLives(j, data[j])
    <3>1. j = i /\ FiresPerish(i, d)
      BY <1>1, <1>5, <2>8 DEF TypeOK, d
    <3> QED BY <2>1, <2>4, <3>1 DEF FiresPerish, OutOfLives
  <2> QED BY <2>6, <2>7, <2>8 DEF Inv
<1>6. \/ /\ {i \in Slots : data[i].lPrivData = a} = {}
         /\ UNCHANGED <<data, perished>>
      \/ \E i \in Slots :
           /\ data[i].lPrivData = a
           /\ data' = [data EXCEPT ![i] =
                RespawnMonster(i, [data[i] EXCEPT !.spawned = FALSE])]
           /\ perished' = IF FiresPerish(i, [data[i] EXCEPT !.spawned = FALSE])
                          THEN [perished EXCEPT ![i] = Up(@)] ELSE perished
  BY <1>1 DEF DeathNotice
<1> QED BY <1>1, <1>4, <1>5, <1>6

LEMMA ResetUseKeeps ==
  ASSUME Inv, ResetUse
  PROVE  Inv' /\ fired' = fired /\ \A i \in Slots : ~(perished'[i] > perished[i])
<1>1. /\ TypeOK /\ LivingIsTracked
      /\ data' = Reset(data) /\ perished' = ResetPerished(data)
      /\ didfirstspawn' = TRUE /\ m_fActive' = TRUE /\ thinks' = TRUE
      /\ UNCHANGED <<kv, limited, met, mob, fired>>
  BY DEF Inv, ResetUse
<1>2. data \in [Slots -> SlotType]
  BY <1>1 DEF TypeOK
<1>3. TypeOK'
  BY <1>1, <1>2, ResetKeeps, ResetPerishedKeeps DEF TypeOK
<1>4. LivingIsTracked'
  <2>1. \A i \in Slots : FirstLife(i)' = FirstLife(i)
    BY <1>1 DEF FirstLife, Alive, Revenants
  <2> QED BY <1>1, <1>2, <2>1, ResetKeeps DEF LivingIsTracked, FirstLife
<1> QED BY <1>1, <1>3, <1>4, ResetPerishedKeeps DEF Inv

(* The steps that neither spawn, reset nor kill.                           *)
LEMMA OthersKeep ==
  ASSUME Inv,
         \/ StopSpawn \/ ThinkLimited \/ SpawnLimit
         \/ \E i \in Slots : MSQuery(i) \/ Elapse(i) \/ Requirement(i)
         \/ \E a \in Addresses : Revived(a) \/ Faded(a) \/ DeleteEntity(a)
  PROVE  Inv' /\ fired' = fired /\ perished' = perished
<1>0. TypeOK /\ LivingIsTracked
  BY DEF Inv
<1>1. ASSUME StopSpawn \/ ThinkLimited \/ SpawnLimit \/ \E i \in Slots : Requirement(i)
      PROVE  Inv' /\ fired' = fired /\ perished' = perished
  <2>1. /\ UNCHANGED <<kv, data, mob, fired, perished, didfirstspawn>>
        /\ m_fActive' \in BOOLEAN /\ thinks' \in BOOLEAN
        /\ limited' \in BOOLEAN /\ met' \subseteq Slots
    BY <1>0, <1>1 DEF StopSpawn, ThinkLimited, SpawnLimit, Requirement, TypeOK
  <2>2. \A i \in Slots : FirstLife(i)' = FirstLife(i)
    BY <2>1 DEF FirstLife, Alive, Revenants
  <2>3. TypeOK'
    BY <1>0, <2>1 DEF TypeOK
  <2>4. LivingIsTracked'
    BY <1>0, <2>1, <2>2 DEF LivingIsTracked, FirstLife
  <2> QED BY <2>1, <2>3, <2>4 DEF Inv
<1>2. ASSUME NEW i \in Slots, MSQuery(i) \/ Elapse(i)
      PROVE  Inv' /\ fired' = fired /\ perished' = perished
  <2>1. /\ UNCHANGED <<kv, m_fActive, didfirstspawn, thinks, limited, met, mob, fired, perished>>
        /\ \/ data' = [data EXCEPT ![i].triggered = TRUE, ![i].delayed = FALSE]
           \/ data' = [data EXCEPT ![i].delayed = FALSE]
    BY <1>2 DEF MSQuery, Elapse
  <2>2. /\ data' \in [Slots -> SlotType]
        /\ \A j \in Slots : /\ data'[j].spawned = data[j].spawned
                             /\ data'[j].lPrivData = data[j].lPrivData
    <3>1. data \in [Slots -> SlotType]
      BY <1>0 DEF TypeOK
    <3>2. /\ [data[i] EXCEPT !.delayed = FALSE] \in SlotType
          /\ [data[i] EXCEPT !.triggered = TRUE, !.delayed = FALSE] \in SlotType
      BY <3>1 DEF SlotType
    <3>3. CASE data' = [data EXCEPT ![i] = [data[i] EXCEPT !.triggered = TRUE,
                                                          !.delayed = FALSE]]
      BY <3>1, <3>2, <3>3 DEF SlotType
    <3>4. CASE data' = [data EXCEPT ![i] = [data[i] EXCEPT !.delayed = FALSE]]
      BY <3>1, <3>2, <3>4 DEF SlotType
    <3> QED BY <2>1, <3>1, <3>3, <3>4
  <2>3. \A j \in Slots : FirstLife(j)' = FirstLife(j)
    BY <2>1 DEF FirstLife, Alive, Revenants
  <2>4. TypeOK'
    BY <1>0, <2>1, <2>2 DEF TypeOK
  <2>5. LivingIsTracked'
    BY <1>0, <2>1, <2>2, <2>3 DEF LivingIsTracked, FirstLife
  <2> QED BY <2>1, <2>4, <2>5 DEF Inv
<1>3. ASSUME NEW a \in Addresses, Revived(a) \/ Faded(a) \/ DeleteEntity(a)
      PROVE  Inv' /\ fired' = fired /\ perished' = perished
  <2>1. /\ UNCHANGED <<kv, data, m_fActive, didfirstspawn, thinks, limited, met, fired, perished>>
        /\ \/ mob' = [mob EXCEPT ![a].life = "revived"]
           \/ mob' = [mob EXCEPT ![a] = Nobody]
    BY <1>3 DEF Revived, Faded, DeleteEntity
  <2>2. /\ mob' \in [Addresses -> [life : {"free", "alive", "revived", "corpse"},
                                   slot : 0 .. NSlots]]
        /\ \A j \in Slots : FirstLife(j)' \subseteq FirstLife(j)
    BY <1>0, <2>1 DEF TypeOK, Nobody, FirstLife, Alive, Revenants
  <2>3. TypeOK'
    BY <1>0, <2>1, <2>2 DEF TypeOK
  <2>4. LivingIsTracked'
    BY <1>0, <2>1, <2>2 DEF LivingIsTracked, FirstLife
  <2> QED BY <2>1, <2>3, <2>4 DEF Inv
<1> QED BY <1>1, <1>2, <1>3

(* Every step keeps the invariant and lets things perish only at the end.  *)
LEMMA StepKeeps ==
  ASSUME Inv, [Next]_vars
  PROVE  /\ Inv'
         /\ fired' # fired => \A i \in Slots : ~data[i].spawned
         /\ \A i \in Slots : perished'[i] > perished[i] =>
              ~data'[i].spawned /\ OutOfLives(i, data[i])
<1>0. /\ fired \in BOOLEAN /\ perished \in [Slots -> 0 .. 2]
      /\ \A i \in Slots : ~(perished[i] > perished[i])
  BY DEF Inv, TypeOK
<1>1. CASE ResetUse
  BY <1>0, <1>1, ResetUseKeeps
<1>2. CASE \E a \in Addresses : Killed(a)
  BY <1>0, <1>2, KilledKeeps
<1>3. CASE \E out \in {o \in [Slots -> Outcome] : \A i \in Slots : Possible(i, o[i])} :
             \E at \in [Made(out) -> Addresses] : SpawnMonsters(out, at)
  BY <1>3, SpawnMonstersKeeps
<1>4. CASE \/ StopSpawn \/ ThinkLimited \/ SpawnLimit
           \/ \E i \in Slots : MSQuery(i) \/ Elapse(i) \/ Requirement(i)
           \/ \E a \in Addresses : Revived(a) \/ Faded(a) \/ DeleteEntity(a)
  BY <1>0, <1>4, OthersKeep
<1>5. CASE UNCHANGED vars
  <2>1. \A i \in Slots : FirstLife(i)' = FirstLife(i)
    BY <1>5 DEF FirstLife, Alive, Revenants, vars
  <2>2. Inv'
    BY <1>5, <2>1 DEF vars, Inv, TypeOK, LivingIsTracked, FirstLife
  <2> QED BY <1>0, <1>5, <2>2 DEF vars
<1> QED BY <1>1, <1>2, <1>3, <1>4, <1>5 DEF Next, Think

-----------------------------------------------------------------------------
(* Every variable of the spawner keeps its type, for any number of slots.  *)
THEOREM TypeCorrect == Spec => []TypeOK
<1>1. Inv /\ [Next]_vars => Inv'
  BY StepKeeps
<1> QED BY <1>1, InitInv, PTL DEF Spec, Inv

(* A living monster's slot holds its address and is marked spawned, so a   *)
(* slot never has two, even when addresses of faded monsters come back,    *)
(* unless game_death revived one.                                          *)
THEOREM LivingTracked == Spec => []LivingIsTracked
<1>1. Inv /\ [Next]_vars => Inv'
  BY StepKeeps
<1> QED BY <1>1, InitInv, PTL DEF Spec, Inv

(* fireallperish and perishtargets fire only when no monster lives whose   *)
(* death the spawner has not noticed: only the revived may live.           *)
THEOREM PerishesLast == Spec => PerishIsFinal
<1> DEFINE Final ==
      kv.resetwhen # 2 =>
        /\ fired' # fired => \A i \in Slots : Alive(i) \subseteq Revenants
        /\ \A i \in Slots : perished'[i] > perished[i] =>
             Alive(i)' \subseteq Revenants' /\ OutOfLives(i, data[i])
<1>1. Inv /\ [Next]_vars => Inv'
  BY StepKeeps
<1>2. ASSUME Inv, [Next]_vars PROVE [Final]_vars
  <2> SUFFICES ASSUME kv.resetwhen # 2, ~UNCHANGED vars PROVE Final
    OBVIOUS
  <2>1. kv' = kv
    BY <1>2 DEF Next, vars, ResetUse, StopSpawn, Think, ThinkLimited, SpawnMonsters, SpawnLimit,
           MSQuery, Elapse, Requirement, Killed, Revived, Faded, DeleteEntity
  <2>2. \A i \in Slots : /\ ~data[i].spawned => FirstLife(i) = {}
                         /\ ~data'[i].spawned => FirstLife(i)' = {}
    <3>1. LivingIsTracked /\ LivingIsTracked'
      BY <1>2, StepKeeps DEF Inv
    <3> QED BY <2>1, <3>1 DEF LivingIsTracked, FirstLife
  <2>3. \A i \in Slots : /\ FirstLife(i) = {} => Alive(i) \subseteq Revenants
                         /\ FirstLife(i)' = {} => Alive(i)' \subseteq Revenants'
    BY DEF FirstLife
  <2> QED BY <1>2, <2>2, <2>3, StepKeeps
<1>3. Inv /\ [Next]_vars => [Final]_vars
  BY <1>2
<1> QED BY <1>1, <1>3, InitInv, PTL DEF Spec, PerishIsFinal

-----------------------------------------------------------------------------
(* A perishtarget fires once: the slots keep different addresses, and one  *)
(* that has perished has no lives, no monster, and a dead one's address.   *)

Calm == kv.may \cap {"revive", "reuse"} = {}

Apart(d) ==
  \A i, j \in Slots : i # j /\ d[i].lPrivData \in Addresses =>
    d[i].lPrivData # d[j].lPrivData

Over(i, d, m) ==
  /\ OutOfLives(i, d) /\ ~d.spawned
  /\ \A a \in Addresses : d.lPrivData = a => m[a].life \notin {"alive", "revived"}

Ended(d, m, p) == \A i \in Slots : p[i] = 0 \/ (p[i] = 1 /\ Over(i, d[i], m))

FInv == Inv /\ (Calm => Apart(data) /\ Ended(data, mob, perished))

LEMMA InitFInv == ASSUME Init PROVE FInv
<1>1. Inv
  BY InitInv
<1>2. \A i \in Slots : data[i].lPrivData = NoAddress /\ perished[i] = 0
  BY DEF Init
<1> QED BY <1>1, <1>2 DEF FInv, Apart, Ended

(* A reset forgets no address, and who it gives lives has not perished.    *)
LEMMA ResetEnds ==
  ASSUME TypeOK, NEW d \in [Slots -> SlotType], NEW m,
         Apart(d), Ended(d, m, perished)
  PROVE  Apart(Reset(d)) /\ Ended(Reset(d), m, ResetPerished(d))
<1>1. ASSUME NEW i \in Slots
      PROVE  /\ Reset(d)[i].lPrivData = d[i].lPrivData
             /\ \/ ResetPerished(d)[i] = 0
                \/ Reset(d)[i] = d[i] /\ ResetPerished(d)[i] = perished[i]
  <2>1. d[i] \in SlotType /\ NewWave(d[i]).lPrivData = d[i].lPrivData
    BY DEF NewWave, SlotType
  <2>2. NewWave(d[i]) \in SlotType
    BY <2>1 DEF NewWave, SlotType
  <2> HIDE DEF NewWave
  <2>3. Reset(d)[i].lPrivData = d[i].lPrivData
    BY <2>1, <2>2 DEF Reset, SlotType
  <2>4. \/ ResetPerished(d)[i] = 0
        \/ Reset(d)[i] = d[i] /\ ResetPerished(d)[i] = perished[i]
    BY DEF Reset, ResetPerished
  <2> QED BY <2>3, <2>4
<1> HIDE DEF Reset, ResetPerished
<1>2. Apart(Reset(d))
  BY <1>1 DEF Apart
<1>3. Ended(Reset(d), m, ResetPerished(d))
  BY <1>1 DEF Ended
<1> QED BY <1>2, <1>3

(* A think puts its monsters where no other slot looks, and for slots that *)
(* have lives left.                                                        *)
LEMMA SpawnMonstersEnd ==
  ASSUME FInv, Calm,
         NEW out \in {o \in [Slots -> Outcome] : \A i \in Slots : Possible(i, o[i])},
         NEW at \in [Made(out) -> Addresses], SpawnMonsters(out, at)
  PROVE  Apart(data') /\ Ended(data', mob', perished')
<1> DEFINE now == [i \in Slots |-> Visited(i, out[i], at)]
           fires == (\A i \in Slots : out[i] = "dead") /\ m_fActive
           again == fires /\ kv.loops /\ kv.resetwhen # 0
<1>1. /\ TypeOK /\ Apart(data) /\ Ended(data, mob, perished)
      /\ "reuse" \notin kv.may
      /\ data' = IF again THEN Reset(now) ELSE now
      /\ perished' = IF again THEN ResetPerished(now) ELSE perished
      /\ \A i \in Made(out) : at[i] \in Fresh(i)
      /\ \A i, j \in Made(out) : at[i] = at[j] => i = j
      /\ \A a \in Addresses : (\A i \in Made(out) : at[i] # a) => mob'[a] = mob[a]
  BY DEF FInv, Inv, Calm, SpawnMonsters, SpawnMonstersEnds
<1>2. ASSUME NEW i \in Slots
      PROVE  /\ now[i] \in SlotType
             /\ i \notin Made(out) => /\ now[i].spawned = data[i].spawned
                                      /\ now[i].lPrivData = data[i].lPrivData
             /\ i \in Made(out) => now[i].lPrivData = at[i] /\ at[i] \in Addresses
  <2>1. out[i] = "spawn" => at[i] \in Addresses
    BY DEF Made
  <2> QED BY <1>1, <2>1, VisitedKeeps DEF Made
<1>3. ASSUME NEW i \in Slots, i \notin Made(out)
      PROVE  now[i].livesleft = data[i].livesleft
  <2>1. data[i] \in SlotType /\ out[i] # "spawn" /\ out[i] \in Outcome
    BY <1>1, <1>3 DEF TypeOK, Made
  <2>2. CASE out[i] = "missed"
    BY <2>1, <2>2, RespawnMonsterKeeps DEF Visited
  <2>3. CASE out[i] = "dead"
    BY <2>1, <2>3 DEF Visited, SlotType
  <2>4. CASE out[i] \in {"busy", "waits", "later"}
    BY <2>1, <2>4 DEF Visited
  <2> QED BY <2>1, <2>2, <2>3, <2>4 DEF Outcome
<1>4. ASSUME NEW i \in Made(out)
      PROVE  i \in Slots /\ perished[i] = 0
  <2>1. i \in Slots /\ Due(i)
    BY DEF Made, Possible, Ready
  <2> QED BY <1>1, <2>1 DEF Ended, Over, Due
<1>5. ASSUME NEW i \in Slots, NEW j \in Made(out), i # j, i \notin Made(out)
      PROVE  data[i].lPrivData # at[j]
  BY <1>1, <1>5 DEF Fresh
<1> HIDE DEF now
<1>6. Apart(now)
  <2> SUFFICES ASSUME NEW i \in Slots, NEW j \in Slots, i # j,
                      now[i].lPrivData \in Addresses
               PROVE  now[i].lPrivData # now[j].lPrivData
    BY DEF Apart
  <2>1. CASE i \in Made(out) /\ j \in Made(out)
    BY <1>1, <1>2, <2>1
  <2>2. CASE i \in Made(out) /\ j \notin Made(out)
    BY <1>2, <1>5, <2>2
  <2>3. CASE i \notin Made(out) /\ j \in Made(out)
    BY <1>2, <1>5, <2>3
  <2>4. CASE i \notin Made(out) /\ j \notin Made(out)
    BY <1>1, <1>2, <2>4 DEF Apart
  <2> QED BY <2>1, <2>2, <2>3, <2>4
<1>7. Ended(now, mob', perished)
  <2> SUFFICES ASSUME NEW i \in Slots, perished[i] # 0
               PROVE  perished[i] = 1 /\ Over(i, now[i], mob')
    BY DEF Ended
  <2>1. i \notin Made(out) /\ perished[i] = 1 /\ Over(i, data[i], mob)
    BY <1>1, <1>4 DEF Ended
  <2>2. OutOfLives(i, now[i]) /\ ~now[i].spawned
    BY <1>2, <1>3, <2>1 DEF Over, OutOfLives
  <2>3. ASSUME NEW a \in Addresses, now[i].lPrivData = a
        PROVE  mob'[a].life \notin {"alive", "revived"}
    <3>1. data[i].lPrivData = a
      BY <1>2, <2>1, <2>3
    <3>2. \A j \in Made(out) : at[j] # a
      BY <1>4, <1>5, <2>1, <3>1
    <3> QED BY <1>1, <2>1, <3>1, <3>2 DEF Over
  <2> QED BY <2>1, <2>2, <2>3 DEF Over
<1>8. now \in [Slots -> SlotType]
  BY <1>2 DEF now
<1>9. CASE again
  BY <1>1, <1>6, <1>7, <1>8, <1>9, ResetEnds
<1>10. CASE ~again
  BY <1>1, <1>6, <1>7, <1>10
<1> QED BY <1>9, <1>10

(* A death fires the slot that holds the address, whose monster was alive: *)
(* it had not perished.                                                    *)
LEMMA KilledEnds ==
  ASSUME FInv, Calm, NEW a \in Addresses, Killed(a)
  PROVE  Apart(data') /\ Ended(data', mob', perished')
<1>1. /\ TypeOK /\ Apart(data) /\ Ended(data, mob, perished)
      /\ mob[a].life \in {"alive", "revived"}
      /\ mob' = [mob EXCEPT ![a].life = "corpse"]
      /\ DeathNotice(a)
  BY DEF FInv, Inv, Killed
<1>2. /\ \A b \in Addresses : mob'[b].life \in {"alive", "revived"} =>
           mob[b].life \in {"alive", "revived"}
      /\ mob'[a].life = "corpse"
  BY <1>1 DEF TypeOK
<1>3. Ended(data, mob', perished)
  BY <1>1, <1>2 DEF Ended, Over
<1>4. CASE UNCHANGED <<data, perished>>
  BY <1>1, <1>3, <1>4
<1>5. ASSUME NEW i \in Slots, data[i].lPrivData = a,
             data' = [data EXCEPT ![i] =
               RespawnMonster(i, [data[i] EXCEPT !.spawned = FALSE])],
             perished' = IF FiresPerish(i, [data[i] EXCEPT !.spawned = FALSE])
                         THEN [perished EXCEPT ![i] = Up(@)] ELSE perished
      PROVE  Apart(data') /\ Ended(data', mob', perished')
  <2> DEFINE d == [data[i] EXCEPT !.spawned = FALSE]
  <2>1. /\ d \in SlotType /\ d.spawned = FALSE
        /\ d.lPrivData = a /\ d.livesleft = data[i].livesleft
    <3>1. data[i] \in SlotType
      BY <1>1 DEF TypeOK
    <3> QED BY <1>5, <3>1 DEF SlotType
  <2>2. /\ data' = [data EXCEPT ![i] = RespawnMonster(i, d)]
        /\ perished' = IF FiresPerish(i, d) THEN [perished EXCEPT ![i] = Up(@)] ELSE perished
    BY <1>5
  <2> HIDE DEF d
  <2>3. /\ RespawnMonster(i, d).spawned = FALSE
        /\ RespawnMonster(i, d).lPrivData = a
        /\ RespawnMonster(i, d).livesleft = d.livesleft
    BY <2>1, RespawnMonsterKeeps
  <2>4. /\ data'[i].spawned = FALSE /\ data'[i].lPrivData = a
        /\ data'[i].livesleft = d.livesleft
        /\ \A j \in Slots \ {i} : data'[j] = data[j]
    BY <1>1, <2>2, <2>3 DEF TypeOK
  <2>5. perished[i] = 0
    BY <1>1, <1>5 DEF Ended, Over
  <2>6. Apart(data')
    <3>1. \A j \in Slots : data'[j].lPrivData = data[j].lPrivData
      BY <1>5, <2>4
    <3> QED BY <1>1, <3>1 DEF Apart
  <2>7. ASSUME NEW j \in Slots
        PROVE  perished'[j] = 0 \/ (perished'[j] = 1 /\ Over(j, data'[j], mob'))
    <3>1. CASE j # i
      <4>1. perished'[j] = perished[j] /\ data'[j] = data[j]
        BY <1>1, <2>2, <2>4, <3>1 DEF TypeOK
      <4> QED BY <1>3, <4>1 DEF Ended
    <3>2. CASE j = i /\ FiresPerish(i, d)
      <4>1. perished'[i] = 1
        BY <1>1, <2>2, <2>5, <3>2 DEF TypeOK, Up
      <4>2. OutOfLives(i, data'[i])
        BY <2>4, <3>2 DEF FiresPerish, OutOfLives
      <4>3. Over(i, data'[i], mob')
        BY <1>2, <2>4, <4>2 DEF Over
      <4> QED BY <3>2, <4>1, <4>3
    <3>3. CASE j = i /\ ~FiresPerish(i, d)
      BY <2>2, <2>5, <3>3
    <3> QED BY <3>1, <3>2, <3>3
  <2> QED BY <2>6, <2>7 DEF Ended
<1> QED BY <1>1, <1>4, <1>5 DEF DeathNotice

(* Every step keeps the slots apart and the perished over.                 *)
LEMMA StepEnds == ASSUME FInv, [Next]_vars PROVE FInv'
<1>1. Inv'
  BY StepKeeps DEF FInv
<1>2. kv' = kv
  BY DEF Next, vars, ResetUse, StopSpawn, Think, ThinkLimited, SpawnMonsters, SpawnLimit,
         MSQuery, Elapse, Requirement, Killed, Revived, Faded, DeleteEntity
<1> SUFFICES ASSUME Calm PROVE Apart(data') /\ Ended(data', mob', perished')
  BY <1>1, <1>2 DEF FInv, Calm, Apart, Ended, Over, OutOfLives
<1>3. TypeOK /\ Apart(data) /\ Ended(data, mob, perished)
  BY DEF FInv, Inv
<1>4. CASE ResetUse
  <2>1. /\ data' = Reset(data) /\ perished' = ResetPerished(data) /\ mob' = mob
        /\ data \in [Slots -> SlotType]
    BY <1>3, <1>4 DEF ResetUse, TypeOK
  <2> QED BY <1>3, <2>1, ResetEnds
<1>5. CASE \E a \in Addresses : Killed(a)
  BY <1>5, KilledEnds
<1>6. CASE \E out \in {o \in [Slots -> Outcome] : \A i \in Slots : Possible(i, o[i])} :
             \E at \in [Made(out) -> Addresses] : SpawnMonsters(out, at)
  BY <1>6, SpawnMonstersEnd
<1>7. CASE \E i \in Slots : MSQuery(i) \/ Elapse(i)
  <2>1. /\ mob' = mob /\ perished' = perished
        /\ \A j \in Slots : /\ data'[j].lPrivData = data[j].lPrivData
                            /\ data'[j].spawned = data[j].spawned
                            /\ data'[j].livesleft = data[j].livesleft
    <3>1. data \in [Slots -> SlotType]
      BY <1>3 DEF TypeOK
    <3>2. CASE \E i \in Slots : MSQuery(i)
      BY <3>1, <3>2 DEF MSQuery, SlotType
    <3>3. CASE \E i \in Slots : Elapse(i)
      BY <3>1, <3>3 DEF Elapse, SlotType
    <3> QED BY <1>7, <3>2, <3>3
  <2> QED BY <1>3, <2>1 DEF Apart, Ended, Over, OutOfLives
<1>8. CASE \E a \in Addresses : Faded(a) \/ DeleteEntity(a)
  <2>1. /\ data' = data /\ perished' = perished
        /\ \A b \in Addresses : mob'[b].life \in {"alive", "revived"} =>
             mob[b].life \in {"alive", "revived"}
    BY <1>3, <1>8 DEF Faded, DeleteEntity, Nobody, TypeOK
  <2> QED BY <1>3, <2>1 DEF Ended, Over
<1>9. CASE \/ StopSpawn \/ ThinkLimited \/ SpawnLimit \/ UNCHANGED vars
           \/ \E i \in Slots : Requirement(i)
           \/ \E a \in Addresses : Revived(a)
  <2>1. UNCHANGED <<data, mob, perished>>
    BY <1>9 DEF StopSpawn, ThinkLimited, SpawnLimit, Requirement, Revived, vars, Calm
  <2> QED BY <1>3, <2>1
<1> QED BY <1>4, <1>5, <1>6, <1>7, <1>8, <1>9 DEF Next, Think

(* Between two resets a perishtarget fires at most once, for any spawner   *)
(* whose dead stay dead and whose slots are not given each other's         *)
(* addresses.                                                              *)
THEOREM PerishesOnce == Spec => []FinalDeathOnce
<1>1. FInv /\ [Next]_vars => FInv'
  BY StepEnds
<1>2. FInv => FinalDeathOnce
  <2> SUFFICES ASSUME FInv, Calm, NEW i \in Slots PROVE perished[i] <= 1
    BY DEF FinalDeathOnce, Calm
  <2> QED BY DEF FInv, Ended
<1> QED BY <1>1, <1>2, InitFInv, PTL DEF Spec
=============================================================================
