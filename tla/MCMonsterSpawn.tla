---------------------------- MODULE MCMonsterSpawn ----------------------------
(* Instances of MonsterSpawn for TLC: the spawners a run explores.         *)
EXTENDS MonsterSpawn

Plain == [lives |-> <<1, 1>>, onTrigger |-> <<FALSE, FALSE>>, needs |-> <<"none", "none">>,
          resetwhen |-> 0, spawnstart |-> FALSE, misses |-> FALSE, loops |-> FALSE, may |-> {}]

(* A spawner that starts with the map, one that waits for its trigger and  *)
(* staggers its monsters, one with a slot that must be triggered, one with *)
(* a chance, and one each for the requirements.                            *)
Calm ==
  { [Plain EXCEPT !.lives = <<1, 2>>],
    [Plain EXCEPT !.spawnstart = TRUE, !.onTrigger = <<TRUE, FALSE>>, !.loops = TRUE],
    [Plain EXCEPT !.lives = <<2, 1>>, !.misses = TRUE, !.resetwhen = 1],
    [Plain EXCEPT !.lives = <<1, -1>>, !.resetwhen = 2, !.spawnstart = TRUE],
    [Plain EXCEPT !.needs = <<"reqhp", "none">>, !.misses = TRUE],
    [Plain EXCEPT !.needs = <<"nplayers", "none">>, !.loops = TRUE, !.resetwhen = 1] }

(* And a world where everything may happen.                                *)
Rough == {[Plain EXCEPT !.may = Troubles, !.needs = <<"reqhp", "none">>]}

Spawners == Calm \cup Rough

(* One that meets nothing but the spawn limit.                             *)
Limited == {[Plain EXCEPT !.may = {"limit"}]}
=============================================================================
