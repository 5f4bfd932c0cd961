----------------------------- MODULE MCTraining -----------------------------
(* Instances of Training and Evaluation; the values are in MCTrainLong.cfg. *)
EXTENDS Evaluation

AllAxes == <<"bug_subtlety", MCC, "code_complexity", Ratio>>

Always(end) == [i \in 1..EPISODES |-> end]
InTurn(n)   == [i \in 1..EPISODES |-> IF i % n = 0 THEN "pass" ELSE "cave"]
From(n)     == [i \in 1..EPISODES |-> IF i < n THEN "fail" ELSE "pass"]

SomeAgents == {Always("pass"), Always("cave"), Always("fail"), InTurn(2), InTurn(5), From(30), From(85)}
=============================================================================
