------------------------------ MODULE Training ------------------------------
(***************************************************************************)
(* The outer loop of run_grpo_training: iterations of a few rollouts each, *)
(* the difficulty staged by iteration, every iteration on an environment,  *)
(* and so a curriculum, of its own.  Rollouts only begin and end here; the *)
(* curriculum they report to is Curriculum's.                              *)
(***************************************************************************)
EXTENDS Curriculum

CONSTANTS
  ROLLOUTS_PER_ITER,          \* --rollouts-per-iter, 8 by default
  EASY_UNTIL, MEDIUM_UNTIL    \* ends of the stages of "phase4", 50 and 150

ASSUME TrainingAssumption ==
  /\ ROLLOUTS_PER_ITER \in Nat \ {0}
  /\ EASY_UNTIL \in Nat /\ MEDIUM_UNTIL \in Nat /\ EASY_UNTIL <= MEDIUM_UNTIL

VARIABLES
  outer,      \* the iteration; nothing tells those from MEDIUM_UNTIL on apart
  rollout     \* rollouts done in it

tvars == <<vars, outer, rollout>>

TInit == Init /\ outer = 0 /\ rollout = 0

AdaptiveStage == outer >= MEDIUM_UNTIL

\* _resolve_stage_difficulty, and what reset makes of its answer; None is no
\* preset, and leaves the choice to the curriculum.
StageConfig ==
  CASE outer < EASY_UNTIL                             -> Preset("easy")
    [] outer >= EASY_UNTIL /\ outer < MEDIUM_UNTIL    -> Preset("medium")
    [] OTHER                                          -> ScheduledOrAdaptive

RolloutBegins ==
  /\ ~running /\ rollout < ROLLOUTS_PER_ITER
  /\ Begin(StageConfig)
  /\ UNCHANGED <<outer, rollout>>

RolloutEnds ==
  /\ Finish
  /\ rollout' = rollout + 1
  /\ UNCHANGED outer

IterationOver == ~running /\ rollout = ROLLOUTS_PER_ITER

\* AdversarialReasoningEnv(seed = ...): the curriculum starts anew.
NewEnvironment ==
  /\ difficulty' = [a \in Axes |-> 0] /\ followup_count' = 0
  /\ history' = <<>> /\ steps' = 0
  /\ axis_high' = [a \in Axes |-> <<>>] /\ axis_low' = [a \in Axes |-> <<>>]
  /\ round_robin_idx' = 0
  /\ UNCHANGED <<playing, running>>

\* Mutant: one environment for all iterations.
IterationStarts_Kept == UNCHANGED vars

\* The environment is made in the loop.
IterationStarts == NewEnvironment

NextIteration ==
  /\ IterationOver
  /\ outer' = Smaller(outer + 1, MEDIUM_UNTIL)
  /\ rollout' = 0
  /\ IterationStarts

TNext == RolloutBegins \/ RolloutEnds \/ NextIteration

\* One sequential loop.
TSpec == TInit /\ [][TNext]_tvars /\ WF_tvars(TNext)

-----------------------------------------------------------------------------
\* train.py:495 and README.md:216: from the last stage on, difficulty adapts
\* to the agent.  An agent that is always right gets, in that stage, an
\* episode that is harder than the easiest.
AdaptiveStageAdapts ==
  <>(AdaptiveStage /\ running /\ \E a \in Axes : playing.level[a] > 0)
=============================================================================
