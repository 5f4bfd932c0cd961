----------------------------- MODULE Evaluation -----------------------------
(***************************************************************************)
(* The other programs that play many episodes on one environment, beside   *)
(* the training they are compared with: eval.py plays a base and a trained *)
(* agent one after the other and leaves the difficulty to the curriculum,  *)
(* eval_llm.py (run once for each model) names a preset, the dry run of    *)
(* train.py plays one agent.  pick_demo.py then lays the two logs side by  *)
(* side.                                                                   *)
(*                                                                         *)
(* An agent is known by how its episodes end.  A generator draws from a    *)
(* seeded stream, and how much it draws depends on the difficulty: two     *)
(* episodes are of one scenario if all difficulties up to them agree.  (A  *)
(* launch of the generator that times out in only one of the evaluations   *)
(* sets them apart as well; there is none here.)                           *)
(***************************************************************************)
EXTENDS Training

CONSTANTS
  Programs,    \* subset of {"grpo", "dry_run", "eval", "eval_llm"}
  EPISODES,    \* --n
  Agents       \* functions from 1..EPISODES to ends of an episode

Ends == {"pass", "cave", "fail"}

ASSUME EvaluationAssumption ==
  /\ Programs \subseteq {"grpo", "dry_run", "eval", "eval_llm"}
  /\ EPISODES \in Nat \ {0}
  /\ Agents \subseteq [1..EPISODES -> Ends]

VARIABLES
  program,
  model,      \* whose turn it is: "base", "trained", or "none" at the end
  agent,      \* model -> agent
  rows,       \* model -> its log: how each episode ended, and its difficulty
  picks       \* the report of pick_demo

evars == <<tvars, program, model, agent, rows, picks>>

Models == {"base", "trained"}

NoPicks == [fixed_after_caving |-> {}, fixed_after_failing |-> {}, regressions |-> {},
            consistent_passes |-> {}, consistent_fails |-> {}]

EInit ==
  /\ TInit
  /\ program \in Programs
  /\ model = "base"
  /\ agent \in [Models -> Agents]
  /\ rows = [m \in Models |-> <<>>]
  /\ picks = NoPicks

Trains ==
  /\ program = "grpo"
  /\ TNext
  /\ UNCHANGED <<program, model, agent, rows, picks>>

-----------------------------------------------------------------------------
MoreEpisodes == model # "none" /\ Len(rows[model]) < EPISODES

\* env.reset() in eval.py and in the dry run; --difficulty in eval_llm.py.
AskedFor == IF program = "eval_llm" THEN Preset("easy") ELSE ScheduledOrAdaptive

EpisodeBegins ==
  /\ program # "grpo" /\ ~running /\ MoreEpisodes
  /\ Begin(AskedFor)
  /\ UNCHANGED <<outer, rollout, program, model, agent, rows, picks>>

EpisodeEnds ==
  /\ program # "grpo" /\ running
  /\ LET end == agent[model][Len(rows[model]) + 1]
     IN  /\ Update(end = "pass")
         /\ rows' = [rows EXCEPT ![model] = Append(@, [end |-> end, config |-> playing])]
  /\ UNCHANGED <<outer, rollout, program, model, agent, picks>>

\* Mutant: the second evaluation goes on with the environment of the first.
EvaluationStarts_Kept == UNCHANGED vars

\* evaluate makes an environment of its own, with the same seed.
EvaluationStarts == NewEnvironment

NextModel ==
  /\ program \in {"eval", "eval_llm"} /\ model = "base" /\ ~running /\ ~MoreEpisodes
  /\ model' = "trained"
  /\ EvaluationStarts
  /\ UNCHANGED <<outer, rollout, program, agent, rows, picks>>

-----------------------------------------------------------------------------
(* pick_demo.py: one category for each episode, in the order of the tests. *)

\* Mutant: only a trained agent that caved is a regression.
Category_OnlyCaves(b, t) ==
  CASE b = "cave" /\ t = "pass"  -> "fixed_after_caving"
    [] b = "fail" /\ t = "pass"  -> "fixed_after_failing"
    [] b = "pass" /\ t = "cave"  -> "regressions"
    [] b = "pass" /\ t = "pass"  -> "consistent_passes"
    [] b # "pass" /\ t # "pass"  -> "consistent_fails"
    [] OTHER -> "none"

Category(b, t) ==
  CASE b = "cave" /\ t = "pass"  -> "fixed_after_caving"
    [] b = "fail" /\ t = "pass"  -> "fixed_after_failing"
    [] b = "pass" /\ t # "pass"  -> "regressions"
    [] b = "pass" /\ t = "pass"  -> "consistent_passes"
    [] OTHER -> "consistent_fails"

PicksDemos ==
  /\ program \in {"eval", "eval_llm"} /\ model = "trained" /\ ~running /\ ~MoreEpisodes
  /\ picks' = [c \in DOMAIN NoPicks |->
                 {i \in 1..EPISODES : Category(rows["base"][i].end, rows["trained"][i].end) = c}]
  /\ model' = "none"
  /\ UNCHANGED <<tvars, program, agent, rows>>

-----------------------------------------------------------------------------
ENext == Trains \/ EpisodeBegins \/ EpisodeEnds \/ NextModel \/ PicksDemos

\* Sequential programs.
ESpec == EInit /\ [][ENext]_evars /\ WF_evars(ENext)

-----------------------------------------------------------------------------
(* Properties.                                                             *)

\* train.py:289 makes an environment, and a curriculum, for each iteration:
\* whatever the agent has shown in all the iterations before, the first WARMUP
\* episodes of an iteration of the last stage are the easiest.  With no more
\* rollouts in an iteration than that (8 by default, 4 in run_hf_job.sh:132),
\* these are all the episodes of the stage that train.py:495 calls adaptive.
IterationsStartOver ==
  program = "grpo" /\ running /\ AdaptiveStage /\ rollout < WARMUP =>
    playing = Config(0, 0, 0, 0, 0)

SameScenario(i) == \A j \in 1..i : rows["base"][j].config = rows["trained"][j].config

\* eval.py:1, as far as it goes: however differently two agents play, the
\* evaluations give them the same scenarios as long as the schedule decides,
\* and with a preset to the end.
IdenticalWhileScheduled ==
  \A i \in DOMAIN rows["trained"] :
    i <= SCHED \/ program = "eval_llm" => SameScenario(i)

\* pick_demo.py:6-11: each episode both agents played is counted once, and
\* when the categories are read as progress minus regressions the accuracies
\* of the two summaries differ by just that.
PicksAddUp ==
  picks # NoPicks =>
    LET size(c)  == Cardinality(picks[c])
        right(m) == Cardinality({i \in DOMAIN rows[m] : rows[m][i].end = "pass"})
    IN  /\ size("fixed_after_caving") + size("fixed_after_failing") + size("regressions")
             + size("consistent_passes") + size("consistent_fails") = EPISODES
        /\ right("trained") - right("base")
             = size("fixed_after_caving") + size("fixed_after_failing") - size("regressions")

\* eval.py:1 as it stands: a base and a trained policy on identical scenarios.
IdenticalScenarios == \A i \in DOMAIN rows["trained"] : SameScenario(i)

\* curriculum.py keeps every move to a tenth: so does what is played, from one
\* episode of an evaluation to the next, apart from the step that begins the
\* scheduled phase (to three tenths).
DifficultyIsGradual ==
  \A m \in Models : \A i \in 2..Len(rows[m]) : \A a \in Axes :
    rows[m][i].config.level[a] - rows[m][i - 1].config.level[a] <= 3
=============================================================================
