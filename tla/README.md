# A verification project for the adversarial-reasoning code debugger

The repository is a training environment for language models. A *scenario* is a
small Python function with one injected bug and a user who claims to know where
the bug is and may be wrong. In at most twelve turns an *agent* calls tools
(`run_tests`, `run_code`, `read_code`, `apply_fix`, `submit_fix`); the user
pushes back at certain calls; at the end four graders score what the agent did,
and an adaptive curriculum chooses the difficulty of the next episode. Around
this engine are a generator of scenarios, an HTTP server with one environment
per session and a websocket endpoint, a client, a sandbox that runs the debugged
program, a parser for model output, a rollout loop, a training loop, evaluation
scripts, and a job script that strings them together on rented machines.

This directory holds TLA+ modules of those parts, TLC configurations that check
them on small instances, and TLAPS proofs of what matters most for every
instance. Paths below are relative to `src/`.

## 1. Inventory

| component | state it keeps | operations | what is hard | what makes it correct |
|---|---|---|---|---|
| Environment, `server/environment.py` | scenario, runner, turn, calls on record, edited lines, turns of user messages, index of the next follow-up, `_submitted` | `reset`, `step` (one handler per tool, submit), `_maybe_inject_followup`, `_finalize` | the order of record, follow-up and turn limit in one step; steps that raise halfway; steps after the end; two calls at once, unlocked; records read by four graders | one verdict, on the final program; messages in order, each at its trigger; books that agree also when calls overlap |
| Graders, `server/graders/` | none | `grade_fix`, `grade_investigation`, `grade_resistance`, `anti_cheat` | each reads another record with another index base | no pay for caving or farming |
| CodeRunner, `server/tools/code_runner.py` | the program text | `apply_fix`, `run_code`, `run_tests` | edits shift lines | a verdict for every test |
| Sandbox, `code_runner.py`, `_sandbox_worker.py` | list of results shared with a thread, or a child process | launch, time-out, kill or pad, collect | a timer against a worker at any point; a thread that cannot be stopped; a program that prints where the worker responds, or ends its worker | for a program that leaves stdout alone every test answered, by its own answer; no worker left; the caller returns |
| Scenario generator, `server/generator/`, `server/misconception_engine.py` | a seeded `Random` | `generate`, its launches, its retry | what is drawn next depends on what a launch said | a seed decides the scenarios; failing inputs fail; the graders are told what the user was told |
| Curriculum, `server/curriculum.py` | axis levels, follow-up count, three kinds of windows, round-robin index | `get_difficulty`, `update` | effects after hundreds of episodes | levels in range, one nudge per episode and for cause, up for the able and down for the failing |
| Session store, `server/app.py` | two dictionaries under one lock | create, get, delete, expiry, displacement | two maps with one key set; a limit | keys agree, bounded, eviction for cause |
| HTTP server and client, `server/app.py`, `client.py` | the store, requests in threads, the id a client holds | `/reset`, `/step`, `/state`, `DELETE /session/{id}`, `/ws`; time-outs of the client | a request is several store calls; a request goes on when its client has given up | environments are private; a held id works |
| Parser and rollout, `server/action_parser.py`, `server/rollout.py` | prompt history | `parse_action`, one episode, n episodes; the heuristic policy | four sources of an action, defaults, exceptions inside the loop | the header decides, guesses are warned about, loop and environment agree on the end |
| Training loop, `train.py` | iteration, stage, trainer, checkpoints | one environment per iteration; save every few | what lives how long | what an iteration starts from; the trained model is kept |
| Evaluation, `eval.py`, `eval_llm.py`, `pick_demo.py` | two logs | a base and a trained agent on an environment each; a report on the pair | two runs that are compared episode by episode | the same scenarios for both; a report that adds up |
| Jobs, `scripts/run_hf_job.sh`, with `sft_warmup.py` | an empty disk per job, a results repository that stays | stages, exit trap, download of the warm-up | a failure or kill at any command, within a save too; stages repeated; copies that fail unnoticed | no training without the weights of a warm-up, nor with part of one unless a save or a copy of it broke off; little is lost; retries get through |

How they interact: a job runs the warm-up, the training and the evaluations; the
training and the evaluations call the rollout, the rollout calls the parser and
`env.step`; the environment calls the runner, the runner launches the sandbox,
`_finalize` calls the graders and `curriculum.update`, `reset` calls
`curriculum.get_difficulty` and the generator, which launches the sandbox too.
The server holds many environments and calls them from a pool of threads; a
websocket has one of its own. Everything is a direct call, apart from HTTP, the
sandbox's process or thread, the pool, and the files that jobs leave.

Not modelled:

- the fine-tuning of `sft_warmup.py`, and the GRPO update and scoring of sampled
  completions in `train.py`: numerics on a GPU. Only when they read and write
  files is in `HfJob`;
- the wording of prompts, misconceptions and chat templates, and the returns-to-go
  that `rollout.py` computes for the update: no control depends on them;
- `plot_results.py` and the notebook `arg_colab.ipynb`, which draw curves or
  repeat the scripts' commands; `Dockerfile`, `openenv.yaml`, `pyproject.toml`;
- the JSON templates, which are data. `Generator` takes functions and bugs as a
  constant. One thing met on the way: the curriculum moves `bug_subtlety`
  (README.md:230, "how subtle the injected bug is"), and nothing in the
  generator reads it, so the model's difficulty does not have it.

`PROJECT.json` lists every component and every hazard with its line.

## 2. Modules

| module | models | how |
|---|---|---|
| `CodeRunner` | the program and `apply_fix`, `run_tests`, `submit_fix` | operators. A line has the number it was born with and what it does to the function; tests fail on the failing inputs of the bug |
| `Graders` | the four graders and the reward | operators on the recorded calls, in exact fixed point |
| `Environment` | one environment with its client and curriculum | `Reset`; `RunTestsTool`, `RunCodeTool`, `ApplyFixTool`, `OtherTool`, `Submit`, each a whole call of `step`, `_finalize` included |
| `EpisodeProtocol` | abstract: what an episode promises | `Begin`, `Act`, `End` |
| `SharedEnvironment` | the same environment when calls overlap, over HTTP, or come one by one, over the websocket | a call of `reset` or `step` is several actions of a thread, cut where CPython may run another thread: at calls, at their returns and at jumps. One action per stretch; `ToolCallRaises`, `StepRaises`, `GenerateRaises` and `MessageIsGone` where a call may raise |
| `Curriculum` | `AdaptiveCurriculum` | `BeginAdaptive`, `BeginPreset` (a reset), `Finish` (an update). Levels are tenths; a choice between equal values is open because float residue makes it |
| `Training` | the outer loop of `run_grpo_training`, on `Curriculum` | `RolloutBegins`, `RolloutEnds`, `NextIteration`, which makes a new environment |
| `Evaluation` | `eval.py`, `eval_llm.py`, the dry run and `pick_demo.py`, on `Training` | `EpisodeBegins`, `EpisodeEnds`, `NextModel`, `PicksDemos`; an agent is a function from episodes to how they end |
| `Generator` | `CodeDebuggerGenerator` under the two evaluations of `eval.py` | `PickBug`, `EvaluateTests`, `QuoteFailure`, `Render`. `Random` is a sequence of draws: any draw is possible, but the same draws after the same seed are followed by the same draw |
| `SessionStore` | `_SessionStore` | one action per locked method; ids are numbers handed out once, as uuid4 is |
| `SessionServer` | the handlers and the clients, on `SessionStore` | one action per store or environment call of a request; `Send`, `GiveUp`, `Reply` for the client |
| `Grading` | abstract: what a launch promises its caller | `Ask`, `Answer` |
| `Sandbox` | caller and worker, process and threaded mode | `Call`, `Collect`, `TimeoutKills`, `TimeoutPads`, one `Pad` per round of the loop, `Judge`, `LaunchFails`; where the caller gets an exception `LaunchRaises`, `CollectRaises`, `JudgeRaises`; `Load`, `GiveAnswer`, `Finish`, `Spin`, `Quit`, `Crash` of the worker |
| `ActionParser` | `parse_action` | operators on what its patterns find in a text |
| `Rollout` | `rollout_one_episode`, `rollout_n_episodes`, `_truncate_history`, and the heuristic of `rollout.py` | one action per outcome of a turn, exceptions included |
| `HfJob` | the job script, its trap, the results repository, and the programs it runs as far as their files go | one action per command of the script, per iteration of `train.py`, and two per save, which begins and ends; `Fails` and `Killed` at any of them; the trap `Publishes`, or `PublishesPart` after a copy that failed |
| `MC*` | small instances of the above | sets given to constants |
| `*_proofs` | theorems | see section 5 |

Definitions marked "Mutant" are plausible bugs of the definition that follows
them; no specification uses them. Each checked property is violated when its
mutant takes the place of that definition.

Abstractions worth knowing. `Environment` takes the outcome of a launch (`ran`,
`TIMEOUT`, `ERROR`) as one value for all tests; `Sandbox` shows by
`KeepsItsPromise` that this is so for the process sandbox, the default, as long
as the program prints no response of its own and the launch raises nothing, and
`Generator` relies on it too. The threaded one (`ARG_SANDBOX_THREADED=1`, which
README.md:127 suggests for dry runs) mixes answers and TIMEOUT and is modelled
in `Sandbox` alone. `SharedEnvironment` leaves out the scores and the results of
launches, which `Environment` has; over HTTP its launches may raise, and so may
an argument of another type than its users expect, while over the websocket
arguments are well-typed and launches start (an exception there ends the handler,
and its environment with it). It cuts `_finalize` at its launch and between its
reading of the records and its report to the curriculum. `HfJob` sees a model as
its weights and what is saved with them: a save that breaks off, or a copy,
leaves weights that nobody looks into. `Rollout` keeps of the environment only the turn limit and what makes a
step raise. `SessionServer` keeps an environment call atomic: it asks whose calls
meet in an environment, and `SharedEnvironment` what they do to each other there.
`Evaluation` takes two episodes to be of one scenario when all difficulties up to
them agree; `Generator` shows by `SeedDecidesScenario` when that is so. In
`Curriculum` the counter `steps` stops at the end of the schedule, past which
nothing distinguishes its values.

## 3. Runs

| run | question | bounds, and why they are enough |
|---|---|---|
| `env_play` | do messages, graders and verdict fit together in every episode, and does the environment implement `EpisodeProtocol`? | two episodes of four turns, the first perhaps abandoned; two lines (the bug and the line the user names), two tests, three follow-ups, the emotional one from turn 3, edits that fix or break, launches that time out: time for each trigger and for a wrong input before it, and the edits, calls and endings the graders tell apart |
| `shared_env` | what is left of an episode's books when two threads step and reset one environment at once, and do the split calls keep the protocol behind the websocket, where they cannot overlap? | two threads, two turns, two messages, two resets, two lines, arguments and launches that raise: enough for two steps to find one message due, for edits of one line to overwrite each other, for a step to outlive its episode and for steps after the end |
| `curr_small` | is the controller safe, does it lead a failing agent back? | two axes, windows of 3 and 2, any results, a preset, repeated grading: windows fill and overflow, both axes meet their caps |
| `train_long` | what does an agent that is always right play in the iterations that are to adapt, do two evaluations give two agents the same scenarios, does the report on them add up? | the code's own constants: eight rollouts per iteration, stages that end at iterations 50 and 150 (after that iterations are alike); evaluations of 100 episodes (the default), by pairs of agents that pass, fail and cave in different orders |
| `gen_pair` | does a seed decide the scenarios, retries included, and is every scenario one the environment and its graders can rely on, late launches included? | two evaluations of two episodes; two functions, with a bug that no test notices (so `generate` calls itself again), one that hangs, and no known line to blame; one late launch anywhere |
| `gen_hangs` | violation, see section 4 | `binary_search` with its bug of line 11, launches in time |
| `sess_server` | are sessions private, is a held id good, does the store lose a session only for cause? | two clients, two threads, room for two of three sessions, TTL 1 of two ticks: expiry, displacement and deletion all meet requests in flight. Clients and threads are symmetric, and only safety is checked |
| `sess_stale` | violation, see section 4 | |
| `box_launches` | does every launch give every test its own answer, is the process sandbox `Grading`, does the caller always return? | both modes, three tests, programs that answer, raise, hang, end their worker, print (noise, or what may be read as a response) or do not load; the timer, a crash or a start that fails or raises at every point; call after call |
| `roll_play` | does the parser follow the header, warn when it guesses, and does every episode end with a verdict? Is the heuristic clean, and done by its fifth action? | five turns, two of them kept in the prompt; the first completion of a model is any of some 14 000 combinations of names (up to two per pattern), keywords, bare calls and kinds of arguments, the others those of a model that keeps to the format but not always to types |
| `job_retries` | what warm-up does GRPO start from, does a failure lose little, and does a training get through that is tried again and again? | jobs of any stage one after another, up to four failures, kills, failed copies or failed uploads at any command, within a save too; seven iterations saved every three, so that there are two saves and the last one and the end differ |
| `job_final` | violation, see section 4 | a job that nothing fails |

Each module of a component states its type invariant, `TypeOK`. All are proved
(section 5); `env_play` checks that of `Environment`, and the others hold when they
are added to the runs of their modules.

`CHECK_DEADLOCK FALSE` stands where the client may stop after its last episode,
where an evaluation ends, where the bounds on sessions and time end every
behaviour, or where an exception ends the run. Bounds that are the model's own,
and not the code's, are `MaxResets`, `MaxOverrun`, `MaxCreates`, `MaxClock`,
`MaxFaults`, `MAX_DRAWS` and `MAX_LATE`; they are in guards.

Fairness. `Environment`: a client that began an episode goes on until it is
done, as the loop of `rollout_one_episode` does. `SharedEnvironment`: a thread
runs its request to the end, and a websocket client keeps acting; nobody owes a
reset. `Curriculum`: episodes are begun and finished again and again; presets
are never owed. `Training`, `Evaluation` and `Rollout`: sequential programs, and
a policy that answers. `Sandbox`: only the caller, whose timer is the operating
system's; nothing is assumed of the worker, which may hang (in the threaded mode it
has to let go of the interpreter lock: a loop inside one builtin call would not). `HfJob`: a job runs
by itself, and its owner submits the stage that is missing again and again
(strong fairness, since other jobs run in between), which is what HF_JOBS.md
advises; failures are bounded in number and never owed. `Generator` and
`SessionServer`: safety is checked without fairness; for `sess_stale` the pool
serves every request and a client that needs a session keeps asking (strong
fairness, since threads may be busy in between).

## 4. Where the code and its documents disagree

Backed by a run (`PROJECT.json` quotes the lines):

- **A client stuck with a dead session** (`sess_stale`). `reset()` sends the id
  it holds, raises on the 404 and keeps the id.
- **A training that cannot save what it trained** (`job_final`). `del trainer` at
  the end of every iteration unbinds the name that the final save uses: after the
  last iteration `train.py` raises, no adapter is written or pushed, and the job
  ends before its evaluation. The last checkpoint remains.
- **Failing inputs that do not fail** (`gen_hangs`). All tests of a bug go into
  one launch; if one of them hangs, all are reported as failing. Three of the
  shipped bugs hang (`binary_search` at lines 9 and 11, `merge_sorted` at line 8):
  the user may complain of an input that works, and running any input earns the
  bonus for a failing one.

Stated in the modules but in no run of the set; each is violated when it takes the
place of the properties of the configuration named (as an INVARIANT unless it says
otherwise). Several are a property that is run without the conditions it is run with:

| definition | what the code does | to see it |
|---|---|---|
| `OneVerdictPerEpisode` (`Environment`) | a step after done is graded and reported to the curriculum again | `MCEnvPlay.cfg` with `MaxOverrun = 1` |
| `GradedMessagesWereHeard` | a follow-up triggered by the call of the last turn enters the record, the limit then ends the episode without showing it, and the resistance grader charges 0.15 for leaving it unanswered | `MCEnvPlay.cfg` |
| `BonusOnlyOnBugLine` | the near-bug bonus also goes to a fix beside the bug line (`investigation_grader.py:53` says on it) | `MCEnvPlay.cfg` |
| `CavedLeavesBugInPlace` | an edit with a newline shifts the lines; who then edits the bug at its new place is graded as caving | `MCEnvPlay.cfg` with `NLines = 3`, `FixLines = {0, 1, 2, 3}`, `FixEdits = {"split", "junk"}` |
| `OneVerdictPerEpisode`, `VerdictIsFresh` (a PROPERTY), `StaleStepsStayOut`, `MessagesAreDelivered`, `ScenarioHasItsProgram` (`SharedEnvironment`) | two calls at once: both finalize; the program changes while its tests run; a step that began before a reset writes into the records after it; two replies carry one message, or none does; two resets leave the scenario of one with the program of the other | `MCShared.cfg` with `Servers = {"http"}` |
| `LimitIsMet`, `CallsAreRecorded` | a step that raises (a `new_code` or an `input_value` of another type, a launch that does not start) has moved the turn and the log, but leaves no record and does not look at the limit: an episode is past its turns without a verdict | `MCShared.cfg` |
| `MessagesAreCounted` | between `_consume` and the record of its message another thread resets, and the message is on the record of the new episode, which has consumed none | `MCShared.cfg` |
| `GradedEditsAreListed` (a PROPERTY) | between the return of `apply_fix` and the note of its line another thread grades, and the edit is not seen | `MCShared.cfg` |
| `AdaptiveStageAdapts` (`Training`, a PROPERTY) | every iteration builds a new environment and with it a new curriculum, which plays the easiest level for its first 30 episodes (`IterationsStartOver`, which is run); with 8 rollouts per iteration, the default, the "adaptive" stage is the easiest difficulty for ever | `MCTrainLong.cfg` with `Programs = {"grpo"}` |
| `EveryAxisGetsBumped` (`Curriculum`, a PROPERTY) | once one axis has results on both sides, the round robin that "guarantees every axis" its bump is not reached | `MCCurrSmall.cfg` with `AxisOrder <- AllAxes`, `HISTORY = 2`, `Results = {TRUE}`, `WARMUP = 0`, `SCHED = 0` |
| `IdenticalScenarios`, `DifficultyIsGradual` (`Evaluation`) | `eval.py` leaves the difficulty to the curriculum, which follows the results from episode 81 on (100 is the default); up to then it moves the axes unseen, so that what is played jumps at episode 81 | `MCTrainLong.cfg` with `Programs = {"eval"}` |
| `IdenticalScenarios` (`Generator`) | a launch that is late in one evaluation changes what is drawn from, and with it every later scenario | `MCGenPair.cfg` |
| `ResetNeverRefused` (`SessionServer`) | another create displaces the session between create and get of a reset, which is answered 404 | `MCSessServer.cfg` with `MAX_SESSIONS = 1` |
| `LegacyStepServed` | a step without an id goes to a default environment that no reset reaches | `MCSessServer.cfg` with `LegacyClients = {c1}` |
| `ExpiredStaysUnused` (a PROPERTY) | `get` serves and renews a session past its TTL | `MCSessServer.cfg` |
| `PadsOnlyMissing` (`Sandbox`) | the padding loop takes note once of who has answered, while the thread goes on appending; `run_tests` keeps the last entry, and a test that passed is reported as timed out | `MCBoxLaunches.cfg` |
| `FinishedWorkerIsUnderstood` (a PROPERTY) | a program that prints garbles the response of its worker, and all tests are errors | `MCBoxLaunches.cfg` |
| `OnePerExpression` | "one per expression in input order" (`_sandbox_worker.py:15`) fails for an exception that no `except Exception` stops in the thread, and for a program that prints what is read as the response, also when it died (`code_runner.py:77`) | `MCBoxLaunches.cfg` |
| `LaunchesNeverRaise` | a launch that goes wrong is to be an error for each expression (`code_runner.py:70-85`); only `FileNotFoundError` is caught, and a response that is no object of lists is not expected | `MCBoxLaunches.cfg` |
| `EpisodesAreScored` (`Rollout`) | a `run_code` whose `input_value` is a list is recorded, and `arg in failing` raises when the episode is to be graded | `MCRollPlay.cfg` |
| `EditsAreNotFabricated` | an `apply_fix` without `new_code` blanks the line | `MCRollPlay.cfg` |
| `JsonOnlyIsUnderstood` | arguments nested under `tool_args` are lost | `MCRollPlay.cfg` |
| `IntentIsNotSubmission` | a text that only announces submit_fix ends the episode | `MCRollPlay.cfg` |
| `ModelHasCode` | when the first turn is truncated from the history the prompt has no code | `MCRollPlay.cfg` |
| `GrpoStartsWhole` (`HfJob`) | a job that dies within `save_model` leaves `model.safetensors` cut off or alone; its trap uploads that, and the next job, which looks for the file only, starts from it | `MCJobRetries.cfg` |
| `WarmupStays` (a PROPERTY) | the same job writes its half over the whole warm-up of an earlier one | `MCJobRetries.cfg` |
| `CheckpointsStay` (a PROPERTY) | likewise for an `iter-N` of an earlier job | `MCJobRetries.cfg` |
| `UploadsSaveAll` | a failing `cp` of the trap is silenced, and the upload goes on without the files (`run_hf_job.sh:168` and `171`) | `MCJobRetries.cfg` |
| `StagesSucceed` | `STAGE=eval` looks for a model that no job has downloaded; `STAGE=grpo` ends in the error of `train.py:440` | `MCJobRetries.cfg` |
| `TrainsOnWhatItGenerated` | the second call of `sft_warmup.py` has no `--n` and writes 200 episodes over the 400 | `MCJobRetries.cfg` |
| `LogCoversCheckpoints` | a retry that fails early uploads a shorter log over a longer one | `MCJobRetries.cfg` |

## 5. Theorems

For every value of the constants that meets the named assumptions:

| module | theorem | says |
|---|---|---|
| `Environment_proofs` | `EnvironmentTypes` | `[]TypeOK` |
| | `Heard` | `[]HeardInOrder`, steps after the end included |
| | `PushbackIsTriggered` | `[]PushbackFollowsItsTrigger` |
| | `VerdictIsFresh` | `[]FreshVerdict` |
| | `CavingForfeits` | `[]CaveForfeitsBonus` |
| | `FixAndCaveApart` | `[]FixAndCaveSeparated`: the reward of whoever caved is below zero, that of a submitted fix without repeats above it |
| | `FarmingPaysNothing` | `FarmingNeverPays` |
| | `ResistanceIsWaiting` | `[]ResistanceCountsTurns` |
| | `StepsFollowProtocol` | for a client that stops at done (`MaxOverrun = 0`), every step is a step of `EpisodeProtocol` or a stutter |
| `SharedEnvironment_proofs` | `LimitKept` | `[]LimitIsKept`, for any number of threads: a used-up episode has a verdict unless a step of its last turn raised |
| | `MessagesConsumedOnce` | `[]ConsumedOnce`, unless a reset came in the middle of a step |
| | `EditsOnRecord` | `[]EditsAreOnRecord`: each changed line is listed, or its `apply_fix` is about to be |
| | `EveryTurnRecorded` | `[]EveryTurnOnRecord`: the calls in the log are on record, but for those that raised |
| | `WebsocketKeepsPromise` | behind the websocket every step of the split calls is a step of `EpisodeProtocol` or a stutter |
| | `SharedKeepsTypes` | `[]TypeOK`: the log is as long as the turn counter says, no message has a turn from the future, a websocket has one call under way at most |
| `Curriculum_proofs` | `CurriculumSafe` | `[](TypeOK /\ FollowupsTrackConvincingness)` |
| | `NudgesOnly` | `OneNudge` |
| | `CurriculumSafeInPrograms` | the same of `CurriculumSafe` in the training and the evaluations (`ESpec`) |
| | `SameWhileScheduled` | `[]IdenticalWhileScheduled`, for any two agents and any number of episodes |
| | `ReportAddsUp` | `[]PicksAddUp` |
| | `StartsOver` | `[]IterationsStartOver`, for every `WARMUP`, all stages and any number of rollouts |
| `Generator_proofs` | `ScenariosAreSound` | `[](TypeOK /\ ScenarioIsSound)`, for any functions, bugs and difficulties |
| | `SeedDecides` | `[]SeedDecidesScenario`, for any number of episodes and of retries |
| `SessionServer_proofs` | `StoreSafe` | types, `KeysAgree` and `StoreBounded`, for every limit, 0 included |
| | `EvictsForCause` | `EvictedForCause` |
| | `ServerTypes`, `Privacy`, `HeldReady` | `[]TypeOK`, `[]SessionsArePrivate`, `[]HeldSessionIsReady`, for any number of clients and threads |
| | `ServerUsesStore` | the server is one more caller of the store: `StoreSpec`, and with it the store's invariants and `EvictedForCause` |
| `Sandbox_proofs` | `AllAnswered` | `[]EveryTestAnswered`, for any number of tests, both modes, every program that prints no response and, in the thread, does not end its worker |
| | `AnswersTrue` | `[]AnswersAreItsOwn`, for every program that prints no response |
| | `NoneOutlives` | `[]NoWorkerOutlivesItsCall` |
| | `StepsKeepPromise` | every step of the process sandbox is a step of `Grading` or a stutter; `Grading` leaves open what a program is told that prints a response |
| | `BoxKeepsTypes` | `[]TypeOK`: at most two entries for each expression, one from a process |
| `Rollout_proofs` | `RolloutTypes` | `[](TypeOK /\ LoopEndsWithVerdict)` |
| | `HeaderObeyed`, `FallbackWarned`, `CleanComplete` | `[]HeaderDecides`, `[]FallbackIsWarned`, `[]CleanMeansComplete`, for any set of completions |
| | `HeuristicPlays` | `[]HeuristicIsClean`, for any limit of at least four turns |
| `HfJob_proofs` | `GrpoWarm` | `[]GrpoStartsWarm`, for any jobs, iterations and failures: there are weights, and all of the warm-up unless a save or a copy of one has broken off |
| | `WarmupKept` | `WarmupIsNotLost`: a whole warm-up leaves the repository only by such a job's upload |
| | `LittleIsLost` | `[]CrashLosesLittle`, for every `SAVE_EVERY`: of a job whose trap copied and uploaded, less than `SAVE_EVERY` iterations; of one whose copies failed, nothing of `artifacts/` |
| | `JobKeepsTypes` | `[]TypeOK`: no run goes past the iterations asked for, nor do its log and checkpoints |

The arguments. *Environment:* none of the properties is inductive alone. `IInv`
adds to the types that every edited line was asked for by a call on record
(which links the record one grader reads to the one another reads), that what
the client heard is what is on record until the turn limit (the message of the
call that ended the episode is all it can miss), that the verdict is the one the
tests give on the present program for some outcome of the launch, and that every
turn left one call on record. The claims about rewards rest on two more.
`ScoresInv` ties the scores a client is shown to the records they were made of,
with a step reward between the least and the most a step earns; what is left of
`FixAndCaveApart` is arithmetic on the bounds of the graders, each a lemma.
`LogInv` says how long the log is and that only the end of it is a submit, so that
the tool calls after a message are the turns after it, a count of an interval
(`ResistanceIsWaiting`). `FarmingPaysNothing` compares two scores of one state:
the calls with and without one more `run_code` differ in the repeats alone.

*Shared environment:* `LimitIsKept` speaks of states in which nothing is under
way. In between, `LimitWillBeKept` says that some thread is on its way to the look
at the limit or past it, or that one has raised with the turns used up. A thread whose
message another has taken raises too, and does not count, although it is no excuse, so
the case that needs care is the step that takes the last one: it is then on its way
itself. `ConsumedOnce` counts the threads between a message taken and its record.
`EditsAreOnRecord` needs, besides, that a runner no reset has put in place yet has a
number of its own, which no edit holds (`NewIsUnknown`); that rests on the number of resets under way (`RoomForResets`, by cardinalities), and that what a thread
took apart before an edit differs from the generated program only in lines on
record, or belongs to a runner that was replaced (`ReadIsOnRecord`).
`EveryTurnOnRecord` is the case with nothing under way of `RecordFollowsLog`: the
record lags behind the log by the steps that are between the two and by those that
raised there.
`WebsocketKeepsPromise` needs what holds because calls come one at a time and
fails over HTTP (`Serial`): a step runs in an episode that is not over, the message
it found due is still due when it consumes it, and a message consumed is heard
before the next is looked for.

*Server:* privacy needs the relation `Connected` of a client and an environment
(it ran on it, holds its id, or a thread carries the id for it) and that ids yet
to be handed out are connected to nobody; a held id is ready because a reset that
was answered left its environment ready (`ResetsReady`) and ids are never reused.
*Store:* `Create` removes before it adds, and the removed key is one of both maps
because the maps agree; a session is evicted for cause because what the store
notes is the true time of the last use (`StampsAreTrue`), so that the first in its
order is the least recently used. *Curriculum:* the follow-up count and its axis move in
one operation, and the case that needs the invariant is the axis at its cap.
*Evaluation:* `LogsInv` says whose log is complete at which point of the program,
`PlanInv` that the curriculum of an evaluation has counted the episodes in its log,
so that the difficulties the schedule decides follow from a position in the log
(`Planned`), whatever the results were. `ReportAddsUp` counts: the categories of
the report partition the episodes (`CategoriesPartition`), and the two accuracies
are unions of categories. `StartsOver` rests on the curriculum having counted no more
updates than the iteration has finished rollouts (`IterationInv`).

*Generator:* `IInv` says that the failing inputs at hand are those of the bug at
hand and that the one quoted is one of them; that no failure is left out, and that
whoever is wrong has another line to blame, rests on a lemma about putting a set in
order (`OrderedIsComplete`: ranks are a bijection). `SeedDecides` compares two runs,
and an invariant speaks of one state. So `SeedInv` says that there is a set of
snapshots of the base evaluation (`History`), closed under its steps (`Leads`),
and that the trained evaluation is at one of them: its next draw is in the stream,
so its next step is the one to the next snapshot. That needs, of every snapshot,
that its draws and scenarios are prefixes of the final ones and that the difficulty
it was asked for is that of the scenario that comes of it (`AskedFor`).

*Sandbox:* `BoxInv` joins three facts. Every entry of a list that is the sandbox's own
(`Genuine`) is a time-out, an error or what the program says of that input, padding
and late answers included; the answers that are not padding come in the order of the
tests; the padding loop has left no test behind it without an entry. The first gives
`AnswersAreItsOwn`, the other two `EveryTestAnswered` for each way a launch can end,
since a thread ends early only by its program's doing (`ProcessIsGone`). `StepsKeepPromise`
adds that the list of a process is the program's answers in order and nothing
else (`AnswersSoFar`), so that what a caller gets is all answers or one failure
throughout (`OneKind`); a thread has neither, and its verdicts do mix. How long the
list may grow (`BoxKeepsTypes`) is counted by who adds to it: the worker no more
answers than there are expressions, the padding loop one entry a round
(`LengthInv`).

*Rollout:* what the parser promises of one completion is a lemma about
`ParseAction`, and one invariant, `Parsed` (the action at hand is what the parser
made of the completion at hand), carries it to every state. For the heuristic the
invariant is `OnScript`: which records its actions have left decides which turn it
is at.

*Jobs:* a script is `WellOrdered` if each run of training comes right after a look
for the warm-up; that is shown once for the scripts and survives taking the first
command off. With it goes where half a warm-up can come from (`PartsAreExplained`): one
in the repository from a job that broke it off, one on a disk from the repository, from
a save under way or from one that broke off. `CrashLosesLittle` rests
on `SavedLast`: the last multiple of `SAVE_EVERY` up to where a run is, is a
checkpoint, and on a lemma that the next one falls due within `SAVE_EVERY`. The
counts stay in bounds because an iteration under way belongs to the command the
script is at (`IterationHasItsRun`), also when a job is killed within one.

Only model-checked. Liveness, which the prover does not cover: `EveryCallReturns`,
`EpisodesEnd`, `RecoversFromFailure`, `StagewiseTrains`, the
fairness parts of `ImplementsProtocol` and `KeepsItsPromise`. Every invariant and
action property of a passing run has its theorem. The history in `SeedInv` is a set
that exists, which TLC cannot look for; the other inductive invariants were checked
on the instances of the runs before they were proved.

## 6. Plan

Every component that keeps state has its module and runs, and the safety
properties the runs check are proved. What is left:

1. `Generator` composed with `Environment`: an episode on a scenario whose named
   failing inputs do not all fail, and what its graders pay then.
2. `SessionServer` composed with `SharedEnvironment`: which overlaps the
   time-outs of one client can cause, rather than any.
