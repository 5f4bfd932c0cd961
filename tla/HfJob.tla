------------------------------- MODULE HfJob -------------------------------
(***************************************************************************)
(* scripts/run_hf_job.sh: warm-up, GRPO and evaluation as the stages of    *)
(* jobs that start on an empty disk.  What outlives a job is the results   *)
(* repository, which the exit trap uploads to, whatever ended the script;  *)
(* the next job takes the warm-up from there.  Any command may fail, and a *)
(* job may be killed at any point, trap and all.                           *)
(*                                                                         *)
(* The programs the script runs are seen from outside, by the files they   *)
(* leave and the order they leave them in: sft_warmup, the outer loop of   *)
(* train, eval_llm.  A save of a model begins and ends, and the job may    *)
(* die in between; an upload is one commit; a file of text, and a file     *)
(* that is downloaded, is there or not.                                    *)
(***************************************************************************)
EXTENDS Integers, Sequences

CONSTANTS
  Stages,        \* values of STAGE that jobs are submitted with
  SANITY_ITERS,  \* --outer-iterations of the sanity run, 30
  GRPO_ITERS,    \* OUTER_ITERATIONS, 100
  SAVE_EVERY,    \* --save-every, 10
  MaxFaults      \* bound: failures from outside, over all jobs

ASSUME JobAssumption ==
  /\ Stages \subseteq {"sft", "sanity", "grpo", "eval", "baseline", "all"}
  /\ SANITY_ITERS \in Nat /\ GRPO_ITERS \in Nat
  /\ SAVE_EVERY \in Nat \ {0} /\ MaxFaults \in Nat

VARIABLES
  phase,        \* of the job; the trap is set between "setup" and "running"
  todo,         \* commands the script has yet to finish
  status,       \* how the script ended
  faulted,      \* history: something from outside failed in this job
  published,    \* history: the trap of this job uploaded, "part" after a failed copy
  broken,       \* history: the weights of a warm-up were cut off or left alone,
                \* "now", by this job, or "before"
  data,         \* episodes in sft_data.jsonl
  warmup,       \* ckpts/sft-warmup: "none", "begun", without model.safetensors,
                \* "partial", with it but not all that is saved, or "complete"
  loaded,       \* train.py, per run: the model is loaded, the log opened
  outer,        \* train.py, per run: iterations completed
  updating,     \* train.py: within an iteration
  saving,       \* train.py: within the save of iter-N
  trainer,      \* train.py: whether the name is bound
  checkpoints,  \* iter-N directories in ckpts/phase4-real
  adapter,      \* an adapter in ckpts/phase4-real itself
  logged,       \* iterations in artifacts/phase4_train.jsonl
  results,      \* other files in artifacts/
  repo,         \* the results repository
  hub,          \* the final model is in the model repository
  faults

history  == <<faulted, published, broken>>
job      == <<phase, todo, status, history>>
training == <<loaded, outer, updating, saving, trainer, checkpoints, adapter, logged>>
disk     == <<data, warmup, training, results>>
outside  == <<repo, hub, faults>>
vars     == <<job, disk, outside>>

Runs == {"sanity", "grpo"}
Iters(run) == IF run = "sanity" THEN SANITY_ITERS ELSE GRPO_ITERS

EvalBase    == <<"eval_base", "summary_base">>
Sft         == <<"sft_generate", "sft_train", "sft_save", "sft_copy">>
Sanity      == <<"ensure", "sanity">>
Grpo        == <<"ensure", "grpo">>
EvalTrained == <<"eval_trained", "summary_trained">>

\* The case of STAGE, as the commands behind its functions.
Script(stage) ==
  CASE stage = "sft"      -> Sft
    [] stage = "sanity"   -> Sanity
    [] stage = "grpo"     -> Grpo \o EvalTrained
    [] stage = "eval"     -> EvalBase \o EvalTrained
    [] stage = "baseline" -> EvalBase
    [] OTHER              -> EvalBase \o Sft \o Sanity \o Grpo \o EvalTrained

Files == {"baseline.json", "baseline_episodes.jsonl", "sft_data.jsonl",
          "trained_results.json", "trained_episodes.jsonl"}

EmptyDisk ==
  /\ data' = 0 /\ warmup' = "none"
  /\ loaded' = [run \in Runs |-> FALSE] /\ outer' = [run \in Runs |-> 0]
  /\ updating' = FALSE /\ saving' = FALSE /\ trainer' = FALSE
  /\ checkpoints' = {} /\ adapter' = FALSE /\ logged' = 0 /\ results' = {}

Init ==
  /\ phase = "idle" /\ todo = <<>> /\ status = "none"
  /\ faulted = FALSE /\ published = "no" /\ broken = "never"
  /\ data = 0 /\ warmup = "none"
  /\ loaded = [run \in Runs |-> FALSE] /\ outer = [run \in Runs |-> 0]
  /\ updating = FALSE /\ saving = FALSE /\ trainer = FALSE
  /\ checkpoints = {} /\ adapter = FALSE /\ logged = 0 /\ results = {}
  /\ repo = [warmup |-> "none", checkpoints |-> {}, adapter |-> FALSE,
             logged |-> 0, results |-> {}]
  /\ hub = FALSE /\ faults = 0

-----------------------------------------------------------------------------
(* The job.                                                                *)

\* A container of its own; clone, apt-get and pip follow.
Submit(stage) ==
  /\ phase = "idle"
  /\ phase' = "setup" /\ todo' = Script(stage) /\ status' = "none"
  /\ faulted' = FALSE /\ published' = "no"
  /\ broken' = IF broken = "now" THEN "before" ELSE broken
  /\ EmptyDisk
  /\ UNCHANGED outside

\* From here on the trap runs at exit.
SetUp ==
  /\ phase = "setup"
  /\ phase' = "running"
  /\ UNCHANGED <<todo, status, history, disk, outside>>

At(command) == phase = "running" /\ todo # <<>> /\ Head(todo) = command

\* set -e: the next command only after a success, the trap after a failure.
Goes == todo' = Tail(todo) /\ UNCHANGED <<phase, status>>
Exits(result) == phase' = "exiting" /\ status' = result /\ UNCHANGED todo

ScriptEnds ==
  /\ phase = "running" /\ todo = <<>>
  /\ Exits("ok")
  /\ UNCHANGED <<history, disk, outside>>

-----------------------------------------------------------------------------
(* sft_warmup.py                                                           *)

\* --generate-only --n 400
SftGenerates ==
  /\ At("sft_generate") /\ Goes
  /\ data' = 400
  /\ UNCHANGED <<history, warmup, training, results, outside>>

\* The call that trains has no --n: it generates 200 episodes of its own over
\* the same file, then creates the directory its checkpoints go to.
SftTrains ==
  /\ At("sft_train") /\ Goes
  /\ data' = 200 /\ warmup' = "begun"
  /\ UNCHANGED <<history, training, results, outside>>

\* save_model: from the first byte of model.safetensors ...
SftBeginsSave ==
  /\ At("sft_save") /\ warmup = "begun"
  /\ warmup' = "partial"
  /\ UNCHANGED <<job, data, training, results, outside>>

\* ... to the last of the files that are saved with it.
SftSaves ==
  /\ At("sft_save") /\ warmup = "partial" /\ Goes
  /\ warmup' = "complete"
  /\ UNCHANGED <<history, data, training, results, outside>>

SftCopies ==
  /\ At("sft_copy") /\ Goes
  /\ results' = results \cup {"sft_data.jsonl"}
  /\ UNCHANGED <<history, data, warmup, training, outside>>

\* Mutant: any directory of that name will do.
Usable_AnyDirectory(w) == w # "none"

\* model.safetensors is in the directory itself; nothing looks into it.
Usable(w) == w \in {"partial", "complete"}

\* What a directory holds after files are copied over those of their names.
\* Weights that are cut off replace good ones: the worst a part can do.
Merged(there, copied) ==
  IF copied = "none" \/ (copied = "begun" /\ there # "none") THEN there ELSE copied

\* ensure_sft_warmup: local, else downloaded, else fatal.
EnsuresWarmup ==
  /\ At("ensure")
  /\ warmup' = IF Usable(warmup) THEN warmup ELSE Merged(warmup, repo.warmup)
  /\ IF Usable(warmup') THEN Goes ELSE Exits("error")
  /\ UNCHANGED <<history, data, training, results, outside>>

-----------------------------------------------------------------------------
(* train.py: run_grpo_training; the run is "sanity" or "grpo".             *)

\* The warm-up loads, and the log is opened for writing, which empties it.
Loads(run) ==
  /\ At(run) /\ ~loaded[run] /\ Usable(warmup)
  /\ loaded' = [loaded EXCEPT ![run] = TRUE]
  /\ logged' = IF run = "grpo" THEN 0 ELSE logged
  /\ UNCHANGED <<job, data, warmup, outer, updating, saving, trainer, checkpoints, adapter,
                 results, outside>>

\* from_pretrained raises on weights that are cut off or on a tokenizer that
\* is not there; what is missing may also be a file it does not read.
LoadFails(run) ==
  /\ At(run) /\ ~loaded[run] /\ warmup # "complete"
  /\ Exits("error")
  /\ UNCHANGED <<history, disk, outside>>

MoreIterations(run) == outer[run] < Iters(run)

\* Rollouts, a trainer of their own and its update, the log.
Updates(run) ==
  /\ At(run) /\ loaded[run] /\ MoreIterations(run) /\ ~updating
  /\ updating' = TRUE /\ trainer' = TRUE
  /\ logged' = IF run = "grpo" THEN outer[run] + 1 ELSE logged
  /\ UNCHANGED <<job, data, warmup, loaded, outer, saving, checkpoints, adapter, results, outside>>

SaveDue(n) == n % SAVE_EVERY = 0

\* The first byte of iter-N.
BeginsSave ==
  /\ At("grpo") /\ updating /\ ~saving /\ SaveDue(outer["grpo"] + 1)
  /\ saving' = TRUE
  /\ UNCHANGED <<job, data, warmup, loaded, outer, updating, trainer, checkpoints, adapter, logged,
                 results, outside>>

\* The checkpoint is whole, then del trainer.
EndsIteration(run) ==
  /\ At(run) /\ updating
  /\ run = "grpo" /\ SaveDue(outer[run] + 1) => saving
  /\ outer' = [outer EXCEPT ![run] = @ + 1]
  /\ checkpoints' = IF run = "grpo" /\ SaveDue(outer'[run])
                    THEN checkpoints \cup {outer'[run]} ELSE checkpoints
  /\ updating' = FALSE /\ saving' = FALSE /\ trainer' = FALSE
  /\ UNCHANGED <<job, data, warmup, loaded, adapter, logged, results, outside>>

\* After the loop, trainer.save_model and push_to_hub; an UnboundLocalError
\* when the name is unbound.
EndsTraining(run) ==
  /\ At(run) /\ loaded[run] /\ ~MoreIterations(run) /\ ~updating
  /\ IF trainer THEN Goes ELSE Exits("error")
  /\ adapter' = (run = "grpo" /\ trainer)
  /\ hub' = (hub \/ (run = "grpo" /\ trainer))
  /\ UNCHANGED <<history, data, warmup, loaded, outer, updating, saving, trainer, checkpoints,
                 logged, results, repo, faults>>

-----------------------------------------------------------------------------
(* eval_llm.py, on the base model or on what training left.                *)

Models == {"base", "trained"}
LogCommand(model)     == IF model = "base" THEN "eval_base" ELSE "eval_trained"
SummaryCommand(model) == IF model = "base" THEN "summary_base" ELSE "summary_trained"
LogFile(model)        == IF model = "base" THEN "baseline_episodes.jsonl" ELSE "trained_episodes.jsonl"
SummaryFile(model)    == IF model = "base" THEN "baseline.json" ELSE "trained_results.json"

\* Loads the model, plays the scenarios, writes the log of the episodes; no
\* model in the directory is an error.
EvalLogs(model) ==
  /\ At(LogCommand(model))
  /\ IF model = "trained" /\ ~adapter
     THEN Exits("error") /\ UNCHANGED results
     ELSE Goes /\ results' = results \cup {LogFile(model)}
  /\ UNCHANGED <<history, data, warmup, training, outside>>

\* Writes the summary.
EvalSummarises(model) ==
  /\ At(SummaryCommand(model)) /\ Goes
  /\ results' = results \cup {SummaryFile(model)}
  /\ UNCHANGED <<history, data, warmup, training, outside>>

-----------------------------------------------------------------------------
(* The end of a job.                                                       *)

\* Mutants: the trap forgets one of the two directories.
Copied_WarmupOnly ==
  [warmup |-> warmup, checkpoints |-> {}, torn |-> {}, adapter |-> FALSE]
Copied_CheckpointsOnly ==
  [warmup |-> "none", checkpoints |-> checkpoints, torn |-> {}, adapter |-> adapter]

\* What the trap copies into artifacts/ before it uploads that; a checkpoint
\* whose save was cut off is torn.
Copied ==
  [warmup |-> warmup, checkpoints |-> checkpoints,
   torn |-> IF saving THEN {outer["grpo"] + 1} ELSE {}, adapter |-> adapter]

\* What a directory of the warm-up may look like once part of it is copied.
Parts(w) ==
  CASE w = "none"    -> {"none"}
    [] w = "begun"   -> {"none", "begun"}
    [] w = "partial" -> {"none", "begun", "partial"}
    [] OTHER         -> {"none", "begun", "partial", "complete"}

\* Copies that failed on some file, the disk being full: 2>/dev/null || true.
CopiedInPart ==
  [warmup : Parts(Copied.warmup), checkpoints : SUBSET Copied.checkpoints,
   torn : SUBSET (Copied.checkpoints \cup Copied.torn), adapter : {FALSE, Copied.adapter}]

\* Mutant: the folder takes the place of the one that is there.
Uploaded_Replaces(copied) ==
  [warmup |-> copied.warmup, checkpoints |-> copied.checkpoints, adapter |-> copied.adapter,
   logged |-> logged, results |-> results]

\* upload_folder writes the files it has over those of their names, and
\* deletes none.
Uploaded(copied) ==
  [warmup      |-> Merged(repo.warmup, copied.warmup),
   checkpoints |-> (repo.checkpoints \ copied.torn) \cup copied.checkpoints,
   adapter     |-> repo.adapter \/ copied.adapter,
   logged      |-> IF loaded["grpo"] THEN logged ELSE repo.logged,
   results     |-> repo.results \cup results]

Publishes ==
  /\ phase = "exiting"
  /\ repo' = Uploaded(Copied) /\ published' = "all"
  /\ phase' = "idle"
  /\ UNCHANGED <<todo, status, faulted, broken, disk, hub, faults>>

\* The upload goes on without what could not be copied.
PublishesPart ==
  /\ phase = "exiting" /\ faults < MaxFaults
  /\ faults' = faults + 1
  /\ \E part \in CopiedInPart :
       /\ repo' = Uploaded(part) /\ published' = "part"
       /\ broken' = IF part.warmup = "partial" THEN "now" ELSE broken
  /\ phase' = "idle"
  /\ UNCHANGED <<todo, status, faulted, disk, hub>>

\* push_artifacts || echo: the job ends all the same.
UploadFails ==
  /\ phase = "exiting" /\ faults < MaxFaults
  /\ faults' = faults + 1
  /\ phase' = "idle"
  /\ UNCHANGED <<todo, status, history, disk, repo, hub>>

\* A command fails: out of memory, the network, an episode that raises.
\* During the set-up there is no trap yet.
Fails ==
  /\ phase \in {"setup", "running"} /\ todo # <<>> /\ faults < MaxFaults
  /\ faults' = faults + 1 /\ faulted' = TRUE
  /\ broken' = IF At("sft_save") /\ warmup = "partial" THEN "now" ELSE broken
  /\ phase' = IF phase = "setup" THEN "idle" ELSE "exiting"
  /\ status' = "error"
  /\ UNCHANGED <<todo, published, disk, repo, hub>>

\* hf jobs cancel, or the end of the budget: no trap, and the disk is gone.
Killed ==
  /\ phase # "idle" /\ faults < MaxFaults
  /\ faults' = faults + 1 /\ faulted' = TRUE
  /\ phase' = "idle" /\ status' = "error"
  /\ UNCHANGED <<todo, published, broken, disk, repo, hub>>

-----------------------------------------------------------------------------
Works ==
  \/ SetUp \/ ScriptEnds
  \/ SftGenerates \/ SftTrains \/ SftBeginsSave \/ SftSaves \/ SftCopies \/ EnsuresWarmup
  \/ \E run \in Runs : \/ Loads(run) \/ LoadFails(run)
                       \/ Updates(run) \/ EndsIteration(run) \/ EndsTraining(run)
  \/ BeginsSave
  \/ \E model \in Models : EvalLogs(model) \/ EvalSummarises(model)
  \/ Publishes

Next ==
  \/ \E stage \in Stages : Submit(stage)
  \/ Works
  \/ PublishesPart \/ UploadFails \/ Fails \/ Killed

\* What HF_JOBS.md advises, stage by stage: the warm-up until there is a
\* whole one, then GRPO.
SubmitsWhatIsMissing ==
  \/ repo.warmup # "complete" /\ Submit("sft")
  \/ repo.warmup = "complete" /\ Submit("grpo")

\* A job runs by itself; its owner follows the advice again and again,
\* whatever other jobs run in between.
Fairness == WF_vars(Works) /\ SF_vars(SubmitsWhatIsMissing)

Spec == Init /\ [][Next]_vars /\ Fairness

-----------------------------------------------------------------------------
(* Properties.                                                             *)

Warmups == {"none", "begun", "partial", "complete"}

\* Types, and the iterations within what was asked for.
TypeOK ==
  /\ phase \in {"idle", "setup", "running", "exiting"}
  /\ status \in {"none", "ok", "error"}
  /\ faulted \in BOOLEAN /\ published \in {"no", "part", "all"}
  /\ broken \in {"never", "before", "now"}
  /\ data \in {0, 200, 400} /\ warmup \in Warmups /\ loaded \in [Runs -> BOOLEAN]
  /\ outer["sanity"] \in 0..SANITY_ITERS /\ outer["grpo"] \in 0..GRPO_ITERS
  /\ updating \in BOOLEAN /\ saving \in BOOLEAN /\ trainer \in BOOLEAN
  /\ adapter \in BOOLEAN /\ hub \in BOOLEAN
  /\ checkpoints \subseteq 1..GRPO_ITERS /\ logged \in 0..GRPO_ITERS
  /\ results \subseteq Files
  /\ repo \in [warmup : Warmups, checkpoints : SUBSET (1..GRPO_ITERS), adapter : BOOLEAN,
               logged : 0..GRPO_ITERS, results : SUBSET Files]
  /\ faults \in 0..MaxFaults

\* run_hf_job.sh:66-88: when a script comes to train.py there are weights of a
\* warm-up to start from, made in this job or fetched from an earlier one
\* that may have died while making it.  They are whole as long as no save and
\* no copy of a warm-up has ever broken off after its first byte.
GrpoStartsWarm ==
  phase = "running" /\ todo # <<>> /\ Head(todo) \in Runs =>
    warmup = "complete" \/ (warmup = "partial" /\ broken # "never")

\* A whole warm-up in the repository is lost only to a job that broke off a
\* save or a copy of its own warm-up: no job that fails elsewhere, before its
\* save or after, takes it away, nor does one that fetched it.
WarmupIsNotLost == [][repo.warmup = "complete" /\ repo'.warmup # "complete" => broken' = "now"]_vars

\* run_hf_job.sh:129 and 176: however the script ended, what a job whose trap
\* could copy and upload has lost is less than SAVE_EVERY iterations and
\* nothing else that it had finished.  What it wrote to artifacts/ itself is
\* there even if the copies failed.
CrashLosesLittle ==
  /\ published # "no" => results \subseteq repo.results
  /\ published = "all" =>
       /\ \A n \in 1..outer["grpo"] : outer["grpo"] - n >= SAVE_EVERY =>
            \E kept \in repo.checkpoints \cap checkpoints : kept >= n
       /\ warmup = "complete" => repo.warmup = "complete"

\* Stage by stage, with every failure met by the same call again, GRPO runs
\* all its iterations, if failures stop.
StagewiseTrains == <>(outer["grpo"] = GRPO_ITERS)

\* train.py:436-445: a run that made all its iterations saves its adapter.
TrainedAdapterIsSaved ==
  outer["grpo"] = GRPO_ITERS /\ ~faulted /\ phase = "exiting" => adapter

\* What follows is what comments and the guide say without the
\* conditions; none of it holds, but TrainedAdapterIsSaved is the one that is run.

\* run_hf_job.sh:66-68: train.py starts from a checkpoint that was saved.
GrpoStartsWhole ==
  phase = "running" /\ todo # <<>> /\ Head(todo) \in Runs => warmup = "complete"

\* run_hf_job.sh:176: the checkpoint is protected if something crashes.
WarmupStays == [][repo.warmup = "complete" => repo'.warmup = "complete"]_vars

\* run_hf_job.sh:129: progress that has survived one crash survives the next.
CheckpointsStay == [][repo.checkpoints \subseteq repo'.checkpoints]_vars

\* run_hf_job.sh:166: an upload has the warm-up and the last checkpoint.
UploadsSaveAll ==
  published # "no" => checkpoints \subseteq repo.checkpoints
                      /\ (warmup = "complete" => repo.warmup = "complete")

\* HF_JOBS.md:44: every STAGE is one to run by itself (once there is a
\* warm-up), so without failures from outside its script succeeds.
StagesSucceed == phase = "exiting" /\ ~faulted /\ repo.warmup = "complete" => status = "ok"

\* run_hf_job.sh:93: the warm-up is trained on the 400 episodes generated.
TrainsOnWhatItGenerated == warmup = "begun" /\ repo.warmup = "none" => data = 400

\* The log in the repository covers the checkpoints in it.
LogCoversCheckpoints == \A n \in repo.checkpoints : n <= repo.logged
=============================================================================
