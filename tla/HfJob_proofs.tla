---------------------------- MODULE HfJob_proofs ----------------------------
(***************************************************************************)
(* The warm-up that GRPO starts from and what a job loses, for any number  *)
(* of jobs, iterations and failures.                                       *)
(***************************************************************************)
EXTENDS HfJob, TLAPS

Commands == {"eval_base", "summary_base", "sft_generate", "sft_train", "sft_save", "sft_copy",
             "ensure", "sanity", "grpo", "eval_trained", "summary_trained"}

\* In a list of commands, each run of train.py comes right after a look for
\* the warm-up, the first of the list excepted.
RunsAreEnsured(list) ==
  \A i \in 1..Len(list) : list[i] \in Runs /\ i > 1 => list[i - 1] = "ensure"

WellOrdered(list) == list \in Seq(Commands) /\ RunsAreEnsured(list)

JobTypes ==
  /\ warmup \in Warmups /\ repo.warmup \in Warmups
  /\ broken \in {"never", "before", "now"}

ScriptIsReady ==
  /\ WellOrdered(todo)
  /\ todo # <<>> /\ Head(todo) \in Runs => Usable(warmup)

\* Half a warm-up in the repository had a job that broke it off, and half a
\* warm-up in a job is being saved, was broken off, or came from there.
PartsAreExplained ==
  /\ repo.warmup = "partial" => broken # "never"
  /\ phase # "idle" /\ warmup = "partial" =>
       At("sft_save") \/ broken = "now" \/ repo.warmup = "partial"

WarmInv == JobTypes /\ ScriptIsReady /\ PartsAreExplained

Starts(list) == WellOrdered(list) /\ list # <<>> /\ Head(list) \notin Runs

\* The stages a script is put together from stay well ordered.
LEMMA JoinedAreWellOrdered ==
  ASSUME NEW a, NEW b, Starts(a), Starts(b)
  PROVE  Starts(a \o b)
<1> DEFINE list == a \o b
<1>1. /\ a \in Seq(Commands) /\ Len(a) \in Nat /\ Len(a) > 0 /\ Head(a) = a[1]
      /\ b \in Seq(Commands) /\ Len(b) \in Nat /\ Len(b) > 0 /\ Head(b) = b[1]
  BY DEF Starts, WellOrdered
<1>2. /\ list \in Seq(Commands) /\ Len(list) = Len(a) + Len(b)
      /\ \A i \in 1..Len(list) : list[i] = IF i <= Len(a) THEN a[i] ELSE b[i - Len(a)]
  BY <1>1
<1>3. list # <<>> /\ Head(list) = a[1]
  BY <1>1, <1>2
<1> HIDE DEF list
<1>4. RunsAreEnsured(list)
  <2> SUFFICES ASSUME NEW i \in 1..Len(list), list[i] \in Runs, i > 1 PROVE list[i - 1] = "ensure"
    BY DEF RunsAreEnsured
  <2>1. CASE i <= Len(a)
    <3>1. i \in 1..Len(a) /\ a[i] \in Runs
      BY <1>1, <1>2, <2>1
    <3>2. a[i - 1] = "ensure"
      BY <3>1 DEF Starts, WellOrdered, RunsAreEnsured
    <3>3. i - 1 \in 1..Len(list) /\ i - 1 <= Len(a)
      BY <1>1, <1>2, <2>1
    <3> QED BY <1>2, <3>2, <3>3
  <2>2. CASE i = Len(a) + 1
    BY <1>1, <1>2, <2>2 DEF Starts
  <2>3. CASE i > Len(a) + 1
    <3>1. i - Len(a) \in 1..Len(b) /\ b[i - Len(a)] \in Runs /\ i - Len(a) > 1
      BY <1>1, <1>2, <2>3
    <3>2. b[(i - Len(a)) - 1] = "ensure"
      BY <3>1 DEF Starts, WellOrdered, RunsAreEnsured
    <3>3. i - 1 \in 1..Len(list) /\ ~(i - 1 <= Len(a)) /\ (i - 1) - Len(a) = (i - Len(a)) - 1
      BY <1>1, <1>2, <2>3
    <3> QED BY <1>2, <3>2, <3>3
  <2> QED BY <1>1, <2>1, <2>2, <2>3
<1> QED BY <1>1, <1>2, <1>3, <1>4 DEF Starts, WellOrdered, list

LEMMA ScriptIsWellOrdered ==
  ASSUME NEW stage \in Stages
  PROVE  Starts(Script(stage))
<1>1. /\ Starts(EvalBase) /\ Starts(Sft) /\ Starts(Sanity) /\ Starts(Grpo) /\ Starts(EvalTrained)
  BY DEF EvalBase, Sft, Sanity, Grpo, EvalTrained, Starts, WellOrdered, RunsAreEnsured,
         Commands, Runs
<1>2. Starts(Grpo \o EvalTrained) /\ Starts(EvalBase \o EvalTrained)
  BY <1>1, JoinedAreWellOrdered
<1>3. Starts(EvalBase \o Sft \o Sanity \o Grpo \o EvalTrained)
  <2>1. Starts(EvalBase \o Sft)
    BY <1>1, JoinedAreWellOrdered
  <2>2. Starts((EvalBase \o Sft) \o Sanity)
    BY <1>1, <2>1, JoinedAreWellOrdered
  <2>3. Starts(((EvalBase \o Sft) \o Sanity) \o Grpo)
    BY <1>1, <2>2, JoinedAreWellOrdered
  <2> QED BY <1>1, <2>3, JoinedAreWellOrdered
<1> HIDE DEF EvalBase, Sft, Sanity, Grpo, EvalTrained
<1> QED BY <1>1, <1>2, <1>3 DEF Script

LEMMA WarmInit == Init => WarmInv
<1> SUFFICES ASSUME Init PROVE WarmInv
  OBVIOUS
<1>1. todo = <<>> /\ Len(todo) = 0 /\ 1..Len(todo) = {}
  BY DEF Init
<1>2. ScriptIsReady
  BY <1>1 DEF ScriptIsReady, WellOrdered, RunsAreEnsured
<1>3. JobTypes /\ PartsAreExplained
  BY DEF Init, JobTypes, PartsAreExplained, Warmups
<1> QED BY <1>2, <1>3 DEF WarmInv

\* The commands that are left of a script are well ordered, too.
LEMMA TailIsWellOrdered ==
  ASSUME NEW list, WellOrdered(list), list # <<>>
  PROVE  /\ WellOrdered(Tail(list))
         /\ Tail(list) # <<>> => (Head(Tail(list)) \in Runs => Head(list) = "ensure")
<1> DEFINE tail == Tail(list)
<1>1. list \in Seq(Commands) /\ Len(list) \in Nat /\ Len(list) > 0 /\ Head(list) = list[1]
  BY DEF WellOrdered
<1>2. tail \in Seq(Commands) /\ Len(tail) = Len(list) - 1
      /\ \A i \in 1..Len(tail) : tail[i] = list[i + 1] /\ i + 1 \in 1..Len(list)
  BY <1>1
<1>3. tail # <<>> => Head(tail) = tail[1] /\ 1 \in 1..Len(tail)
  BY <1>1, <1>2
<1> HIDE DEF tail
<1>4. RunsAreEnsured(tail)
  <2> SUFFICES ASSUME NEW i \in 1..Len(tail), tail[i] \in Runs, i > 1 PROVE tail[i - 1] = "ensure"
    BY DEF RunsAreEnsured
  <2>1. list[i + 1] \in Runs /\ i + 1 \in 1..Len(list) /\ i + 1 > 1
    BY <1>2
  <2>2. list[(i + 1) - 1] = "ensure"
    BY <2>1 DEF WellOrdered, RunsAreEnsured
  <2>3. i - 1 \in 1..Len(tail) /\ (i + 1) - 1 = (i - 1) + 1
    BY <1>1, <1>2
  <2> QED BY <1>2, <2>2, <2>3
<1>5. tail # <<>> => (Head(tail) \in Runs => Head(list) = "ensure")
  <2> SUFFICES ASSUME tail # <<>>, Head(tail) \in Runs PROVE Head(list) = "ensure"
    OBVIOUS
  <2>1. list[2] \in Runs /\ 2 \in 1..Len(list)
    BY <1>2, <1>3
  <2>2. list[2 - 1] = "ensure"
    BY <2>1 DEF WellOrdered, RunsAreEnsured
  <2> QED BY <1>1, <2>2
<1> QED BY <1>2, <1>4, <1>5 DEF WellOrdered, tail

\* A command that succeeds, with a warm-up it may have made.
LEMMA GoesOn ==
  ASSUME WarmInv, NEW command, At(command), Goes, UNCHANGED <<broken, repo>>,
         warmup' \in Warmups, command = "ensure" => Usable(warmup'),
         warmup' = "partial" => broken = "now" \/ repo.warmup = "partial"
  PROVE  WarmInv'
<1>1. JobTypes' /\ PartsAreExplained'
  BY DEF WarmInv, JobTypes, PartsAreExplained
<1>2. ScriptIsReady'
  BY TailIsWellOrdered DEF WarmInv, ScriptIsReady, At, Goes
<1> QED BY <1>1, <1>2 DEF WarmInv

\* A step in which the script stays where it is, or ends.
LEMMA SameScript ==
  ASSUME WarmInv, UNCHANGED <<todo, warmup, repo>>, broken' \in {broken, "now"},
         phase # "idle" \/ phase' = "idle", phase' # "setup" \/ phase = "setup",
         At("sft_save") /\ warmup = "partial" => phase' \in {"running", "idle"} \/ broken' = "now"
  PROVE  WarmInv'
BY DEF WarmInv, JobTypes, ScriptIsReady, PartsAreExplained, At

LEMMA WarmSubmits ==
  ASSUME WarmInv, NEW stage \in Stages, Submit(stage)
  PROVE  WarmInv'
<1> USE DEF Submit, EmptyDisk, outside
<1>1. ScriptIsReady'
  BY ScriptIsWellOrdered DEF Starts, ScriptIsReady
<1>2. JobTypes' /\ PartsAreExplained'
  BY DEF WarmInv, JobTypes, PartsAreExplained, Warmups
<1> QED BY <1>1, <1>2 DEF WarmInv

LEMMA WarmSft ==
  ASSUME WarmInv,
         \/ SftGenerates \/ SftTrains \/ SftBeginsSave \/ SftSaves \/ SftCopies \/ EnsuresWarmup
  PROVE  WarmInv'
<1> USE DEF outside, history
<1>0. /\ warmup \in Warmups /\ repo.warmup \in Warmups
      /\ phase = "running" /\ warmup = "partial" =>
           At("sft_save") \/ broken = "now" \/ repo.warmup = "partial"
  BY DEF WarmInv, JobTypes, PartsAreExplained
<1>1. CASE SftGenerates
  BY <1>0, <1>1, GoesOn DEF SftGenerates, At
<1>2. CASE SftTrains
  BY <1>2, GoesOn DEF SftTrains, Warmups
<1>3. CASE SftBeginsSave
  <2>1. /\ phase = "running" /\ todo # <<>> /\ Head(todo) = "sft_save"
        /\ warmup' = "partial" /\ UNCHANGED <<phase, todo, broken, repo>>
    BY <1>3 DEF SftBeginsSave, At, job
  <2>2. JobTypes' /\ PartsAreExplained'
    BY <2>1 DEF WarmInv, JobTypes, PartsAreExplained, At, Warmups
  <2>3. ScriptIsReady'
    BY <2>1 DEF WarmInv, ScriptIsReady, Usable
  <2> QED BY <2>2, <2>3 DEF WarmInv
<1>4. CASE SftSaves
  BY <1>4, GoesOn DEF SftSaves, Warmups
<1>5. CASE SftCopies
  BY <1>0, <1>5, GoesOn DEF SftCopies, At
<1>6. CASE EnsuresWarmup
  <2>1. /\ At("ensure") /\ UNCHANGED <<broken, repo>> /\ warmup' \in Warmups
        /\ warmup' = "partial" => broken = "now" \/ repo.warmup = "partial"
    BY <1>0, <1>6 DEF EnsuresWarmup, Merged, Usable, At
  <2>2. CASE Usable(warmup')
    BY <1>6, <2>1, <2>2, GoesOn DEF EnsuresWarmup
  <2>3. CASE ~Usable(warmup')
    <3>1. phase' = "exiting" /\ UNCHANGED todo /\ Head(todo) \notin Runs
      BY <1>6, <2>3 DEF EnsuresWarmup, Exits, At, Runs
    <3> QED BY <2>1, <2>3, <3>1 DEF WarmInv, JobTypes, ScriptIsReady, PartsAreExplained, Usable
  <2> QED BY <2>2, <2>3
<1> QED BY <1>1, <1>2, <1>3, <1>4, <1>5, <1>6

LEMMA WarmTrains ==
  ASSUME WarmInv, NEW run \in Runs,
         \/ Loads(run) \/ LoadFails(run) \/ Updates(run) \/ EndsIteration(run)
         \/ EndsTraining(run) \/ BeginsSave
  PROVE  WarmInv'
<1> USE DEF outside, history, Runs
<1>1. CASE EndsTraining(run) /\ Goes
  BY <1>1, GoesOn DEF EndsTraining, WarmInv, JobTypes, PartsAreExplained, At
<1>2. CASE LoadFails(run) \/ (EndsTraining(run) /\ Exits("error"))
  BY <1>2, SameScript DEF LoadFails, EndsTraining, Exits, At, disk
<1>3. CASE Loads(run) \/ Updates(run) \/ EndsIteration(run) \/ BeginsSave
  BY <1>3, SameScript DEF Loads, Updates, EndsIteration, BeginsSave, job, At
<1> QED BY <1>1, <1>2, <1>3 DEF EndsTraining

LEMMA WarmEvaluates ==
  ASSUME WarmInv, NEW model \in Models, EvalLogs(model) \/ EvalSummarises(model)
  PROVE  WarmInv'
<1> USE DEF outside, history, LogCommand, SummaryCommand
<1>1. CASE Goes
  BY <1>1, GoesOn DEF EvalLogs, EvalSummarises, WarmInv, JobTypes, PartsAreExplained, At
<1>2. CASE ~Goes
  BY <1>2, SameScript DEF EvalLogs, EvalSummarises, Exits, At
<1> QED BY <1>1, <1>2

\* What the trap uploads; a warm-up in part only if one was there, or if the
\* copy broke it.
LEMMA WarmPublishes ==
  ASSUME WarmInv, Publishes \/ PublishesPart
  PROVE  WarmInv' /\ (repo.warmup = "complete" /\ repo'.warmup # "complete" => broken' = "now")
<1>1. /\ phase = "exiting" /\ phase' = "idle" /\ UNCHANGED <<todo, warmup>>
  BY DEF Publishes, PublishesPart, disk
<1>2. PICK copied \in Warmups :
         /\ repo'.warmup = Merged(repo.warmup, copied)
         /\ broken' = IF copied = "partial" /\ ~Publishes THEN "now" ELSE broken
         /\ Publishes => copied = warmup
  <2>1. CASE Publishes
    <3>1. /\ repo'.warmup = Merged(repo.warmup, warmup) /\ UNCHANGED broken
      BY <2>1 DEF Publishes, Uploaded, Copied
    <3> QED BY <2>1, <3>1 DEF WarmInv, JobTypes
  <2>2. CASE PublishesPart /\ ~Publishes
    <3>1. PICK part \in CopiedInPart :
             repo' = Uploaded(part) /\ broken' = IF part.warmup = "partial" THEN "now" ELSE broken
      BY <2>2 DEF PublishesPart
    <3>2. part.warmup \in Warmups
      BY <3>1 DEF CopiedInPart, Parts, Warmups
    <3>3. repo'.warmup = Merged(repo.warmup, part.warmup)
      BY <3>1 DEF Uploaded
    <3> QED BY <2>2, <3>1, <3>2, <3>3
  <2> QED BY <2>1, <2>2
<1>3. JobTypes'
  BY <1>1, <1>2 DEF WarmInv, JobTypes, Merged
<1>4. warmup = "partial" => broken = "now" \/ repo.warmup = "partial"
  BY <1>1 DEF WarmInv, PartsAreExplained, At
<1>5. PartsAreExplained'
  BY <1>1, <1>2, <1>4 DEF WarmInv, PartsAreExplained, Merged
<1>6. ScriptIsReady'
  BY <1>1 DEF WarmInv, ScriptIsReady
<1>7. ASSUME repo.warmup = "complete", repo'.warmup # "complete" PROVE broken' = "now"
  <2>1. copied = "partial"
    BY <1>2, <1>7 DEF Merged, Warmups
  <2> QED BY <1>2, <1>4, <1>7, <2>1
<1> QED BY <1>3, <1>5, <1>6, <1>7 DEF WarmInv

LEMMA WarmEnds ==
  ASSUME WarmInv, SetUp \/ ScriptEnds \/ UploadFails \/ Fails \/ Killed
  PROVE  WarmInv'
<1> USE DEF outside, history, disk
<1>1. CASE SetUp
  BY <1>1, SameScript DEF SetUp
<1>2. CASE ScriptEnds
  BY <1>2, SameScript DEF ScriptEnds, Exits, At
<1>3. CASE UploadFails \/ Killed
  BY <1>3, SameScript DEF UploadFails, Killed
<1>4. CASE Fails
  BY <1>4, SameScript DEF Fails, At
<1> QED BY <1>1, <1>2, <1>3, <1>4

LEMMA WarmNext == WarmInv /\ [Next]_vars => WarmInv'
<1> SUFFICES ASSUME WarmInv, [Next]_vars PROVE WarmInv'
  OBVIOUS
<1>1. CASE Next
  <2>1. BeginsSave => \E run \in Runs : BeginsSave
    BY DEF Runs
  <2> QED BY <1>1, <2>1, WarmSubmits, WarmSft, WarmTrains, WarmEvaluates, WarmPublishes, WarmEnds
          DEF Next, Works
<1>2. CASE UNCHANGED vars
  BY <1>2 DEF vars, job, disk, outside, history, WarmInv, JobTypes, ScriptIsReady,
              PartsAreExplained, At
<1> QED BY <1>1, <1>2

\* Whatever stages are submitted and wherever jobs die, in the middle of a
\* save too, a script comes to train.py only with the weights of a warm-up on
\* its disk, and with a whole one as long as no job has broken off a save or a
\* copy of one (run_hf_job.sh:66 and 85).
THEOREM GrpoWarm == Spec => []GrpoStartsWarm
<1>1. WarmInv => GrpoStartsWarm
  BY DEF WarmInv, JobTypes, ScriptIsReady, PartsAreExplained, GrpoStartsWarm, Usable, At, Runs
<1> QED BY <1>1, WarmInit, WarmNext, PTL DEF Spec

\* An upload takes a whole warm-up out of the results repository only when
\* its job broke off a save or a copy of its own (run_hf_job.sh:85 and 176).
THEOREM WarmupKept == Spec => WarmupIsNotLost
<1>1. WarmInv /\ [Next]_vars =>
        (repo.warmup = "complete" /\ repo'.warmup # "complete" => broken' = "now")
  <2>1. CASE Publishes \/ PublishesPart
    BY <2>1, WarmPublishes
  <2>2. CASE ~(Publishes \/ PublishesPart)
    BY <2>2 DEF Next, Works, vars, outside, Submit, SetUp, ScriptEnds, SftGenerates, SftTrains,
             SftBeginsSave, SftSaves, SftCopies, EnsuresWarmup, Loads, LoadFails, Updates,
             BeginsSave, EndsIteration, EndsTraining, EvalLogs, EvalSummarises, UploadFails, Fails,
             Killed
  <2> QED BY <2>1, <2>2
<1> QED BY <1>1, WarmInit, WarmNext, PTL DEF Spec, WarmupIsNotLost

-----------------------------------------------------------------------------
(* What a job loses.                                                       *)

LEMMA DivMod ==
  ASSUME NEW n \in Nat, NEW s \in Nat \ {0}
  PROVE  n = (s * (n \div s)) + (n % s) /\ n % s \in 0..(s - 1) /\ n \div s \in Int
BY SMT

LEMMA MultipleBelow ==
  ASSUME NEW d \in Int, NEW s \in Nat \ {0}, s * d \in 0..(s - 1)
  PROVE  s * d = 0
<1>1. CASE d <= 0
  <2>1. s * d <= 0
    BY <1>1, Z3
  <2> QED BY <2>1
<1>2. CASE d >= 1
  <2>1. s * d >= s
    BY <1>2, Z3
  <2> QED BY <2>1
<1> QED BY <1>1, <1>2

\* A save is due again SAVE_EVERY iterations after one that was due.
LEMMA DueAgain ==
  ASSUME NEW k \in Nat, SaveDue(k)
  PROVE  SaveDue(k + SAVE_EVERY)
<1> DEFINE s == SAVE_EVERY
           q == k \div s
           r == (k + s) % s
           p == (k + s) \div s
<1>0. s \in Nat \ {0} /\ k + s \in Nat
  BY JobAssumption
<1> HIDE DEF s
<1>1. k = s * q /\ q \in Int
  BY <1>0, DivMod DEF SaveDue, s
<1>2. k + s = (s * p) + r /\ r \in 0..(s - 1) /\ p \in Int
  BY <1>0, DivMod
<1> HIDE DEF q, r, p
<1>3. s * (q + 1 - p) = s * q + s - s * p
  BY <1>0, <1>1, <1>2, Z3
<1>4. s * p \in Int /\ s * q \in Int
  BY <1>0, <1>1, <1>2
<1>5. s * (q + 1 - p) = r
  BY <1>0, <1>1, <1>2, <1>3, <1>4
<1>6. r = 0
  BY <1>0, <1>1, <1>2, <1>5, MultipleBelow
<1> QED BY <1>6 DEF r, s, SaveDue

\* The last save that was due is on the disk, and no further back than that.
SavedLast(k) ==
  /\ k \in Nat /\ SaveDue(k)
  /\ k <= outer["grpo"] /\ outer["grpo"] - k < SAVE_EVERY
  /\ k = 0 \/ k \in checkpoints

LossInv ==
  /\ outer \in [Runs -> Nat]
  /\ \E k \in Nat : SavedLast(k)
  /\ published # "no" => phase = "idle"
  /\ CrashLosesLittle

LEMMA LossInit == Init => LossInv
<1> SUFFICES ASSUME Init PROVE LossInv
  OBVIOUS
<1>1. outer \in [Runs -> Nat] /\ outer["grpo"] = 0
  BY DEF Init, Runs
<1>2. SaveDue(0)
  BY JobAssumption DEF SaveDue
<1>3. SavedLast(0)
  BY <1>1, <1>2, JobAssumption DEF SavedLast
<1> QED BY <1>1, <1>3 DEF Init, LossInv, CrashLosesLittle

\* What was on the disk when the trap uploaded is in the repository.
LEMMA LossPublishes ==
  ASSUME LossInv, Publishes
  PROVE  LossInv'
<1> USE JobAssumption
<1>1. /\ phase' = "idle" /\ UNCHANGED <<warmup, outer, checkpoints, results>>
      /\ checkpoints \subseteq repo'.checkpoints /\ results \subseteq repo'.results
      /\ warmup = "complete" => repo'.warmup = "complete"
  BY DEF Publishes, disk, training, Uploaded, Copied, Merged
<1>2. PICK k \in Nat : SavedLast(k)
  BY DEF LossInv
<1>3. SavedLast(k)'
  BY <1>1, <1>2 DEF SavedLast
<1>4. ASSUME NEW n \in 1..outer["grpo"], outer["grpo"] - n >= SAVE_EVERY
      PROVE  \E kept \in repo'.checkpoints \cap checkpoints : kept >= n
  <2>1. outer["grpo"] \in Nat
    BY DEF LossInv, Runs
  <2>2. k >= n /\ k # 0
    BY <1>2, <1>4, <2>1 DEF SavedLast
  <2> QED BY <1>1, <1>2, <2>2 DEF SavedLast
<1>5. CrashLosesLittle'
  BY <1>1, <1>4 DEF CrashLosesLittle
<1> QED BY <1>1, <1>3, <1>5 DEF LossInv

\* Whatever the copies left out, the files in artifacts/ itself are uploaded.
LEMMA LossPublishesPart ==
  ASSUME LossInv, PublishesPart
  PROVE  LossInv'
<1>1. /\ phase' = "idle" /\ published' = "part"
      /\ UNCHANGED <<outer, checkpoints, results>> /\ results \subseteq repo'.results
  BY DEF PublishesPart, disk, training, Uploaded
<1>2. CrashLosesLittle'
  BY <1>1 DEF CrashLosesLittle
<1>3. \A k \in Nat : SavedLast(k) => SavedLast(k)'
  BY <1>1 DEF SavedLast
<1> QED BY <1>1, <1>2, <1>3 DEF LossInv

LEMMA LossIteration ==
  ASSUME LossInv, NEW run \in Runs, EndsIteration(run)
  PROVE  LossInv'
<1> USE JobAssumption
<1>1. /\ phase # "idle" /\ UNCHANGED published
      /\ outer' = [outer EXCEPT ![run] = outer[run] + 1]
      /\ checkpoints' = IF run = "grpo" /\ SaveDue(outer'[run])
                        THEN checkpoints \cup {outer'[run]} ELSE checkpoints
  BY DEF EndsIteration, At, job, history
<1>2. outer \in [Runs -> Nat] /\ outer["grpo"] \in Nat
  BY DEF LossInv, Runs
<1>3. outer' \in [Runs -> Nat]
  BY <1>1, <1>2
<1>4. PICK k \in Nat : SavedLast(k)
  BY DEF LossInv
<1>5. \E l \in Nat : SavedLast(l)'
  <2>1. CASE run # "grpo"
    <3>1. outer'["grpo"] = outer["grpo"] /\ checkpoints' = checkpoints
      BY <1>1, <1>2, <2>1 DEF Runs
    <3> QED BY <1>4, <3>1 DEF SavedLast
  <2>2. CASE run = "grpo"
    <3>1. outer'["grpo"] = outer["grpo"] + 1
      BY <1>1, <1>2, <2>2
    <3>2. CASE SaveDue(outer'["grpo"])
      <4>1. PICK l \in Nat : l = outer'["grpo"]
        BY <1>2, <3>1
      <4>2. l \in checkpoints'
        BY <1>1, <2>2, <3>2, <4>1
      <4>3. SavedLast(l)'
        BY <3>2, <4>1, <4>2 DEF SavedLast, SaveDue
      <4> QED BY <4>3
    <3>3. CASE ~SaveDue(outer'["grpo"])
      <4>1. outer'["grpo"] # k + SAVE_EVERY
        BY <1>4, <3>3, DueAgain DEF SavedLast
      <4>2. checkpoints' = checkpoints
        BY <1>1, <2>2, <3>3
      <4> QED BY <1>2, <1>4, <3>1, <4>1, <4>2 DEF SavedLast
    <3> QED BY <3>2, <3>3
  <2> QED BY <2>1, <2>2
<1>6. published' = "no"
  BY <1>1 DEF LossInv
<1> QED BY <1>3, <1>5, <1>6 DEF LossInv, CrashLosesLittle

LEMMA LossSubmits ==
  ASSUME LossInv, NEW stage \in Stages, Submit(stage)
  PROVE  LossInv'
<1>1. published' = "no" /\ outer' \in [Runs -> Nat] /\ outer'["grpo"] = 0
  BY DEF Submit, EmptyDisk, Runs
<1>2. SaveDue(0)
  BY JobAssumption DEF SaveDue
<1>3. SavedLast(0)'
  BY <1>1, <1>2, JobAssumption DEF SavedLast, SaveDue
<1> QED BY <1>1, <1>3 DEF LossInv, CrashLosesLittle

\* Anything else happens while a job is on, before its upload.
LEMMA LossElsewhere ==
  ASSUME LossInv, phase # "idle", UNCHANGED <<outer, checkpoints, published>>
  PROVE  LossInv'
<1>1. published' = "no"
  BY DEF LossInv
<1>2. \A k \in Nat : SavedLast(k) => SavedLast(k)'
  BY DEF SavedLast
<1> QED BY <1>1, <1>2 DEF LossInv, CrashLosesLittle

LEMMA LossNext == LossInv /\ [Next]_vars => LossInv'
<1> SUFFICES ASSUME LossInv, [Next]_vars PROVE LossInv'
  OBVIOUS
<1> USE DEF job, disk, history, training
<1>1. CASE \E stage \in Stages : Submit(stage)
  BY <1>1, LossSubmits
<1>2. CASE \E run \in Runs : EndsIteration(run)
  BY <1>2, LossIteration
<1>3. CASE Publishes
  BY <1>3, LossPublishes
<1>4. CASE PublishesPart
  BY <1>4, LossPublishesPart
<1>5. CASE SetUp \/ ScriptEnds \/ UploadFails \/ Fails \/ Killed
  BY <1>5, LossElsewhere DEF SetUp, ScriptEnds, UploadFails, Fails, Killed
<1>6. CASE \/ SftGenerates \/ SftTrains \/ SftBeginsSave \/ SftSaves \/ SftCopies
           \/ EnsuresWarmup
  BY <1>6, LossElsewhere DEF SftGenerates, SftTrains, SftBeginsSave, SftSaves, SftCopies,
                             EnsuresWarmup, At
<1>7. CASE BeginsSave \/ \E run \in Runs : \/ Loads(run) \/ LoadFails(run) \/ Updates(run)
                                          \/ EndsTraining(run)
  BY <1>7, LossElsewhere DEF BeginsSave, Loads, LoadFails, Updates, EndsTraining, At
<1>8. CASE \E model \in Models : EvalLogs(model) \/ EvalSummarises(model)
  BY <1>8, LossElsewhere DEF EvalLogs, EvalSummarises, At
<1>9. CASE UNCHANGED vars
  BY <1>9 DEF vars, outside, LossInv, SavedLast, CrashLosesLittle
<1> QED BY <1>1, <1>2, <1>3, <1>4, <1>5, <1>6, <1>7, <1>8, <1>9 DEF Next, Works

\* For every SAVE_EVERY and every number of iterations and faults: what a job
\* whose trap copied and uploaded has finished is in the results repository,
\* all but less than SAVE_EVERY iterations, even if it died within a save; if
\* copies failed, what was in artifacts/ still is (run_hf_job.sh:129 and 176).
THEOREM LittleIsLost == Spec => []CrashLosesLittle
<1>1. LossInv => CrashLosesLittle
  BY DEF LossInv
<1> QED BY <1>1, LossInit, LossNext, PTL DEF Spec

-----------------------------------------------------------------------------
(* The counts of iterations stay within what was asked for.                *)

\* An iteration under way belongs to the run the script is at, and that run
\* is not over.
IterationHasItsRun ==
  updating => /\ phase # "setup"
              /\ phase = "running" =>
                   todo # <<>> /\ Head(todo) \in Runs /\ MoreIterations(Head(todo))

\* The type invariant, by what a step may touch.
JobTyped ==
  /\ phase \in {"idle", "setup", "running", "exiting"}
  /\ status \in {"none", "ok", "error"}
  /\ faulted \in BOOLEAN /\ published \in {"no", "part", "all"} /\ hub \in BOOLEAN
  /\ broken \in {"never", "before", "now"}
  /\ faults \in 0..MaxFaults

FilesTyped ==
  /\ data \in {0, 200, 400} /\ warmup \in Warmups /\ adapter \in BOOLEAN
  /\ results \subseteq Files

TrainingTyped ==
  /\ loaded \in [Runs -> BOOLEAN]
  /\ outer["sanity"] \in 0..SANITY_ITERS /\ outer["grpo"] \in 0..GRPO_ITERS
  /\ updating \in BOOLEAN /\ saving \in BOOLEAN /\ trainer \in BOOLEAN
  /\ checkpoints \subseteq 1..GRPO_ITERS /\ logged \in 0..GRPO_ITERS

RepoTyped ==
  repo \in [warmup : Warmups, checkpoints : SUBSET (1..GRPO_ITERS), adapter : BOOLEAN,
            logged : 0..GRPO_ITERS, results : SUBSET Files]

LEMMA TypeParts == TypeOK <=> JobTyped /\ FilesTyped /\ TrainingTyped /\ RepoTyped
BY DEF TypeOK, JobTyped, FilesTyped, TrainingTyped, RepoTyped

LEMMA ZeroInBounds ==
  0 \in 0..MaxFaults /\ 0 \in 0..SANITY_ITERS /\ 0 \in 0..GRPO_ITERS
BY JobAssumption

CountInv ==
  JobTyped /\ FilesTyped /\ TrainingTyped /\ RepoTyped /\ IterationHasItsRun

LEMMA CountInit == Init => CountInv
<1> SUFFICES ASSUME Init PROVE CountInv
  OBVIOUS
<1>1. JobTyped
  BY ZeroInBounds DEF Init, JobTyped
<1>2. FilesTyped
  BY DEF Init, FilesTyped, Warmups
<1>3. TrainingTyped
  <2>1. outer["sanity"] = 0 /\ outer["grpo"] = 0
    BY DEF Init, Runs
  <2> QED BY <2>1, ZeroInBounds DEF Init, TrainingTyped
<1>4. RepoTyped
  BY ZeroInBounds DEF Init, RepoTyped, Warmups
<1>5. IterationHasItsRun
  BY DEF Init, IterationHasItsRun
<1> QED BY <1>1, <1>2, <1>3, <1>4, <1>5 DEF CountInv

\* A command that is no run of train.py comes up only between iterations, and
\* leaves the counts and the repository alone.
LEMMA CountCommand ==
  ASSUME CountInv, NEW command, At(command), command \notin Runs,
         Goes \/ Exits("error"), FilesTyped',
         UNCHANGED <<history, loaded, outer, updating, saving, trainer, checkpoints, logged,
                     outside>>
  PROVE  CountInv'
<1> USE DEF CountInv, history, outside
<1>1. ~updating
  BY DEF IterationHasItsRun, At
<1>2. JobTyped'
  BY DEF JobTyped, Goes, Exits
<1>3. TrainingTyped' /\ RepoTyped'
  BY DEF TrainingTyped, RepoTyped
<1> QED BY <1>1, <1>2, <1>3 DEF IterationHasItsRun

LEMMA CountWarmup ==
  ASSUME CountInv,
         \/ SftGenerates \/ SftTrains \/ SftBeginsSave \/ SftSaves \/ SftCopies \/ EnsuresWarmup
  PROVE  CountInv'
<1> USE DEF CountInv, FilesTyped, Runs, training
<1>1. CASE SftGenerates
  BY <1>1, CountCommand DEF SftGenerates
<1>2. CASE SftTrains
  BY <1>2, CountCommand DEF SftTrains, Warmups
<1>3. CASE SftSaves
  BY <1>3, CountCommand DEF SftSaves, Warmups
<1>4. CASE SftCopies
  BY <1>4, CountCommand DEF SftCopies, Files
<1>5. CASE EnsuresWarmup
  <2>1. repo.warmup \in Warmups
    BY DEF RepoTyped
  <2>2. warmup' \in Warmups
    BY <1>5, <2>1 DEF EnsuresWarmup, Merged
  <2> QED BY <1>5, <2>2, CountCommand DEF EnsuresWarmup
<1>6. CASE SftBeginsSave
  <2>1. JobTyped' /\ FilesTyped' /\ TrainingTyped' /\ RepoTyped'
    BY <1>6 DEF SftBeginsSave, job, history, outside, JobTyped, TrainingTyped, RepoTyped, Warmups
  <2>2. IterationHasItsRun'
    BY <1>6 DEF SftBeginsSave, job, IterationHasItsRun, MoreIterations
  <2> QED BY <2>1, <2>2
<1> QED BY <1>1, <1>2, <1>3, <1>4, <1>5, <1>6

LEMMA CountEval ==
  ASSUME CountInv, NEW model \in Models, EvalLogs(model) \/ EvalSummarises(model)
  PROVE  CountInv'
<1>1. LogFile(model) \in Files /\ SummaryFile(model) \in Files
  BY DEF LogFile, SummaryFile, Files
<1>2. LogCommand(model) \notin Runs /\ SummaryCommand(model) \notin Runs
  BY DEF LogCommand, SummaryCommand, Runs
<1>3. CASE EvalLogs(model)
  <2>1. FilesTyped'
    BY <1>1, <1>3 DEF EvalLogs, CountInv, FilesTyped, training
  <2> QED BY <1>2, <1>3, <2>1, CountCommand DEF EvalLogs, training
<1>4. CASE EvalSummarises(model)
  <2>1. FilesTyped'
    BY <1>1, <1>4 DEF EvalSummarises, CountInv, FilesTyped, training
  <2> QED BY <1>2, <1>4, <2>1, CountCommand DEF EvalSummarises, training
<1> QED BY <1>3, <1>4

LEMMA CountRun ==
  ASSUME LossInv, CountInv, NEW run \in Runs,
         Loads(run) \/ LoadFails(run) \/ Updates(run) \/ EndsIteration(run) \/ EndsTraining(run)
  PROVE  CountInv'
<1> USE JobAssumption DEF CountInv, history, outside
<1>0. /\ outer["sanity"] \in 0..SANITY_ITERS /\ outer["grpo"] \in 0..GRPO_ITERS
      /\ At(run) /\ run \in {"sanity", "grpo"}
  BY DEF TrainingTyped, Loads, LoadFails, Updates, EndsIteration, EndsTraining, Runs
<1>1. CASE Updates(run)
  <2> USE <1>1 DEF Updates, job
  <2>1. run = "grpo" => outer[run] + 1 \in 0..GRPO_ITERS
    BY <1>0 DEF MoreIterations, Iters
  <2>2. TrainingTyped'
    BY <2>1 DEF TrainingTyped
  <2>3. JobTyped' /\ FilesTyped' /\ RepoTyped'
    BY DEF JobTyped, FilesTyped, RepoTyped
  <2>4. IterationHasItsRun'
    BY <1>0 DEF At, IterationHasItsRun, MoreIterations
  <2> QED BY <2>2, <2>3, <2>4
<1>2. CASE EndsIteration(run)
  <2> USE <1>2 DEF EndsIteration, job
  <2>1. outer[run] < Iters(run)
    BY <1>0 DEF At, IterationHasItsRun, MoreIterations
  <2>2. \A r \in {"sanity", "grpo"} :
          outer'[r] = IF r = run THEN outer[run] + 1 ELSE outer[r]
    BY <1>0 DEF LossInv
  <2>3. /\ outer'["sanity"] \in 0..SANITY_ITERS /\ outer'["grpo"] \in 0..GRPO_ITERS
        /\ run = "grpo" => outer'["grpo"] \in 1..GRPO_ITERS
    BY <1>0, <2>1, <2>2 DEF Iters
  <2>4. checkpoints' \subseteq 1..GRPO_ITERS
    BY <2>3 DEF TrainingTyped
  <2>5. TrainingTyped'
    BY <2>3, <2>4 DEF TrainingTyped
  <2>6. JobTyped' /\ FilesTyped' /\ RepoTyped'
    BY DEF JobTyped, FilesTyped, RepoTyped
  <2> QED BY <2>5, <2>6 DEF IterationHasItsRun
<1>3. CASE EndsTraining(run)
  <2> USE <1>3 DEF EndsTraining
  <2>1. JobTyped'
    BY DEF JobTyped, Goes, Exits
  <2>2. FilesTyped' /\ TrainingTyped' /\ RepoTyped'
    BY DEF FilesTyped, TrainingTyped, RepoTyped
  <2> QED BY <2>1, <2>2 DEF IterationHasItsRun
<1>4. CASE Loads(run)
  <2> USE <1>4 DEF Loads, job
  <2>1. 0 \in 0..GRPO_ITERS /\ loaded' \in [Runs -> BOOLEAN]
    BY ZeroInBounds DEF TrainingTyped
  <2>2. TrainingTyped'
    BY <2>1 DEF TrainingTyped
  <2>3. JobTyped' /\ FilesTyped' /\ RepoTyped'
    BY DEF JobTyped, FilesTyped, RepoTyped
  <2>4. IterationHasItsRun'
    BY <1>0 DEF At, IterationHasItsRun, MoreIterations
  <2> QED BY <2>2, <2>3, <2>4
<1>5. CASE LoadFails(run)
  <2> USE <1>5 DEF LoadFails, Exits, disk, training
  <2>1. JobTyped' /\ FilesTyped' /\ TrainingTyped' /\ RepoTyped'
    BY DEF JobTyped, FilesTyped, TrainingTyped, RepoTyped
  <2> QED BY <2>1 DEF IterationHasItsRun
<1> QED BY <1>1, <1>2, <1>3, <1>4, <1>5

LEMMA CountSave ==
  ASSUME CountInv, BeginsSave
  PROVE  CountInv'
<1> USE DEF CountInv, BeginsSave, job, history, outside
<1>1. JobTyped' /\ FilesTyped' /\ RepoTyped'
  BY DEF JobTyped, FilesTyped, RepoTyped
<1>2. TrainingTyped'
  BY DEF TrainingTyped
<1> QED BY <1>1, <1>2 DEF IterationHasItsRun, MoreIterations

LEMMA CountJob ==
  ASSUME CountInv,
         \/ \E stage \in Stages : Submit(stage)
         \/ SetUp \/ ScriptEnds \/ Publishes \/ PublishesPart \/ UploadFails \/ Fails \/ Killed
  PROVE  CountInv'
<1> USE JobAssumption DEF CountInv, history, outside, training
<1>1. CASE \E stage \in Stages : Submit(stage)
  <2>1. /\ phase' = "setup" /\ status' = "none" /\ faulted' = FALSE /\ published' = "no"
        /\ broken' \in {broken, "before"} /\ EmptyDisk /\ UNCHANGED <<repo, hub, faults>>
    BY <1>1 DEF Submit
  <2> USE <2>1 DEF EmptyDisk
  <2>2. JobTyped' /\ FilesTyped'
    BY DEF JobTyped, FilesTyped, Warmups
  <2>3. TrainingTyped'
    <3>1. outer'["sanity"] = 0 /\ outer'["grpo"] = 0 /\ loaded' \in [Runs -> BOOLEAN]
      BY DEF Runs
    <3> QED BY <3>1, ZeroInBounds DEF TrainingTyped
  <2>4. RepoTyped'
    BY DEF RepoTyped
  <2> QED BY <2>2, <2>3, <2>4 DEF IterationHasItsRun
<1>2. CASE SetUp \/ ScriptEnds
  <2> USE <1>2 DEF SetUp, ScriptEnds, Exits, disk
  <2>1. JobTyped' /\ FilesTyped'
    BY DEF JobTyped, FilesTyped
  <2>2. TrainingTyped' /\ RepoTyped'
    BY DEF TrainingTyped, RepoTyped
  <2> QED BY <2>1, <2>2 DEF IterationHasItsRun
<1>3. CASE Publishes \/ PublishesPart
  <2>1. PICK copied \in [warmup : Warmups, checkpoints : SUBSET checkpoints,
                         torn : SUBSET Int, adapter : BOOLEAN] :
           repo' = Uploaded(copied)
    <3>1. checkpoints \subseteq Int /\ outer["grpo"] + 1 \in Int
      BY DEF TrainingTyped
    <3>2. warmup \in Warmups /\ adapter \in BOOLEAN
      BY DEF FilesTyped
    <3>3. CASE Publishes
      <4>1. Copied.torn \in SUBSET Int
        BY <3>1 DEF Copied
      <4>2. Copied \in [warmup : Warmups, checkpoints : SUBSET checkpoints,
                        torn : SUBSET Int, adapter : BOOLEAN]
        BY <3>2, <4>1 DEF Copied
      <4> QED BY <3>3, <4>2 DEF Publishes
    <3>4. CASE PublishesPart
      <4>1. PICK part \in CopiedInPart : repo' = Uploaded(part)
        BY <3>4 DEF PublishesPart
      <4>2. /\ Parts(warmup) \subseteq Warmups /\ {FALSE, adapter} \subseteq BOOLEAN
            /\ SUBSET (checkpoints \cup Copied.torn) \subseteq SUBSET Int
        BY <3>1, <3>2 DEF Parts, Warmups, Copied
      <4>3. part \in [warmup : Warmups, checkpoints : SUBSET checkpoints,
                      torn : SUBSET Int, adapter : BOOLEAN]
        BY <4>1, <4>2 DEF CopiedInPart, Copied
      <4> QED BY <4>1, <4>3
    <3> QED BY <1>3, <3>3, <3>4
  <2>2. /\ faults' \in 0..MaxFaults /\ phase' = "idle" /\ published' \in {"part", "all"}
        /\ broken' \in {broken, "now"} /\ UNCHANGED <<todo, status, faulted, disk, hub>>
    BY <1>3 DEF Publishes, PublishesPart, JobTyped
  <2>3. JobTyped' /\ FilesTyped' /\ TrainingTyped'
    BY <2>2 DEF JobTyped, FilesTyped, TrainingTyped, disk
  <2>4. /\ Merged(repo.warmup, copied.warmup) \in Warmups
        /\ (repo.checkpoints \ copied.torn) \cup copied.checkpoints \in SUBSET (1..GRPO_ITERS)
        /\ (repo.adapter \/ copied.adapter) \in BOOLEAN
        /\ (IF loaded["grpo"] THEN logged ELSE repo.logged) \in 0..GRPO_ITERS
        /\ repo.results \cup results \in SUBSET Files
    BY DEF Merged, RepoTyped, FilesTyped, TrainingTyped
  <2>5. RepoTyped'
    BY <2>1, <2>4 DEF Uploaded, RepoTyped
  <2> QED BY <2>2, <2>3, <2>5 DEF IterationHasItsRun, disk
<1>4. CASE UploadFails \/ Fails \/ Killed
  <2>1. /\ faults < MaxFaults /\ faults' = faults + 1
        /\ phase' \in {"idle", "exiting"} /\ status' \in {status, "error"}
        /\ faulted' \in {faulted, TRUE} /\ broken' \in {broken, "now"}
        /\ UNCHANGED <<todo, published, disk, repo, hub>>
    BY <1>4 DEF UploadFails, Fails, Killed
  <2>2. faults' \in 0..MaxFaults
    BY <2>1 DEF JobTyped
  <2>3. JobTyped'
    BY <2>1, <2>2 DEF JobTyped
  <2>4. FilesTyped' /\ TrainingTyped'
    BY <2>1 DEF disk, FilesTyped, TrainingTyped
  <2>5. RepoTyped'
    BY <2>1 DEF RepoTyped
  <2> QED BY <2>1, <2>3, <2>4, <2>5 DEF disk, IterationHasItsRun
<1> QED BY <1>1, <1>2, <1>3, <1>4

LEMMA CountNext == LossInv /\ CountInv /\ [Next]_vars => CountInv'
<1> SUFFICES ASSUME LossInv, CountInv, [Next]_vars PROVE CountInv'
  OBVIOUS
<1>1. CASE Next
  BY <1>1, CountWarmup, CountRun, CountSave, CountEval, CountJob DEF Next, Works
<1>2. CASE UNCHANGED vars
  BY <1>2 DEF vars, job, disk, history, training, outside, CountInv, JobTyped, FilesTyped, TrainingTyped, RepoTyped,
              IterationHasItsRun, MoreIterations
<1> QED BY <1>1, <1>2

\* However often jobs fail and are submitted again, no run of train.py goes
\* past the iterations it was asked for, its log and its checkpoints, on the
\* disk and in the repository, are of those (run_hf_job.sh:111 and 130), and the other
\* variables keep their types.
THEOREM JobKeepsTypes == Spec => []TypeOK
<1>1. CountInv => TypeOK
  BY TypeParts DEF CountInv
<1> QED BY <1>1, LossInit, LossNext, CountInit, CountNext, PTL DEF Spec
=============================================================================
