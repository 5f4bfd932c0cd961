------------------------- MODULE Curriculum_proofs -------------------------
(***************************************************************************)
(* The curriculum, for every set of axes, every window and every schedule: *)
(* types and caps, the tie between the follow-up count and its axis, and   *)
(* the size and direction of a step.  Then the programs that play episodes *)
(* on it: what the evaluations of two agents have in common, for any two   *)
(* agents and any number of episodes, and what a report makes of them.     *)
(***************************************************************************)
EXTENDS Evaluation, SequenceTheorems, FiniteSetTheorems, TLAPS

CurriculumInv == TypeOK /\ FollowupsTrackConvincingness

LEMMA AxisFacts ==
  /\ Len(AxisOrder) \in Nat \ {0}
  /\ \A i \in 1..Len(AxisOrder) : AxisOrder[i] \in Axes
  /\ MCC # Ratio
  /\ \A a \in Axes : Cap(a) \in 0..10
<1>1. AxisOrder \in Seq({"bug_subtlety", MCC, "code_complexity", Ratio}) /\ Axes # {}
  BY AxisAssumption
<1>2. DOMAIN AxisOrder = 1..Len(AxisOrder) /\ Len(AxisOrder) \in Nat
  BY <1>1
<1>3. DOMAIN AxisOrder # {}
  BY <1>1 DEF Axes
<1>4. Len(AxisOrder) \in Nat \ {0}
  BY <1>2, <1>3
<1>5. \A i \in 1..Len(AxisOrder) : AxisOrder[i] \in Axes
  BY <1>2 DEF Axes
<1>6. \A a \in Axes : Cap(a) \in 0..10
  BY SizeAssumption DEF Cap
<1> QED BY <1>4, <1>5, <1>6 DEF MCC, Ratio

\* A window takes the new result and keeps to its size.
LEMMA PushType ==
  ASSUME NEW s \in Seq(BOOLEAN), NEW x \in BOOLEAN, NEW n \in Nat \ {0}, Len(s) <= n
  PROVE  Push(s, x, n) \in Seq(BOOLEAN) /\ Len(Push(s, x, n)) <= n
<1>1. CASE Len(s) < n
  BY <1>1, AppendProperties DEF Push
<1>2. CASE ~ (Len(s) < n)
  <2>1. Len(s) = n /\ s # << >>
    BY <1>2
  <2>2. Tail(s) \in Seq(BOOLEAN) /\ Len(Tail(s)) = n - 1
    BY <2>1
  <2>3. Append(Tail(s), x) \in Seq(BOOLEAN) /\ Len(Append(Tail(s), x)) = n
    BY <2>2, AppendProperties
  <2> QED BY <1>2, <2>3 DEF Push
<1> QED BY <1>1, <1>2

\* The follow-up count an axis value stands for grows with the value, and
\* at the cap it is 3.
LEMMA FollowupsMonotone ==
  /\ \A m \in 0..10 : Followups(m) \in 0..3
  /\ \A m, n \in 0..10 : m <= n => Followups(m) <= Followups(n)
BY DEF Followups

\* Moving an axis moves it by at most one, towards the sign of the move and
\* within its cap, no other axis, and takes the follow-up count along.
LEMMA BumpMoves ==
  ASSUME CurriculumInv, NEW axis \in Axes, NEW delta \in {-1, 1}, Bump(axis, delta)
  PROVE  /\ difficulty' \in [Axes -> 0..10]
         /\ \A a \in Axes : difficulty'[a] <= Cap(a)
         /\ \A a \in Axes \ {axis} : difficulty'[a] = difficulty[a]
         /\ difficulty'[axis] \in {difficulty[axis], difficulty[axis] + delta}
         /\ followup_count' = Followups(difficulty'[MCC])
<1>1. /\ difficulty \in [Axes -> 0..10] /\ difficulty[axis] <= Cap(axis)
      /\ \A a \in Axes : difficulty[a] <= Cap(a)
      /\ Cap(axis) \in 0..10 /\ difficulty[axis] \in 0..10
      /\ followup_count = Followups(difficulty[MCC]) /\ MCC \in Axes
  BY AxisFacts, AxisAssumption DEF CurriculumInv, TypeOK, FollowupsTrackConvincingness
<1> DEFINE level == Larger(0, Smaller(Cap(axis), difficulty[axis] + delta))
<1>2. /\ level \in {difficulty[axis], difficulty[axis] + delta}
      /\ level \in 0..10 /\ level <= Cap(axis)
      /\ delta = 1 => difficulty[axis] <= level
      /\ delta = -1 => level <= difficulty[axis]
  BY <1>1 DEF Larger, Smaller
<1>3. difficulty' = [difficulty EXCEPT ![axis] = level]
  BY DEF Bump
<1> HIDE DEF level
<1>4. /\ difficulty' \in [Axes -> 0..10]
      /\ \A a \in Axes : difficulty'[a] <= Cap(a)
      /\ \A a \in Axes \ {axis} : difficulty'[a] = difficulty[a]
      /\ difficulty'[axis] = level
  BY <1>1, <1>2, <1>3
<1>5. followup_count' = Followups(difficulty'[MCC])
  <2>1. /\ delta = 1 => difficulty[MCC] <= difficulty'[MCC]
        /\ delta = -1 => difficulty'[MCC] <= difficulty[MCC]
    BY <1>1, <1>2, <1>4
  <2>2. /\ difficulty[MCC] \in 0..10 /\ difficulty'[MCC] \in 0..10
    BY <1>1, <1>4
  <2>3. /\ Followups(difficulty[MCC]) \in 0..3 /\ Followups(difficulty'[MCC]) \in 0..3
        /\ delta = 1 => Followups(difficulty[MCC]) <= Followups(difficulty'[MCC])
        /\ delta = -1 => Followups(difficulty'[MCC]) <= Followups(difficulty[MCC])
    BY <2>1, <2>2, FollowupsMonotone
  <2>4. followup_count' = FollowupsAfter(difficulty', delta)
    BY DEF Bump
  <2> QED BY <1>1, <2>3, <2>4 DEF FollowupsAfter, Larger, Smaller
<1> QED BY <1>2, <1>4, <1>5

-----------------------------------------------------------------------------
(* The three things an update may do to the difficulty.                    *)

\* After enough successes: one axis may go up, and the round robin moves on
\* within its range.
LEMMA BumpWeakestMoves ==
  ASSUME CurriculumInv, BumpWeakest
  PROVE  /\ \E axis \in Axes : Bump(axis, 1)
         /\ round_robin_idx' \in 0..(Len(AxisOrder) - 1)
<1>1. round_robin_idx \in 0..(Len(AxisOrder) - 1) /\ Len(AxisOrder) \in Nat \ {0}
  BY AxisFacts DEF CurriculumInv, TypeOK
<1>2. CASE /\ \E axis \in WeakestAxes(axis_high', axis_low') : Bump(axis, 1)
           /\ UNCHANGED round_robin_idx
  BY <1>1, <1>2 DEF WeakestAxes, WithSignal
<1>3. CASE /\ Bump(AxisOrder[round_robin_idx + 1], 1)
           /\ round_robin_idx' = NextInTurn
  <2>1. AxisOrder[round_robin_idx + 1] \in Axes
    BY <1>1, AxisFacts
  <2>2. NextInTurn \in 0..(Len(AxisOrder) - 1)
    BY <1>1 DEF NextInTurn
  <2> QED BY <1>3, <2>1, <2>2
<1> QED BY <1>2, <1>3 DEF BumpWeakest

\* After an update: nothing moved, or one axis by one step in the direction
\* the results call for.
LEMMA UpdateMoves ==
  ASSUME CurriculumInv, NEW correct \in BOOLEAN, Update(correct)
  PROVE  /\ round_robin_idx' \in 0..(Len(AxisOrder) - 1)
         /\ \/ UNCHANGED <<difficulty, followup_count>>
            \/ /\ Len(history') = HISTORY /\ DoingWell(history')
               /\ \E axis \in Axes : Bump(axis, 1)
            \/ /\ Len(history') = HISTORY /\ Struggling(history')
               /\ \E axis \in Axes : Bump(axis, -1)
<1>1. round_robin_idx \in 0..(Len(AxisOrder) - 1)
  BY DEF CurriculumInv, TypeOK
<1>2. CASE Len(history') = HISTORY /\ DoingWell(history') /\ BumpWeakest
  BY <1>2, BumpWeakestMoves
<1>3. CASE Len(history') = HISTORY /\ Struggling(history') /\ EaseHardest
  BY <1>1, <1>3 DEF EaseHardest, HardestAxes
<1>4. CASE UNCHANGED <<difficulty, followup_count, round_robin_idx>>
  BY <1>1, <1>4
<1> QED BY <1>2, <1>3, <1>4 DEF Update

\* What an update records: windows of the right type and size.
LEMMA UpdateRecords ==
  ASSUME CurriculumInv, NEW correct \in BOOLEAN, Update(correct)
  PROVE  /\ history' \in Seq(BOOLEAN) /\ Len(history') <= HISTORY
         /\ steps' \in 0..SCHED
         /\ axis_high' \in [Axes -> Seq(BOOLEAN)] /\ axis_low' \in [Axes -> Seq(BOOLEAN)]
         /\ \A a \in Axes : Len(axis_high'[a]) <= AXIS_WINDOW /\ Len(axis_low'[a]) <= AXIS_WINDOW
         /\ playing' \in Configs /\ running' \in BOOLEAN
<1> USE DEF CurriculumInv, TypeOK, Update
<1>1. correct \in BOOLEAN /\ HISTORY \in Nat \ {0} /\ AXIS_WINDOW \in Nat \ {0} /\ SCHED \in Nat
  BY SizeAssumption
<1>2. history' \in Seq(BOOLEAN) /\ Len(history') <= HISTORY
  BY <1>1, PushType
<1>3. steps' \in 0..SCHED
  BY <1>1 DEF Smaller
<1>4. \A a \in Axes :
        /\ Push(axis_high[a], correct, AXIS_WINDOW) \in Seq(BOOLEAN)
        /\ Push(axis_low[a], correct, AXIS_WINDOW) \in Seq(BOOLEAN)
        /\ Len(Push(axis_high[a], correct, AXIS_WINDOW)) <= AXIS_WINDOW
        /\ Len(Push(axis_low[a], correct, AXIS_WINDOW)) <= AXIS_WINDOW
  BY <1>1, PushType
<1>5. axis_high' \in [Axes -> Seq(BOOLEAN)] /\ axis_low' \in [Axes -> Seq(BOOLEAN)]
  BY <1>4
<1>6. \A a \in Axes : Len(axis_high'[a]) <= AXIS_WINDOW /\ Len(axis_low'[a]) <= AXIS_WINDOW
  BY <1>4
<1> QED BY <1>2, <1>3, <1>5, <1>6

\* The difficulties an episode may be played at.
LEMMA ConfigTypes ==
  ASSUME CurriculumInv
  PROVE  /\ ScheduledOrAdaptive \in Configs
         /\ \A name : Preset(name) \in Configs
<1>1. \A b, m, c, r \in 0..10, n \in 0..3 : Config(b, m, c, r, n) \in Configs
  BY DEF Config, Configs
<1>2. [level |-> difficulty, followup_count |-> followup_count] \in Configs
  BY DEF CurriculumInv, TypeOK, Configs
<1> HIDE DEF Configs
<1>3. ScheduledOrAdaptive \in Configs
  BY <1>1, <1>2 DEF ScheduledOrAdaptive
<1>4. ASSUME NEW name PROVE Preset(name) \in Configs
  BY <1>1 DEF Preset
<1> QED BY <1>3, <1>4

-----------------------------------------------------------------------------
LEMMA InitInv == Init => CurriculumInv
<1> SUFFICES ASSUME Init PROVE CurriculumInv
  OBVIOUS
<1>1. \A b, m, c, r \in 0..10, n \in 0..3 : Config(b, m, c, r, n) \in Configs
  BY DEF Config, Configs
<1>2. TypeOK
  <2>1. difficulty \in [Axes -> 0..10] /\ \A a \in Axes : difficulty[a] <= Cap(a)
    BY AxisFacts DEF Init
  <2>2. history \in Seq(BOOLEAN) /\ Len(history) <= HISTORY
    BY SizeAssumption DEF Init
  <2>3. /\ axis_high \in [Axes -> Seq(BOOLEAN)] /\ axis_low \in [Axes -> Seq(BOOLEAN)]
        /\ \A a \in Axes : Len(axis_high[a]) <= AXIS_WINDOW /\ Len(axis_low[a]) <= AXIS_WINDOW
    <3>1. << >> \in Seq(BOOLEAN) /\ Len(<< >>) = 0
      OBVIOUS
    <3>2. \A a \in Axes : axis_high[a] = << >> /\ axis_low[a] = << >>
      BY DEF Init
    <3>3. axis_high \in [Axes -> Seq(BOOLEAN)] /\ axis_low \in [Axes -> Seq(BOOLEAN)]
      BY <3>1 DEF Init
    <3> QED BY <3>1, <3>2, <3>3, SizeAssumption
  <2>4. /\ followup_count \in 0..3 /\ steps \in 0..SCHED
        /\ round_robin_idx \in 0..(Len(AxisOrder) - 1)
    <3>1. SCHED \in Nat /\ Len(AxisOrder) - 1 \in Nat
      BY AxisFacts, SizeAssumption
    <3>2. followup_count = 0 /\ steps = 0 /\ round_robin_idx = 0
      BY DEF Init
    <3> QED BY <3>1, <3>2
  <2>5. playing \in Configs
    BY <1>1 DEF Init
  <2>6. running \in BOOLEAN
    BY DEF Init
  <2> QED BY <2>1, <2>2, <2>3, <2>4, <2>5, <2>6 DEF TypeOK
<1>3. FollowupsTrackConvincingness
  BY AxisAssumption DEF Init, FollowupsTrackConvincingness, Followups
<1> QED BY <1>2, <1>3 DEF CurriculumInv

LEMMA BeginKeepsInv ==
  ASSUME CurriculumInv, NEW config \in Configs, Begin(config)
  PROVE  CurriculumInv'
BY DEF Begin, CurriculumInv, TypeOK, FollowupsTrackConvincingness

LEMMA UpdateKeepsInv ==
  ASSUME CurriculumInv, NEW correct \in BOOLEAN, Update(correct)
  PROVE  CurriculumInv'
<1>1. /\ difficulty' \in [Axes -> 0..10] /\ \A a \in Axes : difficulty'[a] <= Cap(a)
      /\ followup_count' = Followups(difficulty'[MCC])
  BY UpdateMoves, BumpMoves DEF CurriculumInv, TypeOK, FollowupsTrackConvincingness
<1>2. followup_count' \in 0..3
  BY <1>1, FollowupsMonotone, AxisAssumption
<1>3. round_robin_idx' \in 0..(Len(AxisOrder) - 1)
  BY UpdateMoves
<1> QED BY <1>1, <1>2, <1>3, UpdateRecords
        DEF CurriculumInv, TypeOK, FollowupsTrackConvincingness

LEMMA NextInv == CurriculumInv /\ [Next]_vars => CurriculumInv'
<1> SUFFICES ASSUME CurriculumInv, [Next]_vars PROVE CurriculumInv'
  OBVIOUS
<1>1. CASE BeginAdaptive
  BY <1>1, BeginKeepsInv, ConfigTypes DEF BeginAdaptive
<1>2. CASE BeginPreset
  BY <1>2, BeginKeepsInv, ConfigTypes DEF BeginPreset
<1>3. CASE Finish
  BY <1>3, UpdateKeepsInv, SizeAssumption DEF Finish
<1>4. CASE UNCHANGED vars
  BY <1>4 DEF vars, CurriculumInv, TypeOK, FollowupsTrackConvincingness
<1> QED BY <1>1, <1>2, <1>3, <1>4 DEF Next

\* Types, windows and caps hold, and the follow-up count never drifts from
\* the axis it follows.
THEOREM CurriculumSafe == Spec => [](TypeOK /\ FollowupsTrackConvincingness)
<1>1. Spec => []CurriculumInv
  BY InitInv, NextInv, PTL DEF Spec
<1> QED BY <1>1, PTL DEF CurriculumInv

\* One episode moves at most one axis, by one step, and only in the
\* direction its results call for.
THEOREM NudgesOnly == Spec => OneNudge
<1> DEFINE up   == {a \in Axes : difficulty'[a] > difficulty[a]}
           down == {a \in Axes : difficulty'[a] < difficulty[a]}
           Nudge ==
             /\ \A a, b \in up \cup down : a = b /\ difficulty'[a] - difficulty[a] \in {-1, 1}
             /\ up # {} => Len(history') = HISTORY /\ 4 * Right(history') > 3 * HISTORY
             /\ down # {} => Len(history') = HISTORY /\ 4 * Right(history') < HISTORY
<1> HIDE DEF up, down, Nudge
<1>1. CurriculumInv /\ [Next]_vars => [Nudge]_vars
  <2> SUFFICES ASSUME CurriculumInv, [Next]_vars PROVE Nudge
    OBVIOUS
  <2>1. \A a \in Axes : difficulty[a] \in Int
    <3>1. difficulty \in [Axes -> 0..10]
      BY DEF CurriculumInv, TypeOK
    <3> QED BY <3>1
  <2>2. CASE UNCHANGED difficulty
    <3>1. up = {} /\ down = {}
      BY <2>1, <2>2 DEF up, down
    <3> QED BY <3>1 DEF Nudge
  <2>3. ASSUME NEW axis \in Axes, Bump(axis, 1), Len(history') = HISTORY, DoingWell(history')
        PROVE  Nudge
    <3>1. /\ \A a \in Axes \ {axis} : difficulty'[a] = difficulty[a]
          /\ difficulty'[axis] \in {difficulty[axis], difficulty[axis] + 1}
      BY <2>3, BumpMoves
    <3>2. up \subseteq {axis} /\ down = {}
          /\ (axis \in up => difficulty'[axis] - difficulty[axis] = 1)
      BY <2>1, <3>1 DEF up, down
    <3> QED BY <2>3, <3>2 DEF DoingWell, Nudge
  <2>4. ASSUME NEW axis \in Axes, Bump(axis, -1), Len(history') = HISTORY, Struggling(history')
        PROVE  Nudge
    <3>1. /\ \A a \in Axes \ {axis} : difficulty'[a] = difficulty[a]
          /\ difficulty'[axis] \in {difficulty[axis], difficulty[axis] + (-1)}
      BY <2>4, BumpMoves
    <3>2. down \subseteq {axis} /\ up = {}
          /\ (axis \in down => difficulty'[axis] - difficulty[axis] = -1)
      BY <2>1, <3>1 DEF up, down
    <3> QED BY <2>4, <3>2 DEF Struggling, Nudge
  <2>5. CASE BeginAdaptive \/ BeginPreset \/ UNCHANGED vars
    BY <2>2, <2>5 DEF BeginAdaptive, BeginPreset, Begin, vars
  <2>6. CASE Finish
    <3>1. PICK correct \in BOOLEAN : Update(correct)
      BY <2>6, SizeAssumption DEF Finish
    <3> QED BY <2>2, <2>3, <2>4, <3>1, UpdateMoves
  <2> QED BY <2>5, <2>6 DEF Next
<1>2. Spec => []CurriculumInv
  BY InitInv, NextInv, PTL DEF Spec
<1> USE DEF up, down, Nudge
<1>3. Nudge => LET right == Right(history')
                   u    == {a \in Axes : difficulty'[a] > difficulty[a]}
                   d    == {a \in Axes : difficulty'[a] < difficulty[a]}
               IN  /\ \A a, b \in u \cup d : a = b /\ difficulty'[a] - difficulty[a] \in {-1, 1}
                   /\ u # {} => Len(history') = HISTORY /\ 4 * right > 3 * HISTORY
                   /\ d # {} => Len(history') = HISTORY /\ 4 * right < HISTORY
  OBVIOUS
<1> QED BY <1>1, <1>2, PTL DEF Spec, OneNudge

-----------------------------------------------------------------------------
(* The programs that play episodes.                                        *)

\* An environment of its own begins a curriculum anew.
LEMMA NewEnvironmentKeepsInv ==
  ASSUME CurriculumInv, NewEnvironment
  PROVE  CurriculumInv'
<1>1. /\ difficulty' = [a \in Axes |-> 0] /\ followup_count' = 0
      /\ history' = <<>> /\ steps' = 0 /\ round_robin_idx' = 0
      /\ axis_high' = [a \in Axes |-> <<>>] /\ axis_low' = [a \in Axes |-> <<>>]
      /\ playing' \in Configs /\ running' \in BOOLEAN
  BY DEF NewEnvironment, CurriculumInv, TypeOK
<1>2. << >> \in Seq(BOOLEAN) /\ Len(<< >>) = 0
  OBVIOUS
<1>3. /\ SCHED \in Nat /\ HISTORY \in Nat /\ AXIS_WINDOW \in Nat /\ Len(AxisOrder) - 1 \in Nat
      /\ MCC \in Axes /\ \A a \in Axes : Cap(a) >= 0
  BY SizeAssumption, AxisAssumption, AxisFacts
<1>4. difficulty' \in [Axes -> 0..10] /\ \A a \in Axes : difficulty'[a] <= Cap(a)
  BY <1>1, <1>3, AxisFacts
<1>5. /\ axis_high' \in [Axes -> Seq(BOOLEAN)] /\ axis_low' \in [Axes -> Seq(BOOLEAN)]
      /\ \A a \in Axes : Len(axis_high'[a]) <= AXIS_WINDOW /\ Len(axis_low'[a]) <= AXIS_WINDOW
  BY <1>1, <1>2, <1>3
<1>6. /\ followup_count' \in 0..3 /\ steps' \in 0..SCHED
      /\ round_robin_idx' \in 0..(Len(AxisOrder) - 1)
  BY <1>1, <1>3
<1>7. history' \in Seq(BOOLEAN) /\ Len(history') <= HISTORY
  BY <1>1, <1>2, <1>3
<1>8. TypeOK'
  BY <1>1, <1>4, <1>5, <1>6, <1>7 DEF TypeOK
<1>9. FollowupsTrackConvincingness'
  BY <1>1, <1>3 DEF FollowupsTrackConvincingness, Followups
<1> QED BY <1>8, <1>9 DEF CurriculumInv

LEMMA TrainingKeepsInv ==
  ASSUME CurriculumInv, TNext
  PROVE  CurriculumInv'
<1>1. CASE RolloutBegins
  <2>1. StageConfig \in Configs
    BY ConfigTypes, TrainingAssumption DEF StageConfig
  <2> QED BY <1>1, <2>1, BeginKeepsInv DEF RolloutBegins
<1>2. CASE RolloutEnds
  BY <1>2, UpdateKeepsInv, SizeAssumption DEF RolloutEnds, Finish
<1>3. CASE NextIteration
  BY <1>3, NewEnvironmentKeepsInv DEF NextIteration, IterationStarts
<1> QED BY <1>1, <1>2, <1>3 DEF TNext

-----------------------------------------------------------------------------
(* The logs of the evaluations.                                            *)

Row == [end : Ends, config : Configs]

Picked == [c \in DOMAIN NoPicks |->
             {i \in 1..EPISODES : Category(rows["base"][i].end, rows["trained"][i].end) = c}]

\* One model after the other, and the report at the end.
LogsInv ==
  /\ model \in Models \cup {"none"}
  /\ agent \in [Models -> Agents]
  /\ rows \in [Models -> Seq(Row)]
  /\ \A m \in Models : Len(rows[m]) <= EPISODES
  /\ program = "grpo" => model = "base"
  /\ model = "base" => rows["trained"] = <<>>
  /\ model # "base" => Len(rows["base"]) = EPISODES
  /\ model = "none" => Len(rows["trained"]) = EPISODES
  /\ picks # NoPicks => model = "none" /\ picks = Picked

\* The episodes whose difficulty no result has a say in, and what it is.
Decided(i) == i <= SCHED \/ program = "eval_llm"
Planned(i) ==
  IF program = "eval_llm" THEN Preset("easy")
  ELSE IF i <= WARMUP THEN Config(0, 0, 0, 0, 0) ELSE Config(3, 3, 2, 0, 1)

\* The curriculum of an evaluation has seen the episodes in its log, so what
\* the schedule says is a matter of their number.
PlanInv ==
  program # "grpo" =>
    /\ \A m \in Models : \A i \in DOMAIN rows[m] : Decided(i) => rows[m][i].config = Planned(i)
    /\ model # "none" => steps = Smaller(Len(rows[model]), SCHED)
    /\ running => /\ MoreEpisodes
                  /\ Decided(Len(rows[model]) + 1) => playing = Planned(Len(rows[model]) + 1)

EvaluationInv == CurriculumInv /\ LogsInv /\ PlanInv

LEMMA EvaluationInit == EInit => EvaluationInv
<1> SUFFICES ASSUME EInit PROVE EvaluationInv
  OBVIOUS
<1> USE EvaluationAssumption DEF EInit, TInit
<1>1. CurriculumInv
  BY InitInv
<1>2. \A m \in Models : rows[m] = <<>> /\ Len(rows[m]) = 0 /\ rows[m] \in Seq(Row)
  OBVIOUS
<1>3. LogsInv
  BY <1>2 DEF LogsInv, Models
<1>4. steps = 0 /\ ~running /\ SCHED \in Nat /\ model \in Models
  BY SizeAssumption DEF Init, Models
<1>5. steps = Smaller(Len(rows[model]), SCHED)
  BY <1>2, <1>4 DEF Smaller
<1>6. PlanInv
  BY <1>2, <1>4, <1>5 DEF PlanInv
<1> QED BY <1>1, <1>3, <1>6 DEF EvaluationInv

LEMMA BeginsAsPlanned ==
  ASSUME EvaluationInv, EpisodeBegins
  PROVE  EvaluationInv'
<1>1. /\ program # "grpo" /\ MoreEpisodes /\ Begin(AskedFor)
      /\ UNCHANGED <<program, model, agent, rows, picks>>
  BY DEF EpisodeBegins
<1>2. AskedFor \in Configs
  BY ConfigTypes DEF AskedFor, EvaluationInv
<1>3. CurriculumInv'
  BY <1>1, <1>2, BeginKeepsInv DEF EvaluationInv
<1>4. LogsInv'
  BY <1>1 DEF EvaluationInv, LogsInv, Picked
<1>5. playing' = AskedFor /\ steps' = steps
  BY <1>1 DEF Begin
<1> DEFINE n == Len(rows[model])
<1>6. n \in Nat /\ SCHED \in Nat /\ WARMUP \in Nat /\ WARMUP <= SCHED
      /\ steps = IF n <= SCHED THEN n ELSE SCHED
  <2>1. model \in Models /\ rows \in [Models -> Seq(Row)]
    BY <1>1 DEF EvaluationInv, LogsInv, MoreEpisodes
  <2> QED BY <1>1, <2>1, SizeAssumption DEF EvaluationInv, PlanInv, Smaller, MoreEpisodes
<1> HIDE DEF n
<1>7. Decided(n + 1) => AskedFor = Planned(n + 1)
  <2>1. CASE program = "eval_llm"
    BY <2>1 DEF AskedFor, Planned
  <2>2. CASE program # "eval_llm" /\ n + 1 <= SCHED
    <3>1. steps = n /\ steps < SCHED /\ (steps < WARMUP <=> n + 1 <= WARMUP)
      BY <1>6, <2>2
    <3> QED BY <1>6, <2>2, <3>1 DEF AskedFor, Planned, ScheduledOrAdaptive
  <2> QED BY <2>1, <2>2 DEF Decided
<1>8. PlanInv'
  BY <1>1, <1>5, <1>7 DEF n, EvaluationInv, PlanInv, Decided, Planned, MoreEpisodes
<1> QED BY <1>3, <1>4, <1>8 DEF EvaluationInv

LEMMA EndsAsPlanned ==
  ASSUME EvaluationInv, EpisodeEnds
  PROVE  EvaluationInv'
<1> DEFINE n   == Len(rows[model])
           end == agent[model][n + 1]
           row == [end |-> end, config |-> playing]
<1>1. /\ program # "grpo" /\ running /\ Update(end = "pass")
      /\ rows' = [rows EXCEPT ![model] = Append(@, row)]
      /\ UNCHANGED <<program, model, agent, picks>>
  BY DEF EpisodeEnds
<1>2. /\ model \in Models /\ rows \in [Models -> Seq(Row)] /\ rows[model] \in Seq(Row)
      /\ n \in Nat /\ n < EPISODES /\ EPISODES \in Nat /\ SCHED \in Nat
      /\ steps = Smaller(n, SCHED) /\ steps \in Nat
      /\ Decided(n + 1) => playing = Planned(n + 1)
  <2>1. model \in Models /\ rows \in [Models -> Seq(Row)] /\ MoreEpisodes
    BY <1>1 DEF EvaluationInv, LogsInv, PlanInv, MoreEpisodes
  <2>2. rows[model] \in Seq(Row) /\ EPISODES \in Nat /\ SCHED \in Nat
    BY <2>1, EvaluationAssumption, SizeAssumption
  <2>3. steps = Smaller(n, SCHED) /\ (Decided(n + 1) => playing = Planned(n + 1))
    BY <1>1, <2>1 DEF EvaluationInv, PlanInv, MoreEpisodes
  <2>4. steps \in Nat
    BY <2>2, <2>3 DEF Smaller
  <2> QED BY <2>1, <2>2, <2>3, <2>4 DEF MoreEpisodes
<1>3. row \in Row
  <2>1. agent[model] \in [1..EPISODES -> Ends]
    BY <1>2, EvaluationAssumption DEF EvaluationInv, LogsInv
  <2>2. n + 1 \in 1..EPISODES
    BY <1>2
  <2>3. playing \in Configs
    BY DEF EvaluationInv, CurriculumInv, TypeOK
  <2> QED BY <2>1, <2>2, <2>3 DEF Row
<1> HIDE DEF row
<1>4. /\ rows'[model] = Append(rows[model], row) /\ Len(rows'[model]) = n + 1
      /\ rows'[model] \in Seq(Row)
      /\ \A m \in Models : m # model => rows'[m] = rows[m]
      /\ rows' \in [Models -> Seq(Row)]
  BY <1>1, <1>2, <1>3
<1>5. CurriculumInv'
  <2>1. (end = "pass") \in BOOLEAN
    OBVIOUS
  <2> QED BY <1>1, <2>1, UpdateKeepsInv DEF EvaluationInv
<1>6. LogsInv'
  <2>1. /\ model' \in Models \cup {"none"} /\ agent' \in [Models -> Agents]
        /\ program' = "grpo" => model' = "base"
        /\ picks' # NoPicks => model' = "none" /\ picks' = Picked'
    BY <1>1, <1>2 DEF EvaluationInv, LogsInv, Models
  <2>2. \A m \in Models : Len(rows'[m]) <= EPISODES
    <3>1. n + 1 <= EPISODES
      BY <1>2
    <3>2. \A m \in Models : Len(rows[m]) <= EPISODES
      BY DEF EvaluationInv, LogsInv
    <3> HIDE DEF n
    <3> QED BY <1>4, <3>1, <3>2
  <2>3. /\ model' = "base" => rows'["trained"] = <<>>
        /\ model' # "base" => Len(rows'["base"]) = EPISODES
        /\ model' # "none"
    BY <1>1, <1>2, <1>4 DEF EvaluationInv, LogsInv, Models
  <2> QED BY <1>4, <2>1, <2>2, <2>3 DEF LogsInv
<1>7. PlanInv'
  <2>1. running' = FALSE /\ steps' = Smaller(steps + 1, SCHED)
    BY <1>1 DEF Update
  <2>2. steps' = Smaller(n + 1, SCHED)
    BY <1>2, <2>1 DEF Smaller
  <2>3. ASSUME NEW m \in Models, NEW i \in DOMAIN rows'[m], Decided(i)
        PROVE  rows'[m][i].config = Planned(i)
    <3>1. CASE m # model \/ i \in DOMAIN rows[m]
      <4>1. i \in DOMAIN rows[m] /\ rows'[m][i] = rows[m][i]
        BY <1>2, <1>4, <2>3, <3>1
      <4> QED BY <1>1, <2>3, <4>1 DEF EvaluationInv, PlanInv
    <3>2. CASE m = model /\ i \notin DOMAIN rows[m]
      <4>1. i = n + 1 /\ rows'[m][i] = row
        BY <1>2, <1>4, <2>3, <3>2
      <4> QED BY <1>2, <2>3, <4>1 DEF row
    <3> QED BY <3>1, <3>2
  <2>4. \A i : Decided(i)' <=> Decided(i)
    BY <1>1 DEF Decided
  <2>5. \A i : Planned(i)' = Planned(i)
    BY <1>1 DEF Planned
  <2> QED BY <1>1, <1>4, <2>1, <2>2, <2>3, <2>4, <2>5 DEF PlanInv
<1> QED BY <1>5, <1>6, <1>7 DEF EvaluationInv

\* The second evaluation begins with an empty log and a curriculum that has
\* seen nothing.
LEMMA NextModelAsPlanned ==
  ASSUME EvaluationInv, NextModel
  PROVE  EvaluationInv'
<1>1. /\ program \in {"eval", "eval_llm"} /\ model = "base" /\ ~running /\ ~MoreEpisodes
      /\ model' = "trained" /\ NewEnvironment
      /\ UNCHANGED <<program, agent, rows, picks>>
  BY DEF NextModel, EvaluationStarts
<1>2. CurriculumInv'
  BY <1>1, NewEnvironmentKeepsInv DEF EvaluationInv
<1>3. /\ rows["trained"] = <<>> /\ rows \in [Models -> Seq(Row)]
      /\ Len(rows["base"]) = EPISODES
  <2>1. /\ rows["trained"] = <<>> /\ rows \in [Models -> Seq(Row)]
        /\ Len(rows["base"]) <= EPISODES
    BY <1>1 DEF EvaluationInv, LogsInv, Models
  <2>2. Len(rows["base"]) \in Nat /\ EPISODES \in Nat
    BY <2>1, EvaluationAssumption DEF Models
  <2> QED BY <1>1, <2>1, <2>2 DEF MoreEpisodes
<1>4. LogsInv'
  BY <1>1, <1>3 DEF EvaluationInv, LogsInv, Models
<1>5. steps' = Smaller(Len(rows'[model']), SCHED) /\ ~running'
  <2>1. steps' = 0 /\ ~running' /\ SCHED \in Nat /\ Len(rows'[model']) = 0
    BY <1>1, <1>3, SizeAssumption DEF NewEnvironment
  <2> QED BY <2>1 DEF Smaller
<1>6. PlanInv'
  BY <1>1, <1>5 DEF EvaluationInv, PlanInv, Decided, Planned
<1> QED BY <1>2, <1>4, <1>6 DEF EvaluationInv

LEMMA PicksAsPlanned ==
  ASSUME EvaluationInv, PicksDemos
  PROVE  EvaluationInv'
<1>1. /\ program \in {"eval", "eval_llm"} /\ model = "trained" /\ ~running /\ ~MoreEpisodes
      /\ picks' = Picked /\ model' = "none"
      /\ UNCHANGED <<vars, program, agent, rows>>
  BY DEF PicksDemos, Picked, tvars
<1>2. CurriculumInv'
  BY <1>1 DEF EvaluationInv, vars, CurriculumInv, TypeOK, FollowupsTrackConvincingness
<1>3. Len(rows["trained"]) = EPISODES
  <2>1. Len(rows["trained"]) <= EPISODES /\ rows["trained"] \in Seq(Row)
    BY DEF EvaluationInv, LogsInv, Models
  <2>2. Len(rows["trained"]) \in Nat /\ EPISODES \in Nat
    BY <2>1, EvaluationAssumption
  <2> QED BY <1>1, <2>1, <2>2 DEF MoreEpisodes
<1>4. LogsInv'
  BY <1>1, <1>3 DEF EvaluationInv, LogsInv, Picked
<1>5. PlanInv'
  BY <1>1 DEF EvaluationInv, PlanInv, Decided, Planned, vars
<1> QED BY <1>2, <1>4, <1>5 DEF EvaluationInv

LEMMA EvaluationNext == EvaluationInv /\ [ENext]_evars => EvaluationInv'
<1> SUFFICES ASSUME EvaluationInv, [ENext]_evars PROVE EvaluationInv'
  OBVIOUS
<1>1. CASE Trains
  <2>1. program = "grpo" /\ TNext /\ UNCHANGED <<program, model, agent, rows, picks>>
    BY <1>1 DEF Trains
  <2>2. CurriculumInv'
    BY <2>1, TrainingKeepsInv DEF EvaluationInv
  <2>3. LogsInv'
    BY <2>1 DEF EvaluationInv, LogsInv, Picked
  <2> QED BY <2>1, <2>2, <2>3 DEF EvaluationInv, PlanInv
<1>2. CASE UNCHANGED evars
  <2>1. UNCHANGED <<vars, program, model, agent, rows, picks>>
    BY <1>2 DEF evars, tvars
  <2>2. CurriculumInv'
    BY <2>1 DEF EvaluationInv, vars, CurriculumInv, TypeOK, FollowupsTrackConvincingness
  <2>3. LogsInv'
    BY <2>1 DEF EvaluationInv, LogsInv, Picked
  <2>4. PlanInv'
    BY <2>1 DEF EvaluationInv, PlanInv, Decided, Planned, MoreEpisodes, vars
  <2> QED BY <2>2, <2>3, <2>4 DEF EvaluationInv
<1> QED BY <1>1, <1>2, BeginsAsPlanned, EndsAsPlanned, NextModelAsPlanned, PicksAsPlanned DEF ENext

LEMMA EvaluationKept == ESpec => []EvaluationInv
BY EvaluationInit, EvaluationNext, PTL DEF ESpec

\* However differently two agents play, both evaluations give them the same
\* scenarios while the schedule decides, and to the end with a preset
\* (curriculum.py:75, eval.py:1).
THEOREM SameWhileScheduled == ESpec => []IdenticalWhileScheduled
<1>1. EvaluationInv => IdenticalWhileScheduled
  <2> SUFFICES ASSUME EvaluationInv, NEW i \in DOMAIN rows["trained"],
                      i <= SCHED \/ program = "eval_llm", NEW j \in 1..i
               PROVE  rows["base"][j].config = rows["trained"][j].config
    BY DEF IdenticalWhileScheduled, SameScenario
  <2>1. /\ rows["trained"] \in Seq(Row) /\ rows["base"] \in Seq(Row)
        /\ Len(rows["trained"]) <= EPISODES /\ rows["trained"] # <<>>
    BY DEF EvaluationInv, LogsInv, Models
  <2>2. Len(rows["base"]) = EPISODES /\ program # "grpo"
    BY <2>1 DEF EvaluationInv, LogsInv
  <2>3. j \in DOMAIN rows["trained"] /\ j \in DOMAIN rows["base"] /\ j <= i /\ i \in Nat
    BY <2>1, <2>2, EvaluationAssumption
  <2>4. Decided(j)
    BY <2>3, SizeAssumption DEF Decided
  <2> QED BY <2>2, <2>3, <2>4 DEF EvaluationInv, PlanInv, Models
<1> QED BY <1>1, EvaluationKept, PTL

-----------------------------------------------------------------------------
(* The training.                                                           *)

\* The curriculum of an iteration has seen no more episodes than the iteration
\* has had rollouts.
IterationInv ==
  program = "grpo" =>
    /\ outer \in Nat /\ rollout \in Nat
    /\ steps <= rollout
    /\ IterationsStartOver

LEMMA IterationInit == EInit => IterationInv
BY DEF EInit, TInit, Init, IterationInv, IterationsStartOver

LEMMA IterationNext == EvaluationInv /\ IterationInv /\ [ENext]_evars => IterationInv'
<1> SUFFICES ASSUME EvaluationInv, IterationInv, [ENext]_evars, program' = "grpo"
             PROVE  /\ outer' \in Nat /\ rollout' \in Nat
                    /\ steps' <= rollout'
                    /\ IterationsStartOver'
  BY DEF IterationInv
<1>1. /\ program = "grpo"
      /\ TNext \/ UNCHANGED <<vars, outer, rollout>>
  <2>1. CASE Trains
    BY <2>1 DEF Trains
  <2>2. CASE EpisodeBegins \/ EpisodeEnds \/ NextModel \/ PicksDemos
    BY <2>2 DEF EpisodeBegins, EpisodeEnds, NextModel, PicksDemos
  <2>3. CASE UNCHANGED evars
    BY <2>3 DEF evars, tvars
  <2> QED BY <2>1, <2>2, <2>3 DEF ENext
<1>2. /\ outer \in Nat /\ rollout \in Nat /\ steps \in Nat /\ steps <= rollout
      /\ IterationsStartOver
      /\ WARMUP \in Nat /\ SCHED \in Nat /\ WARMUP <= SCHED
      /\ EASY_UNTIL \in Nat /\ MEDIUM_UNTIL \in Nat /\ EASY_UNTIL <= MEDIUM_UNTIL
  BY <1>1, SizeAssumption, TrainingAssumption
     DEF IterationInv, EvaluationInv, CurriculumInv, TypeOK
<1>3. CASE RolloutBegins
  <2>1. /\ playing' = StageConfig /\ steps' = steps /\ outer' = outer /\ rollout' = rollout
    BY <1>3 DEF RolloutBegins, Begin
  <2>2. ASSUME AdaptiveStage, rollout < WARMUP
        PROVE  StageConfig = Config(0, 0, 0, 0, 0)
    <3>1. steps < WARMUP /\ ~(outer < EASY_UNTIL) /\ ~(outer < MEDIUM_UNTIL)
      BY <1>2, <2>2 DEF AdaptiveStage
    <3>2. StageConfig = ScheduledOrAdaptive
      BY <1>2, <3>1 DEF StageConfig
    <3>3. ScheduledOrAdaptive = Config(0, 0, 0, 0, 0)
      BY <1>2, <3>1 DEF ScheduledOrAdaptive
    <3> QED BY <3>2, <3>3
  <2>3. AdaptiveStage' <=> AdaptiveStage
    BY <2>1 DEF AdaptiveStage
  <2> QED BY <1>2, <2>1, <2>2, <2>3 DEF IterationsStartOver
<1>4. CASE RolloutEnds
  <2>1. /\ steps' = Smaller(steps + 1, SCHED) /\ ~running'
        /\ outer' = outer /\ rollout' = rollout + 1
    BY <1>4 DEF RolloutEnds, Finish, Update
  <2>2. steps' <= rollout'
    BY <1>2, <2>1 DEF Smaller
  <2> QED BY <1>2, <2>1, <2>2 DEF IterationsStartOver
<1>5. CASE NextIteration
  <2>1. /\ steps' = 0 /\ rollout' = 0 /\ ~running' /\ outer' \in Nat
    BY <1>2, <1>5 DEF NextIteration, IterationOver, IterationStarts, NewEnvironment, Smaller
  <2> QED BY <2>1 DEF IterationsStartOver
<1>6. CASE UNCHANGED <<vars, outer, rollout>>
  BY <1>1, <1>2, <1>6 DEF vars, IterationsStartOver, AdaptiveStage
<1> QED BY <1>1, <1>3, <1>4, <1>5, <1>6 DEF TNext

\* Whatever the results of the training so far, the first WARMUP rollouts of an
\* iteration of the last stage are played at the easiest difficulty
\* (train.py:289, against train.py:495).
THEOREM StartsOver == ESpec => []IterationsStartOver
<1>1. EvaluationInv /\ IterationInv => IterationsStartOver
  BY DEF IterationInv, IterationsStartOver
<1> QED BY <1>1, EvaluationKept, IterationInit, IterationNext, PTL DEF ESpec

-----------------------------------------------------------------------------
(* The report.                                                             *)

LEMMA DisjointUnion ==
  ASSUME NEW S, NEW T, IsFiniteSet(S), IsFiniteSet(T), S \cap T = {}
  PROVE  IsFiniteSet(S \cup T) /\ Cardinality(S \cup T) = Cardinality(S) + Cardinality(T)
<1>1. /\ IsFiniteSet(S \cup T)
      /\ Cardinality(S \cup T) = Cardinality(S) + Cardinality(T) - Cardinality(S \cap T)
  BY FS_Union
<1>2. Cardinality(S \cap T) = 0
  BY FS_EmptySet
<1>3. Cardinality(S) \in Nat /\ Cardinality(T) \in Nat
  BY FS_CardinalityType
<1> QED BY <1>1, <1>2, <1>3

\* Two logs of the same episodes, and what the five categories make of them.
LEMMA CategoriesPartition ==
  ASSUME NEW n \in Nat, NEW b \in [1..n -> Ends], NEW t \in [1..n -> Ends]
  PROVE  LET of(c)    == Cardinality({i \in 1..n : Category(b[i], t[i]) = c})
             right(e) == Cardinality({i \in 1..n : e[i] = "pass"})
         IN  /\ of("fixed_after_caving") + of("fixed_after_failing") + of("regressions")
                  + of("consistent_passes") + of("consistent_fails") = n
             /\ right(t) - right(b)
                  = of("fixed_after_caving") + of("fixed_after_failing") - of("regressions")
<1> DEFINE in(c) == {i \in 1..n : Category(b[i], t[i]) = c}
           caved == in("fixed_after_caving")
           failed == in("fixed_after_failing")
           lost == in("regressions")
           kept == in("consistent_passes")
           never == in("consistent_fails")
           passes(e) == {i \in 1..n : e[i] = "pass"}
<1>1. \A i \in 1..n : b[i] \in Ends /\ t[i] \in Ends
  OBVIOUS
<1>2. \A i \in 1..n :
        /\ Category(b[i], t[i]) \in {"fixed_after_caving", "fixed_after_failing", "regressions",
                                     "consistent_passes", "consistent_fails"}
        /\ t[i] = "pass" <=> Category(b[i], t[i]) \in {"fixed_after_caving", "fixed_after_failing",
                                                       "consistent_passes"}
        /\ b[i] = "pass" <=> Category(b[i], t[i]) \in {"regressions", "consistent_passes"}
  BY <1>1 DEF Ends, Category
<1>3. IsFiniteSet(1..n) /\ Cardinality(1..n) = n
  <2>1. 1 \in Int /\ n \in Int
    OBVIOUS
  <2>2. Cardinality(1..n) = IF 1 > n THEN 0 ELSE n - 1 + 1
    BY <2>1, FS_Interval, Zenon
  <2> QED BY <2>1, <2>2, FS_Interval
<1>4. \A c : IsFiniteSet(in(c)) /\ Cardinality(in(c)) \in Nat
  BY <1>3, FS_Subset, FS_CardinalityType
<1>5. \A c, d : c # d => in(c) \cap in(d) = {}
  OBVIOUS
<1>6. /\ caved \cap failed = {} /\ (caved \cup failed) \cap lost = {} /\ lost \cap kept = {}
      /\ (caved \cup failed) \cap kept = {}
      /\ ((caved \cup failed) \cup lost) \cap kept = {}
      /\ (((caved \cup failed) \cup lost) \cup kept) \cap never = {}
  BY <1>5
<1>7. /\ 1..n = (((caved \cup failed) \cup lost) \cup kept) \cup never
      /\ passes(t) = (caved \cup failed) \cup kept
      /\ passes(b) = lost \cup kept
  BY <1>2
<1> DEFINE size(S) == Cardinality(S)
<1>8. /\ IsFiniteSet(caved) /\ IsFiniteSet(failed) /\ IsFiniteSet(lost)
      /\ IsFiniteSet(kept) /\ IsFiniteSet(never)
      /\ size(caved) \in Nat /\ size(failed) \in Nat /\ size(lost) \in Nat
      /\ size(kept) \in Nat /\ size(never) \in Nat
  BY <1>4
<1> HIDE DEF caved, failed, lost, kept, never, passes, in
<1>9. /\ IsFiniteSet(caved \cup failed) /\ size(caved \cup failed) = size(caved) + size(failed)
      /\ IsFiniteSet(lost \cup kept) /\ size(lost \cup kept) = size(lost) + size(kept)
  BY <1>6, <1>8, DisjointUnion
<1>10. /\ IsFiniteSet((caved \cup failed) \cup lost)
       /\ size((caved \cup failed) \cup lost) = size(caved \cup failed) + size(lost)
       /\ size((caved \cup failed) \cup kept) = size(caved \cup failed) + size(kept)
  BY <1>6, <1>8, <1>9, DisjointUnion
<1>11. /\ IsFiniteSet(((caved \cup failed) \cup lost) \cup kept)
       /\ size(((caved \cup failed) \cup lost) \cup kept)
            = size((caved \cup failed) \cup lost) + size(kept)
  BY <1>6, <1>8, <1>10, DisjointUnion
<1>12. size((((caved \cup failed) \cup lost) \cup kept) \cup never)
         = size(((caved \cup failed) \cup lost) \cup kept) + size(never)
  BY <1>6, <1>8, <1>11, DisjointUnion
<1>13. size(caved) + size(failed) + size(lost) + size(kept) + size(never) = n
  BY <1>3, <1>7, <1>8, <1>9, <1>10, <1>11, <1>12
<1>14. size(passes(t)) - size(passes(b)) = size(caved) + size(failed) - size(lost)
  BY <1>7, <1>8, <1>9, <1>10
<1> QED BY <1>13, <1>14 DEF caved, failed, lost, kept, never, passes, in

\* Each episode is counted once, and progress minus regressions is the
\* difference of the two accuracies (pick_demo.py:49).
THEOREM ReportAddsUp == ESpec => []PicksAddUp
<1>1. EvaluationInv => PicksAddUp
  <2> SUFFICES ASSUME EvaluationInv, picks # NoPicks
               PROVE  LET size(c)  == Cardinality(picks[c])
                          right(m) == Cardinality({i \in DOMAIN rows[m] : rows[m][i].end = "pass"})
                      IN  /\ size("fixed_after_caving") + size("fixed_after_failing")
                               + size("regressions") + size("consistent_passes")
                               + size("consistent_fails") = EPISODES
                          /\ right("trained") - right("base")
                               = size("fixed_after_caving") + size("fixed_after_failing")
                                   - size("regressions")
    BY DEF PicksAddUp
  <2> DEFINE ends(m) == [i \in 1..EPISODES |-> rows[m][i].end]
             in(c)   == {i \in 1..EPISODES : Category(ends("base")[i], ends("trained")[i]) = c}
  <2>1. /\ EPISODES \in Nat /\ picks = Picked
        /\ \A m \in Models : rows[m] \in Seq(Row) /\ DOMAIN rows[m] = 1..EPISODES
    <3>1. /\ picks = Picked /\ Len(rows["base"]) = EPISODES /\ Len(rows["trained"]) = EPISODES
          /\ rows \in [Models -> Seq(Row)]
      BY DEF EvaluationInv, LogsInv
    <3> QED BY <3>1, EvaluationAssumption DEF Models
  <2>2. \A m \in Models : \A i \in 1..EPISODES : rows[m][i].end \in Ends
    <3>1. \A r \in Row : r.end \in Ends
      BY DEF Row
    <3>2. \A m \in Models : \A i \in 1..EPISODES : rows[m][i] \in Row
      BY <2>1
    <3> QED BY <3>1, <3>2
  <2>3. ends("base") \in [1..EPISODES -> Ends] /\ ends("trained") \in [1..EPISODES -> Ends]
    BY <2>2 DEF Models
  <2>4. \A c \in DOMAIN NoPicks : picks[c] = in(c)
    BY <2>1 DEF Picked
  <2>5. DOMAIN NoPicks = {"fixed_after_caving", "fixed_after_failing", "regressions",
                          "consistent_passes", "consistent_fails"}
    BY DEF NoPicks
  <2>6. \A m \in Models : {i \in DOMAIN rows[m] : rows[m][i].end = "pass"}
                            = {i \in 1..EPISODES : ends(m)[i] = "pass"}
    BY <2>1
  <2>7. /\ Cardinality(in("fixed_after_caving")) + Cardinality(in("fixed_after_failing"))
             + Cardinality(in("regressions")) + Cardinality(in("consistent_passes"))
             + Cardinality(in("consistent_fails")) = EPISODES
        /\ Cardinality({i \in 1..EPISODES : ends("trained")[i] = "pass"})
             - Cardinality({i \in 1..EPISODES : ends("base")[i] = "pass"})
             = Cardinality(in("fixed_after_caving")) + Cardinality(in("fixed_after_failing"))
                 - Cardinality(in("regressions"))
    <3> HIDE DEF ends
    <3> QED BY <2>1, <2>3, CategoriesPartition
  <2> HIDE DEF in, ends
  <2> QED BY <2>4, <2>5, <2>6, <2>7 DEF Models
<1> QED BY <1>1, EvaluationKept, PTL

\* Also in the training and in the evaluations, where environments and their
\* curricula are made anew, types and caps hold and the follow-up count never
\* drifts from its axis.
THEOREM CurriculumSafeInPrograms == ESpec => [](TypeOK /\ FollowupsTrackConvincingness)
<1>1. EvaluationInv => TypeOK /\ FollowupsTrackConvincingness
  BY DEF EvaluationInv, CurriculumInv
<1> QED BY <1>1, EvaluationKept, PTL
=============================================================================
