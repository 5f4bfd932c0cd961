----------------------------- MODULE Curriculum -----------------------------
(***************************************************************************)
(* AdaptiveCurriculum: what difficulty the next episode gets, and how the  *)
(* result of an episode moves it.  Axis values are in tenths.  The floats  *)
(* of the code stay within 2e-16 of tenths and fall on the same side of    *)
(* every threshold as the tenth they stand for; what their residue can     *)
(* change is the order of two equal values, so a choice between equals is  *)
(* left open here.                                                         *)
(***************************************************************************)
EXTENDS Integers, Sequences, FiniteSets

CONSTANTS
  AxisOrder,       \* _AXIS_NAMES, in the order round robin takes them
  HISTORY,         \* history_size, 20
  AXIS_WINDOW,     \* axis_window, 50
  MIN_SIGNAL,      \* results needed on each side of an axis, 5
  WARMUP, SCHED,   \* ends of the scheduled phases, 30 and 80
  MaxLevel,        \* cap of an axis, 10
  RatioCap,        \* cap of correct_user_ratio, 3
  Presets,         \* difficulties a client asks for by name
  Results,         \* outcomes an episode may have
  Regrades         \* whether a client steps on after done, and is graded again

Axes == {AxisOrder[i] : i \in DOMAIN AxisOrder}
MCC   == "misconception_convincingness"
Ratio == "correct_user_ratio"

ASSUME AxisAssumption ==
  /\ AxisOrder \in Seq({"bug_subtlety", MCC, "code_complexity", Ratio})
  /\ MCC \in Axes
  /\ \A i, j \in DOMAIN AxisOrder : AxisOrder[i] = AxisOrder[j] => i = j

ASSUME SizeAssumption ==
  /\ HISTORY \in Nat \ {0} /\ AXIS_WINDOW \in Nat \ {0}
  /\ MIN_SIGNAL \in Nat \ {0}
  /\ WARMUP \in Nat /\ SCHED \in Nat /\ WARMUP <= SCHED
  /\ MaxLevel \in 0..10 /\ RatioCap \in 0..MaxLevel
  /\ Presets \subseteq {"easy", "medium", "hard"}
  /\ Results \subseteq BOOLEAN /\ Regrades \in BOOLEAN

VARIABLES
  difficulty,              \* axis -> level
  followup_count,
  history,                 \* correct or not, of the last HISTORY episodes
  steps,                   \* episodes seen; nothing tells counts above SCHED apart
  axis_high, axis_low,     \* axis -> results of episodes played high, low on it
  round_robin_idx,         \* only its remainder is used
  playing,                 \* difficulty of the running episode, or of the last
  running                  \* whether that episode has not been graded yet

vars == <<difficulty, followup_count, history, steps, axis_high, axis_low,
          round_robin_idx, playing, running>>

-----------------------------------------------------------------------------
Cap(axis)    == IF axis = Ratio THEN RatioCap ELSE MaxLevel
IsHigh(axis, level) == IF axis = Ratio THEN 10 * level >= 15 ELSE level >= 5

\* int(round(3 * x)): the only tie a tenth can make is 1.5, and 2 is even.
Followups(level) == (3 * level + 5) \div 10

\* deque(maxlen = n).append
Push(s, x, n) == IF Len(s) < n THEN Append(s, x) ELSE Append(Tail(s), x)

Right(s) == Cardinality({i \in DOMAIN s : s[i]})

Config(bug, mcc, complexity, ratio, count) ==
  [level |-> [a \in Axes |-> CASE a = "bug_subtlety"    -> bug
                               [] a = MCC               -> mcc
                               [] a = "code_complexity" -> complexity
                               [] OTHER                 -> ratio],
   followup_count |-> count]

Preset(name) ==
  CASE name = "easy"   -> Config(0, 0, 0, 0, 0)
    [] name = "medium" -> Config(5, 5, 3, 0, 1)
    [] OTHER           -> Config(9, 9, 7, 2, 2)

ScheduledOrAdaptive ==
  CASE steps < WARMUP -> Config(0, 0, 0, 0, 0)
    [] steps >= WARMUP /\ steps < SCHED -> Config(3, 3, 2, 0, 1)
    [] OTHER -> [level |-> difficulty, followup_count |-> followup_count]

Init ==
  /\ difficulty = [a \in Axes |-> 0]
  /\ followup_count = 0
  /\ history = <<>>
  /\ steps = 0
  /\ axis_high = [a \in Axes |-> <<>>]
  /\ axis_low = [a \in Axes |-> <<>>]
  /\ round_robin_idx = 0
  /\ playing = Config(0, 0, 0, 0, 0)
  /\ running = FALSE

Begin(config) ==
  /\ playing' = config
  /\ running' = TRUE
  /\ UNCHANGED <<difficulty, followup_count, history, steps, axis_high, axis_low,
                 round_robin_idx>>

\* reset(): a difficulty named by the client overrides the curriculum for
\* this episode.
BeginAdaptive == Begin(ScheduledOrAdaptive)
BeginPreset   == \E name \in Presets : Begin(Preset(name))

-----------------------------------------------------------------------------
(* Choosing the axis to move.                                              *)

WithSignal(high, low) ==
  {a \in Axes : Len(high[a]) >= MIN_SIGNAL /\ Len(low[a]) >= MIN_SIGNAL}

\* The accuracy on the low side minus that on the high side, over a common
\* denominator per axis; DropLeq compares two of them.
DropNum(a, high, low) == Right(low[a]) * Len(high[a]) - Right(high[a]) * Len(low[a])
DropDen(a, high, low) == Len(low[a]) * Len(high[a])
DropLeq(a, b, high, low) ==
  DropNum(a, high, low) * DropDen(b, high, low) <= DropNum(b, high, low) * DropDen(a, high, low)

WeakestAxes(high, low) ==
  {b \in WithSignal(high, low) : \A a \in WithSignal(high, low) : DropLeq(a, b, high, low)}

\* Mutant: the sign is lost, and the easiest axis is eased.
HardestAxes_Easiest == {a \in Axes : \A b \in Axes : difficulty[a] <= difficulty[b]}

HardestAxes == {a \in Axes : \A b \in Axes : difficulty[b] <= difficulty[a]}

Larger(m, n)  == IF m >= n THEN m ELSE n
Smaller(m, n) == IF m <= n THEN m ELSE n

\* Mutant: the follow-ups only ever grow.
FollowupsAfter_NeverFewer(levels, delta) ==
  Smaller(3, Larger(followup_count, Followups(levels[MCC])))

\* The follow-up count follows misconception_convincingness, up on a bump
\* and down on an easing, whichever axis moved.
FollowupsAfter(levels, delta) ==
  Smaller(3, Larger(0, IF delta > 0
                       THEN Larger(followup_count, Followups(levels[MCC]))
                       ELSE Smaller(followup_count, Followups(levels[MCC]))))

Bump(axis, delta) ==
  /\ difficulty' = [difficulty EXCEPT ![axis] = Larger(0, Smaller(Cap(axis), @ + delta))]
  /\ followup_count' = FollowupsAfter(difficulty', delta)

NextInTurn ==
  IF round_robin_idx + 1 = Len(AxisOrder) THEN 0 ELSE round_robin_idx + 1

\* _find_weakest_axis and the bump: the axes with enough results decide
\* among themselves; the round robin is for when there is none.
BumpWeakest ==
  \/ /\ \E axis \in WeakestAxes(axis_high', axis_low') : Bump(axis, 1)
     /\ UNCHANGED round_robin_idx
  \/ /\ WithSignal(axis_high', axis_low') = {}
     /\ Bump(AxisOrder[round_robin_idx + 1], 1)
     /\ round_robin_idx' = NextInTurn

EaseHardest ==
  /\ \E axis \in HardestAxes : Bump(axis, -1)
  /\ UNCHANGED round_robin_idx

\* Mutant: better than chance is enough.
DoingWell_AtHalf(recent) == 2 * Right(recent) > HISTORY

DoingWell(recent)  == 4 * Right(recent) > 3 * HISTORY
Struggling(recent) == 4 * Right(recent) < HISTORY

\* update(): the controller runs whenever the history is full, whether or
\* not the schedule still decides what is played.
Update(correct) ==
  /\ running \/ (Regrades /\ steps > 0)
  /\ running' = FALSE
  /\ steps' = Smaller(steps + 1, SCHED)
  /\ history' = Push(history, correct, HISTORY)
  /\ axis_high' = [a \in Axes |-> IF IsHigh(a, playing.level[a])
                                  THEN Push(axis_high[a], correct, AXIS_WINDOW) ELSE axis_high[a]]
  /\ axis_low' = [a \in Axes |-> IF IsHigh(a, playing.level[a])
                                 THEN axis_low[a] ELSE Push(axis_low[a], correct, AXIS_WINDOW)]
  /\ UNCHANGED playing
  /\ \/ Len(history') = HISTORY /\ DoingWell(history') /\ BumpWeakest
     \/ Len(history') = HISTORY /\ Struggling(history') /\ EaseHardest
     \/ /\ Len(history') = HISTORY => ~DoingWell(history') /\ ~Struggling(history')
        /\ UNCHANGED <<difficulty, followup_count, round_robin_idx>>

Finish == \E correct \in Results : Update(correct)

Next == BeginAdaptive \/ BeginPreset \/ Finish

\* Training goes on: adaptive episodes are begun, and episodes finished,
\* again and again.  Presets are never owed.
Fairness == WF_vars(BeginAdaptive) /\ WF_vars(Finish)

Spec == Init /\ [][Next]_vars /\ Fairness

-----------------------------------------------------------------------------
(* Properties.                                                             *)

Configs == [level : [Axes -> 0..10], followup_count : 0..3]

\* Types; each axis within its cap, each window within its size.
TypeOK ==
  /\ difficulty \in [Axes -> 0..10] /\ \A a \in Axes : difficulty[a] <= Cap(a)
  /\ followup_count \in 0..3
  /\ history \in Seq(BOOLEAN) /\ Len(history) <= HISTORY
  /\ steps \in 0..SCHED
  /\ axis_high \in [Axes -> Seq(BOOLEAN)] /\ axis_low \in [Axes -> Seq(BOOLEAN)]
  /\ \A a \in Axes : Len(axis_high[a]) <= AXIS_WINDOW /\ Len(axis_low[a]) <= AXIS_WINDOW
  /\ round_robin_idx \in 0..(Len(AxisOrder) - 1)
  /\ playing \in Configs /\ running \in BOOLEAN

\* Whatever sequence of bumps and easings of whichever axes led here, the
\* follow-up count is the one its axis stands for (_bump_axis keeps it with
\* a max on the way up and a min on the way down).
FollowupsTrackConvincingness == followup_count = Followups(difficulty[MCC])

\* One episode moves at most one axis, by at most a tenth, and only in the
\* direction that the last HISTORY results, this one included, call for.
OneNudge ==
  [][ LET right == Right(history')
          up    == {a \in Axes : difficulty'[a] > difficulty[a]}
          down  == {a \in Axes : difficulty'[a] < difficulty[a]}
      IN  /\ \A a, b \in up \cup down : a = b /\ difficulty'[a] - difficulty[a] \in {-1, 1}
          /\ up # {} => Len(history') = HISTORY /\ 4 * right > 3 * HISTORY
          /\ down # {} => Len(history') = HISTORY /\ 4 * right < HISTORY ]_vars

\* An agent that from some point on never succeeds is led all the way back
\* to the easiest difficulty, and stays there.
RecoversFromFailure ==
  <>[](\A i \in DOMAIN history : ~history[i]) => <>[](\A a \in Axes : difficulty[a] = 0)

\* curriculum.py:123-125: the fallback "guarantees every axis (especially
\* correct_user_ratio) eventually gets bumped": so for an agent that is always
\* right, once it is past the episodes played at a named preset.
EveryAxisGetsBumped ==
  <>[](\A name \in Presets : playing.level # Preset(name).level) =>
    \A a \in Axes : <>(difficulty[a] > 0)
=============================================================================
