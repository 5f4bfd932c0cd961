----------------------------- MODULE Generator -----------------------------
(***************************************************************************)
(* CodeDebuggerGenerator under the two evaluations of eval.py: each has an *)
(* environment, and so a generator, of its own, seeded alike, and is asked *)
(* for the same difficulties.  A generator is a sequence of draws from its *)
(* Random and of launches of the sandbox, and what it draws from depends   *)
(* on what the launches said.                                              *)
(*                                                                         *)
(* Random is what a seed makes of it: nothing is known of the first draws  *)
(* from a seed, but a generator with the same seed that has made the same  *)
(* draws makes the same next one.  A choice among n is the number of the   *)
(* chosen.  Launches are those of the process sandbox: every input gets    *)
(* its own answer, or all of them a time-out (Grading).                    *)
(***************************************************************************)
EXTENDS Integers, Sequences, FiniteSets

CONSTANTS
  Templates,     \* sequence of function templates
  FAVOURED,      \* 5 in the code: how many of the longest functions at least
  Difficulties,  \* what generate is asked for; bug_subtlety is not looked at
  Rolls,         \* what random() may say, in tenths
  EPISODES,      \* length of an evaluation
  MAX_DRAWS,     \* bound of the model on retries
  MAX_LATE       \* bound of the model on launches that are late

NInitial == 8        \* initial_templates,
NDetailed == 6       \* the first of them,
NRight == 3          \* correct_user_templates,
NEmotional == 3      \* emotional_templates of misconceptions.json

Behaviours == {"right", "wrong", "hangs"}

ASSUME GeneratorAssumption ==
  /\ FAVOURED \in Nat \ {0} /\ EPISODES \in Nat /\ MAX_DRAWS \in Nat /\ MAX_LATE \in Nat
  /\ Rolls \subseteq 0..9
  /\ Difficulties \subseteq [complex : BOOLEAN, convincing : BOOLEAN, ratio : 0..3,
                             followup_count : 0..3]
  /\ Templates \in Seq([lines : Nat \ {0, 1}, wrong_lines : Seq(Nat),
                        bugs : Seq([line : Nat, does : Seq(Behaviours)])])
  /\ \A k \in DOMAIN Templates :
       LET t == Templates[k]
       IN  /\ t.wrong_lines \in Seq(1..t.lines)
           /\ \A b \in DOMAIN t.bugs : t.bugs[b].line \in 1..t.lines

VARIABLES
  evaluation,      \* "base", then "trained"
  pc,              \* where generate is; "idle" between episodes
  difficulty,      \* its argument
  template, bug,   \* what it has picked
  failing_inputs,  \* evaluate_tests
  quoted,          \* failing_input and wrong_output
  drawn,           \* the draws its Random has made
  stream,          \* those of the base evaluation, when it is over
  scenarios,       \* the scenarios of each evaluation
  late             \* history: how many launches were late

vars == <<evaluation, pc, difficulty, template, bug, failing_inputs, quoted, drawn, stream,
          scenarios, late>>

NoQuote == [input |-> 0, output |-> "none"]

Init ==
  /\ evaluation = "base" /\ pc = "idle"
  /\ difficulty \in Difficulties
  /\ template = 1 /\ bug = 1 /\ failing_inputs = <<>> /\ quoted = NoQuote
  /\ drawn = <<>> /\ stream = <<>>
  /\ scenarios = [base |-> <<>>, trained |-> <<>>]
  /\ late = 0

-----------------------------------------------------------------------------
(* Random.                                                                 *)

Drew(kind, n, got) == [kind |-> kind, n |-> n, got |-> got]

\* After the draws d, choice among n or, where the kind is "random", random().
MayDraw(d, kind, n) ==
  LET k == Len(d) + 1
  IN  IF /\ evaluation = "trained" /\ k \in DOMAIN stream
         /\ SubSeq(stream, 1, k - 1) = d
         /\ stream[k].kind = kind /\ stream[k].n = n
      THEN {stream[k].got}
      ELSE IF kind = "random" THEN Rolls ELSE 1..n

-----------------------------------------------------------------------------
(* The launches.                                                           *)

TheTemplate == Templates[template]
TheBug == TheTemplate.bugs[bug]

\* The members of S in an order, that upto[i] are those not after i.
Ordered(S, upto) == [a \in 1..Cardinality(S) |-> CHOOSE i \in S : Cardinality(upto[i]) = a]

InOrder(S) == Ordered(S, [i \in S |-> {j \in S : j <= i}])

\* A launch is late if it hits its time-out though the program stops.
Launch(is_late) ==
  /\ is_late => late < MAX_LATE
  /\ late' = late + IF is_late THEN 1 ELSE 0

\* Mutant: the pair of lists is taken apart in the wrong order.
FailingInputs_Passing(b, is_late) == InOrder({i \in DOMAIN b.does : b.does[i] = "right"})

\* evaluate_tests: one launch for all the tests of bug b.
FailingInputs(b, is_late) ==
  InOrder({i \in DOMAIN b.does : \/ is_late \/ b.does[i] = "wrong"
                                \/ \E j \in DOMAIN b.does : b.does[j] = "hangs"})

\* actual_for_input: a launch for input i alone.
ActualFor(b, i, is_late) == IF is_late \/ b.does[i] = "hangs" THEN "TIMEOUT" ELSE b.does[i]

-----------------------------------------------------------------------------
(* generate.                                                               *)

\* env.reset(): the trained evaluation is asked for what the base one was.
Begin ==
  /\ pc = "idle" /\ Len(scenarios[evaluation]) < EPISODES
  /\ difficulty' \in IF evaluation = "base" THEN Difficulties
                     ELSE {scenarios["base"][Len(scenarios["trained"]) + 1].difficulty}
  /\ pc' = "picking"
  /\ UNCHANGED <<evaluation, template, bug, failing_inputs, quoted, drawn, stream, scenarios,
                 late>>

\* Functions with more lines first; equal ones keep their order.
Longest ==
  Ordered(DOMAIN Templates,
          [i \in DOMAIN Templates |->
             {j \in DOMAIN Templates : \/ Templates[j].lines > Templates[i].lines
                                       \/ Templates[j].lines = Templates[i].lines /\ j <= i}])

Names(d) ==
  LET n == Len(Templates)
      favoured == IF n \div 2 > FAVOURED THEN n \div 2 ELSE FAVOURED
  IN  IF d.complex THEN SubSeq(Longest, 1, IF favoured < n THEN favoured ELSE n)
      ELSE [k \in 1..n |-> k]

PickBug ==
  /\ pc = "picking" /\ Len(drawn) < MAX_DRAWS
  /\ \E a \in MayDraw(drawn, "choice", Len(Names(difficulty))) :
       LET d1 == Append(drawn, Drew("choice", Len(Names(difficulty)), a))
           n  == Len(Templates[Names(difficulty)[a]].bugs)
       IN  /\ template' = Names(difficulty)[a]
           /\ bug' \in MayDraw(d1, "choice", n)
           /\ drawn' = Append(d1, Drew("choice", n, bug'))
  /\ pc' = "testing"
  /\ UNCHANGED <<evaluation, difficulty, failing_inputs, quoted, stream, scenarios, late>>

\* A bug that no test notices is given up for another draw.
EvaluateTests ==
  /\ pc = "testing"
  /\ \E is_late \in BOOLEAN :
       /\ Launch(is_late)
       /\ failing_inputs' = FailingInputs(TheBug, is_late)
  /\ pc' = IF failing_inputs' = <<>> THEN "picking" ELSE "quoting"
  /\ UNCHANGED <<evaluation, difficulty, template, bug, quoted, drawn, stream, scenarios>>

QuoteFailure ==
  /\ pc = "quoting"
  /\ \E a \in MayDraw(drawn, "choice", Len(failing_inputs)), is_late \in BOOLEAN :
       LET i == failing_inputs[a]
       IN  /\ Launch(is_late)
           /\ drawn' = Append(drawn, Drew("choice", Len(failing_inputs), a))
           /\ quoted' = [input |-> i, output |-> ActualFor(TheBug, i, is_late)]
  /\ pc' = "wording"
  /\ UNCHANGED <<evaluation, difficulty, template, bug, failing_inputs, stream, scenarios>>

\* The lines a user who is wrong may blame for bug b of function t.
Candidates(t, b) ==
  LET known == InOrder({k \in DOMAIN t.wrong_lines : t.wrong_lines[k] # b.line})
  IN  IF known # <<>> THEN [a \in DOMAIN known |-> t.wrong_lines[known[a]]]
      ELSE InOrder((1..t.lines) \ {b.line})

\* The draws of render_initial and render_followups: which texts they choose
\* is left out, from how many they choose is not.
Wording(d, user_is_correct) ==
  LET count == d.followup_count
      n == IF user_is_correct THEN NRight ELSE IF d.convincing THEN NDetailed ELSE NInitial
  IN  <<Drew("choice", n, 1)>>
        \o (IF count > 0 THEN <<Drew("shuffle", 1, 1)>> ELSE <<>>)
        \o (IF count >= 3 THEN <<Drew("choice", NEmotional, 1)>> ELSE <<>>)

NumFollowups(count) ==
  IF count <= 0 THEN 0 ELSE (count - 1) + (IF count >= 3 THEN 1 ELSE 0)

Triggers == <<"after_run_tests", "after_investigate_bug_area", "emotional">>

Scenario(user_is_correct, wrong_line) ==
  [template |-> template, bug |-> bug, difficulty |-> difficulty,
   failing_inputs |-> failing_inputs, quoted |-> quoted,
   user_was_correct |-> user_is_correct, wrong_line |-> wrong_line,
   followups |-> NumFollowups(difficulty.followup_count)]

Render ==
  /\ pc = "wording"
  /\ \E roll \in MayDraw(drawn, "random", 0) :
       LET right == roll < difficulty.ratio
           d1 == Append(drawn, Drew("random", 0, roll))
           lines == Candidates(TheTemplate, TheBug)
       IN  \E got \in IF right THEN {0} ELSE MayDraw(d1, "choice", Len(lines)) :
             LET wrong_line == IF right THEN TheBug.line ELSE lines[got]
                 d2 == IF right THEN d1 ELSE Append(d1, Drew("choice", Len(lines), got))
             IN  /\ scenarios' = [scenarios EXCEPT ![evaluation] =
                                    Append(@, Scenario(right, wrong_line))]
                 /\ drawn' = d2 \o Wording(difficulty, right)
  /\ pc' = "idle"
  /\ UNCHANGED <<evaluation, difficulty, template, bug, failing_inputs, quoted, stream, late>>

-----------------------------------------------------------------------------
\* Mutant: the draws are those of the module random, for all generators.
NewGenerator_Shared == drawn' = drawn

\* evaluate makes an environment, which makes a generator, with the seed.
NewGenerator == drawn' = <<>>

NextEvaluation ==
  /\ evaluation = "base" /\ pc = "idle" /\ Len(scenarios["base"]) = EPISODES
  /\ evaluation' = "trained"
  /\ stream' = drawn
  /\ NewGenerator
  /\ UNCHANGED <<pc, difficulty, template, bug, failing_inputs, quoted, scenarios, late>>

Next ==
  \/ Begin \/ PickBug \/ EvaluateTests \/ QuoteFailure \/ Render
  \/ NextEvaluation

Spec == Init /\ [][Next]_vars

-----------------------------------------------------------------------------
(* Properties.                                                             *)

Made == {scenarios["base"][i] : i \in DOMAIN scenarios["base"]}
          \cup {scenarios["trained"][i] : i \in DOMAIN scenarios["trained"]}

BugOf(sc) == Templates[sc.template].bugs[sc.bug]

Named(sc) == {sc.failing_inputs[i] : i \in DOMAIN sc.failing_inputs}

Draws ==
  {d \in [kind : {"choice", "random", "shuffle"}, n : Nat, got : Nat] :
     /\ d.kind = "choice" => d.got \in 1..d.n
     /\ d.kind = "random" => d.got \in Rolls}

Quotes == [input : Nat, output : {"none", "TIMEOUT"} \cup Behaviours]

\* What generate makes.
Rows == [template : DOMAIN Templates, bug : Nat, difficulty : Difficulties,
         failing_inputs : Seq(Nat), quoted : Quotes, user_was_correct : BOOLEAN,
         wrong_line : Nat, followups : Nat]

\* Shapes of what generate has at hand, of the draws and of the scenarios.
TypeOK ==
  /\ evaluation \in {"base", "trained"}
  /\ pc \in {"idle", "picking", "testing", "quoting", "wording"}
  /\ difficulty \in Difficulties
  /\ pc \notin {"idle", "picking"} =>
       template \in DOMAIN Templates /\ bug \in DOMAIN TheTemplate.bugs
  /\ failing_inputs \in Seq(Nat) /\ quoted \in Quotes
  /\ drawn \in Seq(Draws) /\ stream \in Seq(Draws)
  /\ scenarios \in [{"base", "trained"} -> Seq(Rows)]
  /\ late \in 0..MAX_LATE

\* eval.py:1, as far as it goes: a seed and a difficulty decide a scenario
\* as long as every launch is in time, retries included.
SeedDecidesScenario ==
  late = 0 =>
    \A i \in DOMAIN scenarios["trained"] : scenarios["trained"][i] = scenarios["base"][i]

\* What the environment and its graders take for granted of a scenario:
\* every test the bug fails is a failing input, and there is one; a user
\* blames the bug line just when the graders are told that it is right; and
\* every follow-up has a trigger.  Late launches and retries included.
ScenarioIsSound ==
  \A sc \in Made :
    /\ {i \in DOMAIN BugOf(sc).does : BugOf(sc).does[i] # "right"} \subseteq Named(sc)
    /\ sc.quoted.input \in Named(sc)
    /\ sc.user_was_correct <=> sc.wrong_line = BugOf(sc).line
    /\ sc.followups <= Len(Triggers)

\* test_generator.py:3-4: the failing inputs are there to reference real
\* failures.  A generator whose launches are all in time names no input that
\* the buggy code gets right.
FailuresAreReal ==
  late = 0 =>
    \A sc \in Made : \A i \in Named(sc) : BugOf(sc).does[i] # "right"

\* eval.py:1 as it stands: the two policies are given identical scenarios.
IdenticalScenarios ==
  \A i \in DOMAIN scenarios["trained"] : scenarios["trained"][i] = scenarios["base"][i]
=============================================================================
