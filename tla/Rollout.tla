------------------------------ MODULE Rollout ------------------------------
(***************************************************************************)
(* rollout_one_episode: prompt, policy, parser and environment in a loop.  *)
(* The policy is a language model, so any completion may come, or the      *)
(* heuristic that the dry run, the evaluation and the warm-up play by,     *)
(* which decides from the records of the environment itself.  Of the       *)
(* environment only what the loop depends on is here: when a step ends the *)
(* episode, what it records, and which arguments make a step or a grader   *)
(* raise; the rest is in Environment.                                      *)
(***************************************************************************)
EXTENDS ActionParser

CONSTANTS
  MAX_TURNS,      \* 12 in the code
  HISTORY_KEEP,   \* _HISTORY_KEEP, 5 in the code
  Policies,       \* which of "llm" and "heuristic" play
  Completions(_)  \* what a language model may write at a turn

ASSUME RolloutAssumption ==
  /\ MAX_TURNS \in Nat \ {0}
  /\ HISTORY_KEEP \in Nat
  /\ Policies \subseteq {"llm", "heuristic"}
  /\ \A t \in 0..(MAX_TURNS - 1) : Completions(t) \subseteq AnyCompletion

VARIABLES
  policy,      \* who plays
  phase,       \* "playing", "over", or "crashed" by an exception
  turn,        \* the environment's turn
  history,     \* of the turns played, whether their observation shows the code
  shows_code,  \* whether the current observation does
  recorded,    \* the recorded calls: tools, and for run_code kinds of input
  wrote,       \* the last completion
  action,      \* what the parser made of it
  applied,     \* whether that action changed the program
  modified,    \* whether any has (_modified_lines)
  warned       \* history: an action of the episode had a warning

vars == <<policy, phase, turn, history, shows_code, recorded, wrote, action, applied,
          modified, warned>>

\* Before the first completion of an episode.
Nothing == [tools |-> <<>>, actions |-> <<>>, words |-> {}, bare |-> "none",
            shape |-> "none", args |-> NoArgs]
NoAction == Action("none", "none", NoArgs, {})

Init ==
  /\ policy \in Policies
  /\ phase = "playing" /\ turn = 0 /\ history = <<>> /\ shows_code = TRUE
  /\ recorded = {} /\ applied = FALSE /\ modified = FALSE /\ warned = FALSE
  /\ wrote = Nothing /\ action = NoAction

\* rollout_n_episodes goes on with the same environment.
NextEpisode ==
  /\ phase = "over" /\ phase' = "playing"
  /\ turn' = 0 /\ history' = <<>> /\ shows_code' = TRUE
  /\ recorded' = {} /\ applied' = FALSE /\ modified' = FALSE /\ warned' = FALSE
  /\ wrote' = Nothing /\ action' = NoAction
  /\ UNCHANGED policy

-----------------------------------------------------------------------------
(* The heuristic of train.py, eval.py and sft_warmup.py.                   *)

Call(tool, args) ==
  [tools |-> <<tool>>, actions |-> <<"tool_call">>, words |-> {}, bare |-> "none",
   shape |-> "args", args |-> args]

\* Its reasoning says submit as well.
SubmitLine == [tools |-> <<>>, actions |-> <<"submit">>, words |-> {"done"}, bare |-> "none",
               shape |-> "none", args |-> NoArgs]

Used(tool) == tool \in recorded

\* Mutant: the input of the call is looked at, and "" taken for none.
HasRunCode_Truthy == recorded \cap {"str", "number", "list"} # {}

\* A call of run_code is recorded by the kind of its input.
HasRunCode == recorded \cap InputKinds # {}

\* The first failing input, or "" if there is none.
FailingInputs == {[NoArgs EXCEPT !.input = i] : i \in {"str", "empty"}}

\* The bug line or the wrong line; both are lines of the program.
Edit == [line |-> "int", new_code |-> "str", input |-> "absent"]

HeuristicCompletions ==
  IF ~Used("read_code")      THEN {Call("read_code", NoArgs)}
  ELSE IF ~Used("run_tests") THEN {Call("run_tests", NoArgs)}
  ELSE IF ~HasRunCode        THEN {Call("run_code", args) : args \in FailingInputs}
  ELSE IF ~modified          THEN {Call("apply_fix", Edit)}
  ELSE {SubmitLine}

Writes == IF policy = "heuristic" THEN HeuristicCompletions ELSE Completions(turn)

-----------------------------------------------------------------------------
\* env.step, apply_fix: if the line is in range, the lines are joined with a
\* value that is no string.
EditRaises(a) ==
  a.tool = "apply_fix" /\ a.args.line \in {"int", "bool"} /\ a.args.new_code = "other"

\* apply_fix writes the line it is given an integer for, if it is in range;
\* those of the heuristic are.
Edits(a) ==
  IF a.tool = "apply_fix" /\ a.args.line \in {"int", "bool"} /\ a.args.new_code # "other"
  THEN IF policy = "heuristic" THEN {TRUE} ELSE BOOLEAN
  ELSE {FALSE}

\* A list or an object cannot be looked up in a set: the push-back trigger
\* does so if it is due, grade_investigation does so at the end.
Unhashable(kinds) == "list" \in kinds

Recorded(a) == recorded \cup {IF a.tool = "run_code" THEN a.args.input ELSE a.tool}

\* Mutant: the environment allows one turn more than the loop plays.
EnvDone_Late == turn + 1 > MAX_TURNS

EnvDone == turn + 1 >= MAX_TURNS

\* One round of the loop up to the parsed action.
Act(type) ==
  /\ phase = "playing" /\ turn < MAX_TURNS
  /\ wrote' \in Writes
  /\ action' = ParseAction(wrote') /\ action'.type = type
  /\ warned' = (warned \/ action'.warnings # {})
  /\ UNCHANGED policy

Finalized(kinds) == phase' = IF Unhashable(kinds) THEN "crashed" ELSE "over"

\* An exception leaves the loop.
ParserRaises ==
  /\ Act("raises")
  /\ phase' = "crashed" /\ applied' = FALSE
  /\ UNCHANGED <<turn, history, shows_code, recorded, modified>>

StepRaises ==
  /\ Act("tool_call")
  /\ \/ EditRaises(action')                                \* "\n".join
     \/ /\ "run_tests" \in recorded         \* then the push-back may be due
        /\ action'.tool = "run_code" /\ action'.args.input = "list"
  /\ phase' = "crashed" /\ turn' = turn + 1 /\ applied' = FALSE
  /\ UNCHANGED <<history, shows_code, recorded, modified>>

Submit ==
  /\ Act("submit")
  /\ turn' = turn + 1
  /\ history' = Append(history, shows_code)
  /\ applied' = FALSE
  /\ Finalized(recorded)
  /\ UNCHANGED <<shows_code, recorded, modified>>

ToolCall ==
  /\ Act("tool_call")
  /\ turn' = turn + 1
  /\ history' = Append(history, shows_code)
  /\ recorded' = Recorded(action')
  /\ shows_code' = (action'.tool = "read_code")
  /\ applied' \in Edits(action')
  /\ modified' = (modified \/ applied')
  /\ IF EnvDone THEN Finalized(recorded') ELSE UNCHANGED phase

Next == NextEpisode \/ ParserRaises \/ StepRaises \/ Submit \/ ToolCall

\* The loop is the caller's own thread and the policy answers every prompt.
Spec == Init /\ [][Next]_vars /\ WF_vars(Next)

-----------------------------------------------------------------------------
\* _truncate_history: the turns whose text the next prompt still has.
Kept == IF Len(history) <= HISTORY_KEEP THEN history
        ELSE SubSeq(history, Len(history) - HISTORY_KEEP + 1, Len(history))

PromptHasCode == shows_code \/ \E i \in DOMAIN Kept : Kept[i]

-----------------------------------------------------------------------------
HeuristicWrites ==
  {Call("read_code", NoArgs), Call("run_tests", NoArgs), Call("apply_fix", Edit), SubmitLine}
    \cup {Call("run_code", args) : args \in FailingInputs}

AllCompletions == HeuristicWrites \cup UNION {Completions(t) : t \in 0..(MAX_TURNS - 1)}

\* Shapes, and what the environment is handed for an edit: a line number
\* that is an integer if it can be made one, and some new_code.
TypeOK ==
  /\ policy \in Policies /\ modified \in BOOLEAN /\ warned \in BOOLEAN
  /\ phase \in {"playing", "over", "crashed"}
  /\ turn \in 0..MAX_TURNS
  /\ history \in Seq(BOOLEAN) /\ Len(history) <= MAX_TURNS
  /\ shows_code \in BOOLEAN /\ applied \in BOOLEAN
  /\ recorded \subseteq InputKinds \cup ValidTools
  /\ wrote \in AllCompletions \cup {Nothing}
  /\ action.type \in {"none", "raises", "submit", "tool_call"}
  /\ (action.type = "tool_call" /\ action.tool = "apply_fix") =>
       /\ action.args.line \in {"absent", "int", "bool", "other"}
       /\ action.args.new_code \in {"blank", "str", "other"}

\* The loop of the rollout and the turn limit of the environment agree: the
\* loop never runs out with an episode the environment has not scored.
LoopEndsWithVerdict == phase = "playing" => turn < MAX_TURNS

\* An explicit tool_call of another tool than submit_fix is never taken for
\* a submission, whatever words its reasoning uses.
HeaderDecides ==
  (/\ action # NoAction
   /\ NamedAction(wrote) = "tool_call" /\ NamedTool(wrote) \notin {"none", "submit_fix"})
    => action.type # "submit"

\* When the parser falls back on read_code for a text that named no tool it
\* knows, it says so: such a step never earns the bonus for clean format.
FallbackIsWarned ==
  (action.type = "tool_call" /\ NamedTool(wrote) # action.tool /\ wrote.bare # action.tool)
    => action.warnings # {}

\* A call that earns the bonus for clean format came with every argument its
\* tool needs, and with an integer where the tool wants one.
CleanMeansComplete ==
  (action.type = "tool_call" /\ action.warnings = {}) =>
    /\ action.tool = "run_code" => action.args.input # "absent"
    /\ action.tool = "apply_fix" => /\ action.args.line \in {"int", "bool"}
                                    /\ action.args.new_code \in {"str", "other"}

\* sft_warmup.py:42: the heuristic writes perfectly formatted actions, and it
\* is done by its fifth: what it decides from are the records its own actions
\* leave, and an action that left none would be written again and again.
HeuristicIsClean ==
  policy = "heuristic" =>
    /\ phase # "crashed" /\ ~warned
    /\ phase = "over" =>
         /\ modified /\ {"read_code", "run_tests"} \subseteq recorded
         /\ MAX_TURNS >= 5 => turn = 5 /\ action.type = "submit"

\* Every episode comes to an end.
EpisodesEnd == (phase = "playing") ~> (phase # "playing")

\* action_parser.py:20: the parser never fabricates arguments.  A program
\* line is only ever replaced by something the model wrote.
EditsAreNotFabricated == applied => action.args.new_code # "blank"

\* action_parser.py:16: completions that are only JSON are tolerated.  An
\* action of such a completion gets the arguments that are in it.
JsonOnlyIsUnderstood ==
  (action.type = "tool_call" /\ action.tool = "run_code" /\ wrote.shape = "nested")
    => action.args.input = wrote.args.input

\* action_parser.py:158: a text that says submit_fix is what the model wants
\* to call next is not read as a submission.
IntentIsNotSubmission ==
  (/\ action # NoAction
   /\ wrote.words = {"submit_fix"} /\ wrote.bare = "none"
   /\ wrote.tools = <<>> /\ wrote.actions = <<>>) => action.type # "submit"

\* rollout.py:219: an episode is run end-to-end and its trajectory returned:
\* no completion makes the loop raise.
EpisodesAreScored == phase # "crashed"

\* rollout.py:77: the code is in the first turn so that the model has it.
ModelHasCode == phase = "playing" => PromptHasCode
=============================================================================
