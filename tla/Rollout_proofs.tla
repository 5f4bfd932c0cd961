--------------------------- MODULE Rollout_proofs ---------------------------
(***************************************************************************)
(* Proofs about Rollout and the parser it calls.  What the parser promises *)
(* of one completion are lemmas on ParseAction; they reach the states of   *)
(* the loop by one fact, Parsed: the action at hand is what the parser     *)
(* made of the completion at hand.                                         *)
(***************************************************************************)
EXTENDS Rollout, WellFoundedInduction, TLAPS

-----------------------------------------------------------------------------
(* The parser.                                                             *)

\* A pattern's find is used only if it is one of the valid names.
LEMMA FirstValidIsValid ==
  ASSUME NEW S, NEW found \in Seq(S), NEW valid
  PROVE  FirstValid(found, valid) \in valid \cup {"none"}
<1> DEFINE ok == {i \in DOMAIN found : found[i] \in valid}
<1>1. CASE ok = {}
  BY <1>1 DEF FirstValid
<1>2. CASE ok # {}
  <2>1. ok \in SUBSET Nat
    OBVIOUS
  <2>2. PICK n \in ok : \A m \in ok : n <= m
    <3> DEFINE R == {ss \in Nat \X Nat : ss[1] < ss[2]}
    <3>1. IsWellFoundedOn(R, Nat)
      BY NatLessThanWellFounded DEF OpToRel
    <3>2. PICK n \in ok : \A m \in ok : ~(<<m, n>> \in R)
      <4> HIDE DEF ok, R
      <4> QED
        BY <1>2, <2>1, <3>1, WFMin
    <3>3. ASSUME NEW m \in ok
          PROVE  n <= m
      <4>1. m \in Nat /\ n \in Nat
        BY <2>1
      <4>2. ~(<<m, n>>[1] < <<m, n>>[2])
        BY <3>2, <4>1
      <4> QED
        BY <4>1, <4>2
    <3> QED
      BY <3>3
  <2>3. (CHOOSE i \in ok : \A j \in ok : i <= j) \in ok
    BY <2>2
  <2> QED
    BY <1>2, <2>3 DEF FirstValid
<1> QED
  BY <1>1, <1>2

\* A header with a tool_call of a tool other than submit_fix is no submission.
LEMMA HeaderIsObeyed ==
  ASSUME NEW c, NamedAction(c) = "tool_call", NamedTool(c) \notin {"none", "submit_fix"}
  PROVE  ParseAction(c).type # "submit"
<1>1. ~Submits(c)
  BY DEF Submits, InfersSubmit, NothingNamed
<1> QED
  BY <1>1 DEF ParseAction, Action

\* What becomes a call, and with which tool, arguments and warnings.
LEMMA ParsedCall ==
  ASSUME NEW c, ParseAction(c).type = "tool_call"
  PROVE  /\ ~Submits(c)
         /\ ~(ToolOf(c) = "apply_fix" /\ ExtractArgs(c).line = "infinite")
         /\ ParseAction(c).tool = ToolOf(c)
         /\ ParseAction(c).args = Validated(ToolOf(c), ExtractArgs(c))
         /\ ToolWarnings(c) \subseteq ParseAction(c).warnings
         /\ ArgWarnings(ToolOf(c), ExtractArgs(c)) \subseteq ParseAction(c).warnings
<1>1. ~Submits(c)
  BY DEF ParseAction, Action
<1>2. ~(ToolOf(c) = "apply_fix" /\ ExtractArgs(c).line = "infinite")
  BY <1>1 DEF ParseAction, Action
<1> QED
  BY <1>1, <1>2 DEF ParseAction, Action

\* A tool that neither a pattern nor a bare call named comes with a warning.
LEMMA DefaultIsWarned ==
  ASSUME NEW c, ParseAction(c).type = "tool_call",
         NamedTool(c) # ParseAction(c).tool, c.bare # ParseAction(c).tool
  PROVE  ParseAction(c).warnings # {}
<1>1. ToolOf(c) # NamedTool(c) /\ ToolOf(c) # c.bare
  BY ParsedCall
<1>2. NamedTool(c) = "none"
  BY <1>1 DEF ToolOf
<1>3. ~(NothingNamed(c) /\ c.bare # "none")
  BY <1>1, <1>2 DEF ToolOf
<1>4. ToolWarnings(c) # {}
  BY <1>2, <1>3 DEF ToolWarnings
<1> QED
  BY <1>4, ParsedCall

LEMMA ExtractedArgs ==
  ASSUME NEW c, c.args \in ArgKinds
  PROVE  ExtractArgs(c) \in ArgKinds
BY DEF ExtractArgs, NoArgs, ArgKinds, LineKinds, CodeKinds, InputKinds

\* A call without a warning has what its tool needs.
LEMMA UnwarnedIsComplete ==
  ASSUME NEW c, c.args \in ArgKinds,
         ParseAction(c).type = "tool_call", ParseAction(c).warnings = {}
  PROVE  LET a == ParseAction(c)
         IN  /\ a.tool = "run_code" => a.args.input # "absent"
             /\ a.tool = "apply_fix" => /\ a.args.line \in {"int", "bool"}
                                        /\ a.args.new_code \in {"str", "other"}
<1> DEFINE args == ExtractArgs(c)
<1>1. args \in ArgKinds
  BY ExtractedArgs
<1>2. ArgWarnings(ToolOf(c), args) = {}
  BY ParsedCall
<1>3. ASSUME ToolOf(c) = "run_code"
      PROVE  Validated(ToolOf(c), args).input # "absent"
  BY <1>2, <1>3 DEF ArgWarnings, Validated
<1>4. ASSUME ToolOf(c) = "apply_fix"
      PROVE  /\ Validated(ToolOf(c), args).line \in {"int", "bool"}
             /\ Validated(ToolOf(c), args).new_code \in {"str", "other"}
  <2>1. /\ args.line \notin {"absent", "other"}
        /\ args.new_code # "absent"
    BY <1>2, <1>4 DEF ArgWarnings
  <2>2. args.line # "infinite"
    BY <1>4, ParsedCall
  <2>3. args.line \in {"int", "bool", "numeral", "float"} /\ args.new_code \in {"str", "other"}
    BY <1>1, <2>1, <2>2 DEF ArgKinds, LineKinds, CodeKinds
  <2>4. /\ Validated(ToolOf(c), args).line = LineOf(args.line)
        /\ Validated(ToolOf(c), args).new_code = args.new_code
    BY <1>4, <2>1 DEF Validated
  <2> QED
    BY <2>3, <2>4 DEF LineOf
<1> QED
  BY <1>3, <1>4, ParsedCall

\* The shape of what the parser returns.
LEMMA ParsedTypes ==
  ASSUME NEW c \in AnyCompletion
  PROVE  LET a == ParseAction(c)
         IN  /\ a.type \in {"raises", "submit", "tool_call"}
             /\ a.type = "tool_call" =>
                  /\ a.tool \in ValidTools
                  /\ a.args.input \in InputKinds
                  /\ a.tool = "apply_fix" =>
                       /\ a.args.line \in {"absent", "int", "bool", "other"}
                       /\ a.args.new_code \in {"blank", "str", "other"}
<1> DEFINE args == ExtractArgs(c)
<1>1. /\ c.tools \in Seq(Names) /\ c.args \in ArgKinds
      /\ c.bare \in ValidTools \cup {"none"}
  BY DEF AnyCompletion, CompletionsOf
<1>2. args \in ArgKinds
  BY <1>1, ExtractedArgs
<1>3. ParseAction(c).type \in {"raises", "submit", "tool_call"}
  BY DEF ParseAction, Action
<1>4. NamedTool(c) \in ValidTools \cup {"none"}
  BY <1>1, FirstValidIsValid DEF NamedTool
<1>5. ToolOf(c) \in ValidTools
  BY <1>1, <1>4 DEF ToolOf, ValidTools
<1>6. ASSUME ParseAction(c).type = "tool_call"
      PROVE  /\ Validated(ToolOf(c), args).input \in InputKinds
             /\ ToolOf(c) = "apply_fix" =>
                  /\ Validated(ToolOf(c), args).line \in {"absent", "int", "bool", "other"}
                  /\ Validated(ToolOf(c), args).new_code \in {"blank", "str", "other"}
  <2>1. CASE ToolOf(c) # "apply_fix"
    BY <1>2, <2>1 DEF Validated, ArgKinds
  <2>2. CASE ToolOf(c) = "apply_fix"
    <3>1. args.line \in {"absent", "int", "bool", "numeral", "float", "other"}
      BY <1>2, <1>6, <2>2, ParsedCall DEF ArgKinds, LineKinds
    <3>2. LineOf(args.line) \in {"absent", "int", "bool", "other"}
      BY <3>1 DEF LineOf
    <3> QED
      BY <1>2, <2>2, <3>2 DEF Validated, ArgKinds, CodeKinds
  <2> QED
    BY <2>1, <2>2
<1> QED
  BY <1>3, <1>5, <1>6, ParsedCall

-----------------------------------------------------------------------------
(* The loop.                                                               *)

Parsed == action = NoAction \/ (action = ParseAction(wrote) /\ wrote.args \in ArgKinds)

IInv ==
  /\ TypeOK
  /\ Len(history) <= turn
  /\ Parsed
  /\ LoopEndsWithVerdict

\* What either policy writes is a completion of some turn, and typed.
LEMMA WritesAreTyped ==
  ASSUME policy \in Policies, turn \in 0..(MAX_TURNS - 1), NEW c \in Writes
  PROVE  c \in AllCompletions /\ c \in AnyCompletion
<1>1. ASSUME c \in HeuristicWrites
      PROVE  c \in AnyCompletion
  <2>1. /\ NoArgs \in ArgKinds /\ Edit \in ArgKinds /\ FailingInputs \subseteq ArgKinds
    BY DEF NoArgs, Edit, FailingInputs, ArgKinds, LineKinds, CodeKinds, InputKinds
  <2>2. ASSUME NEW tool \in ValidTools, NEW args \in ArgKinds
        PROVE  Call(tool, args) \in AnyCompletion
    <3>1. <<tool>> \in Seq(Names) /\ <<"tool_call">> \in Seq(Names)
      BY DEF ValidTools, Names
    <3>2. {} \in SUBSET {"done", "submit_fix"}
      OBVIOUS
    <3> QED
      BY <3>1, <3>2 DEF Call, AnyCompletion, CompletionsOf, Shapes
  <2>3. SubmitLine \in AnyCompletion
    <3>1. <<>> \in Seq(Names) /\ <<"submit">> \in Seq(Names)
      BY DEF Names
    <3>2. {"done"} \in SUBSET {"done", "submit_fix"}
      OBVIOUS
    <3> QED
      BY <2>1, <3>1, <3>2 DEF SubmitLine, AnyCompletion, CompletionsOf, Shapes
  <2> QED
    BY <1>1, <2>1, <2>2, <2>3 DEF HeuristicWrites, ValidTools
<1>2. CASE policy = "heuristic"
  <2>1. c \in HeuristicWrites
    BY <1>2 DEF Writes, HeuristicCompletions, HeuristicWrites
  <2> QED
    BY <1>1, <2>1 DEF AllCompletions
<1>3. CASE policy # "heuristic"
  BY <1>3, RolloutAssumption DEF Writes, AllCompletions
<1> QED
  BY <1>2, <1>3

\* One round of the loop up to the parsed action, from a typed state.
LEMMA RoundIsTyped ==
  ASSUME IInv, NEW type, Act(type)
  PROVE  /\ turn \in 0..(MAX_TURNS - 1) /\ policy' = policy
         /\ wrote' \in AllCompletions /\ wrote' \in AnyCompletion
         /\ action' = ParseAction(wrote') /\ action'.type = type
         /\ warned' \in BOOLEAN
         /\ Parsed'
<1>1. turn \in 0..(MAX_TURNS - 1) /\ policy \in Policies
  BY RolloutAssumption DEF IInv, TypeOK, Act
<1>2. wrote' \in AllCompletions /\ wrote' \in AnyCompletion
  BY <1>1, WritesAreTyped DEF Act
<1>3. wrote'.args \in ArgKinds
  BY <1>2 DEF AnyCompletion, CompletionsOf
<1> QED
  BY <1>1, <1>2, <1>3 DEF Act, Parsed, IInv, TypeOK

\* The first observation of an episode, its first or a later one.
LEMMA FreshEpisode ==
  ASSUME phase = "playing", turn = 0, history = <<>>, shows_code = TRUE, recorded = {},
         applied = FALSE, modified = FALSE, warned = FALSE, wrote = Nothing,
         action = NoAction, policy \in Policies
  PROVE  IInv
<1>1. NoAction.type = "none"
  BY DEF NoAction, Action
<1>2. turn \in 0..MAX_TURNS /\ turn < MAX_TURNS
  BY RolloutAssumption
<1>3. history \in Seq(BOOLEAN) /\ Len(history) <= turn /\ Len(history) <= MAX_TURNS
  BY <1>2
<1>4. TypeOK
  BY <1>1, <1>2, <1>3 DEF TypeOK
<1> QED
  BY <1>2, <1>3, <1>4 DEF IInv, Parsed, LoopEndsWithVerdict

LEMMA InitIInv == Init => IInv
BY FreshEpisode DEF Init

LEMMA NextIInv == IInv /\ [Next]_vars => IInv'
<1> SUFFICES ASSUME IInv, [Next]_vars
             PROVE  IInv'
  OBVIOUS
<1> USE RolloutAssumption
<1>1. CASE NextEpisode
  <2>1. NoAction.type = "none"
    BY DEF NoAction, Action
  <2>2. turn' \in 0..MAX_TURNS /\ turn' < MAX_TURNS
    BY <1>1 DEF NextEpisode
  <2>3. history' \in Seq(BOOLEAN) /\ Len(history') <= turn' /\ Len(history') <= MAX_TURNS
    BY <1>1, <2>2 DEF NextEpisode
  <2>4. TypeOK'
    BY <1>1, <2>1, <2>2, <2>3 DEF NextEpisode, IInv, TypeOK
  <2>5. Parsed' /\ LoopEndsWithVerdict'
    BY <1>1, <2>2 DEF NextEpisode, Parsed, LoopEndsWithVerdict
  <2> QED
    BY <2>3, <2>4, <2>5 DEF IInv
<1>2. CASE ParserRaises
  <2>1. Act("raises")
    BY <1>2 DEF ParserRaises
  <2>2. /\ policy' \in Policies /\ Parsed'
        /\ wrote' \in AllCompletions /\ warned' \in BOOLEAN /\ action'.type = "raises"
    BY <2>1, RoundIsTyped DEF IInv, TypeOK
  <2>3. TypeOK' /\ Len(history') <= turn'
    BY <1>2, <2>2 DEF ParserRaises, IInv, TypeOK
  <2>4. LoopEndsWithVerdict'
    BY <1>2 DEF ParserRaises, LoopEndsWithVerdict
  <2> QED
    BY <2>2, <2>3, <2>4 DEF IInv
<1>3. CASE StepRaises
  <2>1. Act("tool_call")
    BY <1>3 DEF StepRaises
  <2>2. /\ policy' \in Policies /\ Parsed'
        /\ wrote' \in AllCompletions /\ warned' \in BOOLEAN
        /\ action'.type = "tool_call"
        /\ action'.tool = "apply_fix" =>
             /\ action'.args.line \in {"absent", "int", "bool", "other"}
             /\ action'.args.new_code \in {"blank", "str", "other"}
    BY <2>1, RoundIsTyped, ParsedTypes DEF IInv, TypeOK
  <2>3. turn' \in 0..MAX_TURNS /\ Len(history') <= turn' /\ Len(history') <= MAX_TURNS
    BY <1>3, <2>1, RoundIsTyped DEF StepRaises, IInv, TypeOK
  <2> QED
    BY <1>3, <2>2, <2>3 DEF StepRaises, IInv, TypeOK, LoopEndsWithVerdict
<1>4. CASE Submit
  <2>1. Act("submit")
    BY <1>4 DEF Submit
  <2>2. /\ policy' \in Policies /\ Parsed'
        /\ wrote' \in AllCompletions /\ warned' \in BOOLEAN /\ action'.type = "submit"
    BY <2>1, RoundIsTyped DEF IInv, TypeOK
  <2>3. turn' \in 0..MAX_TURNS
    BY <1>4, <2>1, RoundIsTyped DEF Submit, IInv, TypeOK
  <2>4. /\ history' \in Seq(BOOLEAN)
        /\ Len(history') <= turn' /\ Len(history') <= MAX_TURNS
    BY <1>4, <2>1, RoundIsTyped DEF Submit, IInv, TypeOK
  <2>5. phase' \in {"crashed", "over"}
    BY <1>4 DEF Submit, Finalized
  <2>6. TypeOK'
    BY <1>4, <2>2, <2>3, <2>4, <2>5 DEF Submit, IInv, TypeOK
  <2>7. LoopEndsWithVerdict'
    BY <2>5 DEF LoopEndsWithVerdict
  <2> QED
    BY <2>2, <2>4, <2>6, <2>7 DEF IInv
<1>5. CASE ToolCall
  <2>1. Act("tool_call")
    BY <1>5 DEF ToolCall
  <2>2. /\ policy' \in Policies /\ Parsed'
        /\ wrote' \in AllCompletions /\ warned' \in BOOLEAN
        /\ action'.type = "tool_call"
        /\ action'.tool \in ValidTools
        /\ action'.args.input \in InputKinds
        /\ action'.tool = "apply_fix" =>
             /\ action'.args.line \in {"absent", "int", "bool", "other"}
             /\ action'.args.new_code \in {"blank", "str", "other"}
    BY <2>1, RoundIsTyped, ParsedTypes DEF IInv, TypeOK
  <2>3. turn' \in 0..MAX_TURNS
    BY <1>5, <2>1, RoundIsTyped DEF ToolCall, IInv, TypeOK
  <2>4. /\ history' \in Seq(BOOLEAN)
        /\ Len(history') <= turn' /\ Len(history') <= MAX_TURNS
    BY <1>5, <2>1, RoundIsTyped DEF ToolCall, IInv, TypeOK
  <2>5. /\ phase' \in {"playing", "crashed", "over"}
        /\ phase' = "playing" => turn' < MAX_TURNS
    BY <1>5, <2>1, RoundIsTyped DEF ToolCall, Finalized, EnvDone, IInv, TypeOK
  <2>6. recorded' \subseteq InputKinds \cup ValidTools
    BY <1>5, <2>2 DEF ToolCall, Recorded, IInv, TypeOK
  <2>7. /\ applied' \in BOOLEAN /\ modified' \in BOOLEAN /\ shows_code' \in BOOLEAN
    BY <1>5 DEF ToolCall, Edits, IInv, TypeOK
  <2> QED
    BY <2>2, <2>3, <2>4, <2>5, <2>6, <2>7 DEF IInv, TypeOK, LoopEndsWithVerdict
<1>6. CASE UNCHANGED vars
  BY <1>6 DEF vars, IInv, TypeOK, Parsed, LoopEndsWithVerdict
<1> QED
  BY <1>1, <1>2, <1>3, <1>4, <1>5, <1>6 DEF Next

LEMMA Inductive == Spec => []IInv
BY InitIInv, NextIInv, PTL DEF Spec

\* The types, and that loop and environment agree on the end of an episode.
THEOREM RolloutTypes == Spec => [](TypeOK /\ LoopEndsWithVerdict)
<1>1. IInv => TypeOK /\ LoopEndsWithVerdict
  BY DEF IInv
<1> QED
  BY <1>1, Inductive, PTL

\* A model that writes TOOL: with another tool than submit_fix under a
\* tool_call header has not submitted, whatever its reasoning says.
THEOREM HeaderObeyed == Spec => []HeaderDecides
<1>1. IInv => HeaderDecides
  BY HeaderIsObeyed DEF IInv, Parsed, HeaderDecides
<1> QED
  BY <1>1, Inductive, PTL

\* No default of the parser passes for what the model asked for.
THEOREM FallbackWarned == Spec => []FallbackIsWarned
<1>1. IInv => FallbackIsWarned
  <2>1. NoAction.type # "tool_call"
    BY DEF NoAction, Action
  <2> QED
    BY <2>1, DefaultIsWarned DEF IInv, Parsed, FallbackIsWarned
<1> QED
  BY <1>1, Inductive, PTL

\* The bonus for clean format is for complete calls only.
THEOREM CleanComplete == Spec => []CleanMeansComplete
<1>1. IInv => CleanMeansComplete
  <2>1. NoAction.type # "tool_call"
    BY DEF NoAction, Action
  <2> QED
    BY <2>1, UnwarnedIsComplete DEF IInv, Parsed, CleanMeansComplete
<1> QED
  BY <1>1, Inductive, PTL

-----------------------------------------------------------------------------
(* The heuristic: after n turns its records are those of the first n of    *)
(* its actions, which is what it chooses the next action by.               *)

Leaves(n) ==
  \/ n = 0 /\ ~modified /\ recorded = {}
  \/ n = 1 /\ ~modified /\ recorded = {"read_code"}
  \/ n = 2 /\ ~modified /\ recorded = {"read_code", "run_tests"}
  \/ n = 3 /\ ~modified /\ \E i \in {"str", "empty"} :
       recorded = {"read_code", "run_tests", i}
  \/ n = 4 /\ modified /\ \E i \in {"str", "empty"} :
       recorded = {"read_code", "run_tests", i, "apply_fix"}

OnScript ==
  policy = "heuristic" =>
    /\ phase = "playing" => Leaves(turn)
    /\ HeuristicIsClean

\* What the parser makes of a line of the heuristic.
LEMMA ParsedHeuristicCall ==
  ASSUME NEW tool \in ValidTools \ {"submit_fix"}, NEW args
  PROVE  ParseAction(Call(tool, args)) =
           IF tool = "apply_fix" /\ args.line = "infinite"
           THEN Action("raises", tool, args, {})
           ELSE Action("tool_call", tool, Validated(tool, args), ArgWarnings(tool, args))
<1> DEFINE c == Call(tool, args)
<1>1. NamedTool(c) = tool
  BY DEF NamedTool, FirstValid, Call
<1>2. NamedAction(c) = "tool_call"
  BY DEF NamedAction, FirstValid, Call
<1>3. ~NothingNamed(c) /\ ~Submits(c)
  BY <1>1, <1>2 DEF NothingNamed, Submits, InfersSubmit
<1>4. ToolOf(c) = tool /\ ExtractArgs(c) = args
  BY <1>1 DEF ToolOf, ExtractArgs, Call, ValidTools
<1>5. NameWarnings(c) = {} /\ ToolWarnings(c) = {} /\ c.shape # "broken"
  BY <1>1, <1>3 DEF NameWarnings, ToolWarnings, Call, ValidTools
<1> QED
  BY <1>3, <1>4, <1>5 DEF ParseAction

LEMMA ParsedHeuristicSubmit ==
  ParseAction(SubmitLine) = Action("submit", "none", NoArgs, {})
<1>1. NamedAction(SubmitLine) = "submit"
  BY DEF NamedAction, FirstValid, SubmitLine
<1>2. ~InfersSubmit(SubmitLine) /\ Submits(SubmitLine)
  BY <1>1 DEF InfersSubmit, Submits
<1>3. NameWarnings(SubmitLine) = {}
  BY DEF NameWarnings, SubmitLine
<1> QED
  BY <1>2, <1>3 DEF ParseAction

\* Its calls have what their tools need.
LEMMA HeuristicArgs ==
  ASSUME NEW tool, NEW args,
         \/ tool \in {"read_code", "run_tests"}
         \/ tool = "run_code" /\ args.input \in {"str", "empty"}
         \/ tool = "apply_fix" /\ args = Edit
  PROVE  Validated(tool, args) = args /\ ArgWarnings(tool, args) = {}
<1>1. CASE tool # "apply_fix"
  BY <1>1 DEF Validated, ArgWarnings
<1>2. CASE tool = "apply_fix"
  <2>1. args = [line |-> "int", new_code |-> "str", input |-> "absent"]
    BY <1>2 DEF Edit
  <2> QED
    BY <1>2, <2>1 DEF Validated, ArgWarnings, LineOf
<1> QED
  BY <1>1, <1>2

\* Its action in the turn that comes.
LEMMA HeuristicTurn ==
  ASSUME policy = "heuristic", Leaves(turn), NEW type, Act(type)
  PROVE  /\ action'.type = type /\ action'.warnings = {}
         /\ \/ turn = 0 /\ type = "tool_call" /\ action'.tool = "read_code"
            \/ turn = 1 /\ type = "tool_call" /\ action'.tool = "run_tests"
            \/ /\ turn = 2 /\ type = "tool_call" /\ action'.tool = "run_code"
               /\ action'.args.input \in {"str", "empty"}
            \/ /\ turn = 3 /\ type = "tool_call" /\ action'.tool = "apply_fix"
               /\ action'.args = Edit
            \/ turn = 4 /\ type = "submit"
<1>1. wrote' \in HeuristicCompletions /\ action' = ParseAction(wrote') /\ action'.type = type
  BY DEF Act, Writes
<1>2. turn \in 0..4
  BY DEF Leaves
<1>3. CASE turn = 0
  <2>1. wrote' = Call("read_code", NoArgs)
    BY <1>1, <1>3 DEF Leaves, HeuristicCompletions, Used
  <2>2. action' = Action("tool_call", "read_code", NoArgs, {})
    BY <1>1, <2>1, ParsedHeuristicCall, HeuristicArgs DEF ValidTools
  <2> QED
    BY <1>1, <1>3, <2>2 DEF Action
<1>4. CASE turn = 1
  <2>1. wrote' = Call("run_tests", NoArgs)
    BY <1>1, <1>4 DEF Leaves, HeuristicCompletions, Used
  <2>2. action' = Action("tool_call", "run_tests", NoArgs, {})
    BY <1>1, <2>1, ParsedHeuristicCall, HeuristicArgs DEF ValidTools
  <2> QED
    BY <1>1, <1>4, <2>2 DEF Action
<1>5. CASE turn = 2
  <2>1. ~HasRunCode /\ Used("read_code") /\ Used("run_tests")
    BY <1>5 DEF Leaves, HasRunCode, Used, InputKinds
  <2>2. PICK args \in FailingInputs : wrote' = Call("run_code", args)
    BY <1>1, <2>1 DEF HeuristicCompletions
  <2>3. args.input \in {"str", "empty"}
    BY DEF FailingInputs, NoArgs
  <2>4. Validated("run_code", args) = args /\ ArgWarnings("run_code", args) = {}
    BY <2>3, HeuristicArgs
  <2>5. action' = Action("tool_call", "run_code", args, {})
    BY <1>1, <2>2, <2>4, ParsedHeuristicCall DEF ValidTools
  <2> QED
    BY <1>1, <1>5, <2>3, <2>5 DEF Action
<1>6. CASE turn = 3
  <2>1. HasRunCode /\ Used("read_code") /\ Used("run_tests") /\ ~modified
    BY <1>6 DEF Leaves, HasRunCode, Used, InputKinds
  <2>2. wrote' = Call("apply_fix", Edit)
    BY <1>1, <2>1 DEF HeuristicCompletions
  <2>3. Edit.line # "infinite"
    BY DEF Edit
  <2>4. action' = Action("tool_call", "apply_fix", Edit, {})
    BY <1>1, <2>2, <2>3, ParsedHeuristicCall, HeuristicArgs DEF ValidTools
  <2> QED
    BY <1>1, <1>6, <2>4 DEF Action
<1>7. CASE turn = 4
  <2>1. HasRunCode /\ Used("read_code") /\ Used("run_tests") /\ modified
    BY <1>7 DEF Leaves, HasRunCode, Used, InputKinds
  <2>2. action' = Action("submit", "none", NoArgs, {})
    BY <1>1, <2>1, ParsedHeuristicSubmit DEF HeuristicCompletions
  <2> QED
    BY <1>1, <1>7, <2>2 DEF Action
<1> QED
  BY <1>2, <1>3, <1>4, <1>5, <1>6, <1>7

\* The heuristic plays without a warning or an exception and is done by its
\* fifth turn, if it has the turns for its fix: with fewer, the limit ends
\* its episodes before it.
THEOREM HeuristicPlays ==
  ASSUME MAX_TURNS >= 4
  PROVE  Spec => []HeuristicIsClean
<1>1. Init => OnScript
  BY DEF Init, OnScript, Leaves, HeuristicIsClean
<1>2. IInv /\ OnScript /\ [Next]_vars => OnScript'
  <2> SUFFICES ASSUME IInv, OnScript, [Next]_vars, policy = "heuristic"
               PROVE  OnScript'
    BY DEF OnScript, Next, vars, NextEpisode, ParserRaises, StepRaises, Submit, ToolCall, Act
  <2> USE RolloutAssumption
  <2>1. CASE NextEpisode
    BY <2>1 DEF NextEpisode, OnScript, Leaves, HeuristicIsClean
  <2>2. CASE ParserRaises
    BY <2>2, HeuristicTurn DEF ParserRaises, Act, OnScript
  <2>3. CASE StepRaises
    <3>1. /\ Act("tool_call") /\ Leaves(turn)
      BY <2>3 DEF StepRaises, Act, OnScript
    <3>2. \/ action'.tool \in {"read_code", "run_tests"}
          \/ action'.tool = "run_code" /\ action'.args.input \in {"str", "empty"}
          \/ action'.tool = "apply_fix" /\ action'.args = Edit
      BY <3>1, HeuristicTurn
    <3> QED
      BY <2>3, <3>2 DEF StepRaises, EditRaises, Edit
  <2>4. CASE Submit
    <3>1. /\ Act("submit") /\ Leaves(turn) /\ ~warned
      BY <2>4 DEF Submit, Act, OnScript, HeuristicIsClean
    <3>2. turn = 4 /\ action'.type = "submit" /\ action'.warnings = {}
      BY <3>1, HeuristicTurn
    <3>3. "list" \notin recorded /\ {"read_code", "run_tests"} \subseteq recorded /\ modified
      BY <3>1, <3>2 DEF Leaves
    <3>4. phase' = "over" /\ turn' = 5 /\ recorded' = recorded /\ modified' = modified
      BY <2>4, <3>2, <3>3 DEF Submit, Finalized, Unhashable
    <3>5. ~warned'
      BY <3>1, <3>2 DEF Act
    <3> QED
      BY <3>2, <3>3, <3>4, <3>5 DEF OnScript, HeuristicIsClean
  <2>5. CASE ToolCall
    <3>1. /\ Act("tool_call") /\ Leaves(turn) /\ ~warned
      BY <2>5 DEF ToolCall, Act, OnScript, HeuristicIsClean
    <3>2. ~warned' /\ action'.type = "tool_call" /\ turn' = turn + 1 /\ policy' = policy
          /\ modified' = (modified \/ applied') /\ recorded' = Recorded(action')
      BY <2>5, <3>1, HeuristicTurn DEF ToolCall, Act
    <3>3. /\ turn \in 0..3
          /\ Leaves(turn)' /\ "list" \notin recorded'
      <4>1. CASE turn = 0
        <5>1. action'.tool = "read_code"
          BY <3>1, <4>1, HeuristicTurn
        <5>2. applied' = FALSE
          BY <2>5, <5>1 DEF ToolCall, Edits
        <5>3. ~modified'
          <6>1. ~modified
            BY <3>1, <4>1 DEF Leaves
          <6> QED
            BY <3>2, <5>2, <6>1
        <5>4. recorded = {}
          BY <3>1, <4>1 DEF Leaves
        <5>5. recorded' = {"read_code"}
          BY <3>2, <5>1, <5>4 DEF Recorded
        <5>6. turn' = 1
          BY <3>2, <4>1
        <5> QED
          BY <4>1, <5>3, <5>5, <5>6 DEF Leaves
      <4>2. CASE turn = 1
        <5>1. action'.tool = "run_tests"
          BY <3>1, <4>2, HeuristicTurn
        <5>2. applied' = FALSE
          BY <2>5, <5>1 DEF ToolCall, Edits
        <5>3. ~modified'
          <6>1. ~modified
            BY <3>1, <4>2 DEF Leaves
          <6> QED
            BY <3>2, <5>2, <6>1
        <5>4. recorded = {"read_code"}
          BY <3>1, <4>2 DEF Leaves
        <5>5. recorded' = {"read_code", "run_tests"}
          BY <3>2, <5>1, <5>4 DEF Recorded
        <5>6. turn' = 2
          BY <3>2, <4>2
        <5> QED
          BY <4>2, <5>3, <5>5, <5>6 DEF Leaves
      <4>3. CASE turn = 2
        <5>1. action'.tool = "run_code" /\ action'.args.input \in {"str", "empty"}
          BY <3>1, <4>3, HeuristicTurn
        <5>2. applied' = FALSE
          BY <2>5, <5>1 DEF ToolCall, Edits
        <5>3. ~modified'
          <6>1. ~modified
            BY <3>1, <4>3 DEF Leaves
          <6> QED
            BY <3>2, <5>2, <6>1
        <5>4. recorded = {"read_code", "run_tests"}
          BY <3>1, <4>3 DEF Leaves
        <5>5. \E i \in {"str", "empty"} : recorded' = {"read_code", "run_tests", i}
          BY <3>2, <5>1, <5>4 DEF Recorded
        <5>6. turn' = 3
          BY <3>2, <4>3
        <5> QED
          BY <4>3, <5>3, <5>5, <5>6 DEF Leaves
      <4>4. CASE turn = 3
        <5>1. action'.tool = "apply_fix" /\ action'.args = Edit
          BY <3>1, <4>4, HeuristicTurn
        <5>2. applied' = TRUE
          BY <2>5, <5>1 DEF ToolCall, Edits, Edit
        <5>3. modified'
          BY <3>2, <5>2
        <5>4. PICK i \in {"str", "empty"} : recorded = {"read_code", "run_tests", i}
          BY <3>1, <4>4 DEF Leaves
        <5>5. recorded' = {"read_code", "run_tests", i, "apply_fix"}
          BY <3>2, <5>1, <5>4 DEF Recorded
        <5>6. turn' = 4
          BY <3>2, <4>4
        <5> QED
          BY <4>4, <5>3, <5>5, <5>6 DEF Leaves
      <4> QED
        BY <3>1, <4>1, <4>2, <4>3, <4>4, HeuristicTurn
    <3>4. phase' # "crashed"
      BY <2>5, <3>2, <3>3 DEF ToolCall, Finalized, Unhashable, Act
    <3>5. phase' = "over" => turn = 3 /\ MAX_TURNS = 4
      BY <2>5, <3>1, <3>3 DEF ToolCall, EnvDone, Act
    <3>6. phase' = "over" => modified' /\ {"read_code", "run_tests"} \subseteq recorded'
      BY <3>2, <3>3, <3>5 DEF Leaves
    <3> QED
      BY <3>2, <3>3, <3>4, <3>5, <3>6 DEF OnScript, HeuristicIsClean
  <2>6. CASE UNCHANGED vars
    BY <2>6 DEF vars, OnScript, Leaves, HeuristicIsClean
  <2> QED
    BY <2>1, <2>2, <2>3, <2>4, <2>5, <2>6 DEF Next
<1>3. OnScript => HeuristicIsClean
  BY DEF OnScript, HeuristicIsClean
<1> QED
  BY <1>1, <1>2, <1>3, Inductive, PTL DEF Spec
=============================================================================
