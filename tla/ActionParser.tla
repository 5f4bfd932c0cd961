---------------------------- MODULE ActionParser ----------------------------
(***************************************************************************)
(* parse_action: from what a language model wrote to an Action.  A         *)
(* completion is what the parser's patterns find in it:                    *)
(*   tools    the names found by the four tool patterns, in their order;   *)
(*   actions  the names found by the three action patterns;                *)
(*   words    the submit keywords in the first 300 characters ("done"      *)
(*            stands for all of them but "submit_fix");                    *)
(*   bare     the first bare call, as in run_code(...);                    *)
(*   shape    where its JSON is: after ARGS:, broken there, alone and flat *)
(*            or alone with the arguments nested under "tool_args";        *)
(*   line, new_code, input   the kinds of value its arguments have.        *)
(***************************************************************************)
EXTENDS Naturals, Sequences, FiniteSets

ValidTools == {"read_code", "run_tests", "run_code", "apply_fix", "submit_fix"}
Shapes == {"none", "args", "broken", "flat", "nested"}

\* "bool" is an int to isinstance; int() takes a numeral or a float, fails on
\* "other" (null, a word, a list) and overflows on Infinity.
\* A "list" is any non-empty list or object.
LineKinds == {"absent", "int", "bool", "numeral", "float", "infinite", "other"}
CodeKinds == {"absent", "str", "other"}
InputKinds == {"absent", "empty", "str", "number", "list"}

ArgKinds == [line : LineKinds, new_code : CodeKinds, input : InputKinds]

NoArgs == [line |-> "absent", new_code |-> "absent", input |-> "absent"]

\* The completions with the given mentions and arguments.  Only JSON names an
\* argument, and nested arguments go with a "tool" or "tool_name" key.
CompletionsOf(tools, actions, shapes, args) ==
  {c \in [tools : tools, actions : actions, words : SUBSET {"done", "submit_fix"},
          bare : ValidTools \cup {"none"}, shape : shapes, args : args] :
     /\ c.shape \in {"none", "broken"} => c.args = NoArgs
     /\ c.shape = "nested" => c.tools # <<>>}

\* To the parser all names it does not know are one, "invalid".
Names == ValidTools \cup {"tool_call", "submit", "invalid"}

AnyCompletion == CompletionsOf(Seq(Names), Seq(Names), Shapes, ArgKinds)

-----------------------------------------------------------------------------
\* The first candidate that is valid; the invalid ones before it are warned
\* about, the later patterns not looked at.
FirstValid(found, valid) ==
  LET ok == {i \in DOMAIN found : found[i] \in valid}
  IN  IF ok = {} THEN "none" ELSE found[CHOOSE i \in ok : \A j \in ok : i <= j]

NamedTool(c) == FirstValid(c.tools, ValidTools)
NamedAction(c) == FirstValid(c.actions, {"tool_call", "submit"})

NameWarnings(c) ==
    (IF Len(c.tools) > 0 /\ c.tools[1] \notin ValidTools THEN {"invalid_tool"} ELSE {})
  \cup (IF Len(c.actions) > 0 /\ c.actions[1] \notin {"tool_call", "submit"}
        THEN {"invalid_action"} ELSE {})

\* Mutant: the keyword scan does not ask for a missing ACTION.
InfersSubmit_Always(c) == NamedTool(c) # "submit_fix" /\ c.words # {}

InfersSubmit(c) ==
  /\ NamedAction(c) = "none" /\ NamedTool(c) # "submit_fix"
  /\ c.words # {}

\* Nothing said which action this is: look for a bare call.
NothingNamed(c) ==
  NamedAction(c) = "none" /\ NamedTool(c) = "none" /\ ~InfersSubmit(c)

Submits(c) ==
  \/ InfersSubmit(c)
  \/ NamedTool(c) = "submit_fix"
  \/ NamedAction(c) = "submit"
  \/ NothingNamed(c) /\ c.bare = "submit_fix"

ToolOf(c) ==
  CASE NamedTool(c) # "none"                    -> NamedTool(c)
    [] NothingNamed(c) /\ c.bare # "none"       -> c.bare
    [] OTHER                                    -> "read_code"

\* Mutant: an ACTION line without a TOOL passes for read_code.
ToolWarnings_Unnamed(c) ==
  IF NothingNamed(c) /\ c.bare = "none" THEN {"no_action_detected"} ELSE {}

ToolWarnings(c) ==
  IF NothingNamed(c)
  THEN IF c.bare = "none" THEN {"no_action_detected"} ELSE {}
  ELSE IF NamedTool(c) = "none" THEN {"defaulted_to_read_code"} ELSE {}

-----------------------------------------------------------------------------
\* _extract_args: the object after ARGS:, else the first that parses, which
\* of nested ones is the outermost.
ExtractArgs(c) == IF c.shape \in {"args", "flat"} THEN c.args ELSE NoArgs

LineOf(kind) == IF kind \in {"numeral", "float"} THEN "int" ELSE kind

\* Mutant: a missing argument is left to the tool to complain about.
ArgWarnings_TypesOnly(tool, args) ==
  IF tool = "apply_fix" /\ args.line = "other" THEN {"line_number_not_int"} ELSE {}

ArgWarnings(tool, args) ==
    (IF tool = "run_code" /\ args.input = "absent" THEN {"missing_input_value"} ELSE {})
  \cup (IF tool = "apply_fix" /\ args.line = "absent" THEN {"missing_line_number"} ELSE {})
  \cup (IF tool = "apply_fix" /\ args.line = "other" THEN {"line_number_not_int"} ELSE {})
  \cup (IF tool = "apply_fix" /\ args.new_code = "absent" THEN {"missing_new_code"} ELSE {})

\* A missing new_code becomes the empty string.
Validated(tool, args) ==
  IF tool # "apply_fix" THEN args
  ELSE [line     |-> LineOf(args.line),
        new_code |-> IF args.new_code = "absent" THEN "blank" ELSE args.new_code,
        input    |-> args.input]

Action(type, tool, args, warnings) ==
  [type |-> type, tool |-> tool, args |-> args, warnings |-> warnings]

\* "raises" is the OverflowError of int(), which no handler catches.
ParseAction(c) ==
  IF Submits(c)
  THEN Action("submit", "none", NoArgs,
              NameWarnings(c) \cup IF InfersSubmit(c) THEN {"inferred_submit"} ELSE {})
  ELSE LET tool == ToolOf(c)
           args == ExtractArgs(c)
       IN  IF tool = "apply_fix" /\ args.line = "infinite"
           THEN Action("raises", tool, args, {})
           ELSE Action("tool_call", tool, Validated(tool, args),
                  NameWarnings(c) \cup ToolWarnings(c) \cup ArgWarnings(tool, args)
                  \cup IF c.shape = "broken" THEN {"args_json_decode_error"} ELSE {})
=============================================================================
