----------------------------- MODULE MCRollout -----------------------------
(* Instances of Rollout; the values are in MCRollPlay.cfg.                *)
EXTENDS Rollout

NameSeqs(names) == {<<>>} \cup {<<a>> : a \in names} \cup {<<a, b>> : a, b \in names}

\* To the parser run_tests is one more tool without arguments, and apply_fix
\* one more tool with some.
ToolNames == NameSeqs({"read_code", "run_code", "submit_fix", "invalid"})
ActionNames == NameSeqs({"tool_call", "submit", "invalid"})

Given(line, new_code, input) == [line |-> line, new_code |-> new_code, input |-> input]

\* Whatever two patterns may find, with the arguments in three states.
EveryMention ==
  {c \in CompletionsOf(ToolNames, ActionNames, {"none", "broken", "args"},
                       {NoArgs, Given("int", "str", "str")}) :
     c.bare \in {"none", "run_code", "submit_fix"}}

\* Every kind of argument in every place, in a text that says what it is.
EveryArgument ==
  {c \in CompletionsOf({<<"run_code">>, <<"apply_fix">>}, {<<"tool_call">>}, Shapes, ArgKinds) :
     c.words = {} /\ c.bare = "none"}

Canonical(tools, args) == {Call(t, a) : t \in tools, a \in args}

\* A model that keeps to the format, and one that gets arguments wrong.
Played ==
  Canonical({"run_tests", "read_code", "submit_fix"}, {NoArgs})
    \cup Canonical({"run_code"}, {Given("absent", "absent", i) : i \in {"str", "list"}})
    \cup Canonical({"apply_fix"}, {Given(l, n, "absent") :
                     l \in {"int", "float", "infinite", "other"}, n \in CodeKinds})

Anything == Played \cup EveryMention \cup EveryArgument

\* Episodes whose first completion is any at all.
AnyThenPlayed(t) == IF t = 0 THEN Anything ELSE Played
=============================================================================
