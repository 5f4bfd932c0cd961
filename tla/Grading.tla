------------------------------ MODULE Grading ------------------------------
(***************************************************************************)
(* What a launch of the sandbox promises its caller, with no worker in     *)
(* sight: one question at a time, one answer for each expression, and all  *)
(* the answers of one launch of one kind; or an exception.  A program that *)
(* prints a response of its own is promised nothing.  The environment is   *)
(* modelled on this promise, for other programs and launches that raise    *)
(* nothing: RunTests of CodeRunner takes the outcome of a launch as one    *)
(* value for all the tests.                                                *)
(***************************************************************************)
EXTENDS Sequences, Naturals

VARIABLES program, exprs, busy, verdict

gvars == <<program, exprs, busy, verdict>>

\* A program stops on these expressions: it can be run to the end.
Stops(p, es) ==
  /\ p.loads \in {"ok", "raises"}
  /\ p.loads = "ok" => \A i \in DOMAIN es : p.does[es[i]] \notin {"hangs", "quits"}

AsItBehaves(p, es) ==
  [i \in DOMAIN es |-> IF p.loads = "ok" THEN p.does[es[i]] ELSE "raises"]

Anything(es) == [DOMAIN es -> {"right", "wrong", "raises", "TIMEOUT", "ERROR", "missing"}]

Verdicts(p, es) ==
  IF p.prints = "response" THEN Anything(es)
  ELSE (IF Stops(p, es) THEN {AsItBehaves(p, es)} ELSE {})
         \cup {[i \in DOMAIN es |-> failure] : failure \in {"TIMEOUT", "ERROR"}}

Init == ~busy /\ verdict = <<>>

Ask ==
  /\ ~busy /\ busy' = TRUE
  /\ verdict' = <<>>

\* No verdict is an exception.
Answer ==
  /\ busy /\ busy' = FALSE
  /\ verdict' = verdict \/ verdict' \in Verdicts(program, exprs)
  /\ UNCHANGED <<program, exprs>>

Next == Ask \/ Answer

Spec == Init /\ [][Next]_gvars /\ WF_gvars(Answer)
=============================================================================
