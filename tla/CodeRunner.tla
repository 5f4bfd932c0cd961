----------------------------- MODULE CodeRunner -----------------------------
(***************************************************************************)
(* The program under debugging, as CodeRunner holds it: a sequence of      *)
(* lines that apply_fix edits in place and run_tests / run_code execute.   *)
(* A line is [origin, text]: origin is its number in the program the       *)
(* episode started with (0 for a line an edit brought in), text is what    *)
(* the line does to the function:                                          *)
(*   "src"   what the correct program has there;                           *)
(*   "bug"   the injected bug: exactly the failing inputs go wrong;        *)
(*   "fix"   makes the function right, whatever line the text is put on;   *)
(*   "junk"  makes every call go wrong (a syntax error, a stray pass).     *)
(***************************************************************************)
EXTENDS Integers, Sequences, FiniteSets

Texts == {"src", "bug", "fix", "junk"}

(* What an apply_fix call may write: the texts above, "noop" (what the     *)
(* line says already) and "split" (that, a newline, and one more line).    *)
Edits == {"fix", "junk", "noop", "split"}

\* How one sandbox launch ends; see the two runners in code_runner.py.
Outcomes == {"ran", "TIMEOUT", "ERROR"}

Line(origin, text) == [origin |-> origin, text |-> text]

InjectBug(nlines, bug_line) ==
  [n \in 1..nlines |-> Line(n, IF n = bug_line THEN "bug" ELSE "src")]

\* Mutant: line 0 gets through, and writes the last line.
InRange_FromZero(code, n) == n \in 0..Len(code)

InRange(code, n) == n \in 1..Len(code)

\* apply_fix splits on newlines again only at the next call, but the join
\* makes the new line visible at once: every later line moves down by one.
ApplyEdit(code, n, edit) ==
  CASE edit = "noop"  -> code
    [] edit = "split" -> SubSeq(code, 1, n) \o <<Line(0, "src")>>
                           \o SubSeq(code, n + 1, Len(code))
    [] OTHER          -> [code EXCEPT ![n].text = edit]

Has(code, text) == \E n \in DOMAIN code : code[n].text = text

Computes(code, failing, input) ==
  /\ ~Has(code, "junk")
  /\ Has(code, "bug") => (Has(code, "fix") \/ input \notin failing)

\* Mutant: a timeout does not fail the test.
RunTests_TimeoutPasses(code, tests, failing, outcome) ==
  [t \in tests |-> outcome = "ran" => Computes(code, failing, t)]

\* run_tests: one verdict per test.  A launch that times out or crashes
\* yields the same error for every expression.
RunTests(code, tests, failing, outcome) ==
  [t \in tests |-> outcome = "ran" /\ Computes(code, failing, t)]

AllPass(results) == \A t \in DOMAIN results : results[t]
=============================================================================
