------------------------------ MODULE Sandbox ------------------------------
(***************************************************************************)
(* One CodeRunner and its launches of the sandbox: the caller (run_tests,  *)
(* run_code) and the worker it waits for, a process by default, a daemon   *)
(* thread when ARG_SANDBOX_THREADED is set.  The worker answers one        *)
(* expression at a time; the caller's timer may expire between any two of  *)
(* its steps.  A thread shares its list of results with the caller and     *)
(* cannot be stopped; a process hands the list over when it exits.         *)
(*                                                                         *)
(* A program is abstracted to what its loading and each call of it do:     *)
(* "right" and "wrong" are a value that equals the expected one or not,    *)
(* "quits" is an exception that no `except Exception` stops and that ends  *)
(* the worker; and to what the launch prints, which in a process shares    *)
(* stdout with the worker's response: "noise" leaves no JSON document      *)
(* there, "response" is any other output, which may be read in place of    *)
(* the worker's own or may not even decode.                                *)
(***************************************************************************)
EXTENDS Integers, Sequences, FiniteSets

CONSTANTS
  Modes,       \* what _use_threaded_sandbox() may say
  Tests,       \* the inputs of test_cases, in order; no two are the same
  Programs,    \* the programs the launches may be given
  Kinds        \* which of {"run_tests", "run_code"} the caller uses

Behaviours == {"right", "wrong", "raises", "hangs", "quits"}

Inputs == {Tests[i] : i \in DOMAIN Tests}

Program == [loads : {"ok", "raises", "hangs", "quits"}, does : [Inputs -> Behaviours],
            prints : {"nothing", "noise", "response"}]

ASSUME SandboxAssumption ==
  /\ Modes \subseteq BOOLEAN
  /\ Tests \in Seq(Inputs)
  /\ \A i, j \in 1..Len(Tests) : Tests[i] = Tests[j] => i = j
  /\ Len(Tests) > 0
  /\ Programs \subseteq Program
  /\ Kinds \subseteq {"run_tests", "run_code"}

VARIABLES
  threaded,              \* the mode, of the whole run: it is set from outside
  kind, program, exprs,  \* the call in progress or, when idle, the last one
  caller,                \* where the caller is
  worker,                \* what the last launched worker is doing
  results,               \* the worker's list, then the one the caller gets
  already, next_pad,     \* _run_threaded: the locals of its padding loop
  verdict                \* per expression, what the caller made of it

call == <<threaded, kind, program, exprs>>
padding == <<already, next_pad>>
vars == <<call, caller, worker, results, padding, verdict>>

Result(input, answer) == [input |-> input, answer |-> answer]

EverythingIs(answer) == [i \in DOMAIN exprs |-> Result(exprs[i], answer)]

Running == {"loading", "failing", "evaluating"}

Init ==
  /\ threaded \in Modes
  /\ kind \in Kinds /\ program \in Programs /\ exprs = <<>>
  /\ caller = "idle" /\ worker = "none" /\ results = <<>>
  /\ already = {} /\ next_pad = 0
  /\ verdict = <<>>

-----------------------------------------------------------------------------
(* The caller.                                                             *)

\* run_tests asks for every test in one launch, run_code for one input.
\* A thread of the call before may still run, on a list nobody reads again.
Call ==
  /\ caller \in {"idle", "raised"}
  /\ kind' \in Kinds
  /\ program' \in Programs
  /\ exprs' \in IF kind' = "run_tests" THEN {Tests} ELSE {<<e>> : e \in Inputs}
  /\ caller' = "waiting"
  /\ worker' = "loading"
  /\ results' = <<>> /\ verdict' = <<>>
  /\ already' = {} /\ next_pad' = 0
  /\ UNCHANGED threaded

\* The interpreter or the worker script is not found.
LaunchFails ==
  /\ ~threaded /\ caller = "waiting" /\ worker = "loading"
  /\ worker' = "none"
  /\ results' = EverythingIs("ERROR")
  /\ caller' = "returned"
  /\ UNCHANGED <<call, padding, verdict>>

\* Other failures to start a worker, process or thread, are caught by nobody.
LaunchRaises ==
  /\ caller = "waiting" /\ worker = "loading"
  /\ worker' = "none"
  /\ caller' = "raised"
  /\ UNCHANGED <<call, results, padding, verdict>>

\* The list in a response that is not the worker's, up to what the properties
\* tell apart: it stops short of some expression, or has all of them.  (None at
\* all next to a compile_error is for run_code like an error for its one.)
Claims ==
  {[i \in 1..n |-> Result(exprs[i], answer)] :
     n \in 0..Len(exprs), answer \in {"right", "wrong", "raises"}}

\* Mutant: a process that died on the way is read like one that answered.
Collected_Partial ==
  IF threaded \/ program.prints = "nothing" THEN {results}
  ELSE {EverythingIs("ERROR")} \cup IF program.prints = "response" THEN Claims ELSE {}

\* A process that died counts as crashed only if there is nothing on stdout;
\* otherwise, as after a regular exit, stdout is the response.
Collected ==
  IF threaded \/ (worker = "done" /\ program.prints = "nothing") THEN {results}
  ELSE {EverythingIs("ERROR")} \cup IF program.prints = "response" THEN Claims ELSE {}

\* The worker ended in time.
Collect ==
  /\ caller = "waiting" /\ worker \in {"done", "crashed"}
  /\ results' \in Collected
  /\ caller' = "returned"
  /\ UNCHANGED <<call, worker, padding, verdict>>

\* What is on stdout does not decode, or is no object, or its results are none.
CollectRaises ==
  /\ ~threaded /\ caller = "waiting" /\ worker \in {"done", "crashed"}
  /\ program.prints = "response"
  /\ caller' = "raised"
  /\ UNCHANGED <<call, worker, results, padding, verdict>>

\* Mutant: the budget never gets to subprocess.run or join.
TimeIsUp_Never == FALSE

TimeIsUp == caller = "waiting" /\ worker \in Running

\* Mutant: giving up does not end the process.
Killed_Not == worker

Killed == "killed"

\* subprocess.run kills the worker; whatever it had answered is lost.
TimeoutKills ==
  /\ ~threaded /\ TimeIsUp
  /\ worker' = Killed
  /\ results' = EverythingIs("TIMEOUT")
  /\ caller' = "returned"
  /\ UNCHANGED <<call, padding, verdict>>

\* join returns and the thread is alive: note what it has answered so far.
TimeoutPads ==
  /\ threaded /\ TimeIsUp
  /\ already' = {results[i].input : i \in DOMAIN results}
  /\ next_pad' = 1
  /\ caller' = "padding"
  /\ UNCHANGED <<call, worker, results, verdict>>

\* One round of the loop over the expressions; the thread appends to the
\* same list between any two.
Pad ==
  /\ caller = "padding"
  /\ IF next_pad > Len(exprs)
     THEN caller' = "returned" /\ UNCHANGED <<results, next_pad>>
     ELSE /\ results' = IF exprs[next_pad] \in already THEN results
                        ELSE Append(results, Result(exprs[next_pad], "TIMEOUT"))
          /\ next_pad' = next_pad + 1
          /\ UNCHANGED caller
  /\ UNCHANGED <<call, worker, already, verdict>>

\* Mutant: results are matched with the tests by position.
Answered_ByPosition(i) ==
  IF i \in DOMAIN results THEN results[i].answer ELSE "missing"

\* run_code takes the first result; run_tests the last one for the input.
Answered(i) ==
  LET mine == {k \in DOMAIN results : results[k].input = exprs[i]}
  IN  IF mine = {} THEN "missing"
      ELSE results[CHOOSE k \in mine : \A j \in mine :
                     IF kind = "run_code" THEN k <= j ELSE j <= k].answer

Judge ==
  /\ caller = "returned"
  /\ kind = "run_tests" \/ results # <<>>
  /\ verdict' = [i \in DOMAIN exprs |-> Answered(i)]
  /\ caller' = "idle"
  /\ UNCHANGED <<call, worker, results, padding>>

\* run_code takes results[0] of an empty list.
JudgeRaises ==
  /\ caller = "returned"
  /\ kind = "run_code" /\ results = <<>>
  /\ caller' = "raised"
  /\ UNCHANGED <<call, worker, results, padding, verdict>>

-----------------------------------------------------------------------------
(* The worker, process or thread.                                          *)

Load ==
  /\ worker = "loading" /\ program.loads \in {"ok", "raises"}
  /\ worker' = IF program.loads = "ok" THEN "evaluating" ELSE "failing"
  /\ UNCHANGED <<call, caller, results, padding, verdict>>

\* How many of the worker's own answers are on the list.
Given == Cardinality({k \in DOMAIN results : results[k].answer # "TIMEOUT"})

\* Mutant: a program that does not load gets no answers at all.
Owed_OnlyIfLoaded == IF worker = "failing" THEN 0 ELSE Len(exprs) - Given

Owed == Len(exprs) - Given

\* The program keeps the worker from its next answer, in this way.
Stopped(behaviour) ==
  \/ worker = "loading" /\ program.loads = behaviour
  \/ worker = "evaluating" /\ Owed > 0 /\ program.does[exprs[Given + 1]] = behaviour

GiveAnswer ==
  /\ worker \in {"failing", "evaluating"}
  /\ Owed > 0
  /\ ~Stopped("hangs") /\ ~Stopped("quits")
  /\ LET e == exprs[Given + 1]
     IN  results' = Append(results, Result(e,
                      IF worker = "failing" THEN "raises" ELSE program.does[e]))
  /\ UNCHANGED <<call, caller, worker, padding, verdict>>

Finish ==
  /\ worker \in {"failing", "evaluating"}
  /\ Owed = 0
  /\ worker' = "done"
  /\ UNCHANGED <<call, caller, results, padding, verdict>>

\* A program that does not stop keeps its worker where it is.
Spin == Stopped("hangs") /\ UNCHANGED vars

\* A thread ends like a process that died, with the list as it is.
Quit ==
  /\ Stopped("quits")
  /\ worker' = "crashed"
  /\ UNCHANGED <<call, caller, results, padding, verdict>>

\* The process is ended from outside: out of memory, out of CPU time.
Crash ==
  /\ ~threaded /\ worker \in Running
  /\ worker' = "crashed"
  /\ UNCHANGED <<call, caller, results, padding, verdict>>

-----------------------------------------------------------------------------
TheCaller ==
  \/ Collect \/ CollectRaises \/ LaunchFails \/ LaunchRaises
  \/ TimeoutKills \/ TimeoutPads \/ Pad \/ Judge \/ JudgeRaises

TheWorker == Load \/ GiveAnswer \/ Spin \/ Quit \/ Finish \/ Crash

Next == Call \/ TheCaller \/ TheWorker

\* The timer is the operating system's: the caller goes on whatever the
\* program does.  Nothing is assumed of the worker.  (A thread has to let go of
\* the interpreter for it: a program that spins inside a single builtin call
\* does not, and holds up its caller and everybody else.)
Spec == Init /\ [][Next]_vars /\ WF_vars(TheCaller)

-----------------------------------------------------------------------------
Answers == {"right", "wrong", "raises", "TIMEOUT", "ERROR"}

\* Shapes only.
TypeOK ==
  /\ threaded \in Modes /\ kind \in Kinds /\ program \in Programs
  /\ caller \in {"idle", "waiting", "padding", "returned", "raised"}
  /\ worker \in Running \cup {"none", "done", "crashed", "killed"}
  /\ exprs \in {<<>>, Tests} \cup {<<e>> : e \in Inputs}
  /\ results \in Seq([input : Inputs, answer : Answers])
  /\ Len(results) <= (IF threaded THEN 2 ELSE 1) * Len(Tests)
  /\ already \subseteq Inputs
  /\ next_pad \in 0..(Len(Tests) + 1)
  /\ \A i \in DOMAIN verdict : verdict[i] \in Answers \cup {"missing"}

\* A program that ends its worker before the last expression.
Quits ==
  \/ program.loads = "quits"
  \/ program.loads = "ok" /\ \E i \in DOMAIN exprs : program.does[exprs[i]] = "quits"

\* The list is the sandbox's own.
Genuine == threaded \/ program.prints # "response"

\* run_tests has no "missing result from sandbox" to report, and run_code has a
\* results[0], however the launch ended and however the thread's answers and
\* the padding fell together: unless the program prints a response of its own
\* or, in the thread, ends its worker.
EveryTestAnswered ==
  Genuine /\ (threaded => ~Quits) =>
    /\ caller = "returned" => \A i \in DOMAIN exprs : Answered(i) # "missing"
    /\ \A i \in DOMAIN verdict : verdict[i] # "missing"

\* A test that passes was passed by this program on this input, a test that
\* fails by value was failed by it, late and duplicate entries included: unless
\* the program prints a response of its own.
AnswersAreItsOwn ==
  Genuine =>
    \A i \in DOMAIN verdict :
      verdict[i] \in Behaviours =>
        verdict[i] = IF program.loads = "ok" THEN program.does[exprs[i]] ELSE "raises"

\* code_runner.py:9: after a timeout the process is gone.  No worker process is
\* left running when its call has returned, so launches do not pile up.
NoWorkerOutlivesItsCall ==
  ~threaded /\ caller \in {"idle", "returned", "raised"} => worker \notin Running

\* The caller always gets its answer or an exception, also from a program that
\* never stops.
EveryCallReturns == (caller = "waiting") ~> (caller \in {"idle", "raised"})

\* _sandbox_worker.py:15, "one per expression in input order", as the callers
\* take it for every program and in both modes.
OnePerExpression == \A i \in DOMAIN verdict : verdict[i] # "missing"

\* code_runner.py:70-85 answers for a launch that went wrong with one error for
\* each expression: no launch ends in an exception of its caller's.
LaunchesNeverRaise == caller # "raised"

\* code_runner.py:154 says the loop pads missing entries with TIMEOUT: no
\* TIMEOUT is put behind an answer the thread has given to the same input.
PadsOnlyMissing ==
  \A i, j \in DOMAIN results :
    (i < j /\ results[i].input = results[j].input) => results[j].answer # "TIMEOUT"

\* _sandbox_worker.py:3 says the worker writes a single response: a caller
\* whose worker finished in time has its answers, not an error.
FinishedWorkerIsUnderstood ==
  [][(Collect /\ worker = "done") => results' = results]_vars

-----------------------------------------------------------------------------
(* The process sandbox keeps the promise of Grading.  The thread does not: *)
(* its verdicts mix answers and TIMEOUT, or stop short, and nothing is     *)
(* mapped.                                                                 *)

Promise == INSTANCE Grading WITH
  program <- IF threaded THEN <<>> ELSE program,
  exprs   <- IF threaded THEN <<>> ELSE exprs,
  busy    <- ~threaded /\ caller \notin {"idle", "raised"},
  verdict <- IF threaded THEN <<>> ELSE verdict

KeepsItsPromise == Promise!Spec
=============================================================================
