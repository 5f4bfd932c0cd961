------------------------- MODULE SharedEnvironment -------------------------
(***************************************************************************)
(* One environment object that several requests use at once.  The HTTP     *)
(* handlers run reset and step in threads and no lock is held around them; *)
(* a client that gave up waiting and calls again has two calls under way.  *)
(* The websocket handler makes one call at a time, on an environment of    *)
(* its own.                                                                *)
(*                                                                         *)
(* An action is a stretch of code in which no other thread can run: CPython *)
(* (3.10 and later) changes threads only at a call, at its return and at a *)
(* jump.  A list is appended to in one piece, and its elements are read    *)
(* together.  A method of CodeRunner reads code after _runner was read     *)
(* for the call; the two are read in one action, which differs only for a  *)
(* runner that was replaced in between: what late calls on it see of each  *)
(* other is left out.  Scenarios are alike, and rewards and scores are     *)
(* left out; Environment has both.                                         *)
(*                                                                         *)
(* Over HTTP a request may raise, which is a 500 and leaves what was done  *)
(* as it is: for an argument of another type than its users expect, or for *)
(* a launch that subprocess.run does not get under way.  A websocket ends  *)
(* with its environment then; its clients are taken to send well-typed     *)
(* arguments, and its launches to start.                                   *)
(***************************************************************************)
EXTENDS CodeRunner

CONSTANTS
  Servers,         \* which of {"http", "websocket"}
  Threads,
  MAX_TURNS,       \* 12 in the code
  EMOTIONAL_TURN,  \* 6 in the code
  Messages,        \* follow-ups of a scenario
  Tools,           \* the tools that are called
  EditsMade,       \* what apply_fix is called with: pairs of a line and an edit
  Flaws,           \* the arguments that may be of another type
  NLines, BUG_LINE,
  MaxResets,       \* bound: episodes
  MaxOverrun       \* bound: turns past the limit

ASSUME SharedAssumption ==
  /\ Servers \subseteq {"http", "websocket"}
  /\ MAX_TURNS \in Nat \ {0} /\ EMOTIONAL_TURN \in Nat /\ Messages \in 0..3
  /\ Tools \subseteq {"read_code", "run_tests", "run_code", "apply_fix"}
  /\ NLines \in Nat \ {0} /\ BUG_LINE \in 1..NLines
  /\ EditsMade \subseteq (1..NLines) \X {"fix", "junk"}
  /\ Flaws \subseteq {"new_code", "input_value", "_parse_warnings"}
  /\ MaxResets \in Nat /\ MaxOverrun \in Nat
  /\ IsFiniteSet(Threads)

VARIABLES
  server,               \* which endpoint the environment is behind
  connected,            \* the websocket handler has not been left
  scenario,             \* number of the scenario, 0 for None
  runner,               \* number of the scenario whose program is debugged
  code,                 \* the program of that runner
  turn, log,            \* _turn and _actions_log
  tool_calls,           \* the calls on record
  modified_lines, user_message_steps, next_followup_idx,
  last_user_message,    \* 0 for none
  submitted,
  updates,              \* results given to the curriculum
  resets,               \* scenarios generated
  pc, request, began,   \* thread -> where it is, what for, in which episode
  holds, saw,           \* thread -> a number it read (of a scenario, a runner or a
                        \* message), and a program
  heard,                \* history: the messages that replies delivered
  mixed,                \* history: a reset came in the middle of a step
  lapsed,               \* history: a step at the limit raised before it looked there
  unrecorded            \* history: the tool calls that raised

locals  == <<pc, request, began, holds, saw>>
records == <<turn, log, tool_calls, modified_lines, user_message_steps,
             next_followup_idx, last_user_message, submitted>>
objects == <<scenario, runner, code, resets>>
where   == <<server, connected>>
raised  == <<lapsed, unrecorded>>
vars    == <<where, objects, records, updates, locals, heard, mixed, raised>>

Program == InjectBug(NLines, BUG_LINE)

Idle == [tool |-> "none", edit |-> <<>>, flaw |-> "none"]

Init ==
  /\ server \in Servers /\ connected = TRUE
  /\ scenario = 0 /\ runner = 0 /\ resets = 0
  /\ code = Program
  /\ turn = 0 /\ log = <<>> /\ tool_calls = <<>> /\ modified_lines = <<>>
  /\ user_message_steps = <<>> /\ next_followup_idx = 0
  /\ last_user_message = 0 /\ submitted = FALSE
  /\ updates = 0
  /\ pc = [t \in Threads |-> "idle"] /\ request = [t \in Threads |-> Idle]
  /\ began = [t \in Threads |-> 0] /\ holds = [t \in Threads |-> 0]
  /\ saw = [t \in Threads |-> Program]
  /\ heard = <<>> /\ mixed = FALSE /\ lapsed = FALSE /\ unrecorded = 0

-----------------------------------------------------------------------------
\* A step under way, from its first change to its reply.
InStep(t) == pc[t] \notin {"idle", "generating", "constructing"}

Quiet == \A t \in Threads : pc[t] = "idle"

Goto(t, label) == pc' = [pc EXCEPT ![t] = label]

\* A value that is not looked at again is dropped.
DropsRequest(t) == request' = [request EXCEPT ![t] = Idle]
DropsEpisode(t) == began' = [began EXCEPT ![t] = 0]
DropsNumber(t)  == holds' = [holds EXCEPT ![t] = 0]
DropsProgram(t) == saw' = [saw EXCEPT ![t] = Program]

Replies(t) ==
  /\ pc' = [pc EXCEPT ![t] = "idle"]
  /\ DropsRequest(t) /\ DropsEpisode(t) /\ DropsNumber(t) /\ DropsProgram(t)

\* Mutant: one turn more.
LimitReached_Passed == turn > MAX_TURNS

LimitReached == turn >= MAX_TURNS

\* The exception of a step: a 500, and nobody looks at the limit.
Raises(t) ==
  /\ server = "http"
  /\ Replies(t)
  /\ lapsed' = (lapsed \/ turn >= MAX_TURNS)

\* websocket_endpoint receives the next message when the last one is
\* answered; over HTTP a request may come while others run.
MayArrive(t) ==
  /\ pc[t] = "idle" /\ connected
  /\ server = "websocket" => Quiet

-----------------------------------------------------------------------------
(* reset                                                                   *)

ResetArrives(t) ==
  /\ MayArrive(t)
  /\ resets + Cardinality({u \in Threads : pc[u] = "generating"}) < MaxResets
  /\ Goto(t, "generating")
  /\ UNCHANGED <<where, objects, records, updates, request, began, holds, saw, heard, mixed, raised>>

\* One of generate's launches does not start.
GenerateRaises(t) ==
  /\ pc[t] = "generating" /\ server = "http"
  /\ Replies(t)
  /\ UNCHANGED <<where, objects, records, updates, heard, mixed, raised>>

\* generate has run its launches; the scenario is stored and the arguments
\* of CodeRunner are read from it.
Generates(t) ==
  /\ pc[t] = "generating"
  /\ resets' = resets + 1
  /\ scenario' = resets'
  /\ holds' = [holds EXCEPT ![t] = scenario']
  /\ Goto(t, "constructing")
  /\ UNCHANGED <<where, runner, code, records, updates, request, began, saw, heard, mixed, raised>>

\* The runner and the empty records take their places.
Resets(t) ==
  /\ pc[t] = "constructing"
  /\ runner' = holds[t] /\ code' = Program
  /\ turn' = 0 /\ log' = <<>> /\ tool_calls' = <<>> /\ modified_lines' = <<>>
  /\ user_message_steps' = <<0>> /\ next_followup_idx' = 0
  /\ last_user_message' = 0 /\ submitted' = FALSE
  /\ heard' = <<0>>
  /\ mixed' = \E u \in Threads : InStep(u)
  /\ lapsed' = FALSE /\ unrecorded' = 0
  /\ Replies(t)
  /\ UNCHANGED <<where, scenario, resets, updates>>

-----------------------------------------------------------------------------
(* step                                                                    *)

\* Well-typed requests, of which there is one for each tool and edit ...
SoundRequests ==
  [tool : Tools \ {"apply_fix"}, edit : {<<>>}, flaw : {"none"}]
    \cup [tool : Tools \cap {"apply_fix"}, edit : EditsMade, flaw : {"none"}]
    \cup {[tool |-> "submit", edit |-> <<>>, flaw |-> "none"]}

\* ... and those with an argument that something will raise on.
FlawedRequests ==
  [tool : Tools \cap {"apply_fix"}, edit : {<<>>}, flaw : Flaws \cap {"new_code"}]
    \cup [tool : Tools \cap {"run_code"}, edit : {<<>>}, flaw : Flaws \cap {"input_value"}]
    \cup [tool : Tools \cap {"run_tests"}, edit : {<<>>}, flaw : Flaws \cap {"_parse_warnings"}]

StepRequests == SoundRequests \cup FlawedRequests

\* The requests a client makes: a websocket client stops at done.
MayStep(t) ==
  /\ MayArrive(t)
  /\ server = "websocket" => ~submitted

\* No scenario: the exception is a 500 over HTTP and the end of the
\* websocket's handler.
StepRefused(t) ==
  /\ MayStep(t) /\ (scenario = 0 \/ runner = 0)
  /\ server = "websocket" /\ connected' = FALSE
  /\ UNCHANGED <<server, objects, records, updates, locals, heard, mixed, raised>>

StepArrives(t) ==
  /\ MayStep(t) /\ scenario # 0 /\ runner # 0
  /\ turn < MAX_TURNS + MaxOverrun
  /\ turn' = turn + 1
  /\ \E r \in StepRequests :
       /\ server = "websocket" => r.flaw = "none"
       /\ request' = [request EXCEPT ![t] = r]
  /\ began' = [began EXCEPT ![t] = runner]
  /\ Goto(t, "logging")
  /\ UNCHANGED <<where, objects, log, tool_calls, modified_lines, user_message_steps,
                 next_followup_idx, last_user_message, submitted, updates, holds, saw,
                 heard, mixed, raised>>

\* What was asked for is told apart after the list is taken: a reset that comes
\* between puts another one in its place.
Logs(t) ==
  /\ pc[t] = "logging"
  /\ \/ log' = Append(log, IF request[t].tool = "submit" THEN "submit" ELSE "tool_call")
     \/ runner # began[t] /\ log' = log
  /\ Goto(t, IF request[t].tool = "submit" THEN "finalizing" ELSE "tool")
  /\ UNCHANGED <<where, objects, turn, tool_calls, modified_lines, user_message_steps,
                 next_followup_idx, last_user_message, submitted, updates, request, began,
                 holds, saw, heard, mixed, raised>>

\* run_tests, run_code and read_code change nothing ...
ToolReturns(t) ==
  /\ pc[t] = "tool" /\ request[t].tool # "apply_fix"
  /\ Goto(t, "recording")
  /\ UNCHANGED <<where, objects, records, updates, request, began, holds, saw, heard, mixed, raised>>

\* ... and two of them launch the program.
LaunchesTool(t) == pc[t] = "tool" /\ request[t].tool \in {"run_tests", "run_code"}

\* apply_fix takes the program apart ...
EditReads(t) ==
  /\ pc[t] = "tool" /\ request[t].tool = "apply_fix"
  /\ holds' = [holds EXCEPT ![t] = runner]
  /\ saw' = [saw EXCEPT ![t] = code]
  /\ Goto(t, "editing")
  /\ UNCHANGED <<where, objects, records, updates, request, began, heard, mixed, raised>>

\* Mutant: the edit goes to the runner of the moment.
EditedRunner_Current(t) == runner

EditedRunner(t) == holds[t]

\* ... stores what it has put together, in the runner it was called for ...
EditWrites(t) ==
  /\ pc[t] = "editing" /\ request[t].flaw # "new_code"
  /\ code' = IF EditedRunner(t) = runner
             THEN ApplyEdit(saw[t], request[t].edit[1], request[t].edit[2])
             ELSE code
  /\ DropsNumber(t) /\ DropsProgram(t)
  /\ Goto(t, "noting")
  /\ UNCHANGED <<where, scenario, runner, resets, records, updates, request, began,
                 heard, mixed, raised>>

\* ... and returns, and its caller notes the line.
NotesLine(t) ==
  /\ pc[t] = "noting"
  /\ modified_lines' = Append(modified_lines, request[t].edit[1])
  /\ Goto(t, "recording")
  /\ UNCHANGED <<where, objects, turn, log, tool_calls, user_message_steps,
                 next_followup_idx, last_user_message, submitted, updates, request, began,
                 holds, saw, heard, mixed, raised>>

\* Mutant: a call like the last one is not noted again.
Recorded_NoRepeats(t) ==
  LET call == [tool |-> request[t].tool, flaw |-> request[t].flaw]
  IN  IF tool_calls # <<>> /\ tool_calls[Len(tool_calls)] = call THEN tool_calls
      ELSE Append(tool_calls, call)

Recorded(t) == Append(tool_calls, [tool |-> request[t].tool, flaw |-> request[t].flaw])

Records(t) ==
  /\ pc[t] = "recording" /\ request[t].flaw # "_parse_warnings"
  /\ tool_calls' = Recorded(t)
  /\ DropsEpisode(t)
  /\ Goto(t, "follow_up")
  /\ UNCHANGED <<where, objects, turn, log, modified_lines, user_message_steps,
                 next_followup_idx, last_user_message, submitted, updates, request,
                 holds, saw, heard, mixed, raised>>

\* A tool call that is in the log raises before it is on record: its launch
\* does not start, the lines cannot be joined, or the warnings not be counted.
ToolCallRaises(t) ==
  /\ \/ LaunchesTool(t)
     \/ pc[t] = "editing" /\ request[t].flaw = "new_code"
     \/ pc[t] = "recording" /\ request[t].flaw = "_parse_warnings"
  /\ Raises(t)
  /\ unrecorded' = unrecorded + 1
  /\ UNCHANGED <<where, objects, records, updates, heard, mixed>>

-----------------------------------------------------------------------------
(* _maybe_inject_followup, and what step makes of it                       *)

\* Is there a message left?
LooksUp(t) ==
  /\ pc[t] = "follow_up"
  /\ Goto(t, IF next_followup_idx < Messages THEN "looking_up" ELSE "unprompted")
  /\ UNCHANGED <<where, objects, records, updates, request, began, holds, saw, heard, mixed, raised>>

\* Its trigger, by the index of the moment.
FindsTrigger(t) ==
  /\ pc[t] = "looking_up" /\ next_followup_idx < Messages
  /\ holds' = [holds EXCEPT ![t] = next_followup_idx]
  /\ Goto(t, "deciding")
  /\ UNCHANGED <<where, objects, records, updates, request, began, saw, heard, mixed, raised>>

\* run_code stands for one on a failing input.
Triggered(k, t) ==
  \/ k = 1 /\ request[t].tool = "run_tests"
  \/ k = 2 /\ request[t].tool = "run_code"
  \/ k = 3 /\ turn >= EMOTIONAL_TURN

\* The trigger that asks for a failing input looks the input up in a set.
Unhashable(t) == holds[t] + 1 = 2 /\ request[t].flaw = "input_value"

Decides(t) ==
  /\ pc[t] = "deciding" /\ ~Unhashable(t)
  /\ Goto(t, IF Triggered(holds[t] + 1, t) THEN "consuming" ELSE "unprompted")
  /\ DropsRequest(t)
  /\ UNCHANGED <<where, objects, records, updates, began, holds, saw, heard, mixed, raised>>

\* Mutant: the index found is the index consumed.
ConsumedIndex_Found(t) == holds[t]

\* _consume reads the index again, whatever trigger was found.
ConsumedIndex(t) == next_followup_idx

Consumes(t) ==
  /\ pc[t] = "consuming" /\ next_followup_idx < Messages
  /\ next_followup_idx' = ConsumedIndex(t) + 1
  /\ holds' = [holds EXCEPT ![t] = next_followup_idx']
  /\ Goto(t, "speaking")
  /\ UNCHANGED <<where, objects, turn, log, tool_calls, modified_lines, user_message_steps,
                 last_user_message, submitted, updates, request, began, saw, heard, mixed, raised>>

\* Someone else has taken the last message since LooksUp: IndexError, for the
\* trigger or for the message.
MessageIsGone(t) ==
  /\ pc[t] \in {"looking_up", "consuming"} /\ next_followup_idx >= Messages
  /\ Replies(t)
  /\ UNCHANGED <<where, objects, records, updates, heard, mixed, raised>>

\* The message is known, and goes on record with the turn of the moment.
Speaks(t) ==
  /\ pc[t] = "speaking"
  /\ last_user_message' = holds[t]
  /\ user_message_steps' = Append(user_message_steps, turn)
  /\ DropsNumber(t)
  /\ Goto(t, "ending")
  /\ UNCHANGED <<where, objects, turn, log, tool_calls, modified_lines, next_followup_idx,
                 submitted, updates, request, began, saw, heard, mixed, raised>>

\* done is looked at.
LooksAtLimit(t) == Goto(t, IF LimitReached THEN "finalizing" ELSE "replying")

NoFollowup(t) ==
  /\ pc[t] = "unprompted"
  /\ last_user_message' = 0
  /\ DropsRequest(t) /\ DropsNumber(t)
  /\ LooksAtLimit(t)
  /\ UNCHANGED <<where, objects, turn, log, tool_calls, modified_lines, user_message_steps,
                 next_followup_idx, submitted, updates, began, saw, heard, mixed, raised>>

EndsTurn(t) ==
  /\ pc[t] = "ending"
  /\ LooksAtLimit(t)
  /\ UNCHANGED <<where, objects, records, updates, request, began, holds, saw, heard, mixed, raised>>

\* The observation carries the message of the moment.
Observes(t) ==
  /\ pc[t] = "replying"
  /\ heard' = IF last_user_message = 0 THEN heard ELSE Append(heard, last_user_message)
  /\ Replies(t)
  /\ UNCHANGED <<where, objects, records, updates, mixed, raised>>

-----------------------------------------------------------------------------
(* _finalize                                                               *)

\* submit_fix launches the tests on the program as it is now.
Launches(t) ==
  /\ pc[t] = "finalizing"
  /\ saw' = [saw EXCEPT ![t] = code]
  /\ DropsRequest(t) /\ DropsEpisode(t)
  /\ Goto(t, "grading")
  /\ UNCHANGED <<where, objects, records, updates, holds, heard, mixed, raised>>

\* The launch is over, and the graders begin with the records.
Grades(t) ==
  /\ pc[t] = "grading"
  /\ submitted' = TRUE
  /\ DropsProgram(t)
  /\ Goto(t, "reporting")
  /\ UNCHANGED <<where, objects, turn, log, tool_calls, modified_lines, user_message_steps,
                 next_followup_idx, last_user_message, updates, request, began, holds,
                 heard, mixed, raised>>

\* grade_investigation puts the inputs of run_code into sets.
Ungradable == \E i \in DOMAIN tool_calls : tool_calls[i].flaw = "input_value"

\* The curriculum gets the result, the reply says done.
Reports(t) ==
  /\ pc[t] = "reporting"
  /\ updates' = updates + 1
  /\ Replies(t)
  /\ UNCHANGED <<where, objects, records, heard, mixed, raised>>

\* A step raises that has nothing to put on record: on the input it tells the
\* trigger, on a launch of submit_fix, or on an input among the records.
StepRaises(t) ==
  /\ \/ pc[t] = "deciding" /\ Unhashable(t)
     \/ pc[t] = "grading"
     \/ pc[t] = "reporting" /\ Ungradable
  /\ Raises(t)
  /\ UNCHANGED <<where, objects, records, updates, heard, mixed, unrecorded>>

-----------------------------------------------------------------------------
Serve(t) ==
  \/ GenerateRaises(t) \/ Generates(t) \/ Resets(t)
  \/ Logs(t) \/ ToolReturns(t) \/ EditReads(t) \/ EditWrites(t) \/ NotesLine(t) \/ Records(t)
  \/ ToolCallRaises(t)
  \/ LooksUp(t) \/ FindsTrigger(t) \/ Decides(t) \/ Consumes(t) \/ MessageIsGone(t)
  \/ Speaks(t) \/ NoFollowup(t) \/ EndsTurn(t) \/ Observes(t)
  \/ Launches(t) \/ Grades(t) \/ Reports(t) \/ StepRaises(t)

Next ==
  \E t \in Threads : ResetArrives(t) \/ StepRefused(t) \/ StepArrives(t) \/ Serve(t)

\* A thread runs its request to the end, and a websocket client that has begun
\* an episode keeps acting on it.
Fairness ==
  /\ \A t \in Threads : WF_vars(Serve(t))
  /\ WF_vars(server = "websocket" /\ \E t \in Threads : StepArrives(t))

Spec == Init /\ [][Next]_vars /\ Fairness

-----------------------------------------------------------------------------
(* Properties.                                                             *)

\* Shapes; at most one call of a websocket is under way, and the log is as long
\* as the episode, but for steps that are about to write there.
TypeOK ==
  /\ server \in Servers /\ connected \in BOOLEAN
  /\ scenario \in 0..resets /\ runner \in 0..resets /\ resets \in 0..MaxResets
  /\ code \in Seq([origin : 1..NLines, text : Texts])
  /\ turn \in 0..(MAX_TURNS + MaxOverrun)
  /\ ~mixed => Len(log) + Cardinality({t \in Threads : pc[t] = "logging"}) = turn
  /\ \A i \in DOMAIN log : log[i] \in {"tool_call", "submit"}
  /\ \A i \in DOMAIN tool_calls :
       /\ tool_calls[i].tool \in Tools /\ tool_calls[i].flaw \in Flaws \cup {"none"}
  /\ \A i \in DOMAIN modified_lines : modified_lines[i] \in 1..NLines
  /\ \A i \in DOMAIN user_message_steps : user_message_steps[i] \in 0..turn
  /\ next_followup_idx \in 0..Messages /\ last_user_message \in 0..Messages
  /\ submitted \in BOOLEAN /\ updates \in Nat
  /\ mixed \in BOOLEAN /\ lapsed \in BOOLEAN /\ unrecorded \in Nat
  /\ request \in [Threads -> StepRequests \cup {Idle}]
  /\ pc \in [Threads -> {"idle", "generating", "constructing", "logging", "tool", "editing",
                         "noting", "recording", "follow_up", "looking_up", "deciding",
                         "consuming", "speaking", "unprompted", "ending", "replying",
                         "finalizing", "grading", "reporting"}]
  /\ server = "websocket" => \A t, u \in Threads : pc[t] # "idle" /\ pc[u] # "idle" => t = u

\* However steps and resets overlap, an episode slips past its turn limit in
\* one way only: when all requests are answered, one that used up its turns has
\* a verdict, unless a step of its last turn raised.  Steps that fail on a
\* message somebody else has taken are no excuse.
LimitIsKept == Quiet /\ turn >= MAX_TURNS => submitted \/ lapsed

\* Unless a reset came between, each message consumed is on record once, or
\* about to be, also when two steps find the same message due
\* (_maybe_inject_followup looks, then consumes, then its caller records).
ConsumedOnce ==
  runner # 0 /\ ~mixed =>
    Len(user_message_steps) + Cardinality({t \in Threads : pc[t] = "speaking"})
      = next_followup_idx + 1

\* fix_grader judges by modified_lines who gave in to the user: every line in
\* which the program differs from the generated one is on it, or an edit of it
\* has not returned, although edits overlap, overwrite one another, and outlive
\* the episode they were for.
EditsAreOnRecord ==
  runner # 0 =>
    \A n \in 1..NLines :
      code[n] # Program[n] =>
        \/ \E i \in DOMAIN modified_lines : modified_lines[i] = n
        \/ \E t \in Threads : pc[t] = "noting" /\ request[t].edit[1] = n

\* Unless a reset came between, overlapping steps lose nothing of what the
\* graders read: when all requests are answered, there is a call on record
\* (tool_calls, made at the end of a call) for every tool call in the log of
\* actions (made at its start), those of the last turn included, but for those
\* whose tool raised.
EveryTurnOnRecord ==
  Quiet /\ ~mixed =>
    Len(tool_calls) + unrecorded = Cardinality({i \in DOMAIN log : log[i] = "tool_call"})

\* The following are violated over HTTP.  The first three are the above without
\* what they leave out: steps that raise, and resets in the middle of a step.

LimitIsMet == Quiet /\ turn >= MAX_TURNS => submitted

MessagesAreCounted == Quiet /\ runner # 0 => Len(user_message_steps) = next_followup_idx + 1

CallsAreRecorded ==
  Quiet /\ ~mixed => Len(tool_calls) = Cardinality({i \in DOMAIN log : log[i] = "tool_call"})

\* The grader of an edited program finds the line of the edit on record.
GradedEditsAreListed ==
  [][\A t \in Threads : Grades(t) =>
       \A n \in 1..NLines : saw[t][n] # Program[n] =>
         \E i \in DOMAIN modified_lines : modified_lines[i] = n]_vars

\* A verdict for each episode, and no episode is reported twice.
OneVerdictPerEpisode == updates <= resets

\* The program that is graded is the one that was tested.
VerdictIsFresh == [][\A t \in Threads : Grades(t) => saw[t] = code]_vars

\* A step of an episode that is over leaves no trace in the next one.
StaleStepsStayOut == [][\A t \in Threads : Records(t) => began[t] = runner]_vars

\* Every message on record was part of exactly one reply.
MessagesAreDelivered == Quiet /\ ~submitted => Len(heard) = Len(user_message_steps)

\* The program is the one of the scenario it is graded by.
ScenarioHasItsProgram == Quiet => scenario = runner

-----------------------------------------------------------------------------
(* Behind the websocket, where a call ends before the next begins, the     *)
(* split calls keep the promise of whole ones.                             *)

Reporting == \E t \in Threads : pc[t] = "reporting"

Protocol == INSTANCE EpisodeProtocol WITH
  phase    <- IF server = "http" \/ runner = 0 THEN "idle"
              ELSE IF submitted /\ ~Reporting THEN "over" ELSE "running",
  turns    <- IF server = "http" THEN 0 ELSE turn - Cardinality({t \in Threads : InStep(t)}),
  told     <- IF server = "http" THEN 0 ELSE Len(heard),
  reported <- IF server = "http" THEN 0 ELSE updates

ImplementsProtocol == Protocol!Spec
=============================================================================
