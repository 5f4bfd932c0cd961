---------------------- MODULE SharedEnvironment_proofs ----------------------
(***************************************************************************)
(* What is left of an episode's books when calls overlap on one            *)
(* environment, for any number of threads, turns, messages and resets; and *)
(* that behind the websocket the split calls keep EpisodeProtocol.         *)
(***************************************************************************)
EXTENDS SharedEnvironment, FiniteSetTheorems, TLAPS

Labels == {"idle", "generating", "constructing", "logging", "tool", "editing", "noting",
           "recording", "follow_up", "looking_up", "deciding", "consuming", "speaking",
           "unprompted", "ending", "replying", "finalizing", "grading", "reporting"}

\* The control of the threads, and the counters.
Control ==
  /\ pc \in [Threads -> Labels]
  /\ turn \in Nat /\ next_followup_idx \in Nat
  /\ user_message_steps \in Seq(Nat)

\* Where a step is that will look at the limit, or is to give a verdict.
OnTheWay == {"logging", "tool", "editing", "noting", "recording", "follow_up", "speaking",
             "unprompted", "ending", "finalizing", "grading"}

\* One that may take a message counts only while there is one.
Asking == {"looking_up", "deciding", "consuming"}

WillEnd(t) ==
  \/ pc[t] \in OnTheWay
  \/ pc[t] \in Asking /\ next_followup_idx < Messages

\* LimitIsKept speaks of quiet states; in between, someone is on the way.
LimitWillBeKept ==
  turn >= MAX_TURNS => submitted \/ lapsed \/ \E t \in Threads : WillEnd(t)

\* The messages that are taken and not yet on record.
Speaking == {t \in Threads : pc[t] = "speaking"}

BooksInv == Control /\ LimitWillBeKept /\ ConsumedOnce

LEMMA SpeakingFinite == IsFiniteSet(Speaking) /\ Cardinality(Speaking) \in Nat
BY SharedAssumption, FS_Subset, FS_CardinalityType DEF Speaking

LEMMA BooksInit == Init => BooksInv
<1> SUFFICES ASSUME Init PROVE BooksInv
  OBVIOUS
<1> USE SharedAssumption DEF Init
<1>1. Control
  BY DEF Control, Labels
<1>2. LimitWillBeKept
  BY DEF LimitWillBeKept
<1>3. ConsumedOnce
  BY DEF ConsumedOnce
<1> QED BY <1>1, <1>2, <1>3 DEF BooksInv

\* Nothing about messages happens, but perhaps a step begins or ends.
LEMMA MessagesUndisturbed ==
  ASSUME BooksInv, NEW t \in Threads, NEW label,
         pc' = [pc EXCEPT ![t] = label], pc[t] # "speaking", label # "speaking",
         UNCHANGED <<next_followup_idx, user_message_steps, runner, mixed>>
  PROVE  ConsumedOnce'
<1>1. Speaking' = Speaking
  BY DEF Speaking, BooksInv, Control
<1> QED BY <1>1 DEF BooksInv, ConsumedOnce, Speaking

\* A step that leaves the books alone and goes from one place before the look
\* at the limit to another, or raises, or is no step of an episode.
LEMMA GoesOn ==
  ASSUME BooksInv, NEW t \in Threads, NEW label \in Labels,
         pc' = [pc EXCEPT ![t] = label], pc[t] # "speaking", label # "speaking",
         UNCHANGED <<turn, next_followup_idx, user_message_steps, submitted, runner, mixed>>,
         lapsed => lapsed',
         WillEnd(t) => \/ label \in OnTheWay
                       \/ label \in Asking /\ next_followup_idx < Messages
                       \/ turn >= MAX_TURNS => lapsed'
  PROVE  BooksInv'
<1> USE DEF BooksInv
<1>1. Control'
  BY DEF Control
<1>2. LimitWillBeKept'
  <2> SUFFICES ASSUME turn' >= MAX_TURNS, ~submitted', ~lapsed'
               PROVE  \E u \in Threads : WillEnd(u)'
    BY DEF LimitWillBeKept
  <2>1. PICK u \in Threads : WillEnd(u)
    BY DEF LimitWillBeKept
  <2>2. CASE u = t
    BY <2>1, <2>2 DEF WillEnd, Control
  <2>3. CASE u # t
    BY <2>1, <2>3 DEF WillEnd, Control
  <2> QED BY <2>2, <2>3
<1>3. ConsumedOnce'
  BY MessagesUndisturbed
<1> QED BY <1>1, <1>2, <1>3

\* A step that goes to a place from which it comes to the end.
LEMMA Approaches ==
  ASSUME BooksInv, NEW t \in Threads,
         NEW label \in OnTheWay \ {"speaking"},
         pc' = [pc EXCEPT ![t] = label], pc[t] # "speaking",
         UNCHANGED <<turn, next_followup_idx, user_message_steps, submitted, runner, mixed, lapsed>>
  PROVE  BooksInv'
<1>1. label \in Labels
  BY DEF Labels, OnTheWay
<1> QED BY <1>1, GoesOn

\* The look at the limit: whoever has met it does not reply before there is a
\* verdict.
LEMMA LimitIsLookedAt ==
  ASSUME BooksInv, NEW t \in Threads, pc[t] \in Labels \ {"speaking"}, LooksAtLimit(t),
         UNCHANGED <<turn, next_followup_idx, user_message_steps, submitted, runner, mixed, lapsed>>
  PROVE  BooksInv'
<1> USE SharedAssumption
<1>1. CASE LimitReached
  BY <1>1, Approaches DEF OnTheWay, LooksAtLimit, Goto
<1>2. CASE ~LimitReached
  <2>1. pc' = [pc EXCEPT ![t] = "replying"]
    BY <1>2 DEF LooksAtLimit, Goto
  <2>2. Control' /\ ConsumedOnce'
    BY <2>1, MessagesUndisturbed DEF BooksInv, Control, Labels
  <2>3. ~(turn' >= MAX_TURNS)
    BY <1>2 DEF LimitReached
  <2> QED BY <2>2, <2>3 DEF BooksInv, LimitWillBeKept
<1> QED BY <1>1, <1>2

LEMMA BooksReset ==
  ASSUME BooksInv, NEW t \in Threads,
         ResetArrives(t) \/ GenerateRaises(t) \/ Generates(t) \/ Resets(t)
  PROVE  BooksInv'
<1> USE SharedAssumption
<1>1. CASE ResetArrives(t)
  BY <1>1, GoesOn
     DEF ResetArrives, MayArrive, Goto, records, objects, raised, Labels, WillEnd, OnTheWay, Asking
<1>2. CASE GenerateRaises(t)
  BY <1>2, GoesOn
     DEF GenerateRaises, Replies, records, objects, raised, Labels, WillEnd, OnTheWay, Asking
<1>3. CASE Generates(t)
  BY <1>3, GoesOn DEF Generates, Goto, records, raised, Labels, WillEnd, OnTheWay, Asking
<1>4. CASE Resets(t)
  <2> USE <1>4 DEF Resets, Replies
  <2>1. Control'
    BY DEF BooksInv, Control, Labels
  <2>2. LimitWillBeKept'
    BY DEF LimitWillBeKept
  <2>3. ConsumedOnce'
    <3>1. ~mixed' => Speaking' = {}
      BY DEF Speaking, InStep, BooksInv, Control
    <3>2. next_followup_idx' = 0 /\ Len(user_message_steps') = 1
      OBVIOUS
    <3>3. ~mixed' => Cardinality(Speaking') = 0
      BY ONLY <3>1, FS_EmptySet
    <3> QED BY ONLY <3>2, <3>3 DEF ConsumedOnce, Speaking
  <2> QED BY <2>1, <2>2, <2>3 DEF BooksInv
<1> QED BY <1>1, <1>2, <1>3, <1>4

LEMMA BooksStep ==
  ASSUME BooksInv, NEW t \in Threads,
         StepRefused(t) \/ StepArrives(t) \/ Logs(t) \/ ToolReturns(t) \/ EditReads(t)
           \/ EditWrites(t) \/ NotesLine(t) \/ Records(t)
  PROVE  BooksInv'
<1> USE SharedAssumption
<1>1. CASE StepRefused(t)
  BY <1>1 DEF StepRefused, records, objects, locals, raised, BooksInv, Control, LimitWillBeKept,
              ConsumedOnce, WillEnd
<1>2. CASE StepArrives(t)
  <2> USE <1>2 DEF StepArrives, Goto
  <2>1. pc' = [pc EXCEPT ![t] = "logging"] /\ pc[t] = "idle" /\ turn' = turn + 1
    BY DEF MayStep, MayArrive
  <2>2. Control'
    BY <2>1 DEF BooksInv, Control, Labels
  <2>3. LimitWillBeKept'
    BY <2>1 DEF LimitWillBeKept, WillEnd, OnTheWay, BooksInv, Control
  <2>4. ConsumedOnce'
    BY <2>1, MessagesUndisturbed DEF objects
  <2> QED BY <2>2, <2>3, <2>4 DEF BooksInv
<1>3. CASE Logs(t)
  <2>1. PICK label \in {"finalizing", "tool"} : pc' = [pc EXCEPT ![t] = label]
    BY <1>3 DEF Logs, Goto
  <2> QED BY <1>3, <2>1, Approaches DEF OnTheWay, Logs, objects, raised
<1>4. CASE ToolReturns(t)
  BY <1>4, Approaches DEF OnTheWay, ToolReturns, Goto, records, objects, raised
<1>5. CASE EditReads(t)
  BY <1>5, Approaches DEF OnTheWay, EditReads, Goto, records, objects, raised
<1>6. CASE EditWrites(t)
  BY <1>6, Approaches DEF OnTheWay, EditWrites, Goto, records, raised
<1>7. CASE NotesLine(t)
  BY <1>7, Approaches DEF OnTheWay, NotesLine, Goto, objects, raised
<1>8. CASE Records(t)
  BY <1>8, Approaches DEF OnTheWay, Records, Goto, objects, raised
<1> QED BY <1>1, <1>2, <1>3, <1>4, <1>5, <1>6, <1>7, <1>8

\* Whoever raises at the limit is noted.
LEMMA BooksRaise ==
  ASSUME BooksInv, NEW t \in Threads, ToolCallRaises(t) \/ StepRaises(t)
  PROVE  BooksInv'
<1>1. /\ Raises(t) /\ pc[t] # "speaking"
      /\ UNCHANGED <<turn, next_followup_idx, user_message_steps, submitted, runner, mixed>>
  BY DEF ToolCallRaises, StepRaises, LaunchesTool, records, objects
<1>2. /\ pc' = [pc EXCEPT ![t] = "idle"]
      /\ lapsed' = (lapsed \/ turn >= MAX_TURNS)
  BY <1>1 DEF Raises, Replies
<1> QED BY <1>1, <1>2, GoesOn DEF Labels

\* The message is recorded after the count it is taken by; a step that finds
\* it gone was not the one to end the episode.
LEMMA BooksFollowup ==
  ASSUME BooksInv, NEW t \in Threads,
         LooksUp(t) \/ FindsTrigger(t) \/ Decides(t) \/ Consumes(t) \/ MessageIsGone(t)
           \/ Speaks(t) \/ NoFollowup(t) \/ EndsTurn(t) \/ Observes(t)
  PROVE  BooksInv'
<1> USE SharedAssumption
<1>1. CASE LooksUp(t)
  <2>1. PICK label \in {"looking_up", "unprompted"} :
          /\ pc' = [pc EXCEPT ![t] = label]
          /\ label = "looking_up" => next_followup_idx < Messages
    BY <1>1 DEF LooksUp, Goto
  <2> QED BY <1>1, <2>1, GoesOn DEF LooksUp, records, objects, raised, Labels, OnTheWay, Asking
<1>2. CASE FindsTrigger(t)
  BY <1>2, GoesOn DEF FindsTrigger, Goto, records, objects, raised, Labels, Asking
<1>3. CASE Decides(t)
  <2>1. PICK label \in {"consuming", "unprompted"} : pc' = [pc EXCEPT ![t] = label]
    BY <1>3 DEF Decides, Goto
  <2>2. WillEnd(t) => next_followup_idx < Messages
    BY <1>3 DEF Decides, WillEnd, OnTheWay
  <2> QED BY <1>3, <2>1, <2>2, GoesOn DEF Decides, records, objects, raised, Labels, OnTheWay, Asking
<1>4. CASE Consumes(t)
  <2> USE <1>4 DEF Consumes, Goto, ConsumedIndex
  <2>1. Control'
    BY DEF BooksInv, Control, Labels
  <2>2. LimitWillBeKept'
    BY DEF BooksInv, Control, LimitWillBeKept, WillEnd, OnTheWay
  <2>3. ConsumedOnce'
    <3>1. Speaking' = Speaking \cup {t} /\ t \notin Speaking
      BY DEF Speaking, BooksInv, Control
    <3>2. Cardinality(Speaking') = Cardinality(Speaking) + 1
      BY <3>1, SpeakingFinite, FS_AddElement
    <3>3. Len(user_message_steps) \in Nat /\ next_followup_idx \in Nat
      BY DEF BooksInv, Control
    <3> QED BY <3>2, <3>3, SpeakingFinite DEF BooksInv, ConsumedOnce, Speaking, objects
  <2> QED BY <2>1, <2>2, <2>3 DEF BooksInv
<1>5. CASE MessageIsGone(t)
  <2>1. ~WillEnd(t) /\ pc' = [pc EXCEPT ![t] = "idle"] /\ pc[t] # "speaking"
    BY <1>5 DEF MessageIsGone, Replies, WillEnd, OnTheWay, BooksInv, Control
  <2> QED BY <1>5, <2>1, GoesOn DEF MessageIsGone, records, objects, raised, Labels
<1>6. CASE Speaks(t)
  <2> USE <1>6 DEF Speaks, Goto
  <2>1. Control'
    BY DEF BooksInv, Control, Labels
  <2>2. LimitWillBeKept'
    BY DEF BooksInv, Control, LimitWillBeKept, WillEnd, OnTheWay, raised
  <2>3. ConsumedOnce'
    <3>1. Speaking' = Speaking \ {t} /\ t \in Speaking
      BY DEF Speaking, BooksInv, Control
    <3>2. Cardinality(Speaking') = Cardinality(Speaking) - 1
      BY <3>1, SpeakingFinite, FS_RemoveElement
    <3>3. Len(user_message_steps') = Len(user_message_steps) + 1
      BY DEF BooksInv, Control
    <3>4. Len(user_message_steps) \in Nat /\ next_followup_idx \in Nat
      BY DEF BooksInv, Control
    <3> QED BY <3>2, <3>3, <3>4, SpeakingFinite DEF BooksInv, ConsumedOnce, Speaking, objects
  <2> QED BY <2>1, <2>2, <2>3 DEF BooksInv
<1>7. CASE NoFollowup(t)
  BY <1>7, LimitIsLookedAt DEF NoFollowup, objects, raised, Labels
<1>8. CASE EndsTurn(t)
  BY <1>8, LimitIsLookedAt DEF EndsTurn, records, objects, raised, Labels
<1>9. CASE Observes(t)
  <2>1. ~WillEnd(t) /\ pc' = [pc EXCEPT ![t] = "idle"] /\ pc[t] = "replying"
    BY <1>9 DEF Observes, Replies, WillEnd, OnTheWay, Asking
  <2> QED BY <1>9, <2>1, GoesOn DEF Observes, records, objects, raised, Labels
<1> QED BY <1>1, <1>2, <1>3, <1>4, <1>5, <1>6, <1>7, <1>8, <1>9

LEMMA BooksFinal ==
  ASSUME BooksInv, NEW t \in Threads, Launches(t) \/ Grades(t) \/ Reports(t)
  PROVE  BooksInv'
<1> USE SharedAssumption
<1>1. CASE Launches(t)
  BY <1>1, Approaches DEF OnTheWay, Launches, Goto, records, objects, raised
<1>2. CASE Grades(t)
  <2>1. pc' = [pc EXCEPT ![t] = "reporting"] /\ pc[t] = "grading" /\ submitted'
    BY <1>2 DEF Grades, Goto
  <2>2. ConsumedOnce'
    BY <1>2, <2>1, MessagesUndisturbed DEF Grades, objects
  <2> QED BY <1>2, <2>1, <2>2 DEF Grades, objects, Labels, BooksInv, Control, LimitWillBeKept
<1>3. CASE Reports(t)
  <2>1. ~WillEnd(t) /\ pc' = [pc EXCEPT ![t] = "idle"] /\ pc[t] = "reporting"
    BY <1>3 DEF Reports, Replies, WillEnd, OnTheWay, Asking
  <2> QED BY <1>3, <2>1, GoesOn DEF Reports, records, objects, raised, Labels
<1> QED BY <1>1, <1>2, <1>3

LEMMA BooksNext == BooksInv /\ [Next]_vars => BooksInv'
<1> SUFFICES ASSUME BooksInv, [Next]_vars PROVE BooksInv'
  OBVIOUS
<1>1. CASE Next
  <2>1. PICK t \in Threads : ResetArrives(t) \/ StepRefused(t) \/ StepArrives(t) \/ Serve(t)
    BY <1>1 DEF Next
  <2> QED BY <2>1, BooksReset, BooksStep, BooksRaise, BooksFollowup, BooksFinal DEF Serve
<1>2. CASE UNCHANGED vars
  BY <1>2 DEF vars, records, objects, locals, raised, BooksInv, Control, LimitWillBeKept, ConsumedOnce,
              WillEnd
<1> QED BY <1>1, <1>2

LEMMA BooksKept == Spec => []BooksInv
BY BooksInit, BooksNext, PTL DEF Spec

\* However many requests overlap on one environment (app.py:176), with resets
\* and failing steps among them, an episode is past its turn limit with no
\* verdict only when a step of its last turn raised before the limit was looked
\* at (environment.py:229).
THEOREM LimitKept == Spec => []LimitIsKept
<1>1. BooksInv => LimitIsKept
  BY DEF BooksInv, Control, LimitWillBeKept, WillEnd, OnTheWay, Asking, LimitIsKept, Quiet
<1> QED BY <1>1, BooksKept, PTL

\* Unless a reset came between, each message consumed is on record once, or
\* about to be, also when several steps find the same one due
\* (environment.py:119).
THEOREM MessagesConsumedOnce == Spec => []ConsumedOnce
<1>1. BooksInv => ConsumedOnce
  BY DEF BooksInv
<1> QED BY <1>1, BooksKept, PTL

-----------------------------------------------------------------------------
(* Edits.                                                                  *)

Lines == 1..NLines
Programs == [Lines -> [origin : Lines, text : Texts]]

Editing(t) == pc[t] = "editing"
Noting(t) == pc[t] = "noting"
Constructing(t) == pc[t] = "constructing"
Generating == {t \in Threads : pc[t] = "generating"}

\* What EditsAreOnRecord asks of a line that an edit has changed.
Listed(n) ==
  \/ \E i \in DOMAIN modified_lines : modified_lines[i] = n
  \/ \E t \in Threads : Noting(t) /\ request[t].edit[1] = n

IsEdit(t) == request[t].tool = "apply_fix" /\ (Noting(t) => request[t].flaw # "new_code")

EditTypes ==
  /\ pc \in [Threads -> Labels]
  /\ request \in [Threads -> StepRequests \cup {Idle}]
  /\ \A t \in Threads : Editing(t) \/ Noting(t) => IsEdit(t)
  /\ holds \in [Threads -> Nat]
  /\ code \in Programs
  /\ saw \in [Threads -> Programs]
  /\ modified_lines \in Seq(Lines)
  /\ runner \in 0..resets /\ resets \in Nat

\* There is a number for every scenario that is being generated.
RoomForResets == resets + Cardinality(Generating) <= MaxResets

\* A runner that is yet to take its place has a number of its own, and no edit
\* has hold of it.
NewIsUnknown ==
  /\ \A t \in Threads : Constructing(t) =>
       /\ holds[t] \in 1..resets /\ holds[t] # runner
       /\ \A u \in Threads : Constructing(u) /\ u # t => holds[u] # holds[t]
  /\ \A t \in Threads : Editing(t) =>
       /\ holds[t] \in 0..resets
       /\ \A u \in Threads : Constructing(u) => holds[u] # holds[t]

\* What an edit under way has read is on record as well, if it is the program
\* of the runner in place.
ReadIsOnRecord ==
  \A t \in Threads : Editing(t) /\ holds[t] = runner /\ runner # 0 =>
    \A n \in Lines : saw[t][n] # Program[n] => Listed(n)

ProgramIsOnRecord ==
  runner # 0 => \A n \in Lines : code[n] # Program[n] => Listed(n)

EditsInv ==
  EditTypes /\ RoomForResets /\ NewIsUnknown /\ ReadIsOnRecord /\ ProgramIsOnRecord

LEMMA ProgramType == Program \in Programs
BY DEF Program, InjectBug, Line, Programs, Lines, Texts

\* An edit with a fix or with junk changes one line, to a line.
LEMMA EditChangesOneLine ==
  ASSUME NEW p \in Programs, NEW line \in Lines, NEW edit \in {"fix", "junk"}
  PROVE  /\ ApplyEdit(p, line, edit) \in Programs
         /\ \A n \in Lines : n # line => ApplyEdit(p, line, edit)[n] = p[n]
<1>1. ApplyEdit(p, line, edit) = [p EXCEPT ![line].text = edit]
  BY DEF ApplyEdit
<1>2. [p[line] EXCEPT !.text = edit] \in [origin : Lines, text : Texts]
  BY DEF Programs, Texts
<1> QED BY <1>1, <1>2 DEF Programs

LEMMA GeneratingFinite ==
  /\ IsFiniteSet(Generating) /\ Cardinality(Generating) \in Nat
BY SharedAssumption, FS_Subset, FS_CardinalityType DEF Generating

LEMMA EditsInit == Init => EditsInv
<1> SUFFICES ASSUME Init PROVE EditsInv
  OBVIOUS
<1> USE SharedAssumption, ProgramType DEF Init
<1>1. EditTypes
  BY DEF EditTypes, Labels, StepRequests, Idle, Editing, Noting
<1>2. RoomForResets
  <2>1. Generating = {}
    BY DEF Generating
  <2> QED BY <2>1, FS_EmptySet DEF RoomForResets
<1>3. NewIsUnknown /\ ReadIsOnRecord
  BY DEF NewIsUnknown, ReadIsOnRecord, Editing, Constructing
<1>4. ProgramIsOnRecord
  BY DEF ProgramIsOnRecord
<1> QED BY <1>1, <1>2, <1>3, <1>4 DEF EditsInv

\* What is listed stays so while nobody leaves the place before the note.
LEMMA ListedStays ==
  ASSUME UNCHANGED modified_lines, NEW n,
         \A u \in Threads : Noting(u) => Noting(u)' /\ request'[u] = request[u],
         Listed(n)
  PROVE  Listed(n)'
BY DEF Listed

\* A move that is not about generating, constructing, editing or noting.
LEMMA ElsewhereMoves ==
  ASSUME EditsInv, NEW t \in Threads, NEW label \in Labels,
         pc[t] \notin {"generating", "noting"},
         label \notin {"generating", "constructing", "editing", "noting"},
         pc' = [pc EXCEPT ![t] = label],
         request' \in [Threads -> StepRequests \cup {Idle}],
         holds' \in [Threads -> Nat], saw' \in [Threads -> Programs],
         \A u \in Threads : u # t =>
           request'[u] = request[u] /\ holds'[u] = holds[u] /\ saw'[u] = saw[u],
         UNCHANGED <<code, modified_lines, runner, resets>>
  PROVE  EditsInv'
<1> USE DEF EditsInv
<1>0. \A u \in Threads : /\ Editing(u)' => Editing(u) /\ u # t
                         /\ Constructing(u)' => Constructing(u) /\ u # t
                         /\ Noting(u)' <=> Noting(u)
                         /\ Noting(u) => u # t
  BY DEF EditTypes, Editing, Constructing, Noting
<1>1. EditTypes'
  <2>1. \A u \in Threads : Editing(u)' \/ Noting(u)' => IsEdit(u)'
    BY <1>0 DEF EditTypes, IsEdit
  <2> QED BY <2>1 DEF EditTypes
<1>2. RoomForResets'
  <2>1. Generating' = Generating
    BY DEF Generating, EditTypes
  <2> QED BY <2>1 DEF RoomForResets
<1>3. NewIsUnknown'
  BY <1>0 DEF NewIsUnknown
<1>l. \A n : Listed(n) => Listed(n)'
  BY <1>0, ListedStays
<1>4. ReadIsOnRecord'
  BY <1>0, <1>l DEF ReadIsOnRecord
<1>5. ProgramIsOnRecord'
  BY <1>l DEF ProgramIsOnRecord
<1> QED BY <1>1, <1>2, <1>3, <1>4, <1>5

LEMMA EditsResetArrives ==
  ASSUME EditsInv, NEW t \in Threads, ResetArrives(t)
  PROVE  EditsInv'
<1> USE SharedAssumption DEF EditsInv, ResetArrives, MayArrive, Goto, objects, records
<1>0. \A u \in Threads : /\ Editing(u)' => Editing(u)
                         /\ Constructing(u)' => Constructing(u)
                         /\ Noting(u)' <=> Noting(u)
  BY DEF EditTypes, Editing, Constructing, Noting
<1>1. EditTypes'
  <2>1. \A u \in Threads : Editing(u)' \/ Noting(u)' => IsEdit(u)'
    BY <1>0 DEF EditTypes, IsEdit
  <2> QED BY <2>1 DEF EditTypes, Labels
<1>2. RoomForResets'
  <2>1. Generating' = Generating \cup {t} /\ t \notin Generating
    BY DEF Generating, EditTypes
  <2>2. Cardinality(Generating') = Cardinality(Generating) + 1
    BY <2>1, GeneratingFinite, FS_AddElement
  <2>3. resets + Cardinality(Generating) < MaxResets
    BY DEF Generating
  <2> QED BY <2>2, <2>3, GeneratingFinite DEF RoomForResets, EditTypes
<1>3. NewIsUnknown'
  BY <1>0 DEF NewIsUnknown
<1>l. \A n : Listed(n) => Listed(n)'
  BY <1>0, ListedStays
<1>4. ReadIsOnRecord'
  BY <1>0, <1>l DEF ReadIsOnRecord
<1>5. ProgramIsOnRecord'
  BY <1>l DEF ProgramIsOnRecord
<1> QED BY <1>1, <1>2, <1>3, <1>4, <1>5

\* A reset that fails gives its number back.
LEMMA EditsGenerateRaises ==
  ASSUME EditsInv, NEW t \in Threads, GenerateRaises(t)
  PROVE  EditsInv'
<1> USE SharedAssumption, ProgramType DEF EditsInv
<1>0. /\ pc[t] = "generating" /\ pc' = [pc EXCEPT ![t] = "idle"]
      /\ request' = [request EXCEPT ![t] = Idle] /\ holds' = [holds EXCEPT ![t] = 0]
      /\ saw' = [saw EXCEPT ![t] = Program]
      /\ UNCHANGED <<code, modified_lines, runner, resets>>
  BY DEF GenerateRaises, Replies, DropsRequest, DropsNumber, DropsProgram, objects, records
<1>1. \A u \in Threads : /\ Editing(u)' => Editing(u) /\ u # t
                         /\ Constructing(u)' => Constructing(u) /\ u # t
                         /\ Noting(u)' <=> Noting(u)
                         /\ Noting(u) => u # t
                         /\ u # t => request'[u] = request[u] /\ holds'[u] = holds[u]
                                     /\ saw'[u] = saw[u]
  BY <1>0 DEF EditTypes, Editing, Constructing, Noting
<1>2. EditTypes'
  <2>1. \A u \in Threads : Editing(u)' \/ Noting(u)' => IsEdit(u)'
    BY <1>1 DEF EditTypes, IsEdit
  <2> QED BY <1>0, <2>1 DEF EditTypes, Labels
<1>3. RoomForResets'
  <2>1. Generating' = Generating \ {t} /\ t \in Generating
    BY <1>0 DEF Generating, EditTypes
  <2>2. Cardinality(Generating') = Cardinality(Generating) - 1
    BY <2>1, GeneratingFinite, FS_RemoveElement
  <2> QED BY <1>0, <2>2, GeneratingFinite DEF RoomForResets, EditTypes
<1>4. NewIsUnknown'
  BY <1>0, <1>1 DEF NewIsUnknown
<1>l. \A n : Listed(n) => Listed(n)'
  BY <1>0, <1>1, ListedStays
<1>5. ReadIsOnRecord'
  BY <1>0, <1>1, <1>l DEF ReadIsOnRecord
<1>6. ProgramIsOnRecord'
  BY <1>0, <1>l DEF ProgramIsOnRecord
<1> QED BY <1>2, <1>3, <1>4, <1>5, <1>6

\* The new number is nobody's yet.
LEMMA EditsGenerates ==
  ASSUME EditsInv, NEW t \in Threads, Generates(t)
  PROVE  EditsInv'
<1> USE SharedAssumption DEF EditsInv, Generates, Goto, records
<1>0. /\ pc[t] = "generating"
      /\ resets' = resets + 1
      /\ holds' = [holds EXCEPT ![t] = resets']
      /\ \A u \in Threads : /\ Editing(u)' => Editing(u) /\ u # t
                            /\ Constructing(u)' => Constructing(u) \/ u = t
                            /\ Noting(u)' <=> Noting(u)
  BY DEF EditTypes, Editing, Constructing, Noting
<1>1. EditTypes'
  <2>1. \A u \in Threads : Editing(u)' \/ Noting(u)' => IsEdit(u)'
    BY <1>0 DEF EditTypes, IsEdit
  <2> QED BY <1>0, <2>1 DEF EditTypes, Labels
<1>2. RoomForResets' /\ resets' <= MaxResets
  <2>1. Generating' = Generating \ {t} /\ t \in Generating
    BY DEF Generating, EditTypes
  <2>2. Cardinality(Generating') = Cardinality(Generating) - 1
    BY <2>1, GeneratingFinite, FS_RemoveElement
  <2>3. Cardinality(Generating') \in Nat
    BY <2>1, GeneratingFinite, FS_RemoveElement, FS_CardinalityType
  <2> QED BY <1>0, <2>2, <2>3, GeneratingFinite DEF RoomForResets, EditTypes
<1>3. NewIsUnknown'
  <2>2. ASSUME NEW u \in Threads, Constructing(u)'
        PROVE  /\ holds'[u] \in 1..resets' /\ holds'[u] # runner'
               /\ \A v \in Threads : Constructing(v)' /\ v # u => holds'[v] # holds'[u]
    <3>1. CASE u = t
      <4>1. holds'[u] = resets + 1
        BY <1>0, <3>1 DEF EditTypes
      <4>2. \A v \in Threads : Constructing(v)' /\ v # u => holds'[v] \in 1..resets
        BY <1>0, <3>1 DEF NewIsUnknown, EditTypes
      <4> QED BY <1>0, <4>1, <4>2 DEF NewIsUnknown, EditTypes
    <3>2. CASE u # t
      <4>1. Constructing(u) /\ holds'[u] = holds[u] /\ holds[u] \in 1..resets
        BY <1>0, <2>2, <3>2 DEF NewIsUnknown, EditTypes
      <4>2. holds'[t] = resets + 1
        BY <1>0 DEF EditTypes
      <4>3. \A v \in Threads : Constructing(v)' /\ v # u => holds'[v] # holds'[u]
        BY <1>0, <4>1, <4>2, <3>2 DEF NewIsUnknown, EditTypes
      <4> QED BY <1>0, <4>1, <4>3 DEF NewIsUnknown, EditTypes
    <3> QED BY <3>1, <3>2
  <2>3. ASSUME NEW u \in Threads, Editing(u)'
        PROVE  /\ holds'[u] \in 0..resets'
               /\ \A v \in Threads : Constructing(v)' => holds'[v] # holds'[u]
    <3>1. Editing(u) /\ u # t /\ holds'[u] = holds[u] /\ holds[u] \in 0..resets
      BY <1>0, <2>3 DEF NewIsUnknown, EditTypes
    <3>2. holds'[t] = resets + 1
      BY <1>0 DEF EditTypes
    <3> QED BY <1>0, <3>1, <3>2 DEF NewIsUnknown, EditTypes
  <2> QED BY <2>2, <2>3 DEF NewIsUnknown
<1>l. \A n : Listed(n) => Listed(n)'
  BY <1>0, ListedStays
<1>4. ReadIsOnRecord'
  BY <1>0, <1>l DEF ReadIsOnRecord, EditTypes
<1>5. ProgramIsOnRecord'
  BY <1>l DEF ProgramIsOnRecord
<1> QED BY <1>1, <1>2, <1>3, <1>4, <1>5

\* The new runner has the generated program, and nobody has read another one
\* from it.
LEMMA EditsResets ==
  ASSUME EditsInv, NEW t \in Threads, Resets(t)
  PROVE  EditsInv'
<1> USE SharedAssumption, ProgramType
    DEF EditsInv, Resets, Replies, DropsRequest, DropsNumber, DropsProgram
<1>0. /\ Constructing(t)
      /\ runner' = holds[t] /\ runner' \in 1..resets /\ code' = Program
      /\ \A u \in Threads : /\ u # t => /\ holds'[u] = holds[u] /\ saw'[u] = saw[u]
                                        /\ request'[u] = request[u]
                            /\ Editing(u)' => Editing(u) /\ u # t
                            /\ Noting(u)' => Noting(u) /\ u # t
                            /\ Constructing(u)' => Constructing(u) /\ u # t
  BY DEF EditTypes, Editing, Constructing, Noting, NewIsUnknown
<1>1. EditTypes'
  <2>1. \A u \in Threads : Editing(u)' \/ Noting(u)' => IsEdit(u)'
    BY <1>0 DEF EditTypes, IsEdit
  <2> QED BY <1>0, <2>1 DEF EditTypes, Labels, Idle
<1>2. RoomForResets'
  <2>1. Generating' = Generating
    BY DEF Generating, EditTypes
  <2> QED BY <2>1 DEF RoomForResets
<1>3. NewIsUnknown'
  BY <1>0 DEF NewIsUnknown
<1>4. ReadIsOnRecord'
  BY <1>0 DEF ReadIsOnRecord, NewIsUnknown
<1>5. ProgramIsOnRecord'
  BY <1>0 DEF ProgramIsOnRecord
<1> QED BY <1>1, <1>2, <1>3, <1>4, <1>5

LEMMA EditsReads ==
  ASSUME EditsInv, NEW t \in Threads, EditReads(t)
  PROVE  EditsInv'
<1> USE SharedAssumption DEF EditsInv, EditReads, Goto, objects, records
<1>0. /\ \A u \in Threads : /\ u # t => holds'[u] = holds[u] /\ saw'[u] = saw[u]
                            /\ Editing(u)' => Editing(u) \/ u = t
                            /\ Noting(u)' <=> Noting(u)
                            /\ Noting(u) => u # t
                            /\ Constructing(u)' => Constructing(u) /\ u # t
      /\ holds'[t] = runner /\ saw'[t] = code
      /\ request[t].tool = "apply_fix"
  BY DEF EditTypes, Editing, Constructing, Noting
<1>1. EditTypes'
  <2>1. \A u \in Threads : Editing(u)' \/ Noting(u)' => IsEdit(u)'
    BY <1>0 DEF EditTypes, IsEdit
  <2> QED BY <2>1 DEF EditTypes, Labels
<1>2. RoomForResets'
  <2>1. Generating' = Generating
    BY DEF Generating, EditTypes
  <2> QED BY <2>1 DEF RoomForResets
<1>3. NewIsUnknown'
  BY <1>0 DEF NewIsUnknown, EditTypes
<1>l. \A n : Listed(n) => Listed(n)'
  BY <1>0, ListedStays
<1>4. ReadIsOnRecord'
  BY <1>0, <1>l DEF ReadIsOnRecord, ProgramIsOnRecord
<1>5. ProgramIsOnRecord'
  BY <1>l DEF ProgramIsOnRecord
<1> QED BY <1>1, <1>2, <1>3, <1>4, <1>5

\* What an edit that is neither done nor flawed asks for.
LEMMA EditAskedFor ==
  ASSUME EditTypes, NEW t \in Threads, IsEdit(t), request[t].flaw # "new_code"
  PROVE  \E line \in Lines, edit \in {"fix", "junk"} : request[t].edit = <<line, edit>>
<1>1. request[t].edit \in EditsMade
  <2>1. request[t] \in StepRequests \cup {Idle} /\ request[t].tool = "apply_fix"
    BY DEF EditTypes, IsEdit
  <2> QED BY <2>1 DEF StepRequests, SoundRequests, FlawedRequests, Idle
<1> QED BY <1>1, SharedAssumption DEF Lines

\* The line is about to be listed; the other lines are those that were read.
LEMMA EditsWrites ==
  ASSUME EditsInv, NEW t \in Threads, EditWrites(t)
  PROVE  EditsInv'
<1> USE SharedAssumption, ProgramType DEF EditsInv
<1>e. Editing(t) /\ IsEdit(t) /\ request[t].flaw # "new_code"
  BY DEF EditWrites, Editing, EditTypes
<1>1. PICK line \in Lines, edit \in {"fix", "junk"} : request[t].edit = <<line, edit>>
  BY <1>e, EditAskedFor
<1> DEFINE new == ApplyEdit(saw[t], line, edit)
<1>0. /\ pc' = [pc EXCEPT ![t] = "noting"]
      /\ code' = IF holds[t] = runner THEN new ELSE code
      /\ holds' = [holds EXCEPT ![t] = 0] /\ saw' = [saw EXCEPT ![t] = Program]
      /\ UNCHANGED <<runner, resets, request, modified_lines>>
  BY <1>1 DEF EditWrites, EditedRunner, Goto, DropsNumber, DropsProgram, records
<1>2. /\ new \in Programs
      /\ \A n \in Lines : n # line => new[n] = saw[t][n]
  <2>1. saw[t] \in Programs
    BY DEF EditTypes
  <2> QED BY <2>1, EditChangesOneLine
<1> HIDE DEF new
<1>4. \A u \in Threads : /\ Editing(u)' => Editing(u) /\ u # t
                         /\ Constructing(u)' => Constructing(u) /\ u # t
                         /\ Noting(u)' <=> Noting(u) \/ u = t
                         /\ u # t => holds'[u] = holds[u] /\ saw'[u] = saw[u]
  BY <1>e, <1>0 DEF EditTypes, Editing, Constructing, Noting
<1>3. /\ Listed(line)'
      /\ \A n \in Lines : Listed(n) => Listed(n)'
  <2>1. Noting(t)' /\ request'[t].edit[1] = line
    BY <1>0, <1>1, <1>4
  <2> QED BY <1>0, <1>4, <2>1, ListedStays DEF Listed
<1>6. EditTypes'
  <2>1. code' \in Programs
    BY <1>0, <1>2 DEF EditTypes
  <2>2. pc' \in [Threads -> Labels]
    BY <1>0 DEF EditTypes, Labels
  <2>3. \A u \in Threads : Editing(u)' \/ Noting(u)' => IsEdit(u)'
    BY <1>e, <1>0, <1>4 DEF EditTypes, IsEdit
  <2> QED BY <1>0, <2>1, <2>2, <2>3 DEF EditTypes
<1>7. RoomForResets'
  <2>1. Generating' = Generating
    BY <1>e, <1>0 DEF Generating, EditTypes, Editing
  <2> QED BY <1>0, <2>1 DEF RoomForResets
<1>8. NewIsUnknown'
  BY <1>0, <1>4 DEF NewIsUnknown
<1>9. ReadIsOnRecord'
  BY <1>0, <1>3, <1>4 DEF ReadIsOnRecord
<1>10. ProgramIsOnRecord'
  <2> SUFFICES ASSUME runner # 0, NEW n \in Lines, code'[n] # Program[n]
               PROVE  Listed(n)'
    BY <1>0 DEF ProgramIsOnRecord
  <2>1. CASE holds[t] # runner
    BY <1>0, <1>3, <2>1 DEF ProgramIsOnRecord
  <2>2. CASE holds[t] = runner /\ n # line
    <3>1. saw[t][n] # Program[n]
      BY <1>0, <1>2, <2>2
    <3> QED BY <1>e, <1>3, <2>2, <3>1 DEF ReadIsOnRecord
  <2>3. CASE n = line
    BY <1>3, <2>3
  <2> QED BY <2>1, <2>2, <2>3
<1> QED BY <1>6, <1>7, <1>8, <1>9, <1>10

\* The line that was about to be listed is.
LEMMA EditsNotes ==
  ASSUME EditsInv, NEW t \in Threads, NotesLine(t)
  PROVE  EditsInv'
<1> USE DEF EditsInv
<1>1. PICK line \in Lines, edit \in {"fix", "junk"} : request[t].edit = <<line, edit>>
  <2>1. Noting(t) /\ IsEdit(t)
    BY DEF NotesLine, Noting, EditTypes
  <2> QED BY <2>1, EditAskedFor DEF IsEdit
<1>0. /\ Noting(t) /\ pc' = [pc EXCEPT ![t] = "recording"]
      /\ modified_lines' = Append(modified_lines, line)
      /\ UNCHANGED <<code, runner, resets, request, holds, saw>>
  BY <1>1 DEF NotesLine, Noting, Goto, objects
<1>4. \A u \in Threads : /\ Editing(u)' <=> Editing(u)
                         /\ Constructing(u)' <=> Constructing(u)
                         /\ Noting(u)' <=> Noting(u) /\ u # t
  BY <1>0 DEF EditTypes, Editing, Constructing, Noting
<1>3. \A n \in Lines : Listed(n) => Listed(n)'
  <2>1. modified_lines \in Seq(Lines)
    BY DEF EditTypes
  <2>2. /\ DOMAIN modified_lines' = 1..(Len(modified_lines) + 1)
        /\ modified_lines'[Len(modified_lines) + 1] = line
        /\ \A i \in DOMAIN modified_lines : modified_lines'[i] = modified_lines[i]
    BY <1>0, <2>1
  <2>3. Len(modified_lines) \in Nat /\ DOMAIN modified_lines = 1..Len(modified_lines)
    BY <2>1
  <2>4. Listed(line)'
    BY <2>2, <2>3 DEF Listed
  <2>5. ASSUME NEW n \in Lines, NEW i \in DOMAIN modified_lines, modified_lines[i] = n
        PROVE  Listed(n)'
    BY <2>2, <2>3, <2>5 DEF Listed
  <2>6. ASSUME NEW n \in Lines, NEW u \in Threads, Noting(u), request[u].edit[1] = n
        PROVE  Listed(n)'
    <3>1. CASE u = t
      BY <1>1, <2>4, <2>6, <3>1
    <3>2. CASE u # t
      BY <1>0, <1>4, <2>6, <3>2 DEF Listed
    <3> QED BY <3>1, <3>2
  <2> QED BY <2>5, <2>6 DEF Listed
<1>6. EditTypes'
  <2>1. modified_lines' \in Seq(Lines)
    BY <1>0 DEF EditTypes
  <2>2. pc' \in [Threads -> Labels]
    BY <1>0 DEF EditTypes, Labels
  <2>3. \A u \in Threads : Editing(u)' \/ Noting(u)' => IsEdit(u)'
    BY <1>0, <1>4 DEF EditTypes, IsEdit
  <2> QED BY <1>0, <2>1, <2>2, <2>3 DEF EditTypes
<1>7. RoomForResets'
  <2>1. Generating' = Generating
    BY <1>0 DEF Generating, EditTypes, Noting
  <2> QED BY <1>0, <2>1 DEF RoomForResets
<1>8. NewIsUnknown'
  BY <1>0, <1>4 DEF NewIsUnknown
<1>9. ReadIsOnRecord'
  BY <1>0, <1>3, <1>4 DEF ReadIsOnRecord
<1>10. ProgramIsOnRecord'
  BY <1>0, <1>3 DEF ProgramIsOnRecord
<1> QED BY <1>6, <1>7, <1>8, <1>9, <1>10

LEMMA EditsElsewhere ==
  ASSUME EditsInv, next_followup_idx \in Nat, NEW t \in Threads,
         \/ StepRefused(t) \/ StepArrives(t) \/ Logs(t) \/ ToolReturns(t) \/ Records(t)
         \/ ToolCallRaises(t) \/ StepRaises(t)
         \/ LooksUp(t) \/ FindsTrigger(t) \/ Decides(t) \/ Consumes(t) \/ MessageIsGone(t)
         \/ Speaks(t) \/ NoFollowup(t) \/ EndsTurn(t) \/ Observes(t)
         \/ Launches(t) \/ Grades(t) \/ Reports(t)
  PROVE  EditsInv'
<1> USE SharedAssumption, ProgramType DEF EditsInv
<1>p. /\ request \in [Threads -> StepRequests \cup {Idle}]
      /\ holds \in [Threads -> Nat] /\ saw \in [Threads -> Programs] /\ code \in Programs
  BY DEF EditTypes
<1>1. CASE StepRefused(t)
  BY <1>1 DEF StepRefused, locals, records, objects, EditTypes, IsEdit, RoomForResets, Generating,
              NewIsUnknown, ReadIsOnRecord, ProgramIsOnRecord, Editing, Constructing, Noting, Listed
<1>2. CASE StepArrives(t)
  <2>1. PICK r \in StepRequests : request' = [request EXCEPT ![t] = r]
    BY <1>2 DEF StepArrives
  <2> QED BY <1>2, <1>p, <2>1, ElsewhereMoves DEF StepArrives, MayStep, MayArrive, Goto, objects, Labels
<1>3. CASE Logs(t)
  <2>1. PICK label \in {"finalizing", "tool"} : pc' = [pc EXCEPT ![t] = label]
    BY <1>3 DEF Logs, Goto
  <2> QED BY <1>3, <1>p, <2>1, ElsewhereMoves DEF Logs, objects, Labels
<1>4. CASE ToolReturns(t)
  BY <1>4, <1>p, ElsewhereMoves DEF ToolReturns, Goto, records, objects, Labels
<1>5. CASE Records(t)
  BY <1>5, <1>p, ElsewhereMoves DEF Records, Goto, objects, Labels
<1>r. CASE Replies(t) /\ pc[t] \notin {"generating", "noting"}
           /\ UNCHANGED <<code, modified_lines, runner, resets>>
  <2>1. /\ pc' = [pc EXCEPT ![t] = "idle"] /\ request' = [request EXCEPT ![t] = Idle]
        /\ holds' = [holds EXCEPT ![t] = 0] /\ saw' = [saw EXCEPT ![t] = Program]
    BY <1>r DEF Replies, DropsRequest, DropsNumber, DropsProgram
  <2> QED BY <1>r, <1>p, <2>1, ElsewhereMoves DEF Labels
<1>6. CASE ToolCallRaises(t) \/ StepRaises(t)
  BY <1>6, <1>r DEF ToolCallRaises, StepRaises, Raises, LaunchesTool, objects, records
<1>7. CASE MessageIsGone(t) \/ Observes(t) \/ Reports(t)
  BY <1>7, <1>r DEF MessageIsGone, Observes, Reports, objects, records
<1>8. CASE LooksUp(t)
  <2>1. PICK label \in {"looking_up", "unprompted"} : pc' = [pc EXCEPT ![t] = label]
    BY <1>8 DEF LooksUp, Goto
  <2> QED BY <1>8, <1>p, <2>1, ElsewhereMoves DEF LooksUp, records, objects, Labels
<1>9. CASE FindsTrigger(t)
  BY <1>9, <1>p, ElsewhereMoves DEF FindsTrigger, Goto, records, objects, Labels
<1>10. CASE Decides(t)
  <2>1. PICK label \in {"consuming", "unprompted"} : pc' = [pc EXCEPT ![t] = label]
    BY <1>10 DEF Decides, Goto
  <2> QED BY <1>10, <1>p, <2>1, ElsewhereMoves DEF Decides, DropsRequest, records, objects, Labels
<1>11. CASE Consumes(t)
  <2>1. next_followup_idx' \in Nat
    BY <1>11 DEF Consumes, ConsumedIndex
  <2> QED BY <1>11, <1>p, <2>1, ElsewhereMoves DEF Consumes, Goto, objects, Labels
<1>12. CASE Speaks(t)
  BY <1>12, <1>p, ElsewhereMoves DEF Speaks, Goto, DropsNumber, objects, Labels
<1>13. CASE NoFollowup(t) \/ EndsTurn(t)
  <2>1. PICK label \in {"finalizing", "replying"} : pc' = [pc EXCEPT ![t] = label]
    BY <1>13 DEF NoFollowup, EndsTurn, LooksAtLimit, Goto
  <2>2. CASE NoFollowup(t)
    BY <1>p, <2>1, <2>2, ElsewhereMoves DEF NoFollowup, DropsRequest, DropsNumber, objects, Labels
  <2>3. CASE EndsTurn(t)
    BY <1>p, <2>1, <2>3, ElsewhereMoves DEF EndsTurn, records, objects, Labels
  <2> QED BY <1>13, <2>2, <2>3
<1>14. CASE Launches(t)
  BY <1>14, <1>p, ElsewhereMoves DEF Launches, Goto, DropsRequest, records, objects, Labels
<1>15. CASE Grades(t)
  BY <1>15, <1>p, ElsewhereMoves DEF Grades, Goto, DropsProgram, objects, Labels
<1> QED BY <1>1, <1>2, <1>3, <1>4, <1>5, <1>6, <1>7, <1>8, <1>9, <1>10, <1>11, <1>12, <1>13,
           <1>14, <1>15

LEMMA EditsNext == BooksInv /\ EditsInv /\ [Next]_vars => EditsInv'
<1> SUFFICES ASSUME BooksInv, EditsInv, [Next]_vars PROVE EditsInv'
  OBVIOUS
<1>1. CASE Next
  <2>1. PICK t \in Threads : ResetArrives(t) \/ StepRefused(t) \/ StepArrives(t) \/ Serve(t)
    BY <1>1 DEF Next
  <2> QED BY <2>1, EditsResetArrives, EditsGenerateRaises, EditsGenerates, EditsResets, EditsReads,
             EditsWrites, EditsNotes, EditsElsewhere DEF Serve, BooksInv, Control
<1>2. CASE UNCHANGED vars
  BY <1>2 DEF vars, records, objects, locals, EditsInv, EditTypes, IsEdit, RoomForResets, Generating,
              NewIsUnknown, ReadIsOnRecord, ProgramIsOnRecord, Editing, Constructing, Noting, Listed
<1> QED BY <1>1, <1>2

\* Whatever edits overlap, overwrite one another or outlive their episode, each
\* line in which the program differs from the generated one is on record for
\* the grader that asks who gave in (environment.py:181), or an apply_fix of
\* that line has returned, or is about to, and has not noted it yet.
THEOREM EditsOnRecord == Spec => []EditsAreOnRecord
<1>1. EditsInv => EditsAreOnRecord
  BY DEF EditsInv, ProgramIsOnRecord, EditsAreOnRecord, Listed, Noting, Lines
<1> QED BY <1>1, BooksKept, EditsInit, EditsNext, PTL DEF Spec

-----------------------------------------------------------------------------
(* Calls.                                                                  *)

\* Where the call of a step is in the log of actions and not yet on record.
BeforeRecord == {"tool", "editing", "noting", "recording"}

Unrecorded == {t \in Threads : pc[t] \in BeforeRecord}

Logged == {i \in DOMAIN log : log[i] = "tool_call"}

\* A step knows what it has to look up, and, unless a reset came between, what
\* it logs is for the episode in place.
CallTypes ==
  /\ log \in Seq({"tool_call", "submit"})
  /\ tool_calls \in Seq([tool : Tools \cup {"submit", "none"}, flaw : Flaws \cup {"none"}])
  /\ began \in [Threads -> Nat]
  /\ \A t \in Threads : pc[t] \in {"logging"} \cup BeforeRecord /\ ~mixed => began[t] = runner
  /\ unrecorded \in Nat

\* EveryTurnOnRecord speaks of quiet states; in between, the record lags
\* behind the log by the steps on their way to it.
RecordFollowsLog ==
  ~mixed => Len(tool_calls) + unrecorded + Cardinality(Unrecorded) = Cardinality(Logged)

CallsInv == CallTypes /\ RecordFollowsLog

LEMMA UnrecordedFinite == IsFiniteSet(Unrecorded) /\ Cardinality(Unrecorded) \in Nat
BY SharedAssumption, FS_Subset, FS_CardinalityType DEF Unrecorded

LEMMA LoggedFinite ==
  ASSUME CallTypes
  PROVE  IsFiniteSet(Logged) /\ Cardinality(Logged) \in Nat
<1>1. Logged \subseteq 1..Len(log) /\ Len(log) \in Nat
  BY DEF CallTypes, Logged
<1>2. IsFiniteSet(1..Len(log))
  BY <1>1, FS_Interval
<1> QED BY <1>1, <1>2, FS_Subset, FS_CardinalityType

LEMMA CallsInit == Init => CallsInv
<1> SUFFICES ASSUME Init PROVE CallsInv
  OBVIOUS
<1>1. CallTypes
  BY DEF Init, CallTypes, BeforeRecord
<1>2. Unrecorded = {} /\ Logged = {} /\ Len(tool_calls) = 0 /\ unrecorded = 0
  BY DEF Init, Unrecorded, BeforeRecord, Logged
<1> QED BY <1>1, <1>2, FS_EmptySet DEF CallsInv, RecordFollowsLog

\* Moves that cross neither the entry in the log nor the one on record.
LEMMA RecordUndisturbed ==
  ASSUME CallsInv, pc \in [Threads -> Labels], NEW t \in Threads, NEW label,
         pc' = [pc EXCEPT ![t] = label], label # "logging",
         pc[t] \in BeforeRecord <=> label \in BeforeRecord,
         \/ began' = began
         \/ began' = [began EXCEPT ![t] = 0] /\ label \notin BeforeRecord,
         UNCHANGED <<log, tool_calls, mixed, unrecorded, runner>>
  PROVE  CallsInv'
<1>1. Unrecorded' = Unrecorded /\ Logged' = Logged
  BY DEF Unrecorded, Logged
<1>2. ASSUME NEW u \in Threads, pc'[u] \in {"logging"} \cup BeforeRecord
      PROVE  pc[u] \in {"logging"} \cup BeforeRecord /\ began'[u] = began[u]
  <2>1. CASE u = t
    BY <1>2, <2>1 DEF CallsInv, CallTypes
  <2>2. CASE u # t
    BY <1>2, <2>2 DEF CallsInv, CallTypes
  <2> QED BY <2>1, <2>2
<1>3. began' \in [Threads -> Nat]
  BY DEF CallsInv, CallTypes
<1> QED BY <1>1, <1>2, <1>3 DEF CallsInv, CallTypes, RecordFollowsLog

\* A reset that no step is under way for begins with all of them empty.
LEMMA CallsReset ==
  ASSUME CallsInv, EditTypes, NEW t \in Threads,
         ResetArrives(t) \/ GenerateRaises(t) \/ Generates(t) \/ Resets(t)
  PROVE  CallsInv'
<1>p. pc \in [Threads -> Labels]
  BY DEF EditTypes
<1>1. CASE ResetArrives(t)
  BY <1>1, <1>p, RecordUndisturbed
     DEF ResetArrives, MayArrive, Goto, records, raised, objects, BeforeRecord
<1>2. CASE GenerateRaises(t)
  BY <1>2, <1>p, RecordUndisturbed
     DEF GenerateRaises, Replies, DropsEpisode, records, raised, objects, BeforeRecord
<1>3. CASE Generates(t)
  BY <1>3, <1>p, RecordUndisturbed DEF Generates, Goto, records, raised, BeforeRecord
<1>4. CASE Resets(t)
  <2>1. /\ log' = <<>> /\ tool_calls' = <<>> /\ began' = [began EXCEPT ![t] = 0]
        /\ pc' = [pc EXCEPT ![t] = "idle"] /\ unrecorded' = 0
        /\ ~mixed' => \A u \in Threads : ~InStep(u)
    BY <1>4 DEF Resets, Replies, DropsEpisode
  <2>2. CallTypes'
    <3>1. ASSUME NEW u \in Threads, pc'[u] \in {"logging"} \cup BeforeRecord PROVE mixed'
      <4>1. InStep(u)
        BY <1>p, <2>1, <3>1 DEF InStep, BeforeRecord
      <4> QED BY <2>1, <4>1
    <3> QED BY <2>1, <3>1 DEF CallsInv, CallTypes
  <2>3. ~mixed' => Unrecorded' = {}
    BY <1>p, <2>1 DEF InStep, Unrecorded, BeforeRecord
  <2>4. Logged' = {} /\ Len(tool_calls') = 0
    BY <2>1 DEF Logged
  <2>5. ~mixed' => Cardinality(Unrecorded') = 0
    BY ONLY <2>3, FS_EmptySet
  <2>6. Cardinality(Logged') = 0
    BY ONLY <2>4, FS_EmptySet
  <2> QED BY ONLY <2>1, <2>2, <2>4, <2>5, <2>6 DEF CallsInv, RecordFollowsLog
<1> QED BY <1>1, <1>2, <1>3, <1>4

LEMMA CallsArrive ==
  ASSUME CallsInv, EditTypes, NEW t \in Threads, StepArrives(t)
  PROVE  CallsInv'
<1>1. /\ pc \in [Threads -> Labels] /\ pc[t] = "idle" /\ runner \in Nat
      /\ pc' = [pc EXCEPT ![t] = "logging"]
      /\ began' = [began EXCEPT ![t] = runner]
      /\ UNCHANGED <<log, tool_calls, mixed, unrecorded, runner>>
  BY DEF StepArrives, MayStep, MayArrive, Goto, EditTypes, objects, raised
<1>2. Unrecorded' = Unrecorded /\ Logged' = Logged
  BY <1>1 DEF Unrecorded, Logged, BeforeRecord
<1>3. ASSUME NEW u \in Threads, pc'[u] \in {"logging"} \cup BeforeRecord, ~mixed
      PROVE  began'[u] = runner
  <2>1. CASE u = t
    BY <1>1, <2>1 DEF CallsInv, CallTypes
  <2>2. CASE u # t
    BY <1>1, <1>3, <2>2 DEF CallsInv, CallTypes
  <2> QED BY <2>1, <2>2
<1> QED BY <1>1, <1>2, <1>3 DEF CallsInv, CallTypes, RecordFollowsLog

\* A tool call enters the log and the steps on their way together.
LEMMA CallsLog ==
  ASSUME CallsInv, EditTypes, NEW t \in Threads, Logs(t)
  PROVE  CallsInv'
<1> DEFINE kind == IF request[t].tool = "submit" THEN "submit" ELSE "tool_call"
<1>1. /\ pc \in [Threads -> Labels] /\ pc[t] = "logging"
      /\ pc' = [pc EXCEPT ![t] = IF request[t].tool = "submit" THEN "finalizing" ELSE "tool"]
      /\ UNCHANGED <<tool_calls, mixed, unrecorded, runner, began>>
  BY DEF Logs, Goto, EditTypes, objects, raised
<1>2. \/ log' = Append(log, kind)
      \/ mixed /\ log' = log
  BY <1>1 DEF Logs, CallsInv, CallTypes
<1>3. CallTypes'
  <2>1. log' \in Seq({"tool_call", "submit"})
    <3>1. log \in Seq({"tool_call", "submit"})
      BY DEF CallsInv, CallTypes
    <3> QED BY <1>2, <3>1
  <2>2. ASSUME NEW u \in Threads, pc'[u] \in {"logging"} \cup BeforeRecord
        PROVE  pc[u] \in {"logging"} \cup BeforeRecord
    BY <1>1, <2>2
  <2> QED BY <1>1, <2>1, <2>2 DEF CallsInv, CallTypes
<1>4. ASSUME ~mixed
      PROVE  Len(tool_calls) + unrecorded + Cardinality(Unrecorded') = Cardinality(Logged')
  <2>1. /\ log \in Seq({"tool_call", "submit"}) /\ Len(log) \in Nat
        /\ DOMAIN log = 1..Len(log) /\ DOMAIN log' = 1..(Len(log) + 1)
        /\ \A i \in DOMAIN log : log'[i] = log[i]
        /\ log'[Len(log) + 1] = kind
    <3>1. log' = Append(log, kind) /\ log \in Seq({"tool_call", "submit"})
      BY <1>2, <1>4 DEF CallsInv, CallTypes
    <3> HIDE DEF kind
    <3> QED BY <3>1
  <2>2. CASE request[t].tool = "submit"
    <3>1. Logged' = Logged
      BY <2>1, <2>2 DEF Logged
    <3>2. Unrecorded' = Unrecorded
      BY <1>1, <2>2 DEF Unrecorded, BeforeRecord
    <3> QED BY <1>4, <3>1, <3>2 DEF CallsInv, RecordFollowsLog
  <2>3. CASE request[t].tool # "submit"
    <3>1. Logged' = Logged \cup {Len(log) + 1} /\ Len(log) + 1 \notin Logged
      BY <2>1, <2>3 DEF Logged
    <3>2. Unrecorded' = Unrecorded \cup {t} /\ t \notin Unrecorded
      BY <1>1, <2>3 DEF Unrecorded, BeforeRecord
    <3>3. Cardinality(Logged') = Cardinality(Logged) + 1 /\ Cardinality(Logged) \in Nat
      BY <3>1, LoggedFinite, FS_AddElement DEF CallsInv
    <3>4. Cardinality(Unrecorded') = Cardinality(Unrecorded) + 1
      BY <3>2, UnrecordedFinite, FS_AddElement
    <3>5. Len(tool_calls) \in Nat /\ unrecorded \in Nat
      BY DEF CallsInv, CallTypes
    <3> QED BY <1>4, <3>3, <3>4, <3>5, UnrecordedFinite DEF CallsInv, RecordFollowsLog
  <2> QED BY <2>2, <2>3
<1> QED BY <1>1, <1>3, <1>4 DEF CallsInv, RecordFollowsLog

\* One that leaves the steps on their way to the record.
LEMMA OneLess ==
  ASSUME pc \in [Threads -> Labels], NEW t \in Threads, pc[t] \in BeforeRecord,
         NEW label, label \notin BeforeRecord, pc' = [pc EXCEPT ![t] = label]
  PROVE  Cardinality(Unrecorded') = Cardinality(Unrecorded) - 1
<1>1. Unrecorded' = Unrecorded \ {t} /\ t \in Unrecorded
  BY DEF Unrecorded
<1> QED BY <1>1, UnrecordedFinite, FS_RemoveElement

\* A call leaves the steps on their way when it comes on record ...
LEMMA CallsRecord ==
  ASSUME CallsInv, EditTypes, NEW t \in Threads, Records(t)
  PROVE  CallsInv'
<1>1. /\ pc \in [Threads -> Labels] /\ pc[t] = "recording"
      /\ pc' = [pc EXCEPT ![t] = "follow_up"]
      /\ tool_calls' = Append(tool_calls, [tool |-> request[t].tool, flaw |-> request[t].flaw])
      /\ began' = [began EXCEPT ![t] = 0]
      /\ UNCHANGED <<log, mixed, unrecorded, runner>>
  BY DEF Records, Recorded, Goto, DropsEpisode, EditTypes, objects, raised
<1>2. request[t].tool \in Tools \cup {"submit", "none"} /\ request[t].flaw \in Flaws \cup {"none"}
  <2>1. request[t] \in StepRequests \cup {Idle}
    BY DEF EditTypes
  <2> QED BY <2>1 DEF StepRequests, SoundRequests, FlawedRequests, Idle
<1>3. /\ tool_calls' \in Seq([tool : Tools \cup {"submit", "none"}, flaw : Flaws \cup {"none"}])
      /\ Len(tool_calls') = Len(tool_calls) + 1 /\ Len(tool_calls) \in Nat
  <2>1. [tool |-> request[t].tool, flaw |-> request[t].flaw]
          \in [tool : Tools \cup {"submit", "none"}, flaw : Flaws \cup {"none"}]
    BY <1>2
  <2> QED BY <1>1, <2>1 DEF CallsInv, CallTypes
<1>4. ASSUME NEW u \in Threads, pc'[u] \in {"logging"} \cup BeforeRecord
      PROVE  pc[u] \in {"logging"} \cup BeforeRecord /\ began'[u] = began[u]
  BY <1>1, <1>4 DEF BeforeRecord, CallsInv, CallTypes
<1>5. CallTypes'
  BY <1>1, <1>3, <1>4 DEF CallsInv, CallTypes
<1>6. Cardinality(Unrecorded') = Cardinality(Unrecorded) - 1
  BY <1>1, OneLess DEF BeforeRecord
<1>7. Logged' = Logged /\ unrecorded \in Nat
  BY <1>1 DEF Logged, CallsInv, CallTypes
<1> QED BY <1>1, <1>3, <1>5, <1>6, <1>7, UnrecordedFinite DEF CallsInv, RecordFollowsLog

\* ... or when it raises.
LEMMA CallsRaise ==
  ASSUME CallsInv, EditTypes, NEW t \in Threads, ToolCallRaises(t)
  PROVE  CallsInv'
<1>1. /\ pc \in [Threads -> Labels] /\ pc[t] \in BeforeRecord
      /\ pc' = [pc EXCEPT ![t] = "idle"] /\ began' = [began EXCEPT ![t] = 0]
      /\ unrecorded' = unrecorded + 1
      /\ UNCHANGED <<log, tool_calls, mixed, runner>>
  BY DEF ToolCallRaises, LaunchesTool, Raises, Replies, DropsEpisode, EditTypes, BeforeRecord,
         objects, records
<1>2. ASSUME NEW u \in Threads, pc'[u] \in {"logging"} \cup BeforeRecord
      PROVE  pc[u] \in {"logging"} \cup BeforeRecord /\ began'[u] = began[u]
  BY <1>1, <1>2 DEF BeforeRecord, CallsInv, CallTypes
<1>3. CallTypes'
  BY <1>1, <1>2 DEF CallsInv, CallTypes
<1>4. Cardinality(Unrecorded') = Cardinality(Unrecorded) - 1
  BY <1>1, OneLess DEF BeforeRecord
<1>5. Logged' = Logged /\ unrecorded \in Nat /\ Len(tool_calls) \in Nat
  BY <1>1 DEF Logged, CallsInv, CallTypes
<1> QED BY <1>1, <1>3, <1>4, <1>5, UnrecordedFinite DEF CallsInv, RecordFollowsLog

LEMMA CallsElsewhere ==
  ASSUME CallsInv, EditTypes, NEW t \in Threads,
         \/ StepRefused(t) \/ ToolReturns(t) \/ EditReads(t) \/ EditWrites(t) \/ NotesLine(t)
         \/ StepRaises(t)
         \/ LooksUp(t) \/ FindsTrigger(t) \/ Decides(t) \/ Consumes(t) \/ MessageIsGone(t)
         \/ Speaks(t) \/ NoFollowup(t) \/ EndsTurn(t) \/ Observes(t)
         \/ Launches(t) \/ Grades(t) \/ Reports(t)
  PROVE  CallsInv'
<1>p. pc \in [Threads -> Labels]
  BY DEF EditTypes
<1> USE <1>p DEF BeforeRecord
<1>1. CASE StepRefused(t)
  BY <1>1 DEF StepRefused, locals, records, objects, raised, CallsInv, CallTypes, RecordFollowsLog,
              Unrecorded, Logged
<1>2. CASE ToolReturns(t)
  BY <1>2, RecordUndisturbed DEF ToolReturns, Goto, records, objects, raised
<1>3. CASE EditReads(t)
  BY <1>3, RecordUndisturbed DEF EditReads, Goto, records, objects, raised
<1>4. CASE EditWrites(t)
  BY <1>4, RecordUndisturbed DEF EditWrites, Goto, records, raised
<1>5. CASE NotesLine(t)
  BY <1>5, RecordUndisturbed DEF NotesLine, Goto, objects, raised
<1>r. CASE Replies(t) /\ pc[t] \notin BeforeRecord
           /\ UNCHANGED <<log, tool_calls, mixed, unrecorded, runner>>
  BY <1>r, RecordUndisturbed DEF Replies, DropsEpisode
<1>6. CASE StepRaises(t)
  BY <1>6, <1>r DEF StepRaises, Raises, objects, records
<1>7. CASE MessageIsGone(t) \/ Observes(t) \/ Reports(t)
  BY <1>7, <1>r DEF MessageIsGone, Observes, Reports, objects, records, raised
<1>8. CASE LooksUp(t)
  <2>1. PICK label \in {"looking_up", "unprompted"} : pc' = [pc EXCEPT ![t] = label]
    BY <1>8 DEF LooksUp, Goto
  <2> QED BY <1>8, <2>1, RecordUndisturbed DEF LooksUp, records, objects, raised
<1>9. CASE FindsTrigger(t)
  BY <1>9, RecordUndisturbed DEF FindsTrigger, Goto, records, objects, raised
<1>10. CASE Decides(t)
  <2>1. PICK label \in {"consuming", "unprompted"} : pc' = [pc EXCEPT ![t] = label]
    BY <1>10 DEF Decides, Goto
  <2> QED BY <1>10, <2>1, RecordUndisturbed DEF Decides, records, objects, raised
<1>11. CASE Consumes(t)
  BY <1>11, RecordUndisturbed DEF Consumes, Goto, objects, raised
<1>12. CASE Speaks(t)
  BY <1>12, RecordUndisturbed DEF Speaks, Goto, objects, raised
<1>13. CASE NoFollowup(t) \/ EndsTurn(t)
  <2>1. PICK label \in {"finalizing", "replying"} : pc' = [pc EXCEPT ![t] = label]
    BY <1>13 DEF NoFollowup, EndsTurn, LooksAtLimit, Goto
  <2>2. /\ pc[t] \in {"unprompted", "ending"}
        /\ UNCHANGED <<began, log, tool_calls, mixed, unrecorded, runner>>
    BY <1>13 DEF NoFollowup, EndsTurn, records, objects, raised
  <2> QED BY <2>1, <2>2, RecordUndisturbed
<1>14. CASE Launches(t)
  BY <1>14, RecordUndisturbed DEF Launches, Goto, DropsEpisode, records, objects, raised
<1>15. CASE Grades(t)
  BY <1>15, RecordUndisturbed DEF Grades, Goto, objects, raised
<1> QED BY <1>1, <1>2, <1>3, <1>4, <1>5, <1>6, <1>7, <1>8, <1>9, <1>10, <1>11, <1>12, <1>13,
           <1>14, <1>15

LEMMA CallsNext == EditsInv /\ CallsInv /\ [Next]_vars => CallsInv'
<1> SUFFICES ASSUME EditTypes, CallsInv, [Next]_vars PROVE CallsInv'
  BY DEF EditsInv
<1>1. CASE Next
  <2>1. PICK t \in Threads : ResetArrives(t) \/ StepRefused(t) \/ StepArrives(t) \/ Serve(t)
    BY <1>1 DEF Next
  <2> QED BY <2>1, CallsReset, CallsArrive, CallsLog, CallsRecord, CallsRaise, CallsElsewhere DEF Serve
<1>2. CASE UNCHANGED vars
  BY <1>2 DEF vars, records, objects, locals, raised, CallsInv, CallTypes, RecordFollowsLog,
              Unrecorded, Logged
<1> QED BY <1>1, <1>2

\* Unless a reset came between, overlapping steps lose no call: when all are
\* answered, each tool call in the log of actions is on record for the graders,
\* but for those whose tool raised (environment.py:146 and 208).
THEOREM EveryTurnRecorded == Spec => []EveryTurnOnRecord
<1>1. CallsInv => EveryTurnOnRecord
  <2> SUFFICES ASSUME CallsInv, Quiet, ~mixed
               PROVE  Len(tool_calls) + unrecorded = Cardinality(Logged)
    BY DEF EveryTurnOnRecord, Logged
  <2>1. Unrecorded = {}
    BY DEF Quiet, Unrecorded, BeforeRecord
  <2>2. Len(tool_calls) \in Nat /\ unrecorded \in Nat
    BY DEF CallsInv, CallTypes
  <2> QED BY <2>1, <2>2, FS_EmptySet DEF CallsInv, RecordFollowsLog
<1> QED BY <1>1, BooksKept, EditsInit, EditsNext, CallsInit, CallsNext, PTL DEF Spec

-----------------------------------------------------------------------------
(* The promise, where a call ends before the next begins.                  *)

Resting == {"idle", "generating", "constructing"}

Alone(t) == \A u \in Threads : u # t => pc[u] = "idle"

\* What one call at a time keeps that overlapping calls do not: a step is one
\* of an episode that is running, a message it looks for is there to consume,
\* and a message consumed is heard before the next one is looked for.
Serial ==
  /\ \A t, u \in Threads : pc[t] # "idle" /\ pc[u] # "idle" => t = u
  /\ \A t \in Threads : InStep(t) => runner # 0 /\ turn \in 1..MAX_TURNS
  /\ \A t \in Threads : InStep(t) => (submitted <=> pc[t] = "reporting")
  /\ \A t \in Threads : pc[t] \in Asking => next_followup_idx < Messages
  /\ \A t \in Threads : pc[t] \in {"speaking", "ending"} => Len(heard) <= next_followup_idx
  /\ \A t \in Threads : pc[t] = "replying" =>
       turn < MAX_TURNS /\ (last_user_message = 0 \/ Len(heard) <= next_followup_idx)
  /\ heard \in Seq(Nat) /\ Len(heard) <= next_followup_idx + 1
  /\ next_followup_idx \in 0..Messages /\ last_user_message \in Nat
  /\ ~lapsed

SerialInv == server \in {"http", "websocket"} /\ (server = "websocket" => Serial)

\* How many are in a step, when all but one thread are idle.
LEMMA StepsOfOne ==
  ASSUME NEW p \in [Threads -> Labels], NEW t \in Threads,
         \A u \in Threads : u # t => p[u] = "idle"
  PROVE  Cardinality({u \in Threads : p[u] \notin Resting}) = IF p[t] \in Resting THEN 0 ELSE 1
<1> DEFINE steps == {u \in Threads : p[u] \notin Resting}
<1>1. CASE p[t] \in Resting
  <2>1. steps = {}
    BY <1>1 DEF Resting
  <2> QED BY <1>1, <2>1, FS_EmptySet
<1>2. CASE p[t] \notin Resting
  <2>1. steps = {t}
    BY <1>2 DEF Resting
  <2> QED BY <1>2, <2>1, FS_Singleton
<1> QED BY <1>1, <1>2

LEMMA ServesWhoActs ==
  ASSUME NEW t \in Threads, Serve(t)
  PROVE  pc[t] # "idle" /\ server' = server
BY DEF Serve, GenerateRaises, Generates, Resets, Logs, ToolReturns, EditReads, EditWrites, NotesLine,
       Records, ToolCallRaises, LaunchesTool, LooksUp, FindsTrigger, Decides, Consumes, MessageIsGone,
       Speaks, NoFollowup, EndsTurn, Observes, Launches, Grades, Reports, StepRaises, where

LEMMA ServerStays ==
  ASSUME NEW t \in Threads, ResetArrives(t) \/ StepRefused(t) \/ StepArrives(t) \/ Serve(t)
  PROVE  server' = server
BY ServesWhoActs DEF ResetArrives, StepRefused, StepArrives, where

\* Whoever acts is alone.
LEMMA ActsAlone ==
  ASSUME Serial, server = "websocket", pc \in [Threads -> Labels], NEW t \in Threads,
         ResetArrives(t) \/ StepRefused(t) \/ StepArrives(t) \/ Serve(t)
  PROVE  Alone(t)
<1>1. CASE ResetArrives(t) \/ StepRefused(t) \/ StepArrives(t)
  <2>1. MayArrive(t)
    BY <1>1 DEF ResetArrives, StepRefused, StepArrives, MayStep
  <2> QED BY <2>1 DEF MayArrive, Quiet, Alone
<1>2. CASE Serve(t)
  BY <1>2, ServesWhoActs DEF Serial, Alone
<1> QED BY <1>1, <1>2

\* What is to be seen of the one thread that moved.
LEMMA SerialAt ==
  ASSUME pc \in [Threads -> Labels], NEW t \in Threads, Alone(t), NEW label,
         pc' = [pc EXCEPT ![t] = label],
         label \notin Resting => runner' # 0 /\ turn' \in 1..MAX_TURNS,
         label \notin Resting => (submitted' <=> label = "reporting"),
         label \in Asking => next_followup_idx' < Messages,
         label \in {"speaking", "ending"} => Len(heard') <= next_followup_idx',
         label = "replying" =>
           turn' < MAX_TURNS /\ (last_user_message' = 0 \/ Len(heard') <= next_followup_idx'),
         heard' \in Seq(Nat), Len(heard') <= next_followup_idx' + 1,
         next_followup_idx' \in 0..Messages, last_user_message' \in Nat, ~lapsed'
  PROVE  Serial'
<1>1. pc'[t] = label /\ \A u \in Threads : u # t => pc'[u] = "idle"
  BY DEF Alone
<1> QED BY <1>1 DEF Serial, InStep, Resting, Asking

\* A move within a call that changes nothing the client or the limit sees.
LEMMA SerialWithin ==
  ASSUME Serial, pc \in [Threads -> Labels], NEW t \in Threads, Alone(t), NEW label,
         pc' = [pc EXCEPT ![t] = label],
         \/ label \in Resting
         \/ pc[t] \notin Resting \cup {"reporting"} /\ label # "reporting",
         label \notin {"speaking", "ending", "replying"},
         label \in Asking => next_followup_idx < Messages,
         UNCHANGED <<submitted, runner, turn, heard, next_followup_idx, last_user_message, lapsed>>
  PROVE  Serial'
<1>1. label \notin Resting => runner # 0 /\ turn \in 1..MAX_TURNS /\ ~submitted
  BY DEF Serial, InStep, Resting
<1>2. /\ heard \in Seq(Nat) /\ Len(heard) <= next_followup_idx + 1
      /\ next_followup_idx \in 0..Messages /\ last_user_message \in Nat /\ ~lapsed
  BY DEF Serial
<1> QED BY <1>1, <1>2, SerialAt

LEMMA SerialInit == Init => SerialInv
<1> SUFFICES ASSUME Init PROVE Serial
  BY SharedAssumption DEF SerialInv, Init
<1> QED BY SharedAssumption DEF Init, Serial, InStep, Asking

\* Someone who looks at the limit.
LEMMA SerialAtLimit ==
  ASSUME Serial, pc \in [Threads -> Labels], turn \in Nat, NEW t \in Threads, Alone(t),
         pc[t] \in {"unprompted", "ending"}, LooksAtLimit(t),
         last_user_message' = 0 \/ Len(heard) <= next_followup_idx, last_user_message' \in Nat,
         UNCHANGED <<submitted, runner, turn, heard, next_followup_idx, lapsed>>
  PROVE  Serial'
<1>1. PICK label \in {"finalizing", "replying"} :
        pc' = [pc EXCEPT ![t] = label] /\ (label = "replying" => turn < MAX_TURNS)
  <2>1. CASE LimitReached
    BY <2>1 DEF LooksAtLimit, Goto
  <2>2. CASE ~LimitReached
    <3>1. turn < MAX_TURNS
      BY <2>2, SharedAssumption DEF LimitReached
    <3> QED BY <2>2, <3>1 DEF LooksAtLimit, Goto
  <2> QED BY <2>1, <2>2
<1>2. ~submitted /\ runner # 0 /\ turn \in 1..MAX_TURNS
  BY DEF Serial, InStep
<1>3. /\ heard \in Seq(Nat) /\ Len(heard) <= next_followup_idx + 1
      /\ next_followup_idx \in 0..Messages /\ ~lapsed
  BY DEF Serial
<1> QED BY <1>1, <1>2, <1>3, SerialAt DEF Asking

LEMMA SerialReset ==
  ASSUME Serial, server = "websocket", EditsInv, NEW t \in Threads, Alone(t),
         ResetArrives(t) \/ GenerateRaises(t) \/ Generates(t) \/ Resets(t)
  PROVE  Serial'
<1>p. pc \in [Threads -> Labels]
  BY DEF EditsInv, EditTypes
<1>1. CASE ResetArrives(t)
  BY <1>1, <1>p, SerialWithin DEF ResetArrives, Goto, records, objects, raised, Resting, Asking
<1>2. CASE GenerateRaises(t)
  BY <1>2 DEF GenerateRaises
<1>3. CASE Generates(t)
  BY <1>3, <1>p, SerialWithin DEF Generates, Goto, records, raised, Resting, Asking
<1>4. CASE Resets(t)
  <2>1. /\ pc' = [pc EXCEPT ![t] = "idle"] /\ heard' = <<0>> /\ next_followup_idx' = 0
        /\ last_user_message' = 0 /\ ~lapsed'
    BY <1>4 DEF Resets, Replies
  <2>2. heard' \in Seq(Nat) /\ Len(heard') = 1
    BY <2>1
  <2>3. /\ Len(heard') <= next_followup_idx' + 1
        /\ next_followup_idx' \in 0..Messages /\ last_user_message' \in Nat
    BY <2>1, <2>2, SharedAssumption
  <2>4. "idle" \in Resting
    BY DEF Resting
  <2> QED BY <1>p, <2>1, <2>2, <2>3, <2>4, SerialAt DEF Asking
<1> QED BY <1>1, <1>2, <1>3, <1>4

LEMMA SerialCall ==
  ASSUME Serial, server = "websocket", LimitIsKept, BooksInv, EditsInv, NEW t \in Threads, Alone(t),
         \/ StepRefused(t) \/ StepArrives(t) \/ Logs(t) \/ ToolReturns(t) \/ EditReads(t)
         \/ EditWrites(t) \/ NotesLine(t) \/ Records(t) \/ ToolCallRaises(t) \/ StepRaises(t)
  PROVE  Serial'
<1> USE SharedAssumption
<1>p. /\ pc \in [Threads -> Labels] /\ turn \in Nat
      /\ heard \in Seq(Nat) /\ Len(heard) <= next_followup_idx + 1
      /\ next_followup_idx \in 0..Messages /\ last_user_message \in Nat /\ ~lapsed
  BY DEF EditsInv, EditTypes, Serial, BooksInv, Control
<1>1. CASE StepRefused(t)
  BY <1>1 DEF StepRefused, locals, records, objects, raised, Serial, InStep
<1>2. CASE StepArrives(t)
  <2>1. pc' = [pc EXCEPT ![t] = "logging"] /\ ~submitted /\ Quiet /\ runner # 0
    BY <1>2 DEF StepArrives, Goto, MayStep, MayArrive
  <2>2. turn' \in 1..MAX_TURNS
    <3>1. ~(turn >= MAX_TURNS)
      BY <1>p, <2>1 DEF LimitIsKept
    <3> QED BY <1>2, <1>p, <3>1 DEF StepArrives
  <2>3. UNCHANGED <<submitted, runner, heard, next_followup_idx, last_user_message, lapsed>>
    BY <1>2 DEF StepArrives, objects, raised
  <2> QED BY <1>p, <2>1, <2>2, <2>3, SerialAt DEF Asking
<1>3. CASE Logs(t)
  <2>1. PICK label \in {"finalizing", "tool"} : pc' = [pc EXCEPT ![t] = label]
    BY <1>3 DEF Logs, Goto
  <2> QED BY <1>3, <1>p, <2>1, SerialWithin DEF Logs, objects, raised, Resting, Asking
<1>4. CASE ToolReturns(t)
  BY <1>4, <1>p, SerialWithin DEF ToolReturns, Goto, records, objects, raised, Resting, Asking
<1>5. CASE EditReads(t)
  BY <1>5, <1>p, SerialWithin DEF EditReads, Goto, records, objects, raised, Resting, Asking
<1>6. CASE EditWrites(t)
  BY <1>6, <1>p, SerialWithin DEF EditWrites, Goto, records, raised, Resting, Asking
<1>7. CASE NotesLine(t)
  BY <1>7, <1>p, SerialWithin DEF NotesLine, Goto, objects, raised, Resting, Asking
<1>8. CASE Records(t)
  BY <1>8, <1>p, SerialWithin DEF Records, Goto, objects, raised, Resting, Asking
<1>9. CASE ToolCallRaises(t) \/ StepRaises(t)
  BY <1>9 DEF ToolCallRaises, StepRaises, Raises
<1> QED BY <1>1, <1>2, <1>3, <1>4, <1>5, <1>6, <1>7, <1>8, <1>9

LEMMA SerialFollowup ==
  ASSUME Serial, server = "websocket", BooksInv, EditsInv, NEW t \in Threads, Alone(t),
         \/ LooksUp(t) \/ FindsTrigger(t) \/ Decides(t) \/ Consumes(t) \/ MessageIsGone(t)
         \/ Speaks(t) \/ NoFollowup(t) \/ EndsTurn(t) \/ Observes(t)
  PROVE  Serial'
<1> USE SharedAssumption
<1>p. /\ pc \in [Threads -> Labels] /\ turn \in Nat /\ holds \in [Threads -> Nat]
      /\ heard \in Seq(Nat) /\ Len(heard) \in Nat /\ Len(heard) <= next_followup_idx + 1
      /\ next_followup_idx \in 0..Messages /\ last_user_message \in Nat /\ ~lapsed
  BY DEF EditsInv, EditTypes, Serial, BooksInv, Control
<1>r. pc[t] \notin Resting \cup {"reporting"} => ~submitted /\ runner # 0 /\ turn \in 1..MAX_TURNS
  BY DEF Serial, InStep, Resting
<1>1. CASE LooksUp(t)
  <2>1. PICK label \in {"looking_up", "unprompted"} :
          /\ pc' = [pc EXCEPT ![t] = label]
          /\ label = "looking_up" => next_followup_idx < Messages
    BY <1>1 DEF LooksUp, Goto
  <2> QED BY <1>1, <1>p, <2>1, SerialWithin DEF LooksUp, records, objects, raised, Resting, Asking
<1>2. CASE FindsTrigger(t)
  BY <1>2, <1>p, SerialWithin DEF FindsTrigger, Goto, records, objects, raised, Resting, Asking
<1>3. CASE Decides(t)
  <2>1. PICK label \in {"consuming", "unprompted"} : pc' = [pc EXCEPT ![t] = label]
    BY <1>3 DEF Decides, Goto
  <2>2. pc[t] = "deciding" /\ next_followup_idx < Messages
    BY <1>3 DEF Decides, Serial, Asking
  <2> QED BY <1>3, <1>p, <2>1, <2>2, SerialWithin DEF Decides, records, objects, raised, Resting
<1>4. CASE Consumes(t)
  <2>1. /\ pc[t] = "consuming" /\ next_followup_idx < Messages
        /\ next_followup_idx' = next_followup_idx + 1
        /\ pc' = [pc EXCEPT ![t] = "speaking"]
        /\ UNCHANGED <<submitted, runner, turn, heard, last_user_message, lapsed>>
    BY <1>4 DEF Consumes, ConsumedIndex, Goto, objects, raised
  <2>2. /\ next_followup_idx' \in 0..Messages
        /\ Len(heard') <= next_followup_idx' /\ Len(heard') <= next_followup_idx' + 1
    BY <1>p, <2>1
  <2> QED BY <1>p, <1>r, <2>1, <2>2, SerialAt DEF Resting, Asking
<1>5. CASE MessageIsGone(t)
  BY <1>5, <1>p DEF MessageIsGone, Serial, Asking
<1>6. CASE Speaks(t)
  <2>1. /\ pc[t] = "speaking" /\ last_user_message' = holds[t]
        /\ pc' = [pc EXCEPT ![t] = "ending"]
        /\ UNCHANGED <<submitted, runner, turn, heard, next_followup_idx, lapsed>>
    BY <1>6 DEF Speaks, Goto, objects, raised
  <2>2. Len(heard) <= next_followup_idx
    BY <2>1 DEF Serial
  <2> QED BY <1>p, <1>r, <2>1, <2>2, SerialAt DEF Resting, Asking
<1>7. CASE NoFollowup(t)
  BY <1>7, <1>p, SerialAtLimit DEF NoFollowup, objects, raised
<1>8. CASE EndsTurn(t)
  <2>1. pc[t] = "ending" /\ Len(heard) <= next_followup_idx
    BY <1>8 DEF EndsTurn, Serial
  <2> QED BY <1>8, <1>p, <2>1, SerialAtLimit DEF EndsTurn, records, objects, raised
<1>9. CASE Observes(t)
  <2>1. /\ pc[t] = "replying" /\ pc' = [pc EXCEPT ![t] = "idle"]
        /\ heard' = IF last_user_message = 0 THEN heard ELSE Append(heard, last_user_message)
        /\ UNCHANGED <<submitted, runner, turn, next_followup_idx, last_user_message, lapsed>>
    BY <1>9 DEF Observes, Replies, objects, records, raised
  <2>2. heard' \in Seq(Nat) /\ Len(heard') <= next_followup_idx + 1
    <3>1. CASE last_user_message = 0
      BY <1>p, <2>1, <3>1
    <3>2. CASE last_user_message # 0
      <4>1. Len(heard) <= next_followup_idx
        BY <2>1, <3>2 DEF Serial
      <4>2. Append(heard, last_user_message) \in Seq(Nat)
            /\ Len(Append(heard, last_user_message)) = Len(heard) + 1
        BY <1>p
      <4> QED BY <1>p, <2>1, <3>2, <4>1, <4>2
    <3> QED BY <3>1, <3>2
  <2> QED BY <1>p, <2>1, <2>2, SerialAt DEF Resting, Asking
<1> QED BY <1>1, <1>2, <1>3, <1>4, <1>5, <1>6, <1>7, <1>8, <1>9

LEMMA SerialFinal ==
  ASSUME Serial, EditsInv, NEW t \in Threads, Alone(t), Launches(t) \/ Grades(t) \/ Reports(t)
  PROVE  Serial'
<1>p. /\ pc \in [Threads -> Labels]
      /\ heard \in Seq(Nat) /\ Len(heard) <= next_followup_idx + 1
      /\ next_followup_idx \in 0..Messages /\ last_user_message \in Nat /\ ~lapsed
  BY DEF EditsInv, EditTypes, Serial
<1>1. CASE Launches(t)
  BY <1>1, <1>p, SerialWithin DEF Launches, Goto, records, objects, raised, Resting, Asking
<1>2. CASE Grades(t)
  <2>1. /\ pc[t] = "grading" /\ pc' = [pc EXCEPT ![t] = "reporting"] /\ submitted' = TRUE
        /\ UNCHANGED <<runner, turn, heard, next_followup_idx, last_user_message, lapsed>>
    BY <1>2 DEF Grades, Goto, objects, raised
  <2>2. runner # 0 /\ turn \in 1..MAX_TURNS
    BY <2>1 DEF Serial, InStep
  <2> QED BY <1>p, <2>1, <2>2, SerialAt DEF Asking
<1>3. CASE Reports(t)
  BY <1>3, <1>p, SerialWithin DEF Reports, Replies, records, objects, raised, Resting, Asking
<1> QED BY <1>1, <1>2, <1>3

LEMMA SerialNext == BooksInv /\ EditsInv /\ SerialInv /\ [Next]_vars => SerialInv'
<1> SUFFICES ASSUME BooksInv, EditsInv, SerialInv, [Next]_vars PROVE SerialInv'
  OBVIOUS
<1>1. LimitIsKept
  BY DEF BooksInv, Control, LimitWillBeKept, WillEnd, OnTheWay, Asking, LimitIsKept, Quiet
<1>2. CASE Next
  <2>1. PICK t \in Threads : ResetArrives(t) \/ StepRefused(t) \/ StepArrives(t) \/ Serve(t)
    BY <1>2 DEF Next
  <2>2. server' = server
    BY <2>1, ServerStays
  <2>3. ASSUME server = "websocket" PROVE Serial'
    <3>1. Serial /\ pc \in [Threads -> Labels]
      BY <2>3 DEF SerialInv, EditsInv, EditTypes
    <3>2. Alone(t)
      BY <2>1, <2>3, <3>1, ActsAlone
    <3> QED BY <1>1, <2>1, <2>3, <3>1, <3>2, SerialReset, SerialCall, SerialFollowup, SerialFinal
         DEF Serve
  <2> QED BY <2>2, <2>3 DEF SerialInv
<1>3. CASE UNCHANGED vars
  BY <1>3 DEF vars, where, records, objects, locals, raised, SerialInv, Serial, InStep
<1> QED BY <1>2, <1>3

Underway == Cardinality({u \in Threads : InStep(u)})

\* What a move does not show: the turn counts when the reply is made.
LEMMA HiddenMove ==
  ASSUME server = "websocket", server' = "websocket",
         UNCHANGED <<runner, heard, updates>>,
         (submitted /\ ~Reporting)' <=> (submitted /\ ~Reporting),
         turn' - Underway' = turn - Underway
  PROVE  UNCHANGED Protocol!pvars
BY DEF Protocol!pvars, Underway

LEMMA UnderwayIs ==
  ASSUME pc \in [Threads -> Labels], pc' \in [Threads -> Labels], NEW t \in Threads, Alone(t),
         NEW label, pc' = [pc EXCEPT ![t] = label]
  PROVE  /\ Underway = IF pc[t] \in Resting THEN 0 ELSE 1
         /\ Underway' = IF label \in Resting THEN 0 ELSE 1
         /\ Reporting <=> pc[t] = "reporting"
         /\ Reporting' <=> label = "reporting"
<1>1. /\ Underway = Cardinality({u \in Threads : pc[u] \notin Resting})
      /\ Underway' = Cardinality({u \in Threads : pc'[u] \notin Resting})
  BY DEF Underway, InStep, Resting
<1>2. pc'[t] = label /\ (\A u \in Threads : u # t => pc[u] = "idle" /\ pc'[u] = "idle")
  BY DEF Alone
<1>3. (Reporting <=> pc[t] = "reporting") /\ (Reporting' <=> label = "reporting")
  BY <1>2 DEF Reporting
<1> QED BY <1>1, <1>2, <1>3, StepsOfOne

\* A move from one place of a step to another, or of a reset to another.
LEMMA MovesWithin ==
  ASSUME server = "websocket", server' = "websocket", pc \in [Threads -> Labels],
         pc' \in [Threads -> Labels], NEW t \in Threads, Alone(t), pc[t] # "reporting",
         NEW label, pc' = [pc EXCEPT ![t] = label], label # "reporting",
         pc[t] \in Resting <=> label \in Resting,
         UNCHANGED <<runner, submitted, heard, updates, turn>>
  PROVE  [Protocol!Next]_(Protocol!pvars)
<1>1. Underway' = Underway /\ ~Reporting /\ ~Reporting'
  BY UnderwayIs
<1> QED BY <1>1, HiddenMove

LEMMA ResetIsPromised ==
  ASSUME server = "websocket", server' = "websocket", EditsInv, EditsInv',
         NEW t \in Threads, Alone(t),
         ResetArrives(t) \/ GenerateRaises(t) \/ Generates(t) \/ Resets(t)
  PROVE  [Protocol!Next]_(Protocol!pvars)
<1>p. pc \in [Threads -> Labels] /\ pc' \in [Threads -> Labels]
  BY DEF EditsInv, EditTypes
<1>1. CASE ResetArrives(t)
  BY <1>1, <1>p, MovesWithin DEF ResetArrives, MayArrive, Goto, records, objects, Resting
<1>2. CASE GenerateRaises(t)
  BY <1>2 DEF GenerateRaises
<1>3. CASE Generates(t)
  BY <1>3, <1>p, MovesWithin DEF Generates, Goto, records, Resting
<1>4. CASE Resets(t)
  <2>1. /\ pc' = [pc EXCEPT ![t] = "idle"] /\ heard' = <<0>> /\ turn' = 0
        /\ submitted' = FALSE /\ runner' = holds[t] /\ updates' = updates
    BY <1>4 DEF Resets, Replies
  <2>2. runner' # 0
    <3>1. holds[t] \in 1..resets
      BY <1>4 DEF Resets, EditsInv, NewIsUnknown, Constructing
    <3> QED BY <2>1, <3>1
  <2>3. Underway' = 0
    <3>1. "idle" \in Resting
      BY DEF Resting
    <3> QED BY <1>p, <2>1, <3>1, UnderwayIs
  <2>4. Len(heard') = 1 /\ turn' - Underway' = 0
    BY <2>1, <2>3
  <2>5. Protocol!Begin
    BY <2>1, <2>2, <2>4 DEF Protocol!Begin, Underway
  <2> QED BY <2>5 DEF Protocol!Next
<1> QED BY <1>1, <1>2, <1>3, <1>4

LEMMA CallIsPromised ==
  ASSUME server = "websocket", server' = "websocket", BooksInv, EditsInv, EditsInv',
         NEW t \in Threads, Alone(t),
         \/ StepRefused(t) \/ StepArrives(t) \/ Logs(t) \/ ToolReturns(t) \/ EditReads(t)
         \/ EditWrites(t) \/ NotesLine(t) \/ Records(t) \/ ToolCallRaises(t) \/ StepRaises(t)
  PROVE  [Protocol!Next]_(Protocol!pvars)
<1>p. pc \in [Threads -> Labels] /\ pc' \in [Threads -> Labels] /\ turn \in Nat
  BY DEF EditsInv, EditTypes, BooksInv, Control
<1>1. CASE StepRefused(t)
  <2>1. UNCHANGED <<server, runner, submitted, heard, updates, turn, pc>>
    BY <1>1 DEF StepRefused, locals, records, objects
  <2>2. Underway' = Underway /\ (Reporting' <=> Reporting)
    BY <2>1 DEF Underway, InStep, Reporting
  <2> QED BY <2>1, <2>2, HiddenMove
<1>2. CASE StepArrives(t)
  <2>1. /\ pc[t] = "idle" /\ turn' = turn + 1 /\ pc' = [pc EXCEPT ![t] = "logging"]
        /\ UNCHANGED <<submitted, runner, heard, updates>>
    BY <1>2 DEF StepArrives, Goto, MayStep, MayArrive, objects
  <2>2. Underway = 0 /\ Underway' = 1 /\ ~Reporting /\ ~Reporting'
    <3>1. pc[t] \in Resting /\ "logging" \notin Resting
      BY <2>1 DEF Resting
    <3>2. Underway = 0 /\ Underway' = 1
      BY <1>p, <2>1, <3>1, UnderwayIs
    <3>3. ~Reporting /\ ~Reporting'
      BY <1>p, <2>1 DEF Alone, Reporting
    <3> QED BY <3>2, <3>3
  <2>3. turn' - Underway' = turn - Underway
    BY <1>p, <2>1, <2>2
  <2> QED BY <2>1, <2>2, <2>3, HiddenMove
<1>3. CASE Logs(t)
  <2>1. PICK label \in {"tool", "finalizing"} : pc' = [pc EXCEPT ![t] = label]
    BY <1>3 DEF Logs, Goto
  <2> QED BY <1>3, <1>p, <2>1, MovesWithin DEF Logs, objects, Resting
<1>4. CASE ToolReturns(t)
  BY <1>4, <1>p, MovesWithin DEF ToolReturns, Goto, records, objects, Resting
<1>5. CASE EditReads(t)
  BY <1>5, <1>p, MovesWithin DEF EditReads, Goto, records, objects, Resting
<1>6. CASE EditWrites(t)
  BY <1>6, <1>p, MovesWithin DEF EditWrites, Goto, records, Resting
<1>7. CASE NotesLine(t)
  BY <1>7, <1>p, MovesWithin DEF NotesLine, Goto, objects, Resting
<1>8. CASE Records(t)
  BY <1>8, <1>p, MovesWithin DEF Records, Goto, objects, Resting
<1>9. CASE ToolCallRaises(t) \/ StepRaises(t)
  BY <1>9 DEF ToolCallRaises, StepRaises, Raises
<1> QED BY <1>1, <1>2, <1>3, <1>4, <1>5, <1>6, <1>7, <1>8, <1>9

LEMMA FollowupIsPromised ==
  ASSUME server = "websocket", server' = "websocket", Serial, Serial', BooksInv, EditsInv, EditsInv',
         NEW t \in Threads, Alone(t),
         \/ LooksUp(t) \/ FindsTrigger(t) \/ Decides(t) \/ Consumes(t) \/ MessageIsGone(t)
         \/ Speaks(t) \/ NoFollowup(t) \/ EndsTurn(t) \/ Observes(t)
  PROVE  [Protocol!Next]_(Protocol!pvars)
<1> USE SharedAssumption
<1>p. pc \in [Threads -> Labels] /\ pc' \in [Threads -> Labels] /\ turn \in Nat
  BY DEF EditsInv, EditTypes, BooksInv, Control
<1>1. CASE LooksUp(t)
  <2>1. PICK label \in {"looking_up", "unprompted"} : pc' = [pc EXCEPT ![t] = label]
    BY <1>1 DEF LooksUp, Goto
  <2> QED BY <1>1, <1>p, <2>1, MovesWithin DEF LooksUp, records, objects, Resting
<1>2. CASE FindsTrigger(t)
  BY <1>2, <1>p, MovesWithin DEF FindsTrigger, Goto, records, objects, Resting
<1>3. CASE Decides(t)
  <2>1. PICK label \in {"consuming", "unprompted"} : pc' = [pc EXCEPT ![t] = label]
    BY <1>3 DEF Decides, Goto
  <2> QED BY <1>3, <1>p, <2>1, MovesWithin DEF Decides, records, objects, Resting
<1>4. CASE Consumes(t)
  BY <1>4, <1>p, MovesWithin DEF Consumes, Goto, objects, Resting
<1>5. CASE MessageIsGone(t)
  BY <1>5 DEF MessageIsGone, Serial, Asking
<1>6. CASE Speaks(t)
  BY <1>6, <1>p, MovesWithin DEF Speaks, Goto, objects, Resting
<1>7. CASE NoFollowup(t) \/ EndsTurn(t)
  <2>1. PICK label \in {"finalizing", "replying"} : pc' = [pc EXCEPT ![t] = label]
    BY <1>7 DEF NoFollowup, EndsTurn, LooksAtLimit, Goto
  <2> QED BY <1>7, <1>p, <2>1, MovesWithin DEF NoFollowup, EndsTurn, records, objects, Resting
<1>8. CASE Observes(t)
  <2>1. /\ pc[t] = "replying" /\ pc' = [pc EXCEPT ![t] = "idle"]
        /\ heard' = IF last_user_message = 0 THEN heard ELSE Append(heard, last_user_message)
        /\ UNCHANGED <<submitted, runner, turn, updates>>
    BY <1>8 DEF Observes, Replies, objects, records
  <2>2. runner # 0 /\ ~submitted /\ turn < MAX_TURNS
    BY <2>1 DEF Serial, InStep
  <2>3. Underway = 1 /\ Underway' = 0
    <3>1. pc[t] \notin Resting /\ "idle" \in Resting
      BY <2>1 DEF Resting
    <3> QED BY <1>p, <2>1, <3>1, UnderwayIs
  <2>4. Len(heard') \in {Len(heard), Len(heard) + 1}
    <3>1. heard \in Seq(Nat) /\ last_user_message \in Nat
      BY DEF Serial
    <3> QED BY <2>1, <3>1
  <2>5. Len(heard') <= 4
    <3>1. /\ Len(heard') \in Nat /\ Len(heard') <= next_followup_idx' + 1
          /\ next_followup_idx' \in 0..Messages
      BY DEF Serial
    <3> QED BY <3>1
  <2> DEFINE was == turn - Underway
             is  == turn' - Underway'
  <2>6. was + 1 < MAX_TURNS /\ is = was + 1
    BY <1>p, <2>1, <2>2, <2>3
  <2> HIDE DEF was, is
  <2>7. Protocol!Act
    BY <2>1, <2>2, <2>4, <2>5, <2>6 DEF Protocol!Act, Underway, was, is
  <2> QED BY <2>7 DEF Protocol!Next
<1> QED BY <1>1, <1>2, <1>3, <1>4, <1>5, <1>6, <1>7, <1>8

LEMMA FinalIsPromised ==
  ASSUME server = "websocket", server' = "websocket", Serial, BooksInv, EditsInv, EditsInv',
         NEW t \in Threads, Alone(t), Launches(t) \/ Grades(t) \/ Reports(t)
  PROVE  [Protocol!Next]_(Protocol!pvars)
<1>p. /\ pc \in [Threads -> Labels] /\ pc' \in [Threads -> Labels] /\ turn \in Nat
      /\ MAX_TURNS \in Nat
  BY SharedAssumption DEF EditsInv, EditTypes, BooksInv, Control
<1>1. CASE Launches(t)
  BY <1>1, <1>p, MovesWithin DEF Launches, Goto, records, objects, Resting
<1>2. CASE Grades(t)
  <2>1. /\ pc[t] = "grading" /\ pc' = [pc EXCEPT ![t] = "reporting"]
        /\ UNCHANGED <<runner, heard, turn, updates>>
    BY <1>2 DEF Grades, Goto, objects
  <2>2. ~submitted
    BY <2>1 DEF Serial, InStep
  <2>3. Underway' = Underway /\ Reporting'
    BY <1>p, <2>1, UnderwayIs DEF Resting
  <2> QED BY <2>1, <2>2, <2>3, HiddenMove
<1>3. CASE Reports(t)
  <2>1. /\ pc[t] = "reporting" /\ pc' = [pc EXCEPT ![t] = "idle"]
        /\ updates' = updates + 1 /\ UNCHANGED <<runner, heard, turn, submitted>>
    BY <1>3 DEF Reports, Replies, objects, records
  <2>2. submitted /\ runner # 0 /\ turn \in 1..MAX_TURNS
    BY <2>1 DEF Serial, InStep
  <2>3. Underway = 1 /\ Underway' = 0 /\ Reporting /\ ~Reporting'
    <3>1. pc[t] \notin Resting /\ "idle" \in Resting
      BY <2>1 DEF Resting
    <3> QED BY <1>p, <2>1, <3>1, UnderwayIs
  <2> DEFINE was == turn - Underway
             is  == turn' - Underway'
  <2>4. was < MAX_TURNS /\ is = was + 1
    BY <1>p, <2>1, <2>2, <2>3
  <2> HIDE DEF was, is
  <2>5. Protocol!End
    BY <2>1, <2>2, <2>3, <2>4 DEF Protocol!End, Underway, was, is
  <2> QED BY <2>5 DEF Protocol!Next
<1> QED BY <1>1, <1>2, <1>3

\* Behind the websocket (app.py:115) the calls, split where other threads could
\* have come between, keep the promise of whole ones: each of their steps is
\* one of EpisodeProtocol or is not seen by the client, for any number of
\* threads, turns and messages.  Over HTTP nothing is promised.
THEOREM WebsocketKeepsPromise == Spec => Protocol!Init /\ [][Protocol!Next]_(Protocol!pvars)
<1>1. Init => Protocol!Init
  <2> SUFFICES ASSUME Init PROVE Protocol!Init
    OBVIOUS
  <2>1. {u \in Threads : InStep(u)} = {}
    BY DEF Init, InStep
  <2>2. turn - Cardinality({u \in Threads : InStep(u)}) = 0
    <3>1. turn - 0 = 0 /\ Cardinality({}) = 0
      BY FS_EmptySet DEF Init
    <3> QED BY <2>1, <3>1
  <2> QED BY <2>2 DEF Init, Protocol!Init
<1>2. /\ BooksInv /\ EditsInv /\ EditsInv' /\ SerialInv /\ SerialInv' /\ [Next]_vars
        => [Protocol!Next]_(Protocol!pvars)
  <2> SUFFICES ASSUME BooksInv, EditsInv, EditsInv', SerialInv, SerialInv', [Next]_vars
               PROVE  [Protocol!Next]_(Protocol!pvars)
    OBVIOUS
  <2>1. CASE UNCHANGED vars
    BY <2>1 DEF vars, where, records, objects, locals, Protocol!pvars, InStep, Reporting
  <2>2. CASE Next
    <3>1. PICK t \in Threads : ResetArrives(t) \/ StepRefused(t) \/ StepArrives(t) \/ Serve(t)
      BY <2>2 DEF Next
    <3>2. server' = server
      BY <3>1, ServerStays
    <3>3. CASE server = "http"
      BY <3>2, <3>3 DEF Protocol!pvars
    <3>4. CASE server = "websocket"
      <4>1. Serial /\ Serial' /\ server' = "websocket" /\ pc \in [Threads -> Labels]
        BY <3>2, <3>4 DEF SerialInv, EditsInv, EditTypes
      <4>2. Alone(t)
        BY <3>1, <3>4, <4>1, ActsAlone
      <4> QED BY <3>1, <3>4, <4>1, <4>2, ResetIsPromised, CallIsPromised, FollowupIsPromised,
                 FinalIsPromised DEF Serve
    <3> QED BY <3>3, <3>4 DEF SerialInv
  <2> QED BY <2>1, <2>2
<1> QED BY <1>1, <1>2, BooksKept, EditsInit, EditsNext, SerialInit, SerialNext, PTL DEF Spec

-----------------------------------------------------------------------------
(* What overlapping requests leave the variables.                          *)

FlagsTyped ==
  /\ server \in Servers /\ connected \in BOOLEAN
  /\ scenario \in 0..resets
  /\ submitted \in BOOLEAN /\ updates \in Nat
  /\ mixed \in BOOLEAN /\ lapsed \in BOOLEAN

\* The steps that have counted their turn and are about to log it.
Logging == {t \in Threads : pc[t] = "logging"}

\* The log is as long as the episode, and no message is from its future.
TurnsTyped ==
  /\ turn \in 0..(MAX_TURNS + MaxOverrun)
  /\ ~mixed => Len(log) + Cardinality(Logging) = turn
  /\ \A i \in DOMAIN user_message_steps : user_message_steps[i] \in 0..turn
  /\ next_followup_idx \in 0..Messages /\ last_user_message \in 0..Messages
  /\ \A t \in Threads : pc[t] = "speaking" => holds[t] \in 1..Messages

ToolCalls == [tool : Tools, flaw : Flaws \cup {"none"}]

\* What is on record, and what is on its way there, are calls of tools.
CallsAreOfTools ==
  /\ tool_calls \in Seq(ToolCalls)
  /\ \A t \in Threads : pc[t] \in BeforeRecord => request[t].tool \in Tools
  /\ \A t \in Threads : pc[t] = "logging" => request[t].tool \in Tools \cup {"submit"}

ShapeInv == FlagsTyped /\ TurnsTyped /\ CallsAreOfTools

LEMMA LoggingFinite == IsFiniteSet(Logging) /\ Cardinality(Logging) \in Nat
BY SharedAssumption, FS_Subset, FS_CardinalityType DEF Logging

LEMMA ShapeInit == Init => ShapeInv
<1> SUFFICES ASSUME Init PROVE ShapeInv
  OBVIOUS
<1> USE SharedAssumption DEF Init
<1>1. FlagsTyped
  <2>1. server \in Servers /\ scenario \in 0..resets /\ updates \in Nat
    OBVIOUS
  <2>2. /\ connected \in BOOLEAN /\ submitted \in BOOLEAN
        /\ mixed \in BOOLEAN /\ lapsed \in BOOLEAN
    BY Zenon
  <2> QED BY <2>1, <2>2 DEF FlagsTyped
<1>2. TurnsTyped
  <2>1. Logging = {}
    BY DEF Logging
  <2>2. Cardinality(Logging) = 0
    BY ONLY <2>1, FS_EmptySet
  <2> QED BY <2>2 DEF TurnsTyped
<1>3. CallsAreOfTools
  BY DEF CallsAreOfTools, BeforeRecord
<1> QED BY <1>1, <1>2, <1>3 DEF ShapeInv

LEMMA FlagsKept ==
  ASSUME FlagsTyped, EditTypes, NEW t \in Threads,
         ResetArrives(t) \/ StepRefused(t) \/ StepArrives(t) \/ Serve(t)
  PROVE  FlagsTyped'
<1>1. CASE UNCHANGED <<where, scenario, resets, submitted, updates, mixed, lapsed>>
  BY <1>1 DEF FlagsTyped, where
<1>2. CASE Generates(t)
  BY <1>2 DEF Generates, FlagsTyped, where, records, raised, EditTypes
<1>3. CASE Resets(t)
  <2>1. mixed' \in BOOLEAN
    BY <1>3 DEF Resets
  <2> QED BY <1>3, <2>1 DEF Resets, FlagsTyped, where
<1>4. CASE StepRefused(t)
  BY <1>4 DEF StepRefused, FlagsTyped, objects, records, raised
<1>5. CASE Grades(t)
  BY <1>5 DEF Grades, FlagsTyped, where, objects, raised
<1>7. CASE Reports(t)
  <2>1. /\ updates' = updates + 1
        /\ UNCHANGED <<where, scenario, resets, submitted, mixed, lapsed>>
    BY <1>7 DEF Reports, objects, records, raised
  <2>2. updates' \in Nat
    BY <2>1 DEF FlagsTyped
  <2> QED BY <2>1, <2>2 DEF FlagsTyped, where
<1>6. CASE ToolCallRaises(t) \/ StepRaises(t)
  <2>1. /\ lapsed' \in BOOLEAN
        /\ UNCHANGED <<where, scenario, resets, submitted, updates, mixed>>
    BY <1>6 DEF ToolCallRaises, StepRaises, Raises, objects, records
  <2> QED BY <2>1 DEF FlagsTyped, where
<1> QED BY <1>1, <1>2, <1>3, <1>4, <1>5, <1>7, <1>6
     DEF Serve, ResetArrives, GenerateRaises, StepArrives, Logs, ToolReturns, EditReads, EditWrites,
         NotesLine, Records, LooksUp, FindsTrigger, Decides, Consumes, MessageIsGone, Speaks,
         NoFollowup, EndsTurn, Observes, Launches, objects, records, raised

\* A move that neither logs nor speaks.
LEMMA TurnsStay ==
  ASSUME TurnsTyped, pc \in [Threads -> Labels], holds \in [Threads -> Nat], NEW t \in Threads,
         NEW label, pc' = [pc EXCEPT ![t] = label],
         pc[t] # "logging", label \notin {"logging", "speaking"},
         UNCHANGED <<turn, log, user_message_steps, next_followup_idx, mixed>>,
         last_user_message' \in {last_user_message, 0},
         \A u \in Threads : u # t => holds'[u] = holds[u]
  PROVE  TurnsTyped'
<1>1. Logging' = Logging
  BY DEF Logging
<1>2. \A u \in Threads : pc'[u] = "speaking" => holds'[u] \in 1..Messages
  BY DEF TurnsTyped
<1> QED BY <1>1, <1>2, SharedAssumption DEF TurnsTyped

LEMMA TurnsKept ==
  ASSUME TurnsTyped, CallTypes, Control, EditTypes, NEW t \in Threads,
         ResetArrives(t) \/ StepRefused(t) \/ StepArrives(t) \/ Serve(t)
  PROVE  TurnsTyped'
<1> USE SharedAssumption
<1>p. /\ pc \in [Threads -> Labels] /\ holds \in [Threads -> Nat]
      /\ log \in Seq({"tool_call", "submit"}) /\ turn \in Nat
  BY DEF EditTypes, CallTypes, Control
<1>1. CASE StepRefused(t)
  BY <1>1 DEF StepRefused, locals, records, raised, TurnsTyped, Logging
<1>2. CASE Resets(t)
  <2>1. /\ turn' = 0 /\ log' = <<>> /\ user_message_steps' = <<0>> /\ next_followup_idx' = 0
        /\ last_user_message' = 0 /\ pc' = [pc EXCEPT ![t] = "idle"]
        /\ ~mixed' => \A u \in Threads : ~InStep(u)
        /\ \A u \in Threads : u # t => holds'[u] = holds[u]
    BY <1>2 DEF Resets, Replies, DropsNumber
  <2>2. ~mixed' => Logging' = {}
    BY <1>p, <2>1 DEF Logging, InStep
  <2>3. ~mixed' => Cardinality(Logging') = 0
    BY ONLY <2>2, FS_EmptySet
  <2>4. \A u \in Threads : pc'[u] = "speaking" => holds'[u] \in 1..Messages
    BY <1>p, <2>1 DEF TurnsTyped
  <2> QED BY <2>1, <2>3, <2>4 DEF TurnsTyped
<1>3. CASE StepArrives(t)
  <2>1. /\ turn < MAX_TURNS + MaxOverrun /\ turn' = turn + 1
        /\ pc[t] = "idle" /\ pc' = [pc EXCEPT ![t] = "logging"]
        /\ UNCHANGED <<log, user_message_steps, next_followup_idx, last_user_message, mixed, holds>>
    BY <1>3 DEF StepArrives, MayStep, MayArrive, Goto
  <2>2. Cardinality(Logging') = Cardinality(Logging) + 1
    <3>1. Logging' = Logging \cup {t} /\ t \notin Logging
      BY <1>p, <2>1 DEF Logging
    <3> QED BY <3>1, LoggingFinite, FS_AddElement
  <2>3. ~mixed' => Len(log') + Cardinality(Logging') = turn'
    <3>1. Len(log) \in Nat
      BY <1>p
    <3> QED BY <2>1, <2>2, <3>1, LoggingFinite DEF TurnsTyped
  <2>4. turn' \in 0..(MAX_TURNS + MaxOverrun)
    BY <2>1 DEF TurnsTyped
  <2>5. \A i \in DOMAIN user_message_steps : user_message_steps[i] \in 0..turn'
    BY <2>1 DEF TurnsTyped
  <2>6. \A u \in Threads : pc'[u] = "speaking" => holds[u] \in 1..Messages
    BY <1>p, <2>1 DEF TurnsTyped
  <2> QED BY <2>1, <2>3, <2>4, <2>5, <2>6 DEF TurnsTyped
<1>4. CASE Logs(t)
  <2>1. /\ pc[t] = "logging" /\ mixed' = mixed
        /\ \E label \in {"finalizing", "tool"} : pc' = [pc EXCEPT ![t] = label]
        /\ UNCHANGED <<turn, user_message_steps, next_followup_idx, last_user_message, holds>>
        /\ ~mixed => \E kind \in {"submit", "tool_call"} : log' = Append(log, kind)
    BY <1>4 DEF Logs, Goto, CallTypes
  <2>2. Cardinality(Logging') = Cardinality(Logging) - 1
    <3>1. Logging' = Logging \ {t} /\ t \in Logging
      BY <1>p, <2>1 DEF Logging
    <3> QED BY <3>1, LoggingFinite, FS_RemoveElement
  <2>3. ~mixed' => Len(log') + Cardinality(Logging') = turn'
    <3>1. ~mixed => Len(log') = Len(log) + 1 /\ Len(log) \in Nat
      BY <1>p, <2>1
    <3> QED BY <2>1, <2>2, <3>1, LoggingFinite DEF TurnsTyped
  <2>4. \A u \in Threads : pc'[u] = "speaking" => holds[u] \in 1..Messages
    BY <1>p, <2>1 DEF TurnsTyped
  <2> QED BY <2>1, <2>3, <2>4 DEF TurnsTyped
<1>5. CASE Consumes(t)
  <2>1. /\ pc[t] = "consuming" /\ pc' = [pc EXCEPT ![t] = "speaking"]
        /\ next_followup_idx < Messages /\ next_followup_idx' = next_followup_idx + 1
        /\ holds' = [holds EXCEPT ![t] = next_followup_idx']
        /\ UNCHANGED <<turn, log, user_message_steps, last_user_message, mixed>>
    BY <1>5 DEF Consumes, ConsumedIndex, Goto
  <2>2. next_followup_idx' \in 1..Messages
    BY <2>1 DEF TurnsTyped
  <2>3. \A u \in Threads : pc'[u] = "speaking" => holds'[u] \in 1..Messages
    BY <1>p, <2>1, <2>2 DEF TurnsTyped
  <2>4. Logging' = Logging
    BY <1>p, <2>1 DEF Logging
  <2> QED BY <2>1, <2>2, <2>3, <2>4 DEF TurnsTyped
<1>6. CASE Speaks(t)
  <2>1. /\ pc[t] = "speaking" /\ pc' = [pc EXCEPT ![t] = "ending"]
        /\ last_user_message' = holds[t] /\ holds[t] \in 1..Messages
        /\ user_message_steps' = Append(user_message_steps, turn)
        /\ holds' = [holds EXCEPT ![t] = 0]
        /\ UNCHANGED <<turn, log, next_followup_idx, mixed>>
    BY <1>6 DEF Speaks, Goto, DropsNumber, TurnsTyped
  <2>2. \A i \in DOMAIN user_message_steps' : user_message_steps'[i] \in 0..turn
    <3>1. /\ user_message_steps \in Seq(Nat)
          /\ \A i \in DOMAIN user_message_steps : user_message_steps[i] \in 0..turn
      BY DEF Control, TurnsTyped
    <3>2. ASSUME NEW i \in DOMAIN user_message_steps' PROVE user_message_steps'[i] \in 0..turn
      <4>1. CASE i \in DOMAIN user_message_steps
        BY <1>p, <2>1, <3>1, <4>1
      <4>2. CASE i = Len(user_message_steps) + 1
        BY <1>p, <2>1, <3>1, <4>2
      <4> QED BY <2>1, <3>1, <3>2, <4>1, <4>2
    <3> QED BY <3>2
  <2>3. \A u \in Threads : pc'[u] = "speaking" => holds'[u] \in 1..Messages
    BY <1>p, <2>1 DEF TurnsTyped
  <2>4. Logging' = Logging
    BY <1>p, <2>1 DEF Logging
  <2> QED BY <2>1, <2>2, <2>3, <2>4 DEF TurnsTyped
<1>7. CASE ResetArrives(t) \/ Generates(t)
  BY <1>7, <1>p, TurnsStay DEF ResetArrives, Generates, MayArrive, Goto, records
<1>8. CASE ToolReturns(t) \/ EditReads(t) \/ EditWrites(t) \/ NotesLine(t) \/ Records(t)
  <2>1. /\ \E label \in Labels \ {"logging", "speaking"} : pc' = [pc EXCEPT ![t] = label]
        /\ pc[t] # "logging"
        /\ UNCHANGED <<turn, log, user_message_steps, next_followup_idx, mixed, last_user_message>>
    BY <1>8 DEF ToolReturns, EditReads, EditWrites, NotesLine, Records, Goto, records, Labels
  <2>2. \A u \in Threads : u # t => holds'[u] = holds[u]
    BY <1>8, <1>p DEF ToolReturns, EditReads, EditWrites, NotesLine, Records, DropsNumber
  <2> QED BY <1>p, <2>1, <2>2, TurnsStay
<1>9. CASE GenerateRaises(t) \/ MessageIsGone(t) \/ Observes(t) \/ Reports(t)
             \/ ToolCallRaises(t) \/ StepRaises(t)
  <2>1. /\ Replies(t) /\ pc[t] # "logging"
        /\ UNCHANGED <<turn, log, user_message_steps, next_followup_idx, mixed, last_user_message>>
    BY <1>9 DEF GenerateRaises, MessageIsGone, Observes, Reports, ToolCallRaises, LaunchesTool,
                StepRaises, Raises, records
  <2> QED BY <1>p, <2>1, TurnsStay DEF Replies, DropsNumber
<1>10. CASE LooksUp(t) \/ FindsTrigger(t) \/ Decides(t)
  <2>1. /\ \E label \in {"looking_up", "unprompted", "deciding", "consuming"} :
             pc' = [pc EXCEPT ![t] = label]
        /\ pc[t] # "logging"
        /\ UNCHANGED <<turn, log, user_message_steps, next_followup_idx, mixed, last_user_message>>
    BY <1>10 DEF LooksUp, FindsTrigger, Decides, Goto, records
  <2>2. \A u \in Threads : u # t => holds'[u] = holds[u]
    BY <1>10, <1>p DEF LooksUp, FindsTrigger, Decides
  <2> QED BY <1>p, <2>1, <2>2, TurnsStay
<1>11. CASE NoFollowup(t) \/ EndsTurn(t)
  <2>1. /\ \E label \in {"finalizing", "replying"} : pc' = [pc EXCEPT ![t] = label]
        /\ pc[t] # "logging" /\ last_user_message' \in {last_user_message, 0}
        /\ UNCHANGED <<turn, log, user_message_steps, next_followup_idx, mixed>>
    BY <1>11 DEF NoFollowup, EndsTurn, LooksAtLimit, Goto, records
  <2>2. \A u \in Threads : u # t => holds'[u] = holds[u]
    BY <1>11, <1>p DEF NoFollowup, EndsTurn, DropsNumber
  <2> QED BY <1>p, <2>1, <2>2, TurnsStay
<1>12. CASE Launches(t) \/ Grades(t)
  <2>1. /\ \E label \in {"grading", "reporting"} : pc' = [pc EXCEPT ![t] = label]
        /\ pc[t] # "logging" /\ holds' = holds
        /\ UNCHANGED <<turn, log, user_message_steps, next_followup_idx, mixed, last_user_message>>
    BY <1>12 DEF Launches, Grades, Goto, records
  <2> QED BY <1>p, <2>1, TurnsStay
<1> QED BY <1>1, <1>2, <1>3, <1>4, <1>5, <1>6, <1>7, <1>8, <1>9, <1>10, <1>11, <1>12 DEF Serve

\* Steps that come no nearer to the record.
LEMMA CallsStay ==
  ASSUME CallsAreOfTools, pc \in [Threads -> Labels],
         request \in [Threads -> StepRequests \cup {Idle}], NEW t \in Threads, NEW label,
         pc' = [pc EXCEPT ![t] = label], label # "logging",
         label \in BeforeRecord => pc[t] \in BeforeRecord /\ request'[t] = request[t],
         \A u \in Threads : u # t => request'[u] = request[u],
         tool_calls' \in {tool_calls, <<>>}
  PROVE  CallsAreOfTools'
<1>1. ASSUME NEW u \in Threads, pc'[u] \in BeforeRecord
      PROVE  pc[u] \in BeforeRecord /\ request'[u] = request[u]
  <2>1. CASE u = t
    BY <1>1, <2>1
  <2>2. CASE u # t
    BY <1>1, <2>2
  <2> QED BY <2>1, <2>2
<1>2. ASSUME NEW u \in Threads, pc'[u] = "logging"
      PROVE  pc[u] = "logging" /\ request'[u] = request[u]
  BY <1>2
<1>3. tool_calls' \in Seq(ToolCalls)
  <2>1. CASE tool_calls' = tool_calls
    BY <2>1 DEF CallsAreOfTools
  <2>2. CASE tool_calls' = <<>>
    BY <2>2
  <2> QED BY <2>1, <2>2
<1> QED BY <1>1, <1>2, <1>3 DEF CallsAreOfTools

LEMMA CallsOfToolsKept ==
  ASSUME CallsAreOfTools, EditTypes, NEW t \in Threads,
         ResetArrives(t) \/ StepRefused(t) \/ StepArrives(t) \/ Serve(t)
  PROVE  CallsAreOfTools'
<1> USE SharedAssumption
<1>p. pc \in [Threads -> Labels] /\ request \in [Threads -> StepRequests \cup {Idle}]
  BY DEF EditTypes
<1>1. CASE ResetArrives(t)
  BY <1>1, <1>p, CallsStay DEF ResetArrives, Goto, records, BeforeRecord
<1>2. CASE StepRefused(t)
  BY <1>2 DEF StepRefused, locals, records, CallsAreOfTools
<1>3. CASE StepArrives(t)
  <2>1. PICK r \in StepRequests :
          /\ request' = [request EXCEPT ![t] = r]
          /\ pc' = [pc EXCEPT ![t] = "logging"] /\ tool_calls' = tool_calls
    BY <1>3 DEF StepArrives, Goto
  <2>2. r.tool \in Tools \cup {"submit"}
    BY DEF StepRequests, SoundRequests, FlawedRequests
  <2>3. ASSUME NEW u \in Threads, u # t PROVE pc'[u] = pc[u] /\ request'[u] = request[u]
    BY <1>p, <2>1, <2>3
  <2>4. pc'[t] = "logging" /\ request'[t] = r
    BY <1>p, <2>1
  <2> QED BY <2>1, <2>2, <2>3, <2>4 DEF CallsAreOfTools, BeforeRecord
<1>4. CASE Logs(t)
  <2>1. /\ pc[t] = "logging" /\ UNCHANGED <<request, tool_calls>>
        /\ pc' = [pc EXCEPT ![t] = IF request[t].tool = "submit" THEN "finalizing" ELSE "tool"]
    BY <1>4 DEF Logs, Goto
  <2>2. ASSUME NEW u \in Threads, pc'[u] \in BeforeRecord PROVE request[u].tool \in Tools
    <3>1. CASE u = t
      BY <1>p, <2>1, <2>2, <3>1 DEF CallsAreOfTools, BeforeRecord
    <3>2. CASE u # t
      BY <1>p, <2>1, <2>2, <3>2 DEF CallsAreOfTools
    <3> QED BY <3>1, <3>2
  <2>3. ASSUME NEW u \in Threads, pc'[u] = "logging" PROVE pc[u] = "logging"
    BY <1>p, <2>1, <2>3
  <2> QED BY <2>1, <2>2, <2>3 DEF CallsAreOfTools
<1>5. CASE Records(t)
  <2>1. /\ pc[t] = "recording" /\ pc' = [pc EXCEPT ![t] = "follow_up"] /\ request' = request
        /\ tool_calls' = Append(tool_calls, [tool |-> request[t].tool, flaw |-> request[t].flaw])
    BY <1>5 DEF Records, Recorded, Goto
  <2>2. [tool |-> request[t].tool, flaw |-> request[t].flaw] \in ToolCalls
    <3>1. request[t].tool \in Tools
      BY <2>1 DEF CallsAreOfTools, BeforeRecord
    <3>2. request[t].flaw \in Flaws \cup {"none"}
      <4>1. request[t] \in StepRequests \cup {Idle}
        BY <1>p
      <4> QED BY <4>1 DEF StepRequests, SoundRequests, FlawedRequests, Idle
    <3> QED BY <3>1, <3>2 DEF ToolCalls
  <2>3. tool_calls' \in Seq(ToolCalls)
    BY <2>1, <2>2 DEF CallsAreOfTools
  <2>4. \A u \in Threads : /\ pc'[u] \in BeforeRecord => pc[u] \in BeforeRecord
                           /\ pc'[u] = "logging" => pc[u] = "logging"
    BY <1>p, <2>1 DEF BeforeRecord
  <2> QED BY <2>1, <2>3, <2>4 DEF CallsAreOfTools
<1>6. CASE Generates(t)
  BY <1>6, <1>p, CallsStay DEF Generates, Goto, records, BeforeRecord
<1>7. CASE Resets(t)
  BY <1>7, <1>p, CallsStay DEF Resets, Replies, DropsRequest, BeforeRecord
<1>8. CASE GenerateRaises(t) \/ MessageIsGone(t) \/ Observes(t) \/ Reports(t)
             \/ ToolCallRaises(t) \/ StepRaises(t)
  <2>1. Replies(t) /\ tool_calls' = tool_calls
    BY <1>8 DEF GenerateRaises, MessageIsGone, Observes, Reports, ToolCallRaises, StepRaises, Raises,
                records
  <2> QED BY <1>p, <2>1, CallsStay DEF Replies, DropsRequest, BeforeRecord
<1>9. CASE ToolReturns(t) \/ EditReads(t)
  BY <1>9, <1>p, CallsStay DEF ToolReturns, EditReads, Goto, records, BeforeRecord
<1>10. CASE EditWrites(t) \/ NotesLine(t)
  BY <1>10, <1>p, CallsStay DEF EditWrites, NotesLine, Goto, records, BeforeRecord
<1>11. CASE LooksUp(t) \/ FindsTrigger(t) \/ Decides(t) \/ Consumes(t) \/ Speaks(t)
  <2>1. /\ \E label \in {"looking_up", "unprompted", "deciding", "consuming", "speaking", "ending"} :
             pc' = [pc EXCEPT ![t] = label]
        /\ tool_calls' = tool_calls
    BY <1>11 DEF LooksUp, FindsTrigger, Decides, Consumes, Speaks, Goto, records
  <2>2. \A u \in Threads : u # t => request'[u] = request[u]
    BY <1>11, <1>p DEF LooksUp, FindsTrigger, Decides, Consumes, Speaks, DropsRequest
  <2> QED BY <1>p, <2>1, <2>2, CallsStay DEF BeforeRecord
<1>12. CASE NoFollowup(t) \/ EndsTurn(t) \/ Launches(t) \/ Grades(t)
  <2>1. /\ \E label \in {"finalizing", "replying", "grading", "reporting"} :
             pc' = [pc EXCEPT ![t] = label]
        /\ tool_calls' = tool_calls
    BY <1>12 DEF NoFollowup, EndsTurn, LooksAtLimit, Launches, Grades, Goto, records
  <2>2. \A u \in Threads : u # t => request'[u] = request[u]
    BY <1>12, <1>p DEF NoFollowup, EndsTurn, Launches, Grades, DropsRequest
  <2> QED BY <1>p, <2>1, <2>2, CallsStay DEF BeforeRecord
<1> QED BY <1>1, <1>2, <1>3, <1>4, <1>5, <1>6, <1>7, <1>8, <1>9, <1>10, <1>11, <1>12 DEF Serve

LEMMA ResetsBounded == ASSUME EditsInv PROVE resets \in 0..MaxResets
BY SharedAssumption, GeneratingFinite DEF EditsInv, EditTypes, RoomForResets

LEMMA ShapeNext == BooksInv /\ EditsInv /\ CallsInv /\ ShapeInv /\ [Next]_vars => ShapeInv'
<1> SUFFICES ASSUME BooksInv, EditsInv, CallsInv, ShapeInv, [Next]_vars PROVE ShapeInv'
  OBVIOUS
<1>1. CASE Next
  <2>1. PICK t \in Threads : ResetArrives(t) \/ StepRefused(t) \/ StepArrives(t) \/ Serve(t)
    BY <1>1 DEF Next
  <2>2. EditTypes /\ CallTypes /\ Control
    BY DEF EditsInv, CallsInv, BooksInv
  <2> QED BY <2>1, <2>2, FlagsKept, TurnsKept, CallsOfToolsKept DEF ShapeInv
<1>2. CASE UNCHANGED vars
  BY <1>2 DEF vars, where, objects, records, locals, raised, ShapeInv, FlagsTyped, TurnsTyped,
              Logging, CallsAreOfTools
<1> QED BY <1>1, <1>2

\* However requests overlap on one environment (app.py:176): unless a reset
\* came between, the log of actions is as long as the turn counter says, but
\* for steps that are about to write there (environment.py:140), each message
\* has a turn that is not in the future, each call on record is one of a tool,
\* a websocket has one call under way at most, and the other variables keep
\* their types.
THEOREM SharedKeepsTypes == Spec => []TypeOK
<1>1. BooksInv /\ EditsInv /\ CallsInv /\ SerialInv /\ ShapeInv => TypeOK
  <2> SUFFICES ASSUME BooksInv, EditsInv, CallsInv, SerialInv, ShapeInv PROVE TypeOK
    OBVIOUS
  <2> USE SharedAssumption
  <2>1. resets \in 0..MaxResets
    BY ResetsBounded
  <2>2. code \in Seq([origin : 1..NLines, text : Texts])
    <3> DEFINE S == [origin : 1..NLines, text : Texts]
    <3>1. code \in [1..NLines -> S]
      BY DEF EditsInv, EditTypes, Programs, Lines
    <3> HIDE DEF S
    <3>2. code \in Seq(S)
      BY <3>1
    <3> QED BY <3>2 DEF S
  <2>3. \A i \in DOMAIN log : log[i] \in {"tool_call", "submit"}
    BY DEF CallsInv, CallTypes
  <2>4. \A i \in DOMAIN tool_calls :
          tool_calls[i].tool \in Tools /\ tool_calls[i].flaw \in Flaws \cup {"none"}
    <3>1. \A i \in DOMAIN tool_calls : tool_calls[i] \in ToolCalls
      BY DEF ShapeInv, CallsAreOfTools
    <3> QED BY <3>1 DEF ToolCalls
  <2>5. \A i \in DOMAIN modified_lines : modified_lines[i] \in 1..NLines
    BY DEF EditsInv, EditTypes, Lines
  <2>6. /\ runner \in 0..resets /\ pc \in [Threads -> Labels]
        /\ request \in [Threads -> StepRequests \cup {Idle}] /\ unrecorded \in Nat
    BY DEF EditsInv, EditTypes, CallsInv, CallTypes
  <2>7. server = "websocket" => \A t, u \in Threads : pc[t] # "idle" /\ pc[u] # "idle" => t = u
    BY DEF SerialInv, Serial
  <2> QED BY <2>1, <2>2, <2>3, <2>4, <2>5, <2>6, <2>7
       DEF TypeOK, ShapeInv, FlagsTyped, TurnsTyped, Logging, Labels
<1> QED BY <1>1, BooksKept, EditsInit, EditsNext, CallsInit, CallsNext, SerialInit, SerialNext,
           ShapeInit, ShapeNext, PTL DEF Spec
=============================================================================
