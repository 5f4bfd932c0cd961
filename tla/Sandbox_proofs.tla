--------------------------- MODULE Sandbox_proofs ---------------------------
(***************************************************************************)
(* What a launch gives its caller, for any number of tests and for every   *)
(* program, in both modes: an answer for every test, of its own, under the *)
(* conditions EveryTestAnswered and AnswersAreItsOwn name, and no process  *)
(* left behind.  A process also keeps the promise of Grading.              *)
(***************************************************************************)
EXTENDS Sandbox, FiniteSetTheorems, WellFoundedInduction, TLAPS

Entries == [input : Inputs, answer : Answers]

\* What a launch of this program can say of an input, apart from TIMEOUT and
\* ERROR.
Truth(e) == IF program.loads = "ok" THEN program.does[e] ELSE "raises"

Says(answer, e) == answer \in {"TIMEOUT", "ERROR", Truth(e)}

Answerable == Genuine /\ (threaded => ~Quits)

\* The list has an entry for the expression.
Covered(i) == \E k \in DOMAIN results : results[k].input = exprs[i]

Own == {k \in DOMAIN results : results[k].answer # "TIMEOUT"}

BoxTypes ==
  /\ program \in Program
  /\ exprs \in Seq(Inputs)
  /\ results \in Seq(Entries)
  /\ next_pad \in Nat
  /\ caller \in {"idle", "waiting", "padding", "returned", "raised"}
  /\ worker \in Running \cup {"none", "done", "crashed", "killed"}
  /\ threaded \in BOOLEAN

\* Entries of the sandbox's own tell of the program what is true of it.
EntriesAreTrue ==
  /\ Genuine => \A k \in DOMAIN results : Says(results[k].answer, results[k].input)
  /\ worker = "evaluating" => program.loads = "ok"
  /\ worker = "failing" => program.loads # "ok"

\* The answers given are those to the first expressions, also behind padding,
\* for as long as the list is the worker's.
AnswersInOrder ==
  caller = "waiting" \/ threaded =>
    /\ Given <= Len(exprs)
    /\ \A i \in 1..Given : Covered(i)
    /\ worker = "done" => Given = Len(exprs)

\* The padding loop has left no expression behind it without an entry.
PaddingCovers ==
  caller = "padding" =>
    /\ threaded /\ next_pad > 0
    /\ \A i \in 1..Len(exprs) : i < next_pad => Covered(i)
    /\ \A e \in already : \E k \in DOMAIN results : results[k].input = e

ReturnsCovered == caller = "returned" /\ Answerable => \A i \in 1..Len(exprs) : Covered(i)

\* No process is left when its caller goes on; a thread ends early only by the
\* program's doing.
ProcessIsGone ==
  /\ ~threaded /\ caller # "waiting" => worker \notin Running
  /\ threaded /\ worker = "crashed" => Quits

VerdictIsTrue ==
  \A i \in DOMAIN verdict :
    /\ i \in 1..Len(exprs)
    /\ Answerable => verdict[i] # "missing"
    /\ Genuine => verdict[i] = "missing" \/ Says(verdict[i], exprs[i])

BoxInv ==
  /\ BoxTypes /\ EntriesAreTrue /\ AnswersInOrder /\ PaddingCovers /\ ReturnsCovered
  /\ ProcessIsGone /\ VerdictIsTrue

-----------------------------------------------------------------------------
(* Lemmas on the list of results.                                          *)

LEMMA Least ==
  ASSUME NEW S, S \subseteq Nat, S # {}
  PROVE  \E m \in S : \A n \in S : m <= n
<1> DEFINE Below == {p \in Nat \X Nat : p[1] < p[2]}
<1>1. IsWellFoundedOn(Below, Nat)
  <2>1. Below = OpToRel(<, Nat)
    BY DEF OpToRel
  <2> QED BY <2>1, NatLessThanWellFounded
<1>2. PICK m \in S : \A n \in S : ~ (<<n, m>> \in Below)
  BY <1>1, WFMin
<1>3. ASSUME NEW n \in S PROVE m <= n
  <2>1. m \in Nat /\ n \in Nat /\ <<n, m>> \in Nat \X Nat
    OBVIOUS
  <2>2. ~ (n < m)
    BY <1>2, <2>1
  <2> QED BY <2>1, <2>2
<1> QED BY <1>3

LEMMA Greatest ==
  ASSUME NEW n \in Nat, NEW S, S \subseteq 1..n, S # {}
  PROVE  \E m \in S : \A k \in S : k <= m
<1> DEFINE Mirror == {n - k : k \in S}
<1>1. Mirror \subseteq Nat /\ Mirror # {}
  <2>1. \A k \in S : n - k \in Nat
    OBVIOUS
  <2>2. PICK k \in S : TRUE
    OBVIOUS
  <2>3. n - k \in Mirror
    BY <2>2
  <2>4. Mirror \subseteq Nat
    BY <2>1
  <2> QED BY <2>3, <2>4
<1> HIDE DEF Mirror
<1>2. PICK d \in Mirror : \A c \in Mirror : d <= c
  BY <1>1, Least
<1>3. PICK m \in S : d = n - m
  BY DEF Mirror
<1>4. ASSUME NEW k \in S PROVE k <= m
  <2>1. d <= n - k
    BY <1>2 DEF Mirror
  <2> QED BY <1>3, <2>1
<1> QED BY <1>4

LEMMA TestsAreInputs ==
  /\ Tests \in Seq(Inputs)
  /\ \A e \in Inputs : <<e>> \in Seq(Inputs)
BY SandboxAssumption

LEMMA TruthType ==
  ASSUME BoxTypes, NEW e \in Inputs
  PROVE  Truth(e) \in Behaviours
BY DEF BoxTypes, Truth, Program, Behaviours

\* What a verdict may be asked for depends on the call alone.
LEMMA ProgramStays ==
  ASSUME UNCHANGED <<threaded, program, exprs>>
  PROVE  (Genuine' <=> Genuine) /\ (Quits' <=> Quits) /\ (Answerable' <=> Answerable)
BY DEF Genuine, Quits, Answerable

LEMMA GivenIsNat == ASSUME BoxTypes PROVE IsFiniteSet(Own) /\ Given = Cardinality(Own) /\ Given \in Nat
<1>1. Len(results) \in Nat /\ DOMAIN results = 1..Len(results) /\ 1 \in Int
  BY DEF BoxTypes
<1>2. IsFiniteSet(1..Len(results))
  BY <1>1, FS_Interval
<1>3. IsFiniteSet(Own)
  BY <1>1, <1>2, FS_Subset DEF Own
<1> QED BY <1>3, FS_CardinalityType DEF Given, Own

\* A TIMEOUT at the end of the list is no answer; anything else is one more.
LEMMA GivenAfterAppend ==
  ASSUME BoxTypes, NEW entry \in Entries, results' = Append(results, entry)
  PROVE  /\ results' \in Seq(Entries)
         /\ \A k \in DOMAIN results : k \in DOMAIN results' /\ results'[k] = results[k]
         /\ \E k \in DOMAIN results' : results'[k] = entry
         /\ \A k \in DOMAIN results' : k \in DOMAIN results \/ results'[k] = entry
         /\ Given' = IF entry.answer = "TIMEOUT" THEN Given ELSE Given + 1
<1> DEFINE n == Len(results) + 1
<1>1. /\ results \in Seq(Entries) /\ Len(results) \in Nat /\ DOMAIN results = 1..Len(results)
      /\ results' \in Seq(Entries) /\ DOMAIN results' = 1..n /\ results'[n] = entry
      /\ \A k \in DOMAIN results : results'[k] = results[k]
  BY DEF BoxTypes
<1>2. n \notin DOMAIN results /\ DOMAIN results' = DOMAIN results \cup {n}
  BY <1>1
<1> HIDE DEF n
<1>3. Given' = Cardinality(Own')
  BY DEF Given, Own
<1>4. CASE entry.answer = "TIMEOUT"
  <2>1. Own' = Own
    BY <1>1, <1>2, <1>4 DEF Own
  <2> QED BY <1>1, <1>2, <1>3, <1>4, <2>1, GivenIsNat
<1>5. CASE entry.answer # "TIMEOUT"
  <2>1. Own' = Own \cup {n} /\ n \notin Own
    BY <1>1, <1>2, <1>5 DEF Own
  <2>2. Cardinality(Own') = Cardinality(Own) + 1
    BY <2>1, GivenIsNat, FS_AddElement
  <2> QED BY <1>1, <1>2, <1>3, <1>5, <2>2, GivenIsNat
<1> QED BY <1>4, <1>5

\* One answer for everything is an entry for every expression.
LEMMA EverythingCovers ==
  ASSUME BoxTypes, NEW answer \in {"TIMEOUT", "ERROR"}
  PROVE  /\ EverythingIs(answer) \in Seq(Entries)
         /\ DOMAIN EverythingIs(answer) = 1..Len(exprs)
         /\ \A k \in 1..Len(exprs) : EverythingIs(answer)[k] = Result(exprs[k], answer)
<1>1. exprs \in Seq(Inputs) /\ Len(exprs) \in Nat /\ DOMAIN exprs = 1..Len(exprs)
  BY DEF BoxTypes
<1>2. \A k \in 1..Len(exprs) : Result(exprs[k], answer) \in Entries
  BY <1>1 DEF Result, Entries, Answers
<1> QED BY <1>1, <1>2 DEF EverythingIs

-----------------------------------------------------------------------------
(* The invariant.                                                          *)

LEMMA BoxInit == Init => BoxInv
<1> SUFFICES ASSUME Init PROVE BoxInv
  OBVIOUS
<1> USE SandboxAssumption DEF Init
<1>1. BoxTypes
  BY DEF BoxTypes, Running
<1>2. Len(exprs) = 0 /\ DOMAIN results = {} /\ DOMAIN verdict = {}
  OBVIOUS
<1>3. Given = 0
  <2>1. Own = {}
    BY <1>2 DEF Own
  <2> QED BY <1>1, <2>1, GivenIsNat, FS_EmptySet
<1> QED BY <1>1, <1>2, <1>3 DEF BoxInv, EntriesAreTrue, AnswersInOrder, PaddingCovers,
           ReturnsCovered, ProcessIsGone, VerdictIsTrue, Running

LEMMA BoxCall == ASSUME BoxInv, Call PROVE BoxInv'
<1> USE SandboxAssumption DEF Call, BoxInv
<1>1. BoxTypes'
  <2>1. exprs' \in Seq(Inputs)
    BY TestsAreInputs
  <2>2. program' \in Program /\ results' \in Seq(Entries)
    OBVIOUS
  <2> QED BY <2>1, <2>2 DEF BoxTypes, Running
<1>2. DOMAIN results' = {} /\ DOMAIN verdict' = {} /\ Len(exprs') \in Nat
  BY <1>1 DEF BoxTypes
<1>3. Given' = 0
  <2>1. Own' = {}
    BY <1>2 DEF Own
  <2>2. Given' = Cardinality(Own')
    BY DEF Given, Own
  <2> QED BY <2>1, <2>2, FS_EmptySet
<1> QED BY <1>1, <1>2, <1>3 DEF EntriesAreTrue, AnswersInOrder, PaddingCovers, ReturnsCovered,
           ProcessIsGone, VerdictIsTrue

\* The process sandbox ends with one answer for everything.
LEMMA ReturnsEverything ==
  ASSUME BoxInv, ~threaded, NEW answer \in {"TIMEOUT", "ERROR"},
         results' = EverythingIs(answer), caller' = "returned",
         worker' \in {"none", "done", "crashed", "killed"},
         UNCHANGED <<call, padding, verdict>>
  PROVE  BoxInv'
<1> USE DEF BoxInv, call, padding
<1>1. /\ results' \in Seq(Entries) /\ DOMAIN results' = 1..Len(exprs)
      /\ \A k \in 1..Len(exprs) : results'[k] = Result(exprs[k], answer)
  BY EverythingCovers
<1>2. BoxTypes'
  BY <1>1 DEF BoxTypes
<1>3. EntriesAreTrue'
  BY <1>1, ProgramStays DEF EntriesAreTrue, Says, Truth, Result
<1>4. ReturnsCovered'
  BY <1>1 DEF ReturnsCovered, Covered, Result
<1>5. VerdictIsTrue'
  BY ProgramStays DEF VerdictIsTrue, Says, Truth
<1> QED BY <1>2, <1>3, <1>4, <1>5 DEF AnswersInOrder, PaddingCovers, ProcessIsGone, Running, BoxTypes

\* Nothing is known of the list of a response that is not the worker's, but
\* what it is about.
LEMMA ClaimsAreTyped ==
  ASSUME BoxTypes, NEW claim \in Claims
  PROVE  claim \in Seq(Entries) /\ Len(claim) \in Nat /\ Len(claim) <= Len(exprs)
<1>1. PICK n \in 0..Len(exprs), answer \in {"right", "wrong", "raises"} :
         claim = [i \in 1..n |-> Result(exprs[i], answer)]
  BY DEF Claims
<1>2. exprs \in Seq(Inputs) /\ Len(exprs) \in Nat /\ n \in Nat
  BY DEF BoxTypes
<1>3. \A i \in 1..n : Result(exprs[i], answer) \in Entries
  BY <1>1, <1>2 DEF Result, Entries, Answers
<1> QED BY <1>1, <1>2, <1>3

LEMMA BoxCollect == ASSUME BoxInv, Collect PROVE BoxInv'
<1> USE DEF Collect, BoxInv
<1>1. CASE results' = EverythingIs("ERROR") /\ ~threaded
  BY <1>1, ReturnsEverything DEF call
<1>2. CASE results' = results /\ (threaded \/ worker = "done")
  <2>1. BoxTypes' /\ Given' = Given
    BY <1>2 DEF BoxTypes, call, padding, Given
  <2>2. AnswersInOrder'
    BY <1>2, <2>1 DEF AnswersInOrder, Covered, call
  <2>3. ReturnsCovered'
    <3>1. Answerable => worker = "done"
      BY <1>2 DEF ProcessIsGone, Answerable
    <3> QED BY <1>2, <3>1, ProgramStays DEF AnswersInOrder, ReturnsCovered, Covered, call
  <2>4. EntriesAreTrue' /\ VerdictIsTrue'
    BY <1>2, ProgramStays DEF EntriesAreTrue, VerdictIsTrue, Says, Truth, call
  <2> QED BY <1>2, <2>1, <2>2, <2>3, <2>4, ProgramStays
       DEF PaddingCovers, ProcessIsGone, Running, call
<1>3. CASE results' \in Claims /\ ~threaded /\ program.prints = "response"
  <2>1. BoxTypes'
    BY <1>3, ClaimsAreTyped DEF BoxTypes, call, padding
  <2>2. ~Genuine' /\ ~Answerable'
    BY <1>3 DEF Genuine, Answerable, call
  <2> QED BY <1>3, <2>1, <2>2
       DEF AnswersInOrder, EntriesAreTrue, VerdictIsTrue, ReturnsCovered, PaddingCovers,
           ProcessIsGone, Running, call
<1> QED BY <1>1, <1>2, <1>3 DEF Collected

\* The caller gives up with an exception, and keeps nothing.
LEMMA BoxRaises ==
  ASSUME BoxInv, LaunchRaises \/ CollectRaises \/ JudgeRaises
  PROVE  BoxInv'
<1>1. /\ UNCHANGED <<threaded, program, exprs, results, next_pad, verdict>>
      /\ caller' = "raised" /\ worker' \in {worker, "none"}
      /\ ~threaded => worker' \notin Running
  BY DEF LaunchRaises, CollectRaises, JudgeRaises, call, padding, BoxInv, ProcessIsGone, Running
<1>2. BoxTypes' /\ Given' = Given
  BY <1>1 DEF BoxInv, BoxTypes, Given
<1> QED BY <1>1, <1>2, ProgramStays
     DEF BoxInv, AnswersInOrder, Covered, EntriesAreTrue, VerdictIsTrue, Says, Truth,
         ReturnsCovered, PaddingCovers, ProcessIsGone

LEMMA BoxTimeout ==
  ASSUME BoxInv, LaunchFails \/ TimeoutKills \/ TimeoutPads
  PROVE  BoxInv'
<1>1. CASE LaunchFails
  BY <1>1, ReturnsEverything DEF LaunchFails
<1>2. CASE TimeoutKills
  BY <1>2, ReturnsEverything DEF TimeoutKills, Killed
<1>3. CASE TimeoutPads
  <2> USE <1>3 DEF TimeoutPads, BoxInv, call
  <2>1. BoxTypes' /\ Given' = Given
    BY DEF BoxTypes, Given
  <2>2. AnswersInOrder'
    BY <2>1 DEF AnswersInOrder, Covered
  <2>3. PaddingCovers'
    <3>1. \A i \in 1..Len(exprs) : ~(i < next_pad')
      BY DEF BoxTypes
    <3> QED BY <3>1 DEF PaddingCovers
  <2>4. EntriesAreTrue' /\ VerdictIsTrue'
    BY ProgramStays DEF EntriesAreTrue, VerdictIsTrue, Says, Truth
  <2> QED BY <2>1, <2>2, <2>3, <2>4, ProgramStays DEF ReturnsCovered, ProcessIsGone
<1> QED BY <1>1, <1>2, <1>3

\* A round of the loop covers its expression, whatever the thread adds.
LEMMA BoxPad == ASSUME BoxInv, Pad PROVE BoxInv'
<1> USE DEF Pad, BoxInv, call
<1>0. threaded /\ Len(exprs) \in Nat /\ next_pad \in Nat
  BY DEF PaddingCovers, BoxTypes
<1>1. CASE next_pad > Len(exprs)
  <2>1. BoxTypes' /\ Given' = Given
    BY <1>1 DEF BoxTypes, Given
  <2>2. AnswersInOrder' /\ EntriesAreTrue' /\ VerdictIsTrue'
    BY <1>1, <2>1, ProgramStays
       DEF AnswersInOrder, Covered, EntriesAreTrue, VerdictIsTrue, Says, Truth
  <2>3. ReturnsCovered'
    BY <1>0, <1>1 DEF PaddingCovers, ReturnsCovered, Covered
  <2> QED BY <1>0, <1>1, <2>1, <2>2, <2>3, ProgramStays DEF PaddingCovers, ProcessIsGone
<1>2. CASE ~(next_pad > Len(exprs)) /\ exprs[next_pad] \in already
  <2>1. BoxTypes' /\ Given' = Given
    BY <1>0, <1>2 DEF BoxTypes, Given
  <2>2. AnswersInOrder' /\ EntriesAreTrue' /\ VerdictIsTrue'
    BY <1>2, <2>1, ProgramStays
       DEF AnswersInOrder, Covered, EntriesAreTrue, VerdictIsTrue, Says, Truth
  <2>3. Covered(next_pad)
    BY <1>2 DEF PaddingCovers, Covered
  <2>4. \A i \in 1..Len(exprs) : i < next_pad' => Covered(i)
    <3> SUFFICES ASSUME NEW i \in 1..Len(exprs), i < next_pad + 1 PROVE Covered(i)
      BY <1>0, <1>2
    <3> QED BY <1>0, <2>3 DEF PaddingCovers
  <2>5. PaddingCovers'
    BY <1>0, <1>2, <2>4 DEF PaddingCovers, Covered
  <2> QED BY <1>2, <2>1, <2>2, <2>5, ProgramStays DEF ReturnsCovered, ProcessIsGone
<1>3. CASE ~(next_pad > Len(exprs)) /\ exprs[next_pad] \notin already /\ next_pad > 0
  <2> DEFINE entry == Result(exprs[next_pad], "TIMEOUT")
  <2>1. next_pad \in 1..Len(exprs) /\ entry \in Entries /\ results' = Append(results, entry)
    <3>1. next_pad \in 1..Len(exprs)
      BY <1>0, <1>3
    <3>2. exprs[next_pad] \in Inputs
      BY <3>1 DEF BoxTypes
    <3> QED BY <1>3, <3>1, <3>2 DEF Entries, Result, Answers
  <2>2. /\ results' \in Seq(Entries) /\ Given' = Given
        /\ \A k \in DOMAIN results : k \in DOMAIN results' /\ results'[k] = results[k]
        /\ \E k \in DOMAIN results' : results'[k] = entry
        /\ \A k \in DOMAIN results' : k \in DOMAIN results \/ results'[k] = entry
    <3>1. entry.answer = "TIMEOUT"
      BY DEF Result
    <3> HIDE DEF entry
    <3> QED BY <2>1, <3>1, GivenAfterAppend
  <2>3. BoxTypes'
    BY <1>0, <1>3, <2>2 DEF BoxTypes
  <2>4. /\ \A i \in 1..Len(exprs) : Covered(i) => Covered(i)'
        /\ \E k \in DOMAIN results' : results'[k].input = exprs[next_pad]
    BY <2>2 DEF Covered, Result
  <2>5. AnswersInOrder'
    <3>1. \A i \in 1..Given : i \in 1..Len(exprs) /\ Covered(i)
      BY <1>0, GivenIsNat DEF AnswersInOrder
    <3> QED BY <1>0, <2>2, <2>4, <3>1 DEF AnswersInOrder
  <2>6. EntriesAreTrue' /\ VerdictIsTrue'
    BY <1>3, <2>2, ProgramStays DEF EntriesAreTrue, VerdictIsTrue, Says, Truth, Result
  <2>7. PaddingCovers'
    <3>1. ASSUME NEW i \in 1..Len(exprs), i < next_pad + 1
          PROVE  \E k \in DOMAIN results' : results'[k].input = exprs[i]
      <4>1. CASE i = next_pad
        BY <2>4, <4>1
      <4>2. CASE i < next_pad
        BY <2>2, <4>2 DEF PaddingCovers, Covered
      <4> QED BY <1>0, <3>1, <4>1, <4>2
    <3>2. \A e \in already : \E k \in DOMAIN results' : results'[k].input = e
      BY <2>2 DEF PaddingCovers
    <3>3. next_pad' = next_pad + 1 /\ UNCHANGED <<threaded, exprs, already>>
      BY <1>3
    <3> QED BY <1>0, <3>1, <3>2, <3>3 DEF PaddingCovers, Covered
  <2> QED BY <1>3, <2>3, <2>5, <2>6, <2>7, ProgramStays DEF ReturnsCovered, ProcessIsGone
<1> QED BY <1>0, <1>1, <1>2, <1>3 DEF PaddingCovers

\* Of the entries for an input, run_code takes the first and run_tests the last.
LEMMA AnsweredIsOne ==
  ASSUME BoxTypes, NEW i \in 1..Len(exprs), Covered(i)
  PROVE  \E k \in DOMAIN results : results[k].input = exprs[i] /\ Answered(i) = results[k].answer
<1> DEFINE mine == {k \in DOMAIN results : results[k].input = exprs[i]}
           IsPicked(k) == \A j \in mine : IF kind = "run_code" THEN k <= j ELSE j <= k
<1>1. Len(results) \in Nat /\ mine \subseteq 1..Len(results) /\ mine # {}
  BY DEF BoxTypes, Covered
<1>2. \E k \in mine : IsPicked(k)
  <2>1. CASE kind = "run_code"
    <3>1. mine \subseteq Nat /\ mine # {}
      BY <1>1
    <3> HIDE DEF mine
    <3>2. PICK m \in mine : \A n \in mine : m <= n
      BY <3>1, Least
    <3> QED BY <2>1, <3>2
  <2>2. CASE kind # "run_code"
    <3> HIDE DEF mine
    <3>1. PICK m \in mine : \A n \in mine : n <= m
      BY <1>1, Greatest
    <3> QED BY <2>2, <3>1
  <2> QED BY <2>1, <2>2
<1>3. Answered(i) = results[CHOOSE k \in mine : IsPicked(k)].answer
  BY <1>1 DEF Answered
<1> DEFINE picked == CHOOSE k \in mine : IsPicked(k)
<1>4. picked \in mine
  BY <1>2
<1> HIDE DEF picked
<1>5. Answered(i) = results[picked].answer
  BY <1>3 DEF picked
<1> QED BY <1>4, <1>5

LEMMA AnsweredOrNot ==
  ASSUME BoxTypes, NEW i \in 1..Len(exprs)
  PROVE  IF Covered(i) THEN Answered(i) \in Answers ELSE Answered(i) = "missing"
<1>1. CASE Covered(i)
  <2>1. PICK k \in DOMAIN results : Answered(i) = results[k].answer
    BY <1>1, AnsweredIsOne
  <2>2. results[k] \in Entries
    BY DEF BoxTypes
  <2>3. results[k].answer \in Answers
    BY <2>2 DEF Entries
  <2> QED BY <1>1, <2>1, <2>3
<1>2. CASE ~Covered(i)
  <2>1. {k \in DOMAIN results : results[k].input = exprs[i]} = {}
    BY <1>2 DEF Covered
  <2> QED BY <1>2, <2>1 DEF Answered
<1> QED BY <1>1, <1>2

LEMMA AnsweredIsOwn ==
  ASSUME BoxInv, Genuine, NEW i \in 1..Len(exprs), Covered(i)
  PROVE  Says(Answered(i), exprs[i])
BY AnsweredIsOne DEF BoxInv, EntriesAreTrue

LEMMA BoxJudge == ASSUME BoxInv, Judge PROVE BoxInv'
<1> USE DEF Judge, BoxInv, call, padding
<1>1. \A i \in DOMAIN verdict' :
        /\ i \in 1..Len(exprs)
        /\ Answerable => verdict'[i] # "missing"
        /\ Genuine => verdict'[i] = "missing" \/ Says(verdict'[i], exprs[i])
  <2>1. DOMAIN exprs = 1..Len(exprs)
    BY DEF BoxTypes
  <2>2. ASSUME NEW i \in 1..Len(exprs)
        PROVE  /\ Answerable => Answered(i) # "missing"
               /\ Genuine => Answered(i) = "missing" \/ Says(Answered(i), exprs[i])
    <3>1. Answerable => Covered(i)
      BY DEF ReturnsCovered
    <3>2. "missing" \notin Answers
      BY DEF Answers
    <3>3. IF Covered(i) THEN Answered(i) \in Answers ELSE Answered(i) = "missing"
      BY AnsweredOrNot
    <3>4. Genuine /\ Covered(i) => Says(Answered(i), exprs[i])
      BY AnsweredIsOwn
    <3> QED BY <3>1, <3>2, <3>3, <3>4
  <2> QED BY <2>1, <2>2
<1>2. VerdictIsTrue'
  BY <1>1, ProgramStays DEF VerdictIsTrue, Says, Truth
<1>3. BoxTypes' /\ Given' = Given
  BY DEF BoxTypes, Given
<1>4. AnswersInOrder' /\ EntriesAreTrue'
  BY <1>3, ProgramStays DEF AnswersInOrder, Covered, EntriesAreTrue, Says, Truth
<1> QED BY <1>2, <1>3, <1>4, ProgramStays DEF PaddingCovers, ReturnsCovered, ProcessIsGone

\* The worker moves on without an answer.
LEMMA WorkerMoves ==
  ASSUME BoxInv, worker \in Running, worker' \in Running \cup {"done", "crashed"},
         worker' = "crashed" /\ threaded => Quits,
         worker' = "evaluating" => program.loads = "ok",
         worker' = "failing" => program.loads # "ok",
         worker' = "done" => Owed = 0,
         UNCHANGED <<call, caller, results, padding, verdict>>
  PROVE  BoxInv'
<1> USE DEF BoxInv, call, padding
<1>1. BoxTypes' /\ Given' = Given
  BY DEF BoxTypes, Given
<1>2. AnswersInOrder'
  <2>1. Given \in Nat /\ Len(exprs) \in Nat
    BY GivenIsNat DEF BoxTypes
  <2>2. worker' = "done" => Given = Len(exprs)
    BY <2>1 DEF Owed
  <2> QED BY <1>1, <2>2 DEF AnswersInOrder, Covered
<1>3. EntriesAreTrue' /\ VerdictIsTrue'
  BY ProgramStays DEF EntriesAreTrue, VerdictIsTrue, Says, Truth, Running
<1>4. PaddingCovers' /\ ReturnsCovered'
  BY ProgramStays DEF PaddingCovers, ReturnsCovered, Covered
<1>5. ProcessIsGone'
  BY ProgramStays DEF ProcessIsGone, BoxTypes
<1> QED BY <1>1, <1>2, <1>3, <1>4, <1>5

\* The answer is to the next expression, also when the caller is padding.
LEMMA BoxAnswers == ASSUME BoxInv, GiveAnswer PROVE BoxInv'
<1> USE DEF GiveAnswer, BoxInv, call, padding
<1> DEFINE e == exprs[Given + 1]
           answer == IF worker = "failing" THEN "raises" ELSE program.does[e]
           entry == Result(e, answer)
<1>1. /\ Given \in Nat /\ Len(exprs) \in Nat /\ Given + 1 \in 1..Len(exprs)
      /\ e \in Inputs
  <2>1. Given \in Nat /\ Len(exprs) \in Nat
    BY GivenIsNat DEF BoxTypes
  <2>2. Given + 1 \in 1..Len(exprs)
    BY <2>1 DEF Owed
  <2> QED BY <2>1, <2>2 DEF BoxTypes
<1>2. answer = Truth(e) /\ answer \in Behaviours \ {"hangs", "quits"}
  <2>1. CASE worker = "failing"
    BY <2>1 DEF EntriesAreTrue, Truth, Behaviours
  <2>2. CASE worker = "evaluating"
    <3>1. program.does[e] \notin {"hangs", "quits"}
      BY <2>2 DEF Stopped
    <3>2. program.does[e] \in Behaviours /\ program.loads = "ok"
      BY <1>1, <2>2 DEF EntriesAreTrue, BoxTypes, Program
    <3> QED BY <2>2, <3>1, <3>2 DEF Truth
  <2> QED BY <2>1, <2>2
<1>3. entry \in Entries /\ entry.answer # "TIMEOUT" /\ entry.input = e /\ entry.answer = answer
  <2>1. "TIMEOUT" \notin Behaviours
    BY DEF Behaviours
  <2>2. answer \in Answers
    BY <1>2 DEF Answers, Behaviours
  <2> HIDE DEF answer
  <2> QED BY <1>1, <1>2, <2>1, <2>2 DEF Entries, Result
<1>4. results' = Append(results, entry)
  OBVIOUS
<1> HIDE DEF entry
<1>5. /\ results' \in Seq(Entries) /\ Given' = Given + 1
      /\ \A k \in DOMAIN results : k \in DOMAIN results' /\ results'[k] = results[k]
      /\ \E k \in DOMAIN results' : results'[k] = entry
      /\ \A k \in DOMAIN results' : k \in DOMAIN results \/ results'[k] = entry
  BY <1>3, <1>4, GivenAfterAppend
<1> HIDE DEF answer
<1>6. BoxTypes'
  BY <1>5 DEF BoxTypes
<1>7. /\ \A i \in 1..Len(exprs) : Covered(i) => Covered(i)'
      /\ \E k \in DOMAIN results' : results'[k].input = exprs[Given + 1]
  BY <1>3, <1>5 DEF Covered
<1>8. AnswersInOrder'
  <2> SUFFICES ASSUME caller = "waiting" \/ threaded
               PROVE  /\ Given + 1 <= Len(exprs)
                      /\ \A i \in 1..(Given + 1) :
                           \E k \in DOMAIN results' : results'[k].input = exprs[i]
    BY <1>5 DEF AnswersInOrder, Covered
  <2>1. ASSUME NEW i \in 1..(Given + 1)
        PROVE  \E k \in DOMAIN results' : results'[k].input = exprs[i]
    <3>1. CASE i = Given + 1
      BY <1>7, <3>1
    <3>2. CASE i \in 1..Given
      <4>1. Covered(i)
        BY <3>2 DEF AnswersInOrder
      <4> QED BY <1>5, <4>1 DEF Covered
    <3> QED BY <1>1, <3>1, <3>2
  <2> QED BY <1>1, <2>1
<1>9. EntriesAreTrue'
  <2>1. Genuine => \A k \in DOMAIN results' : Says(results'[k].answer, results'[k].input)
    BY <1>2, <1>3, <1>5 DEF EntriesAreTrue, Says
  <2> QED BY <2>1, ProgramStays DEF EntriesAreTrue, Says, Truth
<1>10. PaddingCovers' /\ ReturnsCovered'
  <2>1. \A x : (\E k \in DOMAIN results : results[k].input = x)
                 => \E k \in DOMAIN results' : results'[k].input = x
    BY <1>5
  <2> QED BY <2>1, ProgramStays DEF PaddingCovers, ReturnsCovered, Covered
<1>11. ProcessIsGone' /\ VerdictIsTrue'
  BY ProgramStays DEF ProcessIsGone, VerdictIsTrue, Says, Truth
<1> QED BY <1>6, <1>8, <1>9, <1>10, <1>11

LEMMA BoxWorks == ASSUME BoxInv, Load \/ Quit \/ Finish \/ Crash PROVE BoxInv'
<1>1. CASE Load
  BY <1>1, WorkerMoves DEF Load, Running
<1>2. CASE Finish
  BY <1>2, WorkerMoves DEF Finish, Running
<1>3. CASE Crash
  BY <1>3, WorkerMoves DEF Crash, Running
<1>4. CASE Quit
  <2>1. worker \in {"loading", "evaluating"}
    BY <1>4 DEF Quit, Stopped
  <2>2. Quits
    <3>1. CASE worker = "loading"
      BY <1>4, <3>1 DEF Quit, Stopped, Quits
    <3>2. CASE worker = "evaluating"
      <4>1. /\ program.loads = "ok" /\ Given \in Nat /\ Len(exprs) \in Nat
            /\ DOMAIN exprs = 1..Len(exprs)
        BY <3>2, GivenIsNat DEF BoxInv, BoxTypes, EntriesAreTrue
      <4>2. Given + 1 \in DOMAIN exprs /\ program.does[exprs[Given + 1]] = "quits"
        BY <1>4, <3>2, <4>1 DEF Quit, Stopped, Owed
      <4> QED BY <4>1, <4>2 DEF Quits
    <3> QED BY <2>1, <3>1, <3>2
  <2> QED BY <1>4, <2>1, <2>2, WorkerMoves DEF Quit, Running
<1> QED BY <1>1, <1>2, <1>3, <1>4

LEMMA BoxNext == BoxInv /\ [Next]_vars => BoxInv'
<1> SUFFICES ASSUME BoxInv, [Next]_vars PROVE BoxInv'
  OBVIOUS
<1>1. CASE Next /\ ~Spin
  BY <1>1, BoxCall, BoxCollect, BoxRaises, BoxTimeout, BoxPad, BoxJudge, BoxAnswers, BoxWorks
     DEF Next, TheCaller, TheWorker
<1>2. CASE UNCHANGED vars
  <2>1. BoxTypes' /\ Given' = Given
    BY <1>2 DEF vars, call, padding, BoxInv, BoxTypes, Given
  <2> QED BY <1>2, <2>1, ProgramStays
         DEF vars, call, padding, BoxInv, EntriesAreTrue, AnswersInOrder, PaddingCovers, ReturnsCovered, ProcessIsGone, VerdictIsTrue, Covered, Says, Truth
<1> QED BY <1>1, <1>2 DEF Spin

LEMMA BoxKept == Spec => []BoxInv
BY BoxInit, BoxNext, PTL DEF Spec

\* However a launch ends, and however the answers of a thread fall together
\* with the padding (code_runner.py:156), no test is left without a result by
\* any but a program that prints a response or ends the thread.
THEOREM AllAnswered == Spec => []EveryTestAnswered
<1>1. BoxInv => EveryTestAnswered
  <2> SUFFICES ASSUME BoxInv, Answerable
               PROVE  /\ caller = "returned" => \A i \in DOMAIN exprs : Answered(i) # "missing"
                      /\ \A i \in DOMAIN verdict : verdict[i] # "missing"
    BY DEF EveryTestAnswered, Answerable
  <2>1. \A i \in DOMAIN verdict : verdict[i] # "missing"
    BY DEF BoxInv, VerdictIsTrue
  <2>2. ASSUME caller = "returned", NEW i \in DOMAIN exprs PROVE Answered(i) # "missing"
    <3>1. i \in 1..Len(exprs)
      BY DEF BoxInv, BoxTypes
    <3>2. Covered(i)
      BY <2>2, <3>1 DEF BoxInv, ReturnsCovered
    <3> QED BY <3>1, <3>2, AnsweredOrNot DEF BoxInv, Answers
  <2> QED BY <2>1, <2>2
<1> QED BY <1>1, BoxKept, PTL

\* What a caller is told of a value was said by this program of this input
\* (code_runner.py:257 matches results with tests by their input), if the
\* program prints no response of its own.
THEOREM AnswersTrue == Spec => []AnswersAreItsOwn
<1>1. BoxInv => AnswersAreItsOwn
  BY DEF BoxInv, VerdictIsTrue, Says, Truth, AnswersAreItsOwn, Behaviours
<1> QED BY <1>1, BoxKept, PTL

\* code_runner.py:9: no worker process outlives the call it was launched for.
THEOREM NoneOutlives == Spec => []NoWorkerOutlivesItsCall
<1>1. BoxInv => NoWorkerOutlivesItsCall
  BY DEF BoxInv, ProcessIsGone, NoWorkerOutlivesItsCall
<1> QED BY <1>1, BoxKept, PTL

-----------------------------------------------------------------------------
(* The process sandbox and Grading: what one launch tells its caller is of *)
(* one kind.                                                               *)

Distinct(es) == \A i, j \in DOMAIN es : es[i] = es[j] => i = j

Told == [i \in DOMAIN exprs |-> results[i].answer]

\* While the caller waits, the list is the program's answers so far.
AnswersSoFar ==
  ~threaded /\ caller = "waiting" =>
    /\ Len(results) <= Len(exprs)
    /\ \A k \in 1..Len(results) : results[k] = Result(exprs[k], Truth(exprs[k]))
    /\ worker \in {"failing", "evaluating", "done"} => program.loads \in {"ok", "raises"}
    /\ worker = "done" => Len(results) = Len(exprs)

\* What it gets is one result for each expression, all of one kind.
OneKind ==
  Genuine /\ ~threaded /\ caller = "returned" =>
    /\ Len(results) = Len(exprs)
    /\ \A k \in 1..Len(results) : results[k].input = exprs[k]
    /\ Told \in Promise!Verdicts(program, exprs)

LaunchInv == BoxInv /\ Distinct(exprs) /\ AnswersSoFar /\ OneKind

LEMMA ResultFields ==
  \A e, answer : Result(e, answer).input = e /\ Result(e, answer).answer = answer
BY DEF Result

LEMMA LaunchInit == Init => LaunchInv
BY BoxInit DEF Init, LaunchInv, Distinct, AnswersSoFar, OneKind

LEMMA TestsAreDistinct == Distinct(Tests) /\ \A e \in Inputs : Distinct(<<e>>)
<1>1. DOMAIN Tests = 1..Len(Tests)
  BY SandboxAssumption
<1>2. \A e : DOMAIN <<e>> = {1}
  OBVIOUS
<1> QED BY <1>1, <1>2, SandboxAssumption DEF Distinct

\* A process answers in order and pads nothing.
LEMMA GivenIsLength ==
  ASSUME BoxTypes, \A k \in 1..Len(results) : results[k].answer # "TIMEOUT"
  PROVE  Given = Len(results)
<1>1. Len(results) \in Nat /\ DOMAIN results = 1..Len(results)
  BY DEF BoxTypes
<1>2. Own = 1..Len(results)
  BY <1>1 DEF Own
<1>3. Cardinality(1..Len(results)) = Len(results)
  <2>1. Cardinality(1..Len(results)) = IF 1 > Len(results) THEN 0 ELSE Len(results) - 1 + 1
    BY <1>1, FS_Interval
  <2> QED BY <1>1, <2>1
<1> QED BY <1>2, <1>3, GivenIsNat

\* One failure for everything.
LEMMA FailureIsOneKind ==
  ASSUME BoxInv, NEW failure \in {"TIMEOUT", "ERROR"},
         results' = EverythingIs(failure), UNCHANGED <<threaded, program, exprs>>
  PROVE  OneKind'
<1>1. /\ DOMAIN results' = 1..Len(exprs) /\ Len(results') = Len(exprs)
      /\ \A k \in 1..Len(exprs) : results'[k] = Result(exprs[k], failure)
      /\ DOMAIN exprs = 1..Len(exprs)
  <2>1. exprs \in Seq(Inputs)
    BY DEF BoxInv, BoxTypes
  <2>2. DOMAIN exprs = 1..Len(exprs) /\ Len(exprs) \in Nat
    BY <2>1
  <2>3. results' = [k \in 1..Len(exprs) |-> Result(exprs[k], failure)]
    BY <2>2 DEF EverythingIs
  <2>4. Len(results') = Len(exprs)
    BY <2>2, <2>3
  <2> QED BY <2>2, <2>3, <2>4
<1>2. Told' = [i \in DOMAIN exprs |-> failure]
  BY <1>1 DEF Told, Result
<1>3. program.prints # "response" => Told' \in Promise!Verdicts(program, exprs)
  BY <1>2 DEF Promise!Verdicts
<1>4. Genuine' /\ ~threaded => program.prints # "response"
  BY ProgramStays DEF Genuine
<1> QED BY <1>1, <1>3, <1>4 DEF OneKind, Result

\* All answers, if nothing hung.
LEMMA AnswersAreOneKind ==
  ASSUME LaunchInv, Collect, ~threaded, results' = results, worker = "done"
  PROVE  OneKind'
<1> USE DEF Collect, LaunchInv, call, padding
<1>1. /\ Len(results) = Len(exprs) /\ program.loads \in {"ok", "raises"}
      /\ \A k \in 1..Len(results) : results[k] = Result(exprs[k], Truth(exprs[k]))
  BY DEF AnswersSoFar
<1>2. DOMAIN exprs = 1..Len(exprs) /\ DOMAIN results = 1..Len(results)
  BY DEF BoxInv, BoxTypes
<1>3. \A k \in DOMAIN exprs : Truth(exprs[k]) \notin {"hangs", "quits"}
  <2> SUFFICES ASSUME NEW k \in DOMAIN exprs PROVE Truth(exprs[k]) \notin {"hangs", "quits"}
    OBVIOUS
  <2>1. results[k] \in Entries /\ results[k].answer = Truth(exprs[k])
    BY <1>1, <1>2 DEF BoxInv, BoxTypes, Result
  <2> QED BY <2>1 DEF Entries, Answers, Behaviours
<1>4. Promise!Stops(program, exprs)
  BY <1>1, <1>3 DEF Promise!Stops, Truth
<1>5. Told = Promise!AsItBehaves(program, exprs)
  BY <1>1, <1>2 DEF Told, Promise!AsItBehaves, Truth, Result
<1>6. program.prints # "response" => Told \in Promise!Verdicts(program, exprs)
  BY <1>4, <1>5 DEF Promise!Verdicts
<1>7. Told' = Told /\ UNCHANGED <<threaded, program, exprs>>
  <2>1. threaded' = threaded /\ program' = program /\ exprs' = exprs
    OBVIOUS
  <2>2. Told' = [i \in DOMAIN exprs' |-> results'[i].answer]
    BY DEF Told
  <2> QED BY <2>1, <2>2 DEF Told
<1>8. \A k \in 1..Len(results) : results[k].input = exprs[k]
  BY <1>1, ResultFields
<1>9. Genuine' /\ ~threaded => program.prints # "response"
  BY <1>7, ProgramStays DEF Genuine
<1> QED BY <1>1, <1>6, <1>7, <1>8, <1>9 DEF OneKind

LEMMA LaunchCaller ==
  ASSUME LaunchInv, BoxInv', Call \/ TheCaller
  PROVE  LaunchInv'
<1> USE DEF LaunchInv, call, padding
<1>1. CASE Call
  <2>1. Distinct(exprs')
    BY <1>1, TestsAreDistinct DEF Call
  <2>2. results' = <<>> /\ caller' = "waiting" /\ worker' = "loading" /\ Len(exprs') \in Nat
    BY <1>1 DEF Call, BoxInv, BoxTypes
  <2> QED BY <2>1, <2>2 DEF AnswersSoFar, OneKind
<1>2. CASE LaunchFails
  BY <1>2, FailureIsOneKind DEF LaunchFails, AnswersSoFar, Distinct
<1>3. CASE Collect
  <2>1. CASE results' = EverythingIs("ERROR")
    BY <1>3, <2>1, FailureIsOneKind DEF Collect, AnswersSoFar, Distinct
  <2>2. CASE results' = results /\ worker = "done" /\ ~threaded
    BY <1>3, <2>2, AnswersAreOneKind DEF Collect, AnswersSoFar, Distinct
  <2>3. CASE threaded
    BY <1>3, <2>3 DEF Collect, AnswersSoFar, OneKind, Distinct
  <2>4. CASE ~threaded /\ program.prints = "response"
    BY <1>3, <2>4 DEF Collect, AnswersSoFar, OneKind, Distinct, Genuine
  <2> QED BY <1>3, <2>1, <2>2, <2>3, <2>4 DEF Collect, Collected
<1>4. CASE TimeoutKills
  BY <1>4, FailureIsOneKind DEF TimeoutKills, AnswersSoFar, Distinct
<1>5. CASE TimeoutPads
  BY <1>5 DEF TimeoutPads, AnswersSoFar, OneKind, Distinct
<1>6. CASE Pad
  BY <1>6 DEF Pad, AnswersSoFar, OneKind, Distinct, BoxInv, PaddingCovers
<1>7. CASE Judge
  BY <1>7 DEF Judge, AnswersSoFar, OneKind, Distinct
<1>8. CASE LaunchRaises \/ CollectRaises \/ JudgeRaises
  BY <1>8 DEF LaunchRaises, CollectRaises, JudgeRaises, AnswersSoFar, OneKind, Distinct
<1> QED BY <1>1, <1>2, <1>3, <1>4, <1>5, <1>6, <1>7, <1>8 DEF TheCaller

\* A process works only while its caller waits.
LEMMA LaunchWorker ==
  ASSUME LaunchInv, BoxInv', Load \/ GiveAnswer \/ Quit \/ Finish \/ Crash
  PROVE  LaunchInv'
<1> USE DEF LaunchInv, call, padding
<1>1. UNCHANGED <<threaded, exprs, program, caller>> /\ Distinct(exprs')
  BY DEF Load, GiveAnswer, Quit, Finish, Crash, Distinct
<1>2. CASE threaded
  BY <1>1, <1>2 DEF AnswersSoFar, OneKind
<1>3. CASE ~threaded
  <2>1. caller = "waiting" /\ caller' = "waiting"
    BY <1>1, <1>3
       DEF BoxInv, ProcessIsGone, Load, GiveAnswer, Quit, Stopped, Finish, Crash, Running
  <2>2. OneKind'
    BY <2>1 DEF OneKind
  <2>3. /\ Len(results) \in Nat /\ Len(exprs) \in Nat /\ Len(results) <= Len(exprs)
        /\ \A k \in 1..Len(results) : results[k] = Result(exprs[k], Truth(exprs[k]))
    BY <1>3, <2>1 DEF AnswersSoFar, BoxInv, BoxTypes
  <2>4. Given = Len(results)
    <3>1. \A k \in 1..Len(results) : results[k].answer # "TIMEOUT"
      <4> SUFFICES ASSUME NEW k \in 1..Len(results) PROVE results[k].answer # "TIMEOUT"
        OBVIOUS
      <4>1. exprs[k] \in Inputs
        BY <2>3 DEF BoxInv, BoxTypes
      <4>2. Truth(exprs[k]) \in Behaviours
        BY <4>1, TruthType DEF BoxInv
      <4>3. results[k].answer = Truth(exprs[k])
        BY <2>3, ResultFields
      <4> QED BY <4>2, <4>3 DEF Behaviours
    <3> QED BY <3>1, GivenIsLength DEF BoxInv
  <2>5. CASE Load
    BY <1>1, <1>3, <2>1, <2>2, <2>3, <2>5 DEF Load, AnswersSoFar, Truth
  <2>6. CASE Crash \/ Quit
    BY <1>1, <1>3, <2>1, <2>2, <2>3, <2>6 DEF Crash, Quit, AnswersSoFar, Truth
  <2>7. CASE Finish
    <3>1. Len(results) = Len(exprs)
      BY <2>3, <2>4, <2>7 DEF Finish, Owed
    <3> QED BY <1>1, <1>3, <2>1, <2>2, <2>3, <2>7, <3>1 DEF Finish, AnswersSoFar, Truth
  <2>8. CASE GiveAnswer
    <3> DEFINE n == Len(results) + 1
    <3>1. n <= Len(exprs)
      BY <2>3, <2>4, <2>8 DEF GiveAnswer, Owed
    <3>2. results' = Append(results, Result(exprs[n], Truth(exprs[n])))
      BY <2>4, <2>8 DEF GiveAnswer, BoxInv, EntriesAreTrue, Truth
    <3>3. results \in Seq(Entries)
      BY DEF BoxInv, BoxTypes
    <3>4. /\ Len(results') = n
          /\ results'[n] = Result(exprs[n], Truth(exprs[n]))
          /\ \A k \in 1..Len(results) : results'[k] = results[k]
      BY <3>2, <3>3
    <3>5. \A k \in 1..Len(results') : results'[k] = Result(exprs[k], Truth(exprs[k]))
      BY <2>3, <3>4
    <3>6. worker' = worker /\ worker # "done"
      BY <2>8 DEF GiveAnswer
    <3> QED BY <1>1, <1>3, <2>1, <2>2, <2>3, <3>1, <3>4, <3>5, <3>6 DEF AnswersSoFar, Truth
  <2> QED BY <2>5, <2>6, <2>7, <2>8
<1> QED BY <1>2, <1>3

LEMMA LaunchNext == LaunchInv /\ [Next]_vars => LaunchInv'
<1> SUFFICES ASSUME LaunchInv, [Next]_vars, BoxInv' PROVE LaunchInv'
  BY BoxNext DEF LaunchInv
<1>1. CASE Next /\ ~Spin
  BY <1>1, LaunchCaller, LaunchWorker DEF Next, TheWorker
<1>2. CASE UNCHANGED vars
  BY <1>2, ProgramStays DEF vars, call, LaunchInv, Distinct, AnswersSoFar, OneKind, Told, Truth
<1> QED BY <1>1, <1>2 DEF Spin

\* For each expression the list has just one entry.
LEMMA JudgedIsTold ==
  ASSUME LaunchInv, Genuine, ~threaded, caller = "returned"
  PROVE  [i \in DOMAIN exprs |-> Answered(i)] = Told
<1> SUFFICES ASSUME NEW i \in DOMAIN exprs PROVE Answered(i) = results[i].answer
  BY DEF Told
<1>1. /\ DOMAIN exprs = 1..Len(exprs) /\ DOMAIN results = 1..Len(exprs)
      /\ \A k \in 1..Len(exprs) : results[k].input = exprs[k]
  BY DEF LaunchInv, OneKind, BoxInv, BoxTypes
<1> DEFINE mine == {k \in DOMAIN results : results[k].input = exprs[i]}
<1>2. mine = {i}
  BY <1>1 DEF LaunchInv, Distinct
<1>3. i \in Nat
  <2>1. exprs \in Seq(Inputs)
    BY DEF LaunchInv, BoxInv, BoxTypes
  <2> QED BY <2>1
<1>4. (CHOOSE k \in mine : \A j \in mine : IF kind = "run_code" THEN k <= j ELSE j <= k) = i
  <2> HIDE DEF mine
  <2> QED BY <1>2, <1>3
<1> QED BY <1>2, <1>4 DEF Answered

\* Every step of the process sandbox is a step of Grading, on which the
\* environment is modelled, or one its caller does not see: what code_runner.py:55
\* returns, when it returns and the program prints no response of its own, is
\* one answer per expression, and never answers mixed with failures.
THEOREM StepsKeepPromise ==
  Spec => Promise!Init /\ [][Promise!Next]_(Promise!gvars)
<1>1. Init => Promise!Init
  BY DEF Init, Promise!Init
<1>2. LaunchInv /\ [Next]_vars => [Promise!Next]_(Promise!gvars)
  <2> SUFFICES ASSUME LaunchInv, [Next]_vars PROVE [Promise!Next]_(Promise!gvars)
    OBVIOUS
  <2>1. CASE threaded /\ threaded' = threaded
    BY <2>1 DEF Promise!gvars
  <2>2. CASE ~threaded /\ Call
    BY <2>2 DEF Call, Promise!Next, Promise!Ask
  <2>3. CASE ~threaded /\ Judge
    <3>1. CASE Genuine
      <4>1. verdict' \in Promise!Verdicts(program, exprs)
        BY <2>3, <3>1, JudgedIsTold DEF Judge, LaunchInv, OneKind
      <4> QED BY <2>3, <4>1 DEF Judge, call, Promise!Next, Promise!Answer
    <3>2. CASE ~Genuine
      <4>1. program.prints = "response"
        BY <2>3, <3>2 DEF Genuine
      <4>2. \A i \in DOMAIN exprs :
              Answered(i) \in {"right", "wrong", "raises", "TIMEOUT", "ERROR", "missing"}
        <5> SUFFICES ASSUME NEW i \in DOMAIN exprs PROVE Answered(i) \in Answers \cup {"missing"}
          BY DEF Answers
        <5>1. i \in 1..Len(exprs)
          BY DEF LaunchInv, BoxInv, BoxTypes
        <5> QED BY <5>1, AnsweredOrNot DEF LaunchInv, BoxInv
      <4>3. verdict' \in Promise!Verdicts(program, exprs)
        BY <2>3, <4>1, <4>2 DEF Judge, Promise!Verdicts, Promise!Anything
      <4> QED BY <2>3, <4>3 DEF Judge, call, Promise!Next, Promise!Answer
    <3> QED BY <3>1, <3>2
  <2>8. CASE ~threaded /\ (LaunchRaises \/ CollectRaises \/ JudgeRaises)
    <3>1. /\ caller \notin {"idle", "raised"} /\ caller' = "raised"
          /\ UNCHANGED <<threaded, program, exprs, verdict>>
      BY <2>8 DEF LaunchRaises, CollectRaises, JudgeRaises, call
    <3> QED BY <2>8, <3>1 DEF Promise!Next, Promise!Answer
  <2>4. CASE ~threaded /\ (LaunchFails \/ Collect \/ TimeoutKills \/ TimeoutPads \/ Pad)
    <3>1. /\ caller \notin {"idle", "raised"} /\ caller' \notin {"idle", "raised"}
          /\ UNCHANGED <<threaded, program, exprs, verdict>>
      BY <2>4 DEF LaunchFails, Collect, TimeoutKills, TimeoutPads, Pad, call, TimeIsUp,
                  LaunchInv, BoxInv, PaddingCovers
    <3> QED BY <2>4, <3>1 DEF Promise!gvars
  <2>5. CASE ~threaded /\ TheWorker
    BY <2>5
       DEF TheWorker, Load, GiveAnswer, Quit, Finish, Spin, Crash, vars, call, Promise!gvars
  <2>6. CASE UNCHANGED vars
    BY <2>6 DEF vars, call, Promise!gvars
  <2>7. threaded' = threaded
    BY DEF Next, Call, TheCaller, TheWorker, LaunchFails, LaunchRaises, Collect, CollectRaises,
           TimeoutKills, TimeoutPads, Pad, Judge, JudgeRaises, Load, GiveAnswer, Quit, Finish,
           Spin, Crash, vars, call
  <2> QED BY <2>1, <2>2, <2>3, <2>4, <2>5, <2>6, <2>7, <2>8 DEF Next, TheCaller
<1> QED BY <1>1, <1>2, LaunchInit, LaunchNext, PTL DEF Spec

-----------------------------------------------------------------------------
(* How long the list may grow.                                             *)

\* The rounds of the padding loop that are over.
Rounds == IF next_pad = 0 THEN 0 ELSE next_pad - 1

CallTyped ==
  /\ threaded \in Modes /\ kind \in Kinds /\ program \in Programs
  /\ exprs \in {<<>>, Tests} \cup {<<e>> : e \in Inputs}
  /\ already \subseteq Inputs
  /\ \A i \in DOMAIN verdict : verdict[i] \in Answers \cup {"missing"}

\* Each entry is an answer of the worker's or comes from a round of the loop,
\* and there is no more of either than there are expressions.
LengthInv ==
  /\ next_pad <= Len(exprs) + 1
  /\ caller = "waiting" => next_pad = 0
  /\ caller = "waiting" \/ threaded => Len(results) <= Given + Rounds
  /\ ~threaded => Len(results) <= Len(exprs)

GrowthInv == CallTyped /\ LengthInv

LEMMA GrowthInit == Init => GrowthInv
<1> SUFFICES ASSUME Init PROVE GrowthInv
  OBVIOUS
<1> USE SandboxAssumption DEF Init
<1>1. DOMAIN verdict = {} /\ DOMAIN results = {} /\ Len(exprs) = 0 /\ Len(results) = 0
  OBVIOUS
<1>2. CallTyped
  BY <1>1 DEF CallTyped
<1>3. Given = 0
  <2>1. Own = {}
    BY <1>1 DEF Own
  <2> QED BY <2>1, FS_EmptySet DEF Given, Own
<1> QED BY <1>1, <1>2, <1>3 DEF GrowthInv, LengthInv, Rounds

LEMMA GrowthCall == ASSUME GrowthInv, Call PROVE GrowthInv'
<1> USE DEF Call
<1>1. DOMAIN verdict' = {} /\ DOMAIN results' = {} /\ Len(results') = 0 /\ next_pad' = 0
  OBVIOUS
<1>2. CallTyped'
  BY <1>1 DEF GrowthInv, CallTyped
<1>3. Len(exprs') \in Nat
  BY TestsAreInputs
<1>4. Given' = 0
  <2>1. Own' = {}
    BY <1>1 DEF Own
  <2>2. Given' = Cardinality(Own')
    BY DEF Given, Own
  <2> QED BY <2>1, <2>2, FS_EmptySet
<1>5. LengthInv'
  BY <1>1, <1>3, <1>4 DEF LengthInv, Rounds
<1> QED BY <1>2, <1>5 DEF GrowthInv

\* The call does not change, and the list at most as said.
LEMMA GrowthReturns ==
  ASSUME BoxInv, GrowthInv,
         Collect \/ CollectRaises \/ LaunchFails \/ LaunchRaises \/ TimeoutKills
  PROVE  GrowthInv'
<1>0. /\ UNCHANGED <<threaded, kind, program, exprs, already, next_pad, verdict>>
      /\ caller = "waiting" /\ caller' \in {"returned", "raised"}
  BY DEF Collect, CollectRaises, LaunchFails, LaunchRaises, TimeoutKills, TimeIsUp, call, padding
<1>1. Len(exprs) \in Nat /\ DOMAIN exprs = 1..Len(exprs)
  BY DEF BoxInv, BoxTypes
<1>2. \A answer : Len(EverythingIs(answer)) = Len(exprs)
  BY <1>1 DEF EverythingIs
<1>3. CallTyped'
  BY <1>0 DEF GrowthInv, CallTyped
<1>4. CASE results' = results
  <2>1. Given' = Given
    BY <1>4 DEF Given
  <2> QED BY <1>0, <1>3, <1>4, <2>1 DEF GrowthInv, LengthInv, Rounds
<1>5. CASE ~threaded /\ \E answer : results' = EverythingIs(answer)
  <2>1. Len(results') = Len(exprs)
    BY <1>2, <1>5
  <2> QED BY <1>0, <1>1, <1>3, <1>5, <2>1 DEF GrowthInv, LengthInv
<1>6. CASE ~threaded /\ results' \in Claims
  <2>1. Len(results') <= Len(exprs)
    BY <1>6, ClaimsAreTyped DEF BoxInv
  <2> QED BY <1>0, <1>1, <1>3, <1>6, <2>1 DEF GrowthInv, LengthInv
<1> QED BY <1>4, <1>5, <1>6
     DEF Collect, CollectRaises, Collected, LaunchFails, LaunchRaises, TimeoutKills

LEMMA GrowthTimeoutPads == ASSUME BoxInv, GrowthInv, TimeoutPads PROVE GrowthInv'
<1> USE DEF TimeoutPads, call
<1>1. already' \subseteq Inputs
  <2>1. \A k \in DOMAIN results : results[k] \in Entries
    BY DEF BoxInv, BoxTypes
  <2>2. \A k \in DOMAIN results : results[k].input \in Inputs
    BY <2>1 DEF Entries
  <2> QED BY <2>2
<1>2. CallTyped'
  BY <1>1 DEF GrowthInv, CallTyped
<1>3. Given' = Given /\ Rounds' = Rounds
  BY DEF Given, Rounds, GrowthInv, LengthInv, TimeIsUp
<1>4. Len(exprs) \in Nat
  BY DEF BoxInv, BoxTypes
<1>5. LengthInv'
  BY <1>3, <1>4 DEF GrowthInv, LengthInv, TimeIsUp
<1> QED BY <1>2, <1>5 DEF GrowthInv

LEMMA GrowthPad == ASSUME BoxInv, GrowthInv, Pad PROVE GrowthInv'
<1> USE DEF Pad, call
<1>0. /\ threaded /\ Len(exprs) \in Nat /\ next_pad \in Nat /\ next_pad > 0
      /\ Given \in Nat /\ Len(results) \in Nat
      /\ UNCHANGED <<threaded, exprs>> /\ caller' # "waiting"
  BY GivenIsNat DEF BoxInv, PaddingCovers, BoxTypes
<1>1. CallTyped'
  BY DEF GrowthInv, CallTyped
<1>2. CASE next_pad > Len(exprs)
  <2>1. Given' = Given /\ Rounds' = Rounds
    BY <1>2 DEF Given, Rounds
  <2> QED BY <1>0, <1>1, <1>2, <2>1 DEF GrowthInv, LengthInv
<1>3. CASE ~(next_pad > Len(exprs))
  <2>1. Given' = Given /\ Len(results') <= Len(results) + 1
    <3>1. CASE results' = results
      BY <1>0, <3>1 DEF Given
    <3>2. CASE results' = Append(results, Result(exprs[next_pad], "TIMEOUT"))
      <4> DEFINE entry == Result(exprs[next_pad], "TIMEOUT")
      <4>1. exprs[next_pad] \in Inputs
        BY <1>0, <1>3 DEF BoxInv, BoxTypes
      <4>2. entry \in Entries /\ entry.answer = "TIMEOUT"
        BY <4>1 DEF Entries, Result, Answers
      <4>3. results' = Append(results, entry)
        BY <3>2
      <4> HIDE DEF entry
      <4>4. Given' = Given
        BY <4>2, <4>3, GivenAfterAppend DEF BoxInv
      <4>5. Len(results') = Len(results) + 1
        BY <4>2, <4>3 DEF BoxInv, BoxTypes
      <4> QED BY <1>0, <4>4, <4>5
    <3> QED BY <1>3, <3>1, <3>2
  <2>2. next_pad' = next_pad + 1 /\ Rounds' = Rounds + 1 /\ Rounds \in Nat
    BY <1>0, <1>3 DEF Rounds
  <2>3. Len(results') \in Nat
    BY <1>0, <1>3 DEF BoxInv, BoxTypes
  <2>4. LengthInv'
    BY <1>0, <1>3, <2>1, <2>2, <2>3 DEF GrowthInv, LengthInv
  <2> QED BY <1>1, <2>4 DEF GrowthInv
<1> QED BY <1>2, <1>3

LEMMA GrowthJudge == ASSUME BoxInv, GrowthInv, Judge \/ JudgeRaises PROVE GrowthInv'
<1> USE DEF Judge, JudgeRaises, call, padding
<1>1. ASSUME NEW i \in DOMAIN verdict' PROVE verdict'[i] \in Answers \cup {"missing"}
  <2>1. CASE Judge
    <3>1. i \in 1..Len(exprs) /\ verdict'[i] = Answered(i)
      BY <1>1, <2>1 DEF BoxInv, BoxTypes
    <3> QED BY <3>1, AnsweredOrNot DEF BoxInv
  <2>2. CASE JudgeRaises
    BY <1>1, <2>2 DEF GrowthInv, CallTyped
  <2> QED BY <2>1, <2>2
<1>2. CallTyped'
  BY <1>1 DEF GrowthInv, CallTyped
<1>3. Given' = Given
  BY DEF Given
<1>4. LengthInv'
  BY <1>3 DEF GrowthInv, LengthInv, Rounds
<1> QED BY <1>2, <1>4 DEF GrowthInv

LEMMA GrowthWorker == ASSUME BoxInv, GrowthInv, TheWorker PROVE GrowthInv'
<1>0. UNCHANGED <<threaded, kind, program, exprs, caller, already, next_pad, verdict>>
  BY DEF TheWorker, Load, GiveAnswer, Spin, Quit, Finish, Crash, call, padding, vars
<1>1. CallTyped'
  BY <1>0 DEF GrowthInv, CallTyped
<1>2. CASE results' = results
  <2>1. Given' = Given
    BY <1>2 DEF Given
  <2> QED BY <1>0, <1>1, <1>2, <2>1 DEF GrowthInv, LengthInv, Rounds
<1>3. CASE GiveAnswer
  <2> USE DEF BoxInv
  <2>1. /\ Given \in Nat /\ Len(exprs) \in Nat /\ Len(results) \in Nat
        /\ Given + 1 \in 1..Len(exprs)
    <3>1. Given \in Nat /\ Len(exprs) \in Nat /\ Len(results) \in Nat
      BY GivenIsNat DEF BoxTypes
    <3> QED BY <1>3, <3>1 DEF GiveAnswer, Owed
  <2>2. Given' = Given + 1 /\ Len(results') = Len(results) + 1
    <3> DEFINE e == exprs[Given + 1]
               answer == IF worker = "failing" THEN "raises" ELSE program.does[e]
               entry == Result(e, answer)
    <3>1. e \in Inputs
      BY <2>1 DEF BoxTypes
    <3>2. answer \in Behaviours \ {"hangs", "quits"}
      <4>1. CASE worker = "evaluating"
        <5>1. program.does[e] \notin {"hangs", "quits"}
          BY <1>3, <4>1 DEF GiveAnswer, Stopped
        <5> QED BY <3>1, <4>1, <5>1 DEF BoxTypes, Program
      <4>2. CASE worker = "failing"
        BY <4>2 DEF Behaviours
      <4> QED BY <1>3, <4>1, <4>2 DEF GiveAnswer
    <3>3. entry \in Entries /\ entry.answer # "TIMEOUT"
      <4> HIDE DEF answer
      <4> QED BY <3>1, <3>2 DEF Entries, Result, Answers, Behaviours
    <3>4. results' = Append(results, entry)
      BY <1>3 DEF GiveAnswer
    <3> HIDE DEF entry
    <3>5. Given' = Given + 1
      BY <3>3, <3>4, GivenAfterAppend
    <3>6. Len(results') = Len(results) + 1
      BY <3>3, <3>4 DEF BoxTypes
    <3> QED BY <3>5, <3>6
  <2>3. ~threaded => caller = "waiting"
    BY <1>3 DEF GiveAnswer, ProcessIsGone, Running
  <2>4. Rounds' = Rounds /\ Rounds \in Int /\ (caller = "waiting" => Rounds = 0)
    BY <1>0 DEF Rounds, GrowthInv, LengthInv, BoxTypes
  <2>5. LengthInv'
    BY <1>0, <2>1, <2>2, <2>3, <2>4 DEF GrowthInv, LengthInv
  <2> QED BY <1>1, <2>5 DEF GrowthInv
<1> QED BY <1>2, <1>3 DEF TheWorker, Load, Spin, Quit, Finish, Crash, vars

LEMMA GrowthNext == BoxInv /\ GrowthInv /\ [Next]_vars => GrowthInv'
<1> SUFFICES ASSUME BoxInv, GrowthInv, [Next]_vars PROVE GrowthInv'
  OBVIOUS
<1>1. CASE Next
  BY <1>1, GrowthCall, GrowthReturns, GrowthTimeoutPads, GrowthPad, GrowthJudge, GrowthWorker
     DEF Next, TheCaller
<1>2. CASE UNCHANGED vars
  BY <1>2 DEF vars, call, padding, GrowthInv, CallTyped, LengthInv, Rounds, Given
<1> QED BY <1>1, <1>2

\* However late a thread's answers fall between the rounds of the padding loop
\* (code_runner.py:156), the list it shares with the caller is never longer
\* than two entries for each expression, a process's than one; and the other
\* variables keep their types.
THEOREM BoxKeepsTypes == Spec => []TypeOK
<1>1. BoxInv /\ GrowthInv => TypeOK
  <2> SUFFICES ASSUME BoxInv, GrowthInv PROVE TypeOK
    OBVIOUS
  <2> USE SandboxAssumption DEF BoxInv
  <2>1. Len(exprs) <= Len(Tests) /\ Len(exprs) \in Nat /\ Len(Tests) \in Nat
    <3>1. exprs \in {<<>>, Tests} \cup {<<e>> : e \in Inputs}
      BY DEF GrowthInv, CallTyped
    <3> QED BY <3>1
  <2>2. results \in Seq([input : Inputs, answer : Answers]) /\ Len(results) \in Nat
    BY DEF BoxTypes, Entries
  <2>3. next_pad \in 0..(Len(Tests) + 1)
    BY <2>1 DEF BoxTypes, GrowthInv, LengthInv
  <2>4. Len(results) <= (IF threaded THEN 2 ELSE 1) * Len(Tests)
    <3>1. CASE threaded
      <4>1. Given <= Len(exprs) /\ Given \in Nat
        BY <3>1, GivenIsNat DEF AnswersInOrder
      <4>2. Rounds <= Len(exprs) /\ Rounds \in Nat
        BY <2>1 DEF Rounds, GrowthInv, LengthInv, BoxTypes
      <4> QED BY <2>1, <2>2, <3>1, <4>1, <4>2 DEF GrowthInv, LengthInv
    <3>2. CASE ~threaded
      BY <2>1, <2>2, <3>2 DEF GrowthInv, LengthInv
    <3> QED BY <3>1, <3>2
  <2> QED BY <2>2, <2>3, <2>4 DEF TypeOK, BoxTypes, GrowthInv, CallTyped
<1> QED BY <1>1, BoxInit, BoxNext, GrowthInit, GrowthNext, PTL DEF Spec
=============================================================================
