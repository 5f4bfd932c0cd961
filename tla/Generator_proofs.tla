------------------------- MODULE Generator_proofs --------------------------
(***************************************************************************)
(* The generator, for any functions, bugs, difficulties and bounds: every  *)
(* scenario it makes is one that the environment and its graders can work  *)
(* with, and a seed decides the scenarios of both evaluations as long as   *)
(* every launch is in time.                                                *)
(***************************************************************************)
EXTENDS Generator, FiniteSetTheorems, SequenceTheorems, TLAPS

-----------------------------------------------------------------------------
(* What is in order.                                                       *)

\* The sets upto[i] order S: each is a proper part of the next.
IsChain(S, upto) ==
  /\ \A i \in S : upto[i] \in SUBSET S /\ i \in upto[i]
  /\ \A i, j \in S : i # j =>
       /\ upto[i] # upto[j]
       /\ upto[i] \subseteq upto[j] \/ upto[j] \subseteq upto[i]

\* A finite set in an order is a sequence of its members that leaves none
\* out.
LEMMA OrderedIsComplete ==
  ASSUME NEW S, IsFiniteSet(S), NEW upto, IsChain(S, upto)
  PROVE  /\ Cardinality(S) \in Nat
         /\ Ordered(S, upto) \in Seq(S)
         /\ Len(Ordered(S, upto)) = Cardinality(S)
         /\ \A i \in S : \E a \in 1..Cardinality(S) : Ordered(S, upto)[a] = i
<1> DEFINE n == Cardinality(S)
           rank == [i \in S |-> Cardinality(upto[i])]
<1>0. /\ \A i \in S : upto[i] \in SUBSET S /\ i \in upto[i]
      /\ \A i, j \in S : i # j =>
           /\ upto[i] # upto[j]
           /\ upto[i] \subseteq upto[j] \/ upto[j] \subseteq upto[i]
  BY DEF IsChain
<1>1. n \in Nat
  BY FS_CardinalityType
<1>2. ASSUME NEW i \in S PROVE rank[i] \in 1..n /\ IsFiniteSet(upto[i])
  <2>1. IsFiniteSet(upto[i]) /\ Cardinality(upto[i]) <= n
    BY <1>0, FS_Subset
  <2>2. Cardinality(upto[i]) \in Nat
    BY <2>1, FS_CardinalityType
  <2>3. Cardinality(upto[i]) # 0
    BY <1>0, <2>1, FS_EmptySet
  <2> QED BY <1>1, <2>1, <2>2, <2>3
<1>3. ASSUME NEW i \in S, NEW j \in S, rank[i] = rank[j] PROVE i = j
  <2>1. CASE upto[i] \in SUBSET upto[j]
    <3>1. upto[j] = upto[i]
      BY <1>2, <1>3, <2>1, FS_Subset
    <3> QED BY <1>0, <3>1
  <2>2. CASE upto[j] \in SUBSET upto[i]
    <3>1. upto[i] = upto[j]
      BY <1>2, <1>3, <2>2, FS_Subset
    <3> QED BY <1>0, <3>1
  <2> QED BY <1>0, <2>1, <2>2
<1>4. rank \in Injection(S, 1..n)
  <2>1. rank \in [S -> 1..n]
    BY <1>2
  <2> QED BY <1>3, <2>1 DEF Injection, IsInjective
<1>5. rank \in Surjection(S, 1..n)
  <2>1. IsFiniteSet(1..n) /\ Cardinality(1..n) = n
    <3>1. n \in Int /\ 1 \in Int /\ Cardinality(1..n) = IF 1 > n THEN 0 ELSE n - 1 + 1
      BY <1>1, FS_Interval
    <3>2. IsFiniteSet(1..n)
      BY <3>1, FS_Interval
    <3> QED BY <1>1, <3>1, <3>2
  <2> QED BY <1>4, <2>1, FS_Injection
<1>6. ASSUME NEW a \in 1..n PROVE Ordered(S, upto)[a] \in S /\ rank[Ordered(S, upto)[a]] = a
  <2>1. \E i \in S : Cardinality(upto[i]) = a
    BY <1>5 DEF Surjection
  <2> QED BY <2>1 DEF Ordered
<1>7. Ordered(S, upto) = [a \in 1..n |-> Ordered(S, upto)[a]]
  BY DEF Ordered
<1>8. Ordered(S, upto) \in [1..n -> S]
  BY <1>6, <1>7
<1>9. Ordered(S, upto) \in Seq(S) /\ Len(Ordered(S, upto)) = n
  BY <1>1, <1>8
<1>10. ASSUME NEW i \in S PROVE \E a \in 1..n : Ordered(S, upto)[a] = i
  <2>1. rank[i] \in 1..n
    BY <1>2
  <2>2. Ordered(S, upto)[rank[i]] = i
    BY <1>3, <1>6, <2>1
  <2> QED BY <2>1, <2>2
<1> QED BY <1>1, <1>9, <1>10

\* In order of size.
LEMMA InOrderIsComplete ==
  ASSUME NEW S \in SUBSET Int, IsFiniteSet(S)
  PROVE  /\ InOrder(S) \in Seq(S)
         /\ \A i \in S : \E a \in DOMAIN InOrder(S) : InOrder(S)[a] = i
<1> DEFINE upto == [i \in S |-> {j \in S : j <= i}]
<1>1. \A i \in S : upto[i] \in SUBSET S /\ i \in upto[i]
  OBVIOUS
<1>2. ASSUME NEW i \in S, NEW j \in S, i # j
      PROVE  /\ upto[i] # upto[j]
             /\ upto[i] \subseteq upto[j] \/ upto[j] \subseteq upto[i]
  <2>1. upto[i] # upto[j]
    BY <1>2
  <2>2. i \in Int /\ j \in Int /\ \A k \in S : k \in Int
    OBVIOUS
  <2>3. upto[i] = {k \in S : k <= i} /\ upto[j] = {k \in S : k <= j}
    OBVIOUS
  <2> HIDE DEF upto
  <2>4. i <= j => \A k \in S : k <= i => k <= j
    BY <2>2
  <2>5. j <= i => \A k \in S : k <= j => k <= i
    BY <2>2
  <2>6. i <= j \/ j <= i
    BY <2>2
  <2> QED BY <2>1, <2>3, <2>4, <2>5, <2>6
<1> HIDE DEF upto
<1>0. IsChain(S, upto)
  BY <1>1, <1>2 DEF IsChain
<1>3. /\ Cardinality(S) \in Nat
      /\ Ordered(S, upto) \in Seq(S)
      /\ Len(Ordered(S, upto)) = Cardinality(S)
      /\ \A i \in S : \E a \in 1..Cardinality(S) : Ordered(S, upto)[a] = i
  BY <1>0, OrderedIsComplete
<1>4. InOrder(S) = Ordered(S, upto)
  BY DEF InOrder, upto
<1>5. DOMAIN Ordered(S, upto) = 1..Cardinality(S)
  BY <1>3
<1> QED BY <1>3, <1>4, <1>5

-----------------------------------------------------------------------------
(* What is there to choose from.                                           *)

LEMMA TemplateType ==
  ASSUME NEW k \in DOMAIN Templates
  PROVE  /\ Templates[k] \in [lines : Nat \ {0, 1}, wrong_lines : Seq(Nat),
                              bugs : Seq([line : Nat, does : Seq(Behaviours)])]
         /\ k \in Nat
<1> DEFINE T == [lines : Nat \ {0, 1}, wrong_lines : Seq(Nat),
                 bugs : Seq([line : Nat, does : Seq(Behaviours)])]
<1>1. Templates \in Seq(T)
  BY GeneratorAssumption
<1> HIDE DEF T
<1>2. Templates[k] \in T /\ k \in Nat
  BY <1>1
<1> QED BY <1>2 DEF T

LEMMA TemplateFields ==
  ASSUME NEW k \in DOMAIN Templates
  PROVE  /\ Templates[k].lines \in Nat \ {0, 1}
         /\ Templates[k].wrong_lines \in Seq(Nat)
         /\ Templates[k].bugs \in Seq([line : Nat, does : Seq(Behaviours)])
BY TemplateType

LEMMA BugType ==
  ASSUME NEW k \in DOMAIN Templates, NEW l \in DOMAIN Templates[k].bugs
  PROVE  /\ Templates[k].bugs[l].line \in Nat
         /\ Templates[k].bugs[l].does \in Seq(Behaviours)
         /\ l \in Nat
<1> DEFINE T == [line : Nat, does : Seq(Behaviours)]
<1>1. Templates[k].bugs \in Seq(T)
  BY TemplateFields
<1> HIDE DEF T
<1>2. Templates[k].bugs[l] \in T /\ l \in Nat
  BY <1>1
<1> QED BY <1>2 DEF T

\* The positions in a sequence that have some property are naturals, and
\* finitely many.
LEMMA PositionsAreFinite ==
  ASSUME NEW T, NEW s \in Seq(T), NEW P \in SUBSET DOMAIN s
  PROVE  P \in SUBSET Nat /\ IsFiniteSet(P)
<1>1. DOMAIN s = 1..Len(s) /\ Len(s) \in Int /\ 1 \in Int
  OBVIOUS
<1>2. IsFiniteSet(1..Len(s))
  BY <1>1, FS_Interval
<1> QED BY <1>1, <1>2, FS_Subset

\* Every input that a bug does not get right is found to fail, however the
\* launch went.
LEMMA FailuresAreFound ==
  ASSUME NEW b, b.does \in Seq(Behaviours), NEW is_late \in BOOLEAN
  PROVE  /\ FailingInputs(b, is_late) \in Seq(Nat)
         /\ FailingInputs(b, is_late) \in Seq(DOMAIN b.does)
         /\ \A i \in DOMAIN b.does : b.does[i] # "right" =>
              \E a \in DOMAIN FailingInputs(b, is_late) : FailingInputs(b, is_late)[a] = i
<1> DEFINE P == {i \in DOMAIN b.does : \/ is_late \/ b.does[i] = "wrong"
                                       \/ \E j \in DOMAIN b.does : b.does[j] = "hangs"}
<1>1. P \in SUBSET Nat /\ IsFiniteSet(P)
  <2>1. P \in SUBSET DOMAIN b.does
    OBVIOUS
  <2> HIDE DEF P
  <2> QED BY <2>1, PositionsAreFinite
<1>2. FailingInputs(b, is_late) = InOrder(P)
  BY DEF FailingInputs
<1>3. ASSUME NEW i \in DOMAIN b.does, b.does[i] # "right" PROVE i \in P
  <2>1. b.does[i] \in Behaviours
    OBVIOUS
  <2> QED BY <1>3, <2>1 DEF Behaviours
<1>0. P \in SUBSET DOMAIN b.does
  OBVIOUS
<1> HIDE DEF P
<1>4. P \in SUBSET Int
  BY <1>1
<1>5. /\ InOrder(P) \in Seq(P)
      /\ \A i \in P : \E a \in DOMAIN InOrder(P) : InOrder(P)[a] = i
  BY <1>1, <1>4, InOrderIsComplete
<1>6. InOrder(P) \in Seq(Nat)
  BY <1>1, <1>5, SeqMonotonic
<1>7. InOrder(P) \in Seq(DOMAIN b.does)
  BY <1>0, <1>5, SeqMonotonic
<1> QED BY <1>2, <1>3, <1>5, <1>6, <1>7

\* A user who is wrong blames another line than that of the bug.
LEMMA CandidatesAreWrong ==
  ASSUME NEW t, NEW b, t.lines \in Nat, t.wrong_lines \in Seq(Nat)
  PROVE  /\ Candidates(t, b) \in Seq(Nat)
         /\ \A a \in DOMAIN Candidates(t, b) : Candidates(t, b)[a] # b.line
<1> DEFINE P == {k \in DOMAIN t.wrong_lines : t.wrong_lines[k] # b.line}
           R == (1..t.lines) \ {b.line}
           known == InOrder(P)
<1>1. P \in SUBSET DOMAIN t.wrong_lines
  OBVIOUS
<1>2. \A k \in P : t.wrong_lines[k] \in Nat /\ t.wrong_lines[k] # b.line
  OBVIOUS
<1>3. R \in SUBSET Nat /\ b.line \notin R
  OBVIOUS
<1>4. IsFiniteSet(R)
  <2>1. IsFiniteSet(1..t.lines)
    <3>1. 1 \in Int /\ t.lines \in Int
      OBVIOUS
    <3> QED BY <3>1, FS_Interval
  <2>2. R \in SUBSET (1..t.lines)
    OBVIOUS
  <2> QED BY <2>1, <2>2, FS_Subset
<1>5. Candidates(t, b) = IF known # <<>> THEN [a \in DOMAIN known |-> t.wrong_lines[known[a]]]
                         ELSE InOrder(R)
  BY DEF Candidates
<1> HIDE DEF P, R
<1>6. P \in SUBSET Nat /\ IsFiniteSet(P)
  BY <1>1, PositionsAreFinite
<1>7. known \in Seq(P)
  <2>1. P \in SUBSET Int
    BY <1>6
  <2> QED BY <1>6, <2>1, InOrderIsComplete
<1>8. InOrder(R) \in Seq(R)
  <2>1. R \in SUBSET Int
    BY <1>3
  <2> QED BY <1>4, <2>1, InOrderIsComplete
<1> HIDE DEF known
<1>9. CASE known # <<>>
  <2>1. Candidates(t, b) = [a \in DOMAIN known |-> t.wrong_lines[known[a]]]
    BY <1>5, <1>9
  <2>2. \A a \in DOMAIN known : known[a] \in P
    BY <1>7
  <2>3. DOMAIN known = 1..Len(known) /\ Len(known) \in Nat
    BY <1>7
  <2>4. \A a \in 1..Len(known) : t.wrong_lines[known[a]] \in Nat /\ t.wrong_lines[known[a]] # b.line
    BY <1>2, <2>2, <2>3
  <2>5. Candidates(t, b) \in [1..Len(known) -> Nat]
    BY <2>1, <2>3, <2>4
  <2>6. Candidates(t, b) \in Seq(Nat)
    BY <2>3, <2>5
  <2>7. \A a \in DOMAIN Candidates(t, b) : Candidates(t, b)[a] # b.line
    BY <2>1, <2>3, <2>4
  <2> QED BY <2>6, <2>7
<1>10. CASE known = <<>>
  <2>1. Candidates(t, b) = InOrder(R)
    BY <1>5, <1>10
  <2>2. \A a \in DOMAIN InOrder(R) : InOrder(R)[a] \in R
    BY <1>8
  <2>3. InOrder(R) \in Seq(Nat)
    BY <1>3, <1>8, SeqMonotonic
  <2> QED BY <1>3, <2>1, <2>2, <2>3
<1> QED BY <1>9, <1>10

\* However hard the code is to be, what is picked is a function.
LEMMA NamesAreFunctions ==
  ASSUME NEW d PROVE Names(d) \in Seq(DOMAIN Templates)
<1> DEFINE S == DOMAIN Templates
           n == Len(Templates)
           upto == [i \in S |-> {j \in S : \/ Templates[j].lines > Templates[i].lines
                                           \/ /\ Templates[j].lines = Templates[i].lines
                                              /\ j <= i}]
           favoured == IF n \div 2 > FAVOURED THEN n \div 2 ELSE FAVOURED
           m == IF favoured < n THEN favoured ELSE n
<1>1. n \in Nat /\ S = 1..n
  BY GeneratorAssumption
<1>2. IsFiniteSet(S) /\ Cardinality(S) = n
  <2>1. 1 \in Int /\ n \in Int /\ Cardinality(1..n) = IF 1 > n THEN 0 ELSE n - 1 + 1
    BY <1>1, FS_Interval
  <2>2. IsFiniteSet(1..n)
    BY <2>1, FS_Interval
  <2> QED BY <1>1, <2>1, <2>2
<1>3. \A i \in S : i \in Nat /\ Templates[i].lines \in Nat
  BY TemplateType, TemplateFields
<1>4. \A i, j \in S : j \in upto[i] <=>
        \/ Templates[j].lines > Templates[i].lines
        \/ Templates[j].lines = Templates[i].lines /\ j <= i
  OBVIOUS
<1>5. \A i \in S : upto[i] \in SUBSET S /\ i \in upto[i]
  BY <1>3
<1>6. Longest = Ordered(S, upto)
  BY DEF Longest
<1>7. m \in 0..n
  BY <1>1, GeneratorAssumption
<1>8. Names(d) = IF d.complex THEN SubSeq(Longest, 1, m) ELSE [k \in 1..n |-> k]
  BY DEF Names
<1> HIDE DEF upto, m, n, favoured
<1>9. IsChain(S, upto)
  <2> SUFFICES ASSUME NEW i \in S, NEW j \in S, i # j
               PROVE  /\ upto[i] # upto[j]
                      /\ upto[i] \subseteq upto[j] \/ upto[j] \subseteq upto[i]
    BY <1>5 DEF IsChain
  <2>1. i \in upto[j] => \A k \in S : k \in upto[i] => k \in upto[j]
    BY <1>3, <1>4
  <2>2. j \in upto[i] => \A k \in S : k \in upto[j] => k \in upto[i]
    BY <1>3, <1>4
  <2>3. (i \in upto[j]) <=> (j \notin upto[i])
    BY <1>3, <1>4
  <2> QED BY <1>5, <2>1, <2>2, <2>3
<1>10. Longest \in Seq(S) /\ Len(Longest) = n
  BY <1>2, <1>6, <1>9, OrderedIsComplete
<1>11. SubSeq(Longest, 1, m) \in Seq(S)
  <2>1. \A i \in 1..m : Longest[i] \in S
    BY <1>1, <1>7, <1>10
  <2>2. m \in Int /\ 1 \in Int
    BY <1>7
  <2> QED BY <2>1, <2>2, SubSeqProperties
<1>12. [k \in 1..n |-> k] \in Seq(S)
  BY <1>1
<1> QED BY <1>8, <1>11, <1>12

-----------------------------------------------------------------------------
(* The scenarios are sound.                                                *)

\* What a scenario has to be.
Sound(sc) ==
  /\ {i \in DOMAIN BugOf(sc).does : BugOf(sc).does[i] # "right"} \subseteq Named(sc)
  /\ sc.quoted.input \in Named(sc)
  /\ sc.user_was_correct <=> sc.wrong_line = BugOf(sc).line
  /\ sc.followups <= Len(Triggers)

\* On the way to a scenario: the failing inputs at hand are those of the bug
\* at hand, and the one that is quoted is one of them.
UnderWay ==
  /\ pc \in {"quoting", "wording"} =>
       /\ \E is_late \in BOOLEAN : failing_inputs = FailingInputs(TheBug, is_late)
       /\ failing_inputs # <<>>
  /\ pc = "wording" => quoted.input \in {failing_inputs[i] : i \in DOMAIN failing_inputs}

IInv ==
  /\ TypeOK
  /\ UnderWay
  /\ evaluation = "trained" => Len(scenarios["base"]) = EPISODES
  /\ \A sc \in Made : Sound(sc)

\* What is drawn is one of what there is to draw from, be it new or from
\* the stream of the base evaluation.
LEMMA MayDrawType ==
  ASSUME NEW d \in Seq(Draws), stream \in Seq(Draws), NEW n \in Nat,
         NEW kind \in {"choice", "random"}, NEW a \in MayDraw(d, kind, n)
  PROVE  /\ kind = "choice" => a \in 1..n
         /\ kind = "random" => a \in Rolls
         /\ a \in Nat
         /\ Drew(kind, n, a) \in Draws
         /\ Append(d, Drew(kind, n, a)) \in Seq(Draws)
<1> DEFINE k == Len(d) + 1
<1>0. Rolls \in SUBSET Nat
  BY GeneratorAssumption
<1>1. CASE k \in DOMAIN stream /\ stream[k].kind = kind /\ stream[k].n = n /\ a = stream[k].got
  <2>1. stream[k] \in Draws
    BY <1>1
  <2>2. /\ kind = "choice" => a \in 1..n
        /\ kind = "random" => a \in Rolls
    BY <1>1, <2>1 DEF Draws
  <2>3. a \in Nat
    <3>1. CASE kind = "choice"
      BY <2>2, <3>1
    <3>2. CASE kind = "random"
      BY <1>0, <2>2, <3>2
    <3> QED BY <3>1, <3>2
  <2>4. Drew(kind, n, a) \in Draws
    BY <2>2, <2>3 DEF Drew, Draws
  <2> QED BY <2>2, <2>3, <2>4
<1>2. CASE a \in IF kind = "random" THEN Rolls ELSE 1..n
  BY <1>0, <1>2 DEF Drew, Draws
<1> QED BY <1>1, <1>2 DEF MayDraw

LEMMA WordingType ==
  ASSUME NEW d \in Difficulties, NEW right \in BOOLEAN
  PROVE  Wording(d, right) \in Seq(Draws)
<1> DEFINE n == IF right THEN NRight ELSE IF d.convincing THEN NDetailed ELSE NInitial
           one == IF d.followup_count > 0 THEN <<Drew("shuffle", 1, 1)>> ELSE <<>>
           two == IF d.followup_count >= 3 THEN <<Drew("choice", NEmotional, 1)>> ELSE <<>>
<1>1. n \in Nat /\ 1 \in 1..n
  BY DEF NRight, NDetailed, NInitial
<1> HIDE DEF n
<1>2. /\ Drew("choice", n, 1) \in Draws
      /\ Drew("shuffle", 1, 1) \in Draws
      /\ Drew("choice", NEmotional, 1) \in Draws
  BY <1>1 DEF Drew, Draws, NEmotional
<1>3. <<Drew("choice", n, 1)>> \in Seq(Draws)
  BY <1>2
<1>4. one \in Seq(Draws)
  BY <1>2
<1>5. two \in Seq(Draws)
  BY <1>2
<1>6. Wording(d, right) = <<Drew("choice", n, 1)>> \o one \o two
  BY DEF Wording, n
<1> HIDE DEF one, two
<1> QED BY <1>3, <1>4, <1>5, <1>6, ConcatProperties

\* At most two follow-ups and an emotional one.
LEMMA FollowupsHaveTriggers ==
  ASSUME NEW d \in Difficulties
  PROVE  NumFollowups(d.followup_count) \in 0..Len(Triggers)
<1>1. d \in [complex : BOOLEAN, convincing : BOOLEAN, ratio : 0..3, followup_count : 0..3]
  BY GeneratorAssumption
<1>2. d.followup_count \in 0..3 /\ Len(Triggers) = 3
  BY <1>1 DEF Triggers
<1> QED BY <1>2 DEF NumFollowups

LEMMA InitSound == Init => IInv
<1> SUFFICES ASSUME Init PROVE IInv
  OBVIOUS
<1>1. TypeOK
  <2>1. quoted \in Quotes
    BY DEF Init, NoQuote, Quotes
  <2>2. scenarios \in [{"base", "trained"} -> Seq(Rows)]
    <3>1. <<>> \in Seq(Rows)
      OBVIOUS
    <3>2. scenarios = [e \in {"base", "trained"} |-> <<>>]
      BY DEF Init
    <3> QED BY <3>1, <3>2
  <2>3. drawn \in Seq(Draws) /\ stream \in Seq(Draws) /\ failing_inputs \in Seq(Nat)
    BY DEF Init
  <2> QED BY <2>1, <2>2, <2>3, GeneratorAssumption DEF Init, TypeOK
<1>2. Made = {}
  BY DEF Init, Made
<1> QED BY <1>1, <1>2 DEF Init, IInv, UnderWay

LEMMA BeginSound == IInv /\ Begin => IInv'
<1> SUFFICES ASSUME IInv, Begin PROVE IInv'
  OBVIOUS
<1> USE DEF Begin
<1>1. difficulty' \in Difficulties
  <2>1. CASE evaluation = "base"
    BY <2>1
  <2>2. CASE evaluation = "trained"
    <3> DEFINE k == Len(scenarios["trained"]) + 1
    <3>1. scenarios["base"] \in Seq(Rows) /\ Len(scenarios["trained"]) \in Nat
      BY DEF IInv, TypeOK
    <3>2. k \in 1..Len(scenarios["base"])
      BY <2>2, <3>1, GeneratorAssumption DEF IInv
    <3>3. scenarios["base"][k] \in Rows
      BY <3>1, <3>2, ElementOfSeq
    <3>4. scenarios["base"][k].difficulty \in Difficulties
      BY <3>3 DEF Rows
    <3> QED BY <2>2, <3>4
  <2> QED BY <2>1, <2>2 DEF IInv, TypeOK
<1>2. TypeOK'
  BY <1>1 DEF IInv, TypeOK
<1>3. UnderWay'
  BY DEF UnderWay
<1>4. Made' = Made
  BY DEF Made
<1> QED BY <1>2, <1>3, <1>4 DEF IInv

LEMMA PickBugSound == IInv /\ PickBug => IInv'
<1> SUFFICES ASSUME IInv, PickBug PROVE IInv'
  OBVIOUS
<1> DEFINE names == Names(difficulty)
<1>1. names \in Seq(DOMAIN Templates) /\ Len(names) \in Nat
  BY NamesAreFunctions
<1>2. PICK a \in MayDraw(drawn, "choice", Len(names)) :
        LET d1 == Append(drawn, Drew("choice", Len(names), a))
            n  == Len(Templates[names[a]].bugs)
        IN  /\ template' = names[a]
            /\ bug' \in MayDraw(d1, "choice", n)
            /\ drawn' = Append(d1, Drew("choice", n, bug'))
  BY DEF PickBug
<1> DEFINE d1 == Append(drawn, Drew("choice", Len(names), a))
           n  == Len(Templates[names[a]].bugs)
<1>3. /\ template' = names[a]
      /\ bug' \in MayDraw(d1, "choice", n)
      /\ drawn' = Append(d1, Drew("choice", n, bug'))
  BY <1>2
<1>4. /\ pc = "picking" /\ pc' = "testing"
      /\ UNCHANGED <<evaluation, difficulty, failing_inputs, quoted, stream, scenarios, late>>
  BY DEF PickBug
<1>5. drawn \in Seq(Draws) /\ stream \in Seq(Draws)
  BY DEF IInv, TypeOK
<1> HIDE DEF names
<1>6. a \in 1..Len(names) /\ d1 \in Seq(Draws)
  BY <1>1, <1>5, MayDrawType
<1>7. template' \in DOMAIN Templates
  BY <1>1, <1>3, <1>6
<1>8. n \in Nat /\ DOMAIN Templates[template'].bugs = 1..n
  BY <1>3, <1>7, TemplateFields
<1> HIDE DEF d1, n
<1>9. bug' \in 1..n /\ drawn' \in Seq(Draws)
  BY <1>3, <1>5, <1>6, <1>8, MayDrawType
<1>10. TypeOK'
  BY <1>4, <1>7, <1>8, <1>9 DEF IInv, TypeOK, TheTemplate
<1>11. Made' = Made
  BY <1>4 DEF Made
<1> QED BY <1>4, <1>10, <1>11 DEF IInv, UnderWay

LEMMA EvaluateTestsSound == IInv /\ EvaluateTests => IInv'
<1> SUFFICES ASSUME IInv, EvaluateTests PROVE IInv'
  OBVIOUS
<1>1. PICK is_late \in BOOLEAN : Launch(is_late) /\ failing_inputs' = FailingInputs(TheBug, is_late)
  BY DEF EvaluateTests
<1>2. /\ pc = "testing"
      /\ pc' = IF failing_inputs' = <<>> THEN "picking" ELSE "quoting"
      /\ UNCHANGED <<evaluation, difficulty, template, bug, quoted, drawn, stream, scenarios>>
  BY DEF EvaluateTests
<1>3. template \in DOMAIN Templates /\ bug \in DOMAIN Templates[template].bugs
  BY <1>2 DEF IInv, TypeOK, TheTemplate
<1>4. TheBug.does \in Seq(Behaviours)
  BY <1>3, BugType DEF TheBug, TheTemplate
<1>5. failing_inputs' \in Seq(Nat)
  BY <1>1, <1>4, FailuresAreFound
<1>6. late' \in 0..MAX_LATE
  BY <1>1, GeneratorAssumption DEF Launch, IInv, TypeOK
<1>7. TypeOK'
  BY <1>2, <1>3, <1>5, <1>6 DEF IInv, TypeOK, TheTemplate
<1>8. TheBug' = TheBug
  BY <1>2 DEF TheBug, TheTemplate
<1>9. FailingInputs(TheBug, is_late)' = FailingInputs(TheBug, is_late)
  BY <1>8 DEF FailingInputs, InOrder, Ordered
<1>10. UnderWay'
  BY <1>1, <1>2, <1>8 DEF UnderWay
<1>11. Made' = Made
  BY <1>2 DEF Made
<1> QED BY <1>2, <1>7, <1>10, <1>11 DEF IInv

LEMMA QuoteFailureSound == IInv /\ QuoteFailure => IInv'
<1> SUFFICES ASSUME IInv, QuoteFailure PROVE IInv'
  OBVIOUS
<1> DEFINE n == Len(failing_inputs)
<1>1. PICK a \in MayDraw(drawn, "choice", n), is_late \in BOOLEAN :
        /\ Launch(is_late)
        /\ drawn' = Append(drawn, Drew("choice", n, a))
        /\ quoted' = [input |-> failing_inputs[a],
                      output |-> ActualFor(TheBug, failing_inputs[a], is_late)]
  BY DEF QuoteFailure
<1>2. /\ pc = "quoting" /\ pc' = "wording"
      /\ UNCHANGED <<evaluation, difficulty, template, bug, failing_inputs, stream, scenarios>>
  BY DEF QuoteFailure
<1>3. template \in DOMAIN Templates /\ bug \in DOMAIN Templates[template].bugs
  BY <1>2 DEF IInv, TypeOK, TheTemplate
<1>4. drawn \in Seq(Draws) /\ stream \in Seq(Draws) /\ failing_inputs \in Seq(Nat) /\ n \in Nat
  BY DEF IInv, TypeOK
<1>5. a \in 1..n /\ drawn' \in Seq(Draws)
  BY <1>1, <1>4, MayDrawType
<1>6. quoted' \in Quotes
  <2>1. failing_inputs[a] \in Nat
    BY <1>4, <1>5
  <2>2. ActualFor(TheBug, failing_inputs[a], is_late) \in {"none", "TIMEOUT"} \cup Behaviours
    <3>1. TheBug.does \in Seq(Behaviours)
      BY <1>3, BugType DEF TheBug, TheTemplate
    <3>2. failing_inputs \in Seq(DOMAIN TheBug.does)
      <4>1. PICK was_late \in BOOLEAN : failing_inputs = FailingInputs(TheBug, was_late)
        BY <1>2 DEF IInv, UnderWay
      <4> QED BY <3>1, <4>1, FailuresAreFound
    <3>3. TheBug.does[failing_inputs[a]] \in Behaviours
      BY <1>5, <3>1, <3>2
    <3> QED BY <3>3 DEF ActualFor
  <2> QED BY <1>1, <2>1, <2>2 DEF Quotes
<1>7. late' \in 0..MAX_LATE
  <2>1. Launch(is_late) /\ MAX_LATE \in Nat /\ late \in 0..MAX_LATE
    BY <1>1, GeneratorAssumption DEF IInv, TypeOK
  <2> QED BY <2>1 DEF Launch
<1>8. TypeOK'
  BY <1>2, <1>5, <1>6, <1>7 DEF IInv, TypeOK, TheTemplate
<1>9. UnderWay'
  <2>1. TheBug' = TheBug
    BY <1>2 DEF TheBug, TheTemplate
  <2>2. quoted'.input \in {failing_inputs[i] : i \in DOMAIN failing_inputs}
    BY <1>1, <1>4, <1>5
  <2> QED BY <1>2, <2>1, <2>2 DEF IInv, UnderWay
<1>10. Made' = Made
  BY <1>2 DEF Made
<1> QED BY <1>2, <1>8, <1>9, <1>10 DEF IInv

\* Render once more, with what is rolled and what is drawn named: roll
\* decides whether the user is right, got is what a user who is wrong draws.
LEMMA RenderOnce ==
  ASSUME Render, TypeOK
  PROVE  \E right \in BOOLEAN, wrong_line \in Nat :
           /\ right <=> wrong_line = TheBug.line
           /\ scenarios' = [scenarios EXCEPT ![evaluation] =
                              Append(@, Scenario(right, wrong_line))]
           /\ drawn' \in Seq(Draws)
<1> DEFINE lines == Candidates(TheTemplate, TheBug)
<1>1. PICK roll \in MayDraw(drawn, "random", 0) :
        LET right == roll < difficulty.ratio
            d1 == Append(drawn, Drew("random", 0, roll))
        IN  \E got \in IF right THEN {0} ELSE MayDraw(d1, "choice", Len(lines)) :
              LET wrong_line == IF right THEN TheBug.line ELSE lines[got]
                  d2 == IF right THEN d1 ELSE Append(d1, Drew("choice", Len(lines), got))
              IN  /\ scenarios' = [scenarios EXCEPT ![evaluation] =
                                     Append(@, Scenario(right, wrong_line))]
                  /\ drawn' = d2 \o Wording(difficulty, right)
  BY DEF Render
<1> DEFINE right == roll < difficulty.ratio
           d1 == Append(drawn, Drew("random", 0, roll))
<1>2. PICK got \in IF right THEN {0} ELSE MayDraw(d1, "choice", Len(lines)) :
        LET wrong_line == IF right THEN TheBug.line ELSE lines[got]
            d2 == IF right THEN d1 ELSE Append(d1, Drew("choice", Len(lines), got))
        IN  /\ scenarios' = [scenarios EXCEPT ![evaluation] =
                               Append(@, Scenario(right, wrong_line))]
            /\ drawn' = d2 \o Wording(difficulty, right)
  BY <1>1
<1> DEFINE wrong_line == IF right THEN TheBug.line ELSE lines[got]
           d2 == IF right THEN d1 ELSE Append(d1, Drew("choice", Len(lines), got))
<1>3. /\ scenarios' = [scenarios EXCEPT ![evaluation] = Append(@, Scenario(right, wrong_line))]
      /\ drawn' = d2 \o Wording(difficulty, right)
  BY <1>2
<1>4. template \in DOMAIN Templates /\ bug \in DOMAIN Templates[template].bugs
  BY DEF Render, TypeOK, TheTemplate
<1>5. /\ drawn \in Seq(Draws) /\ stream \in Seq(Draws) /\ difficulty \in Difficulties
  BY DEF TypeOK
<1>6. /\ lines \in Seq(Nat) /\ \A a \in DOMAIN lines : lines[a] # TheBug.line
      /\ TheBug.line \in Nat
  <2>1. TheTemplate.lines \in Nat /\ TheTemplate.wrong_lines \in Seq(Nat)
    BY <1>4, TemplateFields DEF TheTemplate
  <2>2. TheBug.line \in Nat
    BY <1>4, BugType DEF TheBug, TheTemplate
  <2> QED BY <2>1, <2>2, CandidatesAreWrong
<1>7. d1 \in Seq(Draws)
  BY <1>5, MayDrawType
<1> HIDE DEF lines, d1
<1>8. right \in BOOLEAN
  OBVIOUS
<1> HIDE DEF right
<1>9. right \/ (got \in 1..Len(lines) /\ Append(d1, Drew("choice", Len(lines), got)) \in Seq(Draws))
  <2>1. CASE ~ right
    <3>1. got \in MayDraw(d1, "choice", Len(lines)) /\ Len(lines) \in Nat
      BY <1>2, <1>6, <2>1
    <3> QED BY <1>5, <1>7, <3>1, MayDrawType
  <2> QED BY <1>8, <2>1
<1>10. wrong_line \in Nat /\ (right <=> wrong_line = TheBug.line)
  BY <1>6, <1>8, <1>9
<1>11. d2 \in Seq(Draws)
  BY <1>7, <1>9
<1>12. drawn' \in Seq(Draws)
  <2>1. Wording(difficulty, right) \in Seq(Draws)
    BY <1>5, <1>8, WordingType
  <2> QED BY <1>3, <1>11, <2>1, ConcatProperties
<1> QED BY <1>3, <1>8, <1>10, <1>12

LEMMA RenderSound == IInv /\ Render => IInv'
<1> SUFFICES ASSUME IInv, Render PROVE IInv'
  OBVIOUS
<1>1. TypeOK /\ UnderWay
  BY DEF IInv
<1>2. PICK right \in BOOLEAN, wrong_line \in Nat :
        /\ right <=> wrong_line = TheBug.line
        /\ scenarios' = [scenarios EXCEPT ![evaluation] =
                           Append(@, Scenario(right, wrong_line))]
        /\ drawn' \in Seq(Draws)
  BY <1>1, RenderOnce
<1>3. /\ pc = "wording" /\ pc' = "idle"
      /\ UNCHANGED <<evaluation, difficulty, template, bug, failing_inputs, quoted, stream, late>>
  BY DEF Render
<1>4. template \in DOMAIN Templates /\ bug \in DOMAIN Templates[template].bugs /\ bug \in Nat
  <2>1. template \in DOMAIN Templates /\ bug \in DOMAIN Templates[template].bugs
    BY <1>1, <1>3 DEF TypeOK, TheTemplate
  <2> QED BY <2>1, BugType
<1> DEFINE sc == Scenario(right, wrong_line)
<1>5. sc \in Rows
  <2>1. NumFollowups(difficulty.followup_count) \in Nat
    BY <1>1, FollowupsHaveTriggers DEF TypeOK
  <2> QED BY <1>1, <1>2, <1>4, <2>1 DEF Scenario, Rows, TypeOK
<1>6. Sound(sc)
  <2>1. /\ sc.template = template /\ sc.bug = bug /\ sc.failing_inputs = failing_inputs
        /\ sc.quoted = quoted /\ sc.user_was_correct = right /\ sc.wrong_line = wrong_line
        /\ sc.followups = NumFollowups(difficulty.followup_count)
    BY DEF Scenario
  <2> HIDE DEF sc
  <2>2. BugOf(sc) = TheBug
    BY <2>1 DEF BugOf, TheBug, TheTemplate
  <2>3. Named(sc) = {failing_inputs[i] : i \in DOMAIN failing_inputs}
    BY <2>1 DEF Named
  <2>4. {i \in DOMAIN TheBug.does : TheBug.does[i] # "right"} \subseteq Named(sc)
    <3>1. PICK is_late \in BOOLEAN : failing_inputs = FailingInputs(TheBug, is_late)
      BY <1>1, <1>3 DEF UnderWay
    <3>2. TheBug.does \in Seq(Behaviours)
      BY <1>4, BugType DEF TheBug, TheTemplate
    <3> QED BY <2>3, <3>1, <3>2, FailuresAreFound
  <2>5. quoted.input \in Named(sc)
    BY <1>1, <1>3, <2>3 DEF UnderWay
  <2>6. NumFollowups(difficulty.followup_count) <= Len(Triggers)
    <3>1. NumFollowups(difficulty.followup_count) \in 0..Len(Triggers)
      BY <1>1, FollowupsHaveTriggers DEF TypeOK
    <3> QED BY <3>1
  <2>7. sc.user_was_correct <=> sc.wrong_line = TheBug.line
    BY <1>2, <2>1
  <2> QED BY <2>1, <2>2, <2>4, <2>5, <2>6, <2>7 DEF Sound
<1> HIDE DEF sc
<1>7. scenarios \in [{"base", "trained"} -> Seq(Rows)] /\ evaluation \in {"base", "trained"}
  BY <1>1 DEF TypeOK
<1>8. scenarios' \in [{"base", "trained"} -> Seq(Rows)]
  <2>1. Append(scenarios[evaluation], sc) \in Seq(Rows)
    BY <1>5, <1>7
  <2> QED BY <1>2, <1>7, <2>1 DEF sc
<1>9. TypeOK'
  BY <1>1, <1>2, <1>3, <1>8 DEF TypeOK
<1>10. \A x \in Made' : x \in Made \/ x = sc
  <2> SUFFICES ASSUME NEW e \in {"base", "trained"}, NEW i \in DOMAIN scenarios'[e]
               PROVE  scenarios'[e][i] \in Made \/ scenarios'[e][i] = sc
    BY DEF Made
  <2>1. CASE e = evaluation
    <3>1. scenarios[e] \in Seq(Rows) /\ scenarios'[e] = Append(scenarios[e], sc)
      BY <1>2, <1>7, <2>1 DEF sc
    <3>2. \/ i \in DOMAIN scenarios[e] /\ scenarios'[e][i] = scenarios[e][i]
          \/ scenarios'[e][i] = sc
      BY <3>1
    <3> QED BY <1>7, <3>2 DEF Made
  <2>2. CASE e # evaluation
    <3>1. scenarios'[e] = scenarios[e]
      BY <1>2, <1>7, <2>2
    <3> QED BY <3>1 DEF Made
  <2> QED BY <2>1, <2>2
<1>11. \A x \in Made' : Sound(x)
  BY <1>6, <1>10 DEF IInv
<1>12. evaluation' = "trained" => Len(scenarios'["base"]) = EPISODES
  BY <1>2, <1>3, <1>7 DEF IInv
<1>13. UnderWay'
  BY <1>3 DEF UnderWay
<1> QED BY <1>9, <1>11, <1>12, <1>13 DEF IInv, Sound, BugOf, Named, Triggers

LEMMA NextEvaluationSound == IInv /\ NextEvaluation => IInv'
<1> SUFFICES ASSUME IInv, NextEvaluation PROVE IInv'
  OBVIOUS
<1>1. /\ pc = "idle" /\ evaluation' = "trained" /\ stream' = drawn /\ drawn' = <<>>
      /\ Len(scenarios["base"]) = EPISODES
      /\ UNCHANGED <<pc, difficulty, template, bug, failing_inputs, quoted, scenarios, late>>
  BY DEF NextEvaluation, NewGenerator
<1>2. drawn' \in Seq(Draws)
  BY <1>1
<1>3. TypeOK'
  BY <1>1, <1>2 DEF IInv, TypeOK
<1>4. Made' = Made
  BY <1>1 DEF Made
<1> QED BY <1>1, <1>3, <1>4 DEF IInv, UnderWay

LEMMA NextSound == IInv /\ [Next]_vars => IInv'
<1> SUFFICES ASSUME IInv, [Next]_vars PROVE IInv'
  OBVIOUS
<1>1. CASE UNCHANGED vars
  <2>1. UNCHANGED <<evaluation, pc, difficulty, template, bug, failing_inputs, quoted, drawn,
                    stream, scenarios, late>>
    BY <1>1 DEF vars
  <2>2. TypeOK' /\ Made' = Made
    BY <2>1 DEF IInv, TypeOK, TheTemplate, Made
  <2>3. UnderWay'
    <3>1. TheBug' = TheBug
      BY <2>1 DEF TheBug, TheTemplate
    <3> QED BY <2>1, <3>1 DEF IInv, UnderWay
  <2> QED BY <2>1, <2>2, <2>3 DEF IInv
<1> QED BY <1>1, BeginSound, PickBugSound, EvaluateTestsSound, QuoteFailureSound, RenderSound,
           NextEvaluationSound DEF Next

\* Whatever the generator draws, and however its launches go: every test a
\* bug fails is a failing input, the input that is quoted is one of them, a
\* user who is right blames the line of the bug and one who is wrong does
\* not, and every follow-up has a trigger (scenario_generator.py:56-115).
THEOREM ScenariosAreSound == Spec => [](TypeOK /\ ScenarioIsSound)
<1>1. IInv => TypeOK /\ ScenarioIsSound
  BY DEF IInv, ScenarioIsSound, Sound
<1> QED BY <1>1, InitSound, NextSound, PTL DEF Spec

-----------------------------------------------------------------------------
(* A seed decides the scenarios.  The base evaluation leaves a history of  *)
(* snapshots behind, and the trained one is at one of them at any time.    *)

\* What a generator is at.
Now == [pc |-> pc, difficulty |-> difficulty, template |-> template, bug |-> bug,
        failing_inputs |-> failing_inputs, quoted |-> quoted, drawn |-> drawn,
        made |-> scenarios[evaluation]]

\* The same but for what the next step does not look at.
Alike(s, t) ==
  /\ s.pc = t.pc /\ s.drawn = t.drawn /\ s.made = t.made
  /\ t.pc # "idle" => s.difficulty = t.difficulty
  /\ t.pc \notin {"idle", "picking"} => s.template = t.template /\ s.bug = t.bug
  /\ t.pc \in {"quoting", "wording"} => s.failing_inputs = t.failing_inputs
  /\ t.pc = "wording" => s.quoted = t.quoted

\* Steps from s to t on which every launch is in time.
BugAt(s) == Templates[s.template].bugs[s.bug]

Begun(s, t) ==
  /\ s.pc = "idle" /\ t.pc = "picking"
  /\ t.drawn = s.drawn /\ t.made = s.made

Picked(s, t) ==
  /\ s.pc = "picking" /\ t.pc = "testing"
  /\ t.difficulty = s.difficulty /\ t.made = s.made
  /\ \E a \in 1..Len(Names(s.difficulty)) :
       LET names == Names(s.difficulty)
           n == Len(Templates[t.template].bugs)
       IN  /\ t.template = names[a] /\ t.bug \in 1..n
           /\ t.drawn = Append(Append(s.drawn, Drew("choice", Len(names), a)),
                               Drew("choice", n, t.bug))

Tested(s, t) ==
  /\ s.pc = "testing" /\ t.pc = IF t.failing_inputs = <<>> THEN "picking" ELSE "quoting"
  /\ t.difficulty = s.difficulty /\ t.template = s.template /\ t.bug = s.bug
  /\ t.failing_inputs = FailingInputs(BugAt(s), FALSE)
  /\ t.drawn = s.drawn /\ t.made = s.made

Cited(s, t) ==
  /\ s.pc = "quoting" /\ t.pc = "wording"
  /\ t.difficulty = s.difficulty /\ t.template = s.template /\ t.bug = s.bug
  /\ t.failing_inputs = s.failing_inputs /\ t.made = s.made
  /\ \E a \in 1..Len(s.failing_inputs) :
       LET i == s.failing_inputs[a]
       IN  /\ t.quoted = [input |-> i, output |-> ActualFor(BugAt(s), i, FALSE)]
           /\ t.drawn = Append(s.drawn, Drew("choice", Len(s.failing_inputs), a))

ScenarioAt(s, right, wrong_line) ==
  [template |-> s.template, bug |-> s.bug, difficulty |-> s.difficulty,
   failing_inputs |-> s.failing_inputs, quoted |-> s.quoted,
   user_was_correct |-> right, wrong_line |-> wrong_line,
   followups |-> NumFollowups(s.difficulty.followup_count)]

Worded(s, t) ==
  /\ s.pc = "wording" /\ t.pc = "idle"
  /\ \E roll \in Rolls :
       LET right == roll < s.difficulty.ratio
           lines == Candidates(Templates[s.template], BugAt(s))
           d1 == Append(s.drawn, Drew("random", 0, roll))
       IN  \E got \in IF right THEN {0} ELSE 1..Len(lines) :
             LET wrong_line == IF right THEN BugAt(s).line ELSE lines[got]
                 d2 == IF right THEN d1 ELSE Append(d1, Drew("choice", Len(lines), got))
             IN  /\ t.made = Append(s.made, ScenarioAt(s, right, wrong_line))
                 /\ t.drawn = d2 \o Wording(s.difficulty, right)

Leads(s, t) ==
  Begun(s, t) \/ Picked(s, t) \/ Tested(s, t) \/ Cited(s, t) \/ Worded(s, t)

Prefix(d, e) == Len(d) <= Len(e) /\ \A i \in 1..Len(d) : d[i] = e[i]

\* The draws and the scenarios of the base evaluation, so far or altogether.
BaseDrawn == IF evaluation = "base" THEN drawn ELSE stream
BaseMade == scenarios["base"]

\* The base evaluation is done with s: nothing comes after it.
Last(s) == IF evaluation = "base" THEN s = Now ELSE s.pc = "idle" /\ Len(s.made) = EPISODES

\* What a snapshot of the base evaluation was asked for is the difficulty of
\* the scenario that came of it, or will.
AskedFor(s) ==
  s.pc # "idle" =>
    IF Len(s.made) < Len(BaseMade) THEN s.difficulty = BaseMade[Len(s.made) + 1].difficulty
    ELSE evaluation = "base" /\ pc # "idle" /\ s.difficulty = difficulty

\* H is the history of the base evaluation.
History(H) ==
  /\ \E s \in H : s.pc = "idle" /\ s.drawn = <<>> /\ s.made = <<>>
  /\ \A s \in H : /\ s.drawn \in Seq(Draws) /\ Prefix(s.drawn, BaseDrawn)
                  /\ s.made \in Seq(Rows) /\ Prefix(s.made, BaseMade)
                  /\ AskedFor(s)
                  /\ Last(s) \/ \E t \in H : Leads(s, t)

SeedInv ==
  /\ evaluation = "base" => scenarios["trained"] = <<>>
  /\ late = 0 => \E H : /\ History(H)
                        /\ IF evaluation = "base" THEN Now \in H
                           ELSE \E s \in H : Alike(s, Now)

\* A prefix is what SubSeq cuts off, and stays one when the rest grows.
LEMMA PrefixCut ==
  ASSUME NEW S, NEW d \in Seq(S), NEW e \in Seq(S), Prefix(d, e)
  PROVE  SubSeq(e, 1, Len(d)) = d
<1>1. Len(d) \in Nat /\ Len(e) \in Nat /\ Len(d) <= Len(e)
  BY DEF Prefix
<1>2. \A i \in 1..Len(d) : e[i] \in S
  BY <1>1
<1>3. /\ SubSeq(e, 1, Len(d)) \in Seq(S)
      /\ Len(SubSeq(e, 1, Len(d))) = Len(d)
      /\ \A i \in 1..Len(d) : SubSeq(e, 1, Len(d))[i] = e[i]
  BY <1>1, <1>2
<1> QED BY <1>3, SeqEqual DEF Prefix

LEMMA PrefixGrows ==
  ASSUME NEW S, NEW d \in Seq(S), NEW e \in Seq(S), NEW f \in Seq(S), Prefix(d, e)
  PROVE  Prefix(d, e \o f)
<1>1. /\ Len(e \o f) = Len(e) + Len(f) /\ Len(e) \in Nat /\ Len(f) \in Nat /\ Len(d) \in Nat
      /\ \A i \in 1..Len(e) : (e \o f)[i] = e[i]
  BY ConcatProperties
<1> QED BY <1>1 DEF Prefix

LEMMA PrefixAppend ==
  ASSUME NEW S, NEW d \in Seq(S), NEW e \in Seq(S), NEW x \in S, Prefix(d, e)
  PROVE  Prefix(d, Append(e, x))
BY DEF Prefix

\* A prefix that ends in x or goes on with f is one without.
LEMMA PrefixShorter ==
  ASSUME NEW S, NEW d \in Seq(S), NEW e
  PROVE  /\ \A x \in S : Prefix(Append(d, x), e) => Prefix(d, e) /\ e[Len(d) + 1] = x
                                                    /\ Len(d) + 1 <= Len(e)
         /\ \A f \in Seq(S) : Prefix(d \o f, e) => Prefix(d, e)
<1>1. ASSUME NEW x \in S, Prefix(Append(d, x), e)
      PROVE  Prefix(d, e) /\ e[Len(d) + 1] = x /\ Len(d) + 1 <= Len(e)
  <2>1. /\ Len(Append(d, x)) = Len(d) + 1 /\ Len(d) \in Nat
        /\ \A i \in 1..Len(d) : Append(d, x)[i] = d[i]
        /\ Append(d, x)[Len(d) + 1] = x
    OBVIOUS
  <2> QED BY <1>1, <2>1 DEF Prefix
<1>2. ASSUME NEW f \in Seq(S), Prefix(d \o f, e) PROVE Prefix(d, e)
  <2>1. /\ Len(d \o f) = Len(d) + Len(f) /\ Len(d) \in Nat /\ Len(f) \in Nat
        /\ \A i \in 1..Len(d) : (d \o f)[i] = d[i]
    BY ConcatProperties
  <2> QED BY <1>2, <2>1 DEF Prefix
<1> QED BY <1>1, <1>2

\* After the same draws, the next draw is that of the base evaluation.
LEMMA SameDraw ==
  ASSUME evaluation = "trained", stream \in Seq(Draws), NEW d \in Seq(Draws),
         NEW kind, NEW n, NEW a, Drew(kind, n, a) \in Draws,
         Prefix(Append(d, Drew(kind, n, a)), stream)
  PROVE  MayDraw(d, kind, n) = {a}
<1> DEFINE k == Len(d) + 1
<1>1. Prefix(d, stream) /\ stream[k] = Drew(kind, n, a) /\ k <= Len(stream)
  BY PrefixShorter
<1>2. k \in DOMAIN stream /\ k - 1 = Len(d)
  BY <1>1
<1>3. SubSeq(stream, 1, k - 1) = d
  BY <1>1, <1>2, PrefixCut
<1>4. stream[k].kind = kind /\ stream[k].n = n /\ stream[k].got = a
  BY <1>1 DEF Drew
<1> QED BY <1>2, <1>3, <1>4 DEF MayDraw

\* In the base evaluation anything may be drawn.
LEMMA BaseDraws ==
  ASSUME evaluation = "base", NEW d, NEW n
  PROVE  MayDraw(d, "choice", n) = 1..n /\ MayDraw(d, "random", n) = Rolls
BY DEF MayDraw

\* A step with its launch in time leads from what the generator is at to
\* what it is at then.
LEMMA BaseBegins ==
  ASSUME Begin, evaluation = "base" PROVE Begun(Now, Now')
BY DEF Begin, Begun, Now

LEMMA BasePicks ==
  ASSUME TypeOK, PickBug, evaluation = "base" PROVE Picked(Now, Now')
<1> DEFINE names == Names(difficulty)
<1>1. PICK a \in 1..Len(names) :
        LET d1 == Append(drawn, Drew("choice", Len(names), a))
            n  == Len(Templates[names[a]].bugs)
        IN  /\ template' = names[a]
            /\ bug' \in MayDraw(d1, "choice", n)
            /\ drawn' = Append(d1, Drew("choice", n, bug'))
  BY BaseDraws DEF PickBug
<1> DEFINE n == Len(Templates[template'].bugs)
<1>2. /\ template' = names[a] /\ bug' \in 1..n
      /\ drawn' = Append(Append(drawn, Drew("choice", Len(names), a)), Drew("choice", n, bug'))
  BY <1>1, BaseDraws
<1>3. /\ pc = "picking" /\ pc' = "testing"
      /\ UNCHANGED <<evaluation, difficulty, scenarios>>
  BY DEF PickBug
<1>4. /\ Now.pc = pc /\ Now.drawn = drawn /\ Now.made = scenarios[evaluation]
      /\ Now.difficulty = difficulty
      /\ Now'.pc = pc' /\ Now'.drawn = drawn' /\ Now'.made = scenarios'[evaluation']
      /\ Now'.difficulty = difficulty' /\ Now'.template = template' /\ Now'.bug = bug'
  BY DEF Now
<1> QED BY <1>2, <1>3, <1>4 DEF Picked

LEMMA BaseTests ==
  ASSUME TypeOK, EvaluateTests, late' = 0 PROVE Tested(Now, Now') /\ late = 0
<1>1. PICK is_late \in BOOLEAN : Launch(is_late) /\ failing_inputs' = FailingInputs(TheBug, is_late)
  BY DEF EvaluateTests
<1>2. late = 0 /\ is_late = FALSE
  BY <1>1, GeneratorAssumption DEF Launch, TypeOK
<1>3. failing_inputs' = FailingInputs(BugAt(Now), FALSE)
  BY <1>1, <1>2 DEF BugAt, TheBug, TheTemplate, Now
<1>4. /\ Now.pc = pc /\ Now.drawn = drawn /\ Now.made = scenarios[evaluation]
      /\ Now.difficulty = difficulty /\ Now.template = template /\ Now.bug = bug
      /\ Now'.pc = pc' /\ Now'.drawn = drawn' /\ Now'.made = scenarios'[evaluation']
      /\ Now'.difficulty = difficulty' /\ Now'.template = template' /\ Now'.bug = bug'
      /\ Now'.failing_inputs = failing_inputs'
  BY DEF Now
<1>5. /\ pc = "testing"
      /\ pc' = IF failing_inputs' = <<>> THEN "picking" ELSE "quoting"
      /\ UNCHANGED <<evaluation, difficulty, template, bug, quoted, drawn, stream, scenarios>>
  BY DEF EvaluateTests
<1> QED BY <1>2, <1>3, <1>4, <1>5 DEF Tested

LEMMA BaseCites ==
  ASSUME TypeOK, QuoteFailure, evaluation = "base", late' = 0
  PROVE  Cited(Now, Now') /\ late = 0
<1>1. PICK a \in 1..Len(failing_inputs), is_late \in BOOLEAN :
        /\ Launch(is_late)
        /\ drawn' = Append(drawn, Drew("choice", Len(failing_inputs), a))
        /\ quoted' = [input |-> failing_inputs[a],
                      output |-> ActualFor(TheBug, failing_inputs[a], is_late)]
  BY BaseDraws DEF QuoteFailure
<1>2. late = 0 /\ is_late = FALSE
  <2>1. Launch(is_late) /\ late \in Nat
    BY <1>1, GeneratorAssumption DEF TypeOK
  <2> QED BY <2>1 DEF Launch
<1>3. quoted' = [input |-> failing_inputs[a],
                 output |-> ActualFor(BugAt(Now), failing_inputs[a], FALSE)]
  BY <1>1, <1>2 DEF BugAt, TheBug, TheTemplate, Now
<1>4. /\ Now.pc = pc /\ Now.drawn = drawn /\ Now.made = scenarios[evaluation]
      /\ Now.difficulty = difficulty /\ Now.template = template /\ Now.bug = bug
      /\ Now.failing_inputs = failing_inputs
      /\ Now'.pc = pc' /\ Now'.drawn = drawn' /\ Now'.made = scenarios'[evaluation']
      /\ Now'.difficulty = difficulty' /\ Now'.template = template' /\ Now'.bug = bug'
      /\ Now'.failing_inputs = failing_inputs' /\ Now'.quoted = quoted'
  BY DEF Now
<1>5. /\ pc = "quoting" /\ pc' = "wording"
      /\ UNCHANGED <<evaluation, difficulty, template, bug, failing_inputs, stream, scenarios>>
  BY DEF QuoteFailure
<1> QED BY <1>1, <1>2, <1>3, <1>4, <1>5 DEF Cited

LEMMA BaseWords ==
  ASSUME TypeOK, Render, evaluation = "base" PROVE Worded(Now, Now')
<1> DEFINE lines == Candidates(TheTemplate, TheBug)
           right(roll) == roll < difficulty.ratio
           d1(roll) == Append(drawn, Drew("random", 0, roll))
           wrong_line(roll, got) == IF right(roll) THEN TheBug.line ELSE lines[got]
           d2(roll, got) == IF right(roll) THEN d1(roll)
                            ELSE Append(d1(roll), Drew("choice", Len(lines), got))
<1>0. PICK roll \in Rolls : \E got \in IF right(roll) THEN {0} ELSE 1..Len(lines) :
        /\ scenarios' = [scenarios EXCEPT ![evaluation] =
                           Append(@, Scenario(right(roll), wrong_line(roll, got)))]
        /\ drawn' = d2(roll, got) \o Wording(difficulty, right(roll))
  BY BaseDraws DEF Render
<1>1. PICK got \in IF right(roll) THEN {0} ELSE 1..Len(lines) :
        /\ scenarios' = [scenarios EXCEPT ![evaluation] =
                           Append(@, Scenario(right(roll), wrong_line(roll, got)))]
        /\ drawn' = d2(roll, got) \o Wording(difficulty, right(roll))
  BY <1>0
<1>2. /\ pc = "wording" /\ pc' = "idle" /\ UNCHANGED evaluation
  BY DEF Render
<1>3. /\ Now.pc = pc /\ Now.drawn = drawn /\ Now.made = scenarios[evaluation]
      /\ Now.difficulty = difficulty /\ Now.template = template /\ Now.bug = bug
      /\ Now'.pc = pc' /\ Now'.drawn = drawn' /\ Now'.made = scenarios'[evaluation']
  BY DEF Now
<1>4. Templates[Now.template] = TheTemplate /\ BugAt(Now) = TheBug
  BY <1>3 DEF BugAt, TheBug, TheTemplate
<1>5. \A r, w : Scenario(r, w) = ScenarioAt(Now, r, w)
  BY DEF Scenario, ScenarioAt, Now
<1>6. scenarios'[evaluation'] = Append(scenarios[evaluation],
                                       Scenario(right(roll), wrong_line(roll, got)))
  BY <1>1, <1>2 DEF TypeOK
<1> QED BY <1>1, <1>2, <1>3, <1>4, <1>5, <1>6 DEF Worded

LEMMA ChoiceIsDraw ==
  ASSUME NEW n \in Nat, NEW a \in 1..n PROVE Drew("choice", n, a) \in Draws
BY DEF Drew, Draws

LEMMA RollIsDraw ==
  ASSUME NEW roll \in Rolls PROVE Drew("random", 0, roll) \in Draws
<1>1. roll \in Nat
  BY GeneratorAssumption
<1> QED BY <1>1 DEF Drew, Draws

LEMMA PrefixTransitive ==
  ASSUME NEW S, NEW d \in Seq(S), NEW e \in Seq(S), NEW f \in Seq(S), Prefix(d, e), Prefix(e, f)
  PROVE  Prefix(d, f)
<1>1. Len(d) \in Nat /\ Len(e) \in Nat /\ Len(f) \in Nat
  OBVIOUS
<1> QED BY <1>1 DEF Prefix

LEMMA PrefixOfItself ==
  ASSUME NEW S, NEW d \in Seq(S)
  PROVE  /\ Prefix(d, d)
         /\ \A x \in S : Prefix(d, Append(d, x))
         /\ \A f \in Seq(S) : Prefix(d, d \o f)
<1>1. Prefix(d, d)
  BY DEF Prefix
<1> QED BY <1>1, PrefixAppend, PrefixGrows

\* A step from a snapshot with the types of one only adds to what is drawn
\* and made.
Typed(s) ==
  /\ s.drawn \in Seq(Draws) /\ s.made \in Seq(Rows)
  /\ s.difficulty \in Difficulties /\ s.failing_inputs \in Seq(Nat)
  /\ s.pc \notin {"idle", "picking"} =>
       s.template \in DOMAIN Templates /\ s.bug \in DOMAIN Templates[s.template].bugs

LEMMA NowTyped == TypeOK => Typed(Now)
<1> SUFFICES ASSUME TypeOK PROVE Typed(Now)
  OBVIOUS
<1>1. /\ Now.pc = pc /\ Now.drawn = drawn /\ Now.made = scenarios[evaluation]
      /\ Now.difficulty = difficulty /\ Now.template = template /\ Now.bug = bug
      /\ Now.failing_inputs = failing_inputs
  BY DEF Now
<1> QED BY <1>1 DEF Typed, TypeOK, TheTemplate

\* The draws of each kind of step are draws.
LEMMA PickedDraws ==
  ASSUME NEW s, NEW t, Typed(s), Picked(s, t),
         NEW a \in 1..Len(Names(s.difficulty)), t.template = Names(s.difficulty)[a]
  PROVE  /\ t.template \in DOMAIN Templates
         /\ Drew("choice", Len(Names(s.difficulty)), a) \in Draws
         /\ Len(Templates[t.template].bugs) \in Nat
         /\ Drew("choice", Len(Templates[t.template].bugs), t.bug) \in Draws
<1>1. Names(s.difficulty) \in Seq(DOMAIN Templates) /\ Len(Names(s.difficulty)) \in Nat
  BY NamesAreFunctions
<1>2. t.template \in DOMAIN Templates
  BY <1>1
<1>3. Len(Templates[t.template].bugs) \in Nat
  BY <1>2, TemplateFields
<1>4. t.bug \in 1..Len(Templates[t.template].bugs)
  BY DEF Picked
<1> QED BY <1>1, <1>2, <1>3, <1>4, ChoiceIsDraw

LEMMA LinesToBlame ==
  ASSUME NEW s, Typed(s), s.pc = "wording"
  PROVE  Candidates(Templates[s.template], BugAt(s)) \in Seq(Nat)
BY TemplateFields, CandidatesAreWrong DEF Typed

LEMMA LeadsOn ==
  ASSUME NEW s, NEW t, Typed(s), Leads(s, t)
  PROVE  /\ Prefix(s.drawn, t.drawn)
         /\ \/ /\ t.made = s.made /\ t.pc # "idle"
               /\ s.pc # "idle" => t.difficulty = s.difficulty
            \/ /\ t.pc = "idle"
               /\ \E sc : t.made = Append(s.made, sc) /\ sc.difficulty = s.difficulty
<1> DEFINE Made1 == \/ /\ t.made = s.made /\ t.pc # "idle"
                       /\ s.pc # "idle" => t.difficulty = s.difficulty
                    \/ /\ t.pc = "idle"
                       /\ \E sc : t.made = Append(s.made, sc) /\ sc.difficulty = s.difficulty
<1>0. s.drawn \in Seq(Draws)
  BY DEF Typed
<1>1. CASE Begun(s, t)
  BY <1>0, <1>1, PrefixOfItself DEF Begun
<1>2. CASE Picked(s, t)
  <2> DEFINE n == Len(Templates[t.template].bugs)
             names == Names(s.difficulty)
  <2>1. PICK a \in 1..Len(names) :
          /\ t.template = names[a]
          /\ t.drawn = Append(Append(s.drawn, Drew("choice", Len(names), a)), Drew("choice", n, t.bug))
    BY <1>2 DEF Picked
  <2>2. Drew("choice", Len(names), a) \in Draws /\ Drew("choice", n, t.bug) \in Draws
    BY <1>2, <2>1, PickedDraws
  <2> DEFINE x == Drew("choice", Len(names), a)
             y == Drew("choice", n, t.bug)
  <2>3. t.drawn = Append(Append(s.drawn, x), y) /\ x \in Draws /\ y \in Draws
    BY <2>1, <2>2
  <2> HIDE DEF x, y
  <2>4. Append(s.drawn, x) \in Seq(Draws) /\ t.drawn \in Seq(Draws)
    BY <1>0, <2>3
  <2>5. Prefix(s.drawn, t.drawn)
    BY <1>0, <2>3, <2>4, PrefixOfItself, PrefixAppend
  <2> QED BY <1>2, <2>5 DEF Picked
<1>3. CASE Tested(s, t)
  BY <1>0, <1>3, PrefixOfItself DEF Tested
<1>4. CASE Cited(s, t)
  <2>1. s.failing_inputs \in Seq(Nat) /\ Len(s.failing_inputs) \in Nat
    BY DEF Typed
  <2>2. PICK a \in 1..Len(s.failing_inputs) :
          t.drawn = Append(s.drawn, Drew("choice", Len(s.failing_inputs), a))
    BY <1>4 DEF Cited
  <2>3. Prefix(s.drawn, t.drawn)
    BY <1>0, <2>1, <2>2, ChoiceIsDraw, PrefixOfItself
  <2> QED BY <1>4, <2>3 DEF Cited
<1>5. CASE Worded(s, t)
  <2> DEFINE lines == Candidates(Templates[s.template], BugAt(s))
             right(roll) == roll < s.difficulty.ratio
             d1(roll) == Append(s.drawn, Drew("random", 0, roll))
             wrong_line(roll, got) == IF right(roll) THEN BugAt(s).line ELSE lines[got]
             d2(roll, got) == IF right(roll) THEN d1(roll)
                              ELSE Append(d1(roll), Drew("choice", Len(lines), got))
  <2>1. PICK roll \in Rolls : \E got \in IF right(roll) THEN {0} ELSE 1..Len(lines) :
          /\ t.made = Append(s.made, ScenarioAt(s, right(roll), wrong_line(roll, got)))
          /\ t.drawn = d2(roll, got) \o Wording(s.difficulty, right(roll))
    BY <1>5 DEF Worded
  <2>2. PICK got \in IF right(roll) THEN {0} ELSE 1..Len(lines) :
          /\ t.made = Append(s.made, ScenarioAt(s, right(roll), wrong_line(roll, got)))
          /\ t.drawn = d2(roll, got) \o Wording(s.difficulty, right(roll))
    BY <2>1
  <2>3. d1(roll) \in Seq(Draws) /\ Prefix(s.drawn, d1(roll))
    BY <1>0, RollIsDraw, PrefixOfItself
  <2>4. lines \in Seq(Nat) /\ Len(lines) \in Nat
    BY <1>5, LinesToBlame DEF Worded
  <2> HIDE DEF d1, lines
  <2>5. right(roll) \/ Drew("choice", Len(lines), got) \in Draws
    BY <2>2, <2>4, ChoiceIsDraw
  <2>0. right(roll) \in BOOLEAN /\ s.difficulty \in Difficulties
    BY DEF Typed
  <2> HIDE DEF right
  <2>6. d2(roll, got) \in Seq(Draws) /\ Prefix(s.drawn, d2(roll, got))
    BY <1>0, <2>3, <2>5, PrefixAppend
  <2> HIDE DEF d2
  <2>7. Wording(s.difficulty, right(roll)) \in Seq(Draws)
    BY <2>0, WordingType
  <2>8. Prefix(s.drawn, t.drawn)
    BY <1>0, <2>2, <2>6, <2>7, PrefixGrows
  <2>9. ScenarioAt(s, right(roll), wrong_line(roll, got)).difficulty = s.difficulty
    BY DEF ScenarioAt
  <2>10. Made1
    BY <1>5, <2>2, <2>9 DEF Worded
  <2> QED BY <2>8, <2>10
<1> QED BY <1>1, <1>2, <1>3, <1>4, <1>5 DEF Leads

\* In the trained evaluation, a generator that is at s of the history and
\* whose launch is in time takes the step that follows s there.
LEMMA BeginsAlike ==
  ASSUME TypeOK, evaluation = "trained", Begin, NEW s, NEW t, Alike(s, Now), Leads(s, t),
         AskedFor(t), Prefix(t.made, BaseMade), EPISODES = Len(BaseMade)
  PROVE  Alike(t, Now')
<1>1. /\ pc = "idle" /\ pc' = "picking" /\ Len(scenarios["trained"]) < EPISODES
      /\ difficulty' = scenarios["base"][Len(scenarios["trained"]) + 1].difficulty
      /\ UNCHANGED <<evaluation, drawn, scenarios>>
  BY DEF Begin
<1>2. /\ Now.pc = pc /\ Now.drawn = drawn /\ Now.made = scenarios["trained"]
      /\ Now'.pc = pc' /\ Now'.drawn = drawn' /\ Now'.made = scenarios'["trained"]
      /\ Now'.difficulty = difficulty'
  BY <1>1 DEF Now
<1>3. s.pc = "idle" /\ s.drawn = drawn /\ s.made = scenarios["trained"]
  BY <1>1, <1>2 DEF Alike
<1>4. Begun(s, t)
  BY <1>3 DEF Leads, Picked, Tested, Cited, Worded
<1>5. t.pc = "picking" /\ t.drawn = drawn /\ t.made = scenarios["trained"]
  BY <1>3, <1>4 DEF Begun
<1>6. t.difficulty = difficulty'
  BY <1>1, <1>5 DEF AskedFor, BaseMade
<1> QED BY <1>1, <1>2, <1>5, <1>6 DEF Alike

LEMMA PicksAlike ==
  ASSUME TypeOK, evaluation = "trained", PickBug, NEW s, NEW t, Alike(s, Now), Leads(s, t),
         Prefix(t.drawn, stream)
  PROVE  Alike(t, Now')
<1> DEFINE names == Names(difficulty)
           n == Len(Templates[t.template].bugs)
<1>1. /\ pc = "picking" /\ pc' = "testing"
      /\ UNCHANGED <<evaluation, difficulty, scenarios>>
  BY DEF PickBug
<1>2. /\ Now.pc = pc /\ Now.drawn = drawn /\ Now.made = scenarios["trained"]
      /\ Now.difficulty = difficulty
      /\ Now'.pc = pc' /\ Now'.drawn = drawn' /\ Now'.made = scenarios'["trained"]
      /\ Now'.difficulty = difficulty' /\ Now'.template = template' /\ Now'.bug = bug'
  BY <1>1 DEF Now
<1>3. /\ s.pc = "picking" /\ s.drawn = drawn /\ s.made = scenarios["trained"]
      /\ s.difficulty = difficulty
  BY <1>1, <1>2 DEF Alike
<1>4. Picked(s, t)
  BY <1>3 DEF Leads, Begun, Tested, Cited, Worded
<1>5. PICK a \in 1..Len(names) :
        /\ t.template = names[a] /\ t.bug \in 1..n
        /\ t.drawn = Append(Append(drawn, Drew("choice", Len(names), a)), Drew("choice", n, t.bug))
  BY <1>3, <1>4 DEF Picked
<1> DEFINE x == Drew("choice", Len(names), a)
           y == Drew("choice", n, t.bug)
<1>6. x \in Draws /\ y \in Draws /\ drawn \in Seq(Draws) /\ stream \in Seq(Draws)
  <2>1. names \in Seq(DOMAIN Templates) /\ Len(names) \in Nat
    BY NamesAreFunctions
  <2>2. t.template \in DOMAIN Templates
    BY <1>5, <2>1
  <2>3. n \in Nat
    BY <2>2, TemplateFields
  <2> QED BY <1>5, <2>1, <2>3, ChoiceIsDraw DEF TypeOK
<1>7. t.drawn = Append(Append(drawn, x), y)
  BY <1>5
<1>8. MayDraw(Append(drawn, x), "choice", n) = {t.bug}
  <2> HIDE DEF x, n
  <2>1. Append(drawn, x) \in Seq(Draws)
    BY <1>6
  <2>2. Prefix(Append(Append(drawn, x), Drew("choice", n, t.bug)), stream)
    BY <1>7
  <2>3. Drew("choice", n, t.bug) \in Draws
    BY <1>6
  <2> QED BY <1>6, <2>1, <2>2, <2>3, SameDraw
<1>9. MayDraw(drawn, "choice", Len(names)) = {a}
  <2>1. Prefix(Append(drawn, x), stream)
    <3> HIDE DEF x, y
    <3>1. Append(drawn, x) \in Seq(Draws)
      BY <1>6
    <3>2. Prefix(Append(Append(drawn, x), y), stream)
      BY <1>7
    <3>3. \A z \in Draws : Prefix(Append(Append(drawn, x), z), stream) =>
                            Prefix(Append(drawn, x), stream)
      BY <3>1, PrefixShorter
    <3> QED BY <1>6, <3>2, <3>3
  <2> HIDE DEF names
  <2> QED BY <1>6, <2>1, SameDraw
<1>10. PICK b \in MayDraw(drawn, "choice", Len(names)) :
         LET d1 == Append(drawn, Drew("choice", Len(names), b))
             m  == Len(Templates[names[b]].bugs)
         IN  /\ template' = names[b]
             /\ bug' \in MayDraw(d1, "choice", m)
             /\ drawn' = Append(d1, Drew("choice", m, bug'))
  BY DEF PickBug
<1>11. b = a
  BY <1>9
<1>12. /\ template' = names[a]
       /\ bug' \in MayDraw(Append(drawn, x), "choice", Len(Templates[names[a]].bugs))
       /\ drawn' = Append(Append(drawn, x), Drew("choice", Len(Templates[names[a]].bugs), bug'))
  BY <1>10, <1>11
<1>13. Len(Templates[names[a]].bugs) = n
  BY <1>5
<1> HIDE DEF names, n, x
<1>14. template' = t.template /\ bug' = t.bug /\ drawn' = Append(Append(drawn, x), y)
  BY <1>5, <1>8, <1>12, <1>13
<1>15. t.drawn = drawn' /\ t.pc = "testing" /\ t.made = scenarios["trained"]
       /\ t.difficulty = difficulty
  BY <1>3, <1>4, <1>7, <1>14 DEF Picked
<1> QED BY <1>1, <1>2, <1>14, <1>15 DEF Alike

LEMMA TestsAlike ==
  ASSUME TypeOK, evaluation = "trained", EvaluateTests, late' = 0,
         NEW s, NEW t, Alike(s, Now), Leads(s, t)
  PROVE  Alike(t, Now')
<1>1. Tested(Now, Now')
  BY BaseTests
<1>2. /\ Now.pc = "testing" /\ s.pc = "testing"
  BY <1>1 DEF Tested, Alike
<1>3. Tested(s, t)
  BY <1>2 DEF Leads, Begun, Picked, Cited, Worded
<1>4. /\ s.drawn = Now.drawn /\ s.made = Now.made /\ s.difficulty = Now.difficulty
      /\ s.template = Now.template /\ s.bug = Now.bug
  BY <1>2 DEF Alike
<1>5. BugAt(s) = BugAt(Now)
  BY <1>4 DEF BugAt
<1>6. t.failing_inputs = Now'.failing_inputs
  BY <1>1, <1>3, <1>5 DEF Tested
<1>7. Now'.pc \in {"picking", "quoting"}
  BY <1>1 DEF Tested
<1> QED BY <1>1, <1>3, <1>4, <1>6, <1>7 DEF Tested, Alike

LEMMA CitesAlike ==
  ASSUME TypeOK, evaluation = "trained", QuoteFailure, late' = 0,
         NEW s, NEW t, Alike(s, Now), Leads(s, t), Prefix(t.drawn, stream)
  PROVE  Alike(t, Now')
<1> DEFINE n == Len(failing_inputs)
<1>1. /\ pc = "quoting" /\ pc' = "wording"
      /\ UNCHANGED <<evaluation, difficulty, template, bug, failing_inputs, stream, scenarios>>
  BY DEF QuoteFailure
<1>2. /\ Now.pc = pc /\ Now.drawn = drawn /\ Now.made = scenarios["trained"]
      /\ Now.difficulty = difficulty /\ Now.template = template /\ Now.bug = bug
      /\ Now.failing_inputs = failing_inputs
      /\ Now'.pc = pc' /\ Now'.drawn = drawn' /\ Now'.made = scenarios'["trained"]
      /\ Now'.difficulty = difficulty' /\ Now'.template = template' /\ Now'.bug = bug'
      /\ Now'.failing_inputs = failing_inputs' /\ Now'.quoted = quoted'
  BY <1>1 DEF Now
<1>3. /\ s.pc = "quoting" /\ s.drawn = drawn /\ s.made = scenarios["trained"]
      /\ s.difficulty = difficulty /\ s.template = template /\ s.bug = bug
      /\ s.failing_inputs = failing_inputs
  BY <1>1, <1>2 DEF Alike
<1>4. Cited(s, t)
  BY <1>3 DEF Leads, Begun, Picked, Tested, Worded
<1>5. BugAt(s) = TheBug
  BY <1>3 DEF BugAt, TheBug, TheTemplate
<1>6. PICK a \in 1..n :
        /\ t.quoted = [input |-> failing_inputs[a],
                       output |-> ActualFor(TheBug, failing_inputs[a], FALSE)]
        /\ t.drawn = Append(drawn, Drew("choice", n, a))
  BY <1>3, <1>4, <1>5 DEF Cited
<1>7. MayDraw(drawn, "choice", n) = {a}
  <2>1. n \in Nat /\ drawn \in Seq(Draws) /\ stream \in Seq(Draws)
    BY DEF TypeOK
  <2>2. Drew("choice", n, a) \in Draws
    BY <2>1, ChoiceIsDraw
  <2> HIDE DEF n
  <2> QED BY <1>6, <2>1, <2>2, SameDraw
<1>8. PICK b \in MayDraw(drawn, "choice", n), is_late \in BOOLEAN :
        /\ Launch(is_late)
        /\ drawn' = Append(drawn, Drew("choice", n, b))
        /\ quoted' = [input |-> failing_inputs[b],
                      output |-> ActualFor(TheBug, failing_inputs[b], is_late)]
  BY DEF QuoteFailure
<1>9. is_late = FALSE
  <2>1. Launch(is_late) /\ late \in Nat
    BY <1>8, GeneratorAssumption DEF TypeOK
  <2> QED BY <2>1 DEF Launch
<1>10. b = a
  BY <1>7
<1> HIDE DEF n
<1>11. quoted' = t.quoted /\ drawn' = t.drawn
  BY <1>6, <1>8, <1>9, <1>10
<1> QED BY <1>1, <1>2, <1>3, <1>4, <1>11 DEF Cited, Alike

LEMMA WordsAlike ==
  ASSUME TypeOK, evaluation = "trained", Render,
         NEW s, NEW t, Alike(s, Now), Leads(s, t), Prefix(t.drawn, stream)
  PROVE  Alike(t, Now')
<1> DEFINE lines == Candidates(TheTemplate, TheBug)
           right(roll) == roll < difficulty.ratio
           d1(roll) == Append(drawn, Drew("random", 0, roll))
           wrong_line(roll, got) == IF right(roll) THEN TheBug.line ELSE lines[got]
           d2(roll, got) == IF right(roll) THEN d1(roll)
                            ELSE Append(d1(roll), Drew("choice", Len(lines), got))
<1>1. pc = "wording" /\ pc' = "idle" /\ UNCHANGED evaluation
  BY DEF Render
<1>2. /\ Now.pc = pc /\ Now.drawn = drawn /\ Now.made = scenarios["trained"]
      /\ Now.difficulty = difficulty /\ Now.template = template /\ Now.bug = bug
      /\ Now.failing_inputs = failing_inputs /\ Now.quoted = quoted
      /\ Now'.pc = pc' /\ Now'.drawn = drawn' /\ Now'.made = scenarios'["trained"]
  BY <1>1 DEF Now
<1>3. /\ s.pc = "wording" /\ s.drawn = drawn /\ s.made = scenarios["trained"]
      /\ s.difficulty = difficulty /\ s.template = template /\ s.bug = bug
      /\ s.failing_inputs = failing_inputs /\ s.quoted = quoted
  BY <1>1, <1>2 DEF Alike
<1>4. Worded(s, t)
  BY <1>3 DEF Leads, Begun, Picked, Tested, Cited
<1>5. Templates[s.template] = TheTemplate /\ BugAt(s) = TheBug
  BY <1>3 DEF BugAt, TheBug, TheTemplate
<1>6. \A r, w : ScenarioAt(s, r, w) = Scenario(r, w)
  BY <1>3 DEF Scenario, ScenarioAt
<1>7. PICK roll \in Rolls : \E got \in IF right(roll) THEN {0} ELSE 1..Len(lines) :
        /\ t.made = Append(scenarios["trained"], Scenario(right(roll), wrong_line(roll, got)))
        /\ t.drawn = d2(roll, got) \o Wording(difficulty, right(roll))
  BY <1>3, <1>4, <1>5, <1>6 DEF Worded
<1>8. PICK got \in IF right(roll) THEN {0} ELSE 1..Len(lines) :
        /\ t.made = Append(scenarios["trained"], Scenario(right(roll), wrong_line(roll, got)))
        /\ t.drawn = d2(roll, got) \o Wording(difficulty, right(roll))
  BY <1>7
<1>9. PICK r1 \in MayDraw(drawn, "random", 0) :
        \E g \in IF right(r1) THEN {0} ELSE MayDraw(d1(r1), "choice", Len(lines)) :
          /\ scenarios' = [scenarios EXCEPT ![evaluation] =
                             Append(@, Scenario(right(r1), wrong_line(r1, g)))]
          /\ drawn' = d2(r1, g) \o Wording(difficulty, right(r1))
  BY DEF Render
<1>10. PICK g1 \in IF right(r1) THEN {0} ELSE MayDraw(d1(r1), "choice", Len(lines)) :
         /\ scenarios' = [scenarios EXCEPT ![evaluation] =
                            Append(@, Scenario(right(r1), wrong_line(r1, g1)))]
         /\ drawn' = d2(r1, g1) \o Wording(difficulty, right(r1))
  BY <1>9
<1>11. /\ drawn \in Seq(Draws) /\ stream \in Seq(Draws) /\ difficulty \in Difficulties
       /\ right(roll) \in BOOLEAN
  BY DEF TypeOK
<1>12. lines \in Seq(Nat) /\ Len(lines) \in Nat
  BY <1>1, <1>2, <1>3, <1>5, NowTyped, LinesToBlame DEF BugAt, TheBug, TheTemplate
<1>13. d1(roll) \in Seq(Draws) /\ Drew("random", 0, roll) \in Draws
  BY <1>11, RollIsDraw
<1>14. right(roll) \/ Drew("choice", Len(lines), got) \in Draws
  <2> HIDE DEF lines
  <2> QED BY <1>8, <1>12, ChoiceIsDraw
<1>15. Wording(difficulty, right(roll)) \in Seq(Draws)
  <2> HIDE DEF right
  <2> QED BY <1>11, WordingType
<1>16. Prefix(d2(roll, got), stream)
  <2> HIDE DEF d1, lines, right
  <2>1. d2(roll, got) \in Seq(Draws)
    BY <1>11, <1>13, <1>14
  <2>2. Prefix(d2(roll, got) \o Wording(difficulty, right(roll)), stream)
    BY <1>8
  <2> HIDE DEF d2
  <2> QED BY <1>15, <2>1, <2>2, PrefixShorter
<1>17. Prefix(d1(roll), stream)
  <2> HIDE DEF d1, lines, right
  <2>1. \A z \in Draws : Prefix(Append(d1(roll), z), stream) => Prefix(d1(roll), stream)
    BY <1>13, PrefixShorter
  <2> QED BY <1>11, <1>14, <1>16, <2>1
<1>18. r1 = roll
  <2>1. MayDraw(drawn, "random", 0) = {roll}
    BY <1>11, <1>13, <1>17, SameDraw
  <2> QED BY <2>1
<1>19. g1 = got
  <2>1. CASE right(roll)
    BY <1>8, <1>10, <1>18, <2>1
  <2>2. CASE ~ right(roll)
    <3> HIDE DEF d1, lines, right
    <3>1. Prefix(Append(d1(roll), Drew("choice", Len(lines), got)), stream)
      BY <1>16, <2>2
    <3>2. Drew("choice", Len(lines), got) \in Draws
      BY <1>14, <2>2
    <3>3. MayDraw(d1(roll), "choice", Len(lines)) = {got}
      BY <1>11, <1>13, <3>1, <3>2, SameDraw
    <3>4. g1 \in MayDraw(d1(roll), "choice", Len(lines))
      BY <1>10, <1>18, <2>2
    <3> QED BY <3>3, <3>4
  <2> QED BY <2>1, <2>2
<1> HIDE DEF d1, lines, right, wrong_line, d2
<1>20. drawn' = t.drawn
  BY <1>8, <1>10, <1>18, <1>19
<1>21. scenarios'["trained"] = t.made
  BY <1>8, <1>10, <1>18, <1>19 DEF TypeOK
<1> QED BY <1>1, <1>2, <1>4, <1>20, <1>21 DEF Worded, Alike

\* The steps within an evaluation.
Generates == Begin \/ PickBug \/ EvaluateTests \/ QuoteFailure \/ Render

LEMMA SeedInit == Init => SeedInv
<1> SUFFICES ASSUME Init PROVE SeedInv
  OBVIOUS
<1>1. /\ Now.pc = "idle" /\ Now.drawn = <<>> /\ Now.made = <<>>
      /\ evaluation = "base" /\ drawn = <<>> /\ scenarios["base"] = <<>>
      /\ scenarios["trained"] = <<>>
  BY DEF Init, Now
<1>2. <<>> \in Seq(Draws) /\ <<>> \in Seq(Rows)
  OBVIOUS
<1>3. Prefix(Now.drawn, BaseDrawn) /\ Prefix(Now.made, BaseMade)
  BY <1>1 DEF Prefix, BaseDrawn, BaseMade
<1>4. AskedFor(Now) /\ Last(Now)
  BY <1>1 DEF AskedFor, Last
<1>5. History({Now})
  BY <1>1, <1>2, <1>3, <1>4 DEF History
<1> QED BY <1>1, <1>5 DEF SeedInv

LEMMA BaseStep ==
  ASSUME TypeOK, evaluation = "base", Generates, late' = 0
  PROVE  Leads(Now, Now') /\ late = 0 /\ evaluation' = "base"
<1>1. CASE Begin
  BY <1>1, BaseBegins DEF Begin, Leads
<1>2. CASE PickBug
  BY <1>2, BasePicks DEF PickBug, Leads
<1>3. CASE EvaluateTests
  BY <1>3, BaseTests DEF EvaluateTests, Leads
<1>4. CASE QuoteFailure
  BY <1>4, BaseCites DEF QuoteFailure, Leads
<1>5. CASE Render
  BY <1>5, BaseWords DEF Render, Leads
<1> QED BY <1>1, <1>2, <1>3, <1>4, <1>5 DEF Generates

\* The base evaluation adds what it is at to the history.
LEMMA BaseKeepsHistory ==
  ASSUME TypeOK, TypeOK', evaluation = "base", Generates, late' = 0,
         NEW H, History(H), Now \in H
  PROVE  \E G : History(G)' /\ Now' \in G
<1>1. Leads(Now, Now') /\ evaluation' = "base"
  BY BaseStep
<1>2. PICK G : G = H \cup {Now'}
  OBVIOUS
<1>3. /\ Now.pc = pc /\ Now.drawn = drawn /\ Now.made = scenarios["base"]
      /\ Now.difficulty = difficulty
      /\ Now'.pc = pc' /\ Now'.drawn = drawn' /\ Now'.made = scenarios'["base"]
      /\ Now'.difficulty = difficulty'
  BY <1>1 DEF Now
<1>4. /\ BaseDrawn = drawn /\ BaseDrawn' = drawn'
      /\ BaseMade = scenarios["base"] /\ BaseMade' = scenarios'["base"]
  BY <1>1 DEF BaseDrawn, BaseMade
<1>5. /\ drawn \in Seq(Draws) /\ drawn' \in Seq(Draws)
      /\ scenarios["base"] \in Seq(Rows) /\ scenarios'["base"] \in Seq(Rows)
  BY DEF TypeOK
<1>6. /\ Prefix(drawn, drawn')
      /\ \/ /\ scenarios'["base"] = scenarios["base"] /\ pc' # "idle"
            /\ pc # "idle" => difficulty' = difficulty
         \/ /\ pc' = "idle"
            /\ \E sc : /\ scenarios'["base"] = Append(scenarios["base"], sc)
                       /\ sc.difficulty = difficulty
  BY <1>1, <1>3, NowTyped, LeadsOn
<1>7. Prefix(scenarios["base"], scenarios'["base"])
  <2>1. CASE scenarios'["base"] = scenarios["base"]
    BY <1>5, <2>1, PrefixOfItself
  <2>2. ASSUME NEW sc, scenarios'["base"] = Append(scenarios["base"], sc)
        PROVE  Prefix(scenarios["base"], scenarios'["base"])
    BY <1>5, <2>2 DEF Prefix
  <2> QED BY <1>6, <2>1, <2>2
<1>8. ASSUME NEW s \in H
      PROVE  /\ s.drawn \in Seq(Draws) /\ Prefix(s.drawn, drawn')
             /\ s.made \in Seq(Rows) /\ Prefix(s.made, scenarios'["base"])
  <2>1. /\ s.drawn \in Seq(Draws) /\ Prefix(s.drawn, drawn)
        /\ s.made \in Seq(Rows) /\ Prefix(s.made, scenarios["base"])
    BY <1>4 DEF History
  <2> QED BY <1>5, <1>6, <1>7, <2>1, PrefixTransitive
<1>9. ASSUME NEW s \in H, s.pc # "idle"
      PROVE  IF Len(s.made) < Len(scenarios'["base"])
             THEN s.difficulty = scenarios'["base"][Len(s.made) + 1].difficulty
             ELSE pc' # "idle" /\ s.difficulty = difficulty'
  <2> DEFINE k == Len(s.made)
             B == scenarios["base"]
             C == scenarios'["base"]
  <2>1. IF k < Len(B) THEN s.difficulty = B[k + 1].difficulty
        ELSE pc # "idle" /\ s.difficulty = difficulty
    BY <1>4, <1>9 DEF History, AskedFor
  <2>2. k \in Nat /\ k <= Len(B) /\ Len(B) \in Nat /\ Len(C) \in Nat
    <3>1. s.made \in Seq(Rows) /\ Prefix(s.made, B)
      BY <1>4 DEF History
    <3> QED BY <1>5, <3>1 DEF Prefix
  <2>3. Len(B) <= Len(C) /\ \A i \in 1..Len(B) : B[i] = C[i]
    BY <1>7 DEF Prefix
  <2>4. CASE k < Len(B)
    <3>1. k + 1 \in 1..Len(B) /\ k < Len(C)
      BY <2>2, <2>3, <2>4
    <3>2. B[k + 1] = C[k + 1]
      BY <2>3, <3>1
    <3> QED BY <2>1, <2>4, <3>1, <3>2
  <2>5. CASE k = Len(B)
    <3>1. pc # "idle" /\ s.difficulty = difficulty
      BY <2>1, <2>2, <2>5
    <3>2. CASE C = B /\ pc' # "idle" /\ difficulty' = difficulty
      BY <2>2, <2>5, <3>1, <3>2
    <3>3. ASSUME NEW sc, C = Append(B, sc), sc.difficulty = difficulty
          PROVE  k < Len(C) /\ C[k + 1].difficulty = s.difficulty
      <4>1. Len(C) = Len(B) + 1 /\ C[Len(B) + 1] = sc
        BY <1>5, <3>3
      <4> QED BY <2>2, <2>5, <3>1, <3>3, <4>1
    <3>4. \/ C = B /\ pc' # "idle" /\ difficulty' = difficulty
          \/ \E sc : C = Append(B, sc) /\ sc.difficulty = difficulty
      BY <1>6, <3>1
    <3>5. CASE \E sc : C = Append(B, sc) /\ sc.difficulty = difficulty
      BY <3>3, <3>5
    <3> QED BY <3>2, <3>4, <3>5
  <2> QED BY <2>2, <2>4, <2>5
<1>10. \A s \in G :
         /\ s.drawn \in Seq(Draws) /\ Prefix(s.drawn, drawn')
         /\ s.made \in Seq(Rows) /\ Prefix(s.made, scenarios'["base"])
  <2>1. Prefix(drawn', drawn') /\ Prefix(scenarios'["base"], scenarios'["base"])
    BY <1>5, PrefixOfItself
  <2> QED BY <1>2, <1>3, <1>5, <1>8, <2>1
<1>11. \A s \in G : s.pc # "idle" =>
         IF Len(s.made) < Len(scenarios'["base"])
         THEN s.difficulty = scenarios'["base"][Len(s.made) + 1].difficulty
         ELSE pc' # "idle" /\ s.difficulty = difficulty'
  <2>1. ~ (Len(scenarios'["base"]) < Len(scenarios'["base"]))
    BY <1>5
  <2> QED BY <1>2, <1>3, <1>9, <2>1
<1>12. \A s \in G : s = Now' \/ \E t \in G : Leads(s, t)
  <2>1. \A s \in H : s = Now \/ \E t \in H : Leads(s, t)
    BY DEF History, Last
  <2> QED BY <1>1, <1>2, <2>1
<1>13. \E s \in G : s.pc = "idle" /\ s.drawn = <<>> /\ s.made = <<>>
  BY <1>2 DEF History
<1>14. History(G)'
  BY <1>1, <1>4, <1>10, <1>11, <1>12, <1>13 DEF History, AskedFor, Last
<1> QED BY <1>2, <1>14

LEMMA SeedBase ==
  ASSUME IInv, IInv', SeedInv, evaluation = "base", Generates PROVE SeedInv'
<1>1. evaluation' = "base" /\ scenarios'["trained"] = scenarios["trained"]
  BY DEF Generates, Begin, PickBug, EvaluateTests, QuoteFailure, Render, IInv, TypeOK
<1>2. ASSUME late' = 0 PROVE \E G : History(G)' /\ Now' \in G
  <2>1. TypeOK /\ TypeOK' /\ late = 0
    BY <1>2, BaseStep DEF IInv
  <2>2. PICK H : History(H) /\ Now \in H
    BY <2>1 DEF SeedInv
  <2> QED BY <1>2, <2>1, <2>2, BaseKeepsHistory
<1> QED BY <1>1, <1>2 DEF SeedInv

\* The trained one stays on the history.
LEMMA SeedTrained ==
  ASSUME IInv, SeedInv, evaluation = "trained", Generates PROVE SeedInv'
<1>1. /\ evaluation' = "trained" /\ stream' = stream
      /\ scenarios'["base"] = scenarios["base"]
  BY DEF Generates, Begin, PickBug, EvaluateTests, QuoteFailure, Render, IInv, TypeOK
<1>2. ASSUME late' = 0 PROVE \E H : History(H)' /\ \E s \in H : Alike(s, Now')
  <2>0. TypeOK /\ Len(scenarios["base"]) = EPISODES
    BY DEF IInv
  <2>1. late = 0
    <3>1. CASE EvaluateTests
      BY <1>2, <2>0, <3>1, BaseTests
    <3>2. CASE QuoteFailure
      <4>1. PICK is_late \in BOOLEAN : Launch(is_late)
        BY <3>2 DEF QuoteFailure
      <4>2. late \in Nat
        BY <2>0, GeneratorAssumption DEF TypeOK
      <4> QED BY <1>2, <4>1, <4>2 DEF Launch
    <3> QED BY <1>2, <3>1, <3>2 DEF Generates, Begin, PickBug, Render
  <2>2. PICK H : History(H) /\ \E s \in H : Alike(s, Now)
    BY <2>1 DEF SeedInv
  <2>3. PICK s \in H : Alike(s, Now)
    BY <2>2
  <2>4. /\ s.pc = pc /\ s.made = scenarios["trained"]
    BY <2>3 DEF Alike, Now
  <2>5. ~ Last(s)
    <3>1. pc # "idle" \/ Len(scenarios["trained"]) < EPISODES
      BY DEF Generates, Begin, PickBug, EvaluateTests, QuoteFailure, Render
    <3>2. Len(scenarios["trained"]) \in Nat /\ EPISODES \in Nat
      BY <2>0, GeneratorAssumption DEF TypeOK
    <3> QED BY <2>4, <3>1, <3>2 DEF Last
  <2>6. PICK t \in H : Leads(s, t)
    BY <2>2, <2>5 DEF History
  <2>7. AskedFor(t) /\ Prefix(t.drawn, stream) /\ Prefix(t.made, BaseMade)
    BY <2>2 DEF History, BaseDrawn
  <2>8. Alike(t, Now')
    <3>1. CASE Begin
      BY <2>0, <2>3, <2>6, <2>7, <3>1, BeginsAlike DEF BaseMade
    <3>2. CASE PickBug
      BY <2>0, <2>3, <2>6, <2>7, <3>2, PicksAlike
    <3>3. CASE EvaluateTests
      BY <1>2, <2>0, <2>3, <2>6, <3>3, TestsAlike
    <3>4. CASE QuoteFailure
      BY <1>2, <2>0, <2>3, <2>6, <2>7, <3>4, CitesAlike
    <3>5. CASE Render
      BY <2>0, <2>3, <2>6, <2>7, <3>5, WordsAlike
    <3> QED BY <3>1, <3>2, <3>3, <3>4, <3>5 DEF Generates
  <2>9. History(H)'
    BY <1>1, <2>2 DEF History, BaseDrawn, BaseMade, AskedFor, Last
  <2> QED BY <2>6, <2>8, <2>9
<1> QED BY <1>1, <1>2 DEF SeedInv

\* When the base evaluation is over, the trained one is at its beginning.
LEMMA SeedSwitches == IInv /\ SeedInv /\ NextEvaluation => SeedInv'
<1> SUFFICES ASSUME IInv, SeedInv, NextEvaluation PROVE SeedInv'
  OBVIOUS
<1>1. /\ evaluation = "base" /\ pc = "idle" /\ Len(scenarios["base"]) = EPISODES
      /\ evaluation' = "trained" /\ stream' = drawn /\ drawn' = <<>>
      /\ UNCHANGED <<pc, scenarios, late>> /\ scenarios["trained"] = <<>>
  BY DEF NextEvaluation, NewGenerator, SeedInv
<1>2. ASSUME late = 0 PROVE \E H : History(H)' /\ \E s \in H : Alike(s, Now')
  <2>1. PICK H : History(H) /\ Now \in H
    BY <1>1, <1>2 DEF SeedInv
  <2>2. PICK s \in H : s.pc = "idle" /\ s.drawn = <<>> /\ s.made = <<>>
    BY <2>1 DEF History
  <2>3. Now'.pc = "idle" /\ Now'.drawn = <<>> /\ Now'.made = <<>>
    BY <1>1 DEF Now
  <2>4. Alike(s, Now')
    BY <2>2, <2>3 DEF Alike
  <2>5. BaseDrawn' = BaseDrawn /\ BaseMade' = BaseMade
    BY <1>1 DEF BaseDrawn, BaseMade
  <2>6. \A x \in H : AskedFor(x) => AskedFor(x)'
    BY <1>1, <2>5 DEF AskedFor
  <2>7. \A x \in H : Last(x) => Last(x)'
    <3>1. Now.pc = "idle" /\ Len(Now.made) = EPISODES
      BY <1>1 DEF Now
    <3> QED BY <1>1, <3>1 DEF Last
  <2>8. History(H)'
    BY <2>1, <2>5, <2>6, <2>7 DEF History
  <2> QED BY <2>4, <2>8
<1> QED BY <1>1, <1>2 DEF SeedInv

LEMMA SeedNext == IInv /\ IInv' /\ SeedInv /\ [Next]_vars => SeedInv'
<1> SUFFICES ASSUME IInv, IInv', SeedInv, [Next]_vars PROVE SeedInv'
  OBVIOUS
<1>1. CASE Generates
  <2>1. evaluation \in {"base", "trained"}
    BY DEF IInv, TypeOK
  <2> QED BY <1>1, <2>1, SeedBase, SeedTrained
<1>2. CASE NextEvaluation
  BY <1>2, SeedSwitches
<1>3. CASE UNCHANGED vars
  <2>1. UNCHANGED <<evaluation, pc, difficulty, template, bug, failing_inputs, quoted, drawn,
                    stream, scenarios, late>>
    BY <1>3 DEF vars
  <2>2. Now' = Now
    BY <2>1 DEF Now
  <2>3. \A H : History(H) => History(H)'
    BY <2>1, <2>2 DEF History, BaseDrawn, BaseMade, AskedFor, Last
  <2> QED BY <2>1, <2>2, <2>3 DEF SeedInv
<1> QED BY <1>1, <1>2, <1>3 DEF Next, Generates

\* As long as every launch is in time, the seed and the difficulties decide
\* the scenarios, retries for want of a failing test included: the trained
\* policy is given those of the base policy (eval.py:1), for any functions,
\* bugs and number of episodes.
THEOREM SeedDecides == Spec => []SeedDecidesScenario
<1>1. IInv /\ SeedInv => SeedDecidesScenario
  <2> SUFFICES ASSUME IInv, SeedInv, late = 0, NEW i \in DOMAIN scenarios["trained"]
               PROVE  scenarios["trained"][i] = scenarios["base"][i]
    BY DEF SeedDecidesScenario
  <2>1. scenarios["trained"] \in Seq(Rows) /\ evaluation \in {"base", "trained"}
    BY DEF IInv, TypeOK
  <2>2. evaluation = "trained"
    BY <2>1 DEF SeedInv
  <2>3. PICK H : History(H) /\ \E s \in H : Alike(s, Now)
    BY <2>2 DEF SeedInv
  <2>4. PICK s \in H : Alike(s, Now)
    BY <2>3
  <2>5. s.made = scenarios["trained"]
    BY <2>2, <2>4 DEF Alike, Now
  <2>6. Prefix(scenarios["trained"], scenarios["base"])
    BY <2>3, <2>5 DEF History, BaseMade
  <2>7. i \in 1..Len(scenarios["trained"])
    BY <2>1
  <2> QED BY <2>6, <2>7 DEF Prefix
<1> QED BY <1>1, InitSound, NextSound, SeedInit, SeedNext, PTL DEF Spec
=============================================================================
