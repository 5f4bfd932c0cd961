---------------------------- MODULE MCGenerator ----------------------------
(* Instances of Generator; the values are in the MCGen*.cfg files.         *)
EXTENDS Generator

Fn(lines, wrong_lines, bugs) == [lines |-> lines, wrong_lines |-> wrong_lines, bugs |-> bugs]
Bug(line, does) == [line |-> line, does |-> does]

\* A bug that some tests notice and one that none does, with a line to blame
\* that is also a bug line; a longer function with a bug that hangs on one
\* input and nothing known to blame but the bug line.
TwoFunctions ==
  << Fn(3, <<1, 2>>, <<Bug(2, <<"wrong", "right">>), Bug(3, <<"right", "right">>)>>),
     Fn(4, <<2>>, <<Bug(2, <<"right", "hangs">>)>>) >>

\* binary_search with its off-by-one of line 11: one of its tests hangs.
BinarySearch ==
  << Fn(12, <<2, 5, 7>>,
        <<Bug(11, <<"right", "right", "right", "right", "right", "right", "hangs">>)>>) >>

Asked(complex, convincing, ratio, count) ==
  [complex |-> complex, convincing |-> convincing, ratio |-> ratio, followup_count |-> count]

EasyAndHard == {Asked(FALSE, FALSE, 0, 2), Asked(TRUE, TRUE, 3, 3)}
Easy == {Asked(FALSE, FALSE, 0, 2)}
=============================================================================
