---------------------------- MODULE MCCurriculum ----------------------------
(* Instances of Curriculum; the values are in the MCCurr*.cfg files.       *)
EXTENDS Curriculum

AllAxes == <<"bug_subtlety", MCC, "code_complexity", Ratio>>
TwoAxes == <<MCC, Ratio>>
=============================================================================
