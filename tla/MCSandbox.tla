----------------------------- MODULE MCSandbox -----------------------------
(* Instances of Sandbox; the values are in MCBoxLaunches.cfg.             *)
EXTENDS Sandbox

ThreeTests == <<"e1", "e2", "e3">>

\* Every behaviour that matters: a program that does not load never gets to
\* a test, raising is to the sandbox an answer like a wrong value, and what is
\* printed does not depend on the answers.
ThreeTestPrograms ==
  {p \in Program :
     /\ p.loads # "ok" => \A e \in Inputs : p.does[e] = "right"
     /\ \A e \in {"e2", "e3"} : p.does[e] # "raises"
     /\ p.prints # "nothing" => \A e \in Inputs : p.does[e] \in {"right", "quits"}}
=============================================================================
