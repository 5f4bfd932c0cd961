------------------------------ MODULE MCHfJob ------------------------------
(* Instances of HfJob; the values are in the MCJob*.cfg files.             *)
EXTENDS HfJob
=============================================================================
