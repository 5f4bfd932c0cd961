--------------------------- MODULE MCEnvironment ---------------------------
(* Small instances of Environment; the values are in the MCEnv*.cfg files. *)
EXTENDS Environment

T1 == {{"t1"}}
T1orBoth == {{"t1"}, {"t1", "t2"}}
=============================================================================
