------------------------------ MODULE MCShared ------------------------------
(* An instance of SharedEnvironment; the values are in MCShared.cfg.       *)
EXTENDS SharedEnvironment

FixOrBreak == {<<1, "fix">>, <<2, "junk">>}
=============================================================================
