-------------------------- MODULE EpisodeProtocol --------------------------
(***************************************************************************)
(* The promise of an episode to the client that plays it and to the        *)
(* curriculum that learns from it: it starts with one message, runs for at *)
(* most MAX_TURNS turns in which the user speaks at most once each and     *)
(* never more than four times in all, ends, and is reported exactly once,  *)
(* unless the client abandons it for a new one.                            *)
(***************************************************************************)
EXTENDS Naturals

CONSTANT MAX_TURNS

VARIABLES phase, turns, told, reported

pvars == <<phase, turns, told, reported>>

Init == phase = "idle" /\ turns = 0 /\ told = 0 /\ reported = 0

Begin ==
  /\ phase' = "running" /\ turns' = 0 /\ told' = 1
  /\ UNCHANGED reported

Act ==
  /\ phase = "running" /\ turns + 1 < MAX_TURNS
  /\ turns' = turns + 1
  /\ told' \in {told, told + 1} /\ told' <= 4
  /\ UNCHANGED <<phase, reported>>

End ==
  /\ phase = "running" /\ turns < MAX_TURNS
  /\ phase' = "over" /\ turns' = turns + 1 /\ reported' = reported + 1
  /\ UNCHANGED told

Next == Begin \/ Act \/ End

Spec == Init /\ [][Next]_pvars /\ WF_pvars(Act \/ End)
=============================================================================
