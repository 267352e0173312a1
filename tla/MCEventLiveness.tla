-------------------------- MODULE MCEventLiveness --------------------------
(* EventInjection with one source per behaviour, so that the states of the *)
(* sources add up and liveness stays within reach.                         *)
EXTENDS EventInjection

MCOneVector == {48}
MCFewExc == {8, 14}

VARIABLE only

OneSource(k) == \A other \in Sources \ {k} : src'[other] = "idle"

OneNext == Next /\ OneSource(only) /\ UNCHANGED only

OneSpec == Init /\ only \in Sources /\ [][OneNext]_<<vars, only>> /\ Fairness
=============================================================================
