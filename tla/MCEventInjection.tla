-------------------------- MODULE MCEventInjection --------------------------
(* Constants of the TLC runs of EventInjection. *)
EXTENDS EventInjection

MCVectors == {48, 64}
MCOneVector == {48}
MCExcVectors == {6, 8, 13, 14}      \* #UD benign, #DF, #GP contributory, #PF
MCFewExc == {8, 14}
=============================================================================
