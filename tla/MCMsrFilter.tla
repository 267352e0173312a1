---------------------------- MODULE MCMsrFilter ----------------------------
(* Constants of the TLC runs of MsrFilter. *)
EXTENDS MsrFilter

CONSTANTS v1, s1, r1, r2, f1, f2

MCVcpus == {v1}
MCSetters == {s1}
MCAlways == {r1}
MCRights == {r1, r2}
MCFilters == {f1, f2}
=============================================================================
