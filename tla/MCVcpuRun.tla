------------------------------ MODULE MCVcpuRun ------------------------------
(* VcpuRun with one vector, a sender that sends it again and again, and a   *)
(* reason to inhibit APICv that comes and goes.                             *)
EXTENDS VcpuRun

MCVectors == {48}
=============================================================================
