------------------------------ MODULE DebugCtl ------------------------------
(***************************************************************************)
(* IA32_DEBUGCTL (0x1d9) as this version of x86.c answers it on the exits  *)
(* of RDMSR and WRMSR: from data_1d9, one word for all vCPUs of all VMs,   *)
(* with r left unset for most values written.                              *)
(***************************************************************************)
EXTENDS Integers

CONSTANTS Vcpus

VARIABLES
  data_1d9,
  pc,          \* "guest", "userspace" after an error, or "fault" for #GP
  read,        \* what the guest read last
  due          \* history: what the comments promise of its last write

vars == <<data_1d9, pc, read, due>>

Bit14 == 16384
Other == 4      \* a value that stores nothing
Values == {0, 1, 2, 3, Other, Bit14, Bit14 + 1, Bit14 + 2, Bit14 + 3}
Unset == -1

Init ==
  /\ data_1d9 = Bit14 /\ pc = [v \in Vcpus |-> "guest"]
  /\ read = [v \in Vcpus |-> Unset] /\ due = [v \in Vcpus |-> Unset]

Stored(data) == data - (data % 2)
\* r is assigned for four values; for the others it is what the build leaves there.
Outcome(data) == IF data \in Bit14..(Bit14 + 3) THEN {"guest"} ELSE {"guest", "userspace", "fault"}

Wrmsr(v) ==
  /\ pc[v] = "guest"
  /\ \E data \in Values : \E r \in Outcome(data) :
       /\ pc' = [pc EXCEPT ![v] = r]
       /\ IF r = "guest" /\ data # Other
          THEN data_1d9' = Stored(data) /\ due' = [due EXCEPT ![v] = Stored(data)]
          ELSE UNCHANGED <<data_1d9, due>>
  /\ read' = [read EXCEPT ![v] = Unset]

Rdmsr(v) ==
  /\ pc[v] = "guest" /\ read' = [read EXCEPT ![v] = data_1d9]
  /\ UNCHANGED <<data_1d9, pc, due>>

\* Userspace runs the vCPU again, the guest handles the fault.
Resume(v) ==
  /\ pc[v] # "guest" /\ pc' = [pc EXCEPT ![v] = "guest"]
  /\ UNCHANGED <<data_1d9, read, due>>

Next == \E v \in Vcpus : Wrmsr(v) \/ Rdmsr(v) \/ Resume(v)

Spec == Init /\ [][Next]_vars

-----------------------------------------------------------------------------
(* kvm_emulate_wrmsr's comments: a vCPU reads back what its last write gives. *)
ReadsBack == \A v \in Vcpus : read[v] # Unset /\ due[v] # Unset => read[v] = due[v]
=============================================================================
