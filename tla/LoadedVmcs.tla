----------------------------- MODULE LoadedVmcs ------------------------------
(***************************************************************************)
(* Where each vCPU's VMCS is active (vmx.c).  A CPU caches the VMCSs in    *)
(* its list; a VMCS must be cleared there before another CPU loads it.     *)
(* The thread that loads it asks the old CPU to, by an interrupt; a CPU    *)
(* that goes offline clears its whole list by itself, and the two race.    *)
(* One VMCS per vCPU: nested guests are left out.                          *)
(***************************************************************************)
EXTENDS FiniteSets

CONSTANTS
  Cpus, Vcpus,
  None           \* cpu = -1, and NULL

VARIABLES
  online,        \* CPUs that run tasks
  dying,         \* CPUs in vmclear_local_loaded_vmcss
  list,          \* loaded_vmcss_on_cpu
  current,       \* current_vmcs
  cpu, launched, \* the fields of each loaded_vmcs
  active,        \* VMCSs each CPU holds: since VMPTRLD, until VMCLEAR
  hwLaunched,    \* the launch state VMLAUNCH and VMCLEAR leave in each VMCS
  clearing,      \* the VMCS __loaded_vmcs_clear works on, on each CPU
  step,          \* and its next store
  pc, on,        \* each vCPU thread's place and CPU
  target,        \* the CPU loaded_vmcs_clear interrupts
  freed          \* vCPUs whose VMCS is freed

vars == <<online, dying, list, current, cpu, launched, active, hwLaunched,
          clearing, step, pc, on, target, freed>>
cpus == <<online, dying>>
vmcs == <<list, current, cpu, launched, active, hwLaunched>>
clear == <<clearing, step>>

Init ==
  /\ online = Cpus /\ dying = {}
  /\ list = [c \in Cpus |-> {}] /\ current = [c \in Cpus |-> None]
  /\ cpu = [v \in Vcpus |-> None] /\ launched = [v \in Vcpus |-> FALSE]
  /\ active = [c \in Cpus |-> {}] /\ hwLaunched = [v \in Vcpus |-> FALSE]
  /\ clearing = [c \in Cpus |-> None] /\ step = [c \in Cpus |-> "none"]
  /\ pc = [v \in Vcpus |-> "out"] /\ on = [v \in Vcpus |-> None]
  /\ target = [v \in Vcpus |-> None] /\ freed = {}

Go(v, p) == pc' = [pc EXCEPT ![v] = p]

(***************************************************************************)
(* __loaded_vmcs_clear(v) on CPU c, one action per store others can see.   *)
(***************************************************************************)
\* Regression: the cpu field is released before the VMCS has left the list.
StoresReleaseFirst == [clear |-> "release", release |-> "unlink", unlink |-> "launch"]
\* The order of the stores after VMCLEAR; smp_wmb keeps the first before the second.
Stores == [clear |-> "unlink", unlink |-> "release", release |-> "launch"]

Begin(c, v) ==
  /\ clearing[c] = None /\ cpu[v] = c
  /\ clearing' = [clearing EXCEPT ![c] = v] /\ step' = [step EXCEPT ![c] = "clear"]

Clear(c) ==
  LET v == clearing[c]
  IN /\ step[c] = "clear" /\ step' = [step EXCEPT ![c] = Stores.clear]
     /\ current' = [current EXCEPT ![c] = IF @ = v THEN None ELSE @]
     /\ active' = [active EXCEPT ![c] = @ \ {v}]
     /\ hwLaunched' = [hwLaunched EXCEPT ![v] = FALSE]
     /\ UNCHANGED <<cpus, list, cpu, launched, clearing, pc, on, target, freed>>
Unlink(c) ==
  /\ step[c] = "unlink" /\ step' = [step EXCEPT ![c] = Stores.unlink]
  /\ list' = [list EXCEPT ![c] = @ \ {clearing[c]}]
  /\ UNCHANGED <<cpus, current, cpu, launched, active, hwLaunched, clearing,
                 pc, on, target, freed>>
Release(c) ==
  /\ step[c] = "release" /\ step' = [step EXCEPT ![c] = Stores.release]
  /\ cpu' = [cpu EXCEPT ![clearing[c]] = None]
  /\ UNCHANGED <<cpus, list, current, launched, active, hwLaunched, clearing,
                 pc, on, target, freed>>
ClearLaunched(c) ==
  /\ step[c] = "launch" /\ step' = [step EXCEPT ![c] = "none"]
  /\ launched' = [launched EXCEPT ![clearing[c]] = FALSE]
  /\ clearing' = [clearing EXCEPT ![c] = None]
  /\ UNCHANGED <<cpus, list, current, cpu, active, hwLaunched, pc, on, target, freed>>

(***************************************************************************)
(* vmx_vcpu_load_vmcs, in a thread the scheduler has put on CPU c.         *)
(***************************************************************************)
VcpuLoad(v, c) ==
  /\ pc[v] = "out" /\ v \notin freed /\ c \in online
  /\ \A w \in Vcpus : on[w] # c
  /\ on' = [on EXCEPT ![v] = c]
  /\ Go(v, IF cpu[v] = c THEN "loaded" ELSE "read")
  /\ UNCHANGED <<cpus, vmcs, clear, target, freed>>

\* loaded_vmcs_clear reads the field again.
ReadCpu(v) ==
  /\ pc[v] \in {"read", "free"}
  /\ target' = [target EXCEPT ![v] = cpu[v]]
  /\ Go(v, IF cpu[v] # None THEN IF pc[v] = "free" THEN "freeIpi" ELSE "ipi"
           ELSE IF pc[v] = "free" THEN "freed" ELSE "link")
  /\ UNCHANGED <<cpus, vmcs, clear, on, freed>>

\* smp_call_function_single, which waits: __loaded_vmcs_clear on the old CPU, unless
\* it finds the VMCS no longer there.
Interrupt(v) ==
  LET t == target[v]
  IN /\ pc[v] \in {"ipi", "freeIpi"}
     /\ clearing[t] = None
     /\ IF cpu[v] = t
          THEN Begin(t, v) /\ Go(v, IF pc[v] = "ipi" THEN "wait" ELSE "freeWait")
          ELSE UNCHANGED clear /\ Go(v, IF pc[v] = "ipi" THEN "link" ELSE "freed")
     /\ UNCHANGED <<cpus, vmcs, on, target, freed>>
Interrupted(v) ==
  /\ pc[v] \in {"wait", "freeWait"} /\ clearing[target[v]] # v
  /\ Go(v, IF pc[v] = "wait" THEN "link" ELSE "freed")
  /\ UNCHANGED <<cpus, vmcs, clear, on, target, freed>>

Link(v) ==
  /\ pc[v] = "link" /\ Go(v, "moved")
  /\ list' = [list EXCEPT ![on[v]] = @ \cup {v}]
  /\ UNCHANGED <<cpus, current, cpu, launched, active, hwLaunched, clear, on, target, freed>>

\* VMPTRLD, unless this VMCS is the CPU's current one already.
MakeCurrent(v) ==
  /\ pc[v] \in {"moved", "loaded"}
  /\ Go(v, IF pc[v] = "moved" THEN "settle" ELSE "in")
  /\ current' = [current EXCEPT ![on[v]] = v]
  /\ active' = [active EXCEPT ![on[v]] = IF current[on[v]] = v THEN @ ELSE @ \cup {v}]
  /\ UNCHANGED <<cpus, list, cpu, launched, hwLaunched, clear, on, target, freed>>
Settle(v) ==
  /\ pc[v] = "settle" /\ Go(v, "in")
  /\ cpu' = [cpu EXCEPT ![v] = on[v]]
  /\ UNCHANGED <<cpus, list, current, launched, active, hwLaunched, clear, on, target, freed>>

\* __vmx_vcpu_run_flags: VMRESUME if launched, else VMLAUNCH.
ChooseEntry(v) ==
  /\ pc[v] = "in" /\ Go(v, IF launched[v] THEN "resume" ELSE "launch")
  /\ UNCHANGED <<cpus, vmcs, clear, on, target, freed>>
Run(v) ==
  /\ pc[v] \in {"launch", "resume"} /\ Go(v, "ran")
  /\ hwLaunched' = [hwLaunched EXCEPT ![v] = TRUE]
  /\ UNCHANGED <<cpus, list, current, cpu, launched, active, clear, on, target, freed>>
MarkLaunched(v) ==
  /\ pc[v] = "ran" /\ Go(v, "in")
  /\ launched' = [launched EXCEPT ![v] = TRUE]
  /\ UNCHANGED <<cpus, list, current, cpu, active, hwLaunched, clear, on, target, freed>>
VcpuPut(v) ==
  /\ pc[v] = "in" /\ Go(v, "out") /\ on' = [on EXCEPT ![v] = None]
  /\ UNCHANGED <<cpus, vmcs, clear, target, freed>>

\* free_loaded_vmcs, from whatever CPU destroys the vCPU.
Destroy(v) ==
  /\ pc[v] = "out" /\ v \notin freed /\ Go(v, "free")
  /\ UNCHANGED <<cpus, vmcs, clear, on, target, freed>>
Free(v) ==
  /\ pc[v] = "freed" /\ v \notin freed /\ freed' = freed \cup {v}
  /\ UNCHANGED <<cpus, vmcs, clear, pc, on, target>>

(***************************************************************************)
(* CPU hotplug.  The CPU runs no task any more when vmx_hardware_disable   *)
(* walks its list.                                                         *)
(***************************************************************************)
Offline(c) ==
  /\ c \in online /\ \E d \in online : d # c
  /\ \A w \in Vcpus : on[w] # c
  /\ online' = online \ {c} /\ dying' = dying \cup {c}
  /\ UNCHANGED <<vmcs, clear, pc, on, target, freed>>
ClearLocal(c) ==
  /\ c \in dying /\ \E v \in list[c] : Begin(c, v)
  /\ UNCHANGED <<cpus, vmcs, pc, on, target, freed>>
Vmxoff(c) ==
  /\ c \in dying /\ list[c] = {} /\ clearing[c] = None
  /\ dying' = dying \ {c}
  /\ UNCHANGED <<online, vmcs, clear, pc, on, target, freed>>
Online(c) ==
  /\ c \notin online \cup dying /\ online' = online \cup {c}
  /\ UNCHANGED <<dying, vmcs, clear, pc, on, target, freed>>

Next ==
  \/ \E c \in Cpus : \/ Clear(c) \/ Unlink(c) \/ Release(c) \/ ClearLaunched(c)
                     \/ Offline(c) \/ ClearLocal(c) \/ Vmxoff(c) \/ Online(c)
  \/ \E v \in Vcpus : \/ \E c \in Cpus : VcpuLoad(v, c)
                      \/ ReadCpu(v) \/ Interrupt(v) \/ Interrupted(v) \/ Link(v)
                      \/ MakeCurrent(v) \/ Settle(v) \/ ChooseEntry(v) \/ Run(v)
                      \/ MarkLaunched(v) \/ VcpuPut(v) \/ Destroy(v) \/ Free(v)

Spec == Init /\ [][Next]_vars

-----------------------------------------------------------------------------
(* A VMCS is active on one CPU at most and linked into one list at most, is the   *)
(* one its vCPU runs with, and neither a CPU without virtualization nor a freed   *)
(* VMCS leaves anything behind in a CPU's list, however migration and CPU offline *)
(* interleave.                                                                    *)
OneCpu ==
  /\ \A c, d \in Cpus : c # d => (active[c] \cap active[d] = {} /\ list[c] \cap list[d] = {})
  /\ \A v \in Vcpus : pc[v] \in {"in", "launch", "resume", "ran"} =>
       v \in active[on[v]] /\ v \in list[on[v]] /\ current[on[v]] = v
  /\ \A c \in Cpus \ (online \cup dying) : active[c] = {}
  /\ \A v \in freed, c \in Cpus : v \notin active[c] \cup list[c]

(* The vCPU is entered by the instruction its VMCS's launch state calls for.      *)
LaunchKnown ==
  \A v \in Vcpus : /\ pc[v] = "launch" => ~hwLaunched[v]
                   /\ pc[v] = "resume" => hwLaunched[v]

-----------------------------------------------------------------------------
(***************************************************************************)
(* The inductive invariant behind OneCpu.                                  *)
(***************************************************************************)
\* What the proofs assume of the constants: None is neither a CPU nor a VMCS.
Constants == None \notin Cpus \cup Vcpus

Moving == {"moved", "settle"}
Running == {"in", "launch", "resume", "ran"}
Waiting == {"wait", "freeWait"}
OffCpu == {"out", "free", "freeIpi", "freeWait", "freed"}

TypeInv ==
  /\ online \in SUBSET Cpus /\ dying \in SUBSET Cpus
  /\ list \in [Cpus -> SUBSET Vcpus] /\ active \in [Cpus -> SUBSET Vcpus]
  /\ current \in [Cpus -> Vcpus \cup {None}] /\ clearing \in [Cpus -> Vcpus \cup {None}]
  /\ cpu \in [Vcpus -> Cpus \cup {None}] /\ on \in [Vcpus -> Cpus \cup {None}]
  /\ target \in [Vcpus -> Cpus \cup {None}]
  /\ step \in [Cpus -> {"none", "clear", "unlink", "release", "launch"}]
  /\ pc \in [Vcpus -> {"read", "ipi", "wait", "link", "loaded"} \cup Moving \cup Running
                      \cup OffCpu]
  /\ freed \in SUBSET Vcpus

(* Threads are alone on CPUs that are online.                                     *)
ThreadInv ==
  /\ online \cap dying = {}
  /\ \A v \in Vcpus : IF pc[v] \in OffCpu THEN on[v] = None ELSE on[v] \in online
  /\ \A v, w \in Vcpus : v # w /\ on[v] = on[w] => on[v] = None

\* Others still take v for a VMCS of c, where it is being cleared.
Clearing(c, v) == clearing[c] = v /\ step[c] \in {"clear", "unlink", "release"}

(* The thread that moves or frees a VMCS goes on only when its cpu field is free. *)
FieldInv == \A v \in Vcpus :
  /\ pc[v] \in {"link", "freed"} \cup Moving => cpu[v] = None
  /\ pc[v] \in {"loaded"} \cup Running => cpu[v] = on[v]
  /\ pc[v] \in {"ipi", "freeIpi"} => target[v] \in Cpus /\ cpu[v] \in {target[v], None}
  /\ pc[v] \in Waiting => target[v] \in Cpus /\ (cpu[v] = None \/ Clearing(target[v], v))
  /\ v \in freed => pc[v] = "freed"

(* A CPU clears a VMCS for a thread that waits or because it goes offline, and is *)
(* offline with nothing left to clear.                                            *)
ClearInv == \A c \in Cpus :
  /\ step[c] = "none" <=> clearing[c] = None
  /\ \A v \in Vcpus : Clearing(c, v) =>
       cpu[v] = c /\ (c \in dying \/ (pc[v] \in Waiting /\ target[v] = c))
  /\ step[c] = "unlink" => clearing[c] \notin active[c]
  /\ step[c] = "release" => clearing[c] \notin list[c]
  /\ c \notin online \cup dying => clearing[c] = None /\ list[c] = {}

(* A VMCS is in the list of the CPU its cpu field names, except just before that  *)
(* field is set and just before it is released; an active one is in the list.     *)
ListInv == \A c \in Cpus :
  /\ active[c] \subseteq list[c]
  /\ current[c] # None => current[c] \in active[c]
  /\ \A v \in list[c] : cpu[v] = c \/ (on[v] = c /\ pc[v] \in Moving)
  /\ \A v \in Vcpus :
       /\ cpu[v] = c => v \in list[c] \/ (clearing[c] = v /\ step[c] = "release")
       /\ on[v] = c /\ pc[v] \in Moving => v \in list[c]
       /\ on[v] = c /\ pc[v] \in {"settle"} \cup Running => current[c] = v

VmcsInv == TypeInv /\ ThreadInv /\ FieldInv /\ ClearInv /\ ListInv
==============================================================================
