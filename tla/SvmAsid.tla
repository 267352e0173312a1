------------------------------ MODULE SvmAsid --------------------------------
(***************************************************************************)
(* Address-space identifiers of AMD CPUs (svm.c).  Each CPU hands them out *)
(* in turn; when it runs out it starts a new generation, flushes its TLB   *)
(* and lets every vCPU with an ASID of an older generation take a new one. *)
(* A TLB flush of one vCPU is by its ASID where the CPU can, else by       *)
(* dropping the ASID.                                                      *)
(*                                                                         *)
(* A CPU stays online: what svm_hardware_enable does to the generation of  *)
(* a CPU whose old vCPUs still live is outside this module.                *)
(***************************************************************************)
EXTENDS Integers

CONSTANTS
  Vcpus, Cpus,
  MinAsid, MaxAsid,       \* svm_cpu_data's min_asid and max_asid
  MaxGeneration,          \* bound: generations a CPU goes through, and how far flushes go below
  None

VARIABLES
  flushByAsid,   \* X86_FEATURE_FLUSHBYASID
  asidGeneration, nextAsid,            \* of each CPU
  vmcbGeneration, asid, vmcbCpu,       \* of each vCPU: asid_generation, asid, current_vmcb->cpu
  tlbCtl,        \* control.tlb_ctl
  request,       \* KVM_REQ_TLB_FLUSH
  cpu,           \* where the vCPU is loaded
  inGuest,
  tlb            \* each CPU's entries: ASID, whose pages, and whether they are still mapped

vars == <<flushByAsid, asidGeneration, nextAsid, vmcbGeneration, asid, vmcbCpu, tlbCtl,
          request, cpu, inGuest, tlb>>

\* svm_hardware_enable and, for the vCPUs, init_vmcb.
Init ==
  /\ flushByAsid \in BOOLEAN
  /\ asidGeneration = [c \in Cpus |-> 1] /\ nextAsid = [c \in Cpus |-> MaxAsid + 1]
  /\ vmcbGeneration = [v \in Vcpus |-> 0] /\ asid = [v \in Vcpus |-> 0]
  /\ vmcbCpu = [v \in Vcpus |-> None] /\ tlbCtl = [v \in Vcpus |-> "none"]
  /\ request = [v \in Vcpus |-> FALSE] /\ cpu = [v \in Vcpus |-> None]
  /\ inGuest = [v \in Vcpus |-> FALSE] /\ tlb = [c \in Cpus |-> {}]

VcpuLoad(v, c) ==
  /\ cpu[v] = None /\ c \notin {cpu[w] : w \in Vcpus}
  /\ cpu' = [cpu EXCEPT ![v] = c]
  /\ UNCHANGED <<flushByAsid, asidGeneration, nextAsid, vmcbGeneration, asid, vmcbCpu, tlbCtl,
                 request, inGuest, tlb>>
VcpuPut(v) ==
  /\ cpu[v] # None /\ ~inGuest[v]
  /\ cpu' = [cpu EXCEPT ![v] = None]
  /\ UNCHANGED <<flushByAsid, asidGeneration, nextAsid, vmcbGeneration, asid, vmcbCpu, tlbCtl,
                 request, inGuest, tlb>>

\* Pages of the vCPU are unmapped; it is out of the guest until it has seen the request.
Unmap(v) ==
  /\ ~inGuest[v]
  /\ request' = [request EXCEPT ![v] = TRUE]
  /\ tlb' = [c \in Cpus |->
       {[e EXCEPT !.mapped = @ /\ e.owner # v] : e \in tlb[c]}]
  /\ UNCHANGED <<flushByAsid, asidGeneration, nextAsid, vmcbGeneration, asid, vmcbCpu, tlbCtl,
                 cpu, inGuest>>

\* svm_flush_tlb_asid, in vcpu_enter_guest before preemption is disabled.
FlushTlbAsid(v) ==
  /\ request[v] /\ cpu[v] # None /\ ~inGuest[v] /\ vmcbGeneration[v] > -MaxGeneration
  /\ request' = [request EXCEPT ![v] = FALSE]
  /\ IF flushByAsid
       THEN tlbCtl' = [tlbCtl EXCEPT ![v] = "asid"] /\ UNCHANGED vmcbGeneration
       ELSE vmcbGeneration' = [vmcbGeneration EXCEPT ![v] = @ - 1] /\ UNCHANGED tlbCtl
  /\ UNCHANGED <<flushByAsid, asidGeneration, nextAsid, asid, vmcbCpu, cpu, inGuest, tlb>>

\* Regression: the ASID of another CPU is kept.
MovedKept(v) == FALSE
\* pre_svm_run: the last VMRUN of the VMCB was on another CPU.
Moved(v) == vmcbCpu[v] # cpu[v]

NeedsAsid(v) == Moved(v) \/ vmcbGeneration[v] # asidGeneration[cpu[v]]
Exhausted(v) == nextAsid[cpu[v]] > MaxAsid

\* svm_vcpu_run up to VMRUN: pre_svm_run and new_asid, then the flush VMRUN does.
EnterGuest(v) ==
  LET c == cpu[v]
      wrap == NeedsAsid(v) /\ Exhausted(v)
      a == IF ~NeedsAsid(v) THEN asid[v] ELSE IF wrap THEN MinAsid ELSE nextAsid[c]
      flush == IF wrap THEN "all" ELSE tlbCtl[v]
  IN /\ c # None /\ ~inGuest[v] /\ ~request[v]
     /\ wrap => asidGeneration[c] < MaxGeneration
     /\ inGuest' = [inGuest EXCEPT ![v] = TRUE]
     /\ vmcbCpu' = [vmcbCpu EXCEPT ![v] = c]
     /\ asid' = [asid EXCEPT ![v] = a]
     /\ asidGeneration' = [asidGeneration EXCEPT ![c] = IF wrap THEN @ + 1 ELSE @]
     /\ nextAsid' = [nextAsid EXCEPT ![c] = IF NeedsAsid(v) THEN a + 1 ELSE @]
     /\ vmcbGeneration' = [vmcbGeneration EXCEPT ![v] = asidGeneration'[c]]
     /\ tlbCtl' = [tlbCtl EXCEPT ![v] = flush]
     /\ tlb' = [tlb EXCEPT ![c] = CASE flush = "all" -> {}
                                    [] flush = "asid" -> {e \in @ : e.asid # a}
                                    [] OTHER -> @]
     /\ UNCHANGED <<flushByAsid, request, cpu>>

\* The guest fills the TLB.
Fill(v) ==
  /\ inGuest[v]
  /\ tlb' = [tlb EXCEPT ![cpu[v]] = @ \cup {[asid |-> asid[v], owner |-> v, mapped |-> TRUE]}]
  /\ UNCHANGED <<flushByAsid, asidGeneration, nextAsid, vmcbGeneration, asid, vmcbCpu, tlbCtl,
                 request, cpu, inGuest>>

\* svm_vcpu_run after VMRUN.
ExitGuest(v) ==
  /\ inGuest[v] /\ inGuest' = [inGuest EXCEPT ![v] = FALSE]
  /\ tlbCtl' = [tlbCtl EXCEPT ![v] = "none"]
  /\ UNCHANGED <<flushByAsid, asidGeneration, nextAsid, vmcbGeneration, asid, vmcbCpu, request,
                 cpu, tlb>>

Next == \E v \in Vcpus :
  \/ \E c \in Cpus : VcpuLoad(v, c)
  \/ VcpuPut(v) \/ Unmap(v) \/ FlushTlbAsid(v) \/ EnterGuest(v) \/ Fill(v) \/ ExitGuest(v)

Spec == Init /\ [][Next]_vars

-----------------------------------------------------------------------------
(* Every TLB entry a running guest can hit, by CPU and ASID, is one it filled     *)
(* itself from a page still mapped: not another vCPU's, not its own from before   *)
(* a flush or a visit to another CPU, whichever way the ASIDs wrap.               *)
OwnTranslations ==
  \A v \in Vcpus : inGuest[v] =>
    \A e \in tlb[cpu[v]] : e.asid = asid[v] => (e.owner = v /\ e.mapped)

(***************************************************************************)
(* The inductive invariant.                                                *)
(***************************************************************************)
\* What the proofs assume of the constants: numbers, and a value that is no CPU.
Constants == MinAsid \in Int /\ MaxAsid \in Int /\ None \notin Cpus

TypeInv ==
  /\ flushByAsid \in BOOLEAN
  /\ asidGeneration \in [Cpus -> Int] /\ nextAsid \in [Cpus -> Int]
  /\ vmcbGeneration \in [Vcpus -> Int] /\ asid \in [Vcpus -> Int]
  /\ vmcbCpu \in [Vcpus -> Cpus \cup {None}] /\ cpu \in [Vcpus -> Cpus \cup {None}]
  /\ tlbCtl \in [Vcpus -> {"none", "asid", "all"}]
  /\ request \in [Vcpus -> BOOLEAN] /\ inGuest \in [Vcpus -> BOOLEAN]
  /\ tlb \in [Cpus -> SUBSET [asid : Int, owner : Vcpus, mapped : BOOLEAN]]

\* v would enter CPU c with the ASID it has.
Holds(v, c) == vmcbCpu[v] = c /\ vmcbGeneration[v] = asidGeneration[c]

(* A vCPU in the guest is alone on its CPU, with an ASID of the CPU's generation, *)
(* and has no flush to do.                                                        *)
LoadedInv ==
  /\ \A v, w \in Vcpus : v # w /\ cpu[v] = cpu[w] => cpu[v] = None
  /\ \A v \in Vcpus : inGuest[v] => cpu[v] \in Cpus /\ Holds(v, cpu[v]) /\ ~request[v]

(* No vCPU is ahead of the generation of its CPU: a new one takes all ASIDs away. *)
GenerationInv ==
  \A v \in Vcpus : \A c \in Cpus : vmcbCpu[v] = c => vmcbGeneration[v] <= asidGeneration[c]

(* ASIDs in use and in the TLB were handed out, each to one vCPU.                 *)
AsidInv ==
  /\ \A c \in Cpus : \A e \in tlb[c] : e.asid < nextAsid[c]
  /\ \A v \in Vcpus : \A c \in Cpus : Holds(v, c) => asid[v] < nextAsid[c]
  /\ \A v, w \in Vcpus : \A c \in Cpus :
       v # w /\ Holds(v, c) /\ Holds(w, c) => asid[v] # asid[w]

(* What a vCPU could hit is its own and, unless a flush is to come, mapped.       *)
TlbInv ==
  \A v \in Vcpus : \A c \in Cpus : Holds(v, c) =>
    \A e \in tlb[c] : e.asid = asid[v] =>
      /\ e.owner = v
      /\ e.mapped \/ (~inGuest[v] /\ (request[v] \/ tlbCtl[v] = "asid"))

AsidsInv == TypeInv /\ LoadedInv /\ GenerationInv /\ AsidInv /\ TlbInv
==============================================================================
