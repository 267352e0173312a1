------------------------------ MODULE StealTime ------------------------------
(***************************************************************************)
(* The preempted byte of a vCPU's steal-time record (x86.c).  KVM marks a  *)
(* vCPU it schedules out as preempted; another vCPU of the guest that must *)
(* flush its TLB then asks for the flush in the same byte instead of       *)
(* sending an IPI, and KVM flushes before the vCPU runs again.             *)
(*                                                                         *)
(* One vCPU is the target, one the flusher.  Access to the record does not *)
(* fault and memory slots stay; time itself is left out.                   *)
(***************************************************************************)
EXTENDS Integers

VARIABLES
  pvFlush,       \* KVM_FEATURE_PV_TLB_FLUSH
  enabled,       \* KVM_MSR_ENABLED in st.msr_val
  flag,          \* st->preempted in guest memory
  known,         \* vcpu->arch.st.preempted
  request,       \* KVM_REQ_STEAL_UPDATE
  boundary,      \* at_instruction_boundary
  pc,            \* the target
  loaded,        \* it is on a CPU
  got,           \* st_preempted
  flusher,       \* what the flusher does next
  ipi,           \* its IPI has not been handled
  stale          \* the target may use a translation the flusher has removed

vars == <<pvFlush, enabled, flag, known, request, boundary, pc, loaded, got, flusher, ipi, stale>>

Init ==
  /\ pvFlush \in BOOLEAN /\ enabled = FALSE
  /\ flag = {} /\ known = FALSE /\ request = FALSE /\ boundary = FALSE
  /\ pc = "requests" /\ loaded = TRUE /\ got = {}
  /\ flusher = "idle" /\ ipi = FALSE /\ stale = FALSE

(***************************************************************************)
(* The target, in vcpu_run.                                                *)
(***************************************************************************)
\* MSR_KVM_STEAL_TIME.
WriteMsr ==
  /\ pc = "emulate" /\ loaded /\ ~enabled /\ enabled' = TRUE /\ request' = TRUE
  /\ UNCHANGED <<pvFlush, flag, known, boundary, pc, loaded, got, flusher, ipi, stale>>
\* kvm_check_request, then record_steal_time up to the exchange.
CheckRequest ==
  /\ pc = "requests" /\ loaded /\ request
  /\ request' = FALSE /\ pc' = IF enabled THEN "exchange" ELSE "requests"
  /\ UNCHANGED <<pvFlush, enabled, flag, known, boundary, loaded, got, flusher, ipi, stale>>
Exchange ==
  /\ pc = "exchange" /\ loaded /\ pc' = "known"
  /\ got' = IF pvFlush THEN flag ELSE {}
  /\ flag' = {}
  /\ UNCHANGED <<pvFlush, enabled, known, request, boundary, loaded, flusher, ipi, stale>>
SetKnown ==
  /\ pc = "known" /\ loaded /\ pc' = "flush" /\ known' = FALSE
  /\ UNCHANGED <<pvFlush, enabled, flag, request, boundary, loaded, got, flusher, ipi, stale>>
Flush ==
  /\ pc = "flush" /\ loaded /\ pc' = "requests" /\ got' = {}
  /\ stale' = (stale /\ "FLUSH" \notin got)
  /\ UNCHANGED <<pvFlush, enabled, flag, known, request, boundary, loaded, flusher, ipi>>
\* Interrupts off from here: no preemption.
Enter ==
  /\ pc = "requests" /\ loaded /\ ~request /\ pc' = "guest"
  /\ UNCHANGED <<pvFlush, enabled, flag, known, request, boundary, loaded, got, flusher, ipi,
                 stale>>
\* The flusher's IPI is handled by the guest.
HandleIpi ==
  /\ pc = "guest" /\ ipi /\ ipi' = FALSE /\ stale' = FALSE
  /\ UNCHANGED <<pvFlush, enabled, flag, known, request, boundary, pc, loaded, got, flusher>>
\* handle_external_interrupt_irqoff of VMX and SVM: nothing will be emulated.
HostInterrupt ==
  /\ pc = "guest" /\ pc' = "exit" /\ boundary' = TRUE
  /\ UNCHANGED <<pvFlush, enabled, flag, known, request, loaded, got, flusher, ipi, stale>>
ExitToEmulate ==
  /\ pc = "guest" /\ pc' = "emulate"
  /\ UNCHANGED <<pvFlush, enabled, flag, known, request, boundary, loaded, got, flusher, ipi,
                 stale>>
\* Regression: the mark of the last host interrupt stays.
BoundaryAtRunKept == boundary
BoundaryAtRun == FALSE
\* The loop of vcpu_run.
Loop ==
  /\ pc \in {"exit", "emulate"} /\ loaded /\ pc' = "requests" /\ boundary' = BoundaryAtRun
  /\ UNCHANGED <<pvFlush, enabled, flag, known, request, loaded, got, flusher, ipi, stale>>

(***************************************************************************)
(* Preemption, wherever the target is not in the guest.                    *)
(***************************************************************************)
\* kvm_steal_time_set_preempted; the copy to the guest may fail.
SetPreempted ==
  \/ UNCHANGED <<flag, known>>
  \/ boundary /\ enabled /\ ~known /\ flag' = {"PREEMPTED"} /\ known' = TRUE
VcpuPut ==
  /\ loaded /\ pc # "guest" /\ loaded' = FALSE /\ SetPreempted
  /\ UNCHANGED <<pvFlush, enabled, request, boundary, pc, got, flusher, ipi, stale>>
\* kvm_arch_vcpu_load.
VcpuLoad ==
  /\ ~loaded /\ loaded' = TRUE /\ request' = TRUE
  /\ UNCHANGED <<pvFlush, enabled, flag, known, boundary, pc, got, flusher, ipi, stale>>

(***************************************************************************)
(* The flusher: kvm_flush_tlb_multi of a Linux guest.                      *)
(***************************************************************************)
Unmap ==
  /\ flusher = "idle" /\ flusher' = "look" /\ stale' = TRUE
  /\ UNCHANGED <<pvFlush, enabled, flag, known, request, boundary, pc, loaded, got, ipi>>
Look ==
  /\ flusher = "look"
  /\ flusher' = IF pvFlush /\ "PREEMPTED" \in flag THEN "ask" ELSE "send"
  /\ UNCHANGED <<pvFlush, enabled, flag, known, request, boundary, pc, loaded, got, ipi, stale>>
\* try_cmpxchg: the byte must still be the one read.
Ask ==
  /\ flusher = "ask"
  /\ IF "PREEMPTED" \in flag THEN flag' = flag \cup {"FLUSH"} /\ flusher' = "idle"
     ELSE flusher' = "send" /\ UNCHANGED flag
  /\ UNCHANGED <<pvFlush, enabled, known, request, boundary, pc, loaded, got, ipi, stale>>
Send ==
  /\ flusher = "send" /\ flusher' = "wait" /\ ipi' = TRUE
  /\ UNCHANGED <<pvFlush, enabled, flag, known, request, boundary, pc, loaded, got, stale>>
Done ==
  /\ flusher = "wait" /\ ~ipi /\ flusher' = "idle"
  /\ UNCHANGED <<pvFlush, enabled, flag, known, request, boundary, pc, loaded, got, ipi, stale>>

Next ==
  \/ WriteMsr \/ CheckRequest \/ Exchange \/ SetKnown \/ Flush \/ Enter \/ HandleIpi
  \/ HostInterrupt \/ ExitToEmulate \/ Loop \/ VcpuPut \/ VcpuLoad
  \/ Unmap \/ Look \/ Ask \/ Send \/ Done

Spec == Init /\ [][Next]_vars

-----------------------------------------------------------------------------
(* Once the flusher has gone on, neither the target nor KVM emulating for it uses *)
(* a translation the flusher removed, wherever the target was preempted.          *)
FlushHonoured == (flusher = "idle" /\ pc \in {"guest", "emulate"}) => ~stale

-----------------------------------------------------------------------------
(***************************************************************************)
(* The inductive invariant behind FlushHonoured.                           *)
(***************************************************************************)
TypeInv ==
  /\ pvFlush \in BOOLEAN /\ enabled \in BOOLEAN /\ known \in BOOLEAN /\ request \in BOOLEAN
  /\ boundary \in BOOLEAN /\ loaded \in BOOLEAN /\ ipi \in BOOLEAN /\ stale \in BOOLEAN
  /\ flag \in SUBSET {"PREEMPTED", "FLUSH"} /\ got \in SUBSET {"PREEMPTED", "FLUSH"}
  /\ pc \in {"requests", "emulate", "exchange", "known", "flush", "guest", "exit"}
  /\ flusher \in {"idle", "look", "ask", "send", "wait"}

(* The record says preempted only while record_steal_time is still to come: the   *)
(* mark is made after a host interrupt alone, and loading the vCPU again asks for *)
(* the update.  KVM knows of the mark, so it never writes it over a request.      *)
MarkInv ==
  /\ boundary => pc = "exit"
  /\ flag # {} => /\ enabled /\ known
                  /\ \/ pc = "exchange"
                     \/ pc \in {"exit", "requests"} /\ (loaded => request)

(* Only a guest told of the feature asks, and only a sent IPI is waited for.      *)
FlusherInv ==
  /\ flusher = "ask" \/ "FLUSH" \in flag \cup got => pvFlush
  /\ got # {} => pc \in {"known", "flush"}
  /\ ipi => flusher = "wait"

(* A removed translation the target may still use has a flush to come: the        *)
(* flusher is not done, or the request is in the record, or KVM has taken it.     *)
StaleInv ==
  stale => \/ flusher \in {"look", "ask", "send"} \/ (flusher = "wait" /\ ipi)
           \/ "FLUSH" \in flag \cup got

FlushInv == TypeInv /\ MarkInv /\ FlusherInv /\ StaleInv
=============================================================================
