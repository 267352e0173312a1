--------------------------- MODULE EventMigration ---------------------------
(***************************************************************************)
(* Saving a vCPU's events with KVM_GET_VCPU_EVENTS and restoring them with *)
(* KVM_SET_VCPU_EVENTS into a vCPU that was just created, at any point     *)
(* where the vCPU thread is in userspace, on top of EventInjection.  The   *)
(* guest's registers and the local APIC travel by other ioctls and arrive  *)
(* unchanged; the requests, the window controls and the caches of the old  *)
(* vCPU do not travel at all.                                              *)
(***************************************************************************)
EXTENDS EventInjection

CONSTANTS
  PayloadCaps,      \* values exception_payload_enabled may have
  TripleFaultCap    \* triple_fault_event

ASSUME CapsAssumption == PayloadCaps \subseteq BOOLEAN /\ TripleFaultCap \in BOOLEAN

\* kvm_exception_is_soft (x86.h): #BP and #OF are not reported.
Soft(v) == v \in {3, 4}

\* Regression: the NMIs that process_nmi has not yet moved are not counted.
ReportedNmisPendingOnly == nmi_pending

\* process_nmi runs before nmi_pending is read.
ReportedNmis == IF NmiTotal < NmiLimit THEN NmiTotal ELSE NmiLimit

\* Regression: only the software flag is reported.
ReportedMaskSoft == ~EnableVnmi /\ soft_vnmi_blocked

ReportedMask == vmx_get_nmi_mask

\* The events record of kvm_vcpu_ioctl_x86_get_vcpu_events, after its process_nmi; payload says
\* whether the VM has the payload capability.
Reported(payload) ==
  LET visible == ~Soft(exception.vector)
  IN [exc_injected |-> /\ visible
                       /\ exception.injected \/ (~payload /\ exception.pending),
      exc_pending |-> visible /\ exception.pending,
      exc_nr |-> exception.vector,
      irq_injected |-> interrupt.injected,
      irq_nr |-> interrupt.nr,
      nmi_injected |-> nmi_injected,
      nmi_pending |-> ReportedNmis,
      nmi_masked |-> ReportedMask,
      smm |-> smm, inside_nmi |-> smm_inside_nmi,
      smi_pending |-> smi_pending \/ "SMI" \in requests,
      triple_fault |-> TripleFaultCap /\ "TRIPLE_FAULT" \in requests]

\* Regression: the requests that make the new vCPU look at its events are not made.
RestoredRequestsNone(e) == {}

\* The requests kvm_vcpu_ioctl_x86_set_vcpu_events leaves behind.
RestoredRequests(e) ==
  {"EVENT"} \cup (IF e.nmi_pending > 0 THEN {"NMI"} ELSE {})
            \cup (IF e.triple_fault THEN {"TRIPLE_FAULT"} ELSE {})

\* kvm_vcpu_ioctl_x86_set_vcpu_events on a new vCPU.  Without the payload capability the
\* pending flag is dropped: what was pending arrives as injected.
SetEvents(e, payload) ==
  /\ exception' = [pending |-> payload /\ e.exc_pending,
                   injected |-> e.exc_injected /\ ~(payload /\ e.exc_pending),
                   vector |-> e.exc_nr]
  /\ interrupt' = [injected |-> e.irq_injected, nr |-> e.irq_nr]
  /\ nmi_injected' = e.nmi_injected
  /\ nmi_pending' = 0
  /\ nmi_queued' = e.nmi_pending
  /\ soft_vnmi_blocked' = (~EnableVnmi /\ e.nmi_masked)
  /\ nmi_known_unmasked' = (EnableVnmi /\ ~e.nmi_masked)
  /\ nmi_blocking' = (EnableVnmi /\ e.nmi_masked)
  /\ smm' = e.smm
  /\ smm_inside_nmi' = (e.smm /\ e.inside_nmi)
  /\ smi_pending' = e.smi_pending
  /\ requests' = RestoredRequests(e)

\* The vCPU thread is out of KVM_RUN and every source has finished: save here, restore there.
Migrate ==
  /\ pc = "req_tf"
  /\ \A k \in Sources : src[k] = "idle"
  /\ \E payload \in PayloadCaps : SetEvents(Reported(payload), payload)
  /\ irq_window' = FALSE /\ nmi_window' = FALSE
  /\ UNCHANGED <<pc, mode, can_inject, req_immediate_exit, src, ipi, irr, isr, entry, vectoring,
                 exit_reason, rflags_if, shadow, inNmi>>

MNext == Next \/ Migrate

MSpec == Init /\ [][MNext]_vars

\* A half-delivered or queued event survives the move: it is injected on the new vCPU, once.
MigrationDelivers == Promise!ASpec

\* A shutdown the old vCPU had decided on is carried out by the new one.
ShutdownSurvives ==
  [][(TripleFaultCap /\ "TRIPLE_FAULT" \in requests) =>
        ("TRIPLE_FAULT" \in requests' \/ pc' = "stopped")]_vars
=============================================================================
