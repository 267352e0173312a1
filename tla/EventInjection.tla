--------------------------- MODULE EventInjection ---------------------------
(***************************************************************************)
(* The event machinery of one vCPU on VMX (x86.c, vmx.c): exceptions, NMIs, *)
(* SMIs and local-APIC interrupts are raised by other threads or by exit   *)
(* handlers, carried through the vcpu_enter_guest loop, written into the   *)
(* VM-entry field of the VMCS, delivered by the CPU or recovered from the  *)
(* IDT-vectoring field at the next exit.                                   *)
(*                                                                         *)
(* The vCPU thread is cut at every point where another thread's write to   *)
(* nmi_queued, the IRR, the requests or mode may fall.  No nested guest,   *)
(* no real-mode emulation, an in-kernel APIC without APICv.                *)
(***************************************************************************)
EXTENDS Integers, FiniteSets

CONSTANTS
  Vectors,       \* interrupt vectors raised in the IRR
  ExcVectors,    \* exception vectors the guest or an exit handler may raise
  MaxNmi,        \* bound: NMIs queued and not yet processed
  Sources,       \* which asynchronous sources exist: subset of {"irq", "nmi", "smi"}
  EnableVnmi,    \* enable_vnmi: the CPU has virtual NMIs
  PoliteGuest,   \* the guest keeps interrupts off in its NMI handler, which ends within a second
  IretFaults     \* how an IRET of the NMI handler may exit: subset of {"ept", "exc"}

ASSUME ParamsAssumption ==
  /\ Vectors \subseteq 16..255
  /\ ExcVectors \subseteq 0..31 /\ 2 \notin ExcVectors /\ 8 \in ExcVectors
  /\ MaxNmi \in Nat \ {0}
  /\ Sources \subseteq {"irq", "nmi", "smi"}
  /\ EnableVnmi \in BOOLEAN /\ PoliteGuest \in BOOLEAN
  /\ IretFaults \subseteq {"ept", "exc"}

VARIABLES
  pc,                  \* where the vCPU thread is
  mode,                \* vcpu->mode
  requests,            \* vcpu->requests
  src,                 \* progress of each asynchronous source
  ipi,                 \* a reschedule IPI is on its way to the vCPU's CPU
  exception,           \* vcpu->arch.exception
  interrupt,           \* vcpu->arch.interrupt
  nmi_queued, nmi_pending, nmi_injected,
  smi_pending,
  smm,                 \* HF_SMM_MASK
  smm_inside_nmi,      \* HF_SMM_INSIDE_NMI_MASK
  irr, isr,            \* the local APIC
  can_inject, req_immediate_exit,    \* locals of the vCPU thread
  entry,               \* VM_ENTRY_INTR_INFO_FIELD
  vectoring,           \* idt_vectoring_info of the last exit
  exit_reason,
  irq_window, nmi_window,            \* window-exiting controls
  soft_vnmi_blocked, nmi_known_unmasked,
  rflags_if, shadow, nmi_blocking,   \* guest RFLAGS.IF and interruptibility: STI or MOV SS, NMI
  inNmi                \* the guest has entered its NMI handler and not left it

loop == <<pc, mode, requests, can_inject, req_immediate_exit>>
async == <<src, ipi, nmi_queued, irr>>
held == <<exception, interrupt, nmi_pending, nmi_injected, smi_pending, smm, smm_inside_nmi, isr>>
vmcs == <<entry, vectoring, exit_reason, irq_window, nmi_window,
          soft_vnmi_blocked, nmi_known_unmasked>>
guest == <<rflags_if, shadow, nmi_blocking, inNmi>>
vars == <<loop, async, held, vmcs, guest>>

Request == {"EVENT", "NMI", "SMI", "TRIPLE_FAULT"}
Pc == {"req_tf", "req_smi", "req_nmi", "req_event", "inject", "inject_smi", "inject_nmi",
       "inject_irq", "enter", "check", "guest", "exited", "handle", "stopped"}
Reasons == {"none", "external", "irq_window", "nmi_window", "fault", "misconfig",
            "task_gate", "eoi", "rsm", "iret_ept", "iret_exc"}

Shadows == {"none", "sti", "mov_ss"}

NoEvent == [type |-> "none", vec |-> 0]
NmiEvent == [type |-> "nmi", vec |-> 0]
ExcEvent(v) == [type |-> "exc", vec |-> v]
IrqEvent(v) == [type |-> "irq", vec |-> v]
Event == {NoEvent, NmiEvent} \cup {ExcEvent(v) : v \in ExcVectors} \cup {IrqEvent(v) : v \in Vectors}

PF == 14
DF == 8

exception_class(v) == CASE v = PF -> "pf"
                        [] v \in {0, 10, 11, 12, 13} -> "contributory"
                        [] OTHER -> "benign"

\* Regression: a new exception does not reset "injected".
PendingKeepsInjected(v) == [pending |-> TRUE, injected |-> exception.injected, vector |-> v]

Pending(v) == [pending |-> TRUE, injected |-> FALSE, vector |-> v]
\* Empty queues; the vector of an empty queue is never read, one value stands for all.
NoException == [pending |-> FALSE, injected |-> FALSE, vector |-> DF]
NoInterrupt == [injected |-> FALSE, nr |-> 0]

\* kvm_multiple_exception of a new exception nr: the exception record it leaves.
MultipleException(nr) ==
  LET prev == exception.vector
      c1 == exception_class(prev)
      c2 == exception_class(nr)
  IN IF ~exception.pending /\ ~exception.injected THEN Pending(nr)
     ELSE IF prev = DF THEN exception
     ELSE IF \/ c1 = "contributory" /\ c2 = "contributory"
             \/ c1 = "pf" /\ c2 # "benign"
          THEN Pending(DF)
     ELSE Pending(nr)

\* ... and the requests it makes.
MultipleExceptionRequests ==
  IF (exception.pending \/ exception.injected) /\ exception.vector = DF
  THEN {"EVENT", "TRIPLE_FAULT"} ELSE {"EVENT"}

\* Regressions: one kind of half-delivered event is not counted.
NeedsReinjectionNoNmi == exception.injected \/ interrupt.injected
NeedsReinjectionNoIrq == exception.injected \/ nmi_injected

kvm_event_needs_reinjection == exception.injected \/ interrupt.injected \/ nmi_injected

\* The highest vector of the IRR, when it is above everything in service.
Injectable(rr, sr) == {v \in rr : (\A w \in rr : w <= v) /\ (\A s \in sr : s < v)}

Shadowed == shadow # "none"

vmx_get_nmi_mask == IF ~EnableVnmi THEN soft_vnmi_blocked
                    ELSE ~nmi_known_unmasked /\ nmi_blocking

\* Regression: the software flag is not consulted.
NmiBlockedNoSoft == Shadowed \/ nmi_blocking

vmx_nmi_blocked == (~EnableVnmi /\ soft_vnmi_blocked) \/ Shadowed \/ nmi_blocking

\* Regression: the shadow is not checked.
InterruptBlockedNoShadow == ~rflags_if

vmx_interrupt_blocked == ~rflags_if \/ Shadowed

\* vmx_set_nmi_mask writes the software flag or the VMCS bit and its cache.
vmx_set_nmi_mask(masked) ==
  /\ soft_vnmi_blocked' = IF EnableVnmi THEN soft_vnmi_blocked ELSE masked
  /\ nmi_known_unmasked' = IF EnableVnmi THEN ~masked ELSE nmi_known_unmasked
  /\ nmi_blocking' = IF EnableVnmi THEN masked ELSE nmi_blocking

Init ==
  /\ pc = "req_tf" /\ mode = "OUTSIDE" /\ requests = {} /\ can_inject = FALSE
  /\ req_immediate_exit = FALSE
  /\ src = [k \in Sources |-> "idle"] /\ ipi = FALSE /\ nmi_queued = 0 /\ irr = {}
  /\ exception = NoException /\ interrupt = NoInterrupt
  /\ nmi_pending = 0 /\ nmi_injected = FALSE
  /\ smi_pending = FALSE /\ smm = FALSE /\ smm_inside_nmi = FALSE /\ isr = {}
  /\ entry = NoEvent /\ vectoring = NoEvent /\ exit_reason = "none"
  /\ irq_window = FALSE /\ nmi_window = FALSE
  /\ soft_vnmi_blocked = FALSE /\ nmi_known_unmasked = FALSE
  /\ rflags_if = FALSE /\ shadow = "none" /\ nmi_blocking = FALSE /\ inNmi = FALSE

-----------------------------------------------------------------------------
(* Asynchronous sources: publish the event, make the request, kick.        *)

\* vmx_deliver_interrupt: kvm_lapic_set_irr.
RaiseIrq(v) ==
  /\ "irq" \in Sources /\ src["irq"] = "idle"
  /\ irr' = irr \cup {v}
  /\ src' = [src EXCEPT !["irq"] = "published"]
  /\ UNCHANGED <<loop, ipi, nmi_queued, held, vmcs, guest>>

\* kvm_inject_nmi: atomic_inc(&nmi_queued).
RaiseNmi ==
  /\ "nmi" \in Sources /\ src["nmi"] = "idle" /\ nmi_queued < MaxNmi
  /\ nmi_queued' = nmi_queued + 1
  /\ src' = [src EXCEPT !["nmi"] = "published"]
  /\ UNCHANGED <<loop, ipi, irr, held, vmcs, guest>>

\* An SMI carries no data: its request is its publication.
RaiseSmi ==
  /\ "smi" \in Sources /\ src["smi"] = "idle"
  /\ src' = [src EXCEPT !["smi"] = "published"]
  /\ UNCHANGED <<loop, ipi, nmi_queued, irr, held, vmcs, guest>>

RequestOf(k) == CASE k = "irq" -> "EVENT" [] k = "nmi" -> "NMI" [] k = "smi" -> "SMI"

\* kvm_make_request of the source's request.
MakeRequest(k) ==
  /\ src[k] = "published"
  /\ requests' = requests \cup {RequestOf(k)}
  /\ src' = [src EXCEPT ![k] = "requested"]
  /\ UNCHANGED <<pc, mode, can_inject, req_immediate_exit, ipi, nmi_queued, irr, held, vmcs, guest>>

\* kvm_vcpu_kick: cmpxchg mode to EXITING, send an IPI if the vCPU was in guest mode.
Kick(k) ==
  /\ src[k] = "requested"
  /\ src' = [src EXCEPT ![k] = "idle"]
  /\ IF mode = "IN_GUEST"
     THEN mode' = "EXITING" /\ ipi' = TRUE
     ELSE UNCHANGED <<mode, ipi>>
  /\ UNCHANGED <<pc, requests, can_inject, req_immediate_exit, nmi_queued, irr, held, vmcs, guest>>

-----------------------------------------------------------------------------
(* vcpu_enter_guest: requests.                                             *)

Goto(label) == pc' = label

CheckTripleFault ==
  /\ pc = "req_tf"
  /\ IF "TRIPLE_FAULT" \in requests
     THEN /\ requests' = requests \ {"TRIPLE_FAULT"}
          /\ Goto("stopped")
     ELSE /\ Goto("req_smi")
          /\ UNCHANGED requests
  /\ UNCHANGED <<mode, can_inject, req_immediate_exit, async, held, vmcs, guest>>

\* Regression: a processed SMI requests no event check.
ProcessSmiNoEvent == requests \ {"SMI"}

process_smi_requests == (requests \ {"SMI"}) \cup {"EVENT"}

\* KVM_REQ_SMI: process_smi (smm.c) marks the SMI pending and requests an event check.
CheckSmi ==
  /\ pc = "req_smi"
  /\ Goto("req_nmi")
  /\ IF "SMI" \in requests
     THEN /\ requests' = process_smi_requests
          /\ smi_pending' = TRUE
     ELSE UNCHANGED <<requests, smi_pending>>
  /\ UNCHANGED <<mode, can_inject, req_immediate_exit, async, exception, interrupt,
                 nmi_pending, nmi_injected, smm, smm_inside_nmi, isr, vmcs, guest>>

\* process_nmi: two NMIs may wait only while NMIs are not blocked.
\* Regression: pending NMIs are not limited.
NmiLimitNone == 9

NmiLimit == IF vmx_get_nmi_mask \/ nmi_injected THEN 1 ELSE 2
NmiTotal == nmi_pending + nmi_queued

process_nmi ==
  /\ nmi_pending' = IF NmiTotal < NmiLimit THEN NmiTotal ELSE NmiLimit
  /\ nmi_queued' = 0
  /\ nmi_known_unmasked' = (nmi_known_unmasked \/ (EnableVnmi /\ ~nmi_blocking))

CheckNmi ==
  /\ pc = "req_nmi"
  /\ Goto("req_event")
  /\ IF "NMI" \in requests
     THEN /\ process_nmi
          /\ requests' = (requests \ {"NMI"}) \cup (IF nmi_pending' > 0 THEN {"EVENT"} ELSE {})
     ELSE UNCHANGED <<requests, nmi_pending, nmi_queued, nmi_known_unmasked>>
  /\ UNCHANGED <<mode, can_inject, req_immediate_exit, src, ipi, irr, exception, interrupt,
                 nmi_injected, smi_pending, smm, smm_inside_nmi, isr, entry, vectoring,
                 exit_reason, irq_window, nmi_window, soft_vnmi_blocked, guest>>

CheckEvent ==
  /\ pc = "req_event"
  /\ requests' = requests \ {"EVENT"}
  /\ Goto(IF "EVENT" \in requests THEN "inject" ELSE "enter")
  /\ UNCHANGED <<mode, can_inject, req_immediate_exit, async, held, vmcs, guest>>

-----------------------------------------------------------------------------
(* kvm_check_and_inject_events.                                            *)

\* vmx_inject_nmi.
vmx_inject_nmi ==
  /\ entry' = NmiEvent
  /\ soft_vnmi_blocked' = (soft_vnmi_blocked \/ ~EnableVnmi)
  /\ nmi_known_unmasked' = FALSE

\* An exception, injected before or pending now, is written to the VM-entry field.
InjectException ==
  /\ pc = "inject"
  /\ exception.injected \/ exception.pending
  /\ entry' = ExcEvent(exception.vector)
  /\ exception' = [exception EXCEPT !.pending = FALSE, !.injected = TRUE]
  /\ can_inject' = FALSE
  /\ Goto("inject_smi")
  /\ UNCHANGED <<mode, requests, req_immediate_exit, async, interrupt, nmi_pending, nmi_injected,
                 smi_pending, smm, smm_inside_nmi, isr, vectoring, exit_reason, irq_window,
                 nmi_window, soft_vnmi_blocked, nmi_known_unmasked, guest>>

\* An NMI or an interrupt whose delivery did not finish goes in again.
Reinject ==
  /\ pc = "inject"
  /\ ~exception.injected /\ ~exception.pending
  /\ \/ nmi_injected /\ vmx_inject_nmi
     \/ /\ ~nmi_injected /\ interrupt.injected
        /\ entry' = IrqEvent(interrupt.nr)
        /\ UNCHANGED <<soft_vnmi_blocked, nmi_known_unmasked>>
     \/ /\ ~nmi_injected /\ ~interrupt.injected
        /\ UNCHANGED <<entry, soft_vnmi_blocked, nmi_known_unmasked>>
  /\ can_inject' = ~kvm_event_needs_reinjection
  /\ Goto("inject_smi")
  /\ UNCHANGED <<mode, requests, req_immediate_exit, async, held, vectoring, exit_reason,
                 irq_window, nmi_window, guest>>

\* A new event behind one that must go in first: enter and exit at once.
Busy ==
  /\ ~can_inject
  /\ req_immediate_exit' = TRUE
  /\ Goto("enter")

\* The SMI step: nothing pending, busy, already in SMM, or enter_smm (smm.c).
SkipSmi ==
  /\ pc = "inject_smi"
  /\ \/ ~smi_pending /\ Goto("inject_nmi") /\ UNCHANGED req_immediate_exit
     \/ smi_pending /\ Busy
     \/ /\ smi_pending /\ can_inject /\ smm
        /\ Goto("inject_nmi") /\ UNCHANGED req_immediate_exit
  /\ UNCHANGED <<mode, requests, can_inject, async, held, vmcs, guest>>

EnterSmm ==
  /\ pc = "inject_smi"
  /\ smi_pending /\ can_inject /\ ~smm
  /\ smi_pending' = FALSE
  /\ smm' = TRUE
  /\ smm_inside_nmi' = vmx_get_nmi_mask
  /\ IF vmx_get_nmi_mask
     THEN UNCHANGED <<soft_vnmi_blocked, nmi_known_unmasked, nmi_blocking>>
     ELSE vmx_set_nmi_mask(TRUE)
  /\ rflags_if' = FALSE /\ shadow' = "none"
  /\ can_inject' = FALSE
  /\ Goto("inject_nmi")
  /\ UNCHANGED <<mode, requests, req_immediate_exit, async, exception, interrupt, nmi_pending,
                 nmi_injected, isr, entry, vectoring, exit_reason, irq_window, nmi_window, inNmi>>

\* Regression: no window is armed where an NMI window does not help.
EnableNmiWindowNoFallback ==
  /\ nmi_window' = (nmi_window \/ (EnableVnmi /\ shadow # "sti"))
  /\ UNCHANGED irq_window

\* vmx_enable_nmi_window: an interrupt window where NMI windows do not help.
vmx_enable_nmi_window ==
  IF ~EnableVnmi \/ shadow = "sti"
  THEN irq_window' = TRUE /\ UNCHANGED nmi_window
  ELSE nmi_window' = TRUE /\ UNCHANGED irq_window

SkipNmi ==
  /\ pc = "inject_nmi"
  /\ \/ /\ nmi_pending = 0
        /\ Goto("inject_irq")
        /\ UNCHANGED <<req_immediate_exit, irq_window, nmi_window>>
     \/ nmi_pending > 0 /\ Busy /\ UNCHANGED <<irq_window, nmi_window>>
     \/ /\ nmi_pending > 0 /\ can_inject /\ vmx_nmi_blocked
        /\ vmx_enable_nmi_window
        /\ Goto("inject_irq")
        /\ UNCHANGED req_immediate_exit
  /\ UNCHANGED <<mode, requests, can_inject, async, held, entry, vectoring, exit_reason,
                 soft_vnmi_blocked, nmi_known_unmasked, guest>>

InjectNmi ==
  /\ pc = "inject_nmi"
  /\ nmi_pending > 0 /\ can_inject /\ ~vmx_nmi_blocked
  /\ nmi_pending' = nmi_pending - 1
  /\ nmi_injected' = TRUE
  /\ vmx_inject_nmi
  /\ can_inject' = FALSE
  /\ IF nmi_pending' > 0 THEN vmx_enable_nmi_window ELSE UNCHANGED <<irq_window, nmi_window>>
  /\ Goto("inject_irq")
  /\ UNCHANGED <<mode, requests, req_immediate_exit, async, exception, interrupt, smi_pending,
                 smm, smm_inside_nmi, isr, vectoring, exit_reason, guest>>

SkipIrq ==
  /\ pc = "inject_irq"
  /\ \/ /\ Injectable(irr, isr) = {}
        /\ Goto("enter")
        /\ UNCHANGED <<req_immediate_exit, irq_window>>
     \/ Injectable(irr, isr) # {} /\ Busy /\ UNCHANGED irq_window
     \/ /\ Injectable(irr, isr) # {} /\ can_inject /\ vmx_interrupt_blocked
        /\ irq_window' = TRUE
        /\ Goto("enter")
        /\ UNCHANGED req_immediate_exit
  /\ UNCHANGED <<mode, requests, can_inject, async, held, entry, vectoring, exit_reason,
                 nmi_window, soft_vnmi_blocked, nmi_known_unmasked, guest>>

\* kvm_cpu_get_interrupt acknowledges the vector; a second injectable one opens a window.
InjectIrq ==
  /\ pc = "inject_irq"
  /\ can_inject /\ ~vmx_interrupt_blocked
  /\ \E v \in Injectable(irr, isr) :
       /\ irr' = irr \ {v}
       /\ isr' = isr \cup {v}
       /\ interrupt' = [injected |-> TRUE, nr |-> v]
       /\ entry' = IrqEvent(v)
  /\ irq_window' = (irq_window \/ Injectable(irr', isr') # {})
  /\ Goto("enter")
  /\ UNCHANGED <<mode, requests, can_inject, req_immediate_exit, src, ipi, nmi_queued, exception,
                 nmi_pending, nmi_injected, smi_pending, smm, smm_inside_nmi, vectoring,
                 exit_reason, nmi_window, soft_vnmi_blocked, nmi_known_unmasked, guest>>

-----------------------------------------------------------------------------
(* VM entry.                                                               *)

\* Interrupts off, mode = IN_GUEST_MODE, before the requests are looked at again.
EnterGuestMode ==
  /\ pc = "enter"
  /\ mode' = "IN_GUEST"
  /\ can_inject' = FALSE
  /\ Goto("check")
  /\ UNCHANGED <<requests, req_immediate_exit, async, held, vmcs, guest>>

\* Regression: requeueing a half-delivered event requests no event check.
CompleteInterruptsNoRequest(info) ==
  /\ nmi_injected' = (info.type = "nmi")
  /\ exception' = IF info.type = "exc"
                  THEN [pending |-> FALSE, injected |-> TRUE, vector |-> info.vec]
                  ELSE NoException
  /\ interrupt' = IF info.type = "irq" THEN [injected |-> TRUE, nr |-> info.vec]
                  ELSE NoInterrupt
  /\ UNCHANGED requests

\* __vmx_complete_interrupts: what was being delivered goes back to its queue.
complete_interrupts(info) ==
  /\ nmi_injected' = (info.type = "nmi")
  /\ exception' = IF info.type = "exc"
                  THEN [pending |-> FALSE, injected |-> TRUE, vector |-> info.vec]
                  ELSE NoException
  /\ interrupt' = IF info.type = "irq" THEN [injected |-> TRUE, nr |-> info.vec]
                  ELSE NoInterrupt
  /\ requests' = requests \cup (IF info = NoEvent THEN {} ELSE {"EVENT"})
                          \cup (IF pc = "check" /\ req_immediate_exit THEN {"EVENT"} ELSE {})

\* kvm_vcpu_exit_request, or work of the host for this thread: take the event back.
CancelInjection ==
  /\ pc = "check"
  /\ complete_interrupts(entry)
  /\ IF entry.type = "nmi" THEN vmx_set_nmi_mask(FALSE)
     ELSE UNCHANGED <<soft_vnmi_blocked, nmi_known_unmasked, nmi_blocking>>
  /\ entry' = NoEvent
  /\ mode' = "OUTSIDE" /\ ipi' = FALSE
  /\ req_immediate_exit' = FALSE
  /\ Goto("req_tf")
  /\ UNCHANGED <<can_inject, src, nmi_queued, irr, nmi_pending, smi_pending, smm, smm_inside_nmi,
                 isr, vectoring, exit_reason, irq_window, nmi_window, rflags_if, shadow, inNmi>>

VmEnter ==
  /\ pc = "check"
  /\ mode = "IN_GUEST" /\ requests = {}
  /\ requests' = IF req_immediate_exit THEN {"EVENT"} ELSE {}
  /\ Goto("guest")
  /\ UNCHANGED <<mode, can_inject, req_immediate_exit, async, held, vmcs, guest>>

-----------------------------------------------------------------------------
(* The CPU and the guest.                                                  *)

IrqWindowOpen == irq_window /\ rflags_if /\ ~Shadowed
NmiWindowOpen == nmi_window /\ ~nmi_blocking /\ ~Shadowed

\* The guest executes only when no injected event, window or timer comes first.
GuestExecutes ==
  /\ pc = "guest" /\ entry = NoEvent
  /\ ~req_immediate_exit /\ ~IrqWindowOpen /\ ~NmiWindowOpen

\* The CPU enters the handler of the injected event through an interrupt or trap gate.
Deliver ==
  /\ pc = "guest" /\ entry # NoEvent
  /\ entry' = NoEvent
  /\ nmi_blocking' = (nmi_blocking \/ (EnableVnmi /\ entry.type = "nmi"))
  /\ inNmi' = (inNmi \/ entry.type = "nmi")
  /\ IF entry.type = "exc" THEN rflags_if' \in {rflags_if, FALSE} ELSE rflags_if' = FALSE
  /\ shadow' = "none"
  /\ UNCHANGED <<loop, async, held, vectoring, exit_reason, irq_window, nmi_window,
                 soft_vnmi_blocked, nmi_known_unmasked>>

MayEnableIf == ~(PoliteGuest /\ inNmi)

\* CLI, STI, POPF, MOV SS and any other instruction: it ends the shadow or, as STI that opens
\* interrupts or as MOV SS, begins one.  One MOV SS after another does not.
GuestFlags ==
  /\ GuestExecutes
  /\ rflags_if' \in {rflags_if, FALSE} \cup (IF MayEnableIf THEN {TRUE} ELSE {})
  /\ \/ shadow' = "none"
     \/ ~rflags_if /\ rflags_if' /\ shadow' = "sti"
     \/ rflags_if' = rflags_if /\ shadow # "mov_ss" /\ shadow' = "mov_ss"
  /\ UNCHANGED <<loop, async, held, vmcs, nmi_blocking, inNmi>>

\* The NMI handler returns, to code with or without interrupts.
Iret ==
  /\ GuestExecutes /\ inNmi /\ ~smm
  /\ nmi_blocking' = FALSE /\ inNmi' = FALSE
  /\ rflags_if' \in BOOLEAN
  /\ shadow' = "none"
  /\ UNCHANGED <<loop, async, held, vmcs>>

\* A VM exit: the CPU records the reason and what it was delivering.
Exit(reason, info) ==
  /\ exit_reason' = reason
  /\ vectoring' = info
  /\ entry' = NoEvent
  /\ Goto("exited")
  /\ UNCHANGED <<mode, requests, can_inject, req_immediate_exit, async, held, irq_window,
                 nmi_window, soft_vnmi_blocked, nmi_known_unmasked>>

\* A host interrupt, the kick's IPI or the immediate exit.
ExitExternal ==
  /\ pc = "guest" /\ entry = NoEvent
  /\ Exit("external", NoEvent)
  /\ UNCHANGED guest

ExitIrqWindow ==
  /\ pc = "guest" /\ entry = NoEvent /\ IrqWindowOpen
  /\ Exit("irq_window", NoEvent)
  /\ UNCHANGED guest

\* Under the shadow of STI the CPU may take this exit or put it off.
ExitNmiWindow ==
  /\ pc = "guest" /\ entry = NoEvent /\ nmi_window /\ ~nmi_blocking /\ shadow # "mov_ss"
  /\ Exit("nmi_window", NoEvent)
  /\ UNCHANGED guest

\* An intercepted fault, an emulated instruction, an EOI or RSM.
ExitInstruction ==
  /\ GuestExecutes
  /\ \/ Exit("fault", NoEvent)
     \/ isr # {} /\ Exit("eoi", NoEvent)
     \/ smm /\ Exit("rsm", NoEvent)
  /\ UNCHANGED guest

\* The delivery of the injected event exits; NMIs are blocked while an NMI is delivered.
ExitDelivering ==
  /\ pc = "guest" /\ entry # NoEvent
  /\ \E reason \in {"fault", "misconfig", "task_gate"} : Exit(reason, entry)
  /\ nmi_blocking' = (nmi_blocking \/ (EnableVnmi /\ entry.type = "nmi"))
  /\ UNCHANGED <<rflags_if, shadow, inNmi>>

\* The delivery of an exception the guest raised by itself exits.
ExitNativeException ==
  /\ GuestExecutes
  /\ \E c \in ExcVectors : \E reason \in {"fault", "task_gate"} : Exit(reason, ExcEvent(c))
  /\ UNCHANGED guest

\* An IRET of the NMI handler unblocks NMIs, then faults and exits: it will run again.
ExitIret ==
  /\ GuestExecutes /\ inNmi /\ ~smm
  /\ \/ "ept" \in IretFaults /\ Exit("iret_ept", NoEvent)
     \/ "exc" \in IretFaults /\ Exit("iret_exc", NoEvent)
  /\ nmi_blocking' = FALSE
  /\ UNCHANGED <<rflags_if, shadow, inNmi>>

-----------------------------------------------------------------------------
(* After the exit: vmx_recover_nmi_blocking, vmx_complete_interrupts.      *)

NmiRecovered ==
  EnableVnmi /\ ~nmi_known_unmasked /\ exit_reason = "iret_exc" /\ vectoring = NoEvent

\* The cache nmi_known_unmasked is trusted when set and refreshed when not.
CompleteExit ==
  /\ pc = "exited"
  /\ complete_interrupts(vectoring)
  /\ IF vectoring.type = "nmi" THEN vmx_set_nmi_mask(FALSE)
     ELSE /\ nmi_blocking' = (nmi_blocking \/ NmiRecovered)
          /\ nmi_known_unmasked' =
               (nmi_known_unmasked \/ (EnableVnmi /\ ~NmiRecovered /\ ~nmi_blocking))
          /\ UNCHANGED soft_vnmi_blocked
  /\ mode' = "OUTSIDE" /\ ipi' = FALSE
  /\ req_immediate_exit' = FALSE
  /\ Goto("handle")
  /\ UNCHANGED <<can_inject, src, nmi_queued, irr, nmi_pending, smi_pending, smm, smm_inside_nmi,
                 isr, entry, vectoring, exit_reason, irq_window, nmi_window, rflags_if, shadow,
                 inNmi>>

-----------------------------------------------------------------------------
(* vmx_handle_exit.  idt_vectoring_info is dead once the handler returned. *)

Handled ==
  /\ Goto("req_tf")
  /\ vectoring' = NoEvent /\ exit_reason' = "none"

\* Without virtual NMIs the blocked state ends when interrupts open, or after one second.
soft_vnmi ==
  \/ soft_vnmi_blocked' = (soft_vnmi_blocked /\ (EnableVnmi \/ vmx_interrupt_blocked))
  \/ /\ ~EnableVnmi /\ soft_vnmi_blocked /\ vmx_interrupt_blocked /\ nmi_pending > 0
     /\ MayEnableIf
     /\ soft_vnmi_blocked' = FALSE

\* An exit while delivering that KVM cannot handle: KVM_INTERNAL_ERROR_DELIVERY_EV.  Userspace
\* finds the event in its queue again, may read or move it, and may run the vCPU again.
DeliveryError ==
  /\ pc = "handle" /\ exit_reason = "misconfig"
  /\ Handled
  /\ UNCHANGED <<mode, requests, can_inject, req_immediate_exit, async, held, entry, irq_window,
                 nmi_window, soft_vnmi_blocked, nmi_known_unmasked, guest>>

HandleExternal ==
  /\ pc = "handle" /\ exit_reason = "external"
  /\ Handled /\ soft_vnmi
  /\ UNCHANGED <<mode, requests, can_inject, req_immediate_exit, async, held, entry, irq_window,
                 nmi_window, nmi_known_unmasked, guest>>

\* Regression: a window exit requests no event check.
WindowNoEvent == requests

window_requests == requests \cup {"EVENT"}

\* handle_interrupt_window, handle_nmi_window.
HandleWindow ==
  /\ pc = "handle"
  /\ \/ exit_reason = "irq_window" /\ irq_window' = FALSE /\ UNCHANGED nmi_window
     \/ exit_reason = "nmi_window" /\ nmi_window' = FALSE /\ UNCHANGED irq_window
  /\ requests' = window_requests
  /\ Handled /\ soft_vnmi
  /\ UNCHANGED <<mode, can_inject, req_immediate_exit, async, held, entry, nmi_known_unmasked, guest>>

\* The handler resolves the fault, or queues an exception for the guest.  After an IRET fault
\* handle_ept_violation blocks NMIs again in the VMCS, past the cache.
HandleFault ==
  /\ pc = "handle" /\ exit_reason \in {"fault", "iret_ept", "iret_exc"}
  /\ \/ UNCHANGED <<exception, requests>>
     \/ \E c \in ExcVectors \ {DF} :
          /\ exception' = MultipleException(c)
          /\ requests' = requests \cup MultipleExceptionRequests
  /\ nmi_blocking' = (nmi_blocking \/ (EnableVnmi /\ exit_reason = "iret_ept"))
  /\ Handled /\ soft_vnmi
  /\ UNCHANGED <<mode, can_inject, req_immediate_exit, async, interrupt, nmi_pending, nmi_injected,
                 smi_pending, smm, smm_inside_nmi, isr, entry, irq_window, nmi_window,
                 nmi_known_unmasked, rflags_if, shadow, inNmi>>

\* toggle_interruptibility: the shadow an emulated instruction leaves; two of a kind leave none.
ToggledShadow(mask) == IF shadow = mask THEN "none" ELSE mask

\* x86_emulate_instruction: the instruction may be an STI, a MOV SS, or open interrupts by itself.
Emulated ==
  /\ rflags_if' \in {rflags_if, FALSE} \cup (IF MayEnableIf THEN {TRUE} ELSE {})
  /\ \E mask \in Shadows :
       /\ (mask = "sti" => rflags_if') /\ (mask = "mov_ss" => rflags_if' = rflags_if)
       /\ shadow' = ToggledShadow(mask)
  /\ requests' = requests \cup (IF (~rflags_if /\ rflags_if') \/ (Shadowed /\ shadow' = "none")
                               THEN {"EVENT"} ELSE {})

\* skip_emulated_instruction: the handler has done what the instruction does.
Skipped == shadow' = "none" /\ UNCHANGED <<rflags_if, requests>>

HandleEmulate ==
  /\ pc = "handle" /\ exit_reason = "fault" /\ vectoring = NoEvent
  /\ Emulated \/ Skipped
  /\ Handled /\ soft_vnmi
  /\ UNCHANGED <<mode, can_inject, req_immediate_exit, async, held, entry, irq_window, nmi_window,
                 nmi_known_unmasked, nmi_blocking, inNmi>>

\* Regression: an EOI requests no event check.
EoiNoEvent == requests

apic_set_eoi_requests == requests \cup {"EVENT"}

\* apic_set_eoi (lapic.c) ends the highest vector in service and requests an event check.
HandleEoi ==
  /\ pc = "handle" /\ exit_reason = "eoi"
  /\ isr' = {s \in isr : \E t \in isr : t > s}
  /\ requests' = apic_set_eoi_requests
  /\ Handled /\ soft_vnmi
  /\ UNCHANGED <<mode, can_inject, req_immediate_exit, async, exception, interrupt, nmi_pending,
                 nmi_injected, smi_pending, smm, smm_inside_nmi, entry, irq_window, nmi_window,
                 nmi_known_unmasked, guest>>

\* emulator_leave_smm (smm.c): unmask NMIs unless SMM was entered with NMIs masked.
HandleRsm ==
  /\ pc = "handle" /\ exit_reason = "rsm"
  /\ smm' = FALSE /\ smm_inside_nmi' = FALSE
  /\ requests' = requests \cup {"EVENT"}
  /\ IF smm_inside_nmi
     THEN soft_vnmi /\ UNCHANGED <<nmi_known_unmasked, nmi_blocking>>
     ELSE vmx_set_nmi_mask(FALSE)
  /\ rflags_if' \in {FALSE} \cup (IF MayEnableIf THEN {TRUE} ELSE {})
  /\ shadow' = "none"
  /\ Handled
  /\ UNCHANGED <<mode, can_inject, req_immediate_exit, async, exception, interrupt, nmi_pending,
                 nmi_injected, smi_pending, isr, entry, irq_window, nmi_window, inNmi>>

\* handle_task_switch through a task gate: the event leaves its queue ...
task_gate ==
  /\ pc = "handle" /\ exit_reason = "task_gate"
  /\ nmi_injected' = (nmi_injected /\ vectoring.type # "nmi")
  /\ exception' = IF vectoring.type = "exc" THEN NoException ELSE exception
  /\ interrupt' = IF vectoring.type = "irq" THEN NoInterrupt ELSE interrupt
  /\ IF vectoring.type = "nmi" THEN vmx_set_nmi_mask(TRUE)
     ELSE soft_vnmi /\ UNCHANGED <<nmi_known_unmasked, nmi_blocking>>
  /\ vectoring' = NoEvent /\ exit_reason' = "none"
  /\ UNCHANGED <<mode, can_inject, req_immediate_exit, async, nmi_pending, smi_pending, smm,
                 smm_inside_nmi, isr, entry, irq_window, nmi_window>>

\* ... and the emulated switch enters the handler,
HandleTaskGate ==
  /\ task_gate
  /\ Goto("req_tf")
  /\ inNmi' = (inNmi \/ vectoring.type = "nmi")
  /\ rflags_if' \in {FALSE} \cup (IF PoliteGuest /\ inNmi' THEN {} ELSE {TRUE})
  /\ shadow' = "none"
  /\ requests' = requests \cup {"EVENT"}

\* or fails, which ends the run with an internal error.
TaskSwitchError ==
  /\ task_gate
  /\ Goto("stopped")
  /\ UNCHANGED <<requests, rflags_if, shadow, inNmi>>

\* The run loop is over for this model.
Stopped == pc = "stopped" /\ UNCHANGED vars

Source ==
  \/ \E v \in Vectors : RaiseIrq(v)
  \/ RaiseNmi \/ RaiseSmi
  \/ \E k \in Sources : MakeRequest(k) \/ Kick(k)

EnterLoop ==
  \/ CheckTripleFault \/ CheckSmi \/ CheckNmi \/ CheckEvent
  \/ InjectException \/ Reinject \/ SkipSmi \/ EnterSmm \/ SkipNmi \/ InjectNmi
  \/ SkipIrq \/ InjectIrq \/ EnterGuestMode \/ CancelInjection \/ VmEnter

GuestRuns == Deliver \/ GuestFlags \/ Iret

Exits ==
  \/ ExitExternal \/ ExitIrqWindow \/ ExitNmiWindow \/ ExitInstruction
  \/ ExitDelivering \/ ExitNativeException \/ ExitIret

Handlers ==
  \/ CompleteExit \/ DeliveryError \/ HandleExternal \/ HandleWindow \/ HandleFault
  \/ HandleEmulate \/ HandleEoi \/ HandleRsm \/ HandleTaskGate \/ TaskSwitchError

Next == Source \/ EnterLoop \/ GuestRuns \/ Exits \/ Handlers \/ Stopped

Spec == Init /\ [][Next]_vars

(* Fairness: the vCPU thread and the sources are scheduled; neither host   *)
(* work nor requests arriving at the last moment cancel every VM entry; a  *)
(* window, a kick or an immediate exit ends the guest's run; a delivery    *)
(* does not fault for ever; the guest returns from its handlers, ends its  *)
(* interrupts and enables them again.                                      *)
Fairness ==
  /\ WF_vars(EnterLoop) /\ WF_vars(Handlers)
  /\ []<>(pc \in {"guest", "stopped"})
  /\ \A k \in Sources : WF_vars(MakeRequest(k)) /\ WF_vars(Kick(k))
  /\ WF_vars((ipi \/ req_immediate_exit) /\ ExitExternal)
  /\ SF_vars(ExitIrqWindow) /\ SF_vars(ExitNmiWindow)
  /\ SF_vars(Deliver) /\ SF_vars(Iret)
  /\ SF_vars(GuestFlags /\ rflags_if' /\ shadow' = "none")
  /\ SF_vars(ExitInstruction /\ exit_reason' = "eoi")
  /\ SF_vars(ExitInstruction /\ exit_reason' = "rsm")

FairSpec == Spec /\ Fairness

-----------------------------------------------------------------------------
(* Properties.                                                             *)

LoopType ==
  /\ pc \in Pc /\ mode \in {"OUTSIDE", "IN_GUEST", "EXITING"} /\ requests \subseteq Request
  /\ can_inject \in BOOLEAN /\ req_immediate_exit \in BOOLEAN
AsyncType ==
  /\ src \in [Sources -> {"idle", "published", "requested"}] /\ ipi \in BOOLEAN
  /\ nmi_queued \in Nat /\ irr \subseteq Vectors
HeldType ==
  /\ exception \in [pending : BOOLEAN, injected : BOOLEAN, vector : ExcVectors]
  /\ interrupt \in {NoInterrupt} \cup [injected : {TRUE}, nr : Vectors]
  /\ nmi_pending \in 0..2 /\ nmi_injected \in BOOLEAN
  /\ smi_pending \in BOOLEAN /\ smm \in BOOLEAN /\ smm_inside_nmi \in BOOLEAN
  /\ isr \subseteq Vectors
VmcsType ==
  /\ entry \in Event /\ vectoring \in Event /\ exit_reason \in Reasons
  /\ irq_window \in BOOLEAN /\ nmi_window \in BOOLEAN
  /\ soft_vnmi_blocked \in BOOLEAN /\ nmi_known_unmasked \in BOOLEAN
GuestType ==
  rflags_if \in BOOLEAN /\ shadow \in Shadows /\ nmi_blocking \in BOOLEAN /\ inNmi \in BOOLEAN

\* Types of every variable, by part of the state; at most two NMIs are ever pending.
TypeOK == LoopType /\ AsyncType /\ HeldType /\ VmcsType /\ GuestType

InLoop == {"inject_smi", "inject_nmi", "inject_irq", "enter", "check"}

\* The event the vCPU thread holds for the guest: an exception hides what it interrupted.
Held == IF exception.pending \/ exception.injected THEN ExcEvent(exception.vector)
        ELSE IF nmi_injected THEN NmiEvent
        ELSE IF interrupt.injected THEN IrqEvent(interrupt.nr)
        ELSE NoEvent

\* kvm_check_and_inject_events, WARN_ON_ONCE: an exception is never both injected and pending,
\* whatever mix of delivery faults and handler faults led here.
NeverInjectedAndPending == ~(exception.injected /\ exception.pending)

\* The VM-entry field holds what the queues hold when the guest is entered: nothing that was
\* requeued after a faulted delivery is forgotten because KVM_REQ_EVENT was lost.
EntryMatchesQueues == pc \in {"enter", "check"} => entry = Held

\* VM-entry checks of the CPU: an interrupt is injected only with IF set and no shadow, an NMI
\* only with NMIs unblocked; a bad combination fails the VM entry and kills the VM.
Legal(e) == /\ e.type = "irq" => rflags_if /\ ~Shadowed
            /\ e.type = "nmi" => ~nmi_blocking /\ ~Shadowed

EntryIsLegal == pc \in {"check", "guest"} => Legal(entry)

\* The queues hold exactly e, as __vmx_complete_interrupts leaves them.
Requeued(e) ==
  /\ Held = e
  /\ exception.injected = (e.type = "exc") /\ ~exception.pending
  /\ nmi_injected = (e.type = "nmi") /\ interrupt.injected = (e.type = "irq")

\* Why the two hold: the inductive invariant of the thread's way round the loop.  A held event
\* has KVM_REQ_EVENT behind it until it is in the VM-entry field ...
HeldIsCarried ==
  /\ pc \notin InLoop \cup {"guest"} => entry = NoEvent
  /\ pc \in {"req_tf", "req_smi", "req_nmi", "req_event"} /\ Held # NoEvent => "EVENT" \in requests
  /\ pc \in InLoop => entry = Held
  /\ pc \in {"inject_smi", "inject_nmi", "inject_irq"} /\ can_inject => Held = NoEvent

\* ... an exit puts back what it interrupted, and only some exits interrupt a delivery ...
ExitPutsBack ==
  /\ pc = "handle" => Requeued(vectoring) /\ (vectoring # NoEvent => "EVENT" \in requests)
  /\ pc \in {"exited", "handle"} =>
       vectoring = NoEvent \/ exit_reason \in {"fault", "misconfig", "task_gate"}

\* ... and the guest's interruptibility changes only while nothing is held.
HeldIsLegal ==
  /\ ~EnableVnmi => ~nmi_blocking
  /\ pc \notin {"guest", "exited", "stopped"} => Legal(Held)
  /\ pc = "guest" => Legal(entry)
  /\ pc = "exited" => /\ vectoring.type = "irq" => rflags_if /\ ~Shadowed
                      /\ vectoring.type = "nmi" => ~Shadowed

DeliveryInv == HeldIsCarried /\ ExitPutsBack /\ HeldIsLegal

\* No lost wakeup: whenever the guest runs, an event that waits for it has a window armed, an
\* immediate exit programmed, or a source that is about to kick or has sent its IPI.
NoLostWakeup ==
  pc = "guest" =>
    /\ nmi_pending > 0 => nmi_window \/ irq_window \/ req_immediate_exit
    /\ nmi_queued > 0 => ipi \/ src["nmi"] # "idle"
    /\ Injectable(irr, isr) # {} =>
         irq_window \/ req_immediate_exit \/ ipi \/ src["irq"] # "idle"
    /\ smi_pending => smm \/ req_immediate_exit
    /\ requests # {} => req_immediate_exit \/ ipi \/ \E k \in Sources : src[k] = "requested"

\* An event in the VM-entry field is never replaced by another one before it was delivered,
\* cancelled or taken back at an exit.
NoOverwrite == [][entry # NoEvent => entry' \in {entry, NoEvent}]_vars

\* The guest's NMI handler is never interrupted by a second NMI.
NoNestedNmi == [][entry.type = "nmi" /\ pc = "guest" /\ inNmi' => ~inNmi]_vars

\* "Re-set bit block by NMI before VM entry if vmexit caused by a guest IRET fault": when the
\* guest is entered with its NMI handler unfinished, NMIs are blocked.
IretFaultReblocks == pc = "check" /\ inNmi /\ ~smm => nmi_blocking

\* An NMI that was queued is injected, whatever windows, shadows and faults come between.
NmiServed == (nmi_queued > 0) ~> (pc = "stopped" \/ (pc = "guest" /\ entry.type = "nmi"))

\* An interrupt raised in the IRR is acknowledged by the vCPU.
IrqServed == \A v \in Vectors : (v \in irr) ~> (pc = "stopped" \/ v \in isr)

\* A requested SMI reaches the guest.
SmiServed == ("SMI" \in requests) ~> (pc = "stopped" \/ smm)

-----------------------------------------------------------------------------
(* What the guest is promised (EventDelivery), and where KVM keeps it.     *)

Flight == IF pc = "guest" THEN entry ELSE IF pc = "exited" THEN vectoring ELSE Held

NmiRaised == nmi_queued > 0 \/ nmi_pending > 0
SmiRaised == \/ "SMI" \in requests \/ smi_pending
             \/ "smi" \in Sources /\ src["smi"] = "published"

Promise == INSTANCE EventDelivery WITH
  nmiRaised <- NmiRaised, smiRaised <- SmiRaised, flight <- Flight, shadow <- Shadowed,
  stopped <- pc = "stopped"

\* KVM's queues, requests, windows and requeueing implement the promise.
Delivers == Promise!ASpec
=============================================================================
