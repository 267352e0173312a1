------------------------------- MODULE VcpuRun -------------------------------
(***************************************************************************)
(* The run loop of one vCPU and the threads that interrupt it (x86.c,      *)
(* vmx.c): senders post a vector in the posted-interrupt descriptor, or    *)
(* set it in the IRR and kick; the vCPU goes through vcpu_run, halts and   *)
(* sleeps, or enters the guest; userspace and KVM inhibit APICv meanwhile, *)
(* so that the way interrupts travel changes under both.                   *)
(*                                                                         *)
(* The guest always has interrupts enabled: windows, shadows and NMIs are  *)
(* the business of EventInjection.  A larger vector has a higher priority. *)
(* No nested guest and no interrupts posted by devices.                    *)
(***************************************************************************)
EXTENDS Integers, FiniteSets

CONSTANTS
  Vectors,       \* interrupt vectors
  Senders,       \* threads that send one
  Reasons        \* APICv inhibit reasons

ASSUME RunAssumption == Vectors \subseteq 16..255

VARIABLES
  pc, ret,       \* the vCPU thread, and where it goes after vmx_sync_pir_to_irr
  mode, requests,
  halted,        \* mp_state is KVM_MP_STATE_HALTED
  asleep,        \* the thread waits in kvm_vcpu_block
  exit,          \* the reason of the last exit: "hlt", "window" or "other"
  apicv_active,
  inhibits,      \* kvm->arch.apicv_inhibit_reasons
  pir, on,       \* the posted-interrupt descriptor
  irr, rvi,      \* the local APIC, and the vector the CPU is to deliver from it (0: none)
  entry,         \* the vector the VM-entry field injects (0: none)
  irq_window,
  notify, kick, ack,   \* IPIs pending at the vCPU's CPU
  spc, vec,      \* each sender's place and vector
  ipc, new       \* the thread that changes the inhibits, and its new value

loop == <<pc, ret, halted, asleep, exit>>
apic == <<pir, on, irr, rvi, entry, irq_window>>
ipis == <<notify, kick, ack>>
sender == <<spc, vec>>
inhibitor == <<inhibits, ipc, new>>
vars == <<loop, mode, requests, apicv_active, apic, ipis, sender, inhibitor>>

\* The highest vector, 0 if there is none.
Highest(V) == IF V = {} THEN 0 ELSE CHOOSE v \in V : \A w \in V : w <= v

Init ==
  /\ pc = "top" /\ ret = "check" /\ mode = "OUTSIDE" /\ requests = {"APICV_UPDATE"}
  /\ halted = FALSE /\ asleep = FALSE /\ exit = "other"
  /\ apicv_active = TRUE /\ inhibits = {}
  /\ pir = {} /\ on = FALSE /\ irr = {} /\ rvi = 0 /\ entry = 0 /\ irq_window = FALSE
  /\ notify = FALSE /\ kick = FALSE /\ ack = FALSE
  /\ spc = [s \in Senders |-> "idle"] /\ vec = [s \in Senders |-> 0]
  /\ ipc = "idle" /\ new = {}

-----------------------------------------------------------------------------
(* vmx_deliver_interrupt.                                                  *)

\* A sender with a vector reads apicv_active.
Send(s, v) ==
  /\ spc[s] = "idle"
  /\ spc' = [spc EXCEPT ![s] = IF apicv_active THEN "pir" ELSE "irr"]
  /\ vec' = [vec EXCEPT ![s] = v]
  /\ UNCHANGED <<loop, mode, requests, apicv_active, apic, ipis, inhibitor>>

Sends(s, from, to) ==
  /\ spc[s] = from
  /\ spc' = [spc EXCEPT ![s] = to]
  /\ vec' = IF to = "idle" THEN [vec EXCEPT ![s] = 0] ELSE vec

\* pi_test_and_set_pir
SetPir(s) ==
  /\ Sends(s, "pir", IF vec[s] \in pir THEN "idle" ELSE "on")
  /\ pir' = pir \cup {vec[s]}
  /\ UNCHANGED <<loop, mode, requests, apicv_active, on, irr, rvi, entry, irq_window, ipis,
                 inhibitor>>

\* pi_test_and_set_on
SetOn(s) ==
  /\ Sends(s, "on", IF on THEN "idle" ELSE "trigger")
  /\ on' = TRUE
  /\ UNCHANGED <<loop, mode, requests, apicv_active, pir, irr, rvi, entry, irq_window, ipis,
                 inhibitor>>

\* Regression: a vCPU that is not in the guest is left alone.
TriggerNoWake(s) ==
  /\ Sends(s, "trigger", IF mode = "IN_GUEST" THEN "notify" ELSE "idle")
  /\ UNCHANGED <<loop, mode, requests, apicv_active, apic, ipis, inhibitor>>

\* kvm_vcpu_trigger_posted_interrupt reads the mode: it wakes the vCPU ...
Trigger(s) ==
  /\ Sends(s, "trigger", IF mode = "IN_GUEST" THEN "notify" ELSE "idle")
  /\ asleep' = (asleep /\ mode = "IN_GUEST")
  /\ UNCHANGED <<pc, ret, halted, exit, mode, requests, apicv_active, apic, ipis, inhibitor>>

\* ... or sends the notification, wherever the vCPU is by then.
Notify(s) ==
  /\ Sends(s, "notify", "idle")
  /\ notify' = TRUE
  /\ UNCHANGED <<loop, mode, requests, apicv_active, apic, kick, ack, inhibitor>>

\* Without APICv: the IRR, the request and kvm_vcpu_kick.
SetIrr(s) ==
  /\ Sends(s, "irr", "request")
  /\ irr' = irr \cup {vec[s]}
  /\ UNCHANGED <<loop, mode, requests, apicv_active, pir, on, rvi, entry, irq_window, ipis,
                 inhibitor>>

MakeRequest(s) ==
  /\ Sends(s, "request", "kick")
  /\ requests' = requests \cup {"EVENT"}
  /\ UNCHANGED <<loop, mode, apicv_active, apic, ipis, inhibitor>>

Kick(s) ==
  /\ Sends(s, "kick", "idle")
  /\ asleep' = FALSE
  /\ IF ~asleep /\ mode = "IN_GUEST" THEN mode' = "EXITING" /\ kick' = TRUE
     ELSE UNCHANGED <<mode, kick>>
  /\ UNCHANGED <<pc, ret, halted, exit, requests, apicv_active, apic, notify, ack, inhibitor>>

-----------------------------------------------------------------------------
(* kvm_set_or_clear_apicv_inhibit, under apicv_update_lock.                *)

WriteLocked == ipc # "idle"

\* The vCPU holds the lock for reading while it is at "disabled".
Inhibit(r) ==
  /\ ipc = "idle" /\ pc # "disabled"
  /\ new' \in {inhibits \cup {r}, inhibits \ {r}}
  /\ new' # inhibits
  /\ ipc' = IF (inhibits = {}) # (new' = {}) THEN "request" ELSE "publish"
  /\ UNCHANGED <<loop, mode, requests, apicv_active, apic, ipis, sender, inhibits>>

\* kvm_make_all_cpus_request(KVM_REQ_APICV_UPDATE): it does not wake the vCPU ...
RequestUpdate ==
  /\ ipc = "request" /\ ipc' = "ipi"
  /\ requests' = requests \cup {"APICV_UPDATE"}
  /\ UNCHANGED <<loop, mode, apicv_active, apic, ipis, sender, inhibits, new>>

\* ... and waits until a CPU that is in the guest, or on its way, has taken the IPI.
SendAck ==
  /\ ipc = "ipi" /\ ipc' = "publish"
  /\ ack' = (mode # "OUTSIDE")
  /\ mode' = IF mode = "IN_GUEST" THEN "EXITING" ELSE mode
  /\ UNCHANGED <<loop, requests, apicv_active, apic, notify, kick, sender, inhibits, new>>

Publish ==
  /\ ipc = "publish" /\ ~ack
  /\ ipc' = "idle" /\ inhibits' = new /\ new' = {}
  /\ UNCHANGED <<loop, mode, requests, apicv_active, apic, ipis, sender>>

-----------------------------------------------------------------------------
(* The vCPU thread.                                                        *)

Goto(from, to) == pc = from /\ pc' = to

\* vcpu_run
Top ==
  /\ Goto("top", IF halted THEN "block" ELSE "update")
  /\ UNCHANGED <<ret, halted, asleep, exit, mode, requests, apicv_active, apic, ipis, sender,
                 inhibitor>>

CheckUpdate ==
  /\ Goto("update", IF "APICV_UPDATE" \in requests THEN "locked" ELSE "event")
  /\ requests' = requests \ {"APICV_UPDATE"}
  /\ UNCHANGED <<ret, halted, asleep, exit, mode, apicv_active, apic, ipis, sender, inhibitor>>

\* Regression: the lock is not taken.
MayUpdateUnlocked == TRUE

MayUpdate == ~WriteLocked

\* __kvm_vcpu_update_apicv
UpdateApicv ==
  /\ MayUpdate
  /\ apicv_active' = (inhibits = {})
  /\ Goto("locked", IF apicv_active /\ ~apicv_active' THEN "disabled" ELSE "event")
  /\ UNCHANGED <<ret, halted, asleep, exit, mode, requests, apic, ipis, sender, inhibitor>>

\* Regression: the interrupts accepted under APICv are not looked for.
DisabledRequestsNone == {}

DisabledRequests == {"EVENT"}

DisableApicv ==
  /\ Goto("disabled", "event")
  /\ requests' = requests \cup DisabledRequests
  /\ UNCHANGED <<ret, halted, asleep, exit, mode, apicv_active, apic, ipis, sender, inhibitor>>

\* Regression: what was posted before the mode was set is not looked for.
SyncAtNever(p) == pc' = p /\ UNCHANGED ret

SyncAt(p) == pc' = "sync" /\ ret' = p

\* kvm_check_and_inject_events; without APICv it looks for an interrupt, with a sync ...
CheckEvent ==
  /\ pc = "event"
  /\ IF "EVENT" \in requests /\ ~apicv_active
     THEN pc' = "sync" /\ ret' = "inject"
     ELSE pc' = "entering" /\ UNCHANGED ret
  /\ requests' = requests \ {"EVENT"}
  /\ UNCHANGED <<halted, asleep, exit, mode, apicv_active, apic, ipis, sender, inhibitor>>

\* ... and injects it unless the VM-entry field is taken, or waits for a window.
InjectIrq ==
  /\ Goto("inject", "entering")
  /\ LET given == IF entry = 0 THEN Highest(irr) ELSE 0
     IN /\ entry' = IF entry = 0 THEN given ELSE entry
        /\ irr' = irr \ {given}
  /\ irq_window' = (irq_window \/ irr' # {})
  /\ UNCHANGED <<ret, halted, asleep, exit, mode, requests, apicv_active, pir, on, rvi, ipis,
                 sender, inhibitor>>

\* local_irq_disable and the switch of mode.
SetMode ==
  /\ pc = "entering" /\ SyncAt("check")
  /\ mode' = "IN_GUEST"
  /\ UNCHANGED <<halted, asleep, exit, requests, apicv_active, apic, ipis, sender, inhibitor>>

SetRvi(V) == rvi' = Highest(V)

\* How vmx_sync_pir_to_irr ends: by RVI, or by KVM_REQ_EVENT.
Synced(got) ==
  /\ IF apicv_active THEN SetRvi(irr') ELSE UNCHANGED rvi
  /\ requests' = IF got /\ ~apicv_active THEN requests \cup {"EVENT"} ELSE requests

\* vmx_sync_pir_to_irr: PID.ON is cleared first ...
SyncOn ==
  /\ Goto("sync", IF on THEN "move" ELSE ret)
  /\ on' = FALSE
  /\ UNCHANGED irr
  /\ IF on THEN UNCHANGED <<rvi, requests>> ELSE Synced(FALSE)
  /\ UNCHANGED <<ret, halted, asleep, exit, mode, apicv_active, pir, entry, irq_window, ipis,
                 sender, inhibitor>>

\* kvm_apic_update_irr has got an interrupt if the highest one is new.
GotInterrupt == Highest(irr \cup pir) \in pir \ irr

\* ... then kvm_apic_update_irr empties the PIR.
SyncPir ==
  /\ Goto("move", ret)
  /\ irr' = irr \cup pir /\ pir' = {}
  /\ Synced(GotInterrupt)
  /\ UNCHANGED <<ret, halted, asleep, exit, mode, apicv_active, on, entry, irq_window, ipis, sender,
                 inhibitor>>

ExitRequest == mode = "EXITING" \/ requests # {}

\* cancel_injection: the event is injected again at the next attempt.
CancelEntry ==
  /\ ExitRequest
  /\ Goto("check", "top")
  /\ mode' = "OUTSIDE"
  /\ requests' = IF entry = 0 THEN requests ELSE requests \cup {"EVENT"}
  /\ UNCHANGED <<ret, halted, asleep, exit, apicv_active, apic, ipis, sender, inhibitor>>

Commit ==
  /\ ~ExitRequest
  /\ Goto("check", "enter") \/ Goto("recheck", "enter")
  /\ UNCHANGED <<ret, halted, asleep, exit, mode, requests, apicv_active, apic, ipis, sender,
                 inhibitor>>

\* The entry delivers what the VM-entry field holds.
VmEnter ==
  /\ Goto("enter", "guest")
  /\ entry' = 0
  /\ UNCHANGED <<ret, halted, asleep, exit, mode, requests, apicv_active, pir, on, irr, rvi,
                 irq_window, ipis, sender, inhibitor>>

\* The CPU takes a posted-interrupt notification ...
Notified ==
  /\ pc = "guest" /\ notify /\ apicv_active
  /\ notify' = FALSE
  /\ on' = FALSE /\ pir' = {} /\ irr' = irr \cup pir /\ rvi' = Highest(irr \cup pir)
  /\ UNCHANGED <<loop, mode, requests, apicv_active, entry, irq_window, kick, ack, sender,
                 inhibitor>>

\* ... and delivers from the virtual APIC.
Deliver ==
  /\ pc = "guest" /\ apicv_active /\ rvi # 0
  /\ irr' = irr \ {rvi} /\ rvi' = Highest(irr \ {rvi})
  /\ UNCHANGED <<loop, mode, requests, apicv_active, pir, on, entry, irq_window, ipis, sender,
                 inhibitor>>

\* An exit that is handled without leaving the inner loop of vcpu_enter_guest.
FastExit ==
  /\ pc = "guest" /\ ~irq_window /\ SyncAt("recheck")
  /\ UNCHANGED <<halted, asleep, exit, mode, requests, apicv_active, apic, ipis, sender, inhibitor>>

LeaveFastpath ==
  /\ ExitRequest
  /\ Goto("recheck", "exited")
  /\ UNCHANGED <<ret, halted, asleep, exit, mode, requests, apicv_active, apic, ipis, sender,
                 inhibitor>>

\* Any other exit: with a window open the guest runs no instruction.
Exit ==
  /\ Goto("guest", "exited")
  /\ exit' \in {"other", IF irq_window THEN "window" ELSE "hlt"}
  /\ exit' = "hlt" => rvi = 0 \/ ~apicv_active
  /\ UNCHANGED <<ret, halted, asleep, mode, requests, apicv_active, apic, ipis, sender, inhibitor>>

LeaveGuestMode ==
  /\ Goto("exited", "handle")
  /\ mode' = "OUTSIDE"
  /\ UNCHANGED <<ret, halted, asleep, exit, requests, apicv_active, apic, ipis, sender, inhibitor>>

\* With interrupts on again: kvm_emulate_halt, or handle_interrupt_window.
Handle ==
  /\ Goto("handle", "top")
  /\ halted' = (exit = "hlt")
  /\ exit' = "other"
  /\ irq_window' = (irq_window /\ exit # "window")
  /\ requests' = IF exit = "window" THEN requests \cup {"EVENT"} ELSE requests
  /\ UNCHANGED <<ret, asleep, mode, apicv_active, pir, on, irr, rvi, entry, ipis, sender,
                 inhibitor>>

\* kvm_vcpu_block: the thread declares that it sleeps, then looks whether it may.
Block ==
  /\ pc = "block" /\ SyncAt("runnable")
  /\ asleep' = TRUE
  /\ UNCHANGED <<halted, exit, mode, requests, apicv_active, apic, ipis, sender, inhibitor>>

\* kvm_vcpu_has_events
Runnable ==
  /\ irr # {}
  /\ Goto("runnable", "top")
  /\ asleep' = FALSE /\ halted' = FALSE
  /\ UNCHANGED <<ret, exit, mode, requests, apicv_active, apic, ipis, sender, inhibitor>>

Sleep ==
  /\ irr = {}
  /\ Goto("runnable", "asleep")
  /\ UNCHANGED <<ret, halted, asleep, exit, mode, requests, apicv_active, apic, ipis, sender,
                 inhibitor>>

Wake ==
  /\ ~asleep
  /\ Goto("asleep", "block")
  /\ UNCHANGED <<ret, halted, asleep, exit, mode, requests, apicv_active, apic, ipis, sender,
                 inhibitor>>

\* Where the thread runs with interrupts disabled.
IrqsOff ==
  \/ pc \in {"check", "enter", "guest", "recheck", "exited"}
  \/ pc \in {"sync", "move"} /\ ret \in {"check", "recheck"}

\* Outside the guest the IPIs only have to be taken.
TakeIpis ==
  /\ ~IrqsOff /\ (notify \/ kick \/ ack)
  /\ notify' = FALSE /\ kick' = FALSE /\ ack' = FALSE
  /\ UNCHANGED <<loop, mode, requests, apicv_active, apic, sender, inhibitor>>

Sender(s) ==
  SetPir(s) \/ SetOn(s) \/ Trigger(s) \/ Notify(s) \/ SetIrr(s) \/ MakeRequest(s) \/ Kick(s)

Inhibitor == RequestUpdate \/ SendAck \/ Publish

Thread ==
  \/ Top \/ CheckUpdate \/ UpdateApicv \/ DisableApicv \/ CheckEvent \/ InjectIrq \/ SetMode
  \/ SyncOn \/ SyncPir \/ CancelEntry \/ Commit \/ VmEnter \/ LeaveFastpath \/ LeaveGuestMode
  \/ Handle \/ Block \/ Runnable \/ Sleep \/ Wake

Guest == Notified \/ Deliver \/ FastExit \/ Exit

Next ==
  \/ \E s \in Senders : Sender(s) \/ \E v \in Vectors : Send(s, v)
  \/ Inhibitor \/ \E r \in Reasons : Inhibit(r)
  \/ Thread \/ Guest \/ TakeIpis

\* An IPI, an open window: the guest cannot run on.
MustExit == kick \/ ack \/ irq_window \/ (notify /\ ~apicv_active)

\* Every thread runs, IPIs arrive, the CPU delivers what it has been told of, and other exits do
\* not keep an open window from being used.
Fairness ==
  /\ WF_vars(Thread) /\ WF_vars(Inhibitor) /\ WF_vars(TakeIpis)
  /\ \A s \in Senders : WF_vars(Sender(s))
  /\ SF_vars(Notified \/ Deliver)
  /\ SF_vars(MustExit /\ Exit /\ (irq_window => exit' = "window"))

Spec == Init /\ [][Next]_vars

FairSpec == Spec /\ Fairness

-----------------------------------------------------------------------------
(* Properties.                                                             *)

TypeOK ==
  /\ pc \in {"top", "update", "locked", "disabled", "event", "inject", "entering", "sync", "move",
             "check", "enter", "guest", "recheck", "exited", "handle", "block", "runnable", "asleep"}
  /\ ret \in {"inject", "check", "recheck", "runnable"}
  /\ mode \in {"OUTSIDE", "IN_GUEST", "EXITING"}
  /\ requests \subseteq {"APICV_UPDATE", "EVENT"}
  /\ exit \in {"hlt", "window", "other"}
  /\ {halted, asleep, apicv_active, on, irq_window, notify, kick, ack} \subseteq BOOLEAN
  /\ inhibits \subseteq Reasons /\ new \subseteq Reasons
  /\ pir \subseteq Vectors /\ irr \subseteq Vectors
  /\ rvi \in Vectors \cup {0} /\ entry \in Vectors \cup {0}
  /\ spc \in [Senders -> {"idle", "pir", "on", "trigger", "notify", "irr", "request", "kick"}]
  /\ vec \in [Senders -> Vectors \cup {0}]
  /\ ipc \in {"idle", "request", "ipi", "publish"}

\* The guest is entered with the APICv state that the VM's inhibits call for: the assertion
\* before vcpu_run (x86.c:11031), whatever the order of the update, the kick and the lock.
ApicvConsistent == pc \in {"enter", "guest"} => apicv_active = (inhibits = {})

\* A vCPU sleeps in vcpu_block with an interrupt posted or accepted only as long as the thread
\* that put it there has yet to wake it (vmx.c:4186-4190, "never blocks the vCPU if the vIRR is
\* not empty").
SleepIsSafe ==
  pc = "asleep" /\ asleep /\ pir \cup irr # {} =>
    \E s \in Senders : spc[s] \in {"on", "trigger", "request", "kick"}

\* Somebody is on his way to tell the guest's CPU.
Underway ==
  \/ notify \/ kick \/ ack
  \/ \E s \in Senders : spc[s] # "idle"

\* A guest runs on without knowing of its highest interrupt only while a notification, a kick or
\* a sender is under way, or a window is open: nothing that was posted or set before the mode
\* was IN_GUEST_MODE, or before APICv was switched, is forgotten (x86.c:10970-10972,
\* vmx.c:4265-4270).
GuestIsTold ==
  pc = "guest" /\ ~Underway =>
    /\ pir = {}
    /\ IF apicv_active THEN rvi = Highest(irr) ELSE irr # {} => irq_window

\* Once senders and inhibits come to rest, every interrupt that was posted or accepted is taken:
\* by the guest's CPU, through the VM-entry field, after a wake-up or a kick, and with APICv
\* switched on the way.  (Without the rest each entry can be cancelled, for ever.)
Quiet == ipc = "idle" /\ \A s \in Senders : spc[s] = "idle"

Taken == <>[]Quiet => []<>(pir \cup irr = {} /\ entry = 0)
=============================================================================
