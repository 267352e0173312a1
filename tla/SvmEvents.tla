------------------------------ MODULE SvmEvents ------------------------------
(***************************************************************************)
(* How svm.c injects events, recovers those a VM exit interrupts, and finds *)
(* out when a masked NMI, an interrupt or an SMI can be injected: by the   *)
(* IRET intercept and a single step over the IRET or the interrupt shadow, *)
(* by a dummy virtual interrupt, by the STGI intercept, or, with vNMI, by  *)
(* leaving the NMI to the CPU.                                             *)
(*                                                                         *)
(* The guest's code is a loop with one INT n; each handler is its IRET.  A *)
(* soft event stands for INT n, INT3 and INTO, a fault for any exception.  *)
(* Left out: nested guests, SEV-ES, AVIC, guest debugging and a guest that *)
(* single-steps itself, IRETs that fault, INIT.                            *)
(***************************************************************************)
EXTENDS Integers, Sequences

CONSTANTS
  Hosts,         \* of [hw, nrips, vgif, vnmi |-> BOOLEAN]: hw is the CPU's next RIP
  MaxFrames      \* bound of the run: interrupted contexts

VARIABLES
  host,
  pc,            \* "kvm", "ready" to enter, or "guest"
  cpu,           \* struct vcpu_svm, the VMCB and what x86.c has queued
  kick,          \* an IPI makes the guest exit
  queued,        \* nmi_queued
  here,          \* where the guest is, whatever KVM has made of its RIP
  frames,        \* what the guest's stack and SMRAM hold
  inNmi,         \* the guest has not completed the IRET of its NMI handler
  last,          \* history: the last delivery
  overtaken      \* history: an SMI came between the exit of an IRET and the IRET

vars == <<host, pc, cpu, kick, queued, here, frames, inNmi, last, overtaken>>

Absent == "none"
Handlers == {"nmi", "irq", "soft", "fault"}
Successor(r) == CASE r = "int" -> "next" [] r = "next" -> "main" [] OTHER -> r

Init ==
  /\ host \in Hosts /\ pc = "kvm" /\ kick = FALSE /\ queued = 0 /\ here = "main"
  /\ frames = <<>> /\ inNmi = FALSE /\ overtaken = FALSE
  /\ last = [ret |-> Absent, due |-> Absent, nested |-> FALSE]
  /\ cpu = [rip |-> "main", if |-> FALSE, tf |-> FALSE, shadow |-> FALSE, gif |-> TRUE,
            inj |-> Absent, info |-> Absent, nextRip |-> Absent, iret |-> FALSE, vintr |-> FALSE,
            stgi |-> ~host.vgif, vnmiPending |-> FALSE, vnmiBlocking |-> FALSE,
            queue |-> Absent, pending |-> 0, irq |-> FALSE, smi |-> FALSE, event |-> FALSE,
            smm |-> FALSE, insideNmi |-> FALSE, masked |-> FALSE, awaiting |-> FALSE,
            iretRip |-> Absent, step |-> FALSE, guestTf |-> FALSE,
            soft |-> [old |-> Absent, next |-> Absent]]

(***************************************************************************)
(* What is blocked, and the windows.                                       *)
(***************************************************************************)
NmiMask(s) == IF host.vnmi THEN s.vnmiBlocking ELSE s.masked
SetNmiMask(s, masked) == IF host.vnmi THEN [s EXCEPT !.vnmiBlocking = masked]
                         ELSE [s EXCEPT !.masked = masked, !.iret = masked]
NmiBlocked(s) == ~s.gif \/ NmiMask(s) \/ s.shadow
IrqBlocked(s) == ~s.gif \/ ~s.if \/ s.shadow
SmiBlocked(s) == ~s.gif \/ s.smm

\* svm_get_rflags: KVM's own single-step flag is hidden.
GuestTf(s) == s.tf /\ (s.step => s.guestTf)
DisableStep(s) == [s EXCEPT !.step = FALSE, !.tf = s.guestTf /\ s.tf]

EnableIrqWindow(s) == IF host.vgif \/ s.gif THEN [s EXCEPT !.vintr = TRUE] ELSE s
EnableNmiWindow(s) ==
  IF NmiMask(s) /\ ~s.awaiting THEN s
  ELSE IF ~s.gif THEN [s EXCEPT !.stgi = TRUE]
  ELSE [s EXCEPT !.step = TRUE, !.guestTf = GuestTf(s), !.tf = TRUE]
EnableSmiWindow(s) == IF s.gif THEN s ELSE [s EXCEPT !.stgi = TRUE]

SetGif(s, on) ==
  IF on THEN [s EXCEPT !.gif = TRUE, !.stgi = ~host.vgif, !.vintr = FALSE,
                       !.event = @ \/ s.smi \/ s.pending > 0 \/ s.irq]
  ELSE [s EXCEPT !.gif = FALSE, !.vintr = @ /\ host.vgif]

(***************************************************************************)
(* Injection.                                                              *)
(***************************************************************************)
\* svm_update_soft_interrupt_rip.
SoftRip(s) ==
  LET next == IF host.nrips /\ s.nextRip # Absent THEN s.nextRip ELSE Successor(s.rip)
  IN [s EXCEPT !.soft = [old |-> s.rip, next |-> next],
               !.rip = IF host.nrips THEN @ ELSE next,
               !.nextRip = IF host.hw THEN next ELSE @,
               !.shadow = @ /\ host.nrips]
InjectNmi(s) == IF host.vnmi THEN [s EXCEPT !.inj = "nmi"]
                ELSE [s EXCEPT !.inj = "nmi", !.masked = TRUE, !.iret = TRUE]
\* A soft event whose instruction cannot be skipped is dropped.
Inject(s, e, skips) ==
  CASE e = "nmi" -> InjectNmi(s)
    [] e = "soft" -> IF skips THEN [SoftRip(s) EXCEPT !.inj = "soft"] ELSE s
    [] OTHER -> [s EXCEPT !.inj = e]

ProcessNmi(s) ==
  LET limit == (IF NmiMask(s) \/ s.queue = "nmi" THEN 1 ELSE 2)
               - (IF s.vnmiPending THEN 1 ELSE 0)
      n == IF s.pending + queued < limit THEN s.pending + queued ELSE limit
      offered == host.vnmi /\ n > 0 /\ ~s.vnmiPending
      left == IF offered THEN n - 1 ELSE n
  IN [s EXCEPT !.pending = left, !.vnmiPending = @ \/ offered, !.event = @ \/ left > 0]

\* enter_smm and emulator_leave_smm.
EnterSmm(s) ==
  LET t == IF NmiMask(s) THEN s ELSE SetNmiMask(s, TRUE)
  IN [t EXCEPT !.smi = FALSE, !.smm = TRUE, !.insideNmi = NmiMask(s), !.rip = "smm",
               !.if = FALSE, !.tf = s.step, !.shadow = FALSE]
LeaveSmm(s) ==
  LET t == IF s.insideNmi THEN s ELSE SetNmiMask(s, FALSE)
      f == frames[Len(frames)]
  IN [t EXCEPT !.smm = FALSE, !.event = TRUE, !.rip = f.rip, !.if = f.if,
               !.tf = f.tf \/ s.step, !.shadow = f.shadow]

\* The steps of kvm_check_and_inject_events; one that finds no room for its event
\* ends them with an immediate exit.
Busy(t) == [t EXCEPT !.busy = TRUE]
SmiStep(t) ==
  IF ~t.s.smi THEN t ELSE IF ~t.can THEN Busy(t)
  ELSE IF SmiBlocked(t.s) THEN [t EXCEPT !.s = EnableSmiWindow(@)]
  ELSE [t EXCEPT !.s = EnterSmm(@), !.can = FALSE]
NmiStep(t) ==
  IF t.busy \/ t.s.pending = 0 THEN t ELSE IF ~t.can THEN Busy(t)
  ELSE LET blocked == NmiBlocked(t.s)
           u == IF blocked THEN t.s
                ELSE InjectNmi([t.s EXCEPT !.pending = @ - 1, !.queue = "nmi"])
       IN [t EXCEPT !.s = IF u.pending > 0 THEN EnableNmiWindow(u) ELSE u, !.can = blocked]
IrqStep(t) ==
  IF t.busy \/ ~t.s.irq THEN t ELSE IF ~t.can THEN Busy(t)
  ELSE [t EXCEPT !.s = IF IrqBlocked(@) THEN EnableIrqWindow(@)
                       ELSE [@ EXCEPT !.irq = FALSE, !.queue = "irq", !.inj = "irq"]]
CheckAndInject(s, skips) ==
  LET t == IrqStep(NmiStep(SmiStep(
             [s |-> Inject([s EXCEPT !.event = FALSE], s.queue, skips),
              can |-> s.queue = Absent, busy |-> FALSE])))
  IN [t EXCEPT !.s.event = t.busy]

\* svm_complete_interrupts.  Regression: the IRET counts as done when it exits.
ProgressedAtOnce(s) == s.awaiting
Progressed(s) == s.awaiting /\ s.rip # s.iretRip
CompleteSoft(s) ==
  IF s.soft.old = Absent THEN s
  ELSE IF host.nrips
       THEN IF s.info = "soft" /\ s.rip = s.soft.old THEN [s EXCEPT !.nextRip = s.soft.next] ELSE s
  ELSE IF s.info \in {"soft", "fault"} /\ s.rip = s.soft.next THEN [s EXCEPT !.rip = s.soft.old]
  ELSE s
CompleteInterrupts(s) ==
  LET t == CompleteSoft(s)
  IN [t EXCEPT !.awaiting = @ /\ ~Progressed(s), !.masked = @ /\ ~Progressed(s),
               !.event = @ \/ Progressed(s) \/ s.info # Absent,
               !.queue = s.info, !.info = Absent, !.soft = [old |-> Absent, next |-> Absent]]

(***************************************************************************)
(* KVM.                                                                    *)
(***************************************************************************)
\* Requests of other threads.
Arrive ==
  /\ Len(frames) < MaxFrames /\ cpu.pending + queued < 2
  /\ \/ queued' = queued + 1 /\ UNCHANGED cpu
     \/ ~cpu.irq /\ cpu' = [cpu EXCEPT !.irq = TRUE, !.event = TRUE] /\ UNCHANGED queued
     \/ ~cpu.smi /\ ~cpu.smm /\ cpu' = [cpu EXCEPT !.smi = TRUE, !.event = TRUE]
        /\ UNCHANGED queued
  /\ kick' = (pc # "kvm")
  /\ UNCHANGED <<host, pc, here, frames, inNmi, last, overtaken>>

\* vcpu_enter_guest up to the last look at requests.
Prepare ==
  /\ pc = "kvm" /\ pc' = "ready" /\ queued' = 0
  /\ LET s == IF queued > 0 THEN ProcessNmi(cpu) ELSE cpu
     IN \E skips \in IF s.queue = "soft" THEN BOOLEAN ELSE {TRUE} :
          LET t == IF s.event THEN CheckAndInject(s, skips) ELSE [s |-> s, busy |-> FALSE]
              smi == t.s.smm /\ ~cpu.smm
          IN /\ cpu' = t.s /\ kick' = t.busy
             /\ frames' = IF smi THEN Append(frames, [rip |-> cpu.rip, if |-> cpu.if,
                                                      tf |-> GuestTf(cpu), shadow |-> cpu.shadow])
                          ELSE frames
             /\ here' = IF smi THEN "smm" ELSE here
             /\ overtaken' = (overtaken \/ (smi /\ cpu.awaiting))
  /\ UNCHANGED <<host, inNmi, last>>

\* svm_cancel_injection.
Cancel ==
  /\ pc = "ready" /\ pc' = "kvm" /\ kick' = FALSE
  /\ cpu' = [CompleteInterrupts([cpu EXCEPT !.info = cpu.inj, !.inj = Absent])
             EXCEPT !.event = @ \/ kick]
  /\ UNCHANGED <<host, queued, here, frames, inNmi, last, overtaken>>

\* svm_vcpu_run: no single step through an injection.
Run ==
  /\ pc = "ready" /\ pc' = "guest"
  /\ LET stop == cpu.step /\ cpu.inj # Absent
     IN cpu' = (IF stop THEN DisableStep(cpu) ELSE cpu) /\ kick' = (kick \/ stop)
  /\ UNCHANGED <<host, queued, here, frames, inNmi, last, overtaken>>

\* The exit handlers.
Handle(reason, s) ==
  CASE reason = "iret" -> [s EXCEPT !.awaiting = TRUE, !.iret = FALSE, !.iretRip = s.rip,
                                    !.event = TRUE]
    [] reason = "vintr" -> [s EXCEPT !.event = TRUE, !.vintr = FALSE]
    [] reason \in {"stgi", "clgi"} -> SetGif([s EXCEPT !.shadow = FALSE], reason = "stgi")
    [] reason = "db" -> IF s.step THEN [DisableStep(s) EXCEPT !.event = TRUE]
                        ELSE [s EXCEPT !.queue = "fault", !.event = TRUE]
    [] reason = "rsm" -> LeaveSmm(s)
    [] OTHER -> s
\* A VM exit, with the event it interrupts.
Exit(reason, s, info) ==
  /\ pc' = "kvm" /\ kick' = FALSE
  /\ cpu' = Handle(reason, CompleteInterrupts([s EXCEPT !.info = info, !.inj = Absent,
                     !.nextRip = IF reason \in {"iret", "stgi", "clgi", "rsm"} THEN "after" ELSE Absent]))

(***************************************************************************)
(* The CPU.                                                                *)
(***************************************************************************)
\* Event e is delivered: the CPU pushes ret.
Deliver(s, e) ==
  LET ret == IF e # "soft" THEN s.rip ELSE IF host.hw THEN s.nextRip ELSE s.rip
  IN /\ cpu' = [s EXCEPT !.inj = Absent, !.rip = e, !.if = FALSE, !.tf = FALSE, !.shadow = FALSE,
                         !.vnmiBlocking = @ \/ (host.vnmi /\ e = "nmi")]
     /\ frames' = Append(frames, [rip |-> ret, if |-> s.if, tf |-> s.tf, shadow |-> FALSE])
     /\ here' = e /\ inNmi' = (inNmi \/ e = "nmi")
     /\ last' = [ret |-> ret, due |-> IF e = "soft" THEN Successor(here) ELSE here,
                 nested |-> e = "nmi" /\ inNmi]

\* The event KVM injects is delivered, or delivering it faults and exits; a soft
\* event may also raise an exception whose delivery exits.
Injected ==
  /\ pc = "guest" /\ cpu.inj # Absent
  /\ \/ Deliver(cpu, cpu.inj) /\ UNCHANGED <<pc, kick>>
     \/ \E info \in {cpu.inj} \cup (IF cpu.inj = "soft" THEN {"fault"} ELSE {}) :
          Exit("npf", cpu, info) /\ UNCHANGED <<here, frames, inNmi, last>>
  /\ UNCHANGED <<host, queued, overtaken>>

VnmiDue == cpu.vnmiPending /\ ~cpu.vnmiBlocking /\ cpu.gif /\ ~cpu.shadow
Vnmi ==
  /\ pc = "guest" /\ cpu.inj = Absent /\ ~kick /\ VnmiDue
  /\ Deliver([cpu EXCEPT !.vnmiPending = FALSE], "nmi")
  /\ UNCHANGED <<host, pc, kick, queued, overtaken>>

\* An exit between two instructions: an interrupt of the host, or the window.
VintrDue == cpu.vintr /\ ~IrqBlocked(cpu)
Leave ==
  /\ pc = "guest" /\ cpu.inj = Absent
  /\ \/ Exit("intr", cpu, Absent)
     \/ VintrDue /\ Exit("vintr", cpu, Absent)
  /\ UNCHANGED <<host, queued, here, frames, inNmi, last, overtaken>>

\* An instruction completes and leaves s; the single-step trap follows it.
Complete(s) ==
  /\ here' = s.rip
  /\ IF cpu.tf THEN Exit("db", s, Absent) ELSE cpu' = s /\ UNCHANGED <<pc, kick>>
Step == [cpu EXCEPT !.rip = Successor(cpu.rip), !.shadow = FALSE]
\* One that is intercepted does not.
Intercept(reason) == Exit(reason, cpu, Absent) /\ UNCHANGED here

Straight ==
  /\ \/ here = "main" /\ \/ Complete([cpu EXCEPT !.rip = "int", !.shadow = FALSE])
                         \/ Complete([cpu EXCEPT !.if = TRUE, !.shadow = ~cpu.if])
                         \/ Complete([Step EXCEPT !.if = FALSE])
                         \/ IF cpu.stgi THEN Intercept("stgi")
                            ELSE Complete([Step EXCEPT !.gif = TRUE])
                         \/ IF ~host.vgif THEN Intercept("clgi")
                            ELSE Complete([Step EXCEPT !.gif = FALSE])
     \/ here = "next" /\ Complete(Step)
     \/ here = "smm" /\ Exit("rsm", cpu, Absent) /\ here' = frames[Len(frames)].rip
  /\ frames' = IF here = "smm" THEN SubSeq(frames, 1, Len(frames) - 1) ELSE frames
  /\ UNCHANGED <<inNmi, last>>
\* INT n, or a fault in its place: the CPU takes no single-step trap.
SoftInt ==
  /\ here = "int" /\ Len(frames) < MaxFrames
  /\ \/ Deliver([cpu EXCEPT !.nextRip = "next", !.rip = IF host.hw THEN @ ELSE "next"], "soft")
        /\ UNCHANGED <<pc, kick>>
     \/ Deliver(cpu, "fault") /\ UNCHANGED <<pc, kick>>
     \/ \E info \in {"soft", "fault"} :
          Exit("npf", cpu, info) /\ UNCHANGED <<here, frames, inNmi, last>>
Iret ==
  /\ here \in Handlers
  /\ \/ cpu.iret /\ Intercept("iret") /\ UNCHANGED <<frames, inNmi>>
     \/ /\ ~cpu.iret
        /\ LET f == frames[Len(frames)]
           IN Complete([cpu EXCEPT !.rip = f.rip, !.if = f.if, !.tf = f.tf, !.shadow = FALSE,
                                   !.vnmiBlocking = FALSE])
        /\ frames' = SubSeq(frames, 1, Len(frames) - 1) /\ inNmi' = FALSE
  /\ UNCHANGED last

Instruction ==
  /\ pc = "guest" /\ cpu.inj = Absent /\ ~kick /\ ~VnmiDue /\ ~VintrDue
  /\ Straight \/ SoftInt \/ Iret
  /\ UNCHANGED <<host, queued, overtaken>>

Next == Arrive \/ Prepare \/ Cancel \/ Run \/ Injected \/ Vnmi \/ Leave \/ Instruction

Spec == Init /\ [][Next]_vars

(***************************************************************************)
(* Properties.                                                             *)
(***************************************************************************)
\* A handler returns to where the guest was, behind the INT n for a soft event,
\* however often the delivery was interrupted.
ReturnsRight == last.ret = last.due
\* No NMI is delivered before the handler of the last one has completed its IRET.
AfterIret == last.nested => overtaken
\* While the guest runs with an NMI or interrupt it cannot take yet, an exit is
\* due that makes KVM look again.
NmiArmed(s, f) == \/ s.tf \/ \E i \in DOMAIN f : f[i].tf
                  \/ ~s.gif /\ s.stgi
                  \/ NmiMask(s) /\ (s.iret \/ s.smm)
IrqArmed(s) == s.vintr \/ (~s.gif /\ s.stgi)
WindowsOpen ==
  pc = "guest" /\ ~kick =>
    (cpu.pending > 0 => NmiArmed(cpu, frames)) /\ (cpu.irq => IrqArmed(cpu))

EventsKept == ReturnsRight /\ AfterIret /\ WindowsOpen

(***************************************************************************)
(* The inductive invariant.  Its parts are of a cpu s, the guest's place h *)
(* and stack f, in KVM or not.                                             *)
(***************************************************************************)
\* svm_hardware_setup: nrips is used where the CPU has it.
Constants == \A h \in Hosts : h.nrips => h.hw

Code == {"main", "int", "next"}
Fields == {"rip", "if", "tf", "shadow", "gif", "inj", "info", "nextRip", "iret", "vintr",
           "stgi", "vnmiPending", "vnmiBlocking", "queue", "pending", "irq", "smi", "event",
           "smm", "insideNmi", "masked", "awaiting", "iretRip", "step", "guestTf", "soft"}
NoSoft == [old |-> Absent, next |-> Absent]
AtInt == [old |-> "int", next |-> "next"]

Held == Handlers \cup {Absent}
TypeOk(s) ==
  s = [x \in Fields |-> s[x]] /\ s.pending \in Nat /\ s.inj \in Held /\ s.queue \in Held
\* The stack ends in the guest's code, and only that code takes interrupts.
StackOk(s, h, f) ==
  /\ f \in Seq({f[i] : i \in DOMAIN f})
  /\ f # <<>> => f[1].rip \in Code
  /\ h \notin Code => f # <<>> /\ ~s.if
  /\ \A i \in DOMAIN f : f[i].rip \notin Code => ~f[i].if

\* KVM's RIP is where the guest is, but for a soft event under way.
RipOk(s, h, kvm) ==
  /\ s.info = Absent /\ s.soft \in {NoSoft, AtInt}
  /\ s.inj # "soft" => s.rip = h
  /\ s.soft # NoSoft => s.inj \in {"soft", Absent}
  /\ s.inj = "soft" =>
       /\ h = "int" /\ s.soft = AtInt /\ (host.hw => s.nextRip = "next")
       /\ s.rip = IF host.nrips THEN "int" ELSE "next"
  /\ kvm => /\ s.inj = Absent /\ s.soft = NoSoft
            /\ s.queue = "soft" => h = "int" /\ (host.nrips => s.nextRip \in {Absent, "next"})

\* The NMI mask and the IRET that ends it.
MaskOk(s, h, o, kvm) ==
  /\ s.awaiting => s.masked /\ s.iretRip \in Handlers /\ (kvm => h = s.iretRip)
  /\ s.inj = "nmi" => ~s.awaiting /\ (s.masked \/ host.vnmi)
  /\ kvm /\ s.queue = "nmi" => ~s.awaiting
  /\ host.vnmi => ~s.iret /\ ~s.awaiting /\ ~o
  /\ ~host.vnmi => /\ ~s.vnmiPending /\ (s.masked => s.iret \/ s.awaiting)
                   /\ s.iret => s.masked /\ ~s.awaiting

\* While the guest is in its NMI handler (n), or in SMM above it.
HandlerOk(s, h, f, n, o, kvm) ==
  ~o /\ n =>
    /\ NmiMask(s) /\ s.inj = Absent /\ (kvm => s.queue = Absent)
    /\ h = "nmi" \/ (h = "smm" /\ s.smm /\ s.insideNmi /\ f[Len(f)].rip = "nmi")
    /\ s.awaiting => h = s.iretRip

\* With vNMI, KVM's second NMI waits for the handler only behind a single step
\* that was pushed on the guest's stack, or in SMM.
StepPushed(f, depth) == \E i \in 1..depth : f[i].tf
VnmiOk(s, h, f, n, kvm) ==
  host.vnmi =>
    /\ s.pending <= 1
    /\ s.inj = "nmi" \/ (kvm /\ s.queue = "nmi") => s.pending = 0
    /\ s.smm => s.vnmiBlocking /\ s.inj = Absent /\ (kvm => s.queue = Absent)
    /\ h = "smm" <=> s.smm
    /\ \A i \in DOMAIN f : f[i].rip # "smm"
    /\ s.vnmiBlocking /\ s.pending > 0 /\ (s.smm => s.insideNmi) =>
         n /\ StepPushed(f, IF s.smm THEN Len(f) - 1 ELSE Len(f))

Ok(s, h, f, n, o, kvm) ==
  /\ TypeOk(s) /\ StackOk(s, h, f) /\ RipOk(s, h, kvm) /\ MaskOk(s, h, o, kvm)
  /\ HandlerOk(s, h, f, n, o, kvm) /\ VnmiOk(s, h, f, n, kvm)

\* An event that waits is armed, or there is a request.
ArmedOk(s, f) ==
  /\ host.vgif \/ s.stgi
  /\ s.pending > 0 => NmiArmed(s, f) \/ s.event
  /\ s.irq => IrqArmed(s) \/ s.event
\* svm_vcpu_run drops the single step of an entry that injects.
EntryOk(s) == s.inj # Absent /\ s.pending > 0 => s.event \/ (NmiMask(s) /\ (s.iret \/ s.smm))

EventsInv ==
  /\ host \in Hosts /\ pc \in {"kvm", "ready", "guest"} /\ queued \in Nat
  /\ overtaken \in BOOLEAN
  /\ IF pc = "kvm" THEN Ok(cpu, here, frames, inNmi, overtaken, TRUE)
                   ELSE Ok(cpu, here, frames, inNmi, overtaken, FALSE)
  /\ ArmedOk(cpu, frames)
  /\ cpu.event /\ pc # "kvm" => kick
  /\ pc = "ready" => EntryOk(cpu)
  /\ ReturnsRight /\ AfterIret
=============================================================================
