----------------------------- MODULE VendorInit -----------------------------
(***************************************************************************)
(* Loading and unloading of a vendor module (kvm-intel or kvm-amd): what   *)
(* vmx_init or svm_init, __kvm_x86_vendor_init and the vendor's hardware   *)
(* setup acquire step by step, what each failing step undoes, and what     *)
(* runs beside them: the clock's notifier with its deferred work, CPUs     *)
(* that enter and leave virtualization with the first and the last VM, and *)
(* a write of vmentry_l1d_flush in sysfs.                                  *)
(*                                                                         *)
(* Left out: a second vendor module loaded at the same time (a CPU         *)
(* supports one), Hyper-V, and what the loads leave in kvm_caps.           *)
(***************************************************************************)
EXTENDS Naturals, Sequences

CONSTANTS Cpus

VARIABLES
  host,          \* [vmx, nested, constantTsc |-> BOOLEAN]
  pc,            \* the module is "out", "loading", "open" or "leaving"
  plan,          \* the steps still to do or undo
  held,          \* what is allocated or registered
  areas,         \* CPUs with a VMXON region, or an SVM save area
  nrUret,        \* kvm_nr_uret_msrs
  stray,         \* history: hardware_setup failed and set the wakeup handler
  writer,        \* of vmentry_l1d_flush, between its check and its effect
  late,          \* history: that write took effect after the flush was cleaned up
  vm,            \* a VM exists
  enabling, on,  \* CPUs to be enabled for it, and enabled
  hasMaster,     \* kvm_guest_has_master_clock
  irqWork, work  \* pvclock_irq_work and pvclock_gtod_work

vars == <<host, pc, plan, held, areas, nrUret, stray, writer, late, vm, enabling, on,
          hasMaster, irqWork, work>>
loadVars == <<host, pc, plan, held, areas, nrUret, stray, late>>
clockVars == <<hasMaster, irqWork, work>>
vmVars == <<vm, enabling, on>>

Init ==
  /\ host \in [vmx : BOOLEAN, nested : BOOLEAN, constantTsc : BOOLEAN]
  /\ pc = "out" /\ plan = <<>> /\ held = {} /\ areas = {} /\ nrUret = 0
  /\ stray = FALSE /\ writer = FALSE /\ late = FALSE
  /\ vm = FALSE /\ enabling = {} /\ on = {}
  /\ hasMaster = FALSE /\ irqWork = "idle" /\ work = "idle"

(***************************************************************************)
(* What is done and undone, in the order of the code.                      *)
(***************************************************************************)
If(c, s) == IF c THEN s ELSE <<>>

HardwareSetup ==
  IF host.vmx
  THEN <<"checks">> \o If(host.nested, <<"nested">>) \o <<"areas", "handler">>
  ELSE <<"checks", "iopm", "sev", "areas">>
VendorInit ==
  <<"cache", "percpu", "mmu">> \o HardwareSetup \o <<"ops", "compat">>
  \o If(~host.constantTsc, <<"cpufreq">>) \o <<"gtod", "perf">>
ModuleInit == VendorInit \o If(host.vmx, <<"l1d">>) \o <<"emergency", "dev">>

\* Regression: what the setup of nested virtualization allocated stays.
UnsetupKeepsNested == IF host.vmx THEN <<"handler", "areas">> ELSE <<"sev", "areas", "iopm">>

\* hardware_unsetup.
Unsetup == IF host.vmx THEN <<"handler">> \o If(host.nested, <<"nested">>) \o <<"areas">>
           ELSE <<"sev", "areas", "iopm">>
Common == <<"mmu", "percpu", "cache">>
\* kvm_x86_vendor_exit.
VendorExit ==
  <<"perf">> \o If(~host.constantTsc, <<"cpufreq">>) \o <<"gtod", "irq work", "work">>
  \o Unsetup \o Common \o <<"ops">>
ModuleExit == <<"dev">> \o VendorExit \o <<"emergency">> \o If(host.vmx, <<"l1d">>)

\* The steps that may fail, and what they undo.
Unwound(step) ==
  CASE step = "cache" -> <<>>
    [] step = "percpu" -> <<"cache">>
    [] step = "mmu" -> <<"percpu", "cache">>
    [] step \in {"checks", "nested", "iopm"} -> Common
    [] step = "areas" ->
         IF host.vmx THEN <<"areas">> \o If(host.nested, <<"nested">>) \o <<"set handler">> \o Common
         ELSE Unsetup \o Common
    [] step = "compat" -> <<"ops">> \o Unsetup \o Common
    [] step = "l1d" -> VendorExit
    [] step = "dev" -> IF host.vmx THEN <<"emergency", "l1d">> \o VendorExit
                       ELSE VendorExit \o <<"emergency">>
MayFail == {"cache", "percpu", "mmu", "checks", "nested", "iopm", "areas", "compat", "l1d", "dev"}

(***************************************************************************)
(* Loading and unloading.                                                  *)
(***************************************************************************)
\* The module's own variables start afresh, once sysfs has let its last writer go.
Load ==
  /\ pc = "out" /\ ~writer /\ pc' = "loading" /\ plan' = ModuleInit
  /\ held' = held \ {"flush", "l1d pages"} /\ late' = FALSE
  /\ UNCHANGED <<host, areas, nrUret, stray, writer, vmVars, clockVars>>

\* Without an L1D flush to do by hand, "l1d" allocates nothing; it is ready either way.
Gains(step) ==
  CASE step \in {"checks", "compat"} -> {{}}
    [] step = "l1d" -> {{"flush"}, {"flush", "l1d pages"}}
    [] OTHER -> {{step}}
Done ==
  /\ pc = "loading"
  /\ LET step == Head(plan)
     IN IF step = "areas" /\ areas # Cpus
        THEN /\ \E c \in Cpus \ areas : areas' = areas \cup {c}
             /\ UNCHANGED <<pc, plan, held, nrUret>>
        ELSE /\ \E new \in Gains(step) : held' = held \cup new
             /\ nrUret' = CASE step = "percpu" -> 0
                            [] step = "checks" -> nrUret + 1
                            [] OTHER -> nrUret
             /\ plan' = Tail(plan) /\ pc' = IF plan' = <<>> THEN "open" ELSE "loading"
             /\ UNCHANGED areas
  /\ UNCHANGED <<host, stray, writer, late, vmVars, clockVars>>
Failed ==
  /\ pc = "loading"
  /\ LET step == Head(plan)
     IN /\ step \in MayFail /\ (step = "areas" => areas # Cpus)
        /\ plan' = Unwound(step)
        /\ pc' = IF plan' = <<>> THEN "out" ELSE "leaving"
  /\ UNCHANGED <<host, held, areas, nrUret, stray, writer, late, vmVars, clockVars>>

\* The module is in use while a VM is.
Unload ==
  /\ pc = "open" /\ ~vm /\ pc' = "leaving" /\ plan' = ModuleExit
  /\ UNCHANGED <<host, held, areas, nrUret, stray, writer, late, vmVars, clockVars>>
Undone ==
  /\ pc = "leaving"
  /\ LET step == Head(plan)
     IN /\ (step = "irq work" => irqWork = "idle") /\ (step = "work" => work # "running")
        /\ held' = CASE step = "set handler" -> held \cup {"handler"}
                     [] step = "l1d" -> held \ {"flush", "l1d pages"}
                     [] OTHER -> held \ {step}
        /\ stray' = (step = "set handler" \/ (stray /\ step # "handler"))
        /\ areas' = IF step = "areas" THEN {} ELSE areas
        /\ work' = IF step = "work" THEN "idle" ELSE work
  /\ plan' = Tail(plan) /\ pc' = IF plan' = <<>> THEN "out" ELSE "leaving"
  /\ UNCHANGED <<host, nrUret, writer, late, vmVars, hasMaster, irqWork>>

(***************************************************************************)
(* What runs beside them.                                                  *)
(***************************************************************************)
\* vmentry_l1d_flush_set: before vmx_init has set the flush up it only stores the value.
CheckFlush ==
  /\ host.vmx /\ pc # "out" /\ "flush" \in held /\ ~writer /\ writer' = TRUE
  /\ UNCHANGED <<loadVars, vmVars, clockVars>>
SetFlush ==
  /\ writer /\ writer' = FALSE
  /\ \E pages \in SUBSET {"l1d pages"} : held' = held \cup {"flush"} \cup pages
  /\ late' = (late \/ "flush" \notin held)
  /\ UNCHANGED <<host, pc, plan, areas, nrUret, stray, vmVars, clockVars>>

\* The first VM enables every CPU or none, the last one leaves them all disabled.
CreateVm ==
  /\ pc = "open" /\ ~vm /\ vm' = TRUE /\ enabling' = Cpus
  /\ UNCHANGED <<loadVars, writer, on, clockVars>>
HardwareEnable ==
  /\ \E c \in enabling :
       \/ on' = on \cup {c} /\ enabling' = enabling \ {c} /\ UNCHANGED vm
       \/ on' = {} /\ enabling' = {} /\ vm' = FALSE
  /\ UNCHANGED <<loadVars, writer, clockVars>>
DestroyVm ==
  /\ vm /\ enabling = {} /\ vm' = FALSE /\ on' = {}
  /\ UNCHANGED <<loadVars, writer, enabling, clockVars>>

UseMasterClock ==
  /\ vm /\ enabling = {} /\ hasMaster' = TRUE
  /\ UNCHANGED <<loadVars, writer, vmVars, irqWork, work>>
\* The host's clock no longer runs on the TSC.
GtodNotify ==
  /\ "gtod" \in held /\ hasMaster /\ irqWork' = "queued"
  /\ UNCHANGED <<loadVars, writer, vmVars, hasMaster, work>>
IrqWork ==
  /\ irqWork = "queued" /\ irqWork' = "idle"
  /\ work' = IF work = "running" THEN work ELSE "queued"
  /\ UNCHANGED <<loadVars, writer, vmVars, hasMaster>>
GtodWork ==
  /\ \/ work = "queued" /\ work' = "running" /\ UNCHANGED hasMaster
     \/ work = "running" /\ work' = "idle" /\ hasMaster' = FALSE
  /\ UNCHANGED <<loadVars, writer, vmVars, irqWork>>

Next == Load \/ Done \/ Failed \/ Unload \/ Undone \/ CheckFlush \/ SetFlush \/ CreateVm
        \/ HardwareEnable \/ DestroyVm \/ UseMasterClock \/ GtodNotify \/ IrqWork \/ GtodWork

Spec == Init /\ [][Next]_vars

(***************************************************************************)
(* Properties.                                                             *)
(***************************************************************************)
\* With the module out nothing it registered or allocated is left, and nothing it queued
\* can still run, whichever step failed.
OutLeavesNothing ==
  pc = "out" =>
    /\ held \subseteq (IF stray THEN {"handler"} ELSE {}) \cup
                      (IF late THEN {"flush", "l1d pages"} ELSE {})
    /\ areas = {} /\ irqWork = "idle" /\ work = "idle"
\* With /dev/kvm there everything is set up, once.
OpenHasAll ==
  pc = "open" =>
    /\ {s \in {ModuleInit[i] : i \in DOMAIN ModuleInit} :
          s \notin {"checks", "compat", "areas", "l1d"}} \subseteq held
    /\ (host.vmx => "flush" \in held) /\ areas = Cpus /\ nrUret = 1
\* A CPU with virtualization enabled has its region, and a crash can disable it.
OnIsCovered == on # {} => on \subseteq areas /\ "emergency" \in held

NothingLeft == OutLeavesNothing /\ OpenHasAll /\ OnIsCovered

-----------------------------------------------------------------------------
(***************************************************************************)
(* The inductive invariant behind NothingLeft.  While the module loads,    *)
(* what is held is what the steps before the rest of the plan acquire      *)
(* (LoadInv); while it leaves, the rest of the plan undoes what is held,   *)
(* and waits for deferred work only when nothing can queue it any more     *)
(* (LeaveInv).                                                             *)
(***************************************************************************)
Steps(p) == {p[i] : i \in DOMAIN p}

\* The order in which either vendor's steps come.
Position ==
  [cache |-> 1, percpu |-> 2, mmu |-> 3, checks |-> 4, nested |-> 5, iopm |-> 6, sev |-> 7,
   areas |-> 8, handler |-> 9, ops |-> 10, compat |-> 11, cpufreq |-> 12, gtod |-> 13,
   perf |-> 14, l1d |-> 15, emergency |-> 16, dev |-> 17]
AllSteps == DOMAIN Position
Earlier == {r \in AllSteps \X AllSteps : Position[r[1]] < Position[r[2]]}

UndoSteps == AllSteps \cup {"irq work", "work", "set handler"}
\* The notifier goes before the work it queues is waited for.
NotTooEarly ==
  {r \in UndoSteps \X UndoSteps : /\ r[1] = "irq work" => r[2] # "gtod"
                                  /\ r[1] = "work" => r[2] \notin {"irq work", "gtod"}}

\* The steps of p come in the order r.
InOrder(p, r) == \A i, j \in DOMAIN p : i < j => <<p[i], p[j]>> \in r

FlushHeld == {"flush", "l1d pages"}
\* What an unsuccessful or late step may leave.
Remains == (IF stray THEN {"handler"} ELSE {}) \cup (IF late THEN FlushHeld ELSE {})

TypeInv ==
  /\ host \in [vmx : BOOLEAN, nested : BOOLEAN, constantTsc : BOOLEAN]
  /\ pc \in {"out", "loading", "open", "leaving"}
  /\ plan \in Seq(UndoSteps) /\ (plan = <<>> <=> pc \in {"out", "open"})
  /\ held \subseteq (AllSteps \ {"checks", "compat", "l1d"}) \cup FlushHeld
  /\ areas \subseteq Cpus /\ enabling \subseteq Cpus /\ on \subseteq Cpus
  /\ stray \in BOOLEAN /\ late \in BOOLEAN /\ vm \in BOOLEAN
  /\ irqWork \in {"idle", "queued"} /\ work \in {"idle", "queued", "running"}

\* Virtualization is on only for a VM, and with one the module stays.
VmInv == /\ vm => pc = "open"
         /\ ~vm => on = {} /\ enabling = {}
         /\ writer \/ stray => host.vmx

Finished == Steps(ModuleInit) \ Steps(plan)
LoadInv ==
  pc \in {"loading", "open"} =>
    /\ Steps(plan) \subseteq Steps(ModuleInit) /\ InOrder(plan, Earlier)
    /\ Finished \X Steps(plan) \subseteq Earlier
    /\ Finished \ {"checks", "compat", "l1d"} \subseteq held
    /\ "l1d" \in Finished => "flush" \in held
    /\ held \subseteq (Finished \ {"checks", "compat", "l1d"})
                      \cup (IF stray THEN {"handler"} ELSE {})
                      \cup (IF "l1d" \in Finished THEN FlushHeld ELSE {})
    /\ writer => "flush" \in held
    /\ ~late
    /\ "areas" \in Finished => areas = Cpus
    /\ areas # {} => "areas" \in Finished \/ Head(plan) = "areas"
    /\ "percpu" \in Finished => nrUret = IF "checks" \in Finished THEN 1 ELSE 0
    /\ irqWork # "idle" \/ work # "idle" => "gtod" \in held
LeaveInv ==
  pc \in {"out", "leaving"} =>
    /\ InOrder(plan, NotTooEarly)
    /\ held \subseteq Steps(plan) \cup Remains
                      \cup (IF "l1d" \in Steps(plan) THEN FlushHeld ELSE {})
    /\ areas # {} => "areas" \in Steps(plan)
    /\ "set handler" \in Steps(plan) => host.vmx
    /\ "gtod" \in Steps(plan) => "irq work" \in Steps(plan)
    /\ "gtod" \in Steps(plan) \/ irqWork # "idle" \/ work # "idle" => "work" \in Steps(plan)
    /\ irqWork # "idle" => "irq work" \in Steps(plan)

VendorInv == TypeInv /\ VmInv /\ LoadInv /\ LeaveInv
=============================================================================
