------------------------------ MODULE MsrFilter ------------------------------
(***************************************************************************)
(* The userspace MSR filter of a VM (x86.c, vmx.c): KVM_X86_SET_MSR_FILTER *)
(* publishes a new filter, waits until nobody can still read the old one,  *)
(* frees it and asks every vCPU to redo its MSR bitmap.  vCPUs read the    *)
(* filter one MSR at a time, in the run loop and in ioctls, and run the    *)
(* guest with the bitmap they made of it.                                  *)
(*                                                                         *)
(* A right is an MSR with a direction, read or write.  A filter is the set *)
(* of rights it denies.                                                    *)
(***************************************************************************)
EXTENDS Integers, FiniteSets

CONSTANTS
  Vcpus,
  Late,          \* the vCPUs that are created while the ioctl may run
  Setters,       \* threads that call KVM_X86_SET_MSR_FILTER
  Rights,        \* rights in vmx_possible_passthrough_msrs
  Always,        \* those vCPU creation passes through
  Filters,       \* memory for filters
  NoFilter       \* NULL

ASSUME MsrAssumption ==
  Late \subseteq Vcpus /\ Always \subseteq Rights /\ NoFilter \notin Filters

VARIABLES
  msr_filter,    \* kvm->arch.msr_filter
  denied,        \* what each filter denies
  allocated,     \* filters that are allocated
  spc, new, old, \* each setter's place and locals
  waiting,       \* read sections its synchronize_srcu still waits for
  todo, requested, kicked,   \* its vCPUs to request, to kick, to send the IPI
  pc, mode, requests, ipi,   \* each vCPU's place, mode, KVM_REQ_MSR_FILTER_CHANGED, IPI
  online,        \* the vCPUs a request to all reaches
  outer, inner,  \* SRCU read sections of the run loop and of kvm_msr_allowed
  reader,        \* kvm_msr_allowed's msr_filter
  jobs,          \* rights vmx_disable_intercept_for_msr still has to decide
  shadow,        \* rights not in shadow_msr_intercept: passed through if the filter lets them
  bitmap         \* rights the MSR bitmap does not intercept

filter == <<msr_filter, denied, allocated>>
setter == <<spc, new, old, waiting, todo, requested, kicked>>
srcu == <<outer, inner, reader>>
sched == <<pc, mode, requests, ipi, online>>
intercepts == <<jobs, shadow, bitmap>>
vars == <<filter, setter, srcu, sched, intercepts>>

Pointer == Filters \cup {NoFilter}
Places == {"new", "user", "run", "ready", "unlock", "check", "cancelled", "guest", "relock", "handle"}

Init ==
  /\ msr_filter = NoFilter /\ denied = [f \in Filters |-> {}] /\ allocated = {}
  /\ spc = [s \in Setters |-> "idle"]
  /\ new = [s \in Setters |-> NoFilter] /\ old = [s \in Setters |-> NoFilter]
  /\ waiting = [s \in Setters |-> {}] /\ todo = [s \in Setters |-> {}]
  /\ requested = [s \in Setters |-> {}] /\ kicked = [s \in Setters |-> {}]
  /\ pc = [v \in Vcpus |-> "new"]
  /\ mode = [v \in Vcpus |-> "OUTSIDE"]
  /\ requests = [v \in Vcpus |-> FALSE] /\ ipi = [v \in Vcpus |-> FALSE]
  /\ online = {}
  /\ outer = [v \in Vcpus |-> FALSE] /\ inner = [v \in Vcpus |-> "none"]
  /\ reader = [v \in Vcpus |-> NoFilter]
  /\ jobs = [v \in Vcpus |-> Always]
  /\ shadow = [v \in Vcpus |-> Always]
  /\ bitmap = [v \in Vcpus |-> {}]

-----------------------------------------------------------------------------
(* KVM_X86_SET_MSR_FILTER.                                                 *)

GotoS(s, from, to) == spc[s] = from /\ spc' = [spc EXCEPT ![s] = to]

\* kvm_alloc_msr_filter and kvm_add_msr_filter for each range.  Userspace has created the vCPUs
\* that are not late.
Alloc(s) ==
  /\ GotoS(s, "idle", "fill")
  /\ Vcpus \ Late \subseteq online
  /\ \E f \in Filters \ allocated, d \in SUBSET Rights :
       /\ new' = [new EXCEPT ![s] = f]
       /\ allocated' = allocated \cup {f}
       /\ denied' = [denied EXCEPT ![f] = d]
  /\ UNCHANGED <<msr_filter, old, waiting, todo, requested, kicked, srcu, sched, intercepts>>

\* Regression: the new filter is forgotten on the error path.
AfterFailureKept(s) == allocated

\* A range is invalid or its bitmap cannot be read: the new filter is freed.
AfterFailure(s) == allocated \ {new[s]}

AddFails(s) ==
  /\ GotoS(s, "fill", "idle")
  /\ allocated' = AfterFailure(s)
  /\ new' = [new EXCEPT ![s] = NoFilter]
  /\ UNCHANGED <<msr_filter, denied, old, waiting, todo, requested, kicked, srcu, sched, intercepts>>

\* rcu_replace_pointer under kvm->lock.
Replace(s) ==
  /\ GotoS(s, "fill", "sync")
  /\ msr_filter' = new[s]
  /\ old' = [old EXCEPT ![s] = msr_filter]
  /\ new' = [new EXCEPT ![s] = NoFilter]
  /\ UNCHANGED <<denied, allocated, waiting, todo, requested, kicked, srcu, sched, intercepts>>

\* The vCPUs in a read section of kvm->srcu.  synchronize_srcu waits for the sections that are
\* open when it is called.
Readers == {v \in Vcpus : outer[v] \/ inner[v] # "none"}

\* Regression: the old filter is freed at once.
SyncStartNone(s) ==
  /\ GotoS(s, "sync", "wait")
  /\ UNCHANGED <<filter, new, old, waiting, todo, requested, kicked, srcu, sched, intercepts>>

SyncStart(s) ==
  /\ GotoS(s, "sync", "wait")
  /\ waiting' = [waiting EXCEPT ![s] = Readers]
  /\ UNCHANGED <<filter, new, old, todo, requested, kicked, srcu, sched, intercepts>>

\* A section ends: nobody waits for it any more.
EndSection(v) == waiting' = [s \in Setters |-> waiting[s] \ {v}]

Free(s) ==
  /\ GotoS(s, "wait", "request")
  /\ waiting[s] = {}
  /\ allocated' = allocated \ {old[s]}
  /\ old' = [old EXCEPT ![s] = NoFilter]
  /\ todo' = [todo EXCEPT ![s] = online]
  /\ UNCHANGED <<msr_filter, denied, new, waiting, requested, kicked, srcu, sched, intercepts>>

\* kvm_make_all_cpus_request: each vCPU gets the request, one in guest mode is made to leave it;
\* the IPIs are sent at the end.
MakeRequest(s, v) ==
  /\ spc[s] = "request" /\ v \in todo[s] /\ requested[s] = {}
  /\ todo' = [todo EXCEPT ![s] = @ \ {v}]
  /\ requested' = [requested EXCEPT ![s] = {v}]
  /\ requests' = [requests EXCEPT ![v] = TRUE]
  /\ UNCHANGED <<filter, spc, new, old, waiting, kicked, srcu, pc, mode, ipi, online, intercepts>>

ExitMode(s, v) ==
  /\ v \in requested[s]
  /\ requested' = [requested EXCEPT ![s] = @ \ {v}]
  /\ IF mode[v] = "IN_GUEST"
     THEN mode' = [mode EXCEPT ![v] = "EXITING"] /\ kicked' = [kicked EXCEPT ![s] = @ \cup {v}]
     ELSE UNCHANGED <<mode, kicked>>
  /\ UNCHANGED <<filter, spc, new, old, waiting, todo, srcu, pc, requests, ipi, online, intercepts>>

SendIpis(s) ==
  /\ GotoS(s, "request", "idle")
  /\ todo[s] = {} /\ requested[s] = {}
  /\ ipi' = [v \in Vcpus |-> ipi[v] \/ v \in kicked[s]]
  /\ kicked' = [kicked EXCEPT ![s] = {}]
  /\ UNCHANGED <<filter, new, old, waiting, todo, requested, srcu, pc, mode, requests, online,
                 intercepts>>

-----------------------------------------------------------------------------
(* kvm_msr_allowed and vmx_disable_intercept_for_msr, right by right.      *)

Allowed(f, r) == f = NoFilter \/ r \notin denied[f]

\* srcu_read_lock, then the pointer is loaded.
Lock(v) ==
  /\ jobs[v] # {} /\ inner[v] = "none"
  /\ inner' = [inner EXCEPT ![v] = "locked"]
  /\ UNCHANGED <<filter, setter, outer, reader, sched, intercepts>>

Load(v) ==
  /\ inner[v] = "locked"
  /\ inner' = [inner EXCEPT ![v] = "loaded"]
  /\ reader' = [reader EXCEPT ![v] = msr_filter]
  /\ UNCHANGED <<filter, setter, outer, sched, intercepts>>

\* The ranges are read, the section ends (nested in the run loop's, it ends for synchronize_srcu
\* only with that one), and the bitmap bit is set or cleared.
Decide(v) ==
  /\ inner[v] = "loaded"
  /\ inner' = [inner EXCEPT ![v] = "none"]
  /\ reader' = [reader EXCEPT ![v] = NoFilter]
  /\ \E r \in jobs[v] :
       /\ jobs' = [jobs EXCEPT ![v] = @ \ {r}]
       /\ bitmap' = [bitmap EXCEPT ![v] = IF Allowed(reader[v], r) THEN @ \cup {r} ELSE @ \ {r}]
  /\ IF outer[v] THEN UNCHANGED waiting ELSE EndSection(v)
  /\ UNCHANGED <<filter, spc, new, old, todo, requested, kicked, outer, sched, shadow>>

-----------------------------------------------------------------------------
(* The vCPU thread.                                                        *)

Goto(v, from, to) == pc[v] = from /\ jobs[v] = {} /\ pc' = [pc EXCEPT ![v] = to]

\* vmx_vcpu_create is done; later the vCPU becomes visible.
Online(v) ==
  /\ Goto(v, "new", "user")
  /\ online' = online \cup {v}
  /\ UNCHANGED <<filter, setter, srcu, mode, requests, ipi, intercepts>>

\* vmx_vcpu_after_set_cpuid: vmx_set_intercept_for_msr of a right that depends on CPUID.
SetCpuid(v, r) ==
  /\ pc[v] = "user" /\ jobs[v] = {} /\ r \notin Always
  /\ \/ /\ jobs' = [jobs EXCEPT ![v] = {r}]
        /\ shadow' = [shadow EXCEPT ![v] = @ \cup {r}]
        /\ UNCHANGED bitmap
     \/ /\ shadow' = [shadow EXCEPT ![v] = @ \ {r}]
        /\ bitmap' = [bitmap EXCEPT ![v] = @ \ {r}]
        /\ UNCHANGED jobs
  /\ UNCHANGED <<filter, setter, srcu, sched>>

\* KVM_RUN, and every return to the run loop, takes the loop's read section.
EnterRun(v) ==
  /\ Goto(v, "user", "run")
  /\ outer' = [outer EXCEPT ![v] = TRUE]
  /\ UNCHANGED <<filter, setter, inner, reader, mode, requests, ipi, online, intercepts>>

\* Regression: nothing is redone when the request is served.
RefreshNone(v) == {}

\* vmx_msr_filter_changed: every right passed through so far is decided again.
Refresh(v) == shadow[v]

\* KVM_REQ_MSR_FILTER_CHANGED.
CheckRequest(v) ==
  /\ Goto(v, "run", "ready")
  /\ requests' = [requests EXCEPT ![v] = FALSE]
  /\ jobs' = [jobs EXCEPT ![v] = IF requests[v] THEN Refresh(v) ELSE {}]
  /\ UNCHANGED <<filter, setter, srcu, mode, ipi, online, shadow, bitmap>>

SetMode(v) ==
  /\ Goto(v, "ready", "unlock")
  /\ mode' = [mode EXCEPT ![v] = "IN_GUEST"]
  /\ UNCHANGED <<filter, setter, srcu, requests, ipi, online, intercepts>>

\* Regression: the guest runs inside the read section.
UnlockForgotten(v) ==
  /\ Goto(v, "unlock", "check")
  /\ UNCHANGED <<filter, setter, srcu, mode, requests, ipi, online, intercepts>>

Unlock(v) ==
  /\ Goto(v, "unlock", "check")
  /\ outer' = [outer EXCEPT ![v] = FALSE]
  /\ EndSection(v)
  /\ UNCHANGED <<filter, spc, new, old, todo, requested, kicked, inner, reader, mode, requests, ipi,
                 online, intercepts>>

\* Regression: a request made before mode was set is not looked at.
ExitRequestMode(v) == mode[v] = "EXITING"

\* kvm_vcpu_exit_request.
ExitRequest(v) == mode[v] = "EXITING" \/ requests[v]

VmEnter(v) ==
  /\ ~ExitRequest(v)
  /\ Goto(v, "check", "guest")
  /\ UNCHANGED <<filter, setter, srcu, mode, requests, ipi, online, intercepts>>

CancelEntry(v) ==
  /\ ExitRequest(v)
  /\ Goto(v, "check", "cancelled")
  /\ mode' = [mode EXCEPT ![v] = "OUTSIDE"]
  /\ UNCHANGED <<filter, setter, srcu, requests, ipi, online, intercepts>>

\* Any exit; a pending IPI is taken by it.
Exit(v) ==
  /\ Goto(v, "guest", "relock")
  /\ mode' = [mode EXCEPT ![v] = "OUTSIDE"]
  /\ ipi' = [ipi EXCEPT ![v] = FALSE]
  /\ UNCHANGED <<filter, setter, srcu, requests, online, intercepts>>

\* Outside the guest the IPI does nothing.
TakeIpi(v) ==
  /\ ipi[v] /\ pc[v] # "guest"
  /\ ipi' = [ipi EXCEPT ![v] = FALSE]
  /\ UNCHANGED <<filter, setter, srcu, pc, mode, requests, online, intercepts>>

Relock(v) ==
  /\ Goto(v, "relock", "handle") \/ Goto(v, "cancelled", "run")
  /\ outer' = [outer EXCEPT ![v] = TRUE]
  /\ UNCHANGED <<filter, setter, inner, reader, mode, requests, ipi, online, intercepts>>

\* The exit is handled and the loop goes on.
Handle(v) ==
  /\ Goto(v, "handle", "run")
  /\ UNCHANGED <<filter, setter, srcu, mode, requests, ipi, online, intercepts>>

\* The first write of IA32_SPEC_CTRL or IA32_XFD: pass it through from now on.
FirstWrite(v, r) ==
  /\ r \notin shadow[v]
  /\ Goto(v, "handle", "run")
  /\ jobs' = [jobs EXCEPT ![v] = {r}]
  /\ shadow' = [shadow EXCEPT ![v] = @ \cup {r}]
  /\ UNCHANGED <<filter, setter, srcu, mode, requests, ipi, online, bitmap>>

\* Back to userspace.
LeaveRun(v) ==
  /\ Goto(v, "run", "user")
  /\ outer' = [outer EXCEPT ![v] = FALSE]
  /\ EndSection(v)
  /\ UNCHANGED <<filter, spc, new, old, todo, requested, kicked, inner, reader, mode, requests, ipi,
                 online, intercepts>>

Setter(s) ==
  \/ Replace(s) \/ SyncStart(s) \/ Free(s) \/ SendIpis(s)
  \/ \E v \in Vcpus : MakeRequest(s, v) \/ ExitMode(s, v)

Loop(v) ==
  \/ Lock(v) \/ Load(v) \/ Decide(v) \/ Online(v) \/ CheckRequest(v) \/ SetMode(v) \/ Unlock(v)
  \/ VmEnter(v) \/ CancelEntry(v) \/ TakeIpi(v) \/ Relock(v) \/ Handle(v)

Next ==
  \/ \E s \in Setters : Alloc(s) \/ AddFails(s) \/ Setter(s)
  \/ \E v \in Vcpus :
       \/ Loop(v) \/ EnterRun(v) \/ Exit(v) \/ LeaveRun(v)
       \/ \E r \in Rights : SetCpuid(v, r) \/ FirstWrite(v, r)

Spec == Init /\ [][Next]_vars

(* Threads of the host are scheduled; an IPI ends the guest's run; the run *)
(* loop is not cancelled for ever, as the requests here are finitely fast. *)
FairSpec ==
  /\ Spec
  /\ \A s \in Setters : WF_vars(Setter(s))
  /\ \A v \in Vcpus : WF_vars(Loop(v)) /\ WF_vars(ipi[v] /\ Exit(v))

-----------------------------------------------------------------------------
\* kvm_vm_ioctl_set_msr_filter, kvm_msr_allowed, the MSR bitmaps: types of all variables.
TypeOK ==
  /\ msr_filter \in Pointer /\ denied \in [Filters -> SUBSET Rights] /\ allocated \subseteq Filters
  /\ spc \in [Setters -> {"idle", "fill", "sync", "wait", "request"}]
  /\ new \in [Setters -> Pointer] /\ old \in [Setters -> Pointer]
  /\ waiting \in [Setters -> SUBSET Vcpus] /\ todo \in [Setters -> SUBSET Vcpus]
  /\ requested \in [Setters -> SUBSET Vcpus] /\ kicked \in [Setters -> SUBSET Vcpus]
  /\ pc \in [Vcpus -> Places]
  /\ mode \in [Vcpus -> {"OUTSIDE", "IN_GUEST", "EXITING"}]
  /\ requests \in [Vcpus -> BOOLEAN] /\ ipi \in [Vcpus -> BOOLEAN] /\ online \subseteq Vcpus
  /\ outer \in [Vcpus -> BOOLEAN] /\ inner \in [Vcpus -> {"none", "locked", "loaded"}]
  /\ reader \in [Vcpus -> Pointer]
  /\ jobs \in [Vcpus -> SUBSET Rights] /\ shadow \in [Vcpus -> SUBSET Rights]
  /\ bitmap \in [Vcpus -> SUBSET Rights]

\* synchronize_srcu before kvm_free_msr_filter: a filter that is published or that a vCPU still
\* reads is never freed.
NoUseAfterFree ==
  /\ msr_filter # NoFilter => msr_filter \in allocated
  /\ \A v \in Vcpus : reader[v] # NoFilter => reader[v] \in allocated

\* kvm_free_msr_filter on every path: what is allocated is the published filter, a setter's new
\* one, or one that is replaced and waits for its readers.
NoLeak ==
  allocated = ({msr_filter} \cup {new[s] : s \in Setters} \cup {old[s] : s \in Setters}) \ {NoFilter}

\* A setter has yet to reach vCPU v: it has published, and v has neither got the request nor, if
\* it is in the guest, the IPI.
Underway(s, v) ==
  spc[s] \in {"sync", "wait"} \/ v \in todo[s] \cup requested[s] \cup kicked[s]

\* The bitmap is what the published filter makes of the rights passed through.
Fresh(v) == bitmap[v] = {r \in shadow[v] : Allowed(msr_filter, r)}

FreshOrReached(v) ==
  pc[v] = "guest" /\ ~Fresh(v) => ipi[v] \/ \E s \in Setters : Underway(s, v)

\* vmx_msr_filter_changed: a guest runs with a bitmap that does not follow the published filter
\* only while a setter has yet to reach its vCPU or the IPI is on its way.
BitmapFresh == \A v \in Vcpus \ Late : FreshOrReached(v)

\* The comment of vmx_msr_filter_changed, "ensure that KVM enables interception if usersepace
\* wants to filter the MSR", for vCPUs that are created while the filter is replaced.
LateBitmapFresh == \A v \in Late : FreshOrReached(v)

\* synchronize_srcu: the ioctl returns, whatever the vCPUs do in the run loop.
SetterReturns == \A s \in Setters : spc[s] \notin {"idle", "fill"} ~> spc[s] = "idle"

\* KVM_REQ_MSR_FILTER_CHANGED and its IPI: a guest that runs on with an old bitmap gets the new
\* one, unless it is no longer run or the filter is replaced again.
FilterTakesEffect ==
  \A v \in Vcpus \ Late, f \in Filters :
    pc[v] = "guest" /\ ~Fresh(v) /\ msr_filter = f ~> pc[v] = "user" \/ Fresh(v) \/ msr_filter # f
=============================================================================
