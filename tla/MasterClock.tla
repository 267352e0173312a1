----------------------------- MODULE MasterClock -----------------------------
(***************************************************************************)
(* The paravirtual clock of a VM (x86.c).  All vCPUs give their guest the  *)
(* same snapshot of the host's time and TSC, the master copy, as long as   *)
(* the host keeps time by its TSC and the TSCs of all vCPUs belong to one  *)
(* generation.  An update keeps the vCPUs out of the guest by requests,    *)
(* and readers of the copy retry on a sequence count.                      *)
(*                                                                         *)
(* A snapshot is a number, the next unused one; its two words are written  *)
(* and read one at a time, and so is the VM's offset of the clock, which    *)
(* readers take outside the sequence count.  All vCPUs exist from the      *)
(* start.  The offset of a vCPU's TSC is told apart only by its generation.*)
(***************************************************************************)
EXTENDS Integers, FiniteSets

CONSTANTS
  Vcpus,
  MaxEvents      \* bound: TSC writes, changes of the host's clock, MSR writes, ioctls

VARIABLES
  hostTsc,       \* gtod_is_based_on_tsc
  barred,        \* "backwards" and "old": backwards_tsc_observed, boot_vcpu_runs_old_kvmclock
  hasMaster,     \* kvm_guest_has_master_clock
  work,          \* pvclock_gtod_work: "idle", "queued", "clear"
  delayed,       \* kvmclock_update_work is scheduled
  generation,    \* vCPUs of the current TSC generation
  nr,            \* nr_vcpus_matched_tsc
  useMaster, cycle, ns,          \* the master copy
  offset,        \* kvmclock_offset
  lock, odd,     \* tsc_write_lock, and pvclock_sc is odd
  requests,      \* MCLK, INPROGRESS, GLOBAL, CLOCK: the KVM_REQ_s of the clock
  kicked,        \* vCPUs an IPI is under way to
  pc,            \* of each vCPU and of the "vm" thread in KVM_SET_CLOCK
  todo,          \* vCPUs a loop of kvm_end_pvclock_update has before it
  retry,         \* readers whose sequence number is no longer the current one
  read,          \* what a reader has read
  record,        \* what the guest sees: a copy, the offset and its version's lowest bit
  fresh, events

vars == <<hostTsc, barred, hasMaster, work, delayed, generation, nr, useMaster, cycle, ns,
          offset, lock, odd, requests, kicked, pc, todo, retry, read, record, fresh, events>>
host == <<hostTsc, barred, hasMaster, work, delayed>>
tsc == <<generation, nr>>
copy == <<useMaster, cycle, ns, offset, fresh>>
seq == <<lock, odd, retry>>
entry == <<requests, kicked, pc, todo>>
seen == <<read, record>>

Threads == Vcpus \cup {"vm"}
Blank == [use |-> FALSE, cycle |-> 0, ns |-> 0]
Go(t, p) == pc' = [pc EXCEPT ![t] = p]
Make(r, to) == requests' = [v \in Vcpus |-> requests[v] \cup (IF v \in to THEN {r} ELSE {})]
Check(r, v) == requests' = [requests EXCEPT ![v] = @ \ {r}]
Visited(t, v) == v \in todo[t] /\ todo' = [todo EXCEPT ![t] = @ \ {v}]
Event == events < MaxEvents /\ events' = events + 1
InGuest == {v \in Vcpus : pc[v] \in {"entering", "guest"}}

\* kvm_track_tsc_matching of the last vCPU created, kvm_arch_vcpu_load of each.
Init ==
  /\ hostTsc \in BOOLEAN /\ barred = {} /\ hasMaster = FALSE
  /\ work = "idle" /\ delayed = FALSE
  /\ generation = Vcpus /\ nr = Cardinality(Vcpus) - 1
  /\ useMaster = FALSE /\ cycle = 0 /\ ns = 0 /\ offset = 0 /\ lock = "none" /\ odd = FALSE
  /\ \E last \in Vcpus :
       requests = [v \in Vcpus |-> {"GLOBAL"} \cup (IF hostTsc /\ v = last THEN {"MCLK"} ELSE {})]
  /\ kicked = {} /\ pc = [t \in Threads |-> IF t = "vm" THEN "idle" ELSE "requests"]
  /\ todo = [t \in Threads |-> {}]
  /\ retry = {} /\ read = [v \in Vcpus |-> Blank]
  /\ record = [v \in Vcpus |-> [copy |-> Blank, offset |-> 0, odd |-> FALSE]]
  /\ fresh = 1 /\ events = 0

(***************************************************************************)
(* kvm_update_masterclock, by a vCPU with the request or by KVM_SET_CLOCK. *)
(***************************************************************************)
\* kvm_make_mclock_inprogress_request: it waits for the IPIs.
Begin(t) ==
  /\ IF t = "vm" THEN pc[t] = "idle" /\ Event /\ Make("INPROGRESS", Vcpus)
     ELSE /\ pc[t] = "requests" /\ "MCLK" \in requests[t] /\ UNCHANGED events
          /\ requests' = [v \in Vcpus |->
               (requests[v] \cup {"INPROGRESS"}) \ (IF v = t THEN {"MCLK"} ELSE {})]
  /\ kicked' = kicked \cup InGuest /\ Go(t, "wait")
  /\ UNCHANGED <<host, tsc, copy, seq, todo, seen>>
\* __kvm_start_pvclock_update.
Start(t) ==
  /\ pc[t] = "wait" /\ kicked = {} /\ lock = "none" /\ Go(t, "cycle")
  /\ lock' = t /\ odd' = TRUE
  /\ UNCHANGED <<host, tsc, copy, retry, requests, kicked, todo, seen, events>>
\* pvclock_update_vm_gtod_copy: the clock is read only if the host uses its TSC.
WriteCycle(t) ==
  /\ pc[t] = "cycle" /\ Go(t, "ns")
  /\ cycle' = IF hostTsc THEN fresh ELSE cycle
  /\ UNCHANGED <<host, tsc, useMaster, ns, offset, fresh, seq, requests, kicked, todo, seen,
                 events>>
Matched == nr + 1 = Cardinality(Vcpus)
WriteNs(t) ==
  /\ pc[t] = "ns" /\ Go(t, IF t = "vm" THEN "offset" ELSE "end")
  /\ ns' = cycle /\ fresh' = cycle + 1
  /\ useMaster' = (cycle = fresh /\ Matched /\ barred = {})
  /\ hasMaster' = (hasMaster \/ useMaster')
  /\ UNCHANGED <<hostTsc, barred, work, delayed, tsc, cycle, offset, seq, requests, kicked, todo,
                 seen, events>>
\* KVM_SET_CLOCK: a new offset, still under the lock and the odd count.
SetOffset(t) ==
  /\ pc[t] = "offset" /\ Go(t, "end")
  /\ offset' = offset + 1
  /\ UNCHANGED <<host, tsc, useMaster, cycle, ns, fresh, seq, requests, kicked, todo, seen, events>>
\* kvm_end_pvclock_update: the count and the lock ...
End(t) ==
  /\ pc[t] = "end" /\ Go(t, "request")
  /\ odd' = FALSE /\ lock' = "none" /\ retry' = Vcpus
  /\ todo' = [todo EXCEPT ![t] = Vcpus]
  /\ UNCHANGED <<host, tsc, copy, requests, kicked, seen, events>>
\* ... the request of each vCPU in turn ...
RequestUpdate(t, v) ==
  /\ pc[t] = "request" /\ Visited(t, v) /\ Make("CLOCK", {v})
  /\ UNCHANGED <<host, tsc, copy, seq, kicked, pc, seen, events>>
Requested(t) ==
  /\ pc[t] = "request" /\ todo[t] = {} /\ Go(t, "allow")
  /\ todo' = [todo EXCEPT ![t] = Vcpus]
  /\ UNCHANGED <<host, tsc, copy, seq, requests, kicked, seen, events>>
\* ... and the vCPUs let in, one by one.
AllowEntry(t, v) ==
  /\ pc[t] = "allow" /\ Visited(t, v) /\ Check("INPROGRESS", v)
  /\ UNCHANGED <<host, tsc, copy, seq, kicked, pc, seen, events>>
Allowed(t) ==
  /\ pc[t] = "allow" /\ todo[t] = {} /\ Go(t, IF t = "vm" THEN "idle" ELSE "requests")
  /\ UNCHANGED <<host, tsc, copy, seq, requests, kicked, todo, seen, events>>

(***************************************************************************)
(* A vCPU on its way into the guest.                                       *)
(***************************************************************************)
\* kvm_gen_kvmclock_update.
GenUpdate(v) ==
  /\ pc[v] = "requests" /\ "MCLK" \notin requests[v] /\ "GLOBAL" \in requests[v]
  /\ requests' = [requests EXCEPT ![v] = (@ \ {"GLOBAL"}) \cup {"CLOCK"}]
  /\ delayed' = TRUE
  /\ UNCHANGED <<hostTsc, barred, hasMaster, work, tsc, copy, seq, kicked, pc, todo, seen,
                 events>>
\* kvm_guest_time_update: the sequence number, then the copy.
ReadBegin(v) ==
  /\ pc[v] = "requests" /\ "CLOCK" \in requests[v] /\ {"MCLK", "GLOBAL"} \cap requests[v] = {}
  /\ Check("CLOCK", v) /\ Go(v, "read")
  /\ UNCHANGED <<host, tsc, copy, seq, kicked, todo, seen, events>>
ReadCycle(v) ==
  /\ pc[v] = "read" /\ ~odd /\ Go(v, "half")
  /\ retry' = retry \ {v}
  /\ read' = [read EXCEPT ![v] = IF useMaster THEN [@ EXCEPT !.use = TRUE, !.cycle = cycle]
                                ELSE Blank]
  /\ UNCHANGED <<host, tsc, copy, lock, odd, requests, kicked, todo, record, events>>
\* Regression: the sequence count is not read again.
MustRetryNever(v) == FALSE
MustRetry(v) == v \in retry \/ odd
ReadNs(v) ==
  /\ pc[v] = "half" /\ Go(v, "check")
  /\ read' = [read EXCEPT ![v].ns = IF read[v].use THEN ns ELSE 0]
  /\ UNCHANGED <<host, tsc, copy, seq, requests, kicked, todo, record, events>>
\* read_seqcount_retry, and kvm_setup_guest_pvclock with an odd version.
ReadEnd(v) ==
  /\ pc[v] = "check"
  /\ IF MustRetry(v) THEN Go(v, "read") /\ UNCHANGED record
     ELSE Go(v, "write") /\ record' = [record EXCEPT ![v].odd = TRUE]
  /\ UNCHANGED <<host, tsc, copy, seq, requests, kicked, todo, read, events>>
\* The offset is taken when the record is filled in.
SetupPvclock(v) ==
  /\ pc[v] = "write" /\ Go(v, "requests")
  /\ record' = [record EXCEPT ![v] = [copy |-> read[v], offset |-> offset, odd |-> FALSE]]
  /\ read' = [read EXCEPT ![v] = Blank]
  /\ UNCHANGED <<host, tsc, copy, seq, requests, kicked, todo, events>>
\* vcpu_enter_guest: IN_GUEST_MODE first, then the requests again.
Enter(v) ==
  /\ pc[v] = "requests" /\ {"MCLK", "GLOBAL", "CLOCK"} \cap requests[v] = {}
  /\ Go(v, "entering")
  /\ UNCHANGED <<host, tsc, copy, seq, requests, kicked, todo, seen, events>>
Entered(v) ==
  /\ pc[v] = "entering" /\ v \notin kicked
  /\ IF requests[v] # {} THEN Go(v, "requests") ELSE Go(v, "guest")
  /\ UNCHANGED <<host, tsc, copy, seq, requests, kicked, todo, seen, events>>
Exit(v) ==
  /\ pc[v] \in {"guest", "entering"} /\ (pc[v] = "entering" => v \in kicked)
  /\ kicked' = kicked \ {v} /\ Go(v, "requests")
  /\ UNCHANGED <<host, tsc, copy, seq, requests, todo, seen, events>>

(***************************************************************************)
(* What makes updates necessary.                                           *)
(***************************************************************************)
\* kvm_track_tsc_matching.
NeedsUpdate(new, use) == (useMaster /\ new) \/ useMaster # use
\* kvm_synchronize_tsc by userspace, with the vCPU's mutex and tsc_write_lock.
SynchronizeTsc(v, matched) ==
  /\ pc[v] = "requests" /\ lock = "none" /\ Event
  /\ IF matched
       THEN /\ nr' = IF v \in generation THEN nr ELSE nr + 1
            /\ generation' = generation \cup {v}
       ELSE nr' = 0 /\ generation' = {v}
  /\ IF NeedsUpdate(~matched, nr' + 1 = Cardinality(Vcpus) /\ hostTsc)
       THEN Make("MCLK", {v}) ELSE UNCHANGED requests
  /\ UNCHANGED <<host, copy, seq, kicked, pc, todo, seen>>
\* kvm_write_system_time: the boot vCPU changes between the old and the new MSR.
WriteSystemTime(v, toggles) ==
  /\ pc[v] = "requests" /\ Event
  /\ barred' = IF ~toggles THEN barred ELSE ({"old"} \ barred) \cup (barred \ {"old"})
  /\ requests' = [requests EXCEPT ![v] =
       @ \cup {"GLOBAL"} \cup (IF toggles THEN {"MCLK"} ELSE {})]
  /\ UNCHANGED <<hostTsc, hasMaster, work, delayed, tsc, copy, seq, kicked, pc, todo, seen>>
\* kvm_arch_vcpu_load on another CPU.
VcpuLoad(v) ==
  /\ pc[v] = "requests" /\ ~useMaster /\ Event /\ Make("GLOBAL", {v})
  /\ UNCHANGED <<host, tsc, copy, seq, kicked, pc, todo, seen>>
\* kvmclock_update_fn.
UpdateWork ==
  /\ delayed /\ delayed' = FALSE
  /\ Make("CLOCK", Vcpus) /\ kicked' = kicked \cup InGuest
  /\ UNCHANGED <<hostTsc, barred, hasMaster, work, tsc, copy, seq, pc, todo, seen, events>>
\* pvclock_gtod_notify, at every tick of the host's clock.
GtodNotify ==
  /\ \/ Event /\ hostTsc' = ~hostTsc
     \/ UNCHANGED <<hostTsc, events>>
  /\ work' = IF ~hostTsc' /\ hasMaster THEN "queued" ELSE work
  /\ UNCHANGED <<barred, hasMaster, delayed, tsc, copy, seq, entry, seen>>
\* pvclock_gtod_update_fn.
GtodWork ==
  /\ work = "queued" /\ work' = "clear" /\ Make("MCLK", Vcpus)
  /\ UNCHANGED <<hostTsc, barred, hasMaster, delayed, tsc, copy, seq, kicked, pc, todo, seen, events>>
GtodWorkEnd ==
  /\ work = "clear" /\ work' = "idle" /\ hasMaster' = FALSE
  /\ UNCHANGED <<hostTsc, barred, delayed, tsc, copy, seq, entry, seen, events>>

\* kvm_arch_hardware_enable after a suspend, with the threads of the VM frozen: the TSC went back.
HardwareEnable ==
  /\ \A t \in Threads : pc[t] \in {"idle", "requests"}
  /\ Event /\ barred' = barred \cup {"backwards"} /\ Make("MCLK", Vcpus)
  /\ UNCHANGED <<hostTsc, hasMaster, work, delayed, tsc, copy, seq, kicked, pc, todo, seen>>

Update(t) ==
  \/ Begin(t) \/ Start(t) \/ WriteCycle(t) \/ WriteNs(t) \/ SetOffset(t) \/ End(t)
  \/ Requested(t) \/ Allowed(t) \/ \E v \in Vcpus : RequestUpdate(t, v) \/ AllowEntry(t, v)

Next ==
  \/ \E t \in Threads : Update(t)
  \/ \E v \in Vcpus :
       \/ GenUpdate(v) \/ ReadBegin(v) \/ ReadCycle(v) \/ ReadNs(v) \/ ReadEnd(v)
       \/ SetupPvclock(v) \/ Enter(v) \/ Entered(v) \/ Exit(v) \/ VcpuLoad(v)
       \/ \E b \in BOOLEAN : SynchronizeTsc(v, b) \/ WriteSystemTime(v, b)
  \/ UpdateWork \/ GtodNotify \/ GtodWork \/ GtodWorkEnd \/ HardwareEnable

Spec == Init /\ [][Next]_vars

-----------------------------------------------------------------------------
Deciding == \E t \in Threads : pc[t] \in {"wait", "cycle", "ns", "offset", "end"}
Pending == \E v \in Vcpus : "MCLK" \in requests[v]

\* v is to take its clock again: the copy is being stored, or v has been asked or is about to be.
Due(v) ==
  \/ "CLOCK" \in requests[v]
  \/ \E t \in Threads : \/ pc[t] \in {"ns", "offset", "end"}
                        \/ pc[t] = "request" /\ v \in todo[t]

(* What a guest reads under an even version is one snapshot, never the halves of  *)
(* two; a guest that is not to take its clock again has the current snapshot and  *)
(* offset; and the master copy is in use with a vCPU of another generation only   *)
(* while an update is on its way.                                                 *)
ClockConsistent ==
  /\ \A v \in Vcpus : record[v].odd \/ record[v].copy.cycle = record[v].copy.ns
  /\ \A v \in Vcpus : pc[v] = "guest" /\ useMaster /\ ~Due(v) =>
       /\ record[v].copy = [use |-> TRUE, cycle |-> cycle, ns |-> ns]
       /\ record[v].offset = offset
  /\ useMaster /\ generation # Vcpus => Deciding \/ Pending

(* Two guests that run and both take their clock for stable read it from the same *)
(* snapshot.                                                                      *)
SameCopy ==
  \A v, w \in Vcpus :
    (pc[v] = "guest" /\ pc[w] = "guest" /\ record[v].copy.use /\ record[w].copy.use)
      => record[v].copy = record[w].copy
=============================================================================
