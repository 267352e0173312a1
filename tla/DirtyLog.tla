------------------------------ MODULE DirtyLog -------------------------------
(***************************************************************************)
(* Dirty logging with Intel's page-modification log (vmx.c, x86.c).  The   *)
(* CPU writes the address of each page it makes dirty into a buffer of the *)
(* vCPU, from the last entry down; KVM empties the buffer at every exit.   *)
(* Slots switch logging on and off while vCPUs run; userspace collects the *)
(* bitmap with KVM_GET_DIRTY_LOG.  All pages are in one slot; a second     *)
(* slot only counts.                                                       *)
(***************************************************************************)
EXTENDS Integers

CONSTANTS
  Vcpus, Pages,
  Entries,       \* PML_ENTITY_NUM
  NoPage

Wrapped == 65535 \* a 16-bit index below zero

VARIABLES
  logging,       \* slots with KVM_MEM_LOG_DIRTY_PAGES: "this" one and the "other"
  ioctl,         \* what the thread in KVM_SET_USER_MEMORY_REGION does next
  bitmap,        \* the slot's dirty bitmap
  dirtyBits,     \* pages whose dirty bit is set in the EPT
  requests,      \* KVM_REQ_UPDATE_CPU_DIRTY_LOGGING
  pml,           \* SECONDARY_EXEC_ENABLE_PML
  index, buffer, \* GUEST_PML_INDEX and the buffer
  pc, mode,      \* each vCPU's place and vcpu->mode
  kicked,        \* vCPUs with an IPI under way
  owed           \* pages written since logging began or since their last report

vars == <<logging, ioctl, bitmap, dirtyBits, requests, pml, index, buffer, pc,
          mode, kicked, owed>>
vm == <<logging, ioctl, bitmap, dirtyBits, owed>>
cpu == <<pml, index, buffer>>

\* init_vmcs: the index points at the last entry.
Init ==
  /\ logging = {} /\ ioctl = "none" /\ bitmap = {} /\ dirtyBits \in {{}, Pages}
  /\ requests = {} /\ pml = {}
  /\ index = [v \in Vcpus |-> Entries - 1]
  /\ buffer = [v \in Vcpus |-> [i \in 0..Entries - 1 |-> NoPage]]
  /\ pc = [v \in Vcpus |-> "out"] /\ mode = [v \in Vcpus |-> "OUTSIDE"]
  /\ kicked = {} /\ owed = {}

Go(v, p) == pc' = [pc EXCEPT ![v] = p]

(***************************************************************************)
(* The vCPU.                                                               *)
(***************************************************************************)
\* vmx_update_cpu_dirty_logging, if requested.
UpdateCpuDirtyLogging(v) ==
  /\ pc[v] = "out" /\ Go(v, "updated")
  /\ IF v \in requests
       THEN /\ requests' = requests \ {v}
            /\ pml' = IF logging # {} THEN pml \cup {v} ELSE pml \ {v}
       ELSE UNCHANGED <<requests, pml>>
  /\ UNCHANGED <<vm, index, buffer, mode, kicked>>
\* vcpu_enter_guest: IN_GUEST_MODE first, then the requests and the mode again.
SetMode(v) ==
  /\ pc[v] = "updated" /\ Go(v, "entering")
  /\ mode' = [mode EXCEPT ![v] = "IN_GUEST"]
  /\ UNCHANGED <<vm, requests, cpu, kicked>>
Enter(v) ==
  /\ pc[v] = "entering" /\ v \notin requests \cup kicked /\ Go(v, "guest")
  /\ UNCHANGED <<vm, requests, cpu, mode, kicked>>
CancelEntry(v) ==
  /\ pc[v] = "entering" /\ v \in requests \cup kicked /\ Go(v, "out")
  /\ kicked' = kicked \ {v} /\ mode' = [mode EXCEPT ![v] = "OUTSIDE"]
  /\ UNCHANGED <<vm, requests, cpu>>

\* The slot's log is in use.
Active == "this" \in logging /\ ioctl \notin {"request_this", "kick_this", "enable"}

\* The processor logs a page whose dirty bit it sets, unless the buffer is full.
Full(v) == index[v] \notin 0..Entries - 1
GuestWrite(v, p) ==
  LET log == v \in pml /\ p \notin dirtyBits
  IN /\ pc[v] = "guest" /\ ~(log /\ Full(v))
     /\ dirtyBits' = dirtyBits \cup {p}
     /\ owed' = IF Active THEN owed \cup {p} ELSE owed
     /\ IF log
          THEN /\ buffer' = [buffer EXCEPT ![v][index[v]] = p]
               /\ index' = [index EXCEPT ![v] = IF @ = 0 THEN Wrapped ELSE @ - 1]
          ELSE UNCHANGED <<buffer, index>>
     /\ UNCHANGED <<logging, ioctl, bitmap, requests, pml, pc, mode, kicked>>

\* Any exit: PML full, the IPI of a kick, another.
Exit(v) ==
  /\ pc[v] = "guest" /\ Go(v, "exited") /\ kicked' = kicked \ {v}
  /\ mode' = [mode EXCEPT ![v] = "OUTSIDE"]
  /\ UNCHANGED <<vm, requests, cpu>>

\* Regression: an index below zero is taken for the one below the first entry.
FirstLoggedNoWrap(v) == (index[v] + 1) % Wrapped
\* vmx_flush_pml_buffer: the index points to the next free entry.
FirstLogged(v) == IF index[v] >= Entries THEN 0 ELSE index[v] + 1
FlushPmlBuffer(v) ==
  /\ pc[v] = "exited" /\ Go(v, "out")
  /\ IF index[v] = Entries - 1 THEN UNCHANGED <<bitmap, index>>
     ELSE /\ bitmap' = bitmap \cup
               (IF "this" \in logging
                  THEN {buffer[v][i] : i \in FirstLogged(v)..Entries - 1} ELSE {})
          /\ index' = [index EXCEPT ![v] = Entries - 1]
  /\ UNCHANGED <<logging, ioctl, dirtyBits, owed, requests, pml, buffer, mode, kicked>>

(***************************************************************************)
(* KVM_SET_USER_MEMORY_REGION toggles logging of a slot.  kvm_main.c has   *)
(* changed the count when kvm_arch_commit_memory_region runs; vCPUs may    *)
(* read it before they are requested to.                                   *)
(***************************************************************************)
\* Regression: an update only when the last slot stops.
ToggledLast == logging' = {}
\* kvm_mmu_update_cpu_dirty_logging: the first slot starts or the last one stops.
Toggled == (logging = {}) # (logging' = {})

StartLogging(s) ==
  /\ ioctl = "none" /\ s \notin logging /\ logging' = logging \cup {s}
  /\ ioctl' = IF s = "this" THEN IF Toggled THEN "request_this" ELSE "enable"
              ELSE IF Toggled THEN "request" ELSE "none"
  /\ UNCHANGED <<bitmap, dirtyBits, owed, requests, cpu, pc, mode, kicked>>
StopLogging(s) ==
  /\ ioctl = "none" /\ s \in logging /\ logging' = logging \ {s}
  /\ bitmap' = IF s = "this" THEN {} ELSE bitmap
  /\ owed' = IF s = "this" THEN {} ELSE owed
  /\ ioctl' = IF Toggled THEN "request" ELSE "none"
  /\ UNCHANGED <<dirtyBits, requests, cpu, pc, mode, kicked>>
\* kvm_make_all_cpus_request: the requests, then an IPI to every vCPU in guest mode.
RequestUpdates ==
  /\ ioctl \in {"request", "request_this"} /\ requests' = Vcpus
  /\ ioctl' = IF ioctl = "request" THEN "kick" ELSE "kick_this"
  /\ UNCHANGED <<logging, bitmap, dirtyBits, owed, cpu, pc, mode, kicked>>
Kick ==
  /\ ioctl \in {"kick", "kick_this"}
  /\ kicked' = kicked \cup {v \in Vcpus : mode[v] = "IN_GUEST"}
  /\ ioctl' = IF ioctl = "kick" THEN "none" ELSE "enable"
  /\ UNCHANGED <<logging, bitmap, dirtyBits, owed, requests, cpu, pc, mode>>
\* kvm_mmu_slot_apply_flags: every vCPU has left the guest since the request, the dirty
\* bits of the slot are cleared and the TLBs flushed.
ApplyFlags ==
  /\ ioctl = "enable" /\ kicked = {}
  /\ dirtyBits' = {} /\ ioctl' = "none"
  /\ UNCHANGED <<logging, bitmap, owed, requests, cpu, pc, mode, kicked>>

(***************************************************************************)
(* KVM_GET_DIRTY_LOG: kvm_arch_sync_dirty_log kicks the vCPUs and does not *)
(* wait; kvm_main.c then copies the bitmap and clears the dirty bits.      *)
(***************************************************************************)
SyncDirtyLog ==
  /\ ioctl = "none" /\ "this" \in logging /\ ioctl' = "collect"
  /\ kicked' = kicked \cup {v \in Vcpus : mode[v] = "IN_GUEST"}
  /\ UNCHANGED <<logging, bitmap, dirtyBits, owed, requests, cpu, pc, mode>>
Collect ==
  /\ ioctl = "collect" /\ ioctl' = "none"
  /\ bitmap' = {} /\ owed' = owed \ bitmap /\ dirtyBits' = dirtyBits \ bitmap
  /\ UNCHANGED <<logging, requests, cpu, pc, mode, kicked>>

Next ==
  \/ \E v \in Vcpus :
       \/ UpdateCpuDirtyLogging(v) \/ SetMode(v) \/ Enter(v) \/ CancelEntry(v) \/ Exit(v)
       \/ FlushPmlBuffer(v)
       \/ \E p \in Pages : GuestWrite(v, p)
  \/ \E s \in {"this", "other"} : StartLogging(s) \/ StopLogging(s)
  \/ RequestUpdates \/ Kick \/ ApplyFlags \/ SyncDirtyLog \/ Collect

Spec == Init /\ [][Next]_vars

-----------------------------------------------------------------------------
(* No write is lost: a page written since logging began or since its last report  *)
(* is in the bitmap or in the part of a vCPU's buffer the next exit flushes, and  *)
(* with all vCPUs out of the guest and flushed KVM_GET_DIRTY_LOG reports it.      *)
NoWriteLost ==
  \A p \in owed : p \in bitmap \/ \E v \in Vcpus :
    /\ index[v] # Entries - 1
    /\ p \in {buffer[v][i] : i \in (IF Full(v) THEN 0 ELSE index[v] + 1)..Entries - 1}

-----------------------------------------------------------------------------
(* The inductive invariant of the proof.  A page is not lost because its dirty    *)
(* bit, its entry in a buffer and the bitmap are never all missing.               *)
\* What the proofs assume of the constants: the index is a 16-bit field, and wraps.
Constants == Entries \in 1..Wrapped

SetTypes ==
  /\ logging \in SUBSET {"this", "other"} /\ requests \in SUBSET Vcpus
  /\ ioctl \in {"none", "request", "request_this", "kick", "kick_this", "enable", "collect"}
  /\ pml \in SUBSET Vcpus /\ kicked \in SUBSET Vcpus
PlaceTypes ==
  /\ pc \in [Vcpus -> {"out", "updated", "entering", "guest", "exited"}]
  /\ mode \in [Vcpus -> {"OUTSIDE", "IN_GUEST"}]
BufferTypes ==
  /\ index \in [Vcpus -> 0..Entries - 1 \cup {Wrapped}]
  /\ buffer \in [Vcpus -> [0..Entries - 1 -> Pages \cup {NoPage}]]
TypeInv == SetTypes /\ PlaceTypes /\ BufferTypes

(* While any slot is logged and the vCPUs have been requested to, each logs or is *)
(* still to see the request; one that is in the guest without is about to be      *)
(* kicked, or to leave, before the slot's log is used.                            *)
PmlInv ==
  /\ \A v \in Vcpus : mode[v] = "IN_GUEST" <=> pc[v] \in {"entering", "guest"}
  /\ kicked \subseteq {v \in Vcpus : pc[v] \in {"entering", "guest"}}
  /\ ioctl \in {"request", "kick"} => ~Active
  /\ logging # {} /\ ioctl \notin {"request", "request_this"} =>
       \A v \in Vcpus :
         /\ v \in pml \cup requests
         /\ pc[v] = "guest" => v \in pml \cup kicked \/ ioctl \in {"kick", "kick_this"}
  /\ Active => \A v \in Vcpus : pc[v] = "guest" => v \in pml

\* What the next exit of v puts into the bitmap.
Logged(v) ==
  IF index[v] = Entries - 1 THEN {}
  ELSE {buffer[v][i] : i \in (IF Full(v) THEN 0 ELSE index[v] + 1)..Entries - 1}

(* A set dirty bit, which keeps the processor from logging the page again, stands *)
(* for a page the bitmap has or an exit will put there; every write set one.      *)
DirtyInv ==
  /\ Active => \A p \in dirtyBits : p \in bitmap \/ \E v \in Vcpus : p \in Logged(v)
  /\ owed # {} => Active
  /\ owed \subseteq dirtyBits

LogInv == TypeInv /\ PmlInv /\ DirtyInv
=============================================================================
