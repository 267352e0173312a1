---------------------------- MODULE UserReturnMsr ----------------------------
(***************************************************************************)
(* The MSRs a CPU lends to its guests until it returns to userspace        *)
(* (x86.c, vmx.c), on one CPU.  A vCPU's values are written when it is     *)
(* about to run and stay through exits; a notifier on the CPU's list       *)
(* writes the host's values back on the way to userspace.  Both loops run  *)
(* with interrupts enabled, and the interrupt that disables virtualization *)
(* may arrive between any two of their stores.                             *)
(*                                                                         *)
(* A value is a pair: the bits the MSR's mask lets the guest set, and the  *)
(* others, which stay the host's.                                          *)
(***************************************************************************)
EXTENDS Naturals

CONSTANTS
  Vcpus,         \* vCPU threads that share the CPU
  Slots,         \* kvm_uret_msrs_list
  Values,        \* guest values
  Host,          \* the host's value of every slot
  None

VARIABLES
  hw,            \* the MSRs themselves
  host, curr,    \* user_return_msrs' values[].host and values[].curr
  registered,    \* user_return_msrs' registered
  listed,        \* the notifier is on the CPU's list
  unlinks,       \* an unlinking of a notifier that was not on the list
  cur,           \* the vCPU loaded on the CPU
  data, load,    \* guest_uret_msrs[].data and .load_into_hardware
  loaded,        \* guest_uret_msrs_loaded
  pc,            \* where the CPU is
  todo,          \* slots the loop in progress still has to visit
  slot, value,   \* kvm_set_user_return_msr's arguments
  back,          \* where the CPU goes on when no slot is left to set
  irqs,          \* interrupts are enabled
  off            \* virtualization is disabled

vars == <<hw, host, curr, registered, listed, unlinks, cur, data, load, loaded,
          pc, todo, slot, value, back, irqs, off>>
values == <<hw, host, curr>>
notifier == <<registered, listed, unlinks>>
vcpu == <<data, load, loaded>>

Init ==
  /\ hw = [s \in Slots |-> Host] /\ host = hw /\ curr = hw
  /\ registered = FALSE /\ listed = FALSE /\ unlinks = FALSE
  /\ cur = None
  /\ data = [v \in Vcpus |-> [s \in Slots |-> Host]]
  /\ load = [v \in Vcpus |-> Slots] /\ loaded = [v \in Vcpus |-> FALSE]
  /\ pc = "kernel" /\ todo = {} /\ slot = None /\ value = Host /\ back = "kernel"
  /\ irqs = TRUE /\ off = FALSE

\* kvm_set_user_return_msr's value: the guest's bits under the mask, the host's elsewhere.
Masked(s, d) == <<d[1], host[s][2]>>

(***************************************************************************)
(* kvm_set_user_return_msr, one action per store.  After its last step the *)
(* loop of vmx_prepare_switch_to_guest goes on with the slots left.        *)
(***************************************************************************)
Set(s, d) == slot' = s /\ value' = Masked(s, d) /\ pc' = "compare"

Compare ==
  /\ pc = "compare"
  /\ pc' = IF value = curr[slot] THEN "next" ELSE "write"
  /\ UNCHANGED <<values, notifier, cur, vcpu, todo, slot, value, back, irqs, off>>
Write ==
  /\ pc = "write" /\ pc' = "remember"
  /\ hw' = [hw EXCEPT ![slot] = value]
  /\ UNCHANGED <<host, curr, notifier, cur, vcpu, todo, slot, value, back, irqs, off>>
Remember ==
  /\ pc = "remember" /\ pc' = "register"
  /\ curr' = [curr EXCEPT ![slot] = value]
  /\ UNCHANGED <<hw, host, notifier, cur, vcpu, todo, slot, value, back, irqs, off>>
NeedsNotifier == ~registered
Register ==
  /\ pc = "register"
  /\ IF NeedsNotifier THEN listed' = TRUE /\ pc' = "mark"
                      ELSE UNCHANGED listed /\ pc' = "next"
  /\ UNCHANGED <<values, registered, unlinks, cur, vcpu, todo, slot, value, back, irqs, off>>
Mark ==
  /\ pc = "mark" /\ pc' = "next" /\ registered' = TRUE
  /\ UNCHANGED <<values, listed, unlinks, cur, vcpu, todo, slot, value, back, irqs, off>>
NextSlot ==
  /\ pc = "next"
  /\ \/ \E s \in todo : todo' = todo \ {s} /\ Set(s, data[cur][s]) /\ irqs' = irqs
     \* vcpu_enter_guest disables interrupts before it enters
     \/ todo = {} /\ pc' = back /\ irqs' = (back # "entry") /\ UNCHANGED <<todo, slot, value>>
  /\ UNCHANGED <<values, notifier, cur, vcpu, back, off>>

(***************************************************************************)
(* The vCPU thread.                                                        *)
(***************************************************************************)
VcpuLoad(v) ==
  /\ pc = "kernel" /\ cur = None /\ ~off /\ cur' = v
  /\ UNCHANGED <<values, notifier, vcpu, pc, todo, slot, value, back, irqs, off>>

Loaded(v) == [loaded EXCEPT ![v] = FALSE]

\* vmx_vcpu_put -> vmx_prepare_switch_to_host
VcpuPut ==
  /\ pc = "kernel" /\ cur # None
  /\ loaded' = Loaded(cur) /\ cur' = None
  /\ UNCHANGED <<values, notifier, data, load, pc, todo, slot, value, back, irqs, off>>

\* vmx_set_guest_uret_msr: into the hardware at once when the slot is loaded there.
SetGuestMsr(s, d) ==
  /\ pc = "kernel" /\ cur # None
  /\ data' = [data EXCEPT ![cur][s] = d]
  /\ IF s \in load[cur] THEN Set(s, d) ELSE UNCHANGED <<pc, slot, value>>
  /\ back' = "kernel"
  /\ UNCHANGED <<values, notifier, cur, load, loaded, todo, irqs, off>>

\* vmx_setup_uret_msrs: the guest's mode or CPUID changes which slots are loaded.
SetupMsrs(S) ==
  /\ pc = "kernel" /\ cur # None
  /\ load' = [load EXCEPT ![cur] = S] /\ loaded' = Loaded(cur)
  /\ UNCHANGED <<values, notifier, cur, data, pc, todo, slot, value, back, irqs, off>>

\* vmx_prepare_switch_to_guest
PrepareSwitchToGuest ==
  /\ pc = "kernel" /\ cur # None
  /\ todo' = IF loaded[cur] THEN {} ELSE load[cur]
  /\ loaded' = [loaded EXCEPT ![cur] = TRUE]
  /\ pc' = "next" /\ back' = "entry"
  /\ UNCHANGED <<values, notifier, cur, data, load, slot, value, irqs, off>>

\* VMX instructions fault once virtualization is off.
Enter ==
  /\ pc = "entry"
  /\ IF off THEN pc' = "kernel" /\ irqs' = TRUE ELSE pc' = "guest" /\ UNCHANGED irqs
  /\ UNCHANGED <<values, notifier, cur, vcpu, todo, slot, value, back, off>>
Exit ==
  /\ pc = "guest" /\ pc' = "kernel" /\ irqs' = TRUE
  /\ UNCHANGED <<values, notifier, cur, vcpu, todo, slot, value, back, off>>

(***************************************************************************)
(* kvm_on_user_return, called for a notifier on the list.                  *)
(***************************************************************************)
ReturnToUser ==
  /\ pc = "kernel" /\ cur = None
  /\ pc' = IF listed THEN "notified" ELSE "user"
  /\ UNCHANGED <<values, notifier, cur, vcpu, todo, slot, value, back, irqs, off>>

\* Regression: kvm_on_user_return does not disable interrupts.
IrqsWhileUnlinkingOn == TRUE
\* local_irq_save: interrupts are off while the notifier is unlinked.
IrqsWhileUnlinking == FALSE

SaveIrqs ==
  /\ pc = "notified" /\ irqs' = IrqsWhileUnlinking
  /\ pc' = IF registered THEN "unmark" ELSE "restore"
  /\ todo' = IF registered THEN {} ELSE Slots
  /\ UNCHANGED <<values, notifier, cur, vcpu, slot, value, back, off>>
Unlink ==
  /\ pc = "unmark" /\ pc' = "restore"
  /\ registered' = FALSE /\ listed' = FALSE /\ unlinks' = (unlinks \/ ~listed)
  /\ todo' = Slots
  /\ UNCHANGED <<values, cur, vcpu, slot, value, back, irqs, off>>
Restore ==
  /\ pc = "restore"
  /\ \/ \E s \in todo :
          /\ todo' = todo \ {s} /\ irqs' = TRUE
          /\ IF host[s] # curr[s] THEN slot' = s /\ pc' = "rewrite"
                                  ELSE UNCHANGED <<slot, pc>>
     \/ todo = {} /\ pc' = "user" /\ irqs' = TRUE /\ UNCHANGED <<todo, slot>>
  /\ UNCHANGED <<values, notifier, cur, vcpu, value, back, off>>
Rewrite ==
  /\ pc = "rewrite" /\ pc' = "forget"
  /\ hw' = [hw EXCEPT ![slot] = host[slot]]
  /\ UNCHANGED <<host, curr, notifier, cur, vcpu, todo, slot, value, back, irqs, off>>
Forget ==
  /\ pc = "forget" /\ pc' = "restore"
  /\ curr' = [curr EXCEPT ![slot] = host[slot]] /\ slot' = None
  /\ UNCHANGED <<hw, host, notifier, cur, vcpu, todo, value, back, irqs, off>>
Syscall ==
  /\ pc = "user" /\ pc' = "kernel"
  /\ UNCHANGED <<values, notifier, cur, vcpu, todo, slot, value, back, irqs, off>>

(***************************************************************************)
(* kvm_arch_hardware_disable -> drop_user_return_notifiers, from an        *)
(* interrupt: the same function, without anything in between.              *)
(***************************************************************************)
\* drop_user_return_notifiers
DropNotifiers ==
  IF registered
    THEN /\ registered' = FALSE /\ listed' = FALSE /\ unlinks' = (unlinks \/ ~listed)
         /\ hw' = [s \in Slots |-> IF host[s] # curr[s] THEN host[s] ELSE hw[s]]
         /\ curr' = host
    ELSE UNCHANGED <<notifier, hw, curr>>
HardwareDisable ==
  /\ irqs /\ ~off /\ off' = TRUE
  /\ DropNotifiers
  /\ UNCHANGED <<host, cur, vcpu, pc, todo, slot, value, back, irqs>>

Next ==
  \/ Compare \/ Write \/ Remember \/ Register \/ Mark \/ NextSlot
  \/ \E v \in Vcpus : VcpuLoad(v)
  \/ VcpuPut
  \/ \E s \in Slots, d \in Values : SetGuestMsr(s, d)
  \/ \E S \in SUBSET Slots : SetupMsrs(S)
  \/ PrepareSwitchToGuest \/ Enter \/ Exit
  \/ ReturnToUser \/ SaveIrqs \/ Unlink \/ Restore \/ Rewrite \/ Forget \/ Syscall
  \/ HardwareDisable

Spec == Init /\ [][Next]_vars

-----------------------------------------------------------------------------
(* A guest runs with its own values in the MSRs that are loaded for it, userspace *)
(* only ever with the host's, and no notifier is unlinked twice, wherever the     *)
(* interrupt that disables virtualization hits kvm_set_user_return_msr or         *)
(* kvm_on_user_return.                                                            *)
MsrsFollowMode ==
  /\ pc = "guest" => \A s \in load[cur] : hw[s] = <<data[cur][s][1], Host[2]>>
  /\ pc = "user" => hw = [s \in Slots |-> Host]
  /\ ~unlinks

-----------------------------------------------------------------------------
(***************************************************************************)
(* The inductive invariant behind MsrsFollowMode.  A value differs from    *)
(* the host's in the hardware only while curr says so (HostInv), curr says *)
(* so only with the notifier listed or already at work (HostInv), and with *)
(* virtualization on the hardware is what curr says (GuestInv).            *)
(***************************************************************************)
\* What the proofs assume of the constants.
Constants == None \notin Vcpus /\ Host = <<Host[1], Host[2]>>

Setting == {"compare", "write", "remember", "register", "mark", "next"}
Restoring == {"restore", "rewrite", "forget"}

\* What kvm_set_user_return_msr may write.
Lent == {<<d[1], Host[2]>> : d \in Values \cup {Host}}

TypeInv ==
  /\ host = [s \in Slots |-> Host]
  /\ hw \in [Slots -> Lent] /\ curr \in [Slots -> Lent] /\ value \in Lent
  /\ registered \in BOOLEAN /\ listed \in BOOLEAN /\ unlinks \in BOOLEAN
  /\ irqs \in BOOLEAN /\ off \in BOOLEAN
  /\ cur \in Vcpus \cup {None}
  /\ data \in [Vcpus -> [Slots -> Values \cup {Host}]]
  /\ load \in [Vcpus -> SUBSET Slots] /\ loaded \in [Vcpus -> BOOLEAN]
  /\ pc \in Setting \cup Restoring
              \cup {"kernel", "entry", "guest", "notified", "unmark", "user"}
  /\ todo \in SUBSET Slots
  /\ pc \in {"compare", "write", "remember", "register", "rewrite", "forget"} => slot \in Slots
  /\ back \in {"kernel", "entry"}

(* Who holds the CPU where, and that only the vCPU on it has its values loaded:   *)
(* once vmx_prepare_switch_to_guest has begun they are.                           *)
PlaceInv ==
  /\ pc \in {"entry", "guest", "unmark"} => ~irqs
  /\ pc \in Setting \cup {"entry", "guest"} => cur # None
  /\ pc \in Restoring \cup {"notified", "unmark", "user"} => cur = None
  /\ pc \in {"kernel", "entry", "guest", "notified", "unmark", "user"} => todo = {}
  /\ pc \in Setting /\ back = "kernel" => todo = {}
  /\ (pc \in Setting /\ back = "entry") \/ pc \in {"entry", "guest"} => loaded[cur]
  /\ \A v \in Vcpus : loaded[v] => v = cur
  /\ off => pc # "guest"

(* The flag and the list agree except between the two stores of registering; the  *)
(* values are restored only after unlinking.                                      *)
NotifierInv ==
  /\ IF pc = "mark" THEN listed /\ ~registered ELSE listed = registered
  /\ pc = "unmark" => registered
  /\ pc \in Restoring \cup {"user"} => ~registered
  /\ ~unlinks

Changed(s) == curr[s] # Host

(* A lent slot is known as such, unless the store of curr is the next one; a      *)
(* changed slot has the notifier on the list, or about to be, or at the slot.     *)
HostInv == \A s \in Slots :
  /\ hw[s] # Host => Changed(s) \/ (pc = "remember" /\ s = slot)
  /\ Changed(s) => \/ listed
                   \/ pc = "register" /\ s = slot
                   \/ pc \in Restoring /\ s \in todo
                   \/ pc \in {"rewrite", "forget"} /\ s = slot
  /\ pc = "remember" /\ s = slot => hw[s] \in {value, Host}
  /\ pc = "forget" /\ s = slot => hw[s] = Host

Of(s) == Masked(s, data[cur][s])
Asked(s) == pc \in {"compare", "write", "remember"} /\ s = slot

(* While virtualization is on, the hardware is what curr says, and a slot of the  *)
(* loaded vCPU has its value, is being set to it or is still to be visited.       *)
GuestInv == ~off => \A s \in Slots :
  /\ Asked(s) => value = Of(s)
  /\ pc = "remember" /\ s = slot => hw[s] = value
  /\ hw[s] = curr[s] \/ (pc \in {"remember", "forget"} /\ s = slot)
  /\ cur # None /\ loaded[cur] /\ s \in load[cur] => s \in todo \/ Asked(s) \/ curr[s] = Of(s)

UretInv == TypeInv /\ PlaceInv /\ NotifierInv /\ HostInv /\ GuestInv
=============================================================================
