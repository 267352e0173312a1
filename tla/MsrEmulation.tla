---------------------------- MODULE MsrEmulation ----------------------------
(***************************************************************************)
(* What WRMSR and RDMSR of the guest and KVM_SET_MSRS and KVM_GET_MSRS of  *)
(* userspace do with the MSRs that KVM keeps for a vCPU (kvm_set_msr_common*)
(* and kvm_get_msr_common in x86.c, vmx_set_msr and vmx_get_msr, and their *)
(* like in svm.c), and with them userspace's snapshots: it reads all MSRs  *)
(* that KVM lists, and later writes them, to a new vCPU or to the same.    *)
(*                                                                         *)
(* An MSR's value is a set of bits: "v" stands for any valid ones, "r" for *)
(* a reserved one.  One MSR stands for those treated alike.  The host has  *)
(* every feature; model is what the guest's CPUID and KVM_SET_CPUID2 give. *)
(* MSRs kept elsewhere are left out: TSC, MTRRs, the local APIC's, PMU and *)
(* Hyper-V MSRs, EFER and segment bases, and what only nested guests use.  *)
(***************************************************************************)
EXTENDS Integers, Sequences, SequencesExt

CONSTANTS
  Models,        \* the features of guests
  MaxWrites      \* bound of the run: writes of the guest

VARIABLES
  vendor,        \* "vmx" or "svm"
  model,         \* guest_cpuid_has, and "quirk" for KVM_X86_QUIRK_MISC_ENABLE_NO_MWAIT
  value,         \* what KVM keeps of each MSR
  hasRun,        \* kvm_vcpu_has_run
  shot,          \* userspace's snapshot: what was read, and (history) value then
  restored,      \* history: the snapshot was just written
  writes         \* bound of the run

vars == <<vendor, model, value, hasRun, shot, restored, writes>>

(***************************************************************************)
(* The MSRs.                                                               *)
(***************************************************************************)
\* The feature a guest needs, userspace does not.
GuestNeeds ==
  [SPEC_CTRL |-> "SPEC_CTRL", XSS |-> "XSAVES", XFD |-> "XFD", BNDCFGS |-> "MPX",
   UMWAIT_CONTROL |-> "WAITPKG", TSX_CTRL |-> "TSX_CTRL", VIRT_SPEC_CTRL |-> "VIRT_SSBD",
   TSC_AUX |-> "RDTSCP", TSC_RATIO |-> "TSCRATEMSR", PRED_CMD |-> "SPEC_CTRL"]
\* The feature without which nobody has the MSR.
AllNeed ==
  [SYSTEM_TIME |-> "pv", SYSTEM_TIME_NEW |-> "pv", WALL_CLOCK |-> "pv", WALL_CLOCK_NEW |-> "pv",
   ASYNC_PF_EN |-> "pv", STEAL_TIME |-> "pv", PV_EOI_EN |-> "pv", POLL_CONTROL |-> "pv",
   OSVW |-> "OSVW", VMX_BASIC |-> "VMX", RTIT_CTL |-> "PT", RTIT_STATUS |-> "PT"]
\* The feature a guest needs to read it.
GuestReadNeeds ==
  [ARCH_CAPABILITIES |-> "ARCH_CAPABILITIES", PERF_CAPABILITIES |-> "PDCM",
   PLATFORM_INFO |-> "PLATFORM_INFO", SGX_HASH |-> "SGX_LC"]

HostWritten == {"ARCH_CAPABILITIES", "PERF_CAPABILITIES", "SMBASE", "SMI_COUNT",
                "PLATFORM_INFO", "VMX_BASIC"}
Immutable == {"ARCH_CAPABILITIES", "PERF_CAPABILITIES", "VMX_BASIC", "DE_CFG"}
\* Writes are ignored: NB_CFG and the like read as zero, CLK_CTL and BBL_CR_CTL3
\* as a constant; commands cannot be read.
Ignored == {"NB_CFG", "CLK_CTL"}
Commands == {"PRED_CMD"}
\* Every value is stored.
Unchecked == {"KERNEL_GS_BASE", "STAR", "SYSENTER_EIP", "SYSENTER_CS", "POWER_CTL", "UCODE_REV",
              "SMBASE", "SMI_COUNT", "SYSTEM_TIME", "SYSTEM_TIME_NEW", "WALL_CLOCK",
              "WALL_CLOCK_NEW", "OSVW", "TSC_ADJUST", "MCG_STATUS", "ARCH_CAPABILITIES",
              "SGX_HASH", "MISC_ENABLE", "NB_CFG", "CLK_CTL"}
OfVmx == {"BNDCFGS", "UMWAIT_CONTROL", "TSX_CTRL", "MCG_EXT_CTL", "FEAT_CTL", "SGX_HASH",
          "VMX_BASIC", "RTIT_CTL", "RTIT_STATUS"}
OfSvm == {"TSC_RATIO", "VIRT_SPEC_CTRL", "DE_CFG"}

\* msrs_to_save_base and emulated_msrs_all, in their order.
SaveOrder ==
  <<"SYSENTER_CS", "SYSENTER_EIP", "STAR", "KERNEL_GS_BASE", "PAT", "HSAVE_PA", "FEAT_CTL",
    "BNDCFGS", "TSC_AUX", "SPEC_CTRL", "TSX_CTRL", "RTIT_CTL", "RTIT_STATUS", "UMWAIT_CONTROL",
    "XFD", "SYSTEM_TIME", "WALL_CLOCK", "SYSTEM_TIME_NEW", "WALL_CLOCK_NEW", "ASYNC_PF_EN",
    "STEAL_TIME", "PV_EOI_EN", "TSC_ADJUST", "ARCH_CAPABILITIES", "PERF_CAPABILITIES",
    "MISC_ENABLE", "MCG_STATUS", "MCG_CTL", "MCG_EXT_CTL", "SMBASE", "SMI_COUNT",
    "PLATFORM_INFO", "MISC_FEATURES", "VIRT_SPEC_CTRL", "TSC_RATIO", "POWER_CTL", "UCODE_REV",
    "VMX_BASIC", "HWCR", "POLL_CONTROL">>
Unlisted == {"XSS", "OSVW", "MC_CTL", "MC_STATUS", "MC_CTL2", "SGX_HASH", "DE_CFG",
             "NB_CFG", "CLK_CTL", "PRED_CMD"}
Saved == ToSet(SaveOrder)
Msrs == Saved \cup Unlisted
Exists(m) == m \notin (IF vendor = "vmx" THEN OfSvm ELSE OfVmx)

Bits(m) ==
  CASE m = "FEAT_CTL" -> {"LOCKED", "LMCE", "SGX_LC"}
    [] m = "MISC_ENABLE" -> {"MWAIT", "RO", "EMON"}
    [] m = "RTIT_CTL" -> {"TRACEEN", "v"}
    [] m \in {"SYSENTER_EIP", "TSC_AUX", "SYSENTER_CS"} -> {"v", "hi"}
    [] m = "HWCR" -> {"McStatusWrEn", "ignored"}
    [] OTHER -> {"v"}
Data(m) == IF m \in Unchecked THEN SUBSET Bits(m) ELSE SUBSET Bits(m) \cup {{"r"}}

\* Two MSRs for one value.
Kept(m) == CASE m = "SYSTEM_TIME_NEW" -> "SYSTEM_TIME" [] m = "WALL_CLOCK_NEW" -> "WALL_CLOCK"
             [] OTHER -> m

\* kvm_arch_vcpu_create, and the values userspace gives feature MSRs.
Reset == [m \in Msrs |->
            CASE m \in {"PLATFORM_INFO", "TSC_RATIO", "DE_CFG", "CLK_CTL", "PAT"} -> {"v"}
              [] m = "MISC_ENABLE" -> {"RO"}
              [] OTHER -> {}]
Configured == {"ARCH_CAPABILITIES", "PERF_CAPABILITIES", "PLATFORM_INFO", "VMX_BASIC", "SMBASE"}

(***************************************************************************)
(* Writes.  Each operator says when kvm_set_msr_common or the vendor's     *)
(* function returns 1 for the MSR in its name.                             *)
(***************************************************************************)
Has(f) == f \in model
Changed(a, b) == (a \ b) \cup (b \ a)
Emulated(s, m, data, host) ==
  CASE m = "TSC_AUX" -> data \ {"hi"}
    [] m = "SYSENTER_CS" /\ vendor = "vmx" -> data \ {"hi"}
    [] m = "SYSENTER_EIP" /\ vendor = "svm" /\ ~Has("intel") -> data \ {"hi"}
    [] m = "HWCR" -> data \ {"ignored"}
    [] m = "HSAVE_PA" -> data \ {"r"}
    [] m = "MISC_ENABLE" /\ ~host -> (data \ {"EMON"}) \cup (s[m] \cap {"EMON"})
    [] OTHER -> data

Missing(m, host) ==
  \/ ~Exists(m)
  \/ m \in DOMAIN AllNeed /\ ~Has(AllNeed[m])
  \/ m \in DOMAIN GuestNeeds /\ ~host /\ ~Has(GuestNeeds[m])
Reserved(m, data, host) ==
  "r" \in data /\ m \notin Unchecked /\ ~(m = "HSAVE_PA" /\ (host \/ vendor = "vmx"))
BadMiscEnable(s, data, host) ==
  \/ ~host /\ "RO" \in Changed(s["MISC_ENABLE"], data)
  \/ /\ "MWAIT" \in Changed(s["MISC_ENABLE"], data)
     /\ ~Has("quirk") /\ ~Has("XMM3")
BadMce(s, m, data, host) ==
  \/ m = "MCG_CTL" /\ ~Has("MCG_CTL_P") /\ (data # {} \/ ~host)
  \/ m = "MC_CTL2" /\ ~Has("MCG_CMCI_P") /\ (data # {} \/ ~host)
  \/ m = "MC_STATUS" /\ ~host /\ data # {} /\ ~("McStatusWrEn" \in s["HWCR"] /\ ~Has("intel"))
  \/ m = "MCG_EXT_CTL" /\ ~host /\ "LMCE" \notin s["FEAT_CTL"]
\* Regression: userspace too is bound by the lock.
LockedForAll(s, host) == "LOCKED" \in s["FEAT_CTL"]
Locked(s, host) == ~host /\ "LOCKED" \in s["FEAT_CTL"]
BadSgxHash(s, host) ==
  ~host /\ (~Has("SGX_LC") \/ ("LOCKED" \in s["FEAT_CTL"] /\ "SGX_LC" \notin s["FEAT_CTL"]))
Tracing(s) == "TRACEEN" \in s["RTIT_CTL"]
\* vmx_rtit_ctl_check: control may not change but to stop tracing.
BadTraceControl(s, data) == Tracing(s) /\ Changed(s["RTIT_CTL"], data) \ {"TRACEEN"} # {}
\* cpuid_fault_enabled, supports_cpuid_fault.
BadCpuidFault(s, m, data) ==
  \/ m = "PLATFORM_INFO" /\ data = {} /\ s["MISC_FEATURES"] # {}
  \/ m = "MISC_FEATURES" /\ data # {} /\ s["PLATFORM_INFO"] = {}

Refused(s, m, data, host) ==
  \/ Missing(m, host)
  \/ m \in HostWritten /\ ~host
  \/ Reserved(m, data, host)
  \/ m = "MISC_ENABLE" /\ BadMiscEnable(s, Emulated(s, m, data, host), host)
  \/ BadMce(s, m, data, host)
  \/ m = "FEAT_CTL" /\ Locked(s, host)
  \/ m = "SGX_HASH" /\ BadSgxHash(s, host)
  \/ m = "RTIT_CTL" /\ BadTraceControl(s, data)
  \/ m = "RTIT_STATUS" /\ Tracing(s)                \* pt_can_write_msr
  \/ m \in {"PLATFORM_INFO", "MISC_FEATURES"} /\ BadCpuidFault(s, m, data)
  \/ m = "TSC_AUX" /\ "hi" \in data /\ Has("intel")
  \/ m = "TSC_RATIO" /\ ~Has("TSCRATEMSR") /\ data \notin {{}, s[m]}
  \/ m = "DE_CFG" /\ ~host /\ data # {"v"}

\* A write that is accepted and stores nothing.
Dropped(m, host) ==
  \/ m \in Ignored \cup Commands \/ (m = "HSAVE_PA" /\ vendor = "vmx")
  \/ m = "UCODE_REV" /\ ~host
  \/ m = "TSC_ADJUST" /\ ~Has("TSC_ADJUST")
  \/ m = "TSC_RATIO" /\ ~Has("TSCRATEMSR")
Written(s, m, data, host) ==
  IF Refused(s, m, data, host) \/ Dropped(m, host) THEN s
  ELSE [s EXCEPT ![Kept(m)] = Emulated(s, m, data, host)]

(***************************************************************************)
(* Reads: the value, or #GP.                                               *)
(***************************************************************************)
Fault == {"GP"}
MceFault(s, m, host) ==
  ~host /\ \/ m = "MCG_CTL" /\ ~Has("MCG_CTL_P")
           \/ m = "MC_CTL2" /\ ~Has("MCG_CMCI_P")
           \/ m = "MCG_EXT_CTL" /\ "LMCE" \notin s["FEAT_CTL"]
CommonFault(m, host) ==
  \/ m \in Commands
  \/ ~host /\ m \in DOMAIN GuestReadNeeds /\ ~Has(GuestReadNeeds[m])
  \/ ~host /\ m = "SMBASE"
Read(s, m, host) ==
  IF Missing(m, host) \/ MceFault(s, m, host) \/ CommonFault(m, host) THEN Fault ELSE s[Kept(m)]
\* kvm_emulate_rdmsr of this version makes the guest's read of one MSR fault.
GuestRead(s, m) == IF m = "WALL_CLOCK_NEW" THEN Fault ELSE Read(s, m, FALSE)

(***************************************************************************)
(* Steps.                                                                  *)
(***************************************************************************)
NoShot == [data |-> <<>>, value |-> Reset]
Init ==
  /\ vendor \in {"vmx", "svm"} /\ model \in Models
  /\ value = [m \in Msrs |-> IF m \in Configured THEN {"v"} ELSE Reset[m]]
  /\ hasRun = FALSE /\ shot = NoShot /\ restored = FALSE /\ writes = 0

\* kvm_emulate_wrmsr.
GuestWrite(m, data) ==
  /\ writes < MaxWrites /\ ~restored
  /\ ~Refused(value, m, data, FALSE)
  /\ value' = Written(value, m, data, FALSE)
  /\ hasRun' = TRUE /\ writes' = writes + 1
  /\ UNCHANGED <<vendor, model, shot, restored>>

\* KVM_GET_MSRS of every MSR in the list that can be read (kvm_init_msr_lists).
Readable(m) == Read(value, m, TRUE) # Fault
Snapshot ==
  /\ shot = NoShot /\ ~restored
  /\ LET msrs == SelectSeq(SaveOrder, Readable)
     IN shot' = [data |-> [i \in DOMAIN msrs |->
                             [msr |-> msrs[i], data |-> Read(value, msrs[i], TRUE)]],
                 value |-> value]
  /\ UNCHANGED <<vendor, model, value, hasRun, restored, writes>>

\* do_set_msr, and __msr_io, which stops at the first write refused.
SetOne(t, e) ==
  LET immutable == t.run /\ e.msr \in Immutable
      refused == IF immutable THEN e.data # Read(t.s, e.msr, TRUE)
                 ELSE Refused(t.s, e.msr, e.data, TRUE)
  IN IF t.stopped \/ refused THEN [t EXCEPT !.stopped = TRUE]
     ELSE IF immutable THEN t ELSE [t EXCEPT !.s = Written(t.s, e.msr, e.data, TRUE)]
SetAll(t, data) ==
  LET after[i \in 0..Len(data)] == IF i = 0 THEN t ELSE SetOne(after[i - 1], data[i])
  IN after[Len(data)]
\* KVM_SET_MSRS of the snapshot, on a new vCPU or on the one that ran.
Restore ==
  /\ shot.data # <<>> /\ ~restored
  /\ \E fresh \in BOOLEAN :
       /\ value' = SetAll([s |-> IF fresh THEN Reset ELSE value, stopped |-> FALSE,
                           run |-> ~fresh /\ hasRun], shot.data).s
       /\ hasRun' = (~fresh /\ hasRun)
  /\ restored' = TRUE
  /\ UNCHANGED <<vendor, model, shot, writes>>

\* The guest goes on; one snapshot is enough.
Done == restored /\ UNCHANGED vars

Next ==
  \/ \E m \in Msrs : \E data \in Data(m) : GuestWrite(m, data)
  \/ Snapshot \/ Restore \/ Done

Spec == Init /\ [][Next]_vars

(***************************************************************************)
(* Properties.                                                             *)
(***************************************************************************)
\* What the guest reads after a snapshot was written is what it read when the
\* snapshot was taken: no MSR that KVM lists depends on one written after it, is
\* refused to userspace though the guest could write it, or is stored otherwise.
\* Processor trace is the exception: while the guest traces, its other MSRs can
\* be written by nobody, and the list has the one that starts tracing first.
SnapshotHolds ==
  restored /\ ~Tracing(shot.value) /\ ~Tracing(value) =>
    \A i \in DOMAIN SaveOrder :
      GuestRead(value, SaveOrder[i]) = GuestRead(shot.value, SaveOrder[i])

=============================================================================
