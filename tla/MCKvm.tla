-------------------------------- MODULE MCKvm --------------------------------
(***************************************************************************)
(* The components that stand by themselves, one at a time: a behaviour is  *)
(* one of the components' alone, chosen in the initial state, so the       *)
(* instances add up instead of multiplying.  While another component runs  *)
(* RdtscHandler's variables rest in an initial state.  A component with a  *)
(* module of proofs is instantiated together with them, for KvmProofs.     *)
(***************************************************************************)
EXTENDS KvmParts, TLC

CONSTANTS
  Components,    \* the ones a run is about
  MaxEvents, Unit,
  MaxLength, MaxOptions, MaxWrites, MaxFrames

VARIABLE which   \* the component this behaviour is of

\* The variables from the nth on, and that they hold nothing.
from18 == <<x18, x19, x20, x21, x22>>
from16 == <<x16, x17, from18>>
from15 == <<x15, from16>>
from13 == <<x13, x14, from15>>
from12 == <<x12, from13>>
from11 == <<x11, from12>>
from9 == <<x9, x10, from11>>
from8 == <<x8, from9>>
from7 == <<x7, from8>>
from1 == <<x1, x2, x3, x4, x5, x6, from7>>
Idle18 == x18 = None /\ x19 = None /\ x20 = None /\ x21 = None /\ x22 = None
Idle16 == x16 = None /\ x17 = None /\ Idle18
Idle15 == x15 = None /\ Idle16
Idle13 == x13 = None /\ x14 = None /\ Idle15
Idle12 == x12 = None /\ Idle13
Idle11 == x11 = None /\ Idle12
Idle9 == x9 = None /\ x10 = None /\ Idle11
Idle8 == x8 = None /\ Idle9
Idle7 == x7 = None /\ Idle8
Idle1 == x1 = None /\ x2 = None /\ x3 = None /\ x4 = None /\ x5 = None /\ x6 = None /\ Idle7

MCHome == <<3, 3, 0, 3>>
Cr3s == {<<0, 0>>, <<1, 1>>}
Machines == {[sockets |-> 1, dimms |-> 1, areas |-> 2, manyCores |-> FALSE],
             [sockets |-> 2, dimms |-> 3, areas |-> 2, manyCores |-> FALSE],
             [sockets |-> 1, dimms |-> 6, areas |-> 6, manyCores |-> TRUE]}
Models == {{"quirk"},
           {"SPEC_CTRL", "XSAVES", "XFD", "MPX", "WAITPKG", "TSX_CTRL", "VIRT_SSBD", "RDTSCP",
            "TSCRATEMSR", "pv", "OSVW", "VMX", "PT", "ARCH_CAPABILITIES", "PDCM",
            "PLATFORM_INFO", "SGX_LC", "XMM3", "MCG_CTL_P", "MCG_CMCI_P", "TSC_ADJUST",
            "intel"}}
Hosts == {[hw |-> TRUE, nrips |-> TRUE, vgif |-> TRUE, vnmi |-> TRUE],
          [hw |-> TRUE, nrips |-> FALSE, vgif |-> TRUE, vnmi |-> FALSE],
          [hw |-> FALSE, nrips |-> FALSE, vgif |-> FALSE, vnmi |-> FALSE]}
Symmetry == Permutations(Vcpus)

Clock == INSTANCE MasterClockProofs WITH
  hostTsc <- x1, barred <- x2, hasMaster <- x3, work <- x4, delayed <- x5,
  generation <- x6, nr <- x7, useMaster <- x8, cycle <- x9, ns <- x10, lock <- x11,
  odd <- x12, requests <- x13, kicked <- x14, pc <- x15, retry <- x16, read <- x17,
  record <- x18, fresh <- x19, events <- x20, offset <- x21, todo <- x22

Regs == INSTANCE ControlRegsProofs WITH
  host <- x1, cpu <- x2, csL <- x3, pc <- x4, written <- x5, stale <- x6

Tables == INSTANCE Smbios WITH
  pc <- x1, usr <- x2, binfile <- x3, fields <- x4, strings <- x5, instances <- x6,
  defaults <- x7, result <- x8

Msrs == INSTANCE MsrEmulation WITH
  vendor <- x1, model <- x2, value <- x3, hasRun <- x4, shot <- x5, restored <- x6,
  writes <- x7

Events == INSTANCE SvmEventsProofs WITH
  host <- x1, pc <- x2, cpu <- x3, kick <- x4, queued <- x5, here <- x6, frames <- x7,
  inNmi <- x8, last <- x9, overtaken <- x10

\* What the proofs need of the constants.
ASSUME SuiteAssumption ==
  /\ Uret!Constants /\ Vmcs!Constants /\ Asid!Constants /\ Log!Constants /\ Clock!Constants
  /\ Apf!Constants /\ Events!Constants

SuiteInit ==
  /\ which \in Components
  /\ which = "UserReturnMsr" => Uret!Init /\ Idle18
  /\ which = "LoadedVmcs" => Vmcs!Init /\ Idle15
  /\ which = "SvmAsid" => Asid!Init /\ Idle12
  /\ which = "DirtyLog" => Log!Init /\ Idle13
  /\ which = "MasterClock" => Clock!Init
  /\ which = "StealTime" => Steal!Init /\ Idle13
  /\ which = "AsyncPf" => Apf!Init /\ Idle18
  /\ which = "ControlRegs" => Regs!Init /\ Idle7
  /\ which = "Smbios" => Tables!Init /\ Idle9
  /\ which = "MsrEmulation" => Msrs!Init /\ Idle8
  /\ which = "SvmEvents" => Events!Init /\ Idle11
  /\ which = "VendorInit" => Vendor!Init /\ Idle16
  /\ which = "RdtscHandler" => Idle1
  /\ Init /\ (which # "RdtscHandler" => clock = 1)

SuiteNext ==
  \/ which = "UserReturnMsr" /\ Uret!Next /\ UNCHANGED <<which, from18, vars>>
  \/ which = "LoadedVmcs" /\ Vmcs!Next /\ UNCHANGED <<which, from15, vars>>
  \/ which = "SvmAsid" /\ Asid!Next /\ UNCHANGED <<which, from12, vars>>
  \/ which = "DirtyLog" /\ Log!Next /\ UNCHANGED <<which, from13, vars>>
  \/ which = "MasterClock" /\ Clock!Next /\ UNCHANGED <<which, vars>>
  \/ which = "StealTime" /\ Steal!Next /\ UNCHANGED <<which, from13, vars>>
  \/ which = "AsyncPf" /\ Apf!Next /\ UNCHANGED <<which, from18, vars>>
  \/ which = "ControlRegs" /\ Regs!Next /\ UNCHANGED <<which, from7, vars>>
  \/ which = "Smbios" /\ Tables!Next /\ UNCHANGED <<which, from9, vars>>
  \/ which = "MsrEmulation" /\ Msrs!Next /\ UNCHANGED <<which, from8, vars>>
  \/ which = "SvmEvents" /\ Events!Next /\ UNCHANGED <<which, from11, vars>>
  \/ which = "VendorInit" /\ Vendor!Next /\ UNCHANGED <<which, from16, vars>>
  \/ which = "RdtscHandler" /\ Next /\ UNCHANGED <<which, from1>>

suiteVars == <<which, from1, vars>>

Suite == SuiteInit /\ [][SuiteNext]_suiteVars

-----------------------------------------------------------------------------
(* UserReturnMsr: guests run with their own MSRs, userspace with the host's, and  *)
(* no notifier is unlinked twice.                                                 *)
MsrsFollowMode == which = "UserReturnMsr" => Uret!MsrsFollowMode

(* LoadedVmcs: a VMCS is active on one CPU and in one list.                       *)
OneCpu == which = "LoadedVmcs" => Vmcs!OneCpu

(* LoadedVmcs: the vCPU is entered by the instruction its VMCS calls for.         *)
LaunchKnown == which = "LoadedVmcs" => Vmcs!LaunchKnown

(* SvmAsid: a guest hits no TLB entry of another vCPU, and none that was flushed. *)
OwnTranslations == which = "SvmAsid" => Asid!OwnTranslations

(* DirtyLog: no page written while logging is on is lost.                         *)
NoWriteLost == which = "DirtyLog" => Log!NoWriteLost

(* MasterClock: what vCPUs publish in one generation of the master clock agrees.  *)
ClockConsistent == which = "MasterClock" => Clock!ClockConsistent

(* MasterClock: vCPUs that run in the guest publish one copy of the master clock. *)
SameCopy == which = "MasterClock" => Clock!SameCopy

(* StealTime: a TLB flush the guest asked of a preempted vCPU is carried out.     *)
FlushHonoured == which = "StealTime" => Steal!FlushHonoured

(* AsyncPf: no page's arrival is lost.                                            *)
EveryPageArrives == which = "AsyncPf" => Apf!EveryPageArrives

(* ControlRegs: the guest runs in the mode it set up.                             *)
GuestModeKept == which = "ControlRegs" => Regs!GuestModeKept


(* MsrEmulation: the guest does not see its MSRs saved and restored.               *)
SnapshotHolds == which = "MsrEmulation" => Msrs!SnapshotHolds

(* SvmEvents: interrupted events return to the right place, NMIs do not nest, and  *)
(* no masked event is forgotten.                                                  *)
EventsKept == which = "SvmEvents" => Events!EventsKept

(* VendorInit: an unloaded vendor module leaves nothing behind, a loaded one has   *)
(* everything, whichever step of loading failed before.                           *)
NothingLeft == which = "VendorInit" => Vendor!NothingLeft
==============================================================================
