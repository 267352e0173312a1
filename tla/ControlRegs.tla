----------------------------- MODULE ControlRegs -----------------------------
(***************************************************************************)
(* Control registers and paging mode of one vCPU (x86.c, vmx.c, svm.c):    *)
(* MOV to CR0, CR3 and CR4, EFER, KVM_SET_SREGS and INIT, what KVM caches  *)
(* of them, and what it loads into the hardware, on VMX with and without   *)
(* EPT and unrestricted guests and on SVM with and without nested paging.  *)
(*                                                                         *)
(* A register is the set of those of its bits that matter here; CR3 is a   *)
(* page table and a PCID.  Page-directory pointers in memory are valid, so *)
(* those loaded stand for the CR3 they were loaded with.  Userspace does   *)
(* not write EFER by KVM_SET_MSRS.  Nested guests are left out.            *)
(***************************************************************************)
EXTENDS Integers

CONSTANT Cr3s      \* pairs of a page table and a PCID, both below two; Zero is one

VARIABLES
  host,          \* "urg", "ept" (no unrestricted guest), "shadow"; "npt", "svmShadow"
  cpu,           \* registers of the guest and the hardware, a record
  csL,           \* CS.L of the guest
  pc,            \* "host" or "guest"
  written,       \* history: the CR3 last written, or Unknown from INIT until it changes
  stale          \* history: PCIDs whose flush the architecture asks for and KVM has not done

vars == <<host, cpu, csL, pc, written, stale>>

Hosts == {"urg", "ept", "shadow", "npt", "svmShadow"}
Vmx == host \in {"urg", "ept", "shadow"}
Ept == host \in {"urg", "ept"}
Tdp == host \in {"urg", "ept", "npt"}
\* The guest cannot run without paging of the hardware's.
Restricted == host \in {"ept", "shadow", "svmShadow"}

Pcids == {0, 1}
Zero == <<0, 0>>
Identity == <<2, 0>> \* ept_identity_map_addr, or a direct shadow root
Unknown == <<3, 0>>

Paging(s) == "PG" \in s.cr0
LongMode(s) == "LMA" \in s.efer
PaePaging(s) == ~LongMode(s) /\ "PAE" \in s.cr4 /\ Paging(s)
\* What the MMU's role takes from the registers.
RoleOf(s) == IF Paging(s) THEN {"PG"} \cup (s.cr4 \cap {"PAE", "SMEP"}) \cup (s.efer \cap {"LMA"})
             ELSE {}
ActivePcid(s, cr3) == IF "PCIDE" \in s.cr4 THEN cr3[2] ELSE 0

Init ==
  /\ host \in Hosts /\ csL = FALSE /\ pc = "host" /\ written = Zero /\ stale = {}
  /\ cpu = [cr0 |-> {}, cr4 |-> {}, efer |-> {},        \* vcpu->arch
            cr3 |-> Zero, pdptrs |-> Zero, avail |-> {"CR3", "PDPTR"}, dirty |-> {"CR3", "PDPTR"},
            role |-> {},                                \* of vcpu->arch.mmu
            load |-> TRUE, flush |-> FALSE,             \* requests; no root counts as one
            vm86 |-> Restricted /\ Vmx, exiting |-> Restricted \/ host = "svmShadow",
            ia32e |-> FALSE, hwCr4 |-> IF host \in {"shadow", "svmShadow"} THEN {"PAE"} ELSE {},
            hwCr3 |-> Zero, hwPdptrs |-> Zero, hwRole |-> {}]

(***************************************************************************)
(* Caching.                                                                *)
(***************************************************************************)
\* kvm_read_cr3 and vmx_cache_reg.
CacheCr3(s) ==
  IF "CR3" \in s.avail THEN s
  ELSE [s EXCEPT !.avail = @ \cup {"CR3"}, !.cr3 = IF s.exiting THEN @ ELSE s.hwCr3]
ReadCr3(s) == CacheCr3(s).cr3
Dirtied(s, reg) == [s EXCEPT !.avail = @ \cup {reg}, !.dirty = @ \cup {reg}]
LoadPdptrs(s, cr3) == [Dirtied(s, "PDPTR") EXCEPT !.pdptrs = cr3, !.load = TRUE]
\* kvm_mmu_reset_context.
ResetContext(s) == [s EXCEPT !.role = RoleOf(s), !.load = TRUE]

(***************************************************************************)
(* vmx_set_efer, svm_set_efer, and the like for CR0 and CR4.               *)
(***************************************************************************)
VmxSetEfer(s, efer) == [s EXCEPT !.efer = efer, !.ia32e = ("LMA" \in efer)]
\* Under shadow paging the hardware's EFER has LME only with LMA.
SvmSetEfer(s, efer) == [s EXCEPT !.efer = efer, !.ia32e = ("LMA" \in efer)]
VendorSetEfer(s, efer) == IF Vmx THEN VmxSetEfer(s, efer) ELSE SvmSetEfer(s, efer)

\* The hardware's CR4: PAE always under shadow paging and never without paging
\* under EPT; SMEP only with paging where the hardware always pages.
With(bits, bit, on) == IF on THEN bits \cup {bit} ELSE bits \ {bit}
VmxSetCr4(s, cr4) ==
  LET pae == IF host = "urg" THEN "PAE" \in cr4
             ELSE host = "ept" => (Paging(s) /\ "PAE" \in cr4)
      smep == "SMEP" \in cr4 /\ (host = "urg" \/ Paging(s))
  IN [s EXCEPT !.cr4 = cr4, !.hwCr4 = With(With(cr4, "PAE", pae), "SMEP", smep)]
SvmSetCr4(s, cr4) ==
  LET pae == host = "svmShadow" \/ "PAE" \in cr4
      smep == "SMEP" \in cr4 /\ (host = "npt" \/ Paging(s))
  IN [s EXCEPT !.cr4 = cr4, !.hwCr4 = With(With(cr4, "PAE", pae), "SMEP", smep)]
VendorSetCr4(s, cr4) == IF Vmx THEN VmxSetCr4(s, cr4) ELSE SvmSetCr4(s, cr4)

\* enter_lmode and exit_lmode.
SwitchLongMode(s, paged) ==
  IF "LME" \in s.efer /\ paged # Paging(s)
    THEN VmxSetEfer(s, With(s.efer, "LMA", Paging(s))) ELSE s
\* Regression: CR3 exiting is switched without a look at CR3.
SnapshotCr3None(s) == s
SnapshotCr3(s) == CacheCr3(s)
\* The end of vmx_set_cr0 with EPT and without unrestricted guest.
SwitchCr3Exiting(s, paged) ==
  LET t == [SnapshotCr3(s) EXCEPT !.exiting = ~Paging(s)]
      u == IF paged # Paging(s) THEN VmxSetCr4(t, t.cr4) ELSE t
  IN IF ~paged /\ Paging(s) THEN Dirtied(u, "CR3") ELSE u
VmxSetCr0(s, cr0) ==
  LET t == SwitchLongMode([s EXCEPT !.cr0 = cr0, !.vm86 = Restricted /\ "PE" \notin cr0],
                          Paging(s))
  IN IF host = "ept" THEN SwitchCr3Exiting(t, Paging(s)) ELSE t
SvmSetCr0(s, cr0) ==
  LET pg == "PG" \in cr0
      t == IF "LME" \in s.efer /\ pg # Paging(s)
             THEN [s EXCEPT !.cr0 = cr0, !.efer = With(@, "LMA", pg), !.ia32e = pg]
             ELSE [s EXCEPT !.cr0 = cr0]
  IN IF host = "svmShadow" /\ pg # Paging(s) THEN SvmSetCr4(t, t.cr4) ELSE t
VendorSetCr0(s, cr0) == IF Vmx THEN VmxSetCr0(s, cr0) ELSE SvmSetCr0(s, cr0)

(***************************************************************************)
(* Writes by the guest, intercepted or emulated.                           *)
(***************************************************************************)
Flush(s) == [s EXCEPT !.flush = TRUE]
\* An INIT without paging leaves the hardware's CR3 as it is.
Write(cr3) == IF written = Unknown /\ cr3 = ReadCr3(cpu) THEN Unknown ELSE cr3

\* kvm_set_cr0 and kvm_post_set_cr0.
SetCr0(cr0) ==
  LET s == cpu
      pg == "PG" \in cr0
      loads == "LME" \notin s.efer /\ pg /\ "PAE" \in s.cr4 /\ pg # Paging(s)
      t == VendorSetCr0(IF loads THEN LoadPdptrs(CacheCr3(s), ReadCr3(s)) ELSE s, cr0)
      u == IF pg # Paging(s) THEN ResetContext(t) ELSE t
  IN /\ pc = "host"
     /\ pg => "PE" \in cr0
     /\ ("LME" \in s.efer /\ ~Paging(s) /\ pg) => ("PAE" \in s.cr4 /\ ~csL)
     /\ ~pg => ~(LongMode(s) /\ csL) /\ "PCIDE" \notin s.cr4
     /\ cpu' = IF Paging(s) /\ ~pg THEN Flush(u) ELSE u
     /\ stale' = IF Paging(s) /\ ~pg THEN Pcids ELSE stale
     /\ UNCHANGED <<host, csL, pc, written>>

RoleBits == {"PAE", "SMEP"}
Changed(a, b) == (a \ b) \cup (b \ a)
\* kvm_post_set_cr4: PCIDE turned off flushes all, PAE toggled or SMEP turned on
\* flush the current PCID.
PostSetCr4(t, old, new) ==
  LET u == IF Changed(old, new) \cap RoleBits # {} THEN ResetContext(t) ELSE t
      w == IF ~Tdp /\ "PCIDE" \in new \ old THEN [u EXCEPT !.load = TRUE] ELSE u
  IN IF "PCIDE" \in old \ new \/ "PAE" \in Changed(old, new) \/ "SMEP" \in new \ old
       THEN Flush(w) ELSE w
\* kvm_set_cr4.
SetCr4(cr4) ==
  LET s == cpu
      loads == ~LongMode(s) /\ Paging(s) /\ "PAE" \in cr4
                 /\ Changed(s.cr4, cr4) \cap RoleBits # {}
      t == IF loads THEN LoadPdptrs(CacheCr3(s), ReadCr3(s)) ELSE CacheCr3(s)
  IN /\ pc = "host"
     /\ LongMode(s) => "PAE" \in cr4
     /\ "PCIDE" \in cr4 \ s.cr4 => ReadCr3(s)[2] = 0 /\ LongMode(s)
     /\ cpu' = PostSetCr4(VendorSetCr4(t, cr4), s.cr4, cr4)
     /\ stale' = IF "PCIDE" \in s.cr4 \ cr4 THEN Pcids
                ELSE IF "PAE" \in Changed(s.cr4, cr4) \/ "SMEP" \in cr4 \ s.cr4
                  THEN stale \cup {ActivePcid(s, ReadCr3(s))}
                ELSE stale
     /\ UNCHANGED <<host, csL, pc, written>>

\* kvm_set_cr3, the write with or without bit 63.
SetCr3(cr3, noflush) ==
  LET s == CacheCr3(cpu)
      skips == noflush /\ "PCIDE" \in s.cr4
      t == IF PaePaging(s) THEN LoadPdptrs(s, cr3) ELSE s
      u == Dirtied([t EXCEPT !.cr3 = cr3, !.load = @ \/ cr3 # s.cr3], "CR3")
      w == IF cr3 = s.cr3 /\ ~PaePaging(s) THEN s ELSE u
  IN /\ pc = "host" /\ written' = Write(cr3)
     /\ cpu' = IF skips THEN w ELSE Flush(w)
     /\ stale' = IF skips THEN stale ELSE stale \cup {ActivePcid(s, cr3)}
     /\ UNCHANGED <<host, csL, pc>>

\* set_efer by the guest's WRMSR.
SetEfer(efer) ==
  LET s == cpu
      t == VendorSetEfer(s, (efer \ {"LMA"}) \cup (s.efer \cap {"LMA"}))
  IN /\ pc = "host"
     /\ Paging(s) => ("LME" \in s.efer <=> "LME" \in efer)
     /\ cpu' = IF "LME" \in Changed(efer, s.efer) THEN ResetContext(t) ELSE t
     /\ UNCHANGED <<host, csL, pc, written, stale>>

(***************************************************************************)
(* KVM_SET_SREGS and INIT.                                                 *)
(***************************************************************************)
\* kvm_is_valid_sregs.
ValidSregs(cr0, cr4, efer, l) ==
  /\ IF "LME" \in efer /\ "PG" \in cr0 THEN "PAE" \in cr4 /\ "LMA" \in efer
     ELSE "LMA" \notin efer /\ ~l
  /\ "PG" \in cr0 => "PE" \in cr0
\* Userspace restores a state the guest can be in.
SetSregs(cr0, cr3, cr4, efer, l) ==
  LET s == CacheCr3(cpu)
      a == Dirtied([s EXCEPT !.cr3 = cr3], "CR3")
      b == VendorSetCr4(VendorSetCr0(VendorSetEfer(a, efer), cr0), cr4)
      c == IF PaePaging(b) THEN LoadPdptrs(b, cr3) ELSE b
      resets == cr3 # s.cr3 \/ efer # s.efer \/ cr4 # s.cr4 \/ cr0 # s.cr0 \/ PaePaging(b)
  IN /\ pc = "host" /\ ValidSregs(cr0, cr4, efer, l)
     /\ "PCIDE" \in cr4 => "LMA" \in efer
     /\ cpu' = IF resets THEN Flush(ResetContext(c)) ELSE c
     /\ csL' = l /\ written' = Write(cr3) /\ UNCHANGED <<host, pc, stale>>

\* kvm_vcpu_reset of an INIT.
Reset ==
  LET a == Dirtied([cpu EXCEPT !.cr3 = Zero, !.vm86 = FALSE], "CR3")
      b == VendorSetEfer(VendorSetCr4(VendorSetCr0(a, {}), {}), {})
  IN /\ pc = "host"
     /\ cpu' = Flush(IF Paging(cpu) THEN ResetContext(b) ELSE b)
     /\ csL' = FALSE /\ written' = Unknown /\ stale' = Pcids /\ UNCHANGED <<host, pc>>

(***************************************************************************)
(* VM entry, and what the guest does by itself.                            *)
(***************************************************************************)
\* vmx_load_mmu_pgd; a shadow root has the role of the MMU.
VmxLoadPgd(s) ==
  [s EXCEPT !.hwCr3 = IF Restricted /\ ~Paging(s) THEN Identity
                      ELSE IF Ept /\ "CR3" \notin s.dirty THEN @ ELSE s.cr3,
            !.hwPdptrs = IF PaePaging(s) /\ (Ept => "PDPTR" \in s.dirty) THEN s.pdptrs ELSE @]
SvmLoadPgd(s) ==
  [s EXCEPT !.hwCr3 = IF host = "svmShadow" /\ ~Paging(s) THEN Identity ELSE s.cr3,
            !.hwPdptrs = IF PaePaging(s) THEN s.pdptrs ELSE @]
LoadPgd(s) ==
  [(IF Vmx THEN VmxLoadPgd(s) ELSE SvmLoadPgd(s)) EXCEPT !.load = FALSE, !.hwRole = s.role]
Enter ==
  LET s == IF cpu.load THEN LoadPgd(cpu) ELSE cpu
  IN /\ pc = "host" /\ pc' = "guest"
     /\ cpu' = [s EXCEPT !.flush = FALSE, !.dirty = {},
                         !.avail = IF Vmx THEN {} ELSE {"CR3"}]
     /\ stale' = IF cpu.flush THEN {} ELSE stale
     /\ UNCHANGED <<host, csL, written>>
\* svm_handle_exit.
Exit ==
  /\ pc = "guest" /\ pc' = "host"
  /\ cpu' = IF host = "npt" THEN [cpu EXCEPT !.cr3 = cpu.hwCr3] ELSE cpu
  /\ UNCHANGED <<host, csL, written, stale>>
\* MOV to CR3 without an exit: the CPU loads the pointers and flushes by itself.
GuestCr3(cr3) ==
  /\ pc = "guest" /\ ~cpu.exiting
  /\ cpu' = [cpu EXCEPT !.hwCr3 = cr3, !.hwPdptrs = IF PaePaging(cpu) THEN cr3 ELSE @]
  /\ written' = cr3 /\ UNCHANGED <<host, csL, pc, stale>>
FarJump ==
  /\ pc = "guest" /\ LongMode(cpu) /\ csL' = ~csL
  /\ UNCHANGED <<host, cpu, pc, written, stale>>

Cr0s == SUBSET {"PE", "PG"}
Cr4s == SUBSET {"PAE", "PCIDE", "SMEP"}
\* Bound of the run: userspace restores real mode, PAE paging and 64-bit mode with PCIDs.
SregsModes ==
  {[cr0 |-> {}, cr4 |-> {}, efer |-> {}, l |-> FALSE],
   [cr0 |-> {"PE", "PG"}, cr4 |-> {"PAE"}, efer |-> {}, l |-> FALSE],
   [cr0 |-> {"PE", "PG"}, cr4 |-> {"PAE", "PCIDE", "SMEP"}, efer |-> {"LME", "LMA"},
    l |-> TRUE]}
Next ==
  \/ \E c \in Cr0s : SetCr0(c)
  \/ \E c \in Cr4s : SetCr4(c)
  \/ \E c \in Cr3s : GuestCr3(c) \/ (\E n \in BOOLEAN : SetCr3(c, n))
  \/ \E e \in {{}, {"LME"}} : SetEfer(e)
  \/ \E m \in SregsModes, p \in Cr3s : SetSregs(m.cr0, p, m.cr4, m.efer, m.l)
  \/ Reset \/ Enter \/ Exit \/ FarJump

Spec == Init /\ [][Next]_vars

-----------------------------------------------------------------------------
KnownCr3 == written # Unknown

(* The guest runs in the mode it set up, after any sequence of writes: its CR3 as *)
(* last written is what KVM reads and, with paging, what the hardware uses, with  *)
(* the page-directory pointers and the MMU role that belong to it; VM entry finds *)
(* long mode, PAE and PCIDs consistent; and no translation the architecture has   *)
(* flushed is left under the PCID in use.                                         *)
GuestModeKept ==
  pc = "guest" =>
    LET s == cpu IN
    /\ KnownCr3 => ReadCr3([s EXCEPT !.avail = IF host = "npt" THEN {} ELSE @]) = written
    /\ IF Paging(s) THEN KnownCr3 => s.hwCr3 = written ELSE Restricted => s.hwCr3 = Identity
    /\ (PaePaging(s) /\ host # "npt" /\ KnownCr3) => s.hwPdptrs = written
    /\ Paging(s) => s.hwRole = RoleOf(s)
    /\ LongMode(s) <=> ("LME" \in s.efer /\ Paging(s))
    /\ s.ia32e <=> LongMode(s)
    /\ s.ia32e => "PAE" \in s.hwCr4
    /\ "PCIDE" \in s.hwCr4 => s.ia32e
    /\ (s.vm86 /\ Vmx) => ~Paging(s)
    /\ (Restricted /\ host # "shadow" /\ ~Paging(s)) => "SMEP" \notin s.hwCr4
    /\ (host # "shadow" /\ Paging(s)) => ("SMEP" \in s.hwCr4 <=> "SMEP" \in s.cr4)
    /\ KnownCr3 => ActivePcid(s, written) \notin stale
=============================================================================
