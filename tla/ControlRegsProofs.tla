-------------------------- MODULE ControlRegsProofs --------------------------
(***************************************************************************)
(* GuestModeKept for any page tables and PCIDs: after any writes of the    *)
(* registers by the guest, userspace or INIT, the guest runs in the mode   *)
(* and on the page tables that it set up, on all five kinds of host.       *)
(*                                                                         *)
(* Each operation is first reduced to what it makes of the fields of cpu   *)
(* (the lemmas named ...Is), as the code reaches it through three or four  *)
(* functions; the invariant is then kept by case on the mode.              *)
(***************************************************************************)
EXTENDS ControlRegs, TLAPS

(* The inductive invariant.  At any time, and not only in the guest: *)
(* the registers go together and the hardware's follow from them; what is cached  *)
(* of CR3 is what was last written, but for the guest under nested paging, which  *)
(* may have moved on; a guest entered now would run on that CR3, with its page-   *)
(* directory pointers and its role; and a PCID to be flushed has a flush pending. *)
Cr3Values == Cr3s \cup {Zero, Identity}
Cpu == [cr0 : Cr0s, cr4 : Cr4s, efer : SUBSET {"LME", "LMA"}, cr3 : Cr3Values,
        pdptrs : Cr3Values, avail : SUBSET {"CR3", "PDPTR"}, dirty : SUBSET {"CR3", "PDPTR"},
        role : SUBSET {"PG", "PAE", "SMEP", "LMA"}, load : BOOLEAN, flush : BOOLEAN,
        vm86 : BOOLEAN, exiting : BOOLEAN, ia32e : BOOLEAN, hwCr4 : Cr4s,
        hwCr3 : Cr3Values, hwPdptrs : Cr3Values, hwRole : SUBSET {"PG", "PAE", "SMEP", "LMA"}]
TypeInv == host \in Hosts /\ pc \in {"host", "guest"} /\ cpu \in Cpu

Exiting(s) == IF host = "ept" THEN ~Paging(s) ELSE Restricted
HwCr4(s) == VendorSetCr4(s, s.cr4).hwCr4
ModeInv(s) ==
  /\ Paging(s) => "PE" \in s.cr0
  /\ LongMode(s) <=> ("LME" \in s.efer /\ Paging(s))
  /\ LongMode(s) => "PAE" \in s.cr4
  /\ "PCIDE" \in s.cr4 => LongMode(s)
  /\ s.ia32e <=> LongMode(s)
  /\ Vmx => (s.vm86 <=> (Restricted /\ "PE" \notin s.cr0))
  /\ s.exiting <=> Exiting(s)
  \* vmx_set_cr0 does not look at SMEP again under shadow paging.
  /\ s.hwCr4 = HwCr4(s) \/ (host = "shadow" /\ s.hwCr4 \cup {"SMEP"} = HwCr4(s) \cup {"SMEP"})

CacheInv(s) ==
  /\ s.dirty \subseteq s.avail /\ (Vmx \/ "CR3" \in s.avail)
  /\ pc = "guest" => ~s.load /\ ~s.flush /\ s.dirty = {} /\ (Vmx => s.avail = {})
  /\ KnownCr3 => IF host = "npt" /\ pc = "guest" THEN s.hwCr3 = written
                 ELSE ReadCr3(s) = written

\* What the hardware has when the guest runs.
Loaded(s) == IF s.load THEN LoadPgd(s) ELSE s
EntryInv(s, cr3) ==
  /\ IF Restricted /\ ~Paging(s) THEN Loaded(s).hwCr3 = Identity
     ELSE cr3 # Unknown => Loaded(s).hwCr3 = cr3
  /\ (PaePaging(s) /\ host # "npt" /\ cr3 # Unknown) => Loaded(s).hwPdptrs = cr3
  /\ s.role = RoleOf(s) /\ Loaded(s).hwRole = s.role

RegsInv ==
  /\ TypeInv /\ ModeInv(cpu) /\ CacheInv(cpu) /\ EntryInv(cpu, written)
  /\ cpu.flush \/ stale = {}

-----------------------------------------------------------------------------
(* What the operators of ControlRegs return, field by field.                      *)
\* What VmxSetCr4 and SvmSetCr4 give the hardware.
HwBits(paging, cr4) ==
  LET pae == IF host \in {"urg", "npt"} THEN "PAE" \in cr4
             ELSE host = "ept" => (paging /\ "PAE" \in cr4)
      smep == "SMEP" \in cr4 /\ (host \in {"urg", "npt"} \/ paging)
  IN With(With(cr4, "PAE", pae), "SMEP", smep)

LEMMA HwBitsType ==
  ASSUME NEW paging, NEW cr4 \in Cr4s
  PROVE  HwBits(paging, cr4) \in Cr4s
  BY DEF HwBits, With, Cr4s

LEMMA VendorCr4 ==
  ASSUME host \in Hosts, NEW s, NEW cr4
  PROVE  VendorSetCr4(s, cr4) = [s EXCEPT !.cr4 = cr4, !.hwCr4 = HwBits(Paging(s), cr4)]
<1>1. CASE Vmx
  <2>1. (IF host = "urg" THEN "PAE" \in cr4 ELSE host = "ept" => (Paging(s) /\ "PAE" \in cr4))
        <=> (IF host \in {"urg", "npt"} THEN "PAE" \in cr4
             ELSE host = "ept" => (Paging(s) /\ "PAE" \in cr4))
    BY <1>1 DEF Vmx
  <2>2. (host = "urg" \/ Paging(s)) <=> (host \in {"urg", "npt"} \/ Paging(s))
    BY <1>1 DEF Vmx
  <2> QED  BY <1>1, <2>1, <2>2, Zenon DEF VendorSetCr4, VmxSetCr4, HwBits
<1>2. CASE ~Vmx
  <2>1. (host = "svmShadow" \/ "PAE" \in cr4)
        <=> (IF host \in {"urg", "npt"} THEN "PAE" \in cr4
             ELSE host = "ept" => (Paging(s) /\ "PAE" \in cr4))
    BY <1>2 DEF Vmx, Hosts
  <2>2. (host = "npt" \/ Paging(s)) <=> (host \in {"urg", "npt"} \/ Paging(s))
    BY <1>2 DEF Vmx
  <2>3. VendorSetCr4(s, cr4) = SvmSetCr4(s, cr4)
    BY <1>2 DEF VendorSetCr4
  <2>4. HwBits(Paging(s), cr4)
        = With(With(cr4, "PAE", host = "svmShadow" \/ "PAE" \in cr4), "SMEP",
               "SMEP" \in cr4 /\ (host = "npt" \/ Paging(s)))
    BY <2>1, <2>2 DEF HwBits, With
  <2> QED  BY <2>3, <2>4 DEF SvmSetCr4
<1> QED  BY <1>1, <1>2

LEMMA HwCr4Is ==
  ASSUME host \in Hosts, NEW s \in Cpu
  PROVE  HwCr4(s) = HwBits(Paging(s), s.cr4)
<1>1. HwBits(Paging(s), s.cr4) \in Cr4s  BY HwBitsType DEF Cpu
<1>2. VendorSetCr4(s, s.cr4) = [s EXCEPT !.cr4 = s.cr4, !.hwCr4 = HwBits(Paging(s), s.cr4)]
  BY VendorCr4
<1> QED  BY <1>1, <1>2 DEF HwCr4, Cpu

LEMMA HwBitsPaging ==
  ASSUME NEW p, NEW q, NEW cr4 \in Cr4s
  PROVE  /\ host \in {"urg", "npt"} => HwBits(p, cr4) = HwBits(q, cr4)
         /\ host = "shadow" => HwBits(p, cr4) \cup {"SMEP"} = HwBits(q, cr4) \cup {"SMEP"}
  BY DEF HwBits, With

\* Which bits of CR4 the hardware has.
LEMMA HwBitsHas ==
  ASSUME NEW p \in BOOLEAN, NEW cr4
  PROVE  /\ "PAE" \in cr4 /\ p => "PAE" \in HwBits(p, cr4)
         /\ "PCIDE" \in HwBits(p, cr4) <=> "PCIDE" \in cr4
         /\ "SMEP" \in HwBits(p, cr4) <=> ("SMEP" \in cr4 /\ (host \in {"urg", "npt"} \/ p))
<1> DEFINE pae == IF host \in {"urg", "npt"} THEN "PAE" \in cr4
                  ELSE host = "ept" => (p /\ "PAE" \in cr4)
           smep == "SMEP" \in cr4 /\ (host \in {"urg", "npt"} \/ p)
<1>1. HwBits(p, cr4) = With(With(cr4, "PAE", pae), "SMEP", smep)  BY DEF HwBits
<1>2. "PAE" \in cr4 /\ p => pae  OBVIOUS
<1> HIDE DEF pae
<1>3. /\ pae => "PAE" \in HwBits(p, cr4)
      /\ "PCIDE" \in HwBits(p, cr4) <=> "PCIDE" \in cr4
      /\ "SMEP" \in HwBits(p, cr4) <=> smep
  BY <1>1 DEF With
<1> QED  BY <1>2, <1>3

LEMMA VendorEfer ==
  ASSUME NEW s, NEW efer
  PROVE  VendorSetEfer(s, efer) = [s EXCEPT !.efer = efer, !.ia32e = ("LMA" \in efer)]
  BY DEF VendorSetEfer, VmxSetEfer, SvmSetEfer

\* kvm_read_cr3 returns what is cached, or the hardware's when nothing is.
LEMMA ReadIs ==
  ASSUME NEW s \in Cpu
  PROVE  /\ ReadCr3(s) = IF "CR3" \in s.avail \/ s.exiting THEN s.cr3 ELSE s.hwCr3
         /\ CacheCr3(s) = [s EXCEPT !.avail = @ \cup {"CR3"}, !.cr3 = ReadCr3(s)]
         /\ ReadCr3(s) \in Cr3Values
<1>1. CASE "CR3" \in s.avail
  <2>1. s.avail \cup {"CR3"} = s.avail BY <1>1 DEF Cpu
  <2>2. s = [s EXCEPT !.avail = s.avail, !.cr3 = s.cr3] BY DEF Cpu
  <2> QED BY <1>1, <2>1, <2>2 DEF ReadCr3, CacheCr3, Cpu
<1>2. CASE "CR3" \notin s.avail BY <1>2 DEF ReadCr3, CacheCr3, Cpu
<1> QED BY <1>1, <1>2

\* LoadPgd loads CR3 and the page-directory pointers that are dirty.
LEMMA LoadedIs ==
  ASSUME NEW s \in Cpu, host \in Hosts
  PROVE  /\ Loaded(s).hwCr3 = IF ~s.load THEN s.hwCr3
                              ELSE IF Restricted /\ ~Paging(s) THEN Identity
                              ELSE IF Ept /\ "CR3" \notin s.dirty THEN s.hwCr3 ELSE s.cr3
         /\ Loaded(s).hwPdptrs = IF s.load /\ PaePaging(s) /\ (Ept => "PDPTR" \in s.dirty)
                                   THEN s.pdptrs ELSE s.hwPdptrs
         /\ Loaded(s).hwRole = IF s.load THEN s.role ELSE s.hwRole
         /\ s.load => LoadPgd(s) = [s EXCEPT !.load = FALSE, !.hwRole = s.role,
                                             !.hwCr3 = Loaded(s).hwCr3,
                                             !.hwPdptrs = Loaded(s).hwPdptrs]
<1>1. CASE ~s.load  BY <1>1 DEF Loaded
<1>2. CASE s.load /\ Vmx
  <2>1. Loaded(s) = [VmxLoadPgd(s) EXCEPT !.load = FALSE, !.hwRole = s.role]
    BY <1>2 DEF Loaded, LoadPgd
  <2> QED  BY <1>2, <2>1 DEF VmxLoadPgd, Cpu, Loaded
<1>3. CASE s.load /\ ~Vmx
  <2>1. Loaded(s) = [SvmLoadPgd(s) EXCEPT !.load = FALSE, !.hwRole = s.role]
    BY <1>3 DEF Loaded, LoadPgd
  <2>2. ~Ept /\ (Restricted <=> host = "svmShadow")
    BY <1>3 DEF Hosts, Vmx, Ept, Restricted
  <2> QED  BY <1>3, <2>1, <2>2 DEF SvmLoadPgd, Cpu, Loaded
<1> QED  BY <1>1, <1>2, <1>3

\* What s and t agree on.
SameCr3(s, t) == t.cr3 = s.cr3 /\ t.avail = s.avail /\ t.dirty = s.dirty
SameRest(s, t) ==
  /\ t.pdptrs = s.pdptrs /\ t.role = s.role /\ (t.load <=> s.load) /\ (t.flush <=> s.flush)
  /\ t.hwCr3 = s.hwCr3 /\ t.hwPdptrs = s.hwPdptrs /\ t.hwRole = s.hwRole
\* What VendorSetCr0 makes of s: first what CR0 and EFER become, then the rest.
Cr0Long(s, t, cr0) ==
  LET pg == "PG" \in cr0
      switches == "LME" \in s.efer /\ pg # Paging(s)
  IN /\ t \in Cpu /\ t.cr0 = cr0 /\ t.cr4 = s.cr4
     /\ t.efer = IF switches THEN With(s.efer, "LMA", pg) ELSE s.efer
     /\ t.ia32e <=> IF switches THEN pg ELSE s.ia32e
     /\ t.vm86 <=> IF Vmx THEN Restricted /\ "PE" \notin cr0 ELSE s.vm86
     /\ SameRest(s, t)
Cr0Set(s, t, cr0) ==
  LET pg == "PG" \in cr0
  IN /\ Cr0Long(s, t, cr0)
     /\ t.exiting <=> IF host = "ept" THEN ~pg ELSE s.exiting
     /\ t.hwCr4 = IF host \in {"ept", "svmShadow"} /\ pg # Paging(s) THEN HwBits(pg, s.cr4)
                  ELSE s.hwCr4
     /\ t.cr3 = IF host = "ept" THEN ReadCr3(s) ELSE s.cr3
     /\ t.avail = IF host = "ept" THEN s.avail \cup {"CR3"} ELSE s.avail
     /\ t.dirty = IF host = "ept" /\ pg /\ ~Paging(s) THEN s.dirty \cup {"CR3"} ELSE s.dirty

\* The first part of VmxSetCr0 and of SvmSetCr0.
VmxLong(s, cr0) ==
  SwitchLongMode([s EXCEPT !.cr0 = cr0, !.vm86 = Restricted /\ "PE" \notin cr0], Paging(s))
SvmLong(s, cr0) ==
  IF "LME" \in s.efer /\ ("PG" \in cr0) # Paging(s)
    THEN [s EXCEPT !.cr0 = cr0, !.efer = With(@, "LMA", "PG" \in cr0), !.ia32e = ("PG" \in cr0)]
    ELSE [s EXCEPT !.cr0 = cr0]
LongSet(s, t, cr0) ==
  /\ Cr0Long(s, t, cr0) /\ SameCr3(s, t) /\ (t.exiting <=> s.exiting) /\ t.hwCr4 = s.hwCr4

LEMMA LongModeVmx ==
  ASSUME NEW s \in Cpu, Vmx, NEW cr0 \in Cr0s
  PROVE  LongSet(s, VmxLong(s, cr0), cr0)
<1> DEFINE pg == "PG" \in cr0
           vm == Restricted /\ "PE" \notin cr0
           switches == "LME" \in s.efer /\ pg # Paging(s)
           b == [s EXCEPT !.cr0 = cr0, !.vm86 = vm]
           lma == With(s.efer, "LMA", pg)
           t == VmxLong(s, cr0)
<1> SUFFICES LongSet(s, t, cr0)  OBVIOUS
<1>0. pg \in BOOLEAN  OBVIOUS
<1>1. lma \in SUBSET {"LME", "LMA"} /\ ("LMA" \in lma <=> pg)
  BY DEF With, Cpu
<1>2. vm \in BOOLEAN  BY DEF Restricted
<1>3. t = IF switches THEN [b EXCEPT !.efer = lma, !.ia32e = ("LMA" \in lma)] ELSE b
  BY DEF Cpu, SwitchLongMode, VmxSetEfer, Paging, VmxLong
<1>4. CASE switches
  <2>0. ("LMA" \in lma) = pg  BY <1>1
  <2>1. t = [b EXCEPT !.efer = lma, !.ia32e = pg]  BY <1>3, <1>4, <2>0, Zenon
  <2> HIDE DEF vm, t, lma
  <2>2. t \in Cpu  BY <1>0, <1>1, <1>2, <2>1 DEF Cpu
  <2> USE DEF vm, lma
  <2> HIDE DEF vm, lma
  <2>3. /\ t.cr0 = cr0 /\ t.cr4 = s.cr4 /\ t.efer = lma /\ (t.ia32e <=> pg) /\ (t.vm86 <=> vm)
        /\ (t.exiting <=> s.exiting) /\ t.hwCr4 = s.hwCr4
    BY <2>1 DEF Cpu
  <2>4. SameRest(s, t) /\ SameCr3(s, t)  BY <2>1 DEF SameRest, SameCr3, Cpu
  <2> QED  BY <1>4, <2>2, <2>3, <2>4 DEF LongSet, Cr0Long, vm, lma
<1>5. CASE ~switches
  <2>1. t = b  BY <1>3, <1>5
  <2> HIDE DEF vm, t
  <2>2. t \in Cpu  BY <1>2, <2>1 DEF Cpu
  <2>3. /\ t.cr0 = cr0 /\ t.cr4 = s.cr4 /\ t.efer = s.efer /\ (t.ia32e <=> s.ia32e)
        /\ (t.vm86 <=> vm) /\ (t.exiting <=> s.exiting) /\ t.hwCr4 = s.hwCr4
    BY <2>1 DEF Cpu
  <2>4. SameRest(s, t) /\ SameCr3(s, t)  BY <2>1 DEF SameRest, SameCr3, Cpu
  <2> QED  BY <1>5, <2>2, <2>3, <2>4 DEF LongSet, Cr0Long, vm
<1> QED  BY <1>4, <1>5

LEMMA LongModeSvm ==
  ASSUME NEW s \in Cpu, ~Vmx, NEW cr0 \in Cr0s
  PROVE  LongSet(s, SvmLong(s, cr0), cr0)
<1> DEFINE pg == "PG" \in cr0
           switches == "LME" \in s.efer /\ pg # Paging(s)
           lma == With(s.efer, "LMA", pg)
           t == SvmLong(s, cr0)
<1> SUFFICES LongSet(s, t, cr0)  OBVIOUS
<1>0. pg \in BOOLEAN  OBVIOUS
<1>1. lma \in SUBSET {"LME", "LMA"} /\ ("LMA" \in lma <=> pg)
  BY DEF With, Cpu
<1>4. CASE switches
  <2>1. t = [s EXCEPT !.cr0 = cr0, !.efer = lma, !.ia32e = pg]  BY <1>4 DEF SvmLong
  <2> HIDE DEF t, lma
  <2>2. t \in Cpu  BY <1>0, <1>1, <2>1 DEF Cpu
  <2>3. /\ t.cr0 = cr0 /\ t.cr4 = s.cr4 /\ t.efer = lma /\ (t.ia32e <=> pg)
        /\ (t.vm86 <=> s.vm86) /\ (t.exiting <=> s.exiting) /\ t.hwCr4 = s.hwCr4
    BY <2>1 DEF Cpu
  <2>4. SameRest(s, t) /\ SameCr3(s, t)  BY <2>1 DEF SameRest, SameCr3, Cpu
  <2> QED  BY <1>4, <2>2, <2>3, <2>4 DEF LongSet, Cr0Long, lma
<1>5. CASE ~switches
  <2>1. t = [s EXCEPT !.cr0 = cr0]  BY <1>5 DEF SvmLong
  <2> HIDE DEF t
  <2>2. t \in Cpu  BY <2>1 DEF Cpu
  <2> QED  BY <1>1, <1>5, <2>1, <2>2 DEF LongSet, Cr0Long, SameRest, SameCr3, Cpu
<1> QED  BY <1>4, <1>5

LEMMA VendorCr0 ==
  ASSUME NEW s \in Cpu, host \in Hosts, NEW cr0 \in Cr0s
  PROVE  Cr0Set(s, VendorSetCr0(s, cr0), cr0)
<1> DEFINE t == VendorSetCr0(s, cr0)
           pg == "PG" \in cr0
<1> SUFFICES Cr0Set(s, t, cr0)  OBVIOUS
<1>1. CASE Vmx
  <2> DEFINE c == VmxLong(s, cr0)
  <2>1. LongSet(s, c, cr0)  BY <1>1, LongModeVmx
  <2>2. CASE host # "ept"
    <3>1. t = c  BY <1>1, <2>2 DEF VendorSetCr0, VmxSetCr0, VmxLong
    <3> HIDE DEF c, t
    <3> QED  BY <1>1, <2>1, <2>2, <3>1 DEF LongSet, Cr0Set, SameCr3, Vmx
  <2>3. CASE host = "ept"
    <3>1. t = SwitchCr3Exiting(c, Paging(s))  BY <1>1, <2>3 DEF VendorSetCr0, VmxSetCr0, VmxLong
    <3> HIDE DEF c, t
    <3>2. c \in Cpu /\ (Paging(c) <=> pg)
      BY <2>1 DEF LongSet, Cr0Long, Paging
    <3>3. CacheCr3(c) = [c EXCEPT !.avail = @ \cup {"CR3"}, !.cr3 = ReadCr3(c)]
          /\ ReadCr3(c) \in Cr3Values
      BY <3>2, ReadIs
    <3>4. ReadCr3(c) = ReadCr3(s)
      <4>1. ReadCr3(c) = IF "CR3" \in c.avail \/ c.exiting THEN c.cr3 ELSE c.hwCr3
        BY <3>2, ReadIs
      <4>2. ReadCr3(s) = IF "CR3" \in s.avail \/ s.exiting THEN s.cr3 ELSE s.hwCr3
        BY ReadIs
      <4> QED  BY <2>1, <4>1, <4>2 DEF LongSet, Cr0Long, SameCr3, SameRest
    <3> DEFINE a == c.avail \cup {"CR3"}
               r == ReadCr3(c)
               d == [c EXCEPT !.avail = a, !.cr3 = r, !.exiting = ~pg]
    <3>5. /\ a \in SUBSET {"CR3", "PDPTR"} /\ c.dirty \cup {"CR3"} \in SUBSET {"CR3", "PDPTR"}
          /\ a \cup {"CR3"} = a /\ c.cr4 \in Cr4s
      BY <3>2 DEF Cpu
    <3>6. (~pg) \in BOOLEAN  OBVIOUS
    <3>7. [SnapshotCr3(c) EXCEPT !.exiting = ~Paging(c)] = d
      BY <3>2, <3>3 DEF SnapshotCr3
    <3> HIDE DEF a, r
    <3>8. d \in Cpu /\ d.cr4 = c.cr4 /\ (Paging(d) <=> pg)
      BY <3>2, <3>3, <3>5, <3>6 DEF Cpu, Paging, r
    <3>9. VmxSetCr4(d, d.cr4) = [d EXCEPT !.cr4 = c.cr4, !.hwCr4 = HwBits(pg, c.cr4)]
      <4>1. VmxSetCr4(d, d.cr4) = VendorSetCr4(d, c.cr4)  BY <1>1, <3>8 DEF VendorSetCr4
      <4>2. VendorSetCr4(d, c.cr4) = [d EXCEPT !.cr4 = c.cr4, !.hwCr4 = HwBits(Paging(d), c.cr4)]
        BY VendorCr4
      <4>3. Paging(d) = pg  BY <3>8 DEF Paging
      <4> QED  BY <4>1, <4>2, <4>3
    <3>10. HwBits(pg, c.cr4) \in Cr4s  BY <3>5, HwBitsType
    <3> DEFINE u == IF pg # Paging(s) THEN VmxSetCr4(d, d.cr4) ELSE d
    <3>11. t = IF ~Paging(s) /\ pg THEN Dirtied(u, "CR3") ELSE u
      <4> HIDE DEF d
      <4>1. Paging(s) # Paging(c) <=> pg # Paging(s)  BY <3>2 DEF Paging
      <4>2. (~Paging(s) /\ Paging(c)) <=> (~Paging(s) /\ pg)  BY <3>2
      <4>3. u = IF Paging(s) # Paging(c) THEN VmxSetCr4(d, d.cr4) ELSE d  BY <4>1
      <4>4. t = IF ~Paging(s) /\ Paging(c) THEN Dirtied(u, "CR3") ELSE u
        <5>1. SnapshotCr3(c).cr4 = d.cr4  BY <3>2, <3>3, <3>8 DEF SnapshotCr3, Cpu
        <5> HIDE DEF u
        <5> QED  BY <3>1, <3>7, <4>3, <5>1 DEF SwitchCr3Exiting
      <4> QED  BY <4>2, <4>4
    <3> HIDE DEF d
    <3>12. d.cr3 = r /\ d.avail = a /\ (d.exiting <=> ~pg) /\ d.dirty = c.dirty /\ d.efer = c.efer
           /\ d.cr0 = c.cr0 /\ d.hwCr4 = c.hwCr4 /\ (d.ia32e <=> c.ia32e) /\ (d.vm86 <=> c.vm86)
           /\ SameRest(c, d)
      BY <3>2 DEF d, Cpu, SameRest
    <3>13. CASE pg # Paging(s) /\ pg
      <4>1. t = [d EXCEPT !.cr4 = c.cr4, !.hwCr4 = HwBits(pg, c.cr4), !.avail = a,
                          !.dirty = c.dirty \cup {"CR3"}]
        BY <3>5, <3>8, <3>9, <3>11, <3>12, <3>13 DEF Dirtied, Cpu
      <4>2. t \in Cpu  BY <3>5, <3>8, <3>10, <4>1 DEF Cpu
      <4>3. /\ t.cr4 = c.cr4 /\ t.cr3 = r /\ t.avail = a /\ t.dirty = c.dirty \cup {"CR3"}
            /\ (t.exiting <=> d.exiting) /\ SameRest(d, t) /\ t.hwCr4 = HwBits(pg, c.cr4)
            /\ t.cr0 = d.cr0 /\ t.efer = d.efer /\ (t.ia32e <=> d.ia32e) /\ (t.vm86 <=> d.vm86)
        BY <3>8, <3>12, <4>1 DEF SameRest, Cpu
      <4>4. SameRest(s, t) /\ s.cr4 = c.cr4 /\ c.avail = s.avail /\ c.dirty = s.dirty
            /\ c.hwCr4 = s.hwCr4
        BY <2>1, <3>12, <4>3 DEF LongSet, Cr0Long, SameRest, SameCr3
      <4>5. Cr0Long(s, t, cr0)  BY <2>1, <3>12, <4>2, <4>3, <4>4 DEF LongSet, Cr0Long
      <4> QED  BY <2>3, <3>4, <3>12, <3>13, <4>3, <4>4, <4>5 DEF Cr0Set, a, r
    <3>14. CASE pg # Paging(s) /\ ~pg
      <4>1. t = [d EXCEPT !.cr4 = c.cr4, !.hwCr4 = HwBits(pg, c.cr4)]
        BY <3>9, <3>11, <3>14
      <4>2. t \in Cpu  BY <3>5, <3>8, <3>10, <4>1 DEF Cpu
      <4>3. /\ t.cr4 = c.cr4 /\ t.cr3 = r /\ t.avail = a /\ t.dirty = c.dirty
            /\ (t.exiting <=> d.exiting) /\ SameRest(d, t) /\ t.hwCr4 = HwBits(pg, c.cr4)
            /\ t.cr0 = d.cr0 /\ t.efer = d.efer /\ (t.ia32e <=> d.ia32e) /\ (t.vm86 <=> d.vm86)
        BY <3>8, <3>12, <4>1 DEF SameRest, Cpu
      <4>4. SameRest(s, t) /\ s.cr4 = c.cr4 /\ c.avail = s.avail /\ c.dirty = s.dirty
            /\ c.hwCr4 = s.hwCr4
        BY <2>1, <3>12, <4>3 DEF LongSet, Cr0Long, SameRest, SameCr3
      <4>5. Cr0Long(s, t, cr0)  BY <2>1, <3>12, <4>2, <4>3, <4>4 DEF LongSet, Cr0Long
      <4> QED  BY <2>3, <3>4, <3>12, <3>14, <4>3, <4>4, <4>5 DEF Cr0Set, a, r
    <3>15. CASE pg = Paging(s)
      <4>1. t = d  BY <3>11, <3>15
      <4>2. t \in Cpu  BY <3>8, <4>1
      <4>3. /\ t.cr4 = c.cr4 /\ t.cr3 = r /\ t.avail = a /\ t.dirty = c.dirty
            /\ (t.exiting <=> d.exiting) /\ SameRest(d, t) /\ t.hwCr4 = c.hwCr4
            /\ t.cr0 = d.cr0 /\ t.efer = d.efer /\ (t.ia32e <=> d.ia32e) /\ (t.vm86 <=> d.vm86)
        BY <3>8, <3>12, <4>1 DEF SameRest, Cpu
      <4>4. SameRest(s, t) /\ s.cr4 = c.cr4 /\ c.avail = s.avail /\ c.dirty = s.dirty
            /\ c.hwCr4 = s.hwCr4
        BY <2>1, <3>12, <4>3 DEF LongSet, Cr0Long, SameRest, SameCr3
      <4>5. Cr0Long(s, t, cr0)  BY <2>1, <3>12, <4>2, <4>3, <4>4 DEF LongSet, Cr0Long
      <4> QED  BY <2>3, <3>4, <3>12, <3>15, <4>3, <4>4, <4>5 DEF Cr0Set, a, r
    <3> QED  BY <3>13, <3>14, <3>15
  <2> QED  BY <2>2, <2>3
<1>2. CASE ~Vmx
  <2> DEFINE c == SvmLong(s, cr0)
  <2>1. LongSet(s, c, cr0)  BY <1>2, LongModeSvm
  <2>2. t = IF host = "svmShadow" /\ pg # Paging(s) THEN SvmSetCr4(c, c.cr4) ELSE c
    BY <1>2 DEF VendorSetCr0, SvmSetCr0, SvmLong
  <2> HIDE DEF c, t
  <2>3. CASE host = "svmShadow" /\ pg # Paging(s)
    <3>1. c \in Cpu /\ (Paging(c) <=> pg) /\ c.cr4 = s.cr4 /\ s.cr4 \in Cr4s
      BY <2>1 DEF LongSet, Cr0Long, Paging, Cpu
    <3>2. Paging(c) = pg  BY <3>1 DEF Paging
    <3>3. SvmSetCr4(c, c.cr4) = VendorSetCr4(c, s.cr4)  BY <1>2, <3>1 DEF VendorSetCr4
    <3>4. VendorSetCr4(c, s.cr4) = [c EXCEPT !.cr4 = s.cr4, !.hwCr4 = HwBits(Paging(c), s.cr4)]
      BY VendorCr4
    <3>5. t = [c EXCEPT !.cr4 = s.cr4, !.hwCr4 = HwBits(pg, s.cr4)]
      BY <2>2, <2>3, <3>2, <3>3, <3>4
    <3>6. HwBits(pg, s.cr4) \in Cr4s  BY <3>1, HwBitsType
    <3>7. t \in Cpu  BY <3>1, <3>5, <3>6 DEF Cpu
    <3> QED  BY <2>1, <2>3, <3>1, <3>5, <3>7 DEF LongSet, Cr0Long, Cr0Set, SameCr3, SameRest, Cpu
  <2>4. CASE ~(host = "svmShadow" /\ pg # Paging(s))
    BY <1>2, <2>1, <2>2, <2>4 DEF LongSet, Cr0Set, SameCr3, Vmx
  <2> QED  BY <2>3, <2>4
<1> QED  BY <1>1, <1>2

\* What caching and the MMU leave alone.
SameMode(s, t) ==
  /\ t.cr0 = s.cr0 /\ t.cr4 = s.cr4 /\ t.efer = s.efer /\ t.hwCr4 = s.hwCr4
  /\ (t.vm86 <=> s.vm86) /\ (t.exiting <=> s.exiting) /\ (t.ia32e <=> s.ia32e)
SameHw(s, t) == t.hwCr3 = s.hwCr3 /\ t.hwPdptrs = s.hwPdptrs /\ t.hwRole = s.hwRole

\* The MMU's role, a reset of its context, a flush and the caching of CR3.
LEMMA RoleType ==
  ASSUME NEW s \in Cpu
  PROVE  RoleOf(s) \in SUBSET {"PG", "PAE", "SMEP", "LMA"}
  BY DEF RoleOf

LEMMA ResetContextIs ==
  ASSUME NEW s \in Cpu
  PROVE  LET t == ResetContext(s)
         IN /\ t \in Cpu /\ SameMode(s, t) /\ SameHw(s, t) /\ SameCr3(s, t) /\ t.pdptrs = s.pdptrs
            /\ (t.flush <=> s.flush) /\ t.load /\ t.role = RoleOf(s) 
<1>1. ResetContext(s) \in Cpu  BY RoleType DEF ResetContext, Cpu
<1> QED  BY <1>1 DEF ResetContext, SameMode, SameHw, SameCr3, Cpu

LEMMA FlushIs ==
  ASSUME NEW s \in Cpu
  PROVE  LET t == Flush(s)
         IN /\ t \in Cpu /\ SameMode(s, t) /\ SameHw(s, t) /\ SameCr3(s, t) /\ t.pdptrs = s.pdptrs
            /\ t.flush /\ (t.load <=> s.load) /\ t.role = s.role
<1>1. Flush(s) \in Cpu  BY DEF Flush, Cpu
<1> QED  BY <1>1 DEF Flush, SameMode, SameHw, SameCr3, Cpu

LEMMA CachedIs ==
  ASSUME NEW s \in Cpu
  PROVE  LET t == CacheCr3(s)
         IN /\ t \in Cpu /\ SameMode(s, t) /\ SameRest(s, t)
            /\ t.avail = s.avail \cup {"CR3"} /\ t.dirty = s.dirty /\ t.cr3 = ReadCr3(s)
<1> DEFINE a == s.avail \cup {"CR3"}
<1>1. a \in SUBSET {"CR3", "PDPTR"}  BY DEF Cpu
<1>2. CacheCr3(s) = [s EXCEPT !.avail = a, !.cr3 = ReadCr3(s)] /\ ReadCr3(s) \in Cr3Values
  BY ReadIs
<1> HIDE DEF a
<1>3. CacheCr3(s) \in Cpu  BY <1>1, <1>2 DEF Cpu
<1>4. SameMode(s, CacheCr3(s)) /\ SameRest(s, CacheCr3(s))
  BY <1>2 DEF SameMode, SameRest, Cpu
<1> QED  BY <1>2, <1>3, <1>4 DEF Cpu, a

LEMMA LoadPdptrsIs ==
  ASSUME NEW s \in Cpu, NEW cr3 \in Cr3Values
  PROVE  LET t == LoadPdptrs(s, cr3)
         IN /\ t \in Cpu /\ SameMode(s, t) /\ SameHw(s, t) /\ t.cr3 = s.cr3 /\ t.pdptrs = cr3
            /\ t.avail = s.avail \cup {"PDPTR"} /\ t.dirty = s.dirty \cup {"PDPTR"}
            /\ t.load /\ (t.flush <=> s.flush) /\ t.role = s.role
<1> DEFINE a == s.avail \cup {"PDPTR"}
           d == s.dirty \cup {"PDPTR"}
           t == LoadPdptrs(s, cr3)
<1>1. a \in SUBSET {"CR3", "PDPTR"} /\ d \in SUBSET {"CR3", "PDPTR"}  BY DEF Cpu
<1>2. t = [s EXCEPT !.avail = a, !.dirty = d, !.pdptrs = cr3, !.load = TRUE]
  BY DEF LoadPdptrs, Dirtied
<1> HIDE DEF t
<1> SUFFICES /\ t \in Cpu /\ SameMode(s, t) /\ SameHw(s, t) /\ t.cr3 = s.cr3 /\ t.pdptrs = cr3
             /\ t.avail = a /\ t.dirty = d
             /\ t.load /\ (t.flush <=> s.flush) /\ t.role = s.role
  BY DEF t
<1> HIDE DEF a, d
<1>3. t \in Cpu  BY <1>1, <1>2 DEF Cpu
<1> QED  BY <1>2, <1>3 DEF SameMode, SameHw, Cpu

\* The page-directory pointers that SetCr0 and SetCr4 load first.
Preloaded(s, t, loads) ==
  /\ t \in Cpu /\ SameMode(s, t) /\ SameHw(s, t) /\ t.role = s.role /\ (t.flush <=> s.flush)
  /\ IF loads
       THEN /\ t.cr3 = ReadCr3(s) /\ t.avail = s.avail \cup {"CR3", "PDPTR"}
            /\ t.dirty = s.dirty \cup {"PDPTR"} /\ t.pdptrs = ReadCr3(s) /\ t.load
       ELSE /\ t.cr3 = s.cr3 /\ t.avail = s.avail /\ t.dirty = s.dirty /\ t.pdptrs = s.pdptrs
            /\ (t.load <=> s.load)
LEMMA PreloadIs ==
  ASSUME NEW s \in Cpu
  PROVE  Preloaded(s, LoadPdptrs(CacheCr3(s), ReadCr3(s)), TRUE)
<1> DEFINE c == CacheCr3(s)
           t == LoadPdptrs(c, ReadCr3(s))
<1>1. ReadCr3(s) \in Cr3Values  BY ReadIs
<1>2. /\ c \in Cpu /\ SameMode(s, c) /\ SameRest(s, c)
      /\ c.avail = s.avail \cup {"CR3"} /\ c.dirty = s.dirty /\ c.cr3 = ReadCr3(s)
  BY CachedIs
<1> HIDE DEF c
<1>3. /\ t \in Cpu /\ SameMode(c, t) /\ SameHw(c, t) /\ t.cr3 = c.cr3 /\ t.pdptrs = ReadCr3(s)
      /\ t.avail = c.avail \cup {"PDPTR"} /\ t.dirty = c.dirty \cup {"PDPTR"}
      /\ t.load /\ (t.flush <=> c.flush) /\ t.role = c.role
  BY <1>1, <1>2, LoadPdptrsIs
<1> HIDE DEF t
<1>4. Preloaded(s, t, TRUE)
  BY <1>2, <1>3 DEF Preloaded, SameMode, SameHw, SameRest
<1> QED  BY <1>4 DEF t, c

\* What a change of mode ends with.
Ended(s, t, resets, loads, flushes) ==
  /\ t \in Cpu /\ SameMode(s, t) /\ SameHw(s, t) /\ SameCr3(s, t) /\ t.pdptrs = s.pdptrs
  /\ t.role = IF resets THEN RoleOf(s) ELSE s.role
  /\ (t.load <=> (s.load \/ resets \/ loads)) /\ (t.flush <=> (s.flush \/ flushes))
EndOf(s, resets, loads, flushes) ==
  LET u == IF resets THEN ResetContext(s) ELSE s
      w == IF loads THEN [u EXCEPT !.load = TRUE] ELSE u
  IN IF flushes THEN Flush(w) ELSE w
LEMMA EndIs ==
  ASSUME NEW s \in Cpu, NEW r \in BOOLEAN, NEW l \in BOOLEAN, NEW f \in BOOLEAN
  PROVE  Ended(s, EndOf(s, r, l, f), r, l, f)
<1> DEFINE u == IF r THEN ResetContext(s) ELSE s
           w == IF l THEN [u EXCEPT !.load = TRUE] ELSE u
           t == IF f THEN Flush(w) ELSE w
<1>1. Ended(s, u, r, FALSE, FALSE)
  BY ResetContextIs DEF Ended, SameMode, SameHw, SameCr3
<1> HIDE DEF u
<1>2. Ended(s, w, r, l, FALSE)
  <2>1. CASE l
    <3>1. w = [u EXCEPT !.load = TRUE] /\ u \in Cpu  BY <1>1, <2>1 DEF Ended
    <3> HIDE DEF w
    <3>2. w \in Cpu  BY <3>1 DEF Cpu
    <3>3. SameMode(u, w) /\ SameHw(u, w) /\ SameCr3(u, w) /\ w.pdptrs = u.pdptrs /\ w.load
          /\ (w.flush <=> u.flush) /\ w.role = u.role
      BY <3>1, <3>2 DEF SameMode, SameHw, SameCr3, Cpu
    <3>4. SameMode(s, w) /\ SameHw(s, w) /\ SameCr3(s, w)
      BY <1>1, <3>3 DEF Ended, SameMode, SameHw, SameCr3
    <3> QED  BY <1>1, <2>1, <3>2, <3>3, <3>4 DEF Ended
  <2>2. CASE ~l
    <3>1. w = u  BY <2>2
    <3> QED  BY <1>1, <2>2, <3>1 DEF Ended
  <2> QED  BY <2>1, <2>2
<1> HIDE DEF w
<1>3. CASE f
  <2>1. w \in Cpu /\ t = Flush(w)  BY <1>2, <1>3 DEF Ended
  <2> HIDE DEF t
  <2>2. /\ t \in Cpu /\ SameMode(w, t) /\ SameHw(w, t) /\ SameCr3(w, t) /\ t.pdptrs = w.pdptrs
        /\ t.flush /\ (t.load <=> w.load) /\ t.role = w.role
    BY <2>1, FlushIs
  <2>3. SameMode(s, t) /\ SameHw(s, t) /\ SameCr3(s, t)
    BY <1>2, <2>2 DEF Ended, SameMode, SameHw, SameCr3
  <2>4. Ended(s, t, r, l, f)  BY <1>2, <1>3, <2>2, <2>3 DEF Ended
  <2> QED  BY <2>4 DEF t, w, u, EndOf
<1>4. CASE ~f
  <2>1. t = w  BY <1>4
  <2>2. Ended(s, w, r, l, f)  BY <1>2, <1>4 DEF Ended
  <2> QED  BY <2>1, <2>2 DEF w, u, EndOf
<1> QED  BY <1>3, <1>4

LEMMA Primed ==
  ASSUME host' = host
  PROVE  /\ ModeInv(cpu') => ModeInv(cpu)'
         /\ EntryInv(cpu', written') => EntryInv(cpu, written)'
<1>1. (HwCr4(cpu))' = HwCr4(cpu')
  BY DEF HwCr4, VendorSetCr4, VmxSetCr4, SvmSetCr4, Vmx
<1>2. (Vmx' <=> Vmx) /\ (Restricted' <=> Restricted)  BY DEF Vmx, Restricted
<1>3. Exiting(cpu)' <=> Exiting(cpu')  BY <1>2 DEF Exiting
<1>4. ModeInv(cpu') => ModeInv(cpu)'
  BY <1>1, <1>2, <1>3 DEF ModeInv
<1>5. Loaded(cpu)' = Loaded(cpu')
  BY DEF Loaded, LoadPgd, VmxLoadPgd, SvmLoadPgd, Vmx, Restricted, Ept
<1>6. EntryInv(cpu', written') => EntryInv(cpu, written)'
  BY <1>2, <1>5 DEF EntryInv
<1> QED  BY <1>4, <1>6

-----------------------------------------------------------------------------
(* The two ways a step keeps what the next VM entry loads: it leaves CR3 and the  *)
(* MMU as they are, or asks for a load of what it wrote.                          *)
LEMMA EntryKept ==
  ASSUME NEW s \in Cpu, NEW n \in Cpu, host \in Hosts, NEW cr3, NEW loads \in BOOLEAN,
         EntryInv(s, cr3), cr3 # Unknown => ReadCr3(s) = cr3, s.exiting <=> Exiting(s),
         s.dirty \subseteq s.avail, Vmx \/ "CR3" \in s.avail,
         SameHw(s, n), s.load => n.load, Paging(n) <=> Paging(s),
         n.cr3 \in {s.cr3, ReadCr3(s)}, "CR3" \in n.dirty <=> "CR3" \in s.dirty,
         n.role = RoleOf(n), n.load \/ n.role = s.role,
         PaePaging(n) =>
           IF loads THEN n.pdptrs = ReadCr3(s) /\ "PDPTR" \in n.dirty /\ n.load
           ELSE /\ PaePaging(s) /\ n.pdptrs = s.pdptrs /\ (n.load => s.load)
                /\ "PDPTR" \in n.dirty <=> "PDPTR" \in s.dirty
  PROVE  EntryInv(n, cr3)
<1> DEFINE idle(r) == Restricted /\ ~Paging(r)
<1>1. /\ Loaded(n).hwCr3 = IF ~n.load THEN n.hwCr3 ELSE IF idle(n) THEN Identity
                           ELSE IF Ept /\ "CR3" \notin n.dirty THEN n.hwCr3 ELSE n.cr3
      /\ Loaded(n).hwPdptrs = IF n.load /\ PaePaging(n) /\ (Ept => "PDPTR" \in n.dirty)
                                THEN n.pdptrs ELSE n.hwPdptrs
      /\ Loaded(n).hwRole = IF n.load THEN n.role ELSE n.hwRole
  BY LoadedIs
<1>2. /\ Loaded(s).hwCr3 = IF ~s.load THEN s.hwCr3 ELSE IF idle(s) THEN Identity
                           ELSE IF Ept /\ "CR3" \notin s.dirty THEN s.hwCr3 ELSE s.cr3
      /\ Loaded(s).hwPdptrs = IF s.load /\ PaePaging(s) /\ (Ept => "PDPTR" \in s.dirty)
                                THEN s.pdptrs ELSE s.hwPdptrs
      /\ Loaded(s).hwRole = IF s.load THEN s.role ELSE s.hwRole
  BY LoadedIs
<1>3. ReadCr3(s) = IF "CR3" \in s.avail \/ s.exiting THEN s.cr3 ELSE s.hwCr3
  BY ReadIs
<1>4. "CR3" \in s.dirty => "CR3" \in s.avail  OBVIOUS
<1>5. n.hwCr3 = s.hwCr3 /\ n.hwPdptrs = s.hwPdptrs /\ n.hwRole = s.hwRole  BY DEF SameHw
<1>6. /\ IF idle(s) THEN Loaded(s).hwCr3 = Identity ELSE cr3 # Unknown => Loaded(s).hwCr3 = cr3
      /\ PaePaging(s) /\ host # "npt" /\ cr3 # Unknown => Loaded(s).hwPdptrs = cr3
      /\ s.role = RoleOf(s) /\ Loaded(s).hwRole = s.role
  BY DEF EntryInv
<1>7. IF idle(n) THEN Loaded(n).hwCr3 = Identity ELSE cr3 # Unknown => Loaded(n).hwCr3 = cr3
  <2>1. s.exiting <=> IF host = "ept" THEN ~Paging(s) ELSE Restricted  BY DEF Exiting
  <2>2. CASE idle(n)
    BY <1>1, <1>2, <1>5, <1>6, <2>2
  <2>3. CASE ~idle(n)
    BY <1>1, <1>2, <1>3, <1>4, <1>5, <1>6, <2>1, <2>3 DEF Ept, Restricted, Vmx, Hosts
  <2> QED  BY <2>2, <2>3
<1>8. PaePaging(n) /\ host # "npt" /\ cr3 # Unknown => Loaded(n).hwPdptrs = cr3
  BY <1>1, <1>2, <1>5, <1>6
<1>9. Loaded(n).hwRole = n.role
  BY <1>1, <1>2, <1>5, <1>6
<1> QED  BY <1>7, <1>8, <1>9 DEF EntryInv

LEMMA EntryLoads ==
  ASSUME NEW n \in Cpu, host \in Hosts, NEW cr3, n.load, n.role = RoleOf(n),
         (~(Restricted /\ ~Paging(n)) /\ cr3 # Unknown) =>
           IF Ept /\ "CR3" \notin n.dirty THEN n.hwCr3 = cr3 ELSE n.cr3 = cr3,
         (PaePaging(n) /\ cr3 # Unknown) => n.pdptrs = cr3 /\ "PDPTR" \in n.dirty
  PROVE  EntryInv(n, cr3)
<1>1. /\ Loaded(n).hwCr3 = IF ~n.load THEN n.hwCr3
                           ELSE IF Restricted /\ ~Paging(n) THEN Identity
                           ELSE IF Ept /\ "CR3" \notin n.dirty THEN n.hwCr3 ELSE n.cr3
      /\ Loaded(n).hwPdptrs = IF n.load /\ PaePaging(n) /\ (Ept => "PDPTR" \in n.dirty)
                                THEN n.pdptrs ELSE n.hwPdptrs
      /\ Loaded(n).hwRole = IF n.load THEN n.role ELSE n.hwRole
  BY LoadedIs
<1> QED  BY <1>1 DEF EntryInv

-----------------------------------------------------------------------------
(* What each operation makes of cpu, and that it keeps the invariant.             *)
LEMMA SetCr0Is ==
  ASSUME RegsInv, NEW cr0 \in Cr0s, SetCr0(cr0)
  PROVE  \E a, t \in Cpu :
           LET s == cpu
               pg == "PG" \in cr0
           IN /\ Preloaded(s, a, "LME" \notin s.efer /\ pg /\ "PAE" \in s.cr4 /\ ~Paging(s))
              /\ Cr0Set(a, t, cr0)
              /\ Ended(t, cpu', pg # Paging(s), FALSE, Paging(s) /\ ~pg)
<1> DEFINE s == cpu
           pg == "PG" \in cr0
           loads == "LME" \notin s.efer /\ pg /\ "PAE" \in s.cr4 /\ pg # Paging(s)
           a == IF loads THEN LoadPdptrs(CacheCr3(s), ReadCr3(s)) ELSE s
           t == VendorSetCr0(a, cr0)
           r == pg # Paging(s)
           f == Paging(s) /\ ~pg
           u == IF r THEN ResetContext(t) ELSE t
<1>0. s \in Cpu /\ host \in Hosts  BY DEF RegsInv, TypeInv
<1>1. Preloaded(s, a, loads)
  <2>1. CASE loads  BY <1>0, <2>1, PreloadIs
  <2>2. CASE ~loads  BY <1>0, <2>2 DEF Preloaded, SameMode, SameHw
  <2> QED  BY <2>1, <2>2
<1> HIDE DEF a
<1>2. a \in Cpu  BY <1>1 DEF Preloaded
<1>3. Cr0Set(a, t, cr0)  BY <1>0, <1>2, VendorCr0
<1>4. cpu' = EndOf(t, r, FALSE, f)  BY DEF SetCr0, a, EndOf
<1> HIDE DEF t
<1>5. t \in Cpu  BY <1>3 DEF Cr0Set, Cr0Long
<1>6. r \in BOOLEAN /\ f \in BOOLEAN  OBVIOUS
<1> HIDE DEF r, f
<1>7. Ended(t, cpu', r, FALSE, f)  BY <1>4, <1>5, <1>6, EndIs, Zenon
<1>8. loads <=> ("LME" \notin s.efer /\ pg /\ "PAE" \in s.cr4 /\ ~Paging(s))  BY DEF Paging
<1> HIDE DEF loads
<1>9. Preloaded(s, a, "LME" \notin s.efer /\ pg /\ "PAE" \in s.cr4 /\ ~Paging(s))
  BY <1>1, <1>8 DEF Preloaded
<1> QED  BY <1>2, <1>3, <1>5, <1>7, <1>9 DEF r, f

LEMMA SetCr0Step ==
  ASSUME RegsInv, NEW cr0 \in Cr0s, SetCr0(cr0)
  PROVE  RegsInv'
<1> DEFINE s == cpu
           n == cpu'
           pg == "PG" \in cr0
<1>0. PICK a \in Cpu, t \in Cpu :
        /\ Preloaded(s, a, "LME" \notin s.efer /\ pg /\ "PAE" \in s.cr4 /\ ~Paging(s))
        /\ Cr0Set(a, t, cr0)
        /\ Ended(t, n, pg # Paging(s), FALSE, Paging(s) /\ ~pg)
  BY SetCr0Is
<1>1. TypeInv'  BY <1>0 DEF SetCr0, RegsInv, TypeInv, Ended
<1>2. /\ ModeInv(n) /\ (Paging(n) <=> pg) /\ (n.exiting <=> IF host = "ept" THEN ~pg ELSE s.exiting)
      /\ n.cr4 = s.cr4 /\ (pg = Paging(s) => n.efer = s.efer) /\ ("LME" \in n.efer <=> "LME" \in s.efer)
  <2> DEFINE switches == "LME" \in s.efer /\ pg # Paging(s)
  <2>1. /\ n.cr0 = cr0 /\ n.cr4 = s.cr4
        /\ n.efer = IF switches THEN With(s.efer, "LMA", pg) ELSE s.efer
        /\ n.ia32e <=> IF switches THEN pg ELSE s.ia32e
        /\ n.vm86 <=> IF Vmx THEN Restricted /\ "PE" \notin cr0 ELSE s.vm86
        /\ n.exiting <=> IF host = "ept" THEN ~pg ELSE s.exiting
        /\ n.hwCr4 = IF host \in {"ept", "svmShadow"} /\ pg # Paging(s) THEN HwBits(pg, s.cr4)
                     ELSE s.hwCr4
        /\ n \in Cpu
    BY <1>0 DEF Preloaded, Ended, Cr0Set, Cr0Long, SameMode, Paging
  <2>2. ModeInv(s) /\ s \in Cpu /\ host \in Hosts  BY DEF RegsInv, TypeInv
  <2>3. (Paging(n) <=> pg) /\ (LongMode(n) <=> IF switches THEN pg ELSE LongMode(s))
    BY <2>1, <2>2 DEF With, Cpu, Paging, LongMode
  <2> HIDE DEF switches
  <2>4. /\ pg => "PE" \in cr0
        /\ ("LME" \in s.efer /\ ~Paging(s) /\ pg) => "PAE" \in s.cr4
        /\ ~pg => "PCIDE" \notin s.cr4
    BY DEF SetCr0
  <2>5. "LME" \in n.efer <=> "LME" \in s.efer
    BY <2>1, <2>2 DEF With, Cpu
  <2>6. /\ Paging(n) => "PE" \in n.cr0
        /\ LongMode(n) <=> ("LME" \in n.efer /\ Paging(n))
        /\ LongMode(n) => "PAE" \in n.cr4
        /\ "PCIDE" \in n.cr4 => LongMode(n)
        /\ n.ia32e <=> LongMode(n)
    BY <2>1, <2>2, <2>3, <2>4, <2>5 DEF ModeInv, switches
  <2>7. /\ Vmx => (n.vm86 <=> (Restricted /\ "PE" \notin n.cr0))
        /\ n.exiting <=> Exiting(n)
    BY <2>1, <2>2, <2>3 DEF ModeInv, Exiting, Restricted
  <2>8. n.hwCr4 = HwCr4(n) \/ (host = "shadow" /\ n.hwCr4 \cup {"SMEP"} = HwCr4(n) \cup {"SMEP"})
    <3>1. HwCr4(n) = HwBits(Paging(n), s.cr4) /\ HwCr4(s) = HwBits(Paging(s), s.cr4)
      BY <2>1, <2>2, HwCr4Is
    <3>2. Paging(n) = pg  BY <2>3 DEF Paging
    <3>3. /\ host \in {"urg", "npt"} => HwBits(pg, s.cr4) = HwBits(Paging(s), s.cr4)
          /\ host = "shadow" => HwBits(pg, s.cr4) \cup {"SMEP"}
                                = HwBits(Paging(s), s.cr4) \cup {"SMEP"}
      BY <2>2, HwBitsPaging DEF Cpu
    <3> QED  BY <2>1, <2>2, <3>1, <3>2, <3>3 DEF ModeInv, Hosts
  <2> QED  BY <2>1, <2>3, <2>5, <2>6, <2>7, <2>8 DEF ModeInv, switches
<1> DEFINE loads == "LME" \notin s.efer /\ pg /\ "PAE" \in s.cr4 /\ ~Paging(s)
           toggles == pg # Paging(s)
           ept == host = "ept"
<1>3. /\ s \in Cpu /\ n \in Cpu /\ host \in Hosts /\ pc = "host" /\ pc' = "host"
      /\ host' = host /\ written' = written
  BY <1>0 DEF RegsInv, TypeInv, SetCr0, Ended
<1>4. ReadCr3(a) = ReadCr3(s)
  <2>1. ReadCr3(a) = IF "CR3" \in a.avail \/ a.exiting THEN a.cr3 ELSE a.hwCr3
    BY ReadIs
  <2>2. ReadCr3(s) = IF "CR3" \in s.avail \/ s.exiting THEN s.cr3 ELSE s.hwCr3
    BY <1>3, ReadIs
  <2> QED  BY <1>0, <2>1, <2>2 DEF Preloaded, SameMode, SameHw
<1>5. /\ n.cr3 = IF ept \/ loads THEN ReadCr3(s) ELSE s.cr3
      /\ "CR3" \in n.avail <=> ept \/ loads \/ "CR3" \in s.avail
      /\ "PDPTR" \in n.avail <=> loads \/ "PDPTR" \in s.avail
      /\ "CR3" \in n.dirty <=> "CR3" \in s.dirty \/ (ept /\ pg /\ ~Paging(s))
      /\ "PDPTR" \in n.dirty <=> loads \/ "PDPTR" \in s.dirty
  BY <1>0, <1>4 DEF Preloaded, Cr0Set, Ended, SameCr3, SameMode, Paging
<1>6. /\ n.pdptrs = IF loads THEN ReadCr3(s) ELSE s.pdptrs
      /\ n.load <=> s.load \/ toggles
      /\ n.role = IF toggles THEN RoleOf(n) ELSE s.role
      /\ SameHw(s, n)
  <2>1. RoleOf(t) = RoleOf(n)  BY <1>0 DEF Ended, SameMode, RoleOf, Paging
  <2> QED  BY <1>0, <2>1 DEF Preloaded, Cr0Set, Cr0Long, Ended, SameHw, SameRest, Paging
<1>7. ReadCr3(n) = ReadCr3(s)
  <2>1. ReadCr3(n) = IF "CR3" \in n.avail \/ n.exiting THEN n.cr3 ELSE n.hwCr3
    BY <1>3, ReadIs
  <2>2. ReadCr3(s) = IF "CR3" \in s.avail \/ s.exiting THEN s.cr3 ELSE s.hwCr3
    BY <1>3, ReadIs
  <2> QED  BY <1>2, <1>5, <1>6, <2>1, <2>2 DEF SameHw
<1>8. CacheInv(cpu)'
  <2>1. n.dirty \subseteq n.avail /\ (Vmx \/ "CR3" \in n.avail)
    BY <1>3, <1>5 DEF RegsInv, CacheInv, Cpu
  <2>2. ReadCr3(cpu)' = ReadCr3(n)  BY DEF ReadCr3, CacheCr3
  <2> QED  BY <1>3, <1>7, <2>1, <2>2 DEF RegsInv, CacheInv, Vmx, KnownCr3
<1>9. /\ EntryInv(s, written) /\ ModeInv(s) /\ (KnownCr3 => ReadCr3(s) = written)
      /\ s.dirty \subseteq s.avail /\ (Vmx \/ "CR3" \in s.avail) /\ (s.exiting <=> Exiting(s))
  BY <1>3 DEF RegsInv, CacheInv, ModeInv
<1>10. /\ PaePaging(n) /\ toggles => loads
       /\ ~toggles => ~loads /\ (PaePaging(n) <=> PaePaging(s)) /\ RoleOf(n) = RoleOf(s)
  BY <1>2, <1>9 DEF ModeInv, PaePaging, LongMode, RoleOf
<1>11. EntryInv(n, written)
  <2>1. CASE ~toggles
    <3>1. n.role = RoleOf(n) /\ (n.load \/ n.role = s.role)
      BY <1>6, <1>9, <1>10, <2>1 DEF EntryInv
    <3> HIDE DEF loads, toggles
    <3>2. EntryInv(n, written)
    BY <1>2, <1>3, <1>5, <1>6, <1>9, <1>10, <2>1, <3>1, EntryKept DEF KnownCr3, toggles
    <3> QED BY <3>2
  <2>2. CASE toggles
    <3>1. n.load /\ n.role = RoleOf(n)  BY <1>6, <2>2
    <3>2. (PaePaging(n) /\ KnownCr3) => n.pdptrs = written /\ "PDPTR" \in n.dirty
      BY <1>5, <1>6, <1>9, <1>10, <2>2
    <3>3. (~(Restricted /\ ~Paging(n)) /\ KnownCr3) =>
            IF Ept /\ "CR3" \notin n.dirty THEN n.hwCr3 = written ELSE n.cr3 = written
      <4>1. n.hwCr3 = s.hwCr3  BY <1>6 DEF SameHw
      <4>2. ReadCr3(s) = IF "CR3" \in s.avail \/ s.exiting THEN s.cr3 ELSE s.hwCr3
        BY <1>3, ReadIs
      <4>3. s.exiting <=> IF host = "ept" THEN ~Paging(s) ELSE Restricted
        BY <1>9 DEF Exiting
      <4>4. "CR3" \in s.dirty => "CR3" \in s.avail  BY <1>9
      <4>5. (~(Restricted /\ ~Paging(s)) /\ KnownCr3) => Loaded(s).hwCr3 = written
        BY <1>9 DEF EntryInv, KnownCr3
      <4>6. Loaded(s).hwCr3 = IF ~s.load THEN s.hwCr3
                              ELSE IF Restricted /\ ~Paging(s) THEN Identity
                              ELSE IF Ept /\ "CR3" \notin s.dirty THEN s.hwCr3 ELSE s.cr3
        BY <1>3, LoadedIs
      <4> QED  BY <1>2, <1>3, <1>5, <1>9, <2>2, <4>1, <4>2, <4>3, <4>4, <4>5, <4>6
                  DEF Ept, Restricted, Vmx, Hosts
    <3> QED  BY <1>3, <3>1, <3>2, <3>3, EntryLoads DEF KnownCr3
  <2> QED  BY <2>1, <2>2
<1>12. (cpu.flush \/ stale = {})'
  BY <1>0 DEF SetCr0, RegsInv, Ended, Cr0Set, Cr0Long, SameRest, Preloaded
<1> QED  BY <1>1, <1>2, <1>3, <1>8, <1>11, <1>12, Primed DEF RegsInv

Cr4Set(s, t, cr4) ==
  /\ t \in Cpu /\ t.cr4 = cr4 /\ t.hwCr4 = HwBits(Paging(s), cr4) /\ t.cr0 = s.cr0
  /\ t.efer = s.efer /\ (t.vm86 <=> s.vm86) /\ (t.exiting <=> s.exiting) /\ (t.ia32e <=> s.ia32e)
  /\ SameCr3(s, t) /\ SameRest(s, t)
LEMMA Cr4Is ==
  ASSUME NEW s \in Cpu, host \in Hosts, NEW cr4 \in Cr4s
  PROVE  Cr4Set(s, VendorSetCr4(s, cr4), cr4)
<1> DEFINE t == VendorSetCr4(s, cr4)
<1>1. t = [s EXCEPT !.cr4 = cr4, !.hwCr4 = HwBits(Paging(s), cr4)]  BY VendorCr4
<1>2. HwBits(Paging(s), cr4) \in Cr4s  BY HwBitsType
<1> HIDE DEF t
<1>3. t \in Cpu  BY <1>1, <1>2 DEF Cpu
<1>4. Cr4Set(s, t, cr4)  BY <1>1, <1>3 DEF Cr4Set, SameCr3, SameRest, Cpu
<1> QED  BY <1>4 DEF t

EferSet(s, t, efer) ==
  /\ t \in Cpu /\ t.efer = efer /\ (t.ia32e <=> "LMA" \in efer) /\ t.cr0 = s.cr0 /\ t.cr4 = s.cr4
  /\ t.hwCr4 = s.hwCr4 /\ (t.vm86 <=> s.vm86) /\ (t.exiting <=> s.exiting)
  /\ SameCr3(s, t) /\ SameRest(s, t)
LEMMA EferIs ==
  ASSUME NEW s \in Cpu, NEW efer \in SUBSET {"LME", "LMA"}
  PROVE  EferSet(s, VendorSetEfer(s, efer), efer)
<1> DEFINE t == VendorSetEfer(s, efer)
           l == "LMA" \in efer
<1>1. t = [s EXCEPT !.efer = efer, !.ia32e = l]  BY VendorEfer
<1>2. l \in BOOLEAN  OBVIOUS
<1> HIDE DEF t, l
<1>3. t \in Cpu  BY <1>1, <1>2 DEF Cpu
<1>4. /\ t.efer = efer /\ (t.ia32e <=> l) /\ t.cr0 = s.cr0 /\ t.cr4 = s.cr4
      /\ t.hwCr4 = s.hwCr4 /\ (t.vm86 <=> s.vm86) /\ (t.exiting <=> s.exiting)
      /\ SameCr3(s, t) /\ SameRest(s, t)
  BY <1>1, <1>3 DEF SameCr3, SameRest, Cpu
<1> QED  BY <1>3, <1>4 DEF EferSet, t, l

LEMMA SetCr4Is ==
  ASSUME RegsInv, NEW cr4 \in Cr4s, SetCr4(cr4)
  PROVE  \E a, t \in Cpu :
           LET s == cpu
               changed == Changed(s.cr4, cr4)
           IN /\ IF ~LongMode(s) /\ Paging(s) /\ "PAE" \in cr4 /\ changed \cap RoleBits # {}
                   THEN Preloaded(s, a, TRUE) ELSE a = CacheCr3(s)
              /\ Cr4Set(a, t, cr4)
              /\ Ended(t, cpu', changed \cap RoleBits # {}, ~Tdp /\ "PCIDE" \in cr4 \ s.cr4,
                       \/ "PCIDE" \in s.cr4 \ cr4 \/ "PAE" \in changed
                       \/ "SMEP" \in cr4 \ s.cr4)
<1> DEFINE s == cpu
           changed == Changed(s.cr4, cr4)
           loads == ~LongMode(s) /\ Paging(s) /\ "PAE" \in cr4 /\ changed \cap RoleBits # {}
           a == IF loads THEN LoadPdptrs(CacheCr3(s), ReadCr3(s)) ELSE CacheCr3(s)
           t == VendorSetCr4(a, cr4)
           r == changed \cap RoleBits # {}
           l == ~Tdp /\ "PCIDE" \in cr4 \ s.cr4
           f == "PCIDE" \in s.cr4 \ cr4 \/ "PAE" \in changed \/ "SMEP" \in cr4 \ s.cr4
<1>0. s \in Cpu /\ host \in Hosts  BY DEF RegsInv, TypeInv
<1>1. IF loads THEN Preloaded(s, a, TRUE) ELSE a = CacheCr3(s)
  BY <1>0, PreloadIs
<1>2. a \in Cpu
  BY <1>0, <1>1, CachedIs DEF Preloaded
<1>3. cpu' = EndOf(t, r, l, f)  BY DEF SetCr4, PostSetCr4, EndOf
<1> HIDE DEF a
<1>4. Cr4Set(a, t, cr4)  BY <1>0, <1>2, Cr4Is
<1> HIDE DEF t
<1>5. t \in Cpu  BY <1>4 DEF Cr4Set
<1>6. r \in BOOLEAN /\ l \in BOOLEAN /\ f \in BOOLEAN  OBVIOUS
<1> HIDE DEF r, l, f
<1>7. Ended(t, cpu', r, l, f)  BY <1>3, <1>5, <1>6, EndIs
<1> QED  BY <1>1, <1>2, <1>4, <1>5, <1>7 DEF r, l, f

LEMMA SetCr4Step ==
  ASSUME RegsInv, NEW cr4 \in Cr4s, SetCr4(cr4)
  PROVE  RegsInv'
<1> DEFINE s == cpu
           n == cpu'
           changed == Changed(s.cr4, cr4)
           resets == changed \cap RoleBits # {}
           loads == ~LongMode(s) /\ Paging(s) /\ "PAE" \in cr4 /\ resets
           turnsOn == ~Tdp /\ "PCIDE" \in cr4 \ s.cr4
           flushes == "PCIDE" \in s.cr4 \ cr4 \/ "PAE" \in changed \/ "SMEP" \in cr4 \ s.cr4
<1>0. PICK a \in Cpu, t \in Cpu :
        /\ IF loads THEN Preloaded(s, a, TRUE) ELSE a = CacheCr3(s)
        /\ Cr4Set(a, t, cr4)
        /\ Ended(t, n, resets, turnsOn, flushes)
  BY SetCr4Is
<1>1. /\ s \in Cpu /\ n \in Cpu /\ host \in Hosts /\ pc = "host" /\ pc' = "host"
      /\ host' = host /\ written' = written
  BY <1>0 DEF RegsInv, TypeInv, SetCr4, Ended
<1>2. /\ LongMode(s) => "PAE" \in cr4
      /\ "PCIDE" \in cr4 \ s.cr4 => LongMode(s)
      /\ resets <=> ("PAE" \in changed \/ "SMEP" \in changed)
  BY DEF SetCr4, RoleBits
<1>3. /\ a \in Cpu /\ SameMode(s, a) /\ SameHw(s, a) /\ a.role = s.role /\ (a.flush <=> s.flush)
      /\ a.cr3 = ReadCr3(s) /\ "CR3" \in a.avail /\ ("CR3" \in a.dirty <=> "CR3" \in s.dirty)
      /\ ("PDPTR" \in a.avail <=> loads \/ "PDPTR" \in s.avail)
      /\ ("PDPTR" \in a.dirty <=> loads \/ "PDPTR" \in s.dirty)
      /\ a.pdptrs = IF loads THEN ReadCr3(s) ELSE s.pdptrs
      /\ a.load <=> loads \/ s.load
  <2> HIDE DEF loads
  <2>1. CASE loads  BY <1>0, <2>1 DEF Preloaded
  <2>2. CASE ~loads
    <3>1. a = CacheCr3(s)  BY <1>0, <2>2
    <3>2. /\ a \in Cpu /\ SameMode(s, a) /\ SameRest(s, a)
          /\ a.avail = s.avail \cup {"CR3"} /\ a.dirty = s.dirty /\ a.cr3 = ReadCr3(s)
      BY <1>1, <3>1, CachedIs
    <3> QED  BY <2>2, <3>2 DEF SameRest, SameHw
  <2> QED  BY <2>1, <2>2
<1>4. /\ n.cr0 = s.cr0 /\ n.cr4 = cr4 /\ n.efer = s.efer /\ n.hwCr4 = HwBits(Paging(s), cr4)
      /\ (n.vm86 <=> s.vm86) /\ (n.exiting <=> s.exiting) /\ (n.ia32e <=> s.ia32e)
  BY <1>0, <1>3 DEF Cr4Set, Ended, SameMode, Paging
<1>5. SameHw(s, n) /\ n.cr3 = ReadCr3(s) /\ n.avail = a.avail /\ n.dirty = a.dirty
      /\ n.pdptrs = a.pdptrs /\ n.role = (IF resets THEN RoleOf(t) ELSE s.role)
      /\ (n.load <=> loads \/ s.load \/ resets \/ turnsOn) /\ (n.flush <=> s.flush \/ flushes)
  BY <1>0, <1>3 DEF Cr4Set, Ended, SameHw, SameCr3, SameRest
<1>6. RoleOf(t) = RoleOf(n)  BY <1>0 DEF Ended, SameMode, RoleOf, Paging
<1>7. /\ EntryInv(s, written) /\ ModeInv(s) /\ (KnownCr3 => ReadCr3(s) = written)
      /\ s.dirty \subseteq s.avail /\ (Vmx \/ "CR3" \in s.avail) /\ (s.exiting <=> Exiting(s))
  BY <1>1 DEF RegsInv, CacheInv, ModeInv
<1>8. /\ "PAE" \in changed <=> ("PAE" \in cr4 <=> "PAE" \notin s.cr4)
      /\ "SMEP" \in changed <=> ("SMEP" \in cr4 <=> "SMEP" \notin s.cr4)
  BY DEF Changed
<1>9. (Paging(n) <=> Paging(s)) /\ (LongMode(n) <=> LongMode(s))
  BY <1>4 DEF Paging, LongMode
<1>10. ModeInv(n)
  <2>1. n.hwCr4 = HwCr4(n)
    <3>1. HwCr4(n) = HwBits(Paging(n), n.cr4)  BY <1>1, HwCr4Is
    <3> QED  BY <1>4, <3>1 DEF Paging
  <2>2. "PCIDE" \in n.cr4 => LongMode(n)
    BY <1>2, <1>4, <1>7, <1>9 DEF ModeInv
  <2>3. LongMode(n) => "PAE" \in n.cr4
    BY <1>2, <1>4, <1>9
  <2>4. n.exiting <=> Exiting(n)
    BY <1>4, <1>7, <1>9 DEF Exiting
  <2> QED  BY <1>4, <1>7, <1>9, <2>1, <2>2, <2>3, <2>4 DEF ModeInv
<1>11. CacheInv(cpu)'
  <2>1. n.dirty \subseteq n.avail /\ "CR3" \in n.avail
    BY <1>1, <1>3, <1>5, <1>7 DEF Cpu
  <2>2. ReadCr3(n) = ReadCr3(s)
    BY <1>1, <1>5, <2>1, ReadIs
  <2>3. ReadCr3(cpu)' = ReadCr3(n)  BY DEF ReadCr3, CacheCr3
  <2> QED  BY <1>1, <1>7, <2>1, <2>2, <2>3 DEF CacheInv, KnownCr3
<1>12. EntryInv(n, written)
  <2>1. PaePaging(n) <=> ~LongMode(s) /\ Paging(s) /\ "PAE" \in cr4
    BY <1>4, <1>9 DEF PaePaging
  <2>2. PaePaging(n) => IF loads THEN n.pdptrs = ReadCr3(s) /\ "PDPTR" \in n.dirty /\ n.load
                        ELSE /\ PaePaging(s) /\ n.pdptrs = s.pdptrs /\ (n.load => s.load)
                             /\ "PDPTR" \in n.dirty <=> "PDPTR" \in s.dirty
    <3>1. CASE loads  BY <1>3, <1>5, <3>1
    <3>2. CASE ~loads
      <4> SUFFICES ASSUME PaePaging(n)
                   PROVE  /\ PaePaging(s) /\ n.pdptrs = s.pdptrs /\ (n.load => s.load)
                          /\ "PDPTR" \in n.dirty <=> "PDPTR" \in s.dirty
        BY <3>2
      <4>1. ~resets  BY <2>1, <3>2
      <4>2. PaePaging(s)  BY <1>2, <1>8, <2>1, <4>1 DEF PaePaging
      <4>3. ~turnsOn  BY <1>2, <2>1
      <4> HIDE DEF loads, resets, turnsOn
      <4> QED  BY <1>3, <1>5, <3>2, <4>1, <4>2, <4>3
    <3> QED  BY <3>1, <3>2
  <2>3. n.role = RoleOf(n) /\ (n.load \/ n.role = s.role)
    <3>1. CASE resets  BY <1>5, <1>6, <3>1
    <3>2. CASE ~resets
      <4>1. n.cr4 \cap {"PAE", "SMEP"} = s.cr4 \cap {"PAE", "SMEP"}
        BY <1>2, <1>4, <1>8, <3>2
      <4>2. RoleOf(n) = RoleOf(s)  BY <1>4, <1>9, <4>1 DEF RoleOf
      <4> QED  BY <1>5, <1>7, <3>2, <4>2 DEF EntryInv
    <3> QED  BY <3>1, <3>2
  <2>4. loads \in BOOLEAN  OBVIOUS
  <2> HIDE DEF loads, resets, turnsOn
  <2> QED  BY <1>1, <1>3, <1>5, <1>7, <1>9, <2>2, <2>3, <2>4, EntryKept DEF KnownCr3
<1>13. (cpu.flush \/ stale = {})'
  <2>1. flushes \/ stale' = stale  BY DEF SetCr4
  <2> QED  BY <1>5, <2>1 DEF RegsInv
<1>14. TypeInv'  BY <1>1 DEF TypeInv
<1> QED  BY <1>1, <1>10, <1>11, <1>12, <1>13, <1>14, Primed DEF RegsInv

\* CR3 is written, and the guest's has to be loaded if load says so.
Cr3Set(s, t, cr3, load) ==
  /\ t \in Cpu /\ SameMode(s, t) /\ SameHw(s, t) /\ t.cr3 = cr3
  /\ t.avail = s.avail \cup {"CR3"} /\ t.dirty = s.dirty \cup {"CR3"} /\ t.pdptrs = s.pdptrs
  /\ (t.load <=> load) /\ (t.flush <=> s.flush) /\ t.role = s.role
LEMMA Cr3Is ==
  ASSUME NEW s \in Cpu, NEW cr3 \in Cr3Values, NEW load \in BOOLEAN
  PROVE  Cr3Set(s, Dirtied([s EXCEPT !.cr3 = cr3, !.load = load], "CR3"), cr3, load)
<1> DEFINE a == s.avail \cup {"CR3"}
           d == s.dirty \cup {"CR3"}
           t == Dirtied([s EXCEPT !.cr3 = cr3, !.load = load], "CR3")
<1>1. a \in SUBSET {"CR3", "PDPTR"} /\ d \in SUBSET {"CR3", "PDPTR"}  BY DEF Cpu
<1>2. t = [s EXCEPT !.cr3 = cr3, !.load = load, !.avail = a, !.dirty = d]
  BY DEF Dirtied, Cpu
<1> HIDE DEF t, a, d
<1>3. t \in Cpu  BY <1>1, <1>2 DEF Cpu
<1>4. /\ SameMode(s, t) /\ SameHw(s, t) /\ t.cr3 = cr3 /\ t.avail = a /\ t.dirty = d
      /\ t.pdptrs = s.pdptrs /\ (t.load <=> load) /\ (t.flush <=> s.flush) /\ t.role = s.role
  BY <1>2, <1>3 DEF SameMode, SameHw, Cpu
<1>5. Cr3Set(s, t, cr3, load)  BY <1>3, <1>4 DEF Cr3Set, a, d
<1> QED  BY <1>5 DEF t

LEMMA WriteIs ==
  ASSUME NEW cr3
  PROVE  /\ Write(cr3) \in {cr3, Unknown}
         /\ (Write(cr3) # Unknown /\ cr3 = ReadCr3(cpu)) => KnownCr3
  BY DEF Write, KnownCr3

\* An operation that leaves the mode alone leaves what depends on it alone.
LEMMA ModeKept ==
  ASSUME NEW s \in Cpu, NEW n \in Cpu, SameMode(s, n), host \in Hosts
  PROVE  /\ ModeInv(s) => ModeInv(n)
         /\ RoleOf(n) = RoleOf(s) /\ (Paging(n) <=> Paging(s)) /\ (LongMode(n) <=> LongMode(s))
         /\ PaePaging(n) <=> PaePaging(s)
<1>1. (Paging(n) <=> Paging(s)) /\ (LongMode(n) <=> LongMode(s)) /\ (PaePaging(n) <=> PaePaging(s))
  BY DEF SameMode, Paging, LongMode, PaePaging
<1>2. RoleOf(n) = RoleOf(s)  BY <1>1 DEF SameMode, RoleOf
<1>3. HwCr4(n) = HwCr4(s)
  <2>1. HwCr4(n) = HwBits(Paging(n), n.cr4) /\ HwCr4(s) = HwBits(Paging(s), s.cr4)  BY HwCr4Is
  <2> QED  BY <2>1 DEF SameMode, Paging
<1>4. ModeInv(s) => ModeInv(n)
  BY <1>1, <1>3 DEF ModeInv, SameMode, Exiting
<1> QED  BY <1>1, <1>2, <1>4

LEMMA SetCr3Is ==
  ASSUME RegsInv, NEW cr3 \in Cr3s, NEW noflush \in BOOLEAN, SetCr3(cr3, noflush)
  PROVE  \E c, w \in Cpu :
           LET s == cpu
               skips == noflush /\ "PCIDE" \in c.cr4
           IN /\ c = CacheCr3(s)
              /\ IF cr3 = c.cr3 /\ ~PaePaging(c) THEN w = c
                 ELSE \E t \in Cpu : /\ t = IF PaePaging(c) THEN LoadPdptrs(c, cr3) ELSE c
                                     /\ Cr3Set(t, w, cr3, TRUE)
              /\ Ended(w, cpu', FALSE, FALSE, ~skips)
<1> DEFINE s == cpu
           c == CacheCr3(s)
           skips == noflush /\ "PCIDE" \in c.cr4
           t == IF PaePaging(c) THEN LoadPdptrs(c, cr3) ELSE c
           l == t.load \/ cr3 # c.cr3
           u == Dirtied([t EXCEPT !.cr3 = cr3, !.load = l], "CR3")
           w == IF cr3 = c.cr3 /\ ~PaePaging(c) THEN c ELSE u
<1>0. s \in Cpu /\ host \in Hosts /\ cr3 \in Cr3Values  BY DEF RegsInv, TypeInv, Cr3Values
<1>1. c \in Cpu  BY <1>0, CachedIs
<1> HIDE DEF c
<1>2. t \in Cpu /\ (PaePaging(c) => t.load)
  BY <1>0, <1>1, LoadPdptrsIs
<1>3. cpu' = EndOf(w, FALSE, FALSE, ~skips)  BY DEF SetCr3, EndOf, c
<1> HIDE DEF t
<1>4. CASE ~(cr3 = c.cr3 /\ ~PaePaging(c))
  <2>1. l = TRUE  BY <1>2, <1>4
  <2>2. w = Dirtied([t EXCEPT !.cr3 = cr3, !.load = TRUE], "CR3")  BY <1>4, <2>1
  <2> HIDE DEF w
  <2>3. Cr3Set(t, w, cr3, TRUE)  BY <1>0, <1>2, <2>2, Cr3Is
  <2>4. w \in Cpu  BY <2>3 DEF Cr3Set
  <2>5. (~skips) \in BOOLEAN  OBVIOUS
  <2>6. Ended(w, cpu', FALSE, FALSE, ~skips)  BY <1>3, <2>4, <2>5, EndIs
  <2> QED  BY <1>1, <1>2, <1>4, <2>3, <2>4, <2>6 DEF c, t
<1>5. CASE cr3 = c.cr3 /\ ~PaePaging(c)
  <2>1. w = c  BY <1>5
  <2>5. (~skips) \in BOOLEAN  OBVIOUS
  <2>6. Ended(c, cpu', FALSE, FALSE, ~skips)  BY <1>1, <1>3, <2>1, <2>5, EndIs
  <2> QED  BY <1>1, <1>5, <2>6 DEF c
<1> QED  BY <1>4, <1>5

LEMMA SetCr3Step ==
  ASSUME RegsInv, NEW cr3 \in Cr3s, NEW noflush \in BOOLEAN, SetCr3(cr3, noflush)
  PROVE  RegsInv'
<1> DEFINE s == cpu
           n == cpu'
           c == CacheCr3(s)
           skips == noflush /\ "PCIDE" \in c.cr4
           stays == cr3 = c.cr3 /\ ~PaePaging(c)
<1>0. PICK w \in Cpu :
        /\ IF stays THEN w = c
           ELSE \E t \in Cpu : /\ t = IF PaePaging(c) THEN LoadPdptrs(c, cr3) ELSE c
                               /\ Cr3Set(t, w, cr3, TRUE)
        /\ Ended(w, n, FALSE, FALSE, ~skips)
  BY SetCr3Is
<1>1. /\ s \in Cpu /\ n \in Cpu /\ host \in Hosts /\ pc = "host" /\ pc' = "host"
      /\ host' = host /\ written' = Write(cr3) /\ cr3 \in Cr3Values
  BY <1>0 DEF RegsInv, TypeInv, SetCr3, Ended, Cr3Values
<1>2. /\ EntryInv(s, written) /\ ModeInv(s) /\ (KnownCr3 => ReadCr3(s) = written)
      /\ s.dirty \subseteq s.avail /\ (Vmx \/ "CR3" \in s.avail) /\ (s.exiting <=> Exiting(s))
  BY <1>1 DEF RegsInv, CacheInv, ModeInv
<1>3. /\ c \in Cpu /\ SameMode(s, c) /\ SameRest(s, c) /\ c.cr3 = ReadCr3(s)
      /\ c.avail = s.avail \cup {"CR3"} /\ c.dirty = s.dirty
  BY <1>1, CachedIs
<1>4. PaePaging(c) <=> PaePaging(s)  BY <1>1, <1>3, ModeKept
<1> HIDE DEF c
<1>5. /\ SameMode(s, w) /\ SameHw(s, w) /\ w.role = s.role /\ (w.flush <=> s.flush) /\ w.cr3 = cr3
      /\ "CR3" \in w.avail /\ w.dirty \subseteq w.avail
      /\ stays => w.dirty = s.dirty /\ w.pdptrs = s.pdptrs /\ (w.load <=> s.load)
      /\ ~stays => /\ w.load /\ "CR3" \in w.dirty
                   /\ PaePaging(s) => w.pdptrs = cr3 /\ "PDPTR" \in w.dirty
  <2>1. CASE stays
    <3>1. w = c  BY <1>0, <2>1
    <3> QED  BY <1>2, <1>3, <2>1, <3>1 DEF SameRest, SameHw
  <2>2. CASE ~stays
    <3>1. PICK t \in Cpu : /\ t = IF PaePaging(c) THEN LoadPdptrs(c, cr3) ELSE c
                           /\ Cr3Set(t, w, cr3, TRUE)
      BY <1>0, <2>2
    <3>2. /\ SameMode(s, t) /\ SameHw(s, t) /\ t.role = s.role /\ (t.flush <=> s.flush)
          /\ t.dirty \subseteq t.avail \cup {"CR3"}
          /\ PaePaging(s) => t.pdptrs = cr3 /\ "PDPTR" \in t.dirty
      <4>1. CASE PaePaging(c)
        <5>1. t = LoadPdptrs(c, cr3)  BY <3>1, <4>1
        <5>2. /\ SameMode(c, t) /\ SameHw(c, t) /\ t.pdptrs = cr3
              /\ t.avail = c.avail \cup {"PDPTR"} /\ t.dirty = c.dirty \cup {"PDPTR"}
              /\ (t.flush <=> c.flush) /\ t.role = c.role
          BY <1>1, <1>3, <5>1, LoadPdptrsIs
        <5> QED  BY <1>2, <1>3, <5>2 DEF SameRest, SameHw, SameMode
      <4>2. CASE ~PaePaging(c)
        <5>1. t = c  BY <3>1, <4>2
        <5> QED  BY <1>2, <1>3, <1>4, <4>2, <5>1 DEF SameRest, SameHw
      <4> QED  BY <4>1, <4>2
    <3> QED  BY <2>2, <3>1, <3>2 DEF Cr3Set, SameMode, SameHw
  <2> QED  BY <2>1, <2>2
<1>6. /\ SameMode(s, n) /\ SameHw(s, n) /\ n.role = s.role /\ n.cr3 = cr3
      /\ (n.load <=> w.load) /\ n.pdptrs = w.pdptrs /\ n.avail = w.avail /\ n.dirty = w.dirty
      /\ (n.flush <=> (s.flush \/ ~skips))
  BY <1>0, <1>5 DEF Ended, SameMode, SameHw, SameCr3
<1>7. /\ ModeInv(n) /\ RoleOf(n) = RoleOf(s) /\ (Paging(n) <=> Paging(s))
      /\ PaePaging(n) <=> PaePaging(s)
  BY <1>1, <1>2, <1>6, ModeKept
<1>8. ReadCr3(n) = cr3
  BY <1>1, <1>5, <1>6, ReadIs
<1>9. Write(cr3) \in {cr3, Unknown} /\ ((Write(cr3) # Unknown /\ cr3 = ReadCr3(s)) => KnownCr3)
  BY WriteIs
<1>10. CacheInv(cpu)'
  <2>1. n.dirty \subseteq n.avail /\ "CR3" \in n.avail  BY <1>5, <1>6
  <2>2. ReadCr3(cpu)' = ReadCr3(n)  BY DEF ReadCr3, CacheCr3
  <2> QED  BY <1>1, <1>8, <1>9, <2>1, <2>2 DEF CacheInv, KnownCr3
<1>11. EntryInv(n, Write(cr3))
  <2>1. n.role = RoleOf(n)  BY <1>2, <1>6, <1>7 DEF EntryInv
  <2>2. CASE stays
    <3>1. cr3 = ReadCr3(s)  BY <1>3, <2>2
    <3>2. EntryInv(s, Write(cr3)) /\ (Write(cr3) # Unknown => ReadCr3(s) = Write(cr3))
      <4>1. CASE Write(cr3) = Unknown  BY <1>2, <4>1 DEF EntryInv
      <4>2. CASE Write(cr3) # Unknown  BY <1>2, <1>9, <3>1, <4>2
      <4> QED  BY <4>1, <4>2
    <3> HIDE DEF stays
    <3> QED  BY <1>1, <1>2, <1>5, <1>6, <1>7, <2>1, <2>2, <3>1, <3>2, EntryKept
  <2>3. CASE ~stays
    <3> HIDE DEF stays
    <3> QED  BY <1>1, <1>5, <1>6, <1>7, <1>9, <2>1, <2>3, EntryLoads
  <2> QED  BY <2>2, <2>3
<1>12. (cpu.flush \/ stale = {})'
  <2>1. ~skips \/ stale' = stale  BY DEF SetCr3, c
  <2> QED  BY <1>6, <2>1 DEF RegsInv
<1>13. TypeInv'  BY <1>1 DEF TypeInv
<1> QED  BY <1>1, <1>7, <1>10, <1>11, <1>12, <1>13, Primed DEF RegsInv

LEMMA SetEferStep ==
  ASSUME RegsInv, NEW efer \in SUBSET {"LME"}, SetEfer(efer)
  PROVE  RegsInv'
<1> DEFINE s == cpu
           n == cpu'
           bits == (efer \ {"LMA"}) \cup (s.efer \cap {"LMA"})
           t == VendorSetEfer(s, bits)
           r == "LME" \in Changed(efer, s.efer)
<1>1. /\ s \in Cpu /\ host \in Hosts /\ pc = "host" /\ pc' = "host"
      /\ host' = host /\ written' = written
  BY DEF RegsInv, TypeInv, SetEfer
<1>2. /\ EntryInv(s, written) /\ ModeInv(s) /\ (KnownCr3 => ReadCr3(s) = written)
      /\ s.dirty \subseteq s.avail /\ (Vmx \/ "CR3" \in s.avail) /\ (s.exiting <=> Exiting(s))
  BY <1>1 DEF RegsInv, CacheInv, ModeInv
<1>3. /\ bits \in SUBSET {"LME", "LMA"} /\ ("LMA" \in bits <=> "LMA" \in s.efer)
      /\ ("LME" \in bits <=> "LME" \in efer) /\ (Paging(s) => ("LME" \in s.efer <=> "LME" \in efer))
      /\ (r <=> ("LME" \in efer <=> "LME" \notin s.efer))
  BY DEF SetEfer, Changed
<1>4. EferSet(s, t, bits)  BY <1>1, <1>3, EferIs
<1>5. n = EndOf(t, r, FALSE, FALSE)  BY DEF SetEfer, EndOf
<1>6. r \in BOOLEAN  OBVIOUS
<1> HIDE DEF t, bits, r
<1>7. t \in Cpu  BY <1>4 DEF EferSet
<1>8. Ended(t, n, r, FALSE, FALSE)  BY <1>5, <1>6, <1>7, EndIs
<1>9. /\ n \in Cpu /\ n.cr0 = s.cr0 /\ n.cr4 = s.cr4 /\ n.efer = bits /\ n.hwCr4 = s.hwCr4
      /\ (n.vm86 <=> s.vm86) /\ (n.exiting <=> s.exiting) /\ (n.ia32e <=> "LMA" \in bits)
  BY <1>4, <1>8 DEF EferSet, Ended, SameMode
<1>10. /\ SameHw(s, n) /\ n.cr3 = s.cr3 /\ n.avail = s.avail /\ n.dirty = s.dirty
       /\ n.pdptrs = s.pdptrs /\ n.role = (IF r THEN RoleOf(t) ELSE s.role)
       /\ (n.load <=> s.load \/ r) /\ (n.flush <=> s.flush)
  BY <1>4, <1>8 DEF EferSet, Ended, SameHw, SameCr3, SameRest
<1>11. /\ (Paging(n) <=> Paging(s)) /\ (LongMode(n) <=> LongMode(s))
       /\ (PaePaging(n) <=> PaePaging(s)) /\ (PaePaging(n) => ~r)
  BY <1>3, <1>9 DEF Paging, LongMode, PaePaging
<1>12. ModeInv(n)
  <2>1. HwCr4(n) = HwCr4(s)
    <3>1. HwCr4(n) = HwBits(Paging(n), n.cr4) /\ HwCr4(s) = HwBits(Paging(s), s.cr4)
      BY <1>1, <1>9, HwCr4Is
    <3> QED  BY <1>9, <3>1 DEF Paging
  <2>2. n.exiting <=> Exiting(n)  BY <1>2, <1>9, <1>11 DEF Exiting
  <2>3. LongMode(n) <=> ("LME" \in n.efer /\ Paging(n))
    BY <1>2, <1>3, <1>9, <1>11 DEF ModeInv
  <2>4. n.ia32e <=> LongMode(n)  BY <1>9 DEF LongMode
  <2> QED  BY <1>2, <1>9, <1>11, <2>1, <2>2, <2>3, <2>4 DEF ModeInv
<1>13. CacheInv(cpu)'
  <2>1. ReadCr3(n) = ReadCr3(s)
    <3>1. n.hwCr3 = s.hwCr3  BY <1>10 DEF SameHw
    <3>2. ReadCr3(n) = IF "CR3" \in n.avail \/ n.exiting THEN n.cr3 ELSE n.hwCr3
      BY <1>9, ReadIs
    <3>3. ReadCr3(s) = IF "CR3" \in s.avail \/ s.exiting THEN s.cr3 ELSE s.hwCr3
      BY <1>1, ReadIs
    <3> QED  BY <1>9, <1>10, <3>1, <3>2, <3>3
  <2>2. ReadCr3(cpu)' = ReadCr3(n)  BY DEF ReadCr3, CacheCr3
  <2> QED  BY <1>1, <1>2, <1>10, <2>1, <2>2 DEF CacheInv, KnownCr3, Vmx
<1>14. EntryInv(n, written)
  <2>1. RoleOf(t) = RoleOf(n)  BY <1>8 DEF Ended, SameMode, RoleOf, Paging
  <2>2. RoleOf(n) = RoleOf(s)
    <3>1. n.efer \cap {"LMA"} = s.efer \cap {"LMA"}  BY <1>3, <1>9
    <3> QED  BY <1>9, <1>11, <3>1 DEF RoleOf
  <2>3. n.role = RoleOf(n)  BY <1>2, <1>10, <2>1, <2>2 DEF EntryInv
  <2>4. n.load \/ n.role = s.role  BY <1>10
  <2> QED  BY <1>1, <1>2, <1>9, <1>10, <1>11, <2>3, <2>4, EntryKept DEF KnownCr3
<1>15. (cpu.flush \/ stale = {})'  BY <1>10 DEF SetEfer, RegsInv
<1>16. TypeInv'  BY <1>1, <1>9 DEF TypeInv
<1> QED  BY <1>1, <1>12, <1>13, <1>14, <1>15, <1>16, Primed DEF RegsInv

LEMMA DirtiedIs ==
  ASSUME NEW s \in Cpu
  PROVE  LET t == Dirtied(s, "CR3")
         IN /\ t \in Cpu /\ SameMode(s, t) /\ SameHw(s, t) /\ t.cr3 = s.cr3
            /\ t.avail = s.avail \cup {"CR3"} /\ t.dirty = s.dirty \cup {"CR3"}
            /\ t.pdptrs = s.pdptrs /\ (t.load <=> s.load) /\ (t.flush <=> s.flush)
            /\ t.role = s.role
<1> DEFINE a == s.avail \cup {"CR3"}
           d == s.dirty \cup {"CR3"}
           t == Dirtied(s, "CR3")
<1>1. a \in SUBSET {"CR3", "PDPTR"} /\ d \in SUBSET {"CR3", "PDPTR"}  BY DEF Cpu
<1>2. t = [s EXCEPT !.avail = a, !.dirty = d]
  BY DEF Dirtied, Cpu
<1> HIDE DEF t, a, d
<1>3. t \in Cpu  BY <1>1, <1>2 DEF Cpu
<1>4. /\ SameMode(s, t) /\ SameHw(s, t) /\ t.cr3 = s.cr3 /\ t.avail = a /\ t.dirty = d
      /\ t.pdptrs = s.pdptrs /\ (t.load <=> s.load) /\ (t.flush <=> s.flush) /\ t.role = s.role
  BY <1>2, <1>3 DEF SameMode, SameHw, Cpu
<1> QED  BY <1>3, <1>4 DEF t, a, d

\* The mode that SetSregs and Reset leave behind, before they end.
ModeSet(s, t, cr0, cr4, efer) ==
  /\ t \in Cpu /\ t.cr0 = cr0 /\ t.cr4 = cr4 /\ t.efer = efer
  /\ t.hwCr4 = HwBits("PG" \in cr0, cr4) /\ (t.ia32e <=> "LMA" \in efer)
  /\ (t.vm86 <=> IF Vmx THEN Restricted /\ "PE" \notin cr0 ELSE s.vm86)
  /\ (t.exiting <=> IF host = "ept" THEN "PG" \notin cr0 ELSE s.exiting)
  /\ t.cr3 = s.cr3 /\ t.avail = s.avail /\ t.dirty = s.dirty /\ SameRest(s, t)

LEMMA SetModeIs ==
  ASSUME NEW s \in Cpu, host \in Hosts, "CR3" \in s.avail, "CR3" \in s.dirty,
         NEW cr0 \in Cr0s, NEW cr4 \in Cr4s, NEW efer \in SUBSET {"LME", "LMA"},
         "LMA" \in efer <=> ("LME" \in efer /\ "PG" \in cr0)
  PROVE  ModeSet(s, VendorSetCr4(VendorSetCr0(VendorSetEfer(s, efer), cr0), cr4), cr0, cr4, efer)
<1> DEFINE e == VendorSetEfer(s, efer)
           z == VendorSetCr0(e, cr0)
           t == VendorSetCr4(z, cr4)
<1>1. EferSet(s, e, efer)  BY EferIs
<1>2. e \in Cpu  BY <1>1 DEF EferSet
<1> HIDE DEF e
<1>3. Cr0Set(e, z, cr0)  BY <1>2, VendorCr0
<1>4. z \in Cpu  BY <1>3 DEF Cr0Set, Cr0Long
<1> HIDE DEF z
<1>5. Cr4Set(z, t, cr4)  BY <1>4, Cr4Is
<1> HIDE DEF t
<1>6. With(efer, "LMA", "PG" \in cr0) = efer \/ "LME" \notin efer  BY DEF With
<1>7. /\ t.efer = efer /\ (t.ia32e <=> "LMA" \in efer)
  BY <1>1, <1>3, <1>5, <1>6 DEF EferSet, Cr0Set, Cr0Long, Cr4Set
<1>8. /\ t \in Cpu /\ t.cr0 = cr0 /\ t.cr4 = cr4 /\ t.hwCr4 = HwBits("PG" \in cr0, cr4)
      /\ (t.vm86 <=> IF Vmx THEN Restricted /\ "PE" \notin cr0 ELSE s.vm86)
      /\ (t.exiting <=> IF host = "ept" THEN "PG" \notin cr0 ELSE s.exiting)
  BY <1>1, <1>3, <1>5 DEF EferSet, Cr0Set, Cr0Long, Cr4Set, Paging
<1>9. ReadCr3(e) = s.cr3
  BY <1>1, <1>2, ReadIs DEF EferSet, SameCr3
<1>10. t.cr3 = s.cr3 /\ t.avail = s.avail /\ t.dirty = s.dirty /\ SameRest(s, t)
  <2>1. s.avail \cup {"CR3"} = s.avail /\ s.dirty \cup {"CR3"} = s.dirty  OBVIOUS
  <2> QED  BY <1>1, <1>3, <1>5, <1>9, <2>1 DEF EferSet, Cr0Set, Cr0Long, Cr4Set, SameCr3, SameRest
<1>11. ModeSet(s, t, cr0, cr4, efer)  BY <1>7, <1>8, <1>10 DEF ModeSet
<1> QED  BY <1>11 DEF t, z, e

\* Reset sets EFER last.
LEMMA ResetModeIs ==
  ASSUME NEW s \in Cpu, host \in Hosts, "CR3" \in s.avail, "CR3" \in s.dirty
  PROVE  ModeSet(s, VendorSetEfer(VendorSetCr4(VendorSetCr0(s, {}), {}), {}), {}, {}, {})
<1> DEFINE z == VendorSetCr0(s, {})
           r == VendorSetCr4(z, {})
           t == VendorSetEfer(r, {})
<1>0. {} \in Cr0s /\ {} \in Cr4s /\ {} \in SUBSET {"LME", "LMA"}  BY DEF Cr0s, Cr4s
<1>1. Cr0Set(s, z, {})  BY <1>0, VendorCr0
<1>2. z \in Cpu  BY <1>1 DEF Cr0Set, Cr0Long
<1> HIDE DEF z
<1>3. Cr4Set(z, r, {})  BY <1>0, <1>2, Cr4Is
<1>4. r \in Cpu  BY <1>3 DEF Cr4Set
<1> HIDE DEF r
<1>5. EferSet(r, t, {})  BY <1>0, <1>4, EferIs
<1> HIDE DEF t
<1>6. ~("PG" \in {}) /\ "PE" \notin {} /\ ~("LMA" \in {})  OBVIOUS
<1>7. /\ t \in Cpu /\ t.cr0 = {} /\ t.cr4 = {} /\ t.efer = {} /\ (t.ia32e <=> "LMA" \in {})
      /\ (t.vm86 <=> IF Vmx THEN Restricted /\ "PE" \notin {} ELSE s.vm86)
      /\ (t.exiting <=> IF host = "ept" THEN "PG" \notin {} ELSE s.exiting)
  BY <1>1, <1>3, <1>5, <1>6 DEF EferSet, Cr0Set, Cr0Long, Cr4Set
<1>8. t.hwCr4 = HwBits("PG" \in {}, {})
  <2>1. Paging(z) = ("PG" \in {})  BY <1>1 DEF Cr0Set, Cr0Long, Paging
  <2> QED  BY <1>3, <1>5, <2>1 DEF EferSet, Cr4Set
<1>9. ReadCr3(s) = s.cr3  BY ReadIs
<1>10. t.cr3 = s.cr3 /\ t.avail = s.avail /\ t.dirty = s.dirty /\ SameRest(s, t)
  <2>1. s.avail \cup {"CR3"} = s.avail /\ s.dirty \cup {"CR3"} = s.dirty  OBVIOUS
  <2> QED  BY <1>1, <1>3, <1>5, <1>9, <2>1 DEF EferSet, Cr0Set, Cr0Long, Cr4Set, SameCr3, SameRest
<1>11. ModeSet(s, t, {}, {}, {})  BY <1>7, <1>8, <1>10 DEF ModeSet
<1> QED  BY <1>11 DEF t, r, z

\* What the next entry loads does not depend on what is cached, and Unknown asks for less.
LEMMA EntryRests ==
  ASSUME NEW s \in Cpu, NEW n \in Cpu, host \in Hosts, NEW cr3, EntryInv(s, cr3),
         ~s.load, ~n.load, SameHw(s, n), n.role = s.role, RoleOf(n) = RoleOf(s),
         Paging(n) <=> Paging(s), PaePaging(n) => PaePaging(s)
  PROVE  EntryInv(n, cr3)
  BY DEF EntryInv, Loaded, SameHw

LEMMA EntryWeaker ==
  ASSUME NEW s, NEW cr3, EntryInv(s, cr3)
  PROVE  EntryInv(s, Unknown)
  BY DEF EntryInv

\* When SetSregs resets the MMU's context.
Resets(b, cr0, cr3, cr4, efer) ==
  \/ cr3 # ReadCr3(cpu) \/ efer # cpu.efer \/ cr4 # cpu.cr4 \/ cr0 # cpu.cr0 \/ PaePaging(b)
LEMMA SetSregsIs ==
  ASSUME RegsInv, NEW cr0 \in Cr0s, NEW cr3 \in Cr3s, NEW cr4 \in Cr4s,
         NEW efer \in SUBSET {"LME", "LMA"}, NEW l, SetSregs(cr0, cr3, cr4, efer, l)
  PROVE  \E a, b, c \in Cpu :
           LET s == cpu
               resets == Resets(b, cr0, cr3, cr4, efer)
           IN /\ SameMode(s, a) /\ SameRest(s, a) /\ a.cr3 = cr3 /\ "CR3" \in a.avail
              /\ "CR3" \in a.dirty /\ a.dirty \subseteq a.avail
              /\ ModeSet(a, b, cr0, cr4, efer)
              /\ c = IF PaePaging(b) THEN LoadPdptrs(b, cr3) ELSE b
              /\ Ended(c, cpu', resets, FALSE, resets)
<1> DEFINE s == CacheCr3(cpu)
           x == [s EXCEPT !.cr3 = cr3]
           a == Dirtied(x, "CR3")
           b == VendorSetCr4(VendorSetCr0(VendorSetEfer(a, efer), cr0), cr4)
           c == IF PaePaging(b) THEN LoadPdptrs(b, cr3) ELSE b
           r == cr3 # s.cr3 \/ efer # s.efer \/ cr4 # s.cr4 \/ cr0 # s.cr0 \/ PaePaging(b)
<1>0. /\ cpu \in Cpu /\ host \in Hosts /\ cr3 \in Cr3Values /\ cpu.dirty \subseteq cpu.avail
      /\ "LMA" \in efer <=> ("LME" \in efer /\ "PG" \in cr0)
  BY DEF RegsInv, TypeInv, Cr3Values, CacheInv, SetSregs, ValidSregs
<1>1. cpu' = EndOf(c, r, FALSE, r)  BY DEF SetSregs, EndOf
<1>2. /\ s \in Cpu /\ SameMode(cpu, s) /\ SameRest(cpu, s) /\ s.cr3 = ReadCr3(cpu)
      /\ s.avail = cpu.avail \cup {"CR3"} /\ s.dirty = cpu.dirty
  BY <1>0, CachedIs
<1> HIDE DEF s
<1>3. x \in Cpu /\ SameMode(s, x) /\ SameRest(s, x) /\ x.cr3 = cr3 /\ x.avail = s.avail
      /\ x.dirty = s.dirty
  <2>1. x \in Cpu  BY <1>0, <1>2 DEF Cpu
  <2> QED  BY <1>2, <2>1 DEF SameMode, SameRest, Cpu
<1> HIDE DEF x
<1>4. /\ a \in Cpu /\ SameMode(x, a) /\ SameHw(x, a) /\ a.cr3 = x.cr3
      /\ a.avail = x.avail \cup {"CR3"} /\ a.dirty = x.dirty \cup {"CR3"}
      /\ a.pdptrs = x.pdptrs /\ (a.load <=> x.load) /\ (a.flush <=> x.flush) /\ a.role = x.role
  BY <1>3, DirtiedIs
<1> HIDE DEF a
<1>5. /\ SameMode(cpu, a) /\ SameRest(cpu, a) /\ a.cr3 = cr3 /\ "CR3" \in a.avail
      /\ "CR3" \in a.dirty /\ a.dirty \subseteq a.avail
  BY <1>0, <1>2, <1>3, <1>4 DEF SameMode, SameRest, SameHw
<1>6. ModeSet(a, b, cr0, cr4, efer)  BY <1>0, <1>4, <1>5, SetModeIs
<1>7. b \in Cpu  BY <1>6 DEF ModeSet
<1> HIDE DEF b
<1>8. c \in Cpu  BY <1>0, <1>7, LoadPdptrsIs
<1>9. r \in BOOLEAN  OBVIOUS
<1>10. r <=> (\/ cr3 # ReadCr3(cpu) \/ efer # cpu.efer \/ cr4 # cpu.cr4 \/ cr0 # cpu.cr0
              \/ PaePaging(b))
  BY <1>2 DEF SameMode
<1> HIDE DEF r
<1>11. c = IF PaePaging(b) THEN LoadPdptrs(b, cr3) ELSE b  OBVIOUS
<1> HIDE DEF c
<1>12. Ended(c, cpu', r, FALSE, r)  BY <1>1, <1>8, <1>9, EndIs
<1> DEFINE q == Resets(b, cr0, cr3, cr4, efer)
<1>13. Ended(c, cpu', q, FALSE, q)
  <2>1. q = r  BY <1>9, <1>10 DEF Resets
  <2> HIDE DEF q
  <2> QED  BY <1>12, <2>1
<1> QED  BY <1>4, <1>5, <1>6, <1>7, <1>8, <1>11, <1>13

\* The mode of t fits together when what is set fits together.
LEMMA ModeSetFits ==
  ASSUME NEW s \in Cpu, NEW t, host \in Hosts, NEW cr0 \in Cr0s, NEW cr4 \in Cr4s,
         NEW efer \in SUBSET {"LME", "LMA"},
         ModeSet(s, t, cr0, cr4, efer), host # "ept" => (s.exiting <=> Restricted),
         "PG" \in cr0 => "PE" \in cr0, "LMA" \in efer <=> ("LME" \in efer /\ "PG" \in cr0),
         "LMA" \in efer => "PAE" \in cr4, "PCIDE" \in cr4 => "LMA" \in efer
  PROVE  ModeInv(t)
<1>1. t \in Cpu /\ (Paging(t) <=> "PG" \in cr0) /\ (LongMode(t) <=> "LMA" \in efer)
  BY DEF ModeSet, Paging, LongMode
<1>2. t.hwCr4 = HwCr4(t)
  <2>1. HwCr4(t) = HwBits(Paging(t), t.cr4)  BY <1>1, HwCr4Is
  <2>2. Paging(t) = ("PG" \in cr0)  BY <1>1 DEF Paging
  <2> QED  BY <2>1, <2>2 DEF ModeSet
<1>3. t.exiting <=> Exiting(t)  BY <1>1 DEF ModeSet, Exiting
<1> QED  BY <1>1, <1>2, <1>3 DEF ModeSet, ModeInv

LEMMA SetSregsStep ==
  ASSUME RegsInv, NEW cr0 \in Cr0s, NEW cr3 \in Cr3s, NEW cr4 \in Cr4s,
         NEW efer \in SUBSET {"LME", "LMA"}, NEW l, SetSregs(cr0, cr3, cr4, efer, l)
  PROVE  RegsInv'
<1> DEFINE s == cpu
           n == cpu'
<1>0. PICK a \in Cpu, b \in Cpu, c \in Cpu :
        /\ SameMode(s, a) /\ SameRest(s, a) /\ a.cr3 = cr3 /\ "CR3" \in a.avail
        /\ "CR3" \in a.dirty /\ a.dirty \subseteq a.avail
        /\ ModeSet(a, b, cr0, cr4, efer)
        /\ c = IF PaePaging(b) THEN LoadPdptrs(b, cr3) ELSE b
        /\ Ended(c, n, Resets(b, cr0, cr3, cr4, efer), FALSE, Resets(b, cr0, cr3, cr4, efer))
  BY SetSregsIs
<1> DEFINE r == Resets(b, cr0, cr3, cr4, efer)
<1>1. /\ s \in Cpu /\ n \in Cpu /\ host \in Hosts /\ pc = "host" /\ pc' = "host"
      /\ host' = host /\ written' = Write(cr3) /\ cr3 \in Cr3Values
  BY <1>0 DEF RegsInv, TypeInv, SetSregs, Ended, Cr3Values
<1>2. /\ EntryInv(s, written) /\ ModeInv(s) /\ (KnownCr3 => ReadCr3(s) = written)
      /\ s.exiting <=> Exiting(s)
  BY <1>1 DEF RegsInv, CacheInv, ModeInv
<1>3. ModeInv(b)
  <2>1. /\ "PG" \in cr0 => "PE" \in cr0
        /\ "LMA" \in efer <=> ("LME" \in efer /\ "PG" \in cr0)
        /\ "LMA" \in efer => "PAE" \in cr4
        /\ "PCIDE" \in cr4 => "LMA" \in efer
    BY DEF SetSregs, ValidSregs
  <2>2. host # "ept" => (a.exiting <=> Restricted)  BY <1>0, <1>2 DEF SameMode, Exiting
  <2> QED  BY <1>0, <1>1, <2>1, <2>2, ModeSetFits
<1>4. /\ SameMode(b, c) /\ SameHw(b, c) /\ c.role = b.role /\ (c.flush <=> b.flush) /\ c.cr3 = b.cr3
      /\ c.dirty \subseteq c.avail /\ "CR3" \in c.dirty
      /\ PaePaging(b) => c.pdptrs = cr3 /\ "PDPTR" \in c.dirty
      /\ ~PaePaging(b) => (c.load <=> b.load)
  <2>1. "CR3" \in b.dirty /\ b.dirty \subseteq b.avail  BY <1>0 DEF ModeSet
  <2>2. CASE PaePaging(b)
    <3>1. c = LoadPdptrs(b, cr3)  BY <1>0, <2>2
    <3>2. /\ SameMode(b, c) /\ SameHw(b, c) /\ c.cr3 = b.cr3 /\ c.pdptrs = cr3
          /\ c.avail = b.avail \cup {"PDPTR"} /\ c.dirty = b.dirty \cup {"PDPTR"}
          /\ (c.flush <=> b.flush) /\ c.role = b.role
      BY <1>1, <3>1, LoadPdptrsIs
    <3> QED  BY <2>1, <2>2, <3>2
  <2>3. CASE ~PaePaging(b)
    <3>1. c = b  BY <1>0, <2>3
    <3> QED  BY <2>1, <2>3, <3>1 DEF SameMode, SameHw
  <2> QED  BY <2>2, <2>3
<1>5. /\ SameMode(b, n) /\ SameHw(s, n) /\ n.cr3 = cr3 /\ n.dirty \subseteq n.avail
      /\ "CR3" \in n.dirty /\ "CR3" \in n.avail
      /\ PaePaging(b) => n.pdptrs = cr3 /\ "PDPTR" \in n.dirty
      /\ n.role = (IF r THEN RoleOf(c) ELSE s.role) /\ (r => n.load) /\ (~r => (n.load <=> s.load))
      /\ (n.flush <=> s.flush \/ r)
  <2>1. PaePaging(b) => r  BY DEF Resets
  <2> QED  BY <1>0, <1>4, <2>1 DEF ModeSet, Ended, SameMode, SameHw, SameCr3, SameRest
<1>6. ModeInv(n) /\ (PaePaging(n) <=> PaePaging(b)) /\ RoleOf(n) = RoleOf(b) /\ RoleOf(c) = RoleOf(b)
  BY <1>0, <1>1, <1>3, <1>4, <1>5, ModeKept
<1>7. Write(cr3) \in {cr3, Unknown} /\ ((Write(cr3) # Unknown /\ cr3 = ReadCr3(s)) => KnownCr3)
  BY WriteIs
<1>8. CacheInv(cpu)'
  <2>1. ReadCr3(n) = cr3  BY <1>1, <1>5, ReadIs
  <2>2. ReadCr3(cpu)' = ReadCr3(n)  BY DEF ReadCr3, CacheCr3
  <2> QED  BY <1>1, <1>5, <1>7, <2>1, <2>2 DEF CacheInv, KnownCr3
<1>9. EntryInv(n, Write(cr3))
  <2>1. CASE n.load
    <3>1. n.role = RoleOf(n)
      <4>1. CASE r  BY <1>5, <1>6, <4>1
      <4>2. CASE ~r
        <5>1. RoleOf(b) = RoleOf(s)
          BY <1>0, <4>2 DEF ModeSet, RoleOf, Paging, Resets
        <5> QED  BY <1>2, <1>5, <1>6, <4>2, <5>1 DEF EntryInv
      <4> QED  BY <4>1, <4>2
    <3> QED  BY <1>1, <1>5, <1>6, <1>7, <2>1, <3>1, EntryLoads
  <2>2. CASE ~n.load
    <3>1. ~r /\ ~s.load  BY <1>5, <2>2
    <3>2. cr3 = ReadCr3(s) /\ efer = s.efer /\ cr4 = s.cr4 /\ cr0 = s.cr0 /\ ~PaePaging(b)
      BY <3>1 DEF Resets
    <3>3. RoleOf(b) = RoleOf(s) /\ (Paging(b) <=> Paging(s))
      BY <1>0, <3>2 DEF ModeSet, RoleOf, Paging
    <3>4. EntryInv(s, Write(cr3))
      <4>1. CASE Write(cr3) = Unknown  BY <1>2, <4>1, EntryWeaker
      <4>2. CASE Write(cr3) # Unknown  BY <1>2, <1>7, <3>2, <4>2
      <4> QED  BY <4>1, <4>2
    <3>5. (Paging(n) <=> Paging(s)) /\ n.role = s.role
      BY <1>5, <3>1, <3>3 DEF SameMode, Paging
    <3> HIDE DEF r
    <3> QED  BY <1>1, <1>5, <1>6, <2>2, <3>1, <3>2, <3>3, <3>4, <3>5, EntryRests
  <2> QED  BY <2>1, <2>2
<1>10. (cpu.flush \/ stale = {})'  BY <1>5 DEF SetSregs, RegsInv
<1>11. TypeInv'  BY <1>1 DEF TypeInv
<1> QED  BY <1>1, <1>6, <1>8, <1>9, <1>10, <1>11, Primed DEF RegsInv

LEMMA ResetStep ==
  ASSUME RegsInv, Reset
  PROVE  RegsInv'
<1> DEFINE s == cpu
           n == cpu'
           x == [cpu EXCEPT !.cr3 = Zero, !.vm86 = FALSE]
           a == Dirtied(x, "CR3")
           b == VendorSetEfer(VendorSetCr4(VendorSetCr0(a, {}), {}), {})
           p == Paging(s)
<1>1. /\ s \in Cpu /\ host \in Hosts /\ pc = "host" /\ pc' = "host"
      /\ host' = host /\ written' = Unknown
  BY DEF RegsInv, TypeInv, Reset
<1>2. /\ EntryInv(s, written) /\ ModeInv(s) /\ s.dirty \subseteq s.avail
      /\ s.exiting <=> Exiting(s)
  BY <1>1 DEF RegsInv, CacheInv, ModeInv
<1>3. n = EndOf(b, p, FALSE, TRUE)  BY DEF Reset, EndOf
<1>4. /\ x \in Cpu /\ SameRest(s, x) /\ x.avail = s.avail /\ x.dirty = s.dirty
      /\ x.exiting <=> s.exiting
  <2>1. x \in Cpu  BY <1>1 DEF Cpu, Cr3Values
  <2> QED  BY <1>1, <2>1 DEF SameRest, Cpu
<1> HIDE DEF x
<1>5. /\ a \in Cpu /\ SameMode(x, a) /\ SameHw(x, a)
      /\ a.avail = x.avail \cup {"CR3"} /\ a.dirty = x.dirty \cup {"CR3"}
      /\ (a.load <=> x.load) /\ (a.flush <=> x.flush) /\ a.role = x.role
  BY <1>4, DirtiedIs
<1> HIDE DEF a
<1>6. ModeSet(a, b, {}, {}, {})  BY <1>1, <1>4, <1>5, ResetModeIs
<1>7. b \in Cpu  BY <1>6 DEF ModeSet
<1> HIDE DEF b
<1>8. p \in BOOLEAN  BY DEF Paging
<1> HIDE DEF p
<1>9. Ended(b, n, p, FALSE, TRUE)  BY <1>3, <1>7, <1>8, EndIs
<1>10. ModeInv(b)
  <2>1. {} \in Cr0s /\ {} \in Cr4s /\ {} \in SUBSET {"LME", "LMA"}  BY DEF Cr0s, Cr4s
  <2>2. host # "ept" => (a.exiting <=> Restricted)
    BY <1>2, <1>4, <1>5 DEF SameMode, Exiting
  <2>3. "PG" \notin {} /\ "LMA" \notin {} /\ "PCIDE" \notin {}  OBVIOUS
  <2> QED  BY <1>1, <1>5, <1>6, <2>1, <2>2, <2>3, ModeSetFits
<1>11. /\ n \in Cpu /\ SameMode(b, n) /\ SameHw(s, n) /\ n.dirty \subseteq n.avail
       /\ "CR3" \in n.avail /\ n.role = (IF p THEN RoleOf(b) ELSE s.role)
       /\ (n.load <=> s.load \/ p) /\ n.flush
  BY <1>2, <1>4, <1>5, <1>6, <1>9 DEF ModeSet, Ended, SameHw, SameCr3, SameRest
<1>12. ModeInv(n) /\ RoleOf(n) = RoleOf(b)  BY <1>1, <1>7, <1>10, <1>11, ModeKept
<1>13. ~Paging(n) /\ ~Paging(b)
  <2>1. b.cr0 = {}  BY <1>6 DEF ModeSet
  <2> QED  BY <1>11, <2>1 DEF SameMode, Paging
<1>14. CacheInv(cpu)'
  BY <1>1, <1>11 DEF CacheInv, KnownCr3
<1>15. EntryInv(n, Unknown)
  <2>1. RoleOf(n) = {} /\ RoleOf(b) = {}  BY <1>13 DEF RoleOf
  <2>2. CASE n.load
    <3>1. n.role = RoleOf(n)
      <4>1. CASE p  BY <1>11, <2>1, <4>1
      <4>2. CASE ~p
        <5>1. RoleOf(s) = {}  BY <4>2 DEF RoleOf, p
        <5> QED  BY <1>2, <1>11, <2>1, <4>2, <5>1 DEF EntryInv
      <4> QED  BY <4>1, <4>2
    <3> QED  BY <1>1, <1>11, <2>2, <3>1, EntryLoads
  <2>3. CASE ~n.load
    <3>1. ~s.load /\ ~Paging(s) /\ n.role = s.role  BY <1>11, <2>3 DEF p
    <3>2. RoleOf(s) = {} /\ ~PaePaging(n)  BY <1>13, <3>1 DEF RoleOf, PaePaging
    <3>3. EntryInv(s, Unknown)  BY <1>2, EntryWeaker
    <3> QED  BY <1>1, <1>11, <1>13, <2>1, <2>3, <3>1, <3>2, <3>3, EntryRests
  <2> QED  BY <2>2, <2>3
<1>16. (cpu.flush \/ stale = {})'  BY <1>11
<1>17. TypeInv'  BY <1>1, <1>11 DEF TypeInv
<1> QED  BY <1>1, <1>12, <1>14, <1>15, <1>16, <1>17, Primed DEF RegsInv

LEMMA EnterStep ==
  ASSUME RegsInv, Enter
  PROVE  RegsInv'
<1> DEFINE s == cpu
           n == cpu'
           x == IF s.load THEN LoadPgd(s) ELSE s
           v == IF Vmx THEN {} ELSE {"CR3"}
<1>1. /\ s \in Cpu /\ host \in Hosts /\ pc = "host" /\ pc' = "guest"
      /\ host' = host /\ written' = written
  BY DEF RegsInv, TypeInv, Enter
<1>2. /\ EntryInv(s, written) /\ ModeInv(s) /\ (KnownCr3 => ReadCr3(s) = written)
      /\ s.dirty \subseteq s.avail /\ (Vmx \/ "CR3" \in s.avail) /\ (s.exiting <=> Exiting(s))
  BY <1>1 DEF RegsInv, CacheInv, ModeInv
<1>3. /\ x \in Cpu /\ SameMode(s, x) /\ x.cr3 = s.cr3 /\ x.pdptrs = s.pdptrs /\ x.role = s.role
      /\ ~x.load /\ x.hwCr3 = Loaded(s).hwCr3 /\ x.hwPdptrs = Loaded(s).hwPdptrs
      /\ x.hwRole = Loaded(s).hwRole
  <2> DEFINE c == Loaded(s).hwCr3
             p == Loaded(s).hwPdptrs
  <2>1. c \in Cr3Values /\ p \in Cr3Values
    <3>1. Identity \in Cr3Values /\ s.hwCr3 \in Cr3Values /\ s.cr3 \in Cr3Values
          /\ s.hwPdptrs \in Cr3Values /\ s.pdptrs \in Cr3Values
      BY <1>1 DEF Cpu, Cr3Values
    <3> QED  BY <1>1, <3>1, LoadedIs
  <2>2. CASE s.load
    <3>1. x = [s EXCEPT !.load = FALSE, !.hwRole = s.role, !.hwCr3 = c, !.hwPdptrs = p]
      BY <1>1, <2>2, LoadedIs
    <3>2. Loaded(s).hwRole = s.role  BY <1>1, <2>2, LoadedIs
    <3> HIDE DEF x, c, p
    <3>3. x \in Cpu  BY <1>1, <2>1, <3>1 DEF Cpu
    <3>4. SameMode(s, x) /\ x.cr3 = s.cr3 /\ x.pdptrs = s.pdptrs /\ x.role = s.role
          /\ ~x.load /\ x.hwCr3 = c /\ x.hwPdptrs = p /\ x.hwRole = s.role
      BY <1>1, <3>1, <3>3 DEF SameMode, Cpu
    <3> QED  BY <3>2, <3>3, <3>4 DEF c, p
  <2>3. CASE ~s.load
    <3>1. x = s /\ Loaded(s) = s  BY <2>3 DEF Loaded
    <3> QED  BY <1>1, <2>3, <3>1 DEF SameMode
  <2> QED  BY <2>2, <2>3
<1>4. n = [x EXCEPT !.flush = FALSE, !.dirty = {}, !.avail = v]  BY DEF Enter
<1>5. v \in SUBSET {"CR3", "PDPTR"} /\ (Vmx => v = {}) /\ (~Vmx => v = {"CR3"})  OBVIOUS
<1> HIDE DEF x, v
<1>6. n \in Cpu /\ SameMode(s, n) /\ SameHw(x, n) /\ n.cr3 = s.cr3 /\ n.role = s.role /\ ~n.load
      /\ ~n.flush /\ n.dirty = {} /\ n.avail = v
  <2>1. n \in Cpu  BY <1>3, <1>4, <1>5 DEF Cpu
  <2> QED  BY <1>3, <1>4, <2>1 DEF SameMode, SameHw, Cpu
<1>7. /\ ModeInv(n) /\ RoleOf(n) = RoleOf(s) /\ (Paging(n) <=> Paging(s))
      /\ PaePaging(n) <=> PaePaging(s)
  BY <1>1, <1>2, <1>6, ModeKept
<1>8. n.hwCr3 = Loaded(s).hwCr3 /\ n.hwPdptrs = Loaded(s).hwPdptrs /\ n.hwRole = Loaded(s).hwRole
  BY <1>3, <1>6 DEF SameHw
<1>9. EntryInv(n, written)
  <2>1. Loaded(n) = n  BY <1>6 DEF Loaded
  <2> QED  BY <1>2, <1>6, <1>7, <1>8, <2>1 DEF EntryInv
<1>10. KnownCr3 => IF host = "npt" THEN n.hwCr3 = written ELSE ReadCr3(n) = written
  <2>1. ReadCr3(n) = IF "CR3" \in n.avail \/ n.exiting THEN n.cr3 ELSE n.hwCr3
    BY <1>6, ReadIs
  <2>2. ReadCr3(s) = IF "CR3" \in s.avail \/ s.exiting THEN s.cr3 ELSE s.hwCr3
    BY <1>1, ReadIs
  <2>3. n.exiting <=> s.exiting  BY <1>6 DEF SameMode
  <2>4. s.exiting <=> IF host = "ept" THEN ~Paging(s) ELSE Restricted
    BY <1>2 DEF Exiting
  <2>5. (KnownCr3 /\ ~(Restricted /\ ~Paging(s))) => n.hwCr3 = written
    BY <1>2, <1>8 DEF EntryInv, KnownCr3
  <2> QED  BY <1>1, <1>2, <1>5, <1>6, <2>1, <2>2, <2>3, <2>4, <2>5 DEF Restricted, Vmx, Hosts
<1>11. CacheInv(cpu)'
  <2>1. ReadCr3(cpu)' = ReadCr3(n)  BY DEF ReadCr3, CacheCr3
  <2> QED  BY <1>1, <1>5, <1>6, <1>10, <2>1 DEF CacheInv, KnownCr3, Vmx
<1>12. (cpu.flush \/ stale = {})'  BY DEF Enter, RegsInv
<1>13. TypeInv'  BY <1>1, <1>6 DEF TypeInv
<1> QED  BY <1>1, <1>7, <1>9, <1>11, <1>12, <1>13, Primed DEF RegsInv

LEMMA ExitStep ==
  ASSUME RegsInv, Exit
  PROVE  RegsInv'
<1> DEFINE s == cpu
           n == cpu'
<1>1. /\ s \in Cpu /\ host \in Hosts /\ pc = "guest" /\ pc' = "host"
      /\ host' = host /\ written' = written /\ stale' = stale
      /\ n = IF host = "npt" THEN [s EXCEPT !.cr3 = s.hwCr3] ELSE s
  BY DEF RegsInv, TypeInv, Exit
<1>2. /\ EntryInv(s, written) /\ ModeInv(s) /\ s.dirty \subseteq s.avail
      /\ (Vmx \/ "CR3" \in s.avail) /\ ~s.load /\ ~s.flush
      /\ KnownCr3 => IF host = "npt" THEN s.hwCr3 = written ELSE ReadCr3(s) = written
  BY <1>1 DEF RegsInv, CacheInv
<1>3. /\ n \in Cpu /\ SameMode(s, n) /\ SameHw(s, n) /\ n.avail = s.avail /\ n.dirty = s.dirty
      /\ n.role = s.role /\ ~n.load /\ (n.flush <=> s.flush)
      /\ n.cr3 = IF host = "npt" THEN s.hwCr3 ELSE s.cr3
  <2>1. CASE host = "npt"
    <3>1. n = [s EXCEPT !.cr3 = s.hwCr3]  BY <1>1, <2>1
    <3>2. n \in Cpu  BY <1>1, <3>1 DEF Cpu
    <3> QED  BY <1>1, <1>2, <2>1, <3>1, <3>2 DEF SameMode, SameHw, Cpu
  <2>2. CASE host # "npt"
    BY <1>1, <1>2, <2>2 DEF SameMode, SameHw
  <2> QED  BY <2>1, <2>2
<1>4. /\ ModeInv(n) /\ RoleOf(n) = RoleOf(s) /\ (Paging(n) <=> Paging(s))
      /\ PaePaging(n) <=> PaePaging(s)
  BY <1>1, <1>2, <1>3, ModeKept
<1>5. EntryInv(n, written)  BY <1>1, <1>2, <1>3, <1>4, EntryRests
<1>6. KnownCr3 => ReadCr3(n) = written
  <2>1. CASE host = "npt"
    <3>1. "CR3" \in n.avail  BY <1>2, <1>3, <2>1 DEF Vmx
    <3>2. ReadCr3(n) = n.cr3  BY <1>3, <3>1, ReadIs
    <3> QED  BY <1>2, <1>3, <2>1, <3>2
  <2>2. CASE host # "npt"  BY <1>1, <1>2, <2>2
  <2> QED  BY <2>1, <2>2
<1>7. CacheInv(cpu)'
  <2>1. ReadCr3(cpu)' = ReadCr3(n)  BY DEF ReadCr3, CacheCr3
  <2> QED  BY <1>1, <1>2, <1>3, <1>6, <2>1 DEF CacheInv, KnownCr3, Vmx
<1>8. (cpu.flush \/ stale = {})'  BY <1>1, <1>3 DEF RegsInv
<1>9. TypeInv'  BY <1>1, <1>3 DEF TypeInv
<1> QED  BY <1>1, <1>4, <1>5, <1>7, <1>8, <1>9, Primed DEF RegsInv

LEMMA GuestCr3Step ==
  ASSUME RegsInv, NEW cr3 \in Cr3s, GuestCr3(cr3)
  PROVE  RegsInv'
<1> DEFINE s == cpu
           n == cpu'
           p == IF PaePaging(s) THEN cr3 ELSE s.hwPdptrs
<1>1. /\ s \in Cpu /\ host \in Hosts /\ pc = "guest" /\ pc' = "guest" /\ ~s.exiting
      /\ host' = host /\ written' = cr3 /\ stale' = stale /\ cr3 \in Cr3Values
      /\ n = [s EXCEPT !.hwCr3 = cr3, !.hwPdptrs = p]
  BY DEF RegsInv, TypeInv, GuestCr3, Cr3Values
<1>2. /\ EntryInv(s, written) /\ ModeInv(s) /\ s.dirty = {} /\ (Vmx => s.avail = {})
      /\ (Vmx \/ "CR3" \in s.avail) /\ ~s.load /\ ~s.flush
      /\ s.exiting <=> IF host = "ept" THEN ~Paging(s) ELSE Restricted
  BY <1>1 DEF RegsInv, CacheInv, ModeInv, Exiting
<1>3. p \in Cr3Values /\ (PaePaging(s) => p = cr3)  BY <1>1 DEF Cpu
<1> HIDE DEF p
<1>4. /\ n \in Cpu /\ SameMode(s, n) /\ n.avail = s.avail /\ n.dirty = s.dirty
      /\ n.role = s.role /\ ~n.load /\ (n.flush <=> s.flush) /\ n.hwCr3 = cr3 /\ n.hwPdptrs = p
      /\ n.hwRole = s.hwRole
  <2>1. n \in Cpu  BY <1>1, <1>3 DEF Cpu
  <2> QED  BY <1>1, <1>2, <2>1 DEF SameMode, Cpu
<1>5. /\ ModeInv(n) /\ RoleOf(n) = RoleOf(s) /\ (Paging(n) <=> Paging(s))
      /\ PaePaging(n) <=> PaePaging(s)
  BY <1>1, <1>2, <1>4, ModeKept
<1>6. EntryInv(n, cr3)
  <2>1. Loaded(n) = n /\ Loaded(s) = s  BY <1>2, <1>4 DEF Loaded
  <2>2. ~(Restricted /\ ~Paging(s))  BY <1>1, <1>2 DEF Restricted
  <2> QED  BY <1>2, <1>3, <1>4, <1>5, <2>1, <2>2 DEF EntryInv
<1>7. CacheInv(cpu)'
  <2>1. ReadCr3(cpu)' = ReadCr3(n)  BY DEF ReadCr3, CacheCr3
  <2>2. host = "npt" \/ ReadCr3(n) = cr3
    <3>1. ReadCr3(n) = IF "CR3" \in n.avail \/ n.exiting THEN n.cr3 ELSE n.hwCr3
      BY <1>4, ReadIs
    <3>2. ~n.exiting  BY <1>1, <1>4 DEF SameMode
    <3>3. Vmx \/ host = "npt"  BY <1>1, <1>2 DEF Vmx, Hosts, Restricted
    <3> QED  BY <1>2, <1>4, <3>1, <3>2, <3>3
  <2> QED  BY <1>1, <1>2, <1>4, <2>1, <2>2 DEF CacheInv, KnownCr3, Vmx
<1>8. (cpu.flush \/ stale = {})'  BY <1>1, <1>4 DEF RegsInv
<1>9. TypeInv'  BY <1>1, <1>4 DEF TypeInv
<1> QED  BY <1>1, <1>5, <1>6, <1>7, <1>8, <1>9, Primed DEF RegsInv

LEMMA FarJumpStep ==
  ASSUME RegsInv, UNCHANGED <<host, cpu, pc, written, stale>>
  PROVE  RegsInv'
<1>1. ReadCr3(cpu)' = ReadCr3(cpu) /\ (ModeInv(cpu'))  BY DEF RegsInv, ReadCr3, CacheCr3
<1>2. EntryInv(cpu', written')  BY DEF RegsInv
<1>3. CacheInv(cpu)'  BY <1>1 DEF RegsInv, CacheInv, KnownCr3, Vmx
<1>4. TypeInv'  BY DEF RegsInv, TypeInv
<1>5. (cpu.flush \/ stale = {})'  BY DEF RegsInv
<1> QED  BY <1>1, <1>2, <1>3, <1>4, <1>5, Primed DEF RegsInv

-----------------------------------------------------------------------------
(* The invariant holds, and with it the property.                                 *)
LEMMA InitInv ==
  ASSUME Init
  PROVE  RegsInv
<1> DEFINE n == cpu
           vm == Restricted /\ Vmx
           ex == Restricted \/ host = "svmShadow"
           cr4 == IF host \in {"shadow", "svmShadow"} THEN {"PAE"} ELSE {}
<1>1. /\ host \in Hosts /\ pc = "host" /\ written = Zero /\ stale = {}
      /\ n = [cr0 |-> {}, cr4 |-> {}, efer |-> {}, cr3 |-> Zero, pdptrs |-> Zero,
              avail |-> {"CR3", "PDPTR"}, dirty |-> {"CR3", "PDPTR"}, role |-> {},
              load |-> TRUE, flush |-> FALSE, vm86 |-> vm, exiting |-> ex,
              ia32e |-> FALSE, hwCr4 |-> cr4, hwCr3 |-> Zero, hwPdptrs |-> Zero,
              hwRole |-> {}]
  BY DEF Init
<1>2. vm \in BOOLEAN /\ ex \in BOOLEAN /\ Zero \in Cr3Values /\ cr4 \in Cr4s
  BY DEF Restricted, Cr3Values, Cr4s
<1>3. (ex <=> Restricted) /\ (vm <=> Restricted /\ Vmx)  BY DEF Restricted
<1> HIDE DEF vm, ex, n
<1>4. n \in Cpu  BY <1>1, <1>2 DEF Cpu, Cr0s, Cr4s
<1>5. /\ n.cr0 = {} /\ n.cr4 = {} /\ n.efer = {} /\ n.role = {} /\ n.load /\ ~n.flush
      /\ n.cr3 = Zero /\ n.avail = {"CR3", "PDPTR"} /\ n.dirty = {"CR3", "PDPTR"}
  BY <1>1
<1>6. (n.vm86 <=> vm) /\ (n.exiting <=> ex) /\ ~n.ia32e /\ n.hwCr4 = cr4  BY <1>1
<1>7. ~Paging(n) /\ ~LongMode(n) /\ ~PaePaging(n) /\ RoleOf(n) = {}
  BY <1>5 DEF Paging, LongMode, PaePaging, RoleOf
<1>8. HwCr4(n) = cr4
  <2>1. HwCr4(n) = HwBits(Paging(n), n.cr4)  BY <1>1, <1>4, HwCr4Is
  <2>2. HwBits(Paging(n), n.cr4) = cr4
    BY <1>1, <1>5, <1>7 DEF HwBits, With, Hosts
  <2> QED  BY <2>1, <2>2
<1>9. ModeInv(n)
  <2>1. n.exiting <=> Exiting(n)  BY <1>3, <1>6, <1>7 DEF Exiting, Restricted
  <2> QED  BY <1>3, <1>5, <1>6, <1>7, <1>8, <2>1 DEF ModeInv
<1>10. EntryInv(n, written)  BY <1>1, <1>4, <1>5, <1>7, EntryLoads
<1>11. ReadCr3(n) = Zero  BY <1>4, <1>5, ReadIs
<1>12. CacheInv(n)  BY <1>1, <1>5, <1>11 DEF CacheInv
<1> QED  BY <1>1, <1>4, <1>9, <1>10, <1>12 DEF RegsInv, TypeInv, n

LEMMA StepInv ==
  ASSUME RegsInv, [Next]_vars
  PROVE  RegsInv'
<1>1. CASE UNCHANGED vars
  BY <1>1, FarJumpStep DEF vars
<1>2. CASE \E c \in Cr0s : SetCr0(c)
  BY <1>2, SetCr0Step
<1>3. CASE \E c \in Cr4s : SetCr4(c)
  BY <1>3, SetCr4Step
<1>4. CASE \E c \in Cr3s : GuestCr3(c)
  BY <1>4, GuestCr3Step
<1>5. CASE \E c \in Cr3s : \E n \in BOOLEAN : SetCr3(c, n)
  BY <1>5, SetCr3Step
<1>6. CASE \E e \in {{}, {"LME"}} : SetEfer(e)
  <2>1. PICK e \in {{}, {"LME"}} : SetEfer(e)  BY <1>6
  <2>2. e \in SUBSET {"LME"}  OBVIOUS
  <2> QED  BY <2>1, <2>2, SetEferStep
<1>7. CASE \E m \in SregsModes, p \in Cr3s : SetSregs(m.cr0, p, m.cr4, m.efer, m.l)
  <2>1. PICK m \in SregsModes, p \in Cr3s : SetSregs(m.cr0, p, m.cr4, m.efer, m.l)
    BY <1>7
  <2>2. m.cr0 \in Cr0s /\ m.cr4 \in Cr4s /\ m.efer \in SUBSET {"LME", "LMA"}
    BY DEF SregsModes, Cr0s, Cr4s
  <2> QED  BY <2>1, <2>2, SetSregsStep
<1>8. CASE Reset  BY <1>8, ResetStep
<1>9. CASE Enter  BY <1>9, EnterStep
<1>10. CASE Exit  BY <1>10, ExitStep
<1>11. CASE FarJump  BY <1>11, FarJumpStep DEF FarJump
<1> QED  BY <1>1, <1>2, <1>3, <1>4, <1>5, <1>6, <1>7, <1>8, <1>9, <1>10, <1>11 DEF Next

LEMMA InvImplies ==
  ASSUME RegsInv
  PROVE  GuestModeKept
<1> SUFFICES ASSUME pc = "guest"  PROVE  GuestModeKept  BY DEF GuestModeKept
<1> DEFINE s == cpu
           x == [s EXCEPT !.avail = IF host = "npt" THEN {} ELSE @]
<1>1. /\ s \in Cpu /\ host \in Hosts /\ EntryInv(s, written) /\ ModeInv(s)
      /\ ~s.load /\ ~s.flush /\ stale = {} /\ (Vmx => s.avail = {})
      /\ Vmx \/ "CR3" \in s.avail
      /\ KnownCr3 => IF host = "npt" THEN s.hwCr3 = written ELSE ReadCr3(s) = written
  BY DEF RegsInv, TypeInv, CacheInv
<1>2. KnownCr3 => ReadCr3(x) = written
  <2>1. CASE host # "npt"
    <3>1. x = s  BY <1>1, <2>1 DEF Cpu
    <3> QED  BY <1>1, <2>1, <3>1
  <2>2. CASE host = "npt"
    <3>1. x = [s EXCEPT !.avail = {}]  BY <2>2
    <3>2. x \in Cpu /\ x.avail = {} /\ x.hwCr3 = s.hwCr3 /\ (x.exiting <=> s.exiting)
      BY <1>1, <3>1 DEF Cpu
    <3>3. ~s.exiting  BY <1>1, <2>2 DEF ModeInv, Exiting, Restricted
    <3>4. ReadCr3(x) = x.hwCr3  BY <3>2, <3>3, ReadIs
    <3> QED  BY <1>1, <2>2, <3>2, <3>4
  <2> QED  BY <2>1, <2>2
<1>3. Loaded(s) = s  BY <1>1 DEF Loaded
<1>4. IF Paging(s) THEN KnownCr3 => s.hwCr3 = written ELSE Restricted => s.hwCr3 = Identity
  BY <1>1, <1>3 DEF EntryInv, KnownCr3
<1>5. (PaePaging(s) /\ host # "npt" /\ KnownCr3) => s.hwPdptrs = written
  BY <1>1, <1>3 DEF EntryInv, KnownCr3
<1>6. Paging(s) => s.hwRole = RoleOf(s)  BY <1>1, <1>3 DEF EntryInv
<1>7. /\ LongMode(s) <=> ("LME" \in s.efer /\ Paging(s))
      /\ s.ia32e <=> LongMode(s)
      /\ LongMode(s) => "PAE" \in s.cr4
      /\ "PCIDE" \in s.cr4 => LongMode(s)
      /\ Vmx => (s.vm86 <=> (Restricted /\ "PE" \notin s.cr0))
      /\ Paging(s) => "PE" \in s.cr0
      /\ s.hwCr4 = HwCr4(s) \/ (host = "shadow" /\ s.hwCr4 \cup {"SMEP"} = HwCr4(s) \cup {"SMEP"})
  BY <1>1 DEF ModeInv
<1>8. HwCr4(s) = HwBits(Paging(s), s.cr4)  BY <1>1, HwCr4Is
<1>9. /\ "PAE" \in s.cr4 /\ Paging(s) => "PAE" \in HwBits(Paging(s), s.cr4)
      /\ "PCIDE" \in HwBits(Paging(s), s.cr4) <=> "PCIDE" \in s.cr4
      /\ "SMEP" \in HwBits(Paging(s), s.cr4)
           <=> ("SMEP" \in s.cr4 /\ (host \in {"urg", "npt"} \/ Paging(s)))
  <2>1. Paging(s) \in BOOLEAN  BY DEF Paging
  <2> QED  BY <2>1, HwBitsHas
<1>10. ("PAE" \in s.hwCr4 <=> "PAE" \in HwCr4(s)) /\ ("PCIDE" \in s.hwCr4 <=> "PCIDE" \in HwCr4(s))
  BY <1>7
<1>11. s.ia32e => "PAE" \in s.hwCr4
  <2>1. s.ia32e => "PAE" \in s.cr4 /\ Paging(s)  BY <1>7
  <2> HIDE DEF s
  <2> QED  BY <1>8, <1>9, <1>10, <2>1
<1>12. "PCIDE" \in s.hwCr4 => s.ia32e
  <2>1. "PCIDE" \in s.cr4 => s.ia32e  BY <1>7
  <2> HIDE DEF s
  <2> QED  BY <1>8, <1>9, <1>10, <2>1
<1>13. (s.vm86 /\ Vmx) => ~Paging(s)  BY <1>7
<1>14. (Restricted /\ host # "shadow" /\ ~Paging(s)) => "SMEP" \notin s.hwCr4
  BY <1>7, <1>8, <1>9 DEF Restricted
<1>15. (host # "shadow" /\ Paging(s)) => ("SMEP" \in s.hwCr4 <=> "SMEP" \in s.cr4)
  BY <1>7, <1>8, <1>9
<1>16. KnownCr3 => ActivePcid(s, written) \notin stale  BY <1>1
<1>17. LongMode(s) <=> ("LME" \in s.efer /\ Paging(s))  BY <1>7
<1>18. s.ia32e <=> LongMode(s)  BY <1>7
<1> HIDE DEF s, x
<1>19. s = cpu /\ x = [s EXCEPT !.avail = IF host = "npt" THEN {} ELSE @]  BY DEF s, x
<1> QED  BY <1>2, <1>4, <1>5, <1>6, <1>11, <1>12, <1>13, <1>14, <1>15, <1>16, <1>17, <1>18,
            <1>19 DEF GuestModeKept

(* The guest runs in the mode it set up and on its CR3 as last written, with the  *)
(* page-directory pointers, MMU role and hardware bits that go with them, and no  *)
(* flush it is owed is forgotten (kvm_set_cr0, kvm_set_cr3, kvm_set_cr4, set_efer, *)
(* __set_sregs, kvm_vcpu_reset, vmx_load_mmu_pgd, svm_load_mmu_pgd).              *)
THEOREM GuestModeKeptCorrect == Spec => []GuestModeKept
<1>1. Init => RegsInv  BY InitInv
<1>2. RegsInv /\ [Next]_vars => RegsInv'  BY StepInv
<1>3. RegsInv => GuestModeKept  BY InvImplies
<1> QED  BY <1>1, <1>2, <1>3, PTL DEF Spec
=============================================================================
