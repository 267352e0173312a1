------------------------------ MODULE KvmParts -------------------------------
(***************************************************************************)
(* The variables of MCKvm's components, and those of them whose proofs are *)
(* in KvmPartsProofs.  RdtscHandler is extended, so its variables and      *)
(* properties are this module's as they are; the others share x1 to x22,   *)
(* of which each uses as many as it has.                                   *)
(***************************************************************************)
EXTENDS RdtscHandler, Sequences, FiniteSets

CONSTANTS
  Cpus, MinAsid, MaxAsid, MaxGeneration, Slots, Pages, Entries, NoPage, Gfns, Home, Size, MaxNotifying,
  None           \* None is also what variables not in use hold

VARIABLES
  x1, x2, x3, x4, x5, x6, x7, x8, x9, x10, x11, x12, x13, x14, x15, x16, x17, x18, x19,
  x20, x21, x22

MsrValues == {<<0, 0>>, <<1, 1>>}
HostValue == <<0, 0>>

Uret == INSTANCE UserReturnMsr WITH
  hw <- x1, host <- x2, curr <- x3, registered <- x4, listed <- x5, unlinks <- x6,
  cur <- x7, data <- x8, load <- x9, loaded <- x10, pc <- x11, todo <- x12, slot <- x13,
  value <- x14, back <- x15, irqs <- x16, off <- x17, Values <- MsrValues,
  Host <- HostValue

Vmcs == INSTANCE LoadedVmcs WITH
  online <- x1, dying <- x2, list <- x3, current <- x4, cpu <- x5, launched <- x6,
  active <- x7, hwLaunched <- x8, clearing <- x9, step <- x10, pc <- x11, on <- x12,
  target <- x13, freed <- x14

Asid == INSTANCE SvmAsid WITH
  flushByAsid <- x1, asidGeneration <- x2, nextAsid <- x3, vmcbGeneration <- x4,
  asid <- x5, vmcbCpu <- x6, tlbCtl <- x7, request <- x8, cpu <- x9, inGuest <- x10,
  tlb <- x11

Log == INSTANCE DirtyLog WITH
  logging <- x1, ioctl <- x2, bitmap <- x3, dirtyBits <- x4, requests <- x5, pml <- x6,
  index <- x7, buffer <- x8, pc <- x9, mode <- x10, kicked <- x11, owed <- x12

Steal == INSTANCE StealTime WITH
  pvFlush <- x1, enabled <- x2, flag <- x3, known <- x4, request <- x5, boundary <- x6,
  pc <- x7, loaded <- x8, got <- x9, flusher <- x10, ipi <- x11, stale <- x12

Apf == INSTANCE AsyncPf WITH
  enabled <- x1, gfns <- x2, queue <- x3, done <- x4, injected <- x5, notifying <- x6,
  token <- x7, pagereadyPending <- x8, halted <- x9, ready <- x10, halt <- x11,
  kicked <- x12, irq <- x13, pc <- x14, handler <- x15, waiting <- x16, left <- x17

Vendor == INSTANCE VendorInit WITH
  host <- x1, pc <- x2, plan <- x3, held <- x4, areas <- x5, nrUret <- x6, stray <- x7,
  writer <- x8, late <- x9, vm <- x10, enabling <- x11, on <- x12, hasMaster <- x13,
  irqWork <- x14, work <- x15
==============================================================================
