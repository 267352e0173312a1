------------------------------ MODULE KvmProofs ------------------------------
(***************************************************************************)
(* The suite's properties, for every value of the constants.               *)
(* RdtscHandler's come first.  The other components' invariants are proved *)
(* in KvmPartsProofs or in modules beside them; a behaviour of the suite   *)
(* is one component's, so its inductive invariant is the component's,      *)
(* guarded by which.                                                       *)
(***************************************************************************)
EXTENDS MCKvm, KvmPartsProofs

\* handle_rdtsc: types of its variables and of the guest's registers.
THEOREM TypeCorrect == Spec => []TypeOK
<1>1. RdtscInv => TypeOK
  BY DEF RdtscInv
<1> QED
  BY <1>1, RdtscInvariant, PTL

\* handle_rdtsc: no guest is told a time ahead of the host's counter at its exit.
THEOREM NeverAheadCorrect == Spec => NeverAhead
<1>1. RdtscInv /\ [Next]_vars => [NotAhead]_vars
  <2> SUFFICES ASSUME RdtscInv, Next, NEW v \in Vcpus, Answered(v)
               PROVE  Seen(v)' <= rdtsc_real[v]
    BY DEF NotAhead
  <2>1. Finish(v)
    BY AnsweredIsFinish DEF RdtscInv
  <2>2. fake[v] \in Nat /\ fake[v] <= rdtsc_real[v] /\ fake[v] <= MaxClock
    BY <2>1, RdtscAssumption DEF Finish, Step, RdtscInv, TypeOK, Capped
  <2>3. Seen(v)' = fake[v]
    BY <2>1, <2>2, Halves DEF Finish, Seen, RdtscInv, TypeOK
  <2> QED
    BY <2>2, <2>3
<1> QED
  BY <1>1, RdtscInvariant, PTL DEF Spec, NeverAhead

\* handle_rdtsc: without overlapping handlers no guest is told an earlier time than any before.
THEOREM NeverBackCorrect == Spec => NeverBack
<1>1. RdtscInv /\ [Next]_vars => [NotBack]_vars
  <2> SUFFICES ASSUME RdtscInv, Next, NEW v \in Vcpus, NEW w \in Vcpus, ~raced, Answered(v)
               PROVE  Seen(v)' >= Seen(w)
    BY DEF NotBack
  <2>1. Finish(v)
    BY AnsweredIsFinish DEF RdtscInv
  <2>2. fake[v] \in Nat /\ fake[v] <= MaxClock
    BY <2>1, RdtscAssumption DEF Finish, Step, RdtscInv, TypeOK, Capped
  <2>3. Seen(v)' = fake[v]
    BY <2>1, <2>2, Halves DEF Finish, Seen, RdtscInv, TypeOK
  <2>4. Seen(w) <= fake[v] /\ Seen(w) \in Int
    <3>1. pc[v] = "finish" /\ Place(v)
      BY <2>1 DEF Finish, Step, RdtscInv, SerialInv
    <3>2. ToldUpTo(fake[v])
      BY <3>1 DEF Place
    <3>3. Half \in Nat /\ rax[w] \in Int /\ rdx[w] \in Int
      BY RdtscAssumption DEF RdtscInv, TypeOK
    <3> QED
      BY <3>2, <3>3 DEF ToldUpTo, Seen
  <2> QED
    BY <2>2, <2>3, <2>4
<1> QED
  BY <1>1, RdtscInvariant, PTL DEF Spec, NeverBack

\* handle_rdtsc: without overlapping handlers the slow counter keeps its rate.
THEOREM SlowRateCorrect == Spec => []SlowRate
<1>1. RdtscInv => SlowRate
  BY DEF RdtscInv, SerialInv, Settled, Rate, SlowRate
<1> QED
  BY <1>1, RdtscInvariant, PTL

-----------------------------------------------------------------------------

\* A step of the suite is a step of the component it is about, or leaves it alone.
LEMMA SuiteSteps ==
  ASSUME [SuiteNext]_suiteVars
  PROVE  /\ which' = which
         /\ which = "UserReturnMsr" => [Uret!Next]_(Uret!vars)
         /\ which = "LoadedVmcs" => [Vmcs!Next]_(Vmcs!vars)
         /\ which = "SvmAsid" => [Asid!Next]_(Asid!vars)
         /\ which = "DirtyLog" => [Log!Next]_(Log!vars)
         /\ which = "MasterClock" => [Clock!Next]_(Clock!vars)
         /\ which = "StealTime" => [Steal!Next]_(Steal!vars)
         /\ which = "VendorInit" => [Vendor!Next]_(Vendor!vars)
         /\ which = "ControlRegs" => [Regs!Next]_(Regs!vars)
         /\ which = "AsyncPf" => [Apf!Next]_(Apf!vars)
         /\ which = "SvmEvents" => [Events!Next]_(Events!vars)
<1> USE DEF SuiteNext, suiteVars, from1, from7, from8, from9, from11, from12, from13, from15,
            from16, from18
<1>1. which' = which  OBVIOUS
<1>2. which = "LoadedVmcs" => [Vmcs!Next]_(Vmcs!vars)  BY DEF Vmcs!vars
<1>3. which = "SvmAsid" => [Asid!Next]_(Asid!vars)  BY DEF Asid!vars
<1>4. which = "DirtyLog" => [Log!Next]_(Log!vars)  BY DEF Log!vars
<1>5. which = "StealTime" => [Steal!Next]_(Steal!vars)  BY DEF Steal!vars
<1>6. which = "UserReturnMsr" => [Uret!Next]_(Uret!vars)  BY DEF Uret!vars
<1>7. which = "MasterClock" => [Clock!Next]_(Clock!vars)  BY DEF Clock!vars
<1>8. which = "VendorInit" => [Vendor!Next]_(Vendor!vars)  BY DEF Vendor!vars
<1>9. which = "ControlRegs" => [Regs!Next]_(Regs!vars)  BY DEF Regs!vars
<1>10. which = "AsyncPf" => [Apf!Next]_(Apf!vars)  BY DEF Apf!vars
<1>11. which = "SvmEvents" => [Events!Next]_(Events!vars)  BY DEF Events!vars
<1> QED  BY <1>1, <1>2, <1>3, <1>4, <1>5, <1>6, <1>7, <1>8, <1>9, <1>10, <1>11

(* LoadedVmcs: a VMCS is active on one CPU and in one list.                       *)
THEOREM OneCpuCorrect == Suite => []OneCpu
<1> DEFINE Inv == which = "LoadedVmcs" => Vmcs!VmcsInv
<1>0. Vmcs!Constants  BY SuiteAssumption
<1>1. SuiteInit => Inv  BY <1>0, VmcsInit DEF SuiteInit
<1>2. Inv /\ [SuiteNext]_suiteVars => Inv'  BY <1>0, SuiteSteps, VmcsStep
<1>3. Inv => OneCpu  BY <1>0, VmcsImplies DEF OneCpu
<1> QED  BY <1>1, <1>2, <1>3, PTL DEF Suite

(* SvmAsid: a guest hits no TLB entry of another vCPU, and none that was flushed. *)
THEOREM OwnTranslationsCorrect == Suite => []OwnTranslations
<1> DEFINE Inv == which = "SvmAsid" => Asid!AsidsInv
<1>0. Asid!Constants  BY SuiteAssumption
<1>1. SuiteInit => Inv  BY <1>0, AsidInit DEF SuiteInit
<1>2. Inv /\ [SuiteNext]_suiteVars => Inv'  BY <1>0, SuiteSteps, AsidStep
<1>3. Inv => OwnTranslations  BY AsidImplies DEF OwnTranslations
<1> QED  BY <1>1, <1>2, <1>3, PTL DEF Suite

(* DirtyLog: no page written while logging is on is lost.                         *)
THEOREM NoWriteLostCorrect == Suite => []NoWriteLost
<1> DEFINE Inv == which = "DirtyLog" => Log!LogInv
<1>0. Log!Constants  BY SuiteAssumption
<1>1. SuiteInit => Inv  BY <1>0, LogInit DEF SuiteInit
<1>2. Inv /\ [SuiteNext]_suiteVars => Inv'  BY <1>0, SuiteSteps, LogStep
<1>3. Inv => NoWriteLost  BY LogImplies DEF NoWriteLost
<1> QED  BY <1>1, <1>2, <1>3, PTL DEF Suite

(* StealTime: a TLB flush the guest asked of a preempted vCPU is carried out.     *)
THEOREM FlushHonouredCorrect == Suite => []FlushHonoured
<1> DEFINE Inv == which = "StealTime" => Steal!FlushInv
<1>1. SuiteInit => Inv  BY StealInit DEF SuiteInit
<1>2. Inv /\ [SuiteNext]_suiteVars => Inv'  BY SuiteSteps, StealStep
<1>3. Inv => FlushHonoured  BY StealImplies DEF FlushHonoured
<1> QED  BY <1>1, <1>2, <1>3, PTL DEF Suite

(* UserReturnMsr: guests run with their own MSRs, userspace with the host's, and  *)
(* no notifier is unlinked twice, wherever the interrupt that disables            *)
(* virtualization hits kvm_set_user_return_msr or kvm_on_user_return.             *)
THEOREM MsrsFollowModeCorrect == Suite => []MsrsFollowMode
<1> DEFINE Inv == which = "UserReturnMsr" => Uret!UretInv
<1>0. Uret!Constants  BY SuiteAssumption
<1>1. SuiteInit => Inv  BY <1>0, UretInit DEF SuiteInit
<1>2. Inv /\ [SuiteNext]_suiteVars => Inv'  BY <1>0, SuiteSteps, UretStep
<1>3. Inv => MsrsFollowMode  BY <1>0, UretImplies DEF MsrsFollowMode
<1> QED  BY <1>1, <1>2, <1>3, PTL DEF Suite

(* MasterClock: what guests read is one snapshot, the current one when no update  *)
(* is due, and the master copy is in use for one TSC generation.                  *)
THEOREM ClockConsistentCorrect == Suite => []ClockConsistent
<1> DEFINE Inv == which = "MasterClock" => Clock!ClockInv
<1>0. Clock!Constants  BY SuiteAssumption
<1>1. SuiteInit => Inv  BY <1>0, Clock!InitInv DEF SuiteInit
<1>2. Inv /\ [SuiteNext]_suiteVars => Inv'  BY <1>0, SuiteSteps, Clock!StepInv
<1>3. Inv => ClockConsistent  BY <1>0, Clock!InvImplies DEF ClockConsistent
<1> QED  BY <1>1, <1>2, <1>3, PTL DEF Suite

(* VendorInit: whichever step of the load fails, and whoever writes sysfs or runs *)
(* deferred work meanwhile, a module that is out leaves nothing behind, and one   *)
(* that is in has everything set up.                                              *)
THEOREM NothingLeftCorrect == Suite => []NothingLeft
<1> DEFINE Inv == which = "VendorInit" => Vendor!VendorInv
<1>1. SuiteInit => Inv  BY VendorStart DEF SuiteInit
<1>2. Inv /\ [SuiteNext]_suiteVars => Inv'  BY SuiteSteps, VendorStep
<1>3. Inv => NothingLeft  BY VendorImplies DEF NothingLeft
<1> QED  BY <1>1, <1>2, <1>3, PTL DEF Suite

(* ControlRegs: after any writes of the registers the guest runs in the mode and  *)
(* on the page tables it set up, and no flush it is owed is forgotten.            *)
THEOREM GuestModeKeptCorrect == Suite => []GuestModeKept
<1> DEFINE Inv == which = "ControlRegs" => Regs!RegsInv
<1>1. SuiteInit => Inv  BY Regs!InitInv DEF SuiteInit
<1>2. Inv /\ [SuiteNext]_suiteVars => Inv'  BY SuiteSteps, Regs!StepInv
<1>3. Inv => GuestModeKept  BY Regs!InvImplies DEF GuestModeKept
<1> QED  BY <1>1, <1>2, <1>3, PTL DEF Suite

(* AsyncPf: EveryPageArrives but for the hash table.  A task that waits has its   *)
(* page under way or its token in the word, and a completed page has a vCPU that  *)
(* is or will be told of it.                                                      *)
THEOREM ArrivalsToldCorrect ==
  Suite => [](which = "AsyncPf" => Apf!TaskIsWoken /\ Apf!VcpuIsTold)
<1> DEFINE Inv == which = "AsyncPf" => Apf!ApfInv
<1> DEFINE Told == which = "AsyncPf" => Apf!TaskIsWoken /\ Apf!VcpuIsTold
<1>0. Apf!Constants  BY SuiteAssumption
<1>1. SuiteInit => Inv  BY ApfStart DEF SuiteInit
<1>2. Inv /\ [SuiteNext]_suiteVars => Inv'  BY <1>0, SuiteSteps, ApfStep
<1>3. Inv => Told  BY ApfImplies
<1> QED  BY <1>1, <1>2, <1>3, PTL DEF Suite

(* SvmEvents: a handler returns to where the guest was, however often its event   *)
(* was interrupted, no NMI comes before the IRET of the last one's handler, and   *)
(* an event that is masked has an exit due.                                       *)
THEOREM EventsKeptCorrect == Suite => []EventsKept
<1> DEFINE Inv == which = "SvmEvents" => Events!EventsInv
<1>0. Events!Constants  BY SuiteAssumption
<1>1. SuiteInit => Inv  BY Events!InitInv DEF SuiteInit
<1>2. Inv /\ [SuiteNext]_suiteVars => Inv'  BY <1>0, SuiteSteps, Events!StepInv
<1>3. Inv => EventsKept  BY Events!InvKept DEF EventsKept
<1> QED  BY <1>1, <1>2, <1>3, PTL DEF Suite
=============================================================================
