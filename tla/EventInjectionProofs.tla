------------------------ MODULE EventInjectionProofs ------------------------
(***************************************************************************)
(* Proofs about EventInjection for every set of vectors and exceptions,    *)
(* every choice of sources and either kind of NMI virtualisation.          *)
(***************************************************************************)
EXTENDS EventMigration, WellFoundedInduction, TLAPS

\* Abbreviations of the state that every proof may see through.
USE DEF Shadowed, Shadows, ToggledShadow

\* The constructors of events build events, and the initial exception vector is legal.
LEMMA EventFacts ==
  /\ NoEvent \in Event /\ NmiEvent \in Event
  /\ \A v \in ExcVectors : ExcEvent(v) \in Event
  /\ \A v \in Vectors : IrqEvent(v) \in Event
  /\ DF \in ExcVectors
BY ParamsAssumption DEF Event, DF

\* What can be read off an event from its type.
LEMMA EventCases ==
  ASSUME NEW e \in Event
  PROVE  /\ e.type \in {"none", "nmi", "exc", "irq"}
         /\ e.type = "none" <=> e = NoEvent
         /\ e.type = "nmi" <=> e = NmiEvent
         /\ e.type = "exc" => e.vec \in ExcVectors /\ e = ExcEvent(e.vec)
         /\ e.type = "irq" => e.vec \in Vectors /\ e = IrqEvent(e.vec)
BY DEF Event, NoEvent, NmiEvent, ExcEvent, IrqEvent

\* kvm_multiple_exception leaves a well-formed exception.
LEMMA MultipleExceptionType ==
  ASSUME HeldType, NEW c \in ExcVectors
  PROVE  MultipleException(c) \in [pending : BOOLEAN, injected : BOOLEAN, vector : ExcVectors]
BY EventFacts DEF HeldType, MultipleException, Pending

\* __vmx_complete_interrupts leaves well-formed queues, whatever event it takes back.
LEMMA CompleteInterruptsType ==
  ASSUME LoopType, NEW info \in Event, complete_interrupts(info)
  PROVE  /\ nmi_injected' \in BOOLEAN
         /\ exception' \in [pending : BOOLEAN, injected : BOOLEAN, vector : ExcVectors]
         /\ interrupt' \in {NoInterrupt} \cup [injected : {TRUE}, nr : Vectors]
         /\ requests' \subseteq Request
BY EventFacts, EventCases DEF LoopType, complete_interrupts, NoException, Request

\* An interrupt taken from the APIC has a vector.
LEMMA InjectedVector == HeldType /\ interrupt.injected => interrupt.nr \in Vectors
<1> SUFFICES ASSUME HeldType, interrupt.injected PROVE interrupt.nr \in Vectors
  OBVIOUS
<1>1. CASE interrupt = NoInterrupt
  BY <1>1 DEF NoInterrupt
<1>2. CASE interrupt \in [injected : {TRUE}, nr : Vectors]
  BY <1>2
<1> QED
  BY <1>1, <1>2 DEF HeldType

\* A step that leaves a part of the state alone leaves its type alone.
LEMMA FrameTypes ==
  ASSUME TypeOK
  PROVE  /\ UNCHANGED loop => LoopType'
         /\ UNCHANGED async => AsyncType'
         /\ UNCHANGED held => HeldType'
         /\ UNCHANGED vmcs => VmcsType'
         /\ UNCHANGED guest => GuestType'
<1>1. UNCHANGED loop => LoopType'
  BY DEF TypeOK, LoopType, loop
<1>2. UNCHANGED async => AsyncType'
  BY DEF TypeOK, AsyncType, async
<1>3. UNCHANGED held => HeldType'
  BY DEF TypeOK, HeldType, held
<1>4. UNCHANGED vmcs => VmcsType'
  BY DEF TypeOK, VmcsType, vmcs
<1>5. UNCHANGED guest => GuestType'
  BY DEF TypeOK, GuestType, guest
<1> QED
  BY <1>1, <1>2, <1>3, <1>4, <1>5

\* The initial state is well typed.
LEMMA InitType == Init => TypeOK
<1> SUFFICES ASSUME Init PROVE TypeOK
  OBVIOUS
<1>1. LoopType
  BY DEF Init, LoopType, Pc
<1>2. AsyncType
  BY DEF Init, AsyncType
<1>3. HeldType
  <2>1. exception \in [pending : BOOLEAN, injected : BOOLEAN, vector : ExcVectors]
    BY EventFacts DEF Init, NoException
  <2>2. nmi_pending \in 0..2
    BY DEF Init
  <2> QED
    BY <2>1, <2>2 DEF Init, HeldType
<1>4. VmcsType
  BY EventFacts DEF Init, VmcsType, Reasons
<1>5. GuestType
  BY DEF Init, GuestType
<1> QED
  BY <1>1, <1>2, <1>3, <1>4, <1>5 DEF TypeOK

\* Every step keeps the types.
LEMMA TypeStep == TypeOK /\ [Next]_vars => TypeOK'
<1> SUFFICES ASSUME TypeOK, [Next]_vars PROVE TypeOK'
  OBVIOUS
<1>0. LoopType /\ AsyncType /\ HeldType /\ VmcsType /\ GuestType
  BY DEF TypeOK
<1> USE <1>0
<1>1. ASSUME NEW v \in Vectors, RaiseIrq(v) PROVE TypeOK'
  <2>1. AsyncType'
    BY <1>1 DEF RaiseIrq, AsyncType
  <2> QED
    BY <1>1, <2>1, FrameTypes DEF RaiseIrq, TypeOK
<1>2. CASE RaiseNmi
  <2>1. AsyncType'
    BY <1>2 DEF RaiseNmi, AsyncType
  <2> QED
    BY <1>2, <2>1, FrameTypes DEF RaiseNmi, TypeOK
<1>3. CASE RaiseSmi
  <2>1. AsyncType'
    BY <1>3 DEF RaiseSmi, AsyncType
  <2> QED
    BY <1>3, <2>1, FrameTypes DEF RaiseSmi, TypeOK
<1>4. ASSUME NEW k \in Sources, MakeRequest(k) PROVE TypeOK'
  <2>1. LoopType'
    BY <1>4, ParamsAssumption DEF MakeRequest, LoopType, Pc, Request, RequestOf
  <2>2. AsyncType'
    BY <1>4 DEF MakeRequest, AsyncType
  <2> QED
    BY <1>4, <2>1, <2>2, FrameTypes DEF MakeRequest, TypeOK
<1>5. ASSUME NEW k \in Sources, Kick(k) PROVE TypeOK'
  <2>1. LoopType'
    BY <1>5 DEF Kick, LoopType, Pc, Request
  <2>2. AsyncType'
    BY <1>5 DEF Kick, AsyncType
  <2> QED
    BY <1>5, <2>1, <2>2, FrameTypes DEF Kick, TypeOK
<1>6. CASE CheckTripleFault
  <2>1. LoopType'
    BY <1>6 DEF CheckTripleFault, Goto, LoopType, Pc, Request
  <2> QED
    BY <1>6, <2>1, FrameTypes DEF CheckTripleFault, TypeOK
<1>7. CASE CheckSmi
  <2>1. LoopType'
    BY <1>7 DEF CheckSmi, Goto, process_smi_requests, LoopType, Pc, Request
  <2>2. HeldType'
    BY <1>7 DEF CheckSmi, HeldType
  <2> QED
    BY <1>7, <2>1, <2>2, FrameTypes DEF CheckSmi, TypeOK
<1>8. CASE CheckNmi
  <2>1. LoopType'
    BY <1>8 DEF CheckNmi, Goto, LoopType, Pc, Request
  <2>2. AsyncType'
    BY <1>8 DEF CheckNmi, process_nmi, NmiTotal, AsyncType
  <2>3. HeldType'
    <3>1. nmi_pending' \in 0..2
      BY <1>8 DEF CheckNmi, process_nmi, NmiTotal, NmiLimit, HeldType, AsyncType
    <3> QED
      BY <1>8, <3>1 DEF CheckNmi, process_nmi, HeldType
  <2>4. VmcsType'
    BY <1>8, EventFacts DEF CheckNmi, process_nmi, NmiLimit, vmx_get_nmi_mask, VmcsType,
       Reasons
  <2> QED
    BY <1>8, <2>1, <2>2, <2>3, <2>4, FrameTypes DEF CheckNmi, TypeOK
<1>9. CASE CheckEvent
  <2>1. LoopType'
    BY <1>9 DEF CheckEvent, Goto, LoopType, Pc, Request
  <2> QED
    BY <1>9, <2>1, FrameTypes DEF CheckEvent, TypeOK
<1>10. CASE InjectException
  <2>1. LoopType'
    BY <1>10 DEF InjectException, Goto, LoopType, Pc, Request
  <2>2. HeldType'
    BY <1>10 DEF InjectException, HeldType
  <2>3. VmcsType'
    BY <1>10, EventFacts DEF InjectException, VmcsType, Reasons, HeldType
  <2> QED
    BY <1>10, <2>1, <2>2, <2>3, FrameTypes DEF InjectException, TypeOK
<1>11. CASE Reinject
  <2>1. LoopType'
    BY <1>11 DEF Reinject, Goto, LoopType, Pc, Request
  <2>2. VmcsType'
    <3>1. interrupt.injected => interrupt.nr \in Vectors
      BY InjectedVector
    <3> QED
      BY <1>11, <3>1, EventFacts DEF Reinject, vmx_inject_nmi, VmcsType, Reasons
  <2> QED
    BY <1>11, <2>1, <2>2, FrameTypes DEF Reinject, TypeOK
<1>12. CASE SkipSmi
  <2>1. LoopType'
    BY <1>12 DEF SkipSmi, Goto, Busy, LoopType, Pc, Request
  <2> QED
    BY <1>12, <2>1, FrameTypes DEF SkipSmi, TypeOK
<1>13. CASE EnterSmm
  <2>1. LoopType'
    BY <1>13 DEF EnterSmm, Goto, LoopType, Pc, Request
  <2>2. HeldType'
    BY <1>13 DEF EnterSmm, HeldType, vmx_get_nmi_mask, VmcsType, GuestType
  <2>3. VmcsType'
    BY <1>13, EventFacts DEF EnterSmm, vmx_get_nmi_mask, vmx_set_nmi_mask, VmcsType, Reasons
  <2>4. GuestType'
    BY <1>13 DEF EnterSmm, vmx_get_nmi_mask, vmx_set_nmi_mask, GuestType
  <2> QED
    BY <1>13, <2>1, <2>2, <2>3, <2>4, FrameTypes DEF EnterSmm, TypeOK
<1>14. CASE SkipNmi
  <2>1. LoopType'
    BY <1>14 DEF SkipNmi, Goto, Busy, LoopType, Pc, Request
  <2>2. VmcsType'
    BY <1>14, EventFacts DEF SkipNmi, vmx_enable_nmi_window, VmcsType, Reasons
  <2> QED
    BY <1>14, <2>1, <2>2, FrameTypes DEF SkipNmi, TypeOK
<1>15. CASE InjectNmi
  <2>1. LoopType'
    BY <1>15 DEF InjectNmi, Goto, LoopType, Pc, Request
  <2>2. HeldType'
    <3>1. nmi_pending' \in 0..2
      BY <1>15 DEF InjectNmi, HeldType
    <3> QED
      BY <1>15, <3>1 DEF InjectNmi, HeldType
  <2>3. VmcsType'
    BY <1>15, EventFacts DEF InjectNmi, vmx_inject_nmi, vmx_enable_nmi_window, VmcsType,
       Reasons
  <2> QED
    BY <1>15, <2>1, <2>2, <2>3, FrameTypes DEF InjectNmi, TypeOK
<1>16. CASE SkipIrq
  <2>1. LoopType'
    BY <1>16 DEF SkipIrq, Goto, Busy, LoopType, Pc, Request
  <2>2. VmcsType'
    BY <1>16, EventFacts DEF SkipIrq, VmcsType, Reasons
  <2> QED
    BY <1>16, <2>1, <2>2, FrameTypes DEF SkipIrq, TypeOK
<1>17. CASE InjectIrq
  <2>1. LoopType'
    BY <1>17 DEF InjectIrq, Goto, LoopType, Pc, Request
  <2>2. AsyncType'
    BY <1>17 DEF InjectIrq, AsyncType
  <2>3. HeldType'
    BY <1>17 DEF InjectIrq, HeldType, Injectable, AsyncType
  <2>4. VmcsType'
    BY <1>17, EventFacts DEF InjectIrq, VmcsType, Reasons, Injectable, AsyncType
  <2> QED
    BY <1>17, <2>1, <2>2, <2>3, <2>4, FrameTypes DEF InjectIrq, TypeOK
<1>18. CASE EnterGuestMode
  <2>1. LoopType'
    BY <1>18 DEF EnterGuestMode, Goto, LoopType, Pc, Request
  <2> QED
    BY <1>18, <2>1, FrameTypes DEF EnterGuestMode, TypeOK
<1>19. CASE CancelInjection
  <2>1. LoopType'
    BY <1>19, CompleteInterruptsType DEF CancelInjection, Goto, LoopType, Pc, Request,
       VmcsType
  <2>2. AsyncType'
    BY <1>19 DEF CancelInjection, AsyncType
  <2>3. HeldType'
    BY <1>19, CompleteInterruptsType DEF CancelInjection, HeldType, VmcsType
  <2>4. VmcsType'
    BY <1>19, EventFacts DEF CancelInjection, vmx_set_nmi_mask, VmcsType, Reasons
  <2>5. GuestType'
    BY <1>19 DEF CancelInjection, vmx_set_nmi_mask, GuestType
  <2> QED
    BY <1>19, <2>1, <2>2, <2>3, <2>4, <2>5 DEF CancelInjection, TypeOK
<1>20. CASE VmEnter
  <2>1. LoopType'
    BY <1>20 DEF VmEnter, Goto, LoopType, Pc, Request
  <2> QED
    BY <1>20, <2>1, FrameTypes DEF VmEnter, TypeOK
<1>21. CASE Deliver
  <2>1. VmcsType'
    BY <1>21, EventFacts DEF Deliver, VmcsType, Reasons
  <2>2. GuestType'
    BY <1>21 DEF Deliver, GuestType
  <2> QED
    BY <1>21, <2>1, <2>2, FrameTypes DEF Deliver, TypeOK
<1>22. CASE GuestFlags
  <2>1. GuestType'
    BY <1>22 DEF GuestFlags, MayEnableIf, GuestType
  <2> QED
    BY <1>22, <2>1, FrameTypes DEF GuestFlags, TypeOK
<1>23. CASE Iret
  <2>1. GuestType'
    BY <1>23 DEF Iret, GuestType
  <2> QED
    BY <1>23, <2>1, FrameTypes DEF Iret, TypeOK
<1>24. CASE ExitExternal
  <2>1. LoopType'
    BY <1>24 DEF ExitExternal, Exit, Goto, LoopType, Pc, Request
  <2>2. VmcsType'
    BY <1>24, EventFacts DEF ExitExternal, Exit, VmcsType, Reasons
  <2> QED
    BY <1>24, <2>1, <2>2, FrameTypes DEF ExitExternal, Exit, TypeOK
<1>25. CASE ExitIrqWindow
  <2>1. LoopType'
    BY <1>25 DEF ExitIrqWindow, Exit, Goto, LoopType, Pc, Request
  <2>2. VmcsType'
    BY <1>25, EventFacts DEF ExitIrqWindow, Exit, VmcsType, Reasons
  <2> QED
    BY <1>25, <2>1, <2>2, FrameTypes DEF ExitIrqWindow, Exit, TypeOK
<1>26. CASE ExitNmiWindow
  <2>1. LoopType'
    BY <1>26 DEF ExitNmiWindow, Exit, Goto, LoopType, Pc, Request
  <2>2. VmcsType'
    BY <1>26, EventFacts DEF ExitNmiWindow, Exit, VmcsType, Reasons
  <2> QED
    BY <1>26, <2>1, <2>2, FrameTypes DEF ExitNmiWindow, Exit, TypeOK
<1>27. CASE ExitInstruction
  <2>1. LoopType'
    BY <1>27 DEF ExitInstruction, Exit, Goto, LoopType, Pc, Request
  <2>2. VmcsType'
    BY <1>27, EventFacts DEF ExitInstruction, Exit, VmcsType, Reasons
  <2> QED
    BY <1>27, <2>1, <2>2, FrameTypes DEF ExitInstruction, Exit, TypeOK
<1>28. CASE ExitDelivering
  <2>1. LoopType'
    BY <1>28 DEF ExitDelivering, Exit, Goto, LoopType, Pc, Request
  <2>2. VmcsType'
    BY <1>28, EventFacts DEF ExitDelivering, Exit, VmcsType, Reasons
  <2>3. GuestType'
    BY <1>28 DEF ExitDelivering, GuestType
  <2> QED
    BY <1>28, <2>1, <2>2, <2>3, FrameTypes DEF ExitDelivering, Exit, TypeOK
<1>29. CASE ExitNativeException
  <2>1. LoopType'
    BY <1>29 DEF ExitNativeException, Exit, Goto, LoopType, Pc, Request
  <2>2. VmcsType'
    BY <1>29, EventFacts DEF ExitNativeException, Exit, VmcsType, Reasons
  <2> QED
    BY <1>29, <2>1, <2>2, FrameTypes DEF ExitNativeException, Exit, TypeOK
<1>30. CASE ExitIret
  <2>1. LoopType'
    BY <1>30 DEF ExitIret, Exit, Goto, LoopType, Pc, Request
  <2>2. VmcsType'
    BY <1>30, EventFacts DEF ExitIret, Exit, VmcsType, Reasons
  <2>3. GuestType'
    BY <1>30 DEF ExitIret, GuestType
  <2> QED
    BY <1>30, <2>1, <2>2, <2>3, FrameTypes DEF ExitIret, Exit, TypeOK
<1>31. CASE CompleteExit
  <2>1. LoopType'
    BY <1>31, CompleteInterruptsType DEF CompleteExit, Goto, LoopType, Pc, Request, VmcsType
  <2>2. AsyncType'
    BY <1>31 DEF CompleteExit, AsyncType
  <2>3. HeldType'
    BY <1>31, CompleteInterruptsType DEF CompleteExit, HeldType, VmcsType
  <2>4. VmcsType'
    BY <1>31, EventFacts DEF CompleteExit, vmx_set_nmi_mask, NmiRecovered, VmcsType, Reasons
  <2>5. GuestType'
    BY <1>31 DEF CompleteExit, vmx_set_nmi_mask, GuestType
  <2> QED
    BY <1>31, <2>1, <2>2, <2>3, <2>4, <2>5 DEF CompleteExit, TypeOK
<1>32. CASE DeliveryError
  <2>1. LoopType'
    BY <1>32 DEF DeliveryError, Handled, Goto, LoopType, Pc, Request
  <2>2. VmcsType'
    BY <1>32, EventFacts DEF DeliveryError, Handled, VmcsType, Reasons
  <2> QED
    BY <1>32, <2>1, <2>2, FrameTypes DEF DeliveryError, Handled, TypeOK
<1>33. CASE HandleExternal
  <2>1. LoopType'
    BY <1>33 DEF HandleExternal, Handled, Goto, LoopType, Pc, Request
  <2>2. VmcsType'
    BY <1>33, EventFacts DEF HandleExternal, Handled, soft_vnmi, VmcsType, Reasons
  <2> QED
    BY <1>33, <2>1, <2>2, FrameTypes DEF HandleExternal, TypeOK
<1>34. CASE HandleWindow
  <2>1. LoopType'
    BY <1>34 DEF HandleWindow, window_requests, Handled, Goto, LoopType, Pc, Request
  <2>2. VmcsType'
    BY <1>34, EventFacts DEF HandleWindow, Handled, soft_vnmi, VmcsType, Reasons
  <2> QED
    BY <1>34, <2>1, <2>2, FrameTypes DEF HandleWindow, TypeOK
<1>35. CASE HandleFault
  <2>1. LoopType'
    BY <1>35 DEF HandleFault, Handled, Goto, LoopType, Pc, Request, MultipleExceptionRequests
  <2>2. HeldType'
    BY <1>35, MultipleExceptionType DEF HandleFault, MultipleExceptionRequests, soft_vnmi,
       HeldType
  <2>3. VmcsType'
    BY <1>35, EventFacts DEF HandleFault, Handled, soft_vnmi, VmcsType, Reasons
  <2>4. GuestType'
    BY <1>35 DEF HandleFault, soft_vnmi, MayEnableIf, GuestType
  <2> QED
    BY <1>35, <2>1, <2>2, <2>3, <2>4, FrameTypes DEF HandleFault, TypeOK
<1>36. CASE HandleEmulate
  <2>1. LoopType'
    BY <1>36 DEF HandleEmulate, Emulated, Skipped, Handled, Goto, LoopType, Pc, Request
  <2>2. VmcsType'
    BY <1>36, EventFacts DEF HandleEmulate, Handled, soft_vnmi, VmcsType, Reasons
  <2>3. GuestType'
    BY <1>36 DEF HandleEmulate, Emulated, Skipped, MayEnableIf, soft_vnmi, GuestType
  <2> QED
    BY <1>36, <2>1, <2>2, <2>3, FrameTypes DEF HandleEmulate, Emulated, Skipped, TypeOK
<1>37. CASE HandleEoi
  <2>1. LoopType'
    BY <1>37 DEF HandleEoi, apic_set_eoi_requests, Handled, Goto, LoopType, Pc, Request
  <2>2. HeldType'
    BY <1>37 DEF HandleEoi, soft_vnmi, HeldType
  <2>3. VmcsType'
    BY <1>37, EventFacts DEF HandleEoi, Handled, soft_vnmi, VmcsType, Reasons
  <2> QED
    BY <1>37, <2>1, <2>2, <2>3, FrameTypes DEF HandleEoi, TypeOK
<1>38. CASE HandleRsm
  <2>1. LoopType'
    BY <1>38 DEF HandleRsm, Handled, Goto, LoopType, Pc, Request
  <2>2. HeldType'
    BY <1>38 DEF HandleRsm, soft_vnmi, HeldType
  <2>3. VmcsType'
    BY <1>38, EventFacts DEF HandleRsm, soft_vnmi, vmx_set_nmi_mask, Handled, VmcsType,
       Reasons
  <2>4. GuestType'
    BY <1>38 DEF HandleRsm, soft_vnmi, MayEnableIf, vmx_set_nmi_mask, GuestType
  <2> QED
    BY <1>38, <2>1, <2>2, <2>3, <2>4, FrameTypes DEF HandleRsm, TypeOK
<1>39. CASE HandleTaskGate
  <2>1. LoopType'
    BY <1>39 DEF HandleTaskGate, task_gate, Goto, LoopType, Pc, Request
  <2>2. HeldType'
    BY <1>39, EventFacts DEF HandleTaskGate, task_gate, soft_vnmi, HeldType, NoException
  <2>3. VmcsType'
    BY <1>39, EventFacts DEF HandleTaskGate, task_gate, vmx_set_nmi_mask, soft_vnmi, VmcsType,
       Reasons
  <2>4. GuestType'
    BY <1>39 DEF HandleTaskGate, task_gate, vmx_set_nmi_mask, soft_vnmi, MayEnableIf,
       GuestType
  <2> QED
    BY <1>39, <2>1, <2>2, <2>3, <2>4, FrameTypes DEF HandleTaskGate, task_gate, TypeOK
<1>40. CASE TaskSwitchError
  <2>1. LoopType'
    BY <1>40 DEF TaskSwitchError, task_gate, Goto, LoopType, Pc, Request
  <2>2. HeldType'
    BY <1>40, EventFacts DEF TaskSwitchError, task_gate, soft_vnmi, HeldType, NoException
  <2>3. VmcsType'
    BY <1>40, EventFacts DEF TaskSwitchError, task_gate, vmx_set_nmi_mask, soft_vnmi,
       VmcsType, Reasons
  <2>4. GuestType'
    BY <1>40 DEF TaskSwitchError, task_gate, vmx_set_nmi_mask, soft_vnmi, MayEnableIf,
       GuestType
  <2> QED
    BY <1>40, <2>1, <2>2, <2>3, <2>4, FrameTypes DEF TaskSwitchError, task_gate, TypeOK
<1>41. CASE UNCHANGED vars
  BY <1>41, FrameTypes DEF vars, TypeOK
<1> QED
  BY <1>1, <1>2, <1>3, <1>4, <1>5, <1>6, <1>7, <1>8, <1>9, <1>10, <1>11, <1>12, <1>13, <1>14,
     <1>15, <1>16, <1>17, <1>18, <1>19, <1>20, <1>21, <1>22, <1>23, <1>24, <1>25, <1>26,
     <1>27, <1>28, <1>29, <1>30, <1>31, <1>32, <1>33, <1>34, <1>35, <1>36, <1>37, <1>38,
     <1>39, <1>40, <1>41 DEF Next, Source, EnterLoop, GuestRuns, Exits, Handlers, Stopped

\* TypeOK: every field of the vCPU keeps its type in every interleaving.
THEOREM TypeCorrect == Spec => []TypeOK
BY InitType, TypeStep, PTL DEF Spec

\* How the constructors of events are told apart.
LEMMA EventTypes ==
  /\ NoEvent.type = "none" /\ NmiEvent.type = "nmi"
  /\ \A v : ExcEvent(v).type = "exc" /\ IrqEvent(v).type = "irq"
BY DEF NoEvent, NmiEvent, ExcEvent, IrqEvent

\* The thread starts with nothing held.
LEMMA InitDelivery == Init => DeliveryInv
BY EventTypes DEF Init, DeliveryInv, HeldIsCarried, ExitPutsBack, HeldIsLegal, Held, Legal, InLoop,
   NoException, NoInterrupt

\* Every step of the sources, the vCPU thread, the CPU and the guest keeps the held event carried,
\* put back at exits and legal to inject.
LEMMA DeliveryStep == TypeOK /\ DeliveryInv /\ [Next]_vars => DeliveryInv'
<1> SUFFICES ASSUME TypeOK, DeliveryInv, [Next]_vars PROVE DeliveryInv'
  OBVIOUS
<1>0. HeldIsCarried /\ ExitPutsBack /\ HeldIsLegal /\ HeldType /\ VmcsType
  BY DEF DeliveryInv, TypeOK
<1> USE <1>0, EventTypes DEF HeldIsCarried, ExitPutsBack, HeldIsLegal, Held, Legal, InLoop,
                             Requeued, HeldType
<1>1. ASSUME NEW v \in Vectors, RaiseIrq(v) PROVE DeliveryInv'
  <2>1. HeldIsCarried'
    BY <1>1 DEF RaiseIrq, loop, held, vmcs
  <2>2. ExitPutsBack'
    BY <1>1 DEF RaiseIrq, loop, held, vmcs
  <2>3. HeldIsLegal'
    BY <1>1 DEF RaiseIrq, loop, held, vmcs, guest
  <2> QED
    BY <2>1, <2>2, <2>3 DEF DeliveryInv
<1>2. CASE RaiseNmi
  <2>1. HeldIsCarried'
    BY <1>2 DEF RaiseNmi, loop, held, vmcs
  <2>2. ExitPutsBack'
    BY <1>2 DEF RaiseNmi, loop, held, vmcs
  <2>3. HeldIsLegal'
    BY <1>2 DEF RaiseNmi, loop, held, vmcs, guest
  <2> QED
    BY <2>1, <2>2, <2>3 DEF DeliveryInv
<1>3. CASE RaiseSmi
  <2>1. HeldIsCarried'
    BY <1>3 DEF RaiseSmi, loop, held, vmcs
  <2>2. ExitPutsBack'
    BY <1>3 DEF RaiseSmi, loop, held, vmcs
  <2>3. HeldIsLegal'
    BY <1>3 DEF RaiseSmi, loop, held, vmcs, guest
  <2> QED
    BY <2>1, <2>2, <2>3 DEF DeliveryInv
<1>4. ASSUME NEW k \in Sources, MakeRequest(k) PROVE DeliveryInv'
  <2>1. HeldIsCarried'
    BY <1>4 DEF MakeRequest, held, vmcs
  <2>2. ExitPutsBack'
    BY <1>4 DEF MakeRequest, held, vmcs
  <2>3. HeldIsLegal'
    BY <1>4 DEF MakeRequest, held, vmcs, guest
  <2> QED
    BY <2>1, <2>2, <2>3 DEF DeliveryInv
<1>5. ASSUME NEW k \in Sources, Kick(k) PROVE DeliveryInv'
  <2>1. HeldIsCarried'
    BY <1>5 DEF Kick, held, vmcs
  <2>2. ExitPutsBack'
    BY <1>5 DEF Kick, held, vmcs
  <2>3. HeldIsLegal'
    BY <1>5 DEF Kick, held, vmcs, guest
  <2> QED
    BY <2>1, <2>2, <2>3 DEF DeliveryInv
<1>6. CASE CheckTripleFault
  <2>1. HeldIsCarried'
    BY <1>6 DEF CheckTripleFault, Goto, held, vmcs
  <2>2. ExitPutsBack'
    BY <1>6 DEF CheckTripleFault, Goto, held, vmcs
  <2>3. HeldIsLegal'
    BY <1>6 DEF CheckTripleFault, Goto, held, vmcs, guest
  <2> QED
    BY <2>1, <2>2, <2>3 DEF DeliveryInv
<1>7. CASE CheckSmi
  <2>1. HeldIsCarried'
    BY <1>7 DEF CheckSmi, Goto, process_smi_requests, vmcs
  <2>2. ExitPutsBack'
    BY <1>7 DEF CheckSmi, Goto, process_smi_requests, vmcs
  <2>3. HeldIsLegal'
    BY <1>7 DEF CheckSmi, Goto, vmcs, guest
  <2> QED
    BY <2>1, <2>2, <2>3 DEF DeliveryInv
<1>8. CASE CheckNmi
  <2>1. HeldIsCarried'
    BY <1>8 DEF CheckNmi, Goto
  <2>2. ExitPutsBack'
    BY <1>8 DEF CheckNmi, Goto
  <2>3. HeldIsLegal'
    BY <1>8 DEF CheckNmi, Goto, guest
  <2> QED
    BY <2>1, <2>2, <2>3 DEF DeliveryInv
<1>9. CASE CheckEvent
  <2>1. HeldIsCarried'
    BY <1>9 DEF CheckEvent, Goto, held, vmcs
  <2>2. ExitPutsBack'
    BY <1>9 DEF CheckEvent, Goto, held, vmcs
  <2>3. HeldIsLegal'
    BY <1>9 DEF CheckEvent, Goto, held, vmcs, guest
  <2> QED
    BY <2>1, <2>2, <2>3 DEF DeliveryInv
<1>10. CASE InjectException
  <2>1. HeldIsCarried'
    BY <1>10 DEF InjectException, Goto
  <2>2. ExitPutsBack'
    BY <1>10 DEF InjectException, Goto
  <2>3. HeldIsLegal'
    BY <1>10 DEF InjectException, Goto, guest
  <2> QED
    BY <2>1, <2>2, <2>3 DEF DeliveryInv
<1>11. CASE Reinject
  <2>1. HeldIsCarried'
    BY <1>11 DEF Reinject, vmx_inject_nmi, kvm_event_needs_reinjection, Goto, held
  <2>2. ExitPutsBack'
    BY <1>11 DEF Reinject, kvm_event_needs_reinjection, Goto, held
  <2>3. HeldIsLegal'
    BY <1>11 DEF Reinject, vmx_inject_nmi, kvm_event_needs_reinjection, Goto, held, guest
  <2> QED
    BY <2>1, <2>2, <2>3 DEF DeliveryInv
<1>12. CASE SkipSmi
  <2>1. HeldIsCarried'
    BY <1>12 DEF SkipSmi, Goto, Busy, held, vmcs
  <2>2. ExitPutsBack'
    BY <1>12 DEF SkipSmi, Goto, Busy, held, vmcs
  <2>3. HeldIsLegal'
    BY <1>12 DEF SkipSmi, Goto, Busy, held, vmcs, guest
  <2> QED
    BY <2>1, <2>2, <2>3 DEF DeliveryInv
<1>13. CASE EnterSmm
  <2>1. HeldIsCarried'
    BY <1>13 DEF EnterSmm, Goto
  <2>2. ExitPutsBack'
    BY <1>13 DEF EnterSmm, Goto
  <2>3. HeldIsLegal'
    BY <1>13 DEF EnterSmm, vmx_set_nmi_mask, Goto
  <2> QED
    BY <2>1, <2>2, <2>3 DEF DeliveryInv
<1>14. CASE SkipNmi
  <2>1. HeldIsCarried'
    BY <1>14 DEF SkipNmi, Goto, Busy, held
  <2>2. ExitPutsBack'
    BY <1>14 DEF SkipNmi, Goto, Busy, held
  <2>3. HeldIsLegal'
    BY <1>14 DEF SkipNmi, Goto, Busy, held, guest
  <2> QED
    BY <2>1, <2>2, <2>3 DEF DeliveryInv
<1>15. CASE InjectNmi
  <2>1. HeldIsCarried'
    BY <1>15 DEF InjectNmi, vmx_inject_nmi, Goto
  <2>2. ExitPutsBack'
    BY <1>15 DEF InjectNmi, Goto
  <2>3. HeldIsLegal'
    BY <1>15 DEF InjectNmi, vmx_nmi_blocked, vmx_inject_nmi, Goto, guest
  <2> QED
    BY <2>1, <2>2, <2>3 DEF DeliveryInv
<1>16. CASE SkipIrq
  <2>1. HeldIsCarried'
    BY <1>16 DEF SkipIrq, Goto, Busy, held
  <2>2. ExitPutsBack'
    BY <1>16 DEF SkipIrq, Goto, Busy, held
  <2>3. HeldIsLegal'
    BY <1>16 DEF SkipIrq, Goto, Busy, held, guest
  <2> QED
    BY <2>1, <2>2, <2>3 DEF DeliveryInv
<1>17. CASE InjectIrq
  <2>1. HeldIsCarried'
    BY <1>17 DEF InjectIrq, Goto
  <2>2. ExitPutsBack'
    BY <1>17 DEF InjectIrq, Goto
  <2>3. HeldIsLegal'
    BY <1>17 DEF InjectIrq, vmx_interrupt_blocked, Goto, guest
  <2> QED
    BY <2>1, <2>2, <2>3 DEF DeliveryInv
<1>18. CASE EnterGuestMode
  <2>1. HeldIsCarried'
    BY <1>18 DEF EnterGuestMode, Goto, held, vmcs
  <2>2. ExitPutsBack'
    BY <1>18 DEF EnterGuestMode, Goto, held, vmcs
  <2>3. HeldIsLegal'
    BY <1>18 DEF EnterGuestMode, Goto, held, vmcs, guest
  <2> QED
    BY <2>1, <2>2, <2>3 DEF DeliveryInv
<1>19. CASE CancelInjection
  <2>1. HeldIsCarried'
    BY <1>19 DEF CancelInjection, complete_interrupts, NoException, NoInterrupt, Goto
  <2>2. ExitPutsBack'
    BY <1>19 DEF CancelInjection, complete_interrupts, NoException, NoInterrupt, Goto
  <2>3. HeldIsLegal'
    BY <1>19 DEF CancelInjection, complete_interrupts, NoException, NoInterrupt,
       vmx_set_nmi_mask, Goto
  <2> QED
    BY <2>1, <2>2, <2>3 DEF DeliveryInv
<1>20. CASE VmEnter
  <2>1. HeldIsCarried'
    BY <1>20 DEF VmEnter, Goto, held, vmcs
  <2>2. ExitPutsBack'
    BY <1>20 DEF VmEnter, Goto, held, vmcs
  <2>3. HeldIsLegal'
    BY <1>20 DEF VmEnter, Goto, held, vmcs, guest
  <2> QED
    BY <2>1, <2>2, <2>3 DEF DeliveryInv
<1>21. CASE Deliver
  <2>1. HeldIsCarried'
    BY <1>21 DEF Deliver, loop, held
  <2>2. ExitPutsBack'
    BY <1>21 DEF Deliver, loop, held
  <2>3. HeldIsLegal'
    BY <1>21 DEF Deliver, loop, held
  <2> QED
    BY <2>1, <2>2, <2>3 DEF DeliveryInv
<1>22. CASE GuestFlags
  <2>1. HeldIsCarried'
    BY <1>22 DEF GuestFlags, GuestExecutes, loop, held, vmcs
  <2>2. ExitPutsBack'
    BY <1>22 DEF GuestFlags, GuestExecutes, loop, held, vmcs
  <2>3. HeldIsLegal'
    BY <1>22 DEF GuestFlags, GuestExecutes, loop, held, vmcs
  <2> QED
    BY <2>1, <2>2, <2>3 DEF DeliveryInv
<1>23. CASE Iret
  <2>1. HeldIsCarried'
    BY <1>23 DEF Iret, GuestExecutes, loop, held, vmcs
  <2>2. ExitPutsBack'
    BY <1>23 DEF Iret, GuestExecutes, loop, held, vmcs
  <2>3. HeldIsLegal'
    BY <1>23 DEF Iret, GuestExecutes, loop, held, vmcs
  <2> QED
    BY <2>1, <2>2, <2>3 DEF DeliveryInv
<1>24. CASE ExitExternal
  <2>1. HeldIsCarried'
    BY <1>24 DEF ExitExternal, Exit, Goto, held
  <2>2. ExitPutsBack'
    BY <1>24 DEF ExitExternal, Exit, Goto, held
  <2>3. HeldIsLegal'
    BY <1>24 DEF ExitExternal, Exit, Goto, held, guest
  <2> QED
    BY <2>1, <2>2, <2>3 DEF DeliveryInv
<1>25. CASE ExitIrqWindow
  <2>1. HeldIsCarried'
    BY <1>25 DEF ExitIrqWindow, Exit, Goto, held
  <2>2. ExitPutsBack'
    BY <1>25 DEF ExitIrqWindow, Exit, Goto, held
  <2>3. HeldIsLegal'
    BY <1>25 DEF ExitIrqWindow, Exit, Goto, held, guest
  <2> QED
    BY <2>1, <2>2, <2>3 DEF DeliveryInv
<1>26. CASE ExitNmiWindow
  <2>1. HeldIsCarried'
    BY <1>26 DEF ExitNmiWindow, Exit, Goto, held
  <2>2. ExitPutsBack'
    BY <1>26 DEF ExitNmiWindow, Exit, Goto, held
  <2>3. HeldIsLegal'
    BY <1>26 DEF ExitNmiWindow, Exit, Goto, held, guest
  <2> QED
    BY <2>1, <2>2, <2>3 DEF DeliveryInv
<1>27. CASE ExitInstruction
  <2>1. HeldIsCarried'
    BY <1>27 DEF ExitInstruction, GuestExecutes, Exit, Goto, held
  <2>2. ExitPutsBack'
    BY <1>27 DEF ExitInstruction, GuestExecutes, Exit, Goto, held
  <2>3. HeldIsLegal'
    BY <1>27 DEF ExitInstruction, GuestExecutes, Exit, Goto, held, guest
  <2> QED
    BY <2>1, <2>2, <2>3 DEF DeliveryInv
<1>28. CASE ExitDelivering
  <2>1. HeldIsCarried'
    BY <1>28 DEF ExitDelivering, Exit, Goto, held
  <2>2. ExitPutsBack'
    BY <1>28 DEF ExitDelivering, Exit, Goto, held
  <2>3. HeldIsLegal'
    BY <1>28 DEF ExitDelivering, Exit, Goto, held
  <2> QED
    BY <2>1, <2>2, <2>3 DEF DeliveryInv
<1>29. CASE ExitNativeException
  <2>1. HeldIsCarried'
    BY <1>29 DEF ExitNativeException, GuestExecutes, Exit, Goto, held
  <2>2. ExitPutsBack'
    BY <1>29 DEF ExitNativeException, GuestExecutes, Exit, Goto, held
  <2>3. HeldIsLegal'
    BY <1>29 DEF ExitNativeException, GuestExecutes, Exit, Goto, held, guest
  <2> QED
    BY <2>1, <2>2, <2>3 DEF DeliveryInv
<1>30. CASE ExitIret
  <2>1. HeldIsCarried'
    BY <1>30 DEF ExitIret, GuestExecutes, Exit, Goto, held
  <2>2. ExitPutsBack'
    BY <1>30 DEF ExitIret, GuestExecutes, Exit, Goto, held
  <2>3. HeldIsLegal'
    BY <1>30 DEF ExitIret, GuestExecutes, Exit, Goto, held
  <2> QED
    BY <2>1, <2>2, <2>3 DEF DeliveryInv
<1>31. CASE CompleteExit
  <2>1. HeldIsCarried'
    BY <1>31 DEF CompleteExit, complete_interrupts, NoException, NoInterrupt, Goto
  <2>2. ExitPutsBack'
    BY <1>31, EventCases DEF CompleteExit, complete_interrupts, NoException, NoInterrupt,
       Goto, VmcsType
  <2>3. HeldIsLegal'
    BY <1>31, <2>2, EventCases DEF CompleteExit, Goto, vmx_set_nmi_mask, NmiRecovered,
       VmcsType
  <2> QED
    BY <2>1, <2>2, <2>3 DEF DeliveryInv
<1>32. CASE DeliveryError
  <2>1. HeldIsCarried'
    BY <1>32 DEF DeliveryError, Handled, Goto, held
  <2>2. ExitPutsBack'
    BY <1>32 DEF DeliveryError, Handled, Goto, held
  <2>3. HeldIsLegal'
    BY <1>32 DEF DeliveryError, Handled, Goto, held, guest
  <2> QED
    BY <2>1, <2>2, <2>3 DEF DeliveryInv
<1>33. CASE HandleExternal
  <2>1. HeldIsCarried'
    BY <1>33 DEF HandleExternal, Handled, Goto, held
  <2>2. ExitPutsBack'
    BY <1>33 DEF HandleExternal, Handled, Goto, held
  <2>3. HeldIsLegal'
    BY <1>33 DEF HandleExternal, Handled, Goto, held, guest
  <2> QED
    BY <2>1, <2>2, <2>3 DEF DeliveryInv
<1>34. CASE HandleWindow
  <2>1. HeldIsCarried'
    BY <1>34 DEF HandleWindow, window_requests, Handled, Goto, held
  <2>2. ExitPutsBack'
    BY <1>34 DEF HandleWindow, window_requests, Handled, Goto, held
  <2>3. HeldIsLegal'
    BY <1>34 DEF HandleWindow, Handled, Goto, held, guest
  <2> QED
    BY <2>1, <2>2, <2>3 DEF DeliveryInv
<1>35. CASE HandleFault
  <2>1. HeldIsCarried'
    BY <1>35 DEF HandleFault, MultipleExceptionRequests, Handled, Goto
  <2>2. ExitPutsBack'
    BY <1>35 DEF HandleFault, MultipleExceptionRequests, Handled, Goto
  <2>3. HeldIsLegal'
    BY <1>35 DEF HandleFault, MultipleExceptionRequests, Handled, Goto
  <2> QED
    BY <2>1, <2>2, <2>3 DEF DeliveryInv
<1>36. CASE HandleEmulate
  <2>1. HeldIsCarried'
    BY <1>36 DEF HandleEmulate, Emulated, Skipped, Handled, Goto, held
  <2>2. ExitPutsBack'
    BY <1>36 DEF HandleEmulate, Emulated, Skipped, Handled, Goto, held
  <2>3. HeldIsLegal'
    BY <1>36 DEF HandleEmulate, Emulated, Skipped, Handled, Goto, held
  <2> QED
    BY <2>1, <2>2, <2>3 DEF DeliveryInv
<1>37. CASE HandleEoi
  <2>1. HeldIsCarried'
    BY <1>37 DEF HandleEoi, apic_set_eoi_requests, Handled, Goto
  <2>2. ExitPutsBack'
    BY <1>37 DEF HandleEoi, apic_set_eoi_requests, Handled, Goto
  <2>3. HeldIsLegal'
    BY <1>37 DEF HandleEoi, Handled, Goto, guest
  <2> QED
    BY <2>1, <2>2, <2>3 DEF DeliveryInv
<1>38. CASE HandleRsm
  <2>1. HeldIsCarried'
    BY <1>38 DEF HandleRsm, Handled, Goto
  <2>2. ExitPutsBack'
    BY <1>38 DEF HandleRsm, Handled, Goto
  <2>3. HeldIsLegal'
    BY <1>38 DEF HandleRsm, vmx_set_nmi_mask, Handled, Goto
  <2> QED
    BY <2>1, <2>2, <2>3 DEF DeliveryInv
<1>39. CASE HandleTaskGate
  <2>1. HeldIsCarried'
    BY <1>39 DEF HandleTaskGate, task_gate, NoException, NoInterrupt, Goto
  <2>2. ExitPutsBack'
    BY <1>39 DEF HandleTaskGate, task_gate, NoException, NoInterrupt, Goto
  <2>3. HeldIsLegal'
    BY <1>39 DEF HandleTaskGate, task_gate, NoException, NoInterrupt, vmx_set_nmi_mask, Goto
  <2> QED
    BY <2>1, <2>2, <2>3 DEF DeliveryInv
<1>40. CASE TaskSwitchError
  <2>1. HeldIsCarried'
    BY <1>40 DEF TaskSwitchError, task_gate, NoException, NoInterrupt, Goto
  <2>2. ExitPutsBack'
    BY <1>40 DEF TaskSwitchError, task_gate, NoException, NoInterrupt, Goto
  <2>3. HeldIsLegal'
    BY <1>40 DEF TaskSwitchError, task_gate, NoException, NoInterrupt, vmx_set_nmi_mask, Goto
  <2> QED
    BY <2>1, <2>2, <2>3 DEF DeliveryInv
<1>41. CASE UNCHANGED vars
  BY <1>41 DEF DeliveryInv, vars, loop, held, vmcs, guest
<1> QED
  BY <1>1, <1>2, <1>3, <1>4, <1>5, <1>6, <1>7, <1>8, <1>9, <1>10, <1>11, <1>12, <1>13, <1>14,
     <1>15, <1>16, <1>17, <1>18, <1>19, <1>20, <1>21, <1>22, <1>23, <1>24, <1>25, <1>26,
     <1>27, <1>28, <1>29, <1>30, <1>31, <1>32, <1>33, <1>34, <1>35, <1>36, <1>37, <1>38,
     <1>39, <1>40, <1>41 DEF Next, Source, EnterLoop, GuestRuns, Exits, Handlers, Stopped

\* DeliveryInv: nothing requeued after a faulted delivery is forgotten, and nothing that was
\* legal to inject stops being so before it is injected.
THEOREM DeliveryCorrect == Spec => []DeliveryInv
<1>1. Init => DeliveryInv
  BY InitDelivery
<1>2. TypeOK /\ DeliveryInv /\ [Next]_vars => DeliveryInv'
  BY DeliveryStep
<1> QED
  BY <1>1, <1>2, TypeCorrect, PTL DEF Spec

\* EntryMatchesQueues: the VM-entry field of every VM entry is what kvm_vcpu holds for the guest.
THEOREM EntryMatchesQueuesCorrect == Spec => []EntryMatchesQueues
<1>1. DeliveryInv => EntryMatchesQueues
  BY DEF DeliveryInv, HeldIsCarried, EntryMatchesQueues, InLoop
<1> QED
  BY <1>1, DeliveryCorrect, PTL

\* EntryIsLegal: no interleaving of injections, exits, SMM and task switches gives the CPU an
\* event its VM-entry checks refuse.
THEOREM EntryIsLegalCorrect == Spec => []EntryIsLegal
<1>1. DeliveryInv => EntryIsLegal
  BY DEF DeliveryInv, HeldIsCarried, HeldIsLegal, EntryIsLegal, InLoop
<1> QED
  BY <1>1, DeliveryCorrect, PTL
\* NeverInjectedAndPending: the WARN_ON_ONCE of kvm_check_and_inject_events cannot fire.
THEOREM NeverInjectedAndPendingCorrect == Spec => []NeverInjectedAndPending
<1>1. Init => NeverInjectedAndPending
  BY DEF Init, NeverInjectedAndPending, NoException
<1>2. TypeOK /\ NeverInjectedAndPending /\ [Next]_vars => NeverInjectedAndPending'
  <2> SUFFICES ASSUME HeldType, NeverInjectedAndPending, [Next]_vars
               PROVE  NeverInjectedAndPending'
    BY DEF TypeOK
  <2> USE DEF HeldType, NeverInjectedAndPending
  <2>1. ASSUME Source PROVE UNCHANGED exception
    BY <2>1 DEF Source, RaiseIrq, RaiseNmi, RaiseSmi, MakeRequest, Kick, held
  <2>2. CASE InjectException
    BY <2>2 DEF InjectException
  <2>3. CASE CancelInjection
    BY <2>3 DEF CancelInjection, complete_interrupts, NoException
  <2>4. ASSUME EnterLoop, ~InjectException, ~CancelInjection PROVE UNCHANGED exception
    BY <2>4 DEF EnterLoop, CheckTripleFault, CheckSmi, CheckNmi, CheckEvent, Reinject, SkipSmi,
       EnterSmm, SkipNmi, InjectNmi, SkipIrq, InjectIrq, EnterGuestMode, VmEnter, held
  <2>5. ASSUME GuestRuns PROVE UNCHANGED exception
    BY <2>5 DEF GuestRuns, Deliver, GuestFlags, Iret, held
  <2>6. ASSUME Exits PROVE UNCHANGED exception
    BY <2>6 DEF Exits, ExitExternal, ExitIrqWindow, ExitNmiWindow, ExitInstruction,
       ExitDelivering, ExitNativeException, ExitIret, Exit, held
  <2>7. CASE CompleteExit
    BY <2>7 DEF CompleteExit, complete_interrupts, NoException
  <2>8. CASE HandleFault
    BY <2>8 DEF HandleFault, MultipleException, Pending
  <2>9. CASE HandleTaskGate
    BY <2>9 DEF HandleTaskGate, task_gate, NoException
  <2>10. CASE TaskSwitchError
    BY <2>10 DEF TaskSwitchError, task_gate, NoException
  <2>11. ASSUME Handlers, ~CompleteExit, ~HandleFault, ~HandleTaskGate, ~TaskSwitchError PROVE UNCHANGED exception
    BY <2>11 DEF Handlers, DeliveryError, HandleExternal, HandleWindow, HandleEmulate, Emulated, Skipped,
       HandleEoi, HandleRsm, held
  <2>12. CASE UNCHANGED vars
    BY <2>12 DEF vars, held
  <2> QED
    BY <2>1, <2>2, <2>3, <2>4, <2>5, <2>6, <2>7, <2>8, <2>9, <2>10, <2>11, <2>12 DEF Next,
       Stopped
<1> QED
  BY <1>1, <1>2, TypeCorrect, PTL DEF Spec

\* The thread will look at its events again: it was asked to, or is to leave the guest at once.
Checks == "EVENT" \in requests \/ (pc \in {"enter", "check"} /\ req_immediate_exit)

\* Who has raised an interrupt or an NMI has not yet made its request.
Published(k) == k \in Sources /\ src[k] = "published"

(* A kick in guest mode is an IPI, an immediate exit comes with an event check,   *)
(* and a raised NMI or interrupt has its source or its request behind it.         *)
KickInv ==
  /\ mode = "EXITING" => ipi
  /\ pc = "guest" => mode # "OUTSIDE"
  /\ pc = "guest" /\ req_immediate_exit => "EVENT" \in requests
  /\ irr # {} => "irq" \in Sources
  /\ nmi_queued > 0 => "nmi" \in Sources /\ (Published("nmi") \/ "NMI" \in requests)

(* From the injection step that looked at it on, and all the way round the loop,  *)
(* a waiting event has a window or another look.                                  *)
WaitInv ==
  /\ pc \notin {"inject", "inject_smi", "stopped"} /\ smi_pending => smm \/ Checks
  /\ pc \notin {"inject", "inject_smi", "inject_nmi", "stopped"} /\ nmi_pending > 0 =>
       nmi_window \/ irq_window \/ Checks
  /\ /\ pc \notin {"inject", "inject_smi", "inject_nmi", "inject_irq", "stopped"}
     /\ Injectable(irr, isr) # {}
     => irq_window \/ Checks \/ Published("irq")

WakeupInv == KickInv /\ WaitInv /\ NoLostWakeup

\* No event waits at the start.
LEMMA InitWakeup == Init => WakeupInv
BY DEF Init, WakeupInv, KickInv, WaitInv, NoLostWakeup, Injectable

\* Every step keeps a waiting event accounted for.
LEMMA WakeupStep == TypeOK /\ WakeupInv /\ [Next]_vars => WakeupInv'
<1> SUFFICES ASSUME TypeOK, WakeupInv, [Next]_vars PROVE WakeupInv'
  OBVIOUS
<1> USE DEF TypeOK, LoopType, AsyncType, HeldType, WakeupInv, KickInv, WaitInv, NoLostWakeup, Checks,
            Published, Goto, loop, async, held, vmcs, guest
<1>1. ASSUME NEW v \in Vectors, RaiseIrq(v) PROVE WakeupInv'
  BY <1>1 DEF RaiseIrq
<1>2. CASE RaiseNmi  BY <1>2 DEF RaiseNmi
<1>3. CASE RaiseSmi  BY <1>3 DEF RaiseSmi
<1>4. ASSUME NEW k \in Sources, MakeRequest(k) PROVE WakeupInv'
  BY <1>4 DEF MakeRequest, RequestOf
<1>5. ASSUME NEW k \in Sources, Kick(k) PROVE WakeupInv'
  BY <1>5 DEF Kick
<1>6. CASE CheckTripleFault  BY <1>6 DEF CheckTripleFault
<1>7. CASE CheckSmi  BY <1>7 DEF CheckSmi, process_smi_requests
<1>8. CASE CheckNmi  BY <1>8 DEF CheckNmi, process_nmi, NmiTotal
<1>9. CASE CheckEvent  BY <1>9 DEF CheckEvent
<1>10. CASE InjectException  BY <1>10 DEF InjectException
<1>11. CASE Reinject  BY <1>11 DEF Reinject
<1>12. CASE SkipSmi  BY <1>12 DEF SkipSmi, Busy
<1>13. CASE EnterSmm  BY <1>13 DEF EnterSmm
<1>14. CASE SkipNmi  BY <1>14 DEF SkipNmi, Busy, vmx_enable_nmi_window
<1>15. CASE InjectNmi  BY <1>15 DEF InjectNmi, vmx_enable_nmi_window
<1>16. CASE SkipIrq  BY <1>16 DEF SkipIrq, Busy
<1>17. CASE InjectIrq  BY <1>17 DEF InjectIrq
<1>18. CASE EnterGuestMode  BY <1>18 DEF EnterGuestMode
<1>19. CASE CancelInjection  BY <1>19 DEF CancelInjection, complete_interrupts
<1>20. CASE VmEnter  BY <1>20 DEF VmEnter
<1>21. CASE Deliver  BY <1>21 DEF Deliver
<1>22. CASE GuestFlags  BY <1>22 DEF GuestFlags, GuestExecutes
<1>23. CASE Iret  BY <1>23 DEF Iret, GuestExecutes
<1>24. CASE ExitExternal  BY <1>24 DEF ExitExternal, Exit
<1>25. CASE ExitIrqWindow  BY <1>25 DEF ExitIrqWindow, Exit
<1>26. CASE ExitNmiWindow  BY <1>26 DEF ExitNmiWindow, Exit
<1>27. CASE ExitInstruction
  <2>1. /\ pc = "guest" /\ pc' = "exited"
        /\ UNCHANGED <<mode, requests, can_inject, req_immediate_exit, async, held, irq_window, nmi_window>>
    BY <1>27 DEF ExitInstruction, GuestExecutes, Exit
  <2> QED
    BY <2>1
<1>28. CASE ExitDelivering  BY <1>28 DEF ExitDelivering, Exit
<1>29. CASE ExitNativeException
  <2>1. /\ pc = "guest" /\ pc' = "exited"
        /\ UNCHANGED <<mode, requests, can_inject, req_immediate_exit, async, held, irq_window, nmi_window>>
    BY <1>29 DEF ExitNativeException, GuestExecutes, Exit
  <2> QED
    BY <2>1
<1>30. CASE ExitIret
  <2>1. /\ pc = "guest" /\ pc' = "exited"
        /\ UNCHANGED <<mode, requests, can_inject, req_immediate_exit, async, held, irq_window, nmi_window>>
    BY <1>30 DEF ExitIret, GuestExecutes, Exit
  <2> QED
    BY <2>1
<1>31. CASE CompleteExit  BY <1>31 DEF CompleteExit, complete_interrupts
<1>32. CASE DeliveryError  BY <1>32 DEF DeliveryError, Handled
<1>33. CASE HandleExternal  BY <1>33 DEF HandleExternal, Handled
<1>34. CASE HandleWindow  BY <1>34 DEF HandleWindow, Handled, window_requests
<1>35. CASE HandleFault  BY <1>35 DEF HandleFault, Handled
<1>36. CASE HandleEmulate  BY <1>36 DEF HandleEmulate, Emulated, Skipped, Handled
<1>37. CASE HandleEoi  BY <1>37 DEF HandleEoi, Handled, apic_set_eoi_requests
<1>38. CASE HandleRsm  BY <1>38 DEF HandleRsm, Handled
<1>39. CASE HandleTaskGate  BY <1>39 DEF HandleTaskGate, task_gate
<1>40. CASE TaskSwitchError  BY <1>40 DEF TaskSwitchError, task_gate
<1>41. CASE UNCHANGED vars  BY <1>41 DEF vars
<1> QED
  BY <1>1, <1>2, <1>3, <1>4, <1>5, <1>6, <1>7, <1>8, <1>9, <1>10, <1>11, <1>12, <1>13,
     <1>14, <1>15, <1>16, <1>17, <1>18, <1>19, <1>20, <1>21, <1>22, <1>23, <1>24, <1>25,
     <1>26, <1>27, <1>28, <1>29, <1>30, <1>31, <1>32, <1>33, <1>34, <1>35, <1>36, <1>37,
     <1>38, <1>39, <1>40, <1>41 DEF Next, Source, EnterLoop, GuestRuns, Exits, Handlers,
     Stopped

\* NoLostWakeup: whenever the guest runs, an event that waits for it has a window, an immediate
\* exit or a kick to come, however raising, requesting, kicking and injecting interleave.
THEOREM NoLostWakeupCorrect == Spec => []NoLostWakeup
<1>1. Init => WakeupInv
  BY InitWakeup
<1>2. TypeOK /\ WakeupInv /\ [Next]_vars => WakeupInv'
  BY WakeupStep
<1>3. WakeupInv => NoLostWakeup
  BY DEF WakeupInv
<1> QED
  BY <1>1, <1>2, <1>3, TypeCorrect, PTL DEF Spec

\* A held event is in the VM-entry field before the injection steps look for another one.
LEMMA EntryKept ==
  ASSUME TypeOK, DeliveryInv, Next
  PROVE  entry # NoEvent => entry' \in {entry, NoEvent}
<1> SUFFICES ASSUME entry # NoEvent PROVE entry' \in {entry, NoEvent}
  OBVIOUS
<1>0. /\ pc \in InLoop \cup {"guest"}
      /\ pc \in {"inject_smi", "inject_nmi", "inject_irq"} => ~can_inject
  BY DEF DeliveryInv, HeldIsCarried, InLoop
<1>1. CASE Source
  BY <1>1 DEF Source, RaiseIrq, RaiseNmi, RaiseSmi, MakeRequest, Kick, vmcs
<1>2. CASE EnterLoop
  BY <1>0, <1>2 DEF EnterLoop, CheckTripleFault, CheckSmi, CheckNmi, CheckEvent, InjectException,
     Reinject, SkipSmi, EnterSmm, SkipNmi, InjectNmi, SkipIrq, InjectIrq, EnterGuestMode,
     CancelInjection, VmEnter, InLoop, vmcs
<1>3. CASE GuestRuns
  BY <1>3 DEF GuestRuns, Deliver, GuestFlags, Iret, vmcs
<1>4. CASE Exits
  BY <1>4 DEF Exits, ExitExternal, ExitIrqWindow, ExitNmiWindow, ExitInstruction, ExitDelivering,
     ExitNativeException, ExitIret, Exit
<1>5. CASE Handlers
  BY <1>5 DEF Handlers, CompleteExit, DeliveryError, HandleExternal, HandleWindow, HandleFault,
     HandleEmulate, Emulated, Skipped, HandleEoi, HandleRsm, HandleTaskGate, TaskSwitchError, task_gate
<1>6. CASE Stopped
  BY <1>6 DEF Stopped, vars, vmcs
<1> QED
  BY <1>1, <1>2, <1>3, <1>4, <1>5, <1>6 DEF Next

\* NoOverwrite: whatever is raised, requested or injected next, the event in the VM-entry field is
\* delivered, cancelled or taken back before another one is written over it.
THEOREM NoOverwriteCorrect == Spec => NoOverwrite
<1>1. TypeOK /\ DeliveryInv /\ [Next]_vars => [entry # NoEvent => entry' \in {entry, NoEvent}]_vars
  <2> SUFFICES ASSUME TypeOK, DeliveryInv, [Next]_vars, ~(UNCHANGED vars)
               PROVE  entry # NoEvent => entry' \in {entry, NoEvent}
    OBVIOUS
  <2> QED
    BY EntryKept
<1> QED
  BY <1>1, TypeCorrect, DeliveryCorrect, PTL DEF Spec, NoOverwrite

(* Where KVM's view of the guest's NMI mask is sound.  With virtual NMIs the cache             *)
(* nmi_known_unmasked goes stale when an IRET faults on an EPT violation, and both an          *)
(* exception in a later IRET and an SMI look at it; without them the mask is given up when the *)
(* guest opens interrupts in its handler or stays there for a second, and SMM is not covered.  *)
NmiTracked ==
  IF EnableVnmi
  THEN "ept" \in IretFaults => "exc" \notin IretFaults /\ "smi" \notin Sources
  ELSE PoliteGuest /\ "smi" \notin Sources

\* NMIs are masked for the injection steps.
NmiMasked == IF EnableVnmi THEN nmi_blocking ELSE soft_vnmi_blocked

\* An IRET that faulted has unmasked NMIs, and the exit path has not yet masked them again.
IretUndone ==
  \/ pc = "exited" /\ exit_reason = "iret_exc"
  \/ pc \in {"exited", "handle"} /\ exit_reason = "iret_ept"

\* Only a source of SMIs leads into SMM.
SmiInv == smm \/ smi_pending \/ "SMI" \in requests => "smi" \in Sources

\* The exits that look at the state they were taken in.
ReasonInv ==
  pc \in {"exited", "handle"} =>
    /\ exit_reason = "rsm" => smm
    /\ exit_reason = "task_gate" => vectoring # NoEvent
    /\ exit_reason = "iret_ept" => "ept" \in IretFaults
    /\ exit_reason = "iret_exc" => "exc" \in IretFaults
    /\ exit_reason \in {"rsm", "eoi"} => vectoring = NoEvent

\* An NMI in flight was accepted outside the NMI handler and SMM, with the mask ready for it.
FlightInv ==
  /\ Flight.type = "nmi" => ~inNmi /\ ~smm
  /\ entry.type = "nmi" => ~nmi_known_unmasked /\ (EnableVnmi \/ soft_vnmi_blocked)

(* In the NMI handler and in SMM NMIs are masked; the cache and the flag saved by an SMI agree *)
(* with that; without virtual NMIs the handler keeps interrupts off.                           *)
MaskInv ==
  /\ inNmi \/ smm => NmiMasked \/ (EnableVnmi /\ IretUndone)
  /\ smm /\ inNmi => smm_inside_nmi
  /\ EnableVnmi /\ "ept" \notin IretFaults =>
       /\ nmi_known_unmasked => ~nmi_blocking
       /\ pc = "exited" /\ exit_reason = "iret_exc" => ~nmi_known_unmasked
  /\ ~EnableVnmi /\ inNmi => ~rflags_if

NmiInv == SmiInv /\ ReasonInv /\ FlightInv /\ MaskInv

\* Nothing is masked and nothing is in flight at the start.
LEMMA InitNmi == Init => NmiInv
BY DEF Init, NmiInv, SmiInv, ReasonInv, FlightInv, MaskInv, IretUndone, Flight, Held, NoEvent,
   NoException, NoInterrupt

\* Every step keeps KVM's view of the NMI mask in agreement with the guest's handler.
LEMMA NmiStep ==
  ASSUME NmiTracked, TypeOK, DeliveryInv, NmiInv, [Next]_vars
  PROVE  NmiInv'
<1>a. /\ NoEvent.type = "none" /\ NmiEvent.type = "nmi"
      /\ \A v : ExcEvent(v).type = "exc" /\ IrqEvent(v).type = "irq"
      /\ \A v : ExcEvent(v) # NoEvent
  BY DEF NoEvent, NmiEvent, ExcEvent, IrqEvent
<1>b. Held.type = "nmi" <=> ~exception.pending /\ ~exception.injected /\ nmi_injected
  BY <1>a DEF Held
<1>c. Held'.type = "nmi" <=> ~exception'.pending /\ ~exception'.injected /\ nmi_injected'
  BY <1>a DEF Held
<1> USE <1>a, <1>b, <1>c DEF NmiTracked, TypeOK, LoopType, HeldType, VmcsType, GuestType, DeliveryInv,
            HeldIsCarried, ExitPutsBack, Requeued, InLoop, NmiInv, SmiInv, ReasonInv, FlightInv,
            MaskInv, NmiMasked, IretUndone, Flight, Goto, loop, async, held, vmcs, guest
<1>1. ASSUME NEW v \in Vectors, RaiseIrq(v) PROVE NmiInv'
  BY <1>1 DEF RaiseIrq
<1>2. CASE RaiseNmi
  BY <1>2 DEF RaiseNmi
<1>3. CASE RaiseSmi
  BY <1>3 DEF RaiseSmi
<1>4. ASSUME NEW k \in Sources, MakeRequest(k) PROVE NmiInv'
  <2>1. RequestOf(k) = "SMI" => k = "smi"
    BY ParamsAssumption DEF RequestOf
  <2> QED
    BY <1>4, <2>1 DEF MakeRequest
<1>5. ASSUME NEW k \in Sources, Kick(k) PROVE NmiInv'
  BY <1>5 DEF Kick
<1>6. CASE CheckTripleFault
  BY <1>6 DEF CheckTripleFault
<1>7. CASE CheckSmi
  BY <1>7 DEF CheckSmi, process_smi_requests
<1>8. CASE CheckNmi
  BY <1>8 DEF CheckNmi, process_nmi, NmiTotal
<1>9. CASE CheckEvent
  BY <1>9 DEF CheckEvent
<1>10. CASE InjectException
  BY <1>10 DEF InjectException
<1>11. CASE Reinject
  BY <1>11 DEF Reinject, vmx_inject_nmi
<1>12. CASE SkipSmi
  BY <1>12 DEF SkipSmi, Busy
<1>13. CASE EnterSmm
  BY <1>13 DEF EnterSmm, vmx_get_nmi_mask, vmx_set_nmi_mask
<1>14. CASE SkipNmi
  BY <1>14 DEF SkipNmi, Busy, vmx_enable_nmi_window
<1>15. CASE InjectNmi
  BY <1>15 DEF InjectNmi, vmx_inject_nmi, vmx_nmi_blocked, vmx_enable_nmi_window
<1>16. CASE SkipIrq
  BY <1>16 DEF SkipIrq, Busy
<1>17. CASE InjectIrq
  BY <1>17 DEF InjectIrq
<1>18. CASE EnterGuestMode
  BY <1>18 DEF EnterGuestMode
<1>19. CASE CancelInjection
  BY <1>19 DEF CancelInjection, complete_interrupts, vmx_set_nmi_mask
<1>20. CASE VmEnter
  BY <1>20 DEF VmEnter
<1>21. CASE Deliver
  BY <1>21 DEF Deliver
<1>22. CASE GuestFlags
  BY <1>22 DEF GuestFlags, GuestExecutes, MayEnableIf
<1>23. CASE Iret
  BY <1>23 DEF Iret, GuestExecutes
<1>24. CASE ExitExternal
  BY <1>24 DEF ExitExternal, Exit
<1>25. CASE ExitIrqWindow
  BY <1>25 DEF ExitIrqWindow, Exit
<1>26. CASE ExitNmiWindow
  BY <1>26 DEF ExitNmiWindow, Exit
<1>27. CASE ExitInstruction
  BY <1>27 DEF ExitInstruction, Exit, GuestExecutes
<1>28. CASE ExitDelivering
  BY <1>28 DEF ExitDelivering, Exit
<1>29. CASE ExitNativeException
  BY <1>29 DEF ExitNativeException, Exit, GuestExecutes
<1>30. CASE ExitIret
  BY <1>30 DEF ExitIret, Exit, GuestExecutes
<1>31. CASE CompleteExit
  BY <1>31 DEF CompleteExit, complete_interrupts, vmx_set_nmi_mask, NmiRecovered
<1>32. CASE DeliveryError
  BY <1>32 DEF DeliveryError, Handled
<1>33. CASE HandleExternal
  BY <1>33 DEF HandleExternal, Handled, soft_vnmi, vmx_interrupt_blocked, MayEnableIf
<1>34. CASE HandleWindow
  BY <1>34 DEF HandleWindow, Handled, soft_vnmi, vmx_interrupt_blocked, window_requests,
     MayEnableIf
<1>35. CASE HandleFault
  BY <1>35 DEF HandleFault, Handled, soft_vnmi, vmx_interrupt_blocked,
     MultipleExceptionRequests, MayEnableIf
<1>36. CASE HandleEmulate
  BY <1>36 DEF HandleEmulate, Emulated, Skipped, Handled, soft_vnmi, vmx_interrupt_blocked, MayEnableIf
<1>37. CASE HandleEoi
  BY <1>37 DEF HandleEoi, Handled, soft_vnmi, vmx_interrupt_blocked, apic_set_eoi_requests,
     MayEnableIf
<1>38. CASE HandleRsm
  BY <1>38 DEF HandleRsm, Handled, vmx_set_nmi_mask, soft_vnmi, vmx_interrupt_blocked,
     MayEnableIf
<1>39. CASE HandleTaskGate
  BY <1>39 DEF HandleTaskGate, task_gate, vmx_set_nmi_mask, soft_vnmi, vmx_interrupt_blocked,
     MayEnableIf
<1>40. CASE TaskSwitchError
  BY <1>40 DEF TaskSwitchError, task_gate, vmx_set_nmi_mask, soft_vnmi, vmx_interrupt_blocked,
     MayEnableIf
<1>41. CASE UNCHANGED vars
  BY <1>41 DEF vars
<1> QED
  BY <1>1, <1>2, <1>3, <1>4, <1>5, <1>6, <1>7, <1>8, <1>9, <1>10, <1>11, <1>12, <1>13, <1>14,
     <1>15, <1>16, <1>17, <1>18, <1>19, <1>20, <1>21, <1>22, <1>23, <1>24, <1>25, <1>26, <1>27,
     <1>28, <1>29, <1>30, <1>31, <1>32, <1>33, <1>34, <1>35, <1>36, <1>37, <1>38, <1>39, <1>40,
     <1>41 DEF Next, Source, EnterLoop, GuestRuns, Exits, Handlers, Stopped

\* NmiInv: KVM's view of the NMI mask agrees with the guest's NMI handler at every VM entry.
THEOREM NmiCorrect == ASSUME NmiTracked PROVE Spec => []NmiInv
<1>1. Init => NmiInv
  BY InitNmi
<1>2. TypeOK /\ DeliveryInv /\ NmiInv /\ [Next]_vars => NmiInv'
  BY NmiStep
<1> QED
  BY <1>1, <1>2, TypeCorrect, DeliveryCorrect, PTL DEF Spec

\* NoNestedNmi: wherever KVM tracks the mask, no injection, window, fault or SMI puts a second NMI
\* into a handler the guest has not left.
THEOREM NoNestedNmiCorrect == ASSUME NmiTracked PROVE Spec => NoNestedNmi
<1>1. NmiInv /\ [Next]_vars => [entry.type = "nmi" /\ pc = "guest" /\ inNmi' => ~inNmi]_vars
  BY DEF NmiInv, FlightInv, Flight
<1> QED
  BY <1>1, NmiCorrect, PTL DEF Spec, NoNestedNmi

\* apic_set_eoi: the vectors in service that are below another one are all but the highest.
LEMMA EoiEndsOne ==
  ASSUME NEW S \in SUBSET Vectors
  PROVE  {s \in S : \E t \in S : t > s} \in {S} \cup {S \ {s} : s \in S}
<1>1. CASE S = {}
  BY <1>1
<1>2. CASE S # {}
  <2> DEFINE T == {255 - s : s \in S}
  <2>0. \A s \in S : s \in Nat /\ s <= 255
    BY ParamsAssumption
  <2>1. T \subseteq Nat /\ T # {}
    BY <1>2, <2>0
  <2>2. PICK m \in T : \A y \in T : ~(<<y, m>> \in OpToRel(<, Nat))
    BY <2>1, NatLessThanWellFounded, WFMin
  <2>3. \A y \in T : ~(y < m)
    BY <2>1, <2>2 DEF OpToRel
  <2>4. PICK x \in S : m = 255 - x
    BY <2>2
  <2>5. \A s \in S : s <= x
    BY <2>0, <2>3, <2>4
  <2>6. {s \in S : \E t \in S : t > s} = S \ {x}
    BY <2>0, <2>5
  <2> QED
    BY <2>6
<1> QED
  BY <1>1, <1>2

\* The promise starts as KVM starts: nothing raised, nothing in flight, the guest at its reset state.
LEMMA InitDelivers == Init => Promise!AInit
<1> SUFFICES ASSUME Init PROVE Promise!AInit
  OBVIOUS
<1>1. Flight = NoEvent
  BY DEF Init, Flight, Held, NoException, NoInterrupt
<1>2. ~NmiRaised /\ ~SmiRaised
  BY DEF Init, NmiRaised, SmiRaised
<1> QED
  BY <1>1, <1>2 DEF Init, Promise!AInit, Promise!NoEvent, NoEvent

\* A step that changes nothing the guest can see.
LEMMA StutterDelivers ==
  ASSUME UNCHANGED <<irr, isr, rflags_if, shadow, inNmi, smm>>, Flight' = Flight,
         NmiRaised' = NmiRaised, SmiRaised' = SmiRaised, pc' = "stopped" <=> pc = "stopped"
  PROVE  UNCHANGED Promise!avars
BY DEF Promise!avars

\* kvm_multiple_exception and the architecture agree on what makes a double fault.
LEMMA DoubleFaultTable ==
  ASSUME NEW p \in ExcVectors, NEW c \in ExcVectors, p # DF
  PROVE  Promise!DoubleFault(p, c) <=>
           \/ exception_class(p) = "contributory" /\ exception_class(c) = "contributory"
           \/ exception_class(p) = "pf" /\ exception_class(c) # "benign"
<1>1. \A v : /\ exception_class(v) = "pf" <=> v = 14
             /\ exception_class(v) = "contributory" <=> v \in {0, 10, 11, 12, 13}
             /\ exception_class(v) # "benign" <=> v \in {0, 10, 11, 12, 13, 14}
  BY DEF exception_class, PF
<1> QED
  BY <1>1 DEF Promise!DoubleFault, Promise!Contributory

\* What a step of KVM is to the guest: a step of the promise, or nothing.
Simulated == [Promise!ANext]_(Promise!avars)

\* Every step of KVM keeps the promise.
LEMMA StepDelivers ==
  ASSUME NmiTracked, TypeOK, DeliveryInv, NmiInv, [Next]_vars
  PROVE  Simulated
<1>a. /\ NoEvent.type = "none" /\ NmiEvent.type = "nmi"
      /\ \A v : ExcEvent(v).type = "exc" /\ IrqEvent(v).type = "irq"
      /\ \A v : ExcEvent(v) # NoEvent /\ IrqEvent(v) # NoEvent
  BY DEF NoEvent, NmiEvent, ExcEvent, IrqEvent
<1> USE <1>a DEF TypeOK, LoopType, HeldType, AsyncType, VmcsType, GuestType, DeliveryInv,
            HeldIsCarried, ExitPutsBack, Requeued, InLoop, NmiInv, ReasonInv, Goto, loop, async,
            held, vmcs, guest
<1>1. ASSUME NEW v \in Vectors, RaiseIrq(v) PROVE Simulated
  BY <1>1 DEF RaiseIrq, Simulated, Flight, Held, NmiRaised, SmiRaised, Promise!ANext,
     Promise!ARaiseIrq
<1>2. CASE RaiseNmi
  BY <1>2 DEF RaiseNmi, Simulated, Flight, Held, NmiRaised, SmiRaised, Promise!ANext,
     Promise!ARaiseNmi
<1>3. CASE RaiseSmi
  BY <1>3 DEF RaiseSmi, Simulated, Flight, Held, NmiRaised, SmiRaised, Promise!ANext,
     Promise!ARaiseSmi
<1>4. ASSUME NEW k \in Sources, MakeRequest(k) PROVE Simulated
  <2>1. RequestOf(k) = "SMI" <=> k = "smi"
    BY ParamsAssumption DEF RequestOf
  <2>2. Flight' = Flight /\ NmiRaised' = NmiRaised /\ SmiRaised' = SmiRaised
    BY <1>4, <2>1 DEF MakeRequest, Flight, Held, NmiRaised, SmiRaised
  <2> QED
    BY <1>4, <2>2, StutterDelivers DEF MakeRequest, RequestOf, Simulated
<1>5. ASSUME NEW k \in Sources, Kick(k) PROVE Simulated
  <2>1. Flight' = Flight /\ NmiRaised' = NmiRaised /\ SmiRaised' = SmiRaised
    BY <1>5 DEF Kick, Flight, Held, NmiRaised, SmiRaised
  <2> QED
    BY <1>5, <2>1, StutterDelivers DEF Kick, Simulated
<1>6. CASE CheckTripleFault
  <2>1. /\ Flight' = Flight /\ NmiRaised' = NmiRaised /\ SmiRaised' = SmiRaised
        /\ UNCHANGED <<irr, isr, rflags_if, shadow, inNmi, smm>>
    BY <1>6 DEF CheckTripleFault, Flight, Held, NmiRaised, SmiRaised
  <2>2. CASE "TRIPLE_FAULT" \in requests
    BY <1>6, <2>1, <2>2 DEF CheckTripleFault, Simulated, Promise!ANext, Promise!AStop
  <2>3. CASE "TRIPLE_FAULT" \notin requests
    BY <1>6, <2>1, <2>3, StutterDelivers DEF CheckTripleFault, Simulated
  <2> QED
    BY <2>2, <2>3
<1>7. CASE CheckSmi
  <2>1. Flight' = Flight /\ NmiRaised' = NmiRaised /\ SmiRaised' = SmiRaised
    BY <1>7 DEF CheckSmi, process_smi_requests, Flight, Held, NmiRaised, SmiRaised
  <2> QED
    BY <1>7, <2>1, StutterDelivers DEF CheckSmi, process_smi_requests, Simulated
<1>8. CASE CheckNmi
  <2>1. Flight' = Flight /\ NmiRaised' = NmiRaised /\ SmiRaised' = SmiRaised
    BY <1>8 DEF CheckNmi, process_nmi, NmiTotal, NmiLimit, Flight, Held, NmiRaised, SmiRaised
  <2> QED
    BY <1>8, <2>1, StutterDelivers DEF CheckNmi, process_nmi, NmiTotal, NmiLimit, Simulated
<1>9. CASE CheckEvent
  <2>1. Flight' = Flight /\ NmiRaised' = NmiRaised /\ SmiRaised' = SmiRaised
    BY <1>9 DEF CheckEvent, Flight, Held, NmiRaised, SmiRaised
  <2> QED
    BY <1>9, <2>1, StutterDelivers DEF CheckEvent, Simulated
<1>10. CASE InjectException
  <2>1. Flight' = Flight /\ NmiRaised' = NmiRaised /\ SmiRaised' = SmiRaised
    BY <1>10 DEF InjectException, Flight, Held, NmiRaised, SmiRaised
  <2> QED
    BY <1>10, <2>1, StutterDelivers DEF InjectException, Simulated
<1>11. CASE Reinject
  <2>1. Flight' = Flight /\ NmiRaised' = NmiRaised /\ SmiRaised' = SmiRaised
    BY <1>11 DEF Reinject, Flight, Held, NmiRaised, SmiRaised
  <2> QED
    BY <1>11, <2>1, StutterDelivers DEF Reinject, Simulated
<1>12. CASE SkipSmi
  <2>1. Flight' = Flight /\ NmiRaised' = NmiRaised /\ SmiRaised' = SmiRaised
    BY <1>12 DEF SkipSmi, Busy, Flight, Held, NmiRaised, SmiRaised
  <2> QED
    BY <1>12, <2>1, StutterDelivers DEF SkipSmi, Busy, Simulated
<1>13. CASE EnterSmm
  <2>1. Flight = NoEvent /\ Flight' = NoEvent
    BY <1>13 DEF EnterSmm, Flight, Held
  <2>2. NmiRaised' = NmiRaised /\ SmiRaised /\ SmiRaised' \in BOOLEAN
    BY <1>13 DEF EnterSmm, NmiRaised, SmiRaised
  <2>3. Promise!AAcceptSmi
    BY <1>13, <2>1, <2>2 DEF EnterSmm, Promise!AAcceptSmi, Promise!NoEvent, NoEvent
  <2> QED
    BY <2>3 DEF Simulated, Promise!ANext
<1>14. CASE SkipNmi
  <2>1. Flight' = Flight /\ NmiRaised' = NmiRaised /\ SmiRaised' = SmiRaised
    BY <1>14 DEF SkipNmi, Busy, Flight, Held, NmiRaised, SmiRaised
  <2> QED
    BY <1>14, <2>1, StutterDelivers DEF SkipNmi, Busy, Simulated
<1>15. CASE InjectNmi
  <2>1. Flight = NoEvent /\ Flight' = NmiEvent
    BY <1>15 DEF InjectNmi, vmx_nmi_blocked, vmx_inject_nmi, MaskInv, FlightInv, NmiMasked,
       IretUndone, NmiTracked, Flight, Held
  <2>2. NmiRaised /\ NmiRaised' \in BOOLEAN /\ SmiRaised' = SmiRaised
    BY <1>15 DEF InjectNmi, vmx_nmi_blocked, vmx_inject_nmi, MaskInv, FlightInv, NmiMasked,
       IretUndone, NmiTracked, NmiRaised, SmiRaised
  <2>3. Promise!AAcceptNmi
    BY <1>15, <2>1, <2>2 DEF InjectNmi, vmx_nmi_blocked, vmx_inject_nmi, MaskInv, FlightInv,
       NmiMasked, IretUndone, NmiTracked, Promise!AAcceptNmi, Promise!NoEvent, NoEvent,
       Promise!NmiEvent, NmiEvent
  <2> QED
    BY <2>3 DEF Simulated, Promise!ANext
<1>16. CASE SkipIrq
  <2>1. Flight' = Flight /\ NmiRaised' = NmiRaised /\ SmiRaised' = SmiRaised
    BY <1>16 DEF SkipIrq, Busy, Flight, Held, NmiRaised, SmiRaised
  <2> QED
    BY <1>16, <2>1, StutterDelivers DEF SkipIrq, Busy, Simulated
<1>17. CASE InjectIrq
  <2>1. PICK v \in Injectable(irr, isr) :
          /\ irr' = irr \ {v} /\ isr' = isr \cup {v}
          /\ interrupt' = [injected |-> TRUE, nr |-> v] /\ entry' = IrqEvent(v)
    BY <1>17 DEF InjectIrq
  <2>2. Flight = NoEvent
    BY <1>17 DEF InjectIrq, Flight
  <2>3. ~exception.pending /\ ~exception.injected /\ ~nmi_injected
    BY <1>17 DEF InjectIrq, Held, NmiEvent, NoEvent, ExcEvent
  <2>4. Flight' = IrqEvent(v)
    BY <1>17, <2>1, <2>3 DEF InjectIrq, Flight, Held
  <2>5. v \in Vectors /\ Promise!Serviceable(v)
    BY <2>1 DEF Injectable, Promise!Serviceable
  <2>6. Promise!AAcceptIrq(v)
    BY <1>17, <2>1, <2>2, <2>4, <2>5 DEF InjectIrq, vmx_interrupt_blocked, NmiRaised, SmiRaised,
       Promise!AAcceptIrq, Promise!NoEvent, Promise!IrqEvent, NoEvent, IrqEvent
  <2> QED
    BY <2>5, <2>6 DEF Simulated, Promise!ANext
<1>18. CASE EnterGuestMode
  <2>1. Flight' = Flight /\ NmiRaised' = NmiRaised /\ SmiRaised' = SmiRaised
    BY <1>18 DEF EnterGuestMode, Flight, Held, NmiRaised, SmiRaised
  <2> QED
    BY <1>18, <2>1, StutterDelivers DEF EnterGuestMode, Simulated
<1>19. CASE CancelInjection
  <2>0. entry \in Event /\ Flight = entry
    BY <1>19 DEF CancelInjection, Flight
  <2>1. Flight' = entry
    BY <1>19, <2>0, EventCases DEF CancelInjection, complete_interrupts, NoException,
       NoInterrupt, Flight, Held
  <2>2. NmiRaised' = NmiRaised /\ SmiRaised' = SmiRaised
    BY <1>19 DEF CancelInjection, complete_interrupts, NmiRaised, SmiRaised
  <2> QED
    BY <1>19, <2>0, <2>1, <2>2, StutterDelivers DEF CancelInjection, complete_interrupts,
       Simulated
<1>20. CASE VmEnter
  <2>1. Flight' = Flight /\ NmiRaised' = NmiRaised /\ SmiRaised' = SmiRaised
    BY <1>20 DEF VmEnter, Flight, Held, NmiRaised, SmiRaised
  <2> QED
    BY <1>20, <2>1, StutterDelivers DEF VmEnter, Simulated
<1>21. CASE Deliver
  <2>1. Flight = entry /\ Flight' = NoEvent
    BY <1>21 DEF Deliver, Flight, Held
  <2>2. NmiRaised' = NmiRaised /\ SmiRaised' = SmiRaised
    BY <1>21 DEF Deliver, NmiRaised, SmiRaised
  <2>3. Promise!ADeliver
    BY <1>21, <2>1, <2>2 DEF Deliver, Promise!ADeliver, Promise!NoEvent, NoEvent
  <2> QED
    BY <2>3 DEF Simulated, Promise!ANext
<1>22. CASE GuestFlags
  <2>1. Flight = NoEvent /\ Flight' = NoEvent
    BY <1>22 DEF GuestFlags, GuestExecutes, MayEnableIf, Flight, Held
  <2>2. NmiRaised' = NmiRaised /\ SmiRaised' = SmiRaised
    BY <1>22 DEF GuestFlags, GuestExecutes, MayEnableIf, NmiRaised, SmiRaised
  <2>3. Promise!AGuest
    BY <1>22, <2>1, <2>2 DEF GuestFlags, GuestExecutes, MayEnableIf, Promise!AGuest,
       Promise!NoEvent, NoEvent
  <2> QED
    BY <2>3 DEF Simulated, Promise!ANext
<1>23. CASE Iret
  <2>1. Flight = NoEvent /\ Flight' = NoEvent
    BY <1>23 DEF Iret, GuestExecutes, Flight, Held
  <2>2. NmiRaised' = NmiRaised /\ SmiRaised' = SmiRaised
    BY <1>23 DEF Iret, GuestExecutes, NmiRaised, SmiRaised
  <2>3. Promise!AGuest
    BY <1>23, <2>1, <2>2 DEF Iret, GuestExecutes, Promise!AGuest, Promise!NoEvent, NoEvent
  <2> QED
    BY <2>3 DEF Simulated, Promise!ANext
<1>24. CASE ExitExternal
  <2>1. Flight' = Flight /\ NmiRaised' = NmiRaised /\ SmiRaised' = SmiRaised
    BY <1>24 DEF ExitExternal, Exit, Flight, Held, NmiRaised, SmiRaised
  <2> QED
    BY <1>24, <2>1, StutterDelivers DEF ExitExternal, Exit, Simulated
<1>25. CASE ExitIrqWindow
  <2>1. Flight' = Flight /\ NmiRaised' = NmiRaised /\ SmiRaised' = SmiRaised
    BY <1>25 DEF ExitIrqWindow, Exit, Flight, Held, NmiRaised, SmiRaised
  <2> QED
    BY <1>25, <2>1, StutterDelivers DEF ExitIrqWindow, Exit, Simulated
<1>26. CASE ExitNmiWindow
  <2>1. Flight' = Flight /\ NmiRaised' = NmiRaised /\ SmiRaised' = SmiRaised
    BY <1>26 DEF ExitNmiWindow, Exit, Flight, Held, NmiRaised, SmiRaised
  <2> QED
    BY <1>26, <2>1, StutterDelivers DEF ExitNmiWindow, Exit, Simulated
<1>27. CASE ExitInstruction
  <2>1. Flight' = Flight /\ NmiRaised' = NmiRaised /\ SmiRaised' = SmiRaised
    BY <1>27 DEF ExitInstruction, Exit, GuestExecutes, Flight, Held, NmiRaised, SmiRaised
  <2> QED
    BY <1>27, <2>1, StutterDelivers DEF ExitInstruction, Exit, GuestExecutes, Simulated
<1>28. CASE ExitDelivering
  <2>1. Flight' = Flight /\ NmiRaised' = NmiRaised /\ SmiRaised' = SmiRaised
    BY <1>28 DEF ExitDelivering, Exit, Flight, Held, NmiRaised, SmiRaised
  <2> QED
    BY <1>28, <2>1, StutterDelivers DEF ExitDelivering, Exit, Simulated
<1>29. CASE ExitNativeException
  <2>1. PICK c \in ExcVectors : vectoring' = ExcEvent(c)
    BY <1>29 DEF ExitNativeException, Exit
  <2>2. Flight = NoEvent /\ Flight' = ExcEvent(c)
    BY <1>29, <2>1 DEF ExitNativeException, GuestExecutes, Exit, Flight
  <2>3. Promise!ARaiseException(c)
    BY <1>29, <2>2 DEF ExitNativeException, GuestExecutes, Exit, NmiRaised, SmiRaised,
       Promise!ARaiseException, Promise!ExcEvent, ExcEvent
  <2> QED
    BY <2>3 DEF Simulated, Promise!ANext
<1>30. CASE ExitIret
  <2>1. Flight' = Flight /\ NmiRaised' = NmiRaised /\ SmiRaised' = SmiRaised
    BY <1>30 DEF ExitIret, Exit, GuestExecutes, Flight, Held, NmiRaised, SmiRaised
  <2> QED
    BY <1>30, <2>1, StutterDelivers DEF ExitIret, Exit, GuestExecutes, Simulated
<1>31. CASE CompleteExit
  <2>0. vectoring \in Event /\ Flight = vectoring
    BY <1>31 DEF CompleteExit, Flight
  <2>1. Flight' = vectoring
    BY <1>31, <2>0, EventCases DEF CompleteExit, complete_interrupts, NoException,
       NoInterrupt, Flight, Held
  <2>2. NmiRaised' = NmiRaised /\ SmiRaised' = SmiRaised
    BY <1>31 DEF CompleteExit, complete_interrupts, NmiRaised, SmiRaised
  <2> QED
    BY <1>31, <2>0, <2>1, <2>2, StutterDelivers DEF CompleteExit, complete_interrupts, Simulated
<1>32. CASE DeliveryError
  <2>1. Flight' = Flight /\ NmiRaised' = NmiRaised /\ SmiRaised' = SmiRaised
    BY <1>32 DEF DeliveryError, Handled, Goto, Flight, Held, NmiRaised, SmiRaised
  <2> QED
    BY <1>32, <2>1, StutterDelivers DEF DeliveryError, Handled, Goto, Simulated
<1>33. CASE HandleExternal
  <2>1. Flight' = Flight /\ NmiRaised' = NmiRaised /\ SmiRaised' = SmiRaised
    BY <1>33 DEF HandleExternal, Handled, Flight, Held, NmiRaised, SmiRaised
  <2> QED
    BY <1>33, <2>1, StutterDelivers DEF HandleExternal, Handled, Simulated
<1>34. CASE HandleWindow
  <2>1. Flight' = Flight /\ NmiRaised' = NmiRaised /\ SmiRaised' = SmiRaised
    BY <1>34 DEF HandleWindow, Handled, window_requests, Flight, Held, NmiRaised, SmiRaised
  <2> QED
    BY <1>34, <2>1, StutterDelivers DEF HandleWindow, Handled, window_requests, Simulated
<1>35. CASE HandleFault
  <2>1. /\ NmiRaised' = NmiRaised /\ SmiRaised' = SmiRaised
        /\ UNCHANGED <<irr, isr, rflags_if, shadow, inNmi, smm, interrupt, nmi_injected>>
        /\ pc = "handle" /\ pc' = "req_tf"
    BY <1>35 DEF HandleFault, Handled, MultipleExceptionRequests, NmiRaised, SmiRaised
  <2>2. CASE exception' = exception
    <3>1. Flight' = Flight
      BY <2>1, <2>2 DEF Flight, Held
    <3> QED
      BY <2>1, <3>1, StutterDelivers DEF Simulated
  <2>3. ASSUME NEW c \in ExcVectors, exception' = MultipleException(c), exception' # exception
        PROVE  Simulated
    <3>1. Flight = Held /\ Flight' = ExcEvent(exception'.vector)
      BY <2>1, <2>3 DEF Flight, Held, MultipleException, Pending
    <3>2. ~exception.pending /\ (exception.injected => exception.vector # DF)
      BY <2>1, <2>3 DEF MultipleException
    <3>3. Flight.type = "exc" => exception.injected /\ Flight.vec = exception.vector
      BY <3>1, <3>2 DEF Held, ExcEvent
    <3>4. Flight.type # "exc" => ~exception.injected
      BY <3>1 DEF Held
    <3>5. exception'.vector =
            IF Flight.type = "exc" /\ Promise!DoubleFault(Flight.vec, c) THEN DF ELSE c
      BY <2>3, <3>2, <3>3, <3>4, DoubleFaultTable DEF MultipleException, Pending
    <3>6. Promise!ARaiseException(c)
      BY <2>1, <3>1, <3>2, <3>3, <3>5 DEF Promise!ARaiseException, Promise!ExcEvent, ExcEvent, DF
    <3> QED
      BY <3>6 DEF Simulated, Promise!ANext
  <2> QED
    BY <1>35, <2>2, <2>3 DEF HandleFault
<1>36. CASE HandleEmulate
  <2>1. Flight = NoEvent /\ Flight' = NoEvent
    BY <1>36 DEF HandleEmulate, Emulated, Skipped, Handled, MayEnableIf, Flight, Held
  <2>2. NmiRaised' = NmiRaised /\ SmiRaised' = SmiRaised
    BY <1>36 DEF HandleEmulate, Emulated, Skipped, Handled, MayEnableIf, NmiRaised, SmiRaised
  <2>3. Promise!AGuest
    BY <1>36, <2>1, <2>2 DEF HandleEmulate, Emulated, Skipped, Handled, MayEnableIf, Promise!AGuest,
       Promise!NoEvent, NoEvent
  <2> QED
    BY <2>3 DEF Simulated, Promise!ANext
<1>37. CASE HandleEoi
  <2>1. Flight = NoEvent /\ Flight' = NoEvent
    BY <1>37 DEF HandleEoi, Handled, Flight, Held
  <2>2. isr' \in {isr} \cup {isr \ {s} : s \in isr}
    BY <1>37, EoiEndsOne DEF HandleEoi
  <2>3. Promise!AGuest
    BY <1>37, <2>1, <2>2 DEF HandleEoi, Handled, apic_set_eoi_requests, NmiRaised, SmiRaised,
       Promise!AGuest, Promise!NoEvent, NoEvent
  <2> QED
    BY <2>3 DEF Simulated, Promise!ANext
<1>38. CASE HandleRsm
  <2>1. Flight = NoEvent /\ Flight' = NoEvent
    BY <1>38 DEF HandleRsm, Handled, MayEnableIf, Flight, Held
  <2>2. NmiRaised' = NmiRaised /\ SmiRaised' = SmiRaised
    BY <1>38 DEF HandleRsm, Handled, MayEnableIf, NmiRaised, SmiRaised
  <2>3. Promise!ALeaveSmm
    BY <1>38, <2>1, <2>2 DEF HandleRsm, Handled, MayEnableIf, Promise!ALeaveSmm,
       Promise!NoEvent, NoEvent
  <2> QED
    BY <2>3 DEF Simulated, Promise!ANext
<1>39. CASE HandleTaskGate
  <2>1. Flight = vectoring /\ Flight' = NoEvent
    BY <1>39 DEF HandleTaskGate, task_gate, NoException, NoInterrupt, Flight, Held
  <2>2. NmiRaised' = NmiRaised /\ SmiRaised' = SmiRaised
    BY <1>39 DEF HandleTaskGate, task_gate, NoException, NoInterrupt, NmiRaised, SmiRaised
  <2>3. Promise!ADeliver
    BY <1>39, <2>1, <2>2 DEF HandleTaskGate, task_gate, NoException, NoInterrupt,
       Promise!ADeliver, Promise!NoEvent, NoEvent
  <2> QED
    BY <2>3 DEF Simulated, Promise!ANext
<1>40. CASE TaskSwitchError
  <2>1. Flight = vectoring /\ Flight' = NoEvent
    BY <1>40 DEF TaskSwitchError, task_gate, NoException, NoInterrupt, Flight, Held
  <2>2. NmiRaised' = NmiRaised /\ SmiRaised' = SmiRaised
    BY <1>40 DEF TaskSwitchError, task_gate, NoException, NoInterrupt, NmiRaised, SmiRaised
  <2>3. Promise!AStop
    BY <1>40, <2>1, <2>2 DEF TaskSwitchError, task_gate, NoException, NoInterrupt,
       Promise!AStop, Promise!NoEvent, NoEvent
  <2> QED
    BY <2>3 DEF Simulated, Promise!ANext
<1>41. CASE UNCHANGED vars
  <2>1. Flight' = Flight /\ NmiRaised' = NmiRaised /\ SmiRaised' = SmiRaised
    BY <1>41 DEF vars, Flight, Held, NmiRaised, SmiRaised
  <2> QED
    BY <1>41, <2>1, StutterDelivers DEF vars, Simulated
<1> QED
  BY <1>1, <1>2, <1>3, <1>4, <1>5, <1>6, <1>7, <1>8, <1>9, <1>10, <1>11, <1>12, <1>13, <1>14,
     <1>15, <1>16, <1>17, <1>18, <1>19, <1>20, <1>21, <1>22, <1>23, <1>24, <1>25, <1>26, <1>27,
     <1>28, <1>29, <1>30, <1>31, <1>32, <1>33, <1>34, <1>35, <1>36, <1>37, <1>38, <1>39, <1>40,
     <1>41 DEF Next, Source, EnterLoop, GuestRuns, Exits, Handlers, Stopped

\* Delivers: wherever KVM tracks the NMI mask, its queues, requests, windows and requeueing keep
\* the promise of EventDelivery, whatever the interleaving of sources, exits and faults.
THEOREM DeliversCorrect == ASSUME NmiTracked PROVE Spec => Delivers
<1>1. Init => Promise!AInit
  BY InitDelivers
<1>2. TypeOK /\ DeliveryInv /\ NmiInv /\ [Next]_vars => [Promise!ANext]_(Promise!avars)
  BY StepDelivers DEF Simulated
<1> QED
  BY <1>1, <1>2, TypeCorrect, DeliveryCorrect, NmiCorrect, PTL DEF Spec, Delivers, Promise!ASpec
-----------------------------------------------------------------------------
(* Migration.  Migrate is a stutter of the promise, so all that was proved *)
(* of Spec is proved of MSpec again from the same step lemmas and what     *)
(* Migrate does to each invariant.                                         *)

\* Every exception the guest can hold is reported: #BP and #OF are raised again by their
\* instruction and not carried over.
AllReported == \A v \in ExcVectors : ~Soft(v)

\* The NMI mask that travels is the guest's: not so when an IRET that faulted by an EPT violation
\* has left a stale nmi_known_unmasked, which hides nmi_blocking from vmx_get_nmi_mask.
MaskTravels == NmiTracked /\ (EnableVnmi => "ept" \notin IretFaults)

\* An NMI is counted only where something raises NMIs.
NmiSourceInv == nmi_pending > 0 \/ nmi_queued > 0 => "nmi" \in Sources

\* What the new vCPU reads back is well typed.
LEMMA MigrateType == TypeOK /\ Migrate => TypeOK'
<1> SUFFICES ASSUME TypeOK, Migrate PROVE TypeOK'
  OBVIOUS
<1> USE DEF TypeOK, Migrate
<1>1. PICK payload \in PayloadCaps : SetEvents(Reported(payload), payload)
  OBVIOUS
<1>2. payload \in BOOLEAN /\ TripleFaultCap \in BOOLEAN
  BY CapsAssumption
<1>3. ReportedNmis \in Nat
  BY DEF ReportedNmis, NmiTotal, NmiLimit, AsyncType, HeldType
<1>4. LoopType'
  BY <1>1 DEF SetEvents, Reported, RestoredRequests, LoopType, Request
<1>5. AsyncType'
  BY <1>1, <1>3 DEF SetEvents, Reported, AsyncType
<1>6. HeldType'
  <2>1. exception' \in [pending : BOOLEAN, injected : BOOLEAN, vector : ExcVectors]
    BY <1>1, <1>2 DEF SetEvents, Reported, HeldType
  <2>2. interrupt' = interrupt
    <3>1. interrupt' = [injected |-> interrupt.injected, nr |-> interrupt.nr]
      BY <1>1 DEF SetEvents, Reported
    <3>2. CASE interrupt = NoInterrupt
      BY <3>1, <3>2 DEF NoInterrupt
    <3>3. CASE interrupt \in [injected : {TRUE}, nr : Vectors]
      BY <3>1, <3>3
    <3> QED
      BY <3>2, <3>3 DEF HeldType
  <2>3. /\ nmi_pending' \in 0..2 /\ nmi_injected' \in BOOLEAN /\ isr' \subseteq Vectors
        /\ smi_pending' \in BOOLEAN /\ smm' \in BOOLEAN /\ smm_inside_nmi' \in BOOLEAN
    <3>1. nmi_pending' = 0 /\ isr' = isr  BY <1>1 DEF SetEvents
    <3>2. nmi_injected' = nmi_injected /\ smm' = smm  BY <1>1 DEF SetEvents, Reported
    <3>3. smm_inside_nmi' = (smm /\ smm_inside_nmi)  BY <1>1 DEF SetEvents, Reported
    <3>4. smi_pending' = (smi_pending \/ "SMI" \in requests)  BY <1>1 DEF SetEvents, Reported
    <3> QED  BY <3>1, <3>2, <3>3, <3>4 DEF HeldType
  <2> QED
    BY <2>1, <2>2, <2>3 DEF HeldType
<1>7. VmcsType'
  BY <1>1 DEF SetEvents, VmcsType
<1>8. GuestType'
  BY <1>1 DEF SetEvents, GuestType
<1> QED
  BY <1>4, <1>5, <1>6, <1>7, <1>8

\* The events on the new vCPU, seen from outside: what is in flight and what is raised is the same.
LEMMA MigrateKeeps ==
  ASSUME AllReported, TypeOK, Migrate
  PROVE  /\ Held' = Held /\ NmiRaised' = NmiRaised /\ SmiRaised' = SmiRaised
         /\ smm' = smm
         /\ "EVENT" \in requests'
         /\ nmi_queued' > 0 => "NMI" \in requests'
         /\ nmi_pending' = 0
         /\ nmi_blocking' = (EnableVnmi /\ vmx_get_nmi_mask)
         /\ soft_vnmi_blocked' = (~EnableVnmi /\ soft_vnmi_blocked)
         /\ nmi_known_unmasked' = (EnableVnmi /\ ~vmx_get_nmi_mask)
<1> USE DEF TypeOK, Migrate
<1>1. PICK payload \in PayloadCaps : SetEvents(Reported(payload), payload)
  OBVIOUS
<1>2. payload \in BOOLEAN /\ TripleFaultCap \in BOOLEAN
  BY CapsAssumption
<1>3. ~Soft(exception.vector)
  BY DEF AllReported, HeldType
<1>4. Held' = Held
  <2>1. interrupt' = interrupt /\ nmi_injected' = nmi_injected
    BY <1>1 DEF SetEvents, Reported, HeldType, NoInterrupt
  <2>2. /\ exception'.vector = exception.vector
        /\ exception'.pending \/ exception'.injected <=> exception.pending \/ exception.injected
    BY <1>1, <1>2, <1>3 DEF SetEvents, Reported, HeldType
  <2> QED
    BY <2>1, <2>2 DEF Held
<1>5. NmiRaised' = NmiRaised
  <2>1. nmi_pending' = 0 /\ nmi_queued' = ReportedNmis
    BY <1>1 DEF SetEvents, Reported
  <2>2. nmi_pending \in Nat /\ nmi_queued \in Nat
    BY DEF HeldType, AsyncType
  <2>3. ReportedNmis > 0 <=> nmi_pending + nmi_queued > 0
    BY <2>2 DEF ReportedNmis, NmiTotal, NmiLimit
  <2> QED
    BY <2>1, <2>2, <2>3 DEF NmiRaised
<1>6. SmiRaised' = SmiRaised
  <2>1. smi_pending' = (smi_pending \/ "SMI" \in requests) /\ "SMI" \notin requests'
    BY <1>1 DEF SetEvents, Reported, RestoredRequests
  <2> QED
    BY <2>1 DEF SmiRaised
<1>7. /\ "EVENT" \in requests'
      /\ nmi_queued' > 0 => "NMI" \in requests'
  BY <1>1 DEF SetEvents, Reported, RestoredRequests
<1>8. smm' = smm /\ nmi_pending' = 0
  BY <1>1 DEF SetEvents, Reported
<1>9. /\ nmi_blocking' = (EnableVnmi /\ vmx_get_nmi_mask)
      /\ nmi_known_unmasked' = (EnableVnmi /\ ~vmx_get_nmi_mask)
  BY <1>1 DEF SetEvents, Reported, ReportedMask
<1>10. soft_vnmi_blocked' = (~EnableVnmi /\ soft_vnmi_blocked)
  BY <1>1, ParamsAssumption DEF SetEvents, Reported, ReportedMask, vmx_get_nmi_mask
<1> QED
  BY <1>4, <1>5, <1>6, <1>7, <1>8, <1>9, <1>10

\* A held event has its event check behind it on the new vCPU, and is as legal there.
LEMMA MigrateDelivery ==
  ASSUME AllReported, TypeOK, DeliveryInv, Migrate
  PROVE  DeliveryInv'
<1>1. /\ Held' = Held /\ "EVENT" \in requests'
      /\ nmi_blocking' = (EnableVnmi /\ vmx_get_nmi_mask)
  BY MigrateKeeps
<1>2. pc = "req_tf" /\ UNCHANGED <<pc, can_inject, entry, vectoring, exit_reason, rflags_if, shadow>>
  BY DEF Migrate
<1>3. HeldIsCarried'
  BY <1>1, <1>2 DEF DeliveryInv, HeldIsCarried, InLoop
<1>4. ExitPutsBack'
  BY <1>2 DEF ExitPutsBack
<1>5. HeldIsLegal'
  <2>1. nmi_blocking' => nmi_blocking
    BY <1>1 DEF DeliveryInv, HeldIsLegal, vmx_get_nmi_mask
  <2>2. Legal(Held)
    BY <1>2 DEF DeliveryInv, HeldIsLegal
  <2>3. Legal(Held)'
    BY <1>1, <1>2, <2>1, <2>2 DEF Legal
  <2> QED
    BY <1>1, <1>2, <2>3 DEF HeldIsLegal
<1> QED
  BY <1>3, <1>4, <1>5 DEF DeliveryInv

\* The new vCPU masks NMIs where the guest does.
LEMMA MigrateNmi ==
  ASSUME AllReported, MaskTravels, TypeOK, DeliveryInv, NmiInv, Migrate
  PROVE  NmiInv'
<1>1. PICK payload \in PayloadCaps : SetEvents(Reported(payload), payload)
  BY DEF Migrate
<1>2. /\ pc = "req_tf"
      /\ UNCHANGED <<pc, entry, vectoring, exit_reason, rflags_if, shadow, inNmi>>
  BY DEF Migrate
<1>3. /\ Held' = Held /\ smm' = smm
      /\ nmi_blocking' = (EnableVnmi /\ vmx_get_nmi_mask)
      /\ soft_vnmi_blocked' = (~EnableVnmi /\ soft_vnmi_blocked)
      /\ nmi_known_unmasked' = (EnableVnmi /\ ~vmx_get_nmi_mask)
  BY MigrateKeeps
<1>4. entry.type = "none"
  BY <1>2 DEF DeliveryInv, HeldIsCarried, InLoop, NoEvent
<1>5. SmiInv'
  <2>1. /\ smi_pending' = (smi_pending \/ "SMI" \in requests)
        /\ "SMI" \notin requests'
    BY <1>1 DEF SetEvents, Reported, RestoredRequests
  <2> QED
    BY <1>3, <2>1 DEF NmiInv, SmiInv
<1>6. ReasonInv'
  BY <1>2 DEF ReasonInv
<1>7. FlightInv'
  BY <1>2, <1>3, <1>4 DEF NmiInv, FlightInv, Flight
<1>8. MaskInv'
  <2>1. smm' /\ inNmi' => smm_inside_nmi'
    BY <1>1, <1>2 DEF SetEvents, Reported, NmiInv, MaskInv
  <2>2. inNmi \/ smm => NmiMasked
    BY <1>2 DEF NmiInv, MaskInv, IretUndone
  <2>3. NmiMasked => NmiMasked'
    BY <1>3 DEF NmiMasked, vmx_get_nmi_mask, MaskTravels, NmiInv, MaskInv
  <2>4. nmi_known_unmasked' => ~nmi_blocking'
    BY <1>3
  <2>5. ~EnableVnmi /\ inNmi' => ~rflags_if'
    BY <1>2 DEF NmiInv, MaskInv
  <2> QED
    BY <1>2, <1>3, <2>1, <2>2, <2>3, <2>4, <2>5 DEF MaskInv
<1> QED
  BY <1>5, <1>6, <1>7, <1>8 DEF NmiInv

\* The requests of the new vCPU make it look at whatever waits.
LEMMA MigrateWakeup ==
  ASSUME AllReported, TypeOK, WakeupInv, NmiSourceInv, Migrate
  PROVE  WakeupInv'
<1>1. /\ "EVENT" \in requests' /\ NmiRaised' = NmiRaised
      /\ nmi_queued' > 0 => "NMI" \in requests'
  BY MigrateKeeps
<1>2. pc = "req_tf" /\ UNCHANGED <<pc, mode, req_immediate_exit, ipi, irr, isr, src>>
  BY DEF Migrate
<1>3. nmi_queued' > 0 => "nmi" \in Sources
  BY <1>1 DEF NmiRaised, NmiSourceInv
<1> QED
  BY <1>1, <1>2, <1>3 DEF WakeupInv, KickInv, WaitInv, NoLostWakeup, Checks, Published

\* Only an NMI source leads to pending NMIs, before a move or after it.
LEMMA NmiSourceStep == TypeOK /\ NmiSourceInv /\ [MNext]_vars => NmiSourceInv'
<1> SUFFICES ASSUME TypeOK, NmiSourceInv, [MNext]_vars PROVE NmiSourceInv'
  OBVIOUS
<1> USE DEF NmiSourceInv
<1>1. nmi_pending \in Nat /\ nmi_queued \in Nat
  BY DEF TypeOK, HeldType, AsyncType
<1>2. CASE RaiseNmi
  BY <1>2 DEF RaiseNmi
<1>3. CASE CheckNmi
  BY <1>1, <1>3 DEF CheckNmi, process_nmi, NmiTotal, NmiLimit
<1>4. CASE InjectNmi
  BY <1>1, <1>4 DEF InjectNmi, async
<1>5. CASE Migrate
  <2>1. PICK payload \in PayloadCaps : SetEvents(Reported(payload), payload)
    BY <1>5 DEF Migrate
  <2>2. nmi_pending' = 0 /\ nmi_queued' = ReportedNmis
    BY <2>1 DEF SetEvents, Reported
  <2> QED
    BY <1>1, <2>2 DEF ReportedNmis, NmiTotal, NmiLimit
<1>6. ASSUME [Next]_vars, ~RaiseNmi, ~CheckNmi, ~InjectNmi
      PROVE  UNCHANGED <<nmi_pending, nmi_queued>>
  <2>1. Source => UNCHANGED <<nmi_pending, nmi_queued>>
    BY <1>6 DEF Source, RaiseIrq, RaiseSmi, MakeRequest, Kick, held
  <2>2. EnterLoop => UNCHANGED <<nmi_pending, nmi_queued>>
    BY <1>6 DEF EnterLoop, CheckTripleFault, CheckSmi, CheckEvent, InjectException, Reinject,
       SkipSmi, EnterSmm, SkipNmi, SkipIrq, InjectIrq, EnterGuestMode, CancelInjection, VmEnter,
       async, held
  <2>3. GuestRuns => UNCHANGED <<nmi_pending, nmi_queued>>
    BY DEF GuestRuns, Deliver, GuestFlags, Iret, async, held
  <2>4. Exits => UNCHANGED <<nmi_pending, nmi_queued>>
    BY DEF Exits, ExitExternal, ExitIrqWindow, ExitNmiWindow, ExitInstruction, ExitDelivering,
       ExitNativeException, ExitIret, Exit, async, held
  <2>5. Handlers => UNCHANGED <<nmi_pending, nmi_queued>>
    BY DEF Handlers, CompleteExit, DeliveryError, HandleExternal, HandleWindow, HandleFault,
       HandleEmulate, Emulated, Skipped, HandleEoi, HandleRsm, HandleTaskGate, TaskSwitchError, task_gate, async,
       held
  <2>6. UNCHANGED vars => UNCHANGED <<nmi_pending, nmi_queued>>
    BY DEF vars, async, held
  <2> QED
    BY <1>6, <2>1, <2>2, <2>3, <2>4, <2>5, <2>6 DEF Next, Stopped
<1> QED
  BY <1>2, <1>3, <1>4, <1>5, <1>6 DEF MNext

\* A step of MSpec is a step of Spec or a move.
LEMMA MoveSteps == [MNext]_vars => [Next]_vars \/ Migrate
BY DEF MNext

\* TypeOK holds across moves.
THEOREM MoveTypeCorrect == MSpec => []TypeOK
<1>1. TypeOK /\ [MNext]_vars => TypeOK'
  BY TypeStep, MigrateType, MoveSteps
<1> QED
  BY <1>1, InitType, PTL DEF MSpec

\* DeliveryInv holds across moves: what a delivery has put back is carried over and legal.
THEOREM MoveDeliveryCorrect == ASSUME AllReported PROVE MSpec => []DeliveryInv
<1>1. TypeOK /\ DeliveryInv /\ [MNext]_vars => DeliveryInv'
  BY DeliveryStep, MigrateDelivery, MoveSteps
<1> QED
  BY <1>1, InitDelivery, MoveTypeCorrect, PTL DEF MSpec

\* NoLostWakeup holds across moves, though no request, window or IPI of the old vCPU travels.
THEOREM MoveNoLostWakeupCorrect == ASSUME AllReported PROVE MSpec => []NoLostWakeup
<1>1. Init => WakeupInv /\ NmiSourceInv
  BY InitWakeup DEF Init, NmiSourceInv
<1>2. TypeOK /\ WakeupInv /\ NmiSourceInv /\ [MNext]_vars => WakeupInv' /\ NmiSourceInv'
  BY WakeupStep, MigrateWakeup, NmiSourceStep, MoveSteps
<1>3. WakeupInv => NoLostWakeup
  BY DEF WakeupInv
<1> QED
  BY <1>1, <1>2, <1>3, MoveTypeCorrect, PTL DEF MSpec

\* NmiInv holds across moves where the mask travels.
LEMMA MoveNmi == ASSUME AllReported, MaskTravels PROVE MSpec => []NmiInv
<1>1. TypeOK /\ DeliveryInv /\ NmiInv /\ [MNext]_vars => NmiInv'
  BY NmiStep, MigrateNmi, MoveSteps DEF MaskTravels
<1> QED
  BY <1>1, InitNmi, MoveTypeCorrect, MoveDeliveryCorrect, PTL DEF MSpec

\* NoNestedNmi: a guest moved inside its NMI handler takes no second NMI there.
THEOREM MoveNoNestedNmiCorrect == ASSUME AllReported, MaskTravels PROVE MSpec => NoNestedNmi
<1>1. NmiInv /\ [MNext]_vars => [entry.type = "nmi" /\ pc = "guest" /\ inNmi' => ~inNmi]_vars
  BY DEF NmiInv, FlightInv, Flight
<1> QED
  BY <1>1, MoveNmi, PTL DEF MSpec, NoNestedNmi

\* MigrationDelivers: seen from the guest's promise a move is a stutter, so a half-delivered or
\* queued event is delivered after it, once, and nothing else is.
THEOREM MigrationDeliversCorrect ==
  ASSUME AllReported, MaskTravels PROVE MSpec => MigrationDelivers
<1>1. Init => Promise!AInit
  BY InitDelivers
<1>2. TypeOK /\ Migrate => UNCHANGED (Promise!avars)
  <2> SUFFICES ASSUME TypeOK, Migrate PROVE UNCHANGED (Promise!avars)
    OBVIOUS
  <2>1. Held' = Held /\ NmiRaised' = NmiRaised /\ SmiRaised' = SmiRaised /\ smm' = smm
    BY MigrateKeeps
  <2>2. pc = "req_tf" /\ UNCHANGED <<pc, irr, isr, entry, vectoring, rflags_if, shadow, inNmi>>
    BY DEF Migrate
  <2>3. Flight' = Flight
    BY <2>1, <2>2 DEF Flight
  <2> QED
    BY <2>1, <2>2, <2>3 DEF Promise!avars
<1>3. /\ TypeOK /\ DeliveryInv /\ NmiInv /\ [MNext]_vars => [Promise!ANext]_(Promise!avars)
  BY <1>2, StepDelivers, MoveSteps DEF Simulated, MaskTravels
<1> QED
  BY <1>1, <1>3, MoveTypeCorrect, MoveDeliveryCorrect, MoveNmi, PTL
     DEF MSpec, MigrationDelivers, Promise!ASpec

\* ShutdownSurvives: KVM_REQ_TRIPLE_FAULT leaves the requests only into the shutdown exit, or
\* into the record that makes it again.
THEOREM ShutdownSurvivesCorrect == MSpec => ShutdownSurvives
<1> DEFINE Survives == TripleFaultCap /\ "TRIPLE_FAULT" \in requests =>
                         "TRIPLE_FAULT" \in requests' \/ pc' = "stopped"
<1>1. [MNext]_vars => Survives
  <2>1. Source => Survives
    BY DEF Source, RaiseIrq, RaiseNmi, RaiseSmi, MakeRequest, Kick, loop
  <2>2. CheckTripleFault => Survives
    BY DEF CheckTripleFault, Goto
  <2>3. EnterLoop /\ ~CheckTripleFault => Survives
    BY DEF EnterLoop, CheckSmi, process_smi_requests, CheckNmi, CheckEvent, InjectException,
       Reinject, SkipSmi, EnterSmm, SkipNmi, InjectNmi, SkipIrq, InjectIrq, EnterGuestMode,
       CancelInjection, complete_interrupts, VmEnter
  <2>4. GuestRuns => Survives
    BY DEF GuestRuns, Deliver, GuestFlags, Iret, loop
  <2>5. Exits => Survives
    BY DEF Exits, ExitExternal, ExitIrqWindow, ExitNmiWindow, ExitInstruction, ExitDelivering,
       ExitNativeException, ExitIret, Exit
  <2>6. Handlers => Survives
    BY DEF Handlers, CompleteExit, complete_interrupts, DeliveryError, HandleExternal,
       HandleWindow, HandleFault, HandleEmulate, Emulated, Skipped, HandleEoi, HandleRsm, HandleTaskGate,
       TaskSwitchError, task_gate, Goto, Handled, window_requests, MultipleExceptionRequests,
       apic_set_eoi_requests
  <2>7. Migrate => Survives
    BY DEF Migrate, SetEvents, Reported, RestoredRequests
  <2>8. UNCHANGED vars => Survives
    BY DEF vars, loop
  <2> QED
    BY <2>1, <2>2, <2>3, <2>4, <2>5, <2>6, <2>7, <2>8 DEF MNext, Next, Stopped
<1> QED
  BY <1>1, PTL DEF MSpec, ShutdownSurvives
=============================================================================
