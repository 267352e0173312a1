---------------------------- MODULE VcpuRunProofs ----------------------------
(* Proofs about VcpuRun, for any vectors, senders and inhibit reasons.       *)
EXTENDS VcpuRun, WellFoundedInduction, TLAPS

\* The senders' places, where the vCPU goes after a sync, and what is Boolean.
Shape ==
  /\ spc \in [Senders -> {"idle", "pir", "on", "trigger", "notify", "irr", "request", "kick"}]
  /\ ret \in {"inject", "check", "recheck", "runnable"}
  /\ asleep \in BOOLEAN /\ apicv_active \in BOOLEAN

-----------------------------------------------------------------------------
(* The APICv state.                                                        *)

InGuest == pc \in {"enter", "guest"}

\* Between vcpu->mode = IN_GUEST_MODE and the next OUTSIDE_GUEST_MODE.
PastSetMode ==
  \/ pc \in {"check", "enter", "guest", "recheck"}
  \/ pc \in {"sync", "move"} /\ ret \in {"check", "recheck"}

Changes == (inhibits = {}) # (new = {})

\* The vCPU is yet to look at the inhibits: asked to, or waiting for the lock.
UpdatePending == "APICV_UPDATE" \in requests \/ pc = "locked"

\* An old APICv state, or one that is about to be old, goes with a request; and the writer that
\* is about to publish has not yet got the answer of a CPU that is in the guest.
ApicvInv ==
  /\ Shape
  /\ PastSetMode => mode # "OUTSIDE"
  /\ apicv_active # (inhibits = {}) => UpdatePending
  /\ ipc \in {"ipi", "publish"} /\ Changes => UpdatePending
  /\ ipc = "publish" /\ Changes /\ InGuest => ack
  /\ ApicvConsistent

LEMMA ShapeStep == Shape /\ [Next]_vars => Shape'
<1> SUFFICES ASSUME Shape, [Next]_vars PROVE Shape'
  OBVIOUS
<1> USE DEF Shape
<1>1. ASSUME NEW s \in Senders, Sender(s) PROVE Shape'
  BY <1>1 DEF Sender, SetPir, SetOn, Trigger, Notify, SetIrr, MakeRequest, Kick, Sends, loop
<1>2. ASSUME NEW s \in Senders, NEW v \in Vectors, Send(s, v) PROVE Shape'
  BY <1>2 DEF Send, loop
<1>3. CASE Inhibitor \/ \E r \in Reasons : Inhibit(r)
  BY <1>3 DEF Inhibitor, RequestUpdate, SendAck, Publish, Inhibit, loop, sender
<1>4. CASE Thread
  BY <1>4 DEF Thread, Top, CheckUpdate, UpdateApicv, DisableApicv, CheckEvent, InjectIrq, SetMode,
     SyncOn, SyncPir, CancelEntry, Commit, VmEnter, LeaveFastpath, LeaveGuestMode, Handle, Block,
     Runnable, Sleep, Wake, SyncAt, sender
<1>5. CASE Guest \/ TakeIpis
  BY <1>5 DEF Guest, Notified, Deliver, FastExit, Exit, SyncAt, TakeIpis,
     loop, sender
<1>6. CASE UNCHANGED vars
  BY <1>6 DEF vars, loop, sender
<1> QED
  BY <1>1, <1>2, <1>3, <1>4, <1>5, <1>6 DEF Next

LEMMA ApicvStep == ApicvInv /\ [Next]_vars => ApicvInv'
<1> SUFFICES ASSUME ApicvInv, [Next]_vars PROVE ApicvInv'
  OBVIOUS
<1>0. Shape'
  BY ShapeStep DEF ApicvInv
<1> USE DEF ApicvInv, UpdatePending, Changes, InGuest, PastSetMode, ApicvConsistent
\* A sender makes no update request, but kicks.
<1>1. ASSUME NEW s \in Senders, Sender(s) PROVE ApicvInv'
  BY <1>0, <1>1 DEF Sender, SetPir, SetOn, Trigger, Notify, SetIrr, MakeRequest, Kick, Sends, loop,
     apic, ipis, inhibitor
<1>2. ASSUME NEW s \in Senders, NEW v \in Vectors, Send(s, v) PROVE ApicvInv'
  BY <1>0, <1>2 DEF Send, loop, apic, ipis, inhibitor
<1>3. ASSUME NEW r \in Reasons, Inhibit(r) PROVE ApicvInv'
  BY <1>0, <1>3 DEF Inhibit, loop, ipis
<1>4. CASE RequestUpdate
  BY <1>0, <1>4 DEF RequestUpdate, loop, ipis
\* Whoever is past SetMode is sent an IPI ...
<1>5. CASE SendAck
  BY <1>0, <1>5 DEF SendAck, loop
\* ... that it takes before the inhibits change.
<1>6. CASE Publish
  BY <1>0, <1>6 DEF Publish, loop, ipis
<1>7. CASE CheckUpdate
  BY <1>0, <1>7 DEF CheckUpdate, Goto, ipis, inhibitor
\* The lock: no writer is under way.
<1>8. CASE UpdateApicv
  BY <1>0, <1>8 DEF UpdateApicv, MayUpdate, WriteLocked, Goto, ipis, inhibitor
\* No request, so no update is pending.
<1>9. CASE Commit
  BY <1>0, <1>9 DEF Commit, ExitRequest, Goto, ipis, inhibitor
<1>10. CASE SetMode \/ FastExit \/ Block
  BY <1>0, <1>10 DEF SetMode, FastExit, Block, SyncAt, ipis, inhibitor
<1>11. CASE SyncOn \/ SyncPir
  BY <1>0, <1>11 DEF SyncOn, SyncPir, Synced, Goto, ipis, inhibitor, Shape
<1>12. CASE CheckEvent
  BY <1>0, <1>12 DEF CheckEvent, ipis, inhibitor
<1>13. CASE Top \/ DisableApicv \/ InjectIrq \/ CancelEntry \/ VmEnter
  BY <1>0, <1>13 DEF Top, DisableApicv, DisabledRequests, InjectIrq, CancelEntry, VmEnter, Goto,
     ipis, inhibitor
<1>14. CASE LeaveFastpath \/ LeaveGuestMode \/ Handle \/ Exit
  BY <1>0, <1>14 DEF LeaveFastpath, LeaveGuestMode, Handle, Exit, Goto, ipis, inhibitor
<1>15. CASE Runnable \/ Sleep \/ Wake
  BY <1>0, <1>15 DEF Runnable, Sleep, Wake, Goto, ipis, inhibitor
<1>16. CASE Notified \/ Deliver
  BY <1>0, <1>16 DEF Notified, Deliver, loop, ipis, inhibitor
\* Where IPIs are taken the vCPU is not in the guest.
<1>17. CASE TakeIpis
  BY <1>0, <1>17 DEF TakeIpis, IrqsOff, loop, inhibitor
<1>18. CASE UNCHANGED vars
  BY <1>0, <1>18 DEF vars, loop, ipis, inhibitor
<1> QED
  BY <1>1, <1>2, <1>3, <1>4, <1>5, <1>6, <1>7, <1>8, <1>9, <1>10, <1>11, <1>12, <1>13, <1>14,
     <1>15, <1>16, <1>17, <1>18 DEF Next, Inhibitor, Thread, Guest

\* However the update, the kick and the lock interleave, a guest is entered and runs with the
\* APICv state that the inhibits call for (the assertion before vcpu_run in vcpu_enter_guest).
THEOREM ApicvConsistentCorrect == Spec => []ApicvConsistent
<1>1. Init => ApicvInv
  BY DEF Init, ApicvInv, Shape, PastSetMode, UpdatePending, Changes, InGuest, ApicvConsistent
<1>2. ApicvInv => ApicvConsistent
  BY DEF ApicvInv
<1> QED
  BY <1>1, <1>2, ApicvStep, PTL DEF Spec

-----------------------------------------------------------------------------
(* Sleeping.                                                               *)

\* Where the vCPU has declared that it sleeps and PID.ON was looked at since.
Looked == pc \in {"runnable", "asleep"} \/ (pc = "move" /\ ret = "runnable")

\* What is posted is flagged or about to be; a flag that came after the vCPU looked has its
\* sender before it, who finds the vCPU out of the guest and wakes it.
SleepInv ==
  /\ Shape
  /\ pc \in {"sync", "move"} /\ ret \in {"inject", "runnable"} => mode = "OUTSIDE"
  /\ pc \in {"top", "update", "locked", "disabled", "event", "inject", "entering", "handle",
            "block", "runnable", "asleep"} => mode = "OUTSIDE"
  /\ pir # {} => on \/ pc = "move" \/ \E s \in Senders : spc[s] = "on"
  /\ on /\ Looked /\ asleep => \E s \in Senders : spc[s] = "trigger"
  /\ pc = "asleep" /\ asleep /\ irr # {} => \E s \in Senders : spc[s] \in {"request", "kick"}

LEMMA SleepStep == SleepInv /\ [Next]_vars => SleepInv'
<1> SUFFICES ASSUME SleepInv, [Next]_vars PROVE SleepInv'
  OBVIOUS
<1>0. Shape'
  BY ShapeStep DEF SleepInv
<1> USE DEF SleepInv, Looked
<1>1. ASSUME NEW s \in Senders, SetPir(s) PROVE SleepInv'
  BY <1>0, <1>1 DEF SetPir, Sends, loop, Shape
<1>2. ASSUME NEW s \in Senders, SetOn(s) PROVE SleepInv'
  BY <1>0, <1>2 DEF SetOn, Sends, loop, Shape
\* A vCPU that sleeps is out of the guest, so the trigger wakes it.
<1>3. ASSUME NEW s \in Senders, Trigger(s) PROVE SleepInv'
  BY <1>0, <1>3 DEF Trigger, Sends, apic, Shape
<1>4. ASSUME NEW s \in Senders, Notify(s) PROVE SleepInv'
  BY <1>0, <1>4 DEF Notify, Sends, loop, apic, Shape
<1>5. ASSUME NEW s \in Senders, SetIrr(s) \/ MakeRequest(s) PROVE SleepInv'
  BY <1>0, <1>5 DEF SetIrr, MakeRequest, Sends, loop, apic, Shape
<1>6. ASSUME NEW s \in Senders, Kick(s) PROVE SleepInv'
  BY <1>0, <1>6 DEF Kick, Sends, apic, Shape
<1>7. ASSUME NEW s \in Senders, NEW v \in Vectors, Send(s, v) PROVE SleepInv'
  BY <1>0, <1>7 DEF Send, loop, apic, Shape
<1>8. ASSUME NEW r \in Reasons, Inhibit(r) PROVE SleepInv'
  BY <1>0, <1>8 DEF Inhibit, loop, apic, sender
<1>9. CASE RequestUpdate \/ Publish
  BY <1>0, <1>9 DEF RequestUpdate, Publish, loop, apic, sender
<1>10. CASE SendAck
  BY <1>0, <1>10 DEF SendAck, loop, apic, sender
<1>11. CASE Top \/ CheckUpdate \/ UpdateApicv \/ DisableApicv \/ InjectIrq
  BY <1>0, <1>11 DEF Top, CheckUpdate, UpdateApicv, DisableApicv, InjectIrq, Goto, apic, sender
<1>12. CASE SetMode \/ FastExit \/ Block \/ CheckEvent
  BY <1>0, <1>12 DEF SetMode, FastExit, Block, CheckEvent, SyncAt, apic, sender
\* From here on a flag is news.
<1>13. CASE SyncOn
  BY <1>0, <1>13 DEF SyncOn, Synced, Goto, sender, Shape
<1>14. CASE SyncPir
  BY <1>0, <1>14 DEF SyncPir, Goto, sender, Shape
<1>15. CASE CancelEntry \/ Commit \/ VmEnter
  BY <1>0, <1>15 DEF CancelEntry, Commit, VmEnter, Goto, apic, sender
<1>16. CASE LeaveFastpath \/ Exit \/ LeaveGuestMode \/ Handle
  BY <1>0, <1>16 DEF LeaveFastpath, Exit, LeaveGuestMode, Handle, Goto, apic, sender
\* The thread does not go to sleep with an interrupt in the IRR.
<1>17. CASE Runnable \/ Sleep \/ Wake
  BY <1>0, <1>17 DEF Runnable, Sleep, Wake, Goto, apic, sender
<1>18. CASE Notified \/ Deliver
  BY <1>0, <1>18 DEF Notified, Deliver, loop, sender
<1>19. CASE TakeIpis
  BY <1>0, <1>19 DEF TakeIpis, loop, apic, sender
<1>20. CASE UNCHANGED vars
  BY <1>0, <1>20 DEF vars, loop, apic, sender
<1> QED
  BY <1>1, <1>2, <1>3, <1>4, <1>5, <1>6, <1>7, <1>8, <1>9, <1>10, <1>11, <1>12, <1>13, <1>14,
     <1>15, <1>16, <1>17, <1>18, <1>19, <1>20 DEF Next, Sender, Inhibitor, Thread, Guest

\* No vCPU sleeps through an interrupt: one that is posted or accepted while the thread blocks
\* has a sender who has yet to wake it, for any number of senders and vectors.
THEOREM SleepIsSafeCorrect == Spec => []SleepIsSafe
<1>1. Init => SleepInv
  BY DEF Init, SleepInv, Shape, Looked
<1>2. ASSUME SleepInv, pc = "asleep", asleep, pir \cup irr # {}
      PROVE  \E s \in Senders : spc[s] \in {"on", "trigger", "request", "kick"}
  <2>1. CASE irr # {}
    BY <1>2, <2>1 DEF SleepInv
  <2>2. CASE irr = {}
    <3>1. pir # {}
      BY <1>2, <2>2
    <3>2. on \/ \E s \in Senders : spc[s] = "on"
      BY <1>2, <3>1 DEF SleepInv
    <3>3. on => \E s \in Senders : spc[s] = "trigger"
      BY <1>2 DEF SleepInv, Looked
    <3> QED
      BY <3>2, <3>3
  <2> QED
    BY <2>1, <2>2
<1>3. SleepInv => SleepIsSafe
  BY <1>2 DEF SleepIsSafe
<1> QED
  BY <1>1, <1>3, SleepStep, PTL DEF Spec

-----------------------------------------------------------------------------
(* What the guest's CPU knows.                                             *)

(* Vectors are numbers below 256: a set of them has a highest one.            *)
LEMMA HighestExists ==
  ASSUME NEW V, V \subseteq Vectors, V # {} PROVE \E v \in V : \A w \in V : w <= v
<1> DEFINE T == {255 - v : v \in V}
<1>1. T \subseteq Nat /\ T # {}
  <2>1. \A v \in V : v \in 16..255  BY RunAssumption
  <2>2. \A v \in V : 255 - v \in Nat  BY <2>1
  <2> QED  BY <2>2
<1>2. \E x \in T : \A y \in T : ~ (y < x)
  <2> DEFINE R == OpToRel(<, Nat)
  <2>1. IsWellFoundedOn(R, Nat)  BY NatLessThanWellFounded
  <2>2. \E x \in T : \A y \in T : ~ (<<y, x>> \in R)
    <3> HIDE DEF T, R
    <3> QED  BY <1>1, <2>1, WFMin
  <2> QED  BY <1>1, <2>2 DEF OpToRel
<1>3. \A v \in V : 255 - v \in T /\ v \in Int  BY RunAssumption
<1>4. PICK v \in V : \A y \in T : ~ (y < 255 - v)  BY <1>2
<1>5. ASSUME NEW w \in V PROVE w <= v
  <2>1. ~ (255 - w < 255 - v)  BY <1>3, <1>4
  <2> QED  BY <1>3, <2>1
<1> QED  BY <1>5

\* What is posted or accepted, or about to be, are vectors.
Accepted ==
  /\ pir \subseteq Vectors /\ irr \subseteq Vectors
  /\ vec \in [Senders -> Vectors \cup {0}]
  /\ \A s \in Senders : spc[s] \in {"pir", "irr"} => vec[s] \in Vectors

LEMMA AcceptedStep == Shape /\ Accepted /\ [Next]_vars => Accepted'
<1> SUFFICES ASSUME Shape, Accepted, [Next]_vars PROVE Accepted'
  OBVIOUS
<1> USE DEF Shape, Accepted
<1>1. ASSUME NEW s \in Senders, Sender(s) PROVE Accepted'
  BY <1>1 DEF Sender, SetPir, SetOn, Trigger, Notify, SetIrr, MakeRequest, Kick, Sends, apic
<1>2. ASSUME NEW s \in Senders, NEW v \in Vectors, Send(s, v) PROVE Accepted'
  BY <1>2 DEF Send, apic
<1>3. CASE Inhibitor \/ \E r \in Reasons : Inhibit(r)
  BY <1>3 DEF Inhibitor, RequestUpdate, SendAck, Publish, Inhibit, apic, sender
<1>4. CASE Thread
  BY <1>4 DEF Thread, Top, CheckUpdate, UpdateApicv, DisableApicv, CheckEvent, InjectIrq, SetMode,
     SyncOn, SyncPir, CancelEntry, Commit, VmEnter, LeaveFastpath, LeaveGuestMode, Handle, Block,
     Runnable, Sleep, Wake, SyncAt, apic, sender
<1>5. CASE Guest \/ TakeIpis
  BY <1>5 DEF Guest, Notified, Deliver, FastExit, Exit, SyncAt, TakeIpis, apic, sender
<1>6. CASE UNCHANGED vars
  BY <1>6 DEF vars, apic, sender
<1> QED
  BY <1>1, <1>2, <1>3, <1>4, <1>5, <1>6 DEF Next

\* On the way into the guest or in it, with PID.ON looked at since the mode was set.
PastSync ==
  \/ pc \in {"check", "enter", "guest", "recheck"}
  \/ pc = "move" /\ ret \in {"check", "recheck"}

At(places) == \E s \in Senders : spc[s] \in places

ToldInv ==
  /\ Shape /\ Accepted
  /\ PastSetMode => mode # "OUTSIDE" /\ ~asleep
  /\ asleep => pc \in {"sync", "move", "runnable", "asleep"}
  /\ asleep /\ pc \in {"sync", "move"} => ret = "runnable"
  /\ mode \in {"OUTSIDE", "IN_GUEST", "EXITING"}
  \* No mode EXITING without an IPI.
  /\ PastSetMode /\ mode = "EXITING" => kick \/ ack
  \* A post without a flag or a flag without a notification has its sender before it.
  /\ pir # {} => on \/ pc = "move" \/ At({"on"})
  /\ PastSync /\ on => notify \/ mode = "EXITING" \/ At({"trigger", "notify"})
  \* With APICv the CPU has the highest interrupt, unless it was set by a sender without.
  /\ PastSync /\ pc # "move" /\ apicv_active /\ rvi # Highest(irr) =>
       mode = "EXITING" \/ At({"request", "kick"})
  \* Without, an interrupt in the IRR is waited for, asked for or looked at.
  /\ ~apicv_active /\ irr # {} =>
       \/ irq_window \/ "EVENT" \in requests \/ At({"request"})
       \/ pc \in {"disabled", "inject"} \/ (pc \in {"sync", "move"} /\ ret = "inject")
  /\ InGuest /\ "EVENT" \in requests => mode = "EXITING" \/ At({"kick"})

LEMMA ToldStep == ToldInv /\ [Next]_vars => ToldInv'
<1> SUFFICES ASSUME ToldInv, [Next]_vars PROVE ToldInv'
  OBVIOUS
<1>0. Shape'
  BY ShapeStep DEF ToldInv
<1>a. Accepted'
  BY AcceptedStep DEF ToldInv
<1> USE DEF ToldInv, PastSync, PastSetMode, InGuest, At
<1>1. ASSUME NEW s \in Senders, SetPir(s) PROVE ToldInv'
  BY <1>0, <1>a, <1>1 DEF SetPir, Sends, loop, ipis, Shape
<1>2. ASSUME NEW s \in Senders, SetOn(s) PROVE ToldInv'
  BY <1>0, <1>a, <1>2 DEF SetOn, Sends, loop, ipis, Shape
<1>3. ASSUME NEW s \in Senders, Trigger(s) PROVE ToldInv'
  BY <1>0, <1>a, <1>3 DEF Trigger, Sends, apic, ipis, Shape
<1>4. ASSUME NEW s \in Senders, Notify(s) PROVE ToldInv'
  BY <1>0, <1>a, <1>4 DEF Notify, Sends, loop, apic, Shape
<1>5. ASSUME NEW s \in Senders, SetIrr(s) PROVE ToldInv'
  BY <1>0, <1>a, <1>5 DEF SetIrr, Sends, loop, ipis, Shape
<1>6. ASSUME NEW s \in Senders, MakeRequest(s) PROVE ToldInv'
  BY <1>0, <1>a, <1>6 DEF MakeRequest, Sends, loop, apic, ipis, Shape
\* A vCPU past SetMode does not sleep: its mode becomes EXITING and it gets an IPI.
<1>7. ASSUME NEW s \in Senders, Kick(s) PROVE ToldInv'
  BY <1>0, <1>a, <1>7 DEF Kick, Sends, apic, Shape
<1>8. ASSUME NEW s \in Senders, NEW v \in Vectors, Send(s, v) PROVE ToldInv'
  BY <1>0, <1>a, <1>8 DEF Send, loop, apic, ipis, Shape
<1>9. ASSUME NEW r \in Reasons, Inhibit(r) PROVE ToldInv'
  BY <1>0, <1>a, <1>9 DEF Inhibit, loop, apic, ipis, sender
<1>10. CASE RequestUpdate
  BY <1>0, <1>a, <1>10 DEF RequestUpdate, loop, apic, ipis, sender
<1>11. CASE SendAck
  BY <1>0, <1>a, <1>11 DEF SendAck, loop, apic, sender
<1>12. CASE Publish
  BY <1>0, <1>a, <1>12 DEF Publish, loop, apic, ipis, sender
<1>13. CASE Top \/ CheckUpdate
  BY <1>0, <1>a, <1>13 DEF Top, CheckUpdate, Goto, apic, ipis, sender
<1>14. CASE UpdateApicv \/ DisableApicv
  BY <1>0, <1>a, <1>14 DEF UpdateApicv, DisableApicv, DisabledRequests, Goto, apic, ipis, sender
<1>15. CASE CheckEvent
  BY <1>0, <1>a, <1>15 DEF CheckEvent, apic, ipis, sender
<1>16. CASE InjectIrq
  BY <1>0, <1>a, <1>16 DEF InjectIrq, Goto, ipis, sender
<1>17. CASE SetMode \/ FastExit \/ Block
  BY <1>0, <1>a, <1>17 DEF SetMode, FastExit, Block, SyncAt, apic, ipis, sender
<1>18. CASE SyncOn
  BY <1>0, <1>a, <1>18 DEF SyncOn, Synced, SetRvi, Goto, ipis, sender, Shape
\* With nothing accepted before, the highest interrupt is new.
<1>19. CASE SyncPir
  <2>1. CASE irr = {} /\ pir # {}
    <3>1. \E v \in pir : \A w \in pir : w <= v
      BY <2>1, HighestExists DEF Accepted
    <3>2. GotInterrupt
      BY <2>1, <3>1 DEF GotInterrupt, Highest
    <3> QED
      BY <1>0, <1>a, <1>19, <3>2 DEF SyncPir, Synced, SetRvi, Goto, ipis, sender, Shape
  <2>2. CASE irr # {} \/ pir = {}
    BY <1>0, <1>a, <1>19, <2>2 DEF SyncPir, Synced, SetRvi, Goto, ipis, sender, Shape
  <2> QED
    BY <2>1, <2>2
<1>20. CASE CancelEntry
  BY <1>0, <1>a, <1>20 DEF CancelEntry, Goto, apic, ipis, sender
\* No request, and no EXITING.
<1>21. CASE Commit
  BY <1>0, <1>a, <1>21 DEF Commit, ExitRequest, Goto, apic, ipis, sender
<1>22. CASE VmEnter
  BY <1>0, <1>a, <1>22 DEF VmEnter, Goto, ipis, sender
<1>23. CASE LeaveFastpath \/ Exit \/ LeaveGuestMode
  BY <1>0, <1>a, <1>23 DEF LeaveFastpath, Exit, LeaveGuestMode, Goto, apic, ipis, sender
<1>24. CASE Handle
  BY <1>0, <1>a, <1>24 DEF Handle, Goto, ipis, sender
<1>25. CASE Runnable \/ Sleep \/ Wake
  BY <1>0, <1>a, <1>25 DEF Runnable, Sleep, Wake, Goto, apic, ipis, sender
<1>26. CASE Notified \/ Deliver
  BY <1>0, <1>a, <1>26 DEF Notified, Deliver, loop, ipis, sender
<1>27. CASE TakeIpis
  BY <1>0, <1>a, <1>27 DEF TakeIpis, IrqsOff, loop, apic, sender
<1>28. CASE UNCHANGED vars
  BY <1>0, <1>a, <1>28 DEF vars, loop, apic, ipis, sender
<1> QED
  BY <1>1, <1>2, <1>3, <1>4, <1>5, <1>6, <1>7, <1>8, <1>9, <1>10, <1>11, <1>12, <1>13, <1>14,
     <1>15, <1>16, <1>17, <1>18, <1>19, <1>20, <1>21, <1>22, <1>23, <1>24, <1>25, <1>26, <1>27,
     <1>28 DEF Next, Sender, Inhibitor, Thread, Guest

\* No guest runs on without knowing of an interrupt, unless somebody is on his way to tell it:
\* for any number of senders and vectors, with APICv switched on and off meanwhile.
THEOREM GuestIsToldCorrect == Spec => []GuestIsTold
<1>1. Init => ToldInv
  BY DEF Init, ToldInv, Shape, Accepted, PastSync, PastSetMode, InGuest, At
<1>2. ToldInv => GuestIsTold
  BY DEF ToldInv, GuestIsTold, Underway, PastSync, PastSetMode, InGuest, At
<1> QED
  BY <1>1, <1>2, ToldStep, PTL DEF Spec
=============================================================================
