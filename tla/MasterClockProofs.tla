------------------------- MODULE MasterClockProofs --------------------------
(***************************************************************************)
(* ClockConsistent for any number of vCPUs and events: what a guest reads  *)
(* is one snapshot, the current one unless an update is on its way, and    *)
(* the master copy is given up when a vCPU's TSC leaves the generation.    *)
(***************************************************************************)
EXTENDS MasterClock, FiniteSetTheorems, TLAPS

\* What the proofs assume of the constants.
Constants == "vm" \notin Vcpus /\ "none" \notin Vcpus /\ IsFiniteSet(Vcpus)

Copies == [use : BOOLEAN, cycle : Nat, ns : Nat]
Records == [copy : Copies, offset : Nat, odd : BOOLEAN]
Locked == {"cycle", "ns", "offset", "end"}
Reading == {"read", "half", "check"}

TypeInv ==
  /\ hostTsc \in BOOLEAN /\ useMaster \in BOOLEAN /\ odd \in BOOLEAN
  /\ generation \in SUBSET Vcpus /\ nr \in Int
  /\ cycle \in Nat /\ ns \in Nat /\ offset \in Nat /\ fresh \in Nat
  /\ lock \in Threads \cup {"none"}
  /\ requests \in [Vcpus -> SUBSET {"MCLK", "INPROGRESS", "GLOBAL", "CLOCK"}]
  /\ retry \in SUBSET Vcpus
  /\ pc \in [Threads -> {"idle", "wait", "request", "allow", "requests", "write", "entering",
                         "guest"} \cup Locked \cup Reading]
  /\ todo \in [Threads -> SUBSET Vcpus]
  /\ read \in [Vcpus -> Copies] /\ record \in [Vcpus -> Records]

(* Who writes the copy has the lock and the count is odd for as long; the two     *)
(* words differ only between its two stores.                                      *)
LockInv ==
  /\ \A t \in Threads : pc[t] \in Locked <=> lock = t
  /\ odd = (lock # "none")
  /\ (\A t \in Threads : pc[t] # "ns") => cycle = ns

\* nr_vcpus_matched_tsc counts the generation, without the vCPU that began it.
CountInv == nr + 1 = Cardinality(generation)

\* The sequence number v has read is the current one.
Stable(v) == v \notin retry /\ ~odd
Current == IF useMaster THEN [use |-> TRUE, cycle |-> cycle, ns |-> ns] ELSE Blank

(* A reader whose number is still current has read the current copy so far; what  *)
(* it is about to publish and what it has published are never torn.               *)
ReadInv == \A v \in Vcpus :
  /\ pc[v] = "half" /\ Stable(v) => read[v].use = useMaster /\ read[v].cycle = Current.cycle
  /\ pc[v] = "check" /\ Stable(v) => read[v] = Current
  /\ pc[v] = "write" => read[v].cycle = read[v].ns
  /\ record[v].copy.cycle = record[v].copy.ns

\* A vCPU outside the generation has an update before it that has not yet decided.
UpdateInv == useMaster /\ generation # Vcpus =>
  Pending \/ \E t \in Threads : pc[t] \in {"wait", "cycle", "ns"}

(* Every vCPU has the current copy, or will read it before it enters: it is       *)
(* reading, or it has a request or an update is about to make one.                *)
CoverInv == \A v \in Vcpus :
  /\ pc[v] \in {"entering", "guest"} => "GLOBAL" \notin requests[v]
  /\ useMaster =>
       \/ Due(v) \/ "GLOBAL" \in requests[v]
       \/ pc[v] \in Reading
       \/ IF pc[v] = "write" THEN read[v] = Current
          ELSE record[v].copy = Current /\ record[v].offset = offset

ClockInv == TypeInv /\ LockInv /\ CountInv /\ ReadInv /\ UpdateInv /\ CoverInv

-----------------------------------------------------------------------------
\* Snapshots are records of three fields.
LEMMA BlankType == Blank \in Copies
BY DEF Blank, Copies

LEMMA CopyEquality ==
  ASSUME NEW a \in Copies, NEW b \in Copies, a.use = b.use, a.cycle = b.cycle, a.ns = b.ns
  PROVE  a = b
BY DEF Copies

LEMMA BlankFields == Blank.use = FALSE /\ Blank.cycle = 0 /\ Blank.ns = 0
BY DEF Blank

\* No vCPU has a clock at the start.
LEMMA InitInv == ASSUME Constants PROVE Init => ClockInv
<1> SUFFICES ASSUME Init PROVE ClockInv  OBVIOUS
<1> USE DEF Init, Constants
<1>1. Cardinality(Vcpus) \in Nat  BY FS_CardinalityType
<1>2. TypeInv
  <2>1. PICK last \in Vcpus :
          requests = [v \in Vcpus |->
                       {"GLOBAL"} \cup (IF hostTsc /\ v = last THEN {"MCLK"} ELSE {})]
    OBVIOUS
  <2>2. requests \in [Vcpus -> SUBSET {"MCLK", "INPROGRESS", "GLOBAL", "CLOCK"}]
    BY <2>1
  <2>3. record \in [Vcpus -> Records] /\ read \in [Vcpus -> Copies]
    BY BlankType DEF Records
  <2>4. pc \in [Threads -> {"idle", "requests"}]
    OBVIOUS
  <2>5. generation \in SUBSET Vcpus /\ nr \in Int /\ retry \in SUBSET Vcpus
    BY <1>1
  <2>6. pc \in [Threads -> {"idle", "wait", "request", "allow", "requests", "write", "entering",
                             "guest"} \cup Locked \cup Reading]
    BY <2>4
  <2> HIDE DEF Constants
  <2> QED  BY <2>2, <2>3, <2>5, <2>6 DEF TypeInv
<1>3. LockInv /\ CountInv /\ ReadInv
  <2>1. \A t \in Threads : pc[t] \in {"idle", "requests"} /\ t # "none"
    BY DEF Threads
  <2>2. LockInv  BY <2>1 DEF LockInv, Locked
  <2>4. CountInv  BY <1>1 DEF CountInv
  <2>3. \A v \in Vcpus : v \in Threads /\ record[v].copy = Blank
    BY DEF Threads
  <2> QED  BY <2>1, <2>2, <2>3, <2>4, BlankFields DEF ReadInv
<1>4. UpdateInv /\ CoverInv
  <2>1. \A v \in Vcpus : pc[v] = "requests"
    BY DEF Threads
  <2> QED  BY <2>1 DEF UpdateInv, CoverInv
<1> QED  BY <1>2, <1>3, <1>4 DEF ClockInv

\* Every step keeps the types.
LEMMA TypeStep ==
  ASSUME Constants, TypeInv, [Next]_vars PROVE TypeInv'
<1> USE DEF TypeInv, Locked, Reading, Copies, Records, host, tsc, copy, seq, entry, seen, Threads, Go,
    Constants
<1>1. ASSUME NEW t \in Threads, Begin(t) PROVE TypeInv'
  BY <1>1, BlankType DEF Begin, Event, Make
<1>2. ASSUME NEW t \in Threads, Start(t) PROVE TypeInv'
  BY <1>2, BlankType DEF Start
<1>3. ASSUME NEW t \in Threads, WriteCycle(t) PROVE TypeInv'
  BY <1>3, BlankType DEF WriteCycle
<1>4. ASSUME NEW t \in Threads, WriteNs(t) PROVE TypeInv'
  BY <1>4, BlankType DEF WriteNs
<1>5. ASSUME NEW t \in Threads, End(t) PROVE TypeInv'
  BY <1>5, BlankType DEF End
<1>6. ASSUME NEW t \in Threads, NEW v \in Vcpus, RequestUpdate(t, v) PROVE TypeInv'
  BY <1>6, BlankType DEF RequestUpdate, Visited, Make
<1>7. ASSUME NEW t \in Threads, NEW v \in Vcpus, AllowEntry(t, v) PROVE TypeInv'
  BY <1>7, BlankType DEF AllowEntry, Visited, Check
<1>8. ASSUME NEW v \in Vcpus, GenUpdate(v) PROVE TypeInv'
  BY <1>8, BlankType DEF GenUpdate
<1>9. ASSUME NEW v \in Vcpus, ReadBegin(v) PROVE TypeInv'
  BY <1>9, BlankType DEF ReadBegin, Check
<1>10. ASSUME NEW v \in Vcpus, ReadCycle(v) PROVE TypeInv'
  BY <1>10, BlankType DEF ReadCycle
<1>11. ASSUME NEW v \in Vcpus, ReadNs(v) PROVE TypeInv'
  BY <1>11, BlankType DEF ReadNs
<1>12. ASSUME NEW v \in Vcpus, ReadEnd(v) PROVE TypeInv'
  <2>1. CASE MustRetry(v)  BY <1>12, <2>1 DEF ReadEnd
  <2>2. CASE ~MustRetry(v)
    <3>1. record' = [record EXCEPT ![v] = [record[v] EXCEPT !.odd = TRUE]]
      BY <1>12, <2>2 DEF ReadEnd
    <3>2. record[v] \in Records  OBVIOUS
    <3>3. [record[v] EXCEPT !.odd = TRUE] \in Records
      BY <3>2
    <3>4. record' \in [Vcpus -> Records]
      BY <3>1, <3>3
    <3> QED  BY <1>12, <2>2, <3>4 DEF ReadEnd
  <2> QED  BY <2>1, <2>2
<1>13. ASSUME NEW v \in Vcpus, SetupPvclock(v) PROVE TypeInv'
  BY <1>13, BlankType DEF SetupPvclock
<1>14. ASSUME NEW v \in Vcpus, Enter(v) PROVE TypeInv'
  BY <1>14, BlankType DEF Enter
<1>15. ASSUME NEW v \in Vcpus, Entered(v) PROVE TypeInv'
  BY <1>15, BlankType DEF Entered
<1>16. ASSUME NEW v \in Vcpus, Exit(v) PROVE TypeInv'
  BY <1>16, BlankType DEF Exit
<1>17. ASSUME NEW v \in Vcpus, VcpuLoad(v) PROVE TypeInv'
  BY <1>17, BlankType DEF VcpuLoad, Make
<1>18. ASSUME NEW v \in Vcpus, NEW b \in BOOLEAN, SynchronizeTsc(v, b) PROVE TypeInv'
  <2>1. generation' \in SUBSET Vcpus /\ nr' \in Int
    <3>1. CASE b
      <4>1. nr' = (IF v \in generation THEN nr ELSE nr + 1) /\ generation' = generation \cup {v}
        BY <1>18, <3>1 DEF SynchronizeTsc
      <4> QED  BY <4>1
    <3>2. CASE ~b  BY <1>18, <3>2 DEF SynchronizeTsc
    <3> QED  BY <3>1, <3>2
  <2>2. requests' \in [Vcpus -> SUBSET {"MCLK", "INPROGRESS", "GLOBAL", "CLOCK"}]
    BY <1>18 DEF SynchronizeTsc, Make
  <2> QED  BY <1>18, <2>1, <2>2 DEF SynchronizeTsc
<1>19. ASSUME NEW v \in Vcpus, NEW b \in BOOLEAN, WriteSystemTime(v, b) PROVE TypeInv'
  BY <1>19, BlankType DEF WriteSystemTime, Event
<1>20. ASSUME UpdateWork PROVE TypeInv'
  BY <1>20, BlankType DEF UpdateWork, Make
<1>21. ASSUME GtodNotify PROVE TypeInv'
  BY <1>21, BlankType DEF GtodNotify, Event
<1>22. ASSUME GtodWork PROVE TypeInv'
  BY <1>22, BlankType DEF GtodWork, Make
<1>23. ASSUME GtodWorkEnd PROVE TypeInv'
  BY <1>23, BlankType DEF GtodWorkEnd
<1>24. ASSUME UNCHANGED vars PROVE TypeInv'
  BY <1>24, BlankType DEF vars
<1>25. ASSUME NEW t \in Threads, SetOffset(t) PROVE TypeInv'
  BY <1>25, BlankType DEF SetOffset
<1>26. ASSUME NEW t \in Threads, Requested(t) PROVE TypeInv'
  BY <1>26, BlankType DEF Requested
<1>27. ASSUME NEW t \in Threads, Allowed(t) PROVE TypeInv'
  BY <1>27, BlankType DEF Allowed
<1>28. ASSUME HardwareEnable PROVE TypeInv'
  BY <1>28, BlankType DEF HardwareEnable, Event, Make
<1> HIDE DEF TypeInv, Locked, Reading, Copies, Records, host, tsc, copy, seq, entry, seen, Threads, Go,
    Constants
<1> QED  BY <1>1, <1>2, <1>3, <1>4, <1>5, <1>6, <1>7, <1>8, <1>9, <1>10, <1>11, <1>12, <1>13,
    <1>14, <1>15, <1>16, <1>17, <1>18, <1>19, <1>20, <1>21, <1>22, <1>23, <1>24, <1>25, <1>26,
    <1>27, <1>28 DEF Next, Update

\* The lock, the count and the words.
LEMMA LockStep ==
  ASSUME Constants, TypeInv, LockInv, [Next]_vars PROVE LockInv'
<1> USE DEF TypeInv, LockInv, Locked, Reading, host, tsc, copy, seq, entry, seen, Threads, Go,
    Constants
<1>1. ASSUME NEW t \in Threads, Begin(t) PROVE LockInv'
  BY <1>1 DEF Begin, Event, Make
<1>2. ASSUME NEW t \in Threads, Start(t) PROVE LockInv'
  BY <1>2 DEF Start
<1>3. ASSUME NEW t \in Threads, WriteCycle(t) PROVE LockInv'
  BY <1>3 DEF WriteCycle
<1>4. ASSUME NEW t \in Threads, WriteNs(t) PROVE LockInv'
  BY <1>4 DEF WriteNs
<1>5. ASSUME NEW t \in Threads, End(t) PROVE LockInv'
  BY <1>5 DEF End
<1>6. ASSUME NEW t \in Threads, NEW v \in Vcpus, RequestUpdate(t, v) PROVE LockInv'
  BY <1>6 DEF RequestUpdate, Visited, Make
<1>7. ASSUME NEW t \in Threads, NEW v \in Vcpus, AllowEntry(t, v) PROVE LockInv'
  BY <1>7 DEF AllowEntry, Visited, Check
<1>8. ASSUME NEW v \in Vcpus, GenUpdate(v) PROVE LockInv'
  BY <1>8 DEF GenUpdate
<1>9. ASSUME NEW v \in Vcpus, ReadBegin(v) PROVE LockInv'
  BY <1>9 DEF ReadBegin, Check
<1>10. ASSUME NEW v \in Vcpus, ReadCycle(v) PROVE LockInv'
  BY <1>10 DEF ReadCycle
<1>11. ASSUME NEW v \in Vcpus, ReadNs(v) PROVE LockInv'
  BY <1>11 DEF ReadNs
<1>12. ASSUME NEW v \in Vcpus, ReadEnd(v) PROVE LockInv'
  BY <1>12 DEF ReadEnd
<1>13. ASSUME NEW v \in Vcpus, SetupPvclock(v) PROVE LockInv'
  BY <1>13 DEF SetupPvclock
<1>14. ASSUME NEW v \in Vcpus, Enter(v) PROVE LockInv'
  BY <1>14 DEF Enter
<1>15. ASSUME NEW v \in Vcpus, Entered(v) PROVE LockInv'
  BY <1>15 DEF Entered
<1>16. ASSUME NEW v \in Vcpus, Exit(v) PROVE LockInv'
  BY <1>16 DEF Exit
<1>17. ASSUME NEW v \in Vcpus, VcpuLoad(v) PROVE LockInv'
  BY <1>17 DEF VcpuLoad, Make
<1>18. ASSUME NEW v \in Vcpus, NEW b \in BOOLEAN, SynchronizeTsc(v, b) PROVE LockInv'
  BY <1>18 DEF SynchronizeTsc, Event, NeedsUpdate, Make
<1>19. ASSUME NEW v \in Vcpus, NEW b \in BOOLEAN, WriteSystemTime(v, b) PROVE LockInv'
  BY <1>19 DEF WriteSystemTime, Event
<1>20. ASSUME UpdateWork PROVE LockInv'
  BY <1>20 DEF UpdateWork, Make
<1>21. ASSUME GtodNotify PROVE LockInv'
  BY <1>21 DEF GtodNotify, Event
<1>22. ASSUME GtodWork PROVE LockInv'
  BY <1>22 DEF GtodWork, Make
<1>23. ASSUME GtodWorkEnd PROVE LockInv'
  BY <1>23 DEF GtodWorkEnd
<1>24. ASSUME UNCHANGED vars PROVE LockInv'
  BY <1>24 DEF vars
<1>25. ASSUME NEW t \in Threads, SetOffset(t) PROVE LockInv'
  BY <1>25 DEF SetOffset
<1>26. ASSUME NEW t \in Threads, Requested(t) PROVE LockInv'
  BY <1>26 DEF Requested
<1>27. ASSUME NEW t \in Threads, Allowed(t) PROVE LockInv'
  BY <1>27 DEF Allowed
<1>28. ASSUME HardwareEnable PROVE LockInv'
  BY <1>28 DEF HardwareEnable, Event, Make
<1> HIDE DEF TypeInv, LockInv, Locked, Reading, host, tsc, copy, seq, entry, seen, Threads,
    Go, Constants
<1> QED  BY <1>1, <1>2, <1>3, <1>4, <1>5, <1>6, <1>7, <1>8, <1>9, <1>10, <1>11, <1>12, <1>13,
    <1>14, <1>15, <1>16, <1>17, <1>18, <1>19, <1>20, <1>21, <1>22, <1>23, <1>24, <1>25, <1>26,
    <1>27, <1>28 DEF Next, Update

\* Synchronizing a TSC adds one to the count, or begins it anew.
LEMMA CountStep ==
  ASSUME Constants, TypeInv, CountInv, [Next]_vars PROVE CountInv'
<1> USE DEF CountInv
<1>1. ASSUME NEW v \in Vcpus, NEW b \in BOOLEAN, SynchronizeTsc(v, b) PROVE CountInv'
  <2>1. IsFiniteSet(generation)  BY FS_Subset DEF Constants, TypeInv
  <2>2. CASE b
    <3>1. /\ nr' = IF v \in generation THEN nr ELSE nr + 1
          /\ generation' = generation \cup {v}
      BY <1>1, <2>2 DEF SynchronizeTsc
    <3> QED  BY <2>1, <3>1, FS_AddElement DEF TypeInv
  <2>3. CASE ~b
    <3>1. nr' = 0 /\ generation' = {v}
      BY <1>1, <2>3 DEF SynchronizeTsc
    <3>2. Cardinality({v}) = 1  BY FS_Singleton
    <3> QED  BY <3>1, <3>2
  <2> QED  BY <2>2, <2>3
<1>2. ASSUME ~ \E v \in Vcpus, b \in BOOLEAN : SynchronizeTsc(v, b) PROVE UNCHANGED tsc
  BY <1>2 DEF Next, Update, Begin, Start, WriteCycle, WriteNs, SetOffset, End,
     RequestUpdate, Requested, AllowEntry, Allowed, HardwareEnable,
     GenUpdate, ReadBegin, ReadCycle, ReadNs, ReadEnd, SetupPvclock, Enter, Entered, Exit,
     VcpuLoad, WriteSystemTime, UpdateWork, GtodNotify, GtodWork, GtodWorkEnd, vars, tsc
<1> QED  BY <1>1, <1>2 DEF tsc

\* Copies change only under an odd count, and its end makes all readers retry.
LEMMA ReadStep ==
  ASSUME Constants, TypeInv, LockInv, ReadInv, [Next]_vars PROVE ReadInv'
<1>w. ASSUME NEW t \in Threads, WriteNs(t)
      PROVE  /\ pc[t] = "ns" /\ pc' = [pc EXCEPT ![t] = IF t = "vm" THEN "offset" ELSE "end"]
             /\ UNCHANGED <<odd, retry, read, record>>
  BY <1>w DEF WriteNs, Go, seq, seen
<1> USE DEF TypeInv, LockInv, ReadInv, Stable, Current, Locked, Reading, Copies, Records, host, tsc,
    copy, seq, entry, seen, Threads, Go, Constants
<1>1. ASSUME NEW t \in Threads, Begin(t) PROVE ReadInv'
  BY <1>1, BlankFields DEF Begin, Event, Make
<1>2. ASSUME NEW t \in Threads, Start(t) PROVE ReadInv'
  BY <1>2, BlankFields DEF Start
<1>3. ASSUME NEW t \in Threads, WriteCycle(t) PROVE ReadInv'
  BY <1>3, BlankFields DEF WriteCycle
<1>4. ASSUME NEW t \in Threads, WriteNs(t) PROVE ReadInv'
  <2>1. /\ pc[t] = "ns" /\ pc' = [pc EXCEPT ![t] = IF t = "vm" THEN "offset" ELSE "end"]
        /\ UNCHANGED <<odd, retry, read, record>>
    BY <1>4, <1>w
  <2>2. lock = t /\ t # "none"  BY <2>1
  <2>2a. odd  BY <2>2
  <2>3. \A w \in Vcpus : pc'[w] = "write" => pc[w] = "write"  BY <2>1
  <2> HIDE DEF Current
  <2> QED  BY <2>1, <2>2a, <2>3
<1>5. ASSUME NEW t \in Threads, End(t) PROVE ReadInv'
  BY <1>5, BlankFields DEF End
<1>6. ASSUME NEW t \in Threads, NEW v \in Vcpus, RequestUpdate(t, v) PROVE ReadInv'
  BY <1>6, BlankFields DEF RequestUpdate, Visited, Make
<1>7. ASSUME NEW t \in Threads, NEW v \in Vcpus, AllowEntry(t, v) PROVE ReadInv'
  BY <1>7, BlankFields DEF AllowEntry, Visited, Check
<1>8. ASSUME NEW v \in Vcpus, GenUpdate(v) PROVE ReadInv'
  BY <1>8, BlankFields DEF GenUpdate
<1>9. ASSUME NEW v \in Vcpus, ReadBegin(v) PROVE ReadInv'
  BY <1>9, BlankFields DEF ReadBegin, Check
<1>10. ASSUME NEW v \in Vcpus, ReadCycle(v) PROVE ReadInv'
  <2>1. /\ read' = [read EXCEPT ![v] =
               IF useMaster THEN [read[v] EXCEPT !.use = TRUE, !.cycle = cycle] ELSE Blank]
        /\ pc' = [pc EXCEPT ![v] = "half"]
    BY <1>10 DEF ReadCycle
  <2>2. read[v] \in Copies  BY DEF Copies
  <2>3. read'[v].use = useMaster /\ read'[v].cycle = Current.cycle
    <3>1. CASE useMaster
      BY <2>1, <2>2, <3>1 DEF Copies
    <3>2. CASE ~useMaster
      BY <2>1, <3>2, BlankFields
    <3> QED  BY <3>1, <3>2
  <2>4. \A w \in Vcpus : w # v => read'[w] = read[w] /\ pc'[w] = pc[w]
    BY <2>1
  <2>5. /\ UNCHANGED <<record, useMaster, cycle, ns, odd>>
        /\ retry' = retry \ {v} /\ pc'[v] = "half"
    BY <1>10, <2>1 DEF ReadCycle
  <2>6. Current' = Current  BY <2>5
  <2> HIDE DEF Current
  <2> QED  BY <2>3, <2>4, <2>5, <2>6
<1>11. ASSUME NEW v \in Vcpus, ReadNs(v) PROVE ReadInv'
  <2>1. /\ read' = [read EXCEPT ![v] = [read[v] EXCEPT !.ns = IF read[v].use THEN ns ELSE 0]]
        /\ pc' = [pc EXCEPT ![v] = "check"] /\ pc[v] = "half"
    BY <1>11 DEF ReadNs
  <2>2. read[v] \in Copies  BY DEF Copies
  <2>3. /\ read'[v].use = read[v].use /\ read'[v].cycle = read[v].cycle
        /\ read'[v].ns = IF read[v].use THEN ns ELSE 0
        /\ read'[v] \in Copies
    BY <2>1, <2>2 DEF Copies
  <2>4. \A w \in Vcpus : w # v => read'[w] = read[w] /\ pc'[w] = pc[w]
    BY <2>1
  <2>5. UNCHANGED <<record, useMaster, cycle, ns, odd, retry>> /\ pc'[v] = "check"
    BY <1>11, <2>1 DEF ReadNs
  <2>6. Current' = Current /\ Current \in Copies  BY <2>5, BlankType DEF Copies
  <2>7. Current.use = useMaster /\ Current.ns = IF useMaster THEN ns ELSE 0
    BY BlankFields
  <2>8. ASSUME Stable(v) PROVE read'[v] = Current
    <3>1. /\ read'[v].use = Current.use /\ read'[v].cycle = Current.cycle
          /\ read'[v].ns = Current.ns
      BY <2>1, <2>3, <2>7, <2>8
    <3> HIDE DEF Current, Copies
    <3> QED  BY <2>3, <2>6, <3>1, CopyEquality
  <2> HIDE DEF Current
  <2> QED  BY <2>4, <2>5, <2>6, <2>8
<1>12. ASSUME NEW v \in Vcpus, ReadEnd(v) PROVE ReadInv'
  <2>1. CASE MustRetry(v)  BY <1>12, <2>1 DEF ReadEnd
  <2>2. CASE ~MustRetry(v)
    <3>1. /\ record' = [record EXCEPT ![v] = [record[v] EXCEPT !.odd = TRUE]]
          /\ pc' = [pc EXCEPT ![v] = "write"] /\ pc[v] = "check"
          /\ UNCHANGED <<useMaster, cycle, ns, odd, retry, read>>
      BY <1>12, <2>2 DEF ReadEnd
    <3>2. record[v] \in Records  BY DEF Copies
    <3>3. \A w \in Vcpus : record'[w].copy = record[w].copy
      BY <3>1, <3>2
    <3>4. cycle = ns /\ read[v] = Current
      <4>1. Stable(v) /\ lock = "none"  BY <2>2 DEF MustRetry
      <4>2. \A t \in Threads : pc[t] \notin Locked  BY <4>1
      <4>3. cycle = ns  BY <4>2
      <4> HIDE DEF Stable, Current
      <4> QED  BY <3>1, <4>1, <4>3
    <3>5. read[v].cycle = read[v].ns
      BY <3>4, BlankFields
    <3>6. \A w \in Vcpus : w # v => pc'[w] = pc[w]
      BY <3>1
    <3>7. Current' = Current /\ pc'[v] = "write"  BY <3>1
    <3> HIDE DEF Current
    <3> QED  BY <3>1, <3>3, <3>5, <3>6, <3>7
  <2> QED  BY <2>1, <2>2
<1>13. ASSUME NEW v \in Vcpus, SetupPvclock(v) PROVE ReadInv'
  BY <1>13, BlankFields DEF SetupPvclock
<1>14. ASSUME NEW v \in Vcpus, Enter(v) PROVE ReadInv'
  BY <1>14, BlankFields DEF Enter
<1>15. ASSUME NEW v \in Vcpus, Entered(v) PROVE ReadInv'
  BY <1>15, BlankFields DEF Entered
<1>16. ASSUME NEW v \in Vcpus, Exit(v) PROVE ReadInv'
  BY <1>16, BlankFields DEF Exit
<1>17. ASSUME NEW v \in Vcpus, VcpuLoad(v) PROVE ReadInv'
  BY <1>17, BlankFields DEF VcpuLoad, Make
<1>18. ASSUME NEW v \in Vcpus, NEW b \in BOOLEAN, SynchronizeTsc(v, b) PROVE ReadInv'
  BY <1>18, BlankFields DEF SynchronizeTsc, Event, NeedsUpdate, Make
<1>19. ASSUME NEW v \in Vcpus, NEW b \in BOOLEAN, WriteSystemTime(v, b) PROVE ReadInv'
  BY <1>19, BlankFields DEF WriteSystemTime, Event
<1>20. ASSUME UpdateWork PROVE ReadInv'
  BY <1>20, BlankFields DEF UpdateWork, Make
<1>21. ASSUME GtodNotify PROVE ReadInv'
  BY <1>21, BlankFields DEF GtodNotify, Event
<1>22. ASSUME GtodWork PROVE ReadInv'
  BY <1>22, BlankFields DEF GtodWork, Make
<1>23. ASSUME GtodWorkEnd PROVE ReadInv'
  BY <1>23, BlankFields DEF GtodWorkEnd
<1>24. ASSUME UNCHANGED vars PROVE ReadInv'
  BY <1>24, BlankFields DEF vars
<1>25. ASSUME NEW t \in Threads, SetOffset(t) PROVE ReadInv'
  BY <1>25, BlankFields DEF SetOffset
<1>26. ASSUME NEW t \in Threads, Requested(t) PROVE ReadInv'
  BY <1>26, BlankFields DEF Requested
<1>27. ASSUME NEW t \in Threads, Allowed(t) PROVE ReadInv'
  BY <1>27, BlankFields DEF Allowed
<1>28. ASSUME HardwareEnable PROVE ReadInv'
  BY <1>28, BlankFields DEF HardwareEnable, Event, Make
<1> HIDE DEF TypeInv, LockInv, ReadInv, Stable, Current, Locked, Reading, Copies, Records, host, tsc,
    copy, seq, entry, seen, Threads, Go, Constants
<1> QED  BY <1>1, <1>2, <1>3, <1>4, <1>5, <1>6, <1>7, <1>8, <1>9, <1>10, <1>11, <1>12, <1>13,
    <1>14, <1>15, <1>16, <1>17, <1>18, <1>19, <1>20, <1>21, <1>22, <1>23, <1>24, <1>25, <1>26,
    <1>27, <1>28 DEF Next, Update

\* Leaving the generation makes the request; deciding for the copy needs all of it.
LEMMA UpdateStep ==
  ASSUME Constants, TypeInv, CountInv, UpdateInv, [Next]_vars PROVE UpdateInv'
<1> USE DEF TypeInv, UpdateInv, Pending, host, tsc, copy, seq, entry, seen, Threads, Go,
    Constants
<1>1. ASSUME NEW t \in Threads, Begin(t) PROVE UpdateInv'
  BY <1>1 DEF Begin, Event, Make
<1>2. ASSUME NEW t \in Threads, Start(t) PROVE UpdateInv'
  BY <1>2 DEF Start
<1>3. ASSUME NEW t \in Threads, WriteCycle(t) PROVE UpdateInv'
  BY <1>3 DEF WriteCycle
<1>4. ASSUME NEW t \in Threads, WriteNs(t) PROVE UpdateInv'
  <2>1. ASSUME useMaster' PROVE generation' = Vcpus
    BY <1>4, <2>1, FS_Subset DEF WriteNs, Matched, CountInv
  <2> QED  BY <2>1
<1>5. ASSUME NEW t \in Threads, End(t) PROVE UpdateInv'
  BY <1>5 DEF End
<1>6. ASSUME NEW t \in Threads, NEW v \in Vcpus, RequestUpdate(t, v) PROVE UpdateInv'
  BY <1>6 DEF RequestUpdate, Visited, Make
<1>7. ASSUME NEW t \in Threads, NEW v \in Vcpus, AllowEntry(t, v) PROVE UpdateInv'
  BY <1>7 DEF AllowEntry, Visited, Check
<1>8. ASSUME NEW v \in Vcpus, GenUpdate(v) PROVE UpdateInv'
  BY <1>8 DEF GenUpdate
<1>9. ASSUME NEW v \in Vcpus, ReadBegin(v) PROVE UpdateInv'
  BY <1>9 DEF ReadBegin, Check
<1>10. ASSUME NEW v \in Vcpus, ReadCycle(v) PROVE UpdateInv'
  BY <1>10 DEF ReadCycle
<1>11. ASSUME NEW v \in Vcpus, ReadNs(v) PROVE UpdateInv'
  BY <1>11 DEF ReadNs
<1>12. ASSUME NEW v \in Vcpus, ReadEnd(v) PROVE UpdateInv'
  BY <1>12 DEF ReadEnd
<1>13. ASSUME NEW v \in Vcpus, SetupPvclock(v) PROVE UpdateInv'
  BY <1>13 DEF SetupPvclock
<1>14. ASSUME NEW v \in Vcpus, Enter(v) PROVE UpdateInv'
  BY <1>14 DEF Enter
<1>15. ASSUME NEW v \in Vcpus, Entered(v) PROVE UpdateInv'
  BY <1>15 DEF Entered
<1>16. ASSUME NEW v \in Vcpus, Exit(v) PROVE UpdateInv'
  BY <1>16 DEF Exit
<1>17. ASSUME NEW v \in Vcpus, VcpuLoad(v) PROVE UpdateInv'
  BY <1>17 DEF VcpuLoad, Make
<1>18. ASSUME NEW v \in Vcpus, NEW b \in BOOLEAN, SynchronizeTsc(v, b) PROVE UpdateInv'
  <2>1. ASSUME NeedsUpdate(~b, nr' + 1 = Cardinality(Vcpus) /\ hostTsc) PROVE UpdateInv'
    BY <1>18, <2>1 DEF SynchronizeTsc, Make
  <2>2. ASSUME ~NeedsUpdate(~b, nr' + 1 = Cardinality(Vcpus) /\ hostTsc) PROVE UpdateInv'
    <3>1. CASE b
      <4>1. generation' = generation \cup {v} /\ UNCHANGED <<requests, pc, useMaster>>
        BY <1>18, <2>2, <3>1 DEF SynchronizeTsc
      <4> QED  BY <4>1
    <3>2. CASE ~b
      <4>1. ~useMaster /\ UNCHANGED useMaster
        BY <1>18, <2>2, <3>2 DEF SynchronizeTsc, NeedsUpdate
      <4> QED  BY <4>1
    <3> QED  BY <3>1, <3>2
  <2> QED  BY <2>1, <2>2
<1>19. ASSUME NEW v \in Vcpus, NEW b \in BOOLEAN, WriteSystemTime(v, b) PROVE UpdateInv'
  BY <1>19 DEF WriteSystemTime, Event
<1>20. ASSUME UpdateWork PROVE UpdateInv'
  BY <1>20 DEF UpdateWork, Make
<1>21. ASSUME GtodNotify PROVE UpdateInv'
  BY <1>21 DEF GtodNotify, Event
<1>22. ASSUME GtodWork PROVE UpdateInv'
  BY <1>22 DEF GtodWork, Make
<1>23. ASSUME GtodWorkEnd PROVE UpdateInv'
  BY <1>23 DEF GtodWorkEnd
<1>24. ASSUME UNCHANGED vars PROVE UpdateInv'
  BY <1>24 DEF vars
<1>25. ASSUME NEW t \in Threads, SetOffset(t) PROVE UpdateInv'
  BY <1>25 DEF SetOffset
<1>26. ASSUME NEW t \in Threads, Requested(t) PROVE UpdateInv'
  BY <1>26 DEF Requested
<1>27. ASSUME NEW t \in Threads, Allowed(t) PROVE UpdateInv'
  BY <1>27 DEF Allowed
<1>28. ASSUME HardwareEnable PROVE UpdateInv'
  BY <1>28 DEF HardwareEnable, Event, Make
<1> HIDE DEF TypeInv, UpdateInv, Pending, host, tsc, copy, seq, entry, seen, Threads, Go,
    Constants
<1> QED  BY <1>1, <1>2, <1>3, <1>4, <1>5, <1>6, <1>7, <1>8, <1>9, <1>10, <1>11, <1>12, <1>13,
    <1>14, <1>15, <1>16, <1>17, <1>18, <1>19, <1>20, <1>21, <1>22, <1>23, <1>24, <1>25, <1>26,
    <1>27, <1>28 DEF Next, Update

\* Copies change only in an update, which makes requests at its end.
LEMMA CoverStep ==
  ASSUME Constants, TypeInv, LockInv, ReadInv, CoverInv, [Next]_vars PROVE CoverInv'
<1> USE DEF TypeInv, LockInv, CoverInv, Due, Current, Reading, Locked, host, tsc, copy, seq, entry,
    seen, Threads, Go, Constants
<1>1. ASSUME NEW t \in Threads, Begin(t) PROVE CoverInv'
  <2>1. /\ pc' = [pc EXCEPT ![t] = "wait"]
        /\ UNCHANGED <<useMaster, cycle, ns, offset, todo, read, record>>
    BY <1>1 DEF Begin
  <2>2. \A w \in Vcpus : \A r \in {"GLOBAL", "CLOCK"} : r \in requests'[w] <=> r \in requests[w]
    BY <1>1 DEF Begin, Make
  <2>3. pc[t] \in {"idle", "requests"}  BY <1>1 DEF Begin
  <2>4. Current' = Current  BY <2>1
  <2> HIDE DEF Current
  <2> QED  BY <2>1, <2>2, <2>4, <2>3
<1>2. ASSUME NEW t \in Threads, Start(t) PROVE CoverInv'
  BY <1>2 DEF Start
<1>3. ASSUME NEW t \in Threads, WriteCycle(t) PROVE CoverInv'
  BY <1>3 DEF WriteCycle
<1>4. ASSUME NEW t \in Threads, WriteNs(t) PROVE CoverInv'
  BY <1>4 DEF WriteNs
<1>5. ASSUME NEW t \in Threads, End(t) PROVE CoverInv'
  BY <1>5 DEF End
<1>6. ASSUME NEW t \in Threads, NEW v \in Vcpus, RequestUpdate(t, v) PROVE CoverInv'
  BY <1>6 DEF RequestUpdate, Visited, Make
<1>7. ASSUME NEW t \in Threads, NEW v \in Vcpus, AllowEntry(t, v) PROVE CoverInv'
  <2>1. pc[t] = "allow" /\ UNCHANGED <<pc, useMaster, cycle, ns, offset, read, record>>
    BY <1>7 DEF AllowEntry
  <2>2. \A w \in Vcpus : \A q \in {"GLOBAL", "CLOCK"} : q \in requests'[w] <=> q \in requests[w]
    BY <1>7 DEF AllowEntry, Check
  <2>3. \A u \in Threads : u # t => todo'[u] = todo[u]
    BY <1>7 DEF AllowEntry, Visited
  <2>4. Current' = Current  BY <2>1
  <2> HIDE DEF Current
  <2> QED  BY <2>1, <2>2, <2>3, <2>4
<1>8. ASSUME NEW v \in Vcpus, GenUpdate(v) PROVE CoverInv'
  BY <1>8 DEF GenUpdate
<1>9. ASSUME NEW v \in Vcpus, ReadBegin(v) PROVE CoverInv'
  <2>1. /\ pc[v] = "requests" /\ pc' = [pc EXCEPT ![v] = "read"]
        /\ UNCHANGED <<useMaster, cycle, ns, offset, todo, read, record>>
    BY <1>9 DEF ReadBegin
  <2>2. \A w \in Vcpus : w # v => requests'[w] = requests[w]  BY <1>9 DEF ReadBegin, Check
  <2>3. \A u \in Threads : u # v => pc'[u] = pc[u]  BY <2>1
  <2>4. Current' = Current /\ pc'[v] = "read"  BY <2>1
  <2> HIDE DEF Current
  <2> QED  BY <2>1, <2>2, <2>3, <2>4
<1>10. ASSUME NEW v \in Vcpus, ReadCycle(v) PROVE CoverInv'
  BY <1>10 DEF ReadCycle
<1>11. ASSUME NEW v \in Vcpus, ReadNs(v) PROVE CoverInv'
  <2>1. /\ pc[v] = "half" /\ pc' = [pc EXCEPT ![v] = "check"]
        /\ UNCHANGED <<useMaster, cycle, ns, offset, todo, requests, record>>
    BY <1>11 DEF ReadNs
  <2>2. \A w \in Vcpus : w # v => read'[w] = read[w]  BY <1>11 DEF ReadNs
  <2>3. \A u \in Threads : u # v => pc'[u] = pc[u]  BY <2>1
  <2>4. Current' = Current /\ pc'[v] = "check"  BY <2>1
  <2> HIDE DEF Current
  <2> QED  BY <2>1, <2>2, <2>3, <2>4
<1>12. ASSUME NEW v \in Vcpus, ReadEnd(v) PROVE CoverInv'
  <2>1. CASE MustRetry(v)
    <3>1. /\ pc' = [pc EXCEPT ![v] = "read"] /\ pc[v] = "check"
          /\ UNCHANGED <<useMaster, cycle, ns, offset, todo, read, requests, record>>
      BY <1>12, <2>1 DEF ReadEnd
    <3>2. \A w \in Vcpus : w # v => pc'[w] = pc[w]  BY <3>1
    <3>3. \A u \in Threads : pc[u] \in {"ns", "offset", "end", "request"} => pc'[u] = pc[u]
      BY <3>1
    <3>4. Current' = Current /\ pc'[v] = "read"  BY <3>1
    <3> HIDE DEF Current
    <3> QED  BY <3>1, <3>2, <3>3, <3>4
  <2>2. CASE ~MustRetry(v)
    <3>1. /\ pc' = [pc EXCEPT ![v] = "write"] /\ pc[v] = "check"
          /\ UNCHANGED <<useMaster, cycle, ns, offset, todo, odd, retry, read, requests>>
          /\ record' = [record EXCEPT ![v] = [record[v] EXCEPT !.odd = TRUE]]
      BY <1>12, <2>2 DEF ReadEnd
    <3>2. read[v] = Current
      BY <2>2, <3>1 DEF MustRetry, ReadInv, Stable
    <3>3. \A w \in Vcpus : w # v => pc'[w] = pc[w] /\ record'[w] = record[w]
      BY <3>1
    <3>4. Current' = Current /\ pc'[v] = "write"  BY <3>1
    <3>5. \A u \in Threads : pc[u] \in {"ns", "offset", "end", "request"} => pc'[u] = pc[u]
      BY <3>1
    <3> HIDE DEF Current
    <3> QED  BY <3>1, <3>2, <3>3, <3>4, <3>5
  <2> QED  BY <2>1, <2>2
<1>13. ASSUME NEW v \in Vcpus, SetupPvclock(v) PROVE CoverInv'
  <2>1. /\ pc[v] = "write" /\ pc' = [pc EXCEPT ![v] = "requests"]
        /\ record' = [record EXCEPT ![v] = [copy |-> read[v], offset |-> offset, odd |-> FALSE]]
        /\ UNCHANGED <<useMaster, cycle, ns, offset, todo, requests>>
    BY <1>13 DEF SetupPvclock
  <2>2. \A w \in Vcpus : w # v => read'[w] = read[w] /\ record'[w] = record[w]
    BY <1>13 DEF SetupPvclock
  <2>3. \A u \in Threads : u # v => pc'[u] = pc[u]  BY <2>1
  <2>4. record'[v].copy = read[v] /\ record'[v].offset = offset  BY <2>1
  <2>5. Current' = Current /\ pc'[v] = "requests"  BY <2>1
  <2> HIDE DEF Current
  <2> QED  BY <2>1, <2>2, <2>3, <2>4, <2>5
<1>14. ASSUME NEW v \in Vcpus, Enter(v) PROVE CoverInv'
  BY <1>14 DEF Enter
<1>15. ASSUME NEW v \in Vcpus, Entered(v) PROVE CoverInv'
  <2>1. UNCHANGED <<useMaster, cycle, ns, offset, todo, read, requests, record>> /\ pc[v] = "entering"
    BY <1>15 DEF Entered
  <2>2. PICK to \in {"requests", "guest"} : pc' = [pc EXCEPT ![v] = to]
    BY <1>15 DEF Entered
  <2>3. \A u \in Threads : u # v => pc'[u] = pc[u]  BY <2>2
  <2>4. Current' = Current /\ pc'[v] = to  BY <2>1, <2>2
  <2>5. \A u \in Threads : pc[u] \in {"ns", "offset", "end", "request"} => pc'[u] = pc[u]
    BY <2>1, <2>3
  <2> HIDE DEF Current
  <2> QED  BY <2>1, <2>3, <2>4, <2>5
<1>16. ASSUME NEW v \in Vcpus, Exit(v) PROVE CoverInv'
  BY <1>16 DEF Exit
<1>17. ASSUME NEW v \in Vcpus, VcpuLoad(v) PROVE CoverInv'
  BY <1>17 DEF VcpuLoad, Make
<1>18. ASSUME NEW v \in Vcpus, NEW b \in BOOLEAN, SynchronizeTsc(v, b) PROVE CoverInv'
  <2>1. UNCHANGED <<pc, useMaster, cycle, ns, offset, todo, read, record>> /\ pc[v] = "requests"
    BY <1>18 DEF SynchronizeTsc
  <2>2. \A w \in Vcpus : \A r \in {"GLOBAL", "CLOCK"} : r \in requests'[w] <=> r \in requests[w]
    BY <1>18 DEF SynchronizeTsc, Make
  <2>4. Current' = Current  BY <2>1
  <2> HIDE DEF Current
  <2> QED  BY <2>1, <2>2, <2>4
<1>19. ASSUME NEW v \in Vcpus, NEW b \in BOOLEAN, WriteSystemTime(v, b) PROVE CoverInv'
  BY <1>19 DEF WriteSystemTime, Event
<1>20. ASSUME UpdateWork PROVE CoverInv'
  BY <1>20 DEF UpdateWork, Make
<1>21. ASSUME GtodNotify PROVE CoverInv'
  BY <1>21 DEF GtodNotify, Event
<1>22. ASSUME GtodWork PROVE CoverInv'
  BY <1>22 DEF GtodWork, Make
<1>23. ASSUME GtodWorkEnd PROVE CoverInv'
  BY <1>23 DEF GtodWorkEnd
<1>24. ASSUME UNCHANGED vars PROVE CoverInv'
  BY <1>24 DEF vars
<1>25. ASSUME NEW t \in Threads, SetOffset(t) PROVE CoverInv'
  BY <1>25 DEF SetOffset
<1>26. ASSUME NEW t \in Threads, Requested(t) PROVE CoverInv'
  BY <1>26 DEF Requested
<1>27. ASSUME NEW t \in Threads, Allowed(t) PROVE CoverInv'
  BY <1>27 DEF Allowed
<1>28. ASSUME HardwareEnable PROVE CoverInv'
  BY <1>28 DEF HardwareEnable, Event, Make
<1> HIDE DEF TypeInv, LockInv, CoverInv, Due, Current, Reading, Locked, host, tsc, copy, seq,
    entry, seen, Threads, Go, Constants
<1> QED  BY <1>1, <1>2, <1>3, <1>4, <1>5, <1>6, <1>7, <1>8, <1>9, <1>10, <1>11, <1>12, <1>13,
    <1>14, <1>15, <1>16, <1>17, <1>18, <1>19, <1>20, <1>21, <1>22, <1>23, <1>24, <1>25, <1>26,
    <1>27, <1>28 DEF Next, Update

\* In the guest, without a request, nothing but the current copy is left.
LEMMA InvImplies == ASSUME Constants, ClockInv PROVE ClockConsistent
<1> USE DEF ClockInv
<1>1. \A v \in Vcpus : record[v].odd \/ record[v].copy.cycle = record[v].copy.ns
  BY DEF ReadInv
<1>2. ASSUME NEW v \in Vcpus, pc[v] = "guest", useMaster, ~Due(v)
      PROVE  /\ record[v].copy = [use |-> TRUE, cycle |-> cycle, ns |-> ns]
             /\ record[v].offset = offset
  BY <1>2 DEF CoverInv, Current, Reading
<1>3. useMaster /\ generation # Vcpus => Deciding \/ Pending
  BY DEF UpdateInv, Deciding
<1> QED  BY <1>1, <1>2, <1>3 DEF ClockConsistent

\* One step keeps the invariant.
LEMMA StepInv == ASSUME Constants PROVE ClockInv /\ [Next]_vars => ClockInv'
BY TypeStep, LockStep, CountStep, ReadStep, UpdateStep, CoverStep DEF ClockInv

(* What a guest reads under an even version is one snapshot, the current one when *)
(* no update is due, and no vCPU of another generation uses the master copy       *)
(* (kvm_guest_time_update, pvclock_update_vm_gtod_copy, kvm_track_tsc_matching).  *)
THEOREM ClockConsistentCorrect == ASSUME Constants PROVE Spec => []ClockConsistent
<1>1. ClockInv /\ [Next]_vars => ClockInv'  BY StepInv
<1>2. Init => ClockInv  BY InitInv
<1>3. ClockInv => ClockConsistent  BY InvImplies
<1> QED  BY <1>1, <1>2, <1>3, PTL DEF Spec
=============================================================================
