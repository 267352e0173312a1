------------------------- MODULE MsrFilterProofs -------------------------
(***************************************************************************)
(* NoUseAfterFree, NoLeak and BitmapFresh of MsrFilter for any number of   *)
(* vCPUs, setters, rights and filters.                                     *)
(*                                                                         *)
(* The first two rest on who owns a filter (OwnInv) and on what a reader   *)
(* may hold (ReadInv): the published filter, or one whose setter has not   *)
(* taken its snapshot of the readers or still waits for this one.          *)
(* BitmapFresh follows a change of the filter to the guest: a decision     *)
(* made from an old filter (LoadedInv, StaleInv) has a setter or a request *)
(* behind it, and a request to a running guest has a kick behind it        *)
(* (KickInv).                                                              *)
(***************************************************************************)
EXTENDS MsrFilter, TLAPS

\* A job is left while a decision is in the making, and none while the guest runs.
JobsInv ==
  \A v \in Vcpus :
    /\ jobs[v] \subseteq shadow[v] /\ bitmap[v] \subseteq shadow[v]
    /\ inner[v] # "none" => jobs[v] # {}
    /\ inner[v] # "loaded" => reader[v] = NoFilter
    /\ pc[v] \in {"unlock", "check", "cancelled", "guest", "relock", "handle"} => jobs[v] = {}

\* A filter has one owner.
Owner(f) == f \in {msr_filter} \cup {new[s] : s \in Setters} \cup {old[s] : s \in Setters}

OwnInv ==
  /\ NoLeak
  /\ \A s \in Setters :
       /\ new[s] # NoFilter => spc[s] = "fill" /\ new[s] # msr_filter
       /\ spc[s] = "fill" => new[s] # NoFilter
       /\ old[s] # NoFilter => spc[s] \in {"sync", "wait"} /\ old[s] # msr_filter
  /\ \A s, t \in Setters :
       /\ new[s] # NoFilter => new[s] # old[t]
       /\ new[s] # NoFilter /\ new[s] = new[t] => s = t
       /\ old[s] # NoFilter /\ old[s] = old[t] => s = t

ReadInv ==
  \A v \in Vcpus : reader[v] # NoFilter =>
    \/ reader[v] = msr_filter
    \/ \E s \in Setters : old[s] = reader[v] /\ (spc[s] = "sync" \/ v \in waiting[s])

\* vCPU v has the request or will get it.
Told(v) == requests[v] \/ \E s \in Setters : spc[s] \in {"sync", "wait"} \/ v \in todo[s]

LoadedInv ==
  /\ msr_filter # NoFilter \/ (\E s \in Setters : spc[s] # "idle") => Vcpus \ Late \subseteq online
  /\ \A v \in Vcpus \ Late : inner[v] = "loaded" /\ reader[v] # msr_filter => Told(v)

StaleInv ==
  \A v \in Vcpus \ Late : \A r \in shadow[v] \ jobs[v] :
    (r \in bitmap[v]) # Allowed(msr_filter, r) => Told(v)

KickInv ==
  \A v \in Vcpus :
    /\ pc[v] \in {"unlock", "check", "guest"} => mode[v] # "OUTSIDE"
    /\ pc[v] = "guest" /\ mode[v] = "EXITING" => ipi[v] \/ \E s \in Setters : v \in kicked[s]
    /\ pc[v] = "guest" /\ requests[v] =>
         ipi[v] \/ \E s \in Setters : v \in requested[s] \cup kicked[s]

MsrInv == TypeOK /\ JobsInv /\ OwnInv /\ ReadInv /\ LoadedInv /\ StaleInv /\ KickInv

-----------------------------------------------------------------------------
LEMMA InitInv == Init => MsrInv
<1> SUFFICES ASSUME Init PROVE MsrInv
  OBVIOUS
<1> USE MsrAssumption
<1>1. TypeOK
  BY DEF Init, TypeOK, Pointer, Places
<1>2. JobsInv
  BY DEF Init, JobsInv, TypeOK
<1>3. OwnInv
  BY DEF Init, OwnInv, NoLeak, Owner, TypeOK, Pointer
<1>4. ReadInv
  BY DEF Init, ReadInv, OwnInv, NoLeak, Owner, JobsInv, TypeOK, Pointer
<1>5. LoadedInv
  BY DEF Init, LoadedInv, Told, TypeOK, JobsInv
<1>6. StaleInv
  BY DEF Init, StaleInv, LoadedInv, Told, Allowed, OwnInv, NoLeak, JobsInv, TypeOK
<1>7. KickInv
  BY DEF Init, KickInv, JobsInv, TypeOK
<1> QED
  BY <1>1, <1>2, <1>3, <1>4, <1>5, <1>6, <1>7 DEF MsrInv

\* Types.
LEMMA TypeStep ==
  ASSUME MsrInv, [Next]_vars
  PROVE  TypeOK'
<1> USE MsrAssumption DEF MsrInv, filter, setter, srcu, sched, intercepts
<1>1. ASSUME NEW s \in Setters, Alloc(s) PROVE TypeOK'
  BY <1>1 DEF Alloc, GotoS, TypeOK, Pointer, Places
<1>2. ASSUME NEW s \in Setters, AddFails(s) PROVE TypeOK'
  BY <1>2 DEF AddFails, AfterFailure, GotoS, TypeOK, Pointer, Places
<1>3. ASSUME NEW s \in Setters, Replace(s) PROVE TypeOK'
  BY <1>3 DEF Replace, GotoS, TypeOK, Pointer, Places
<1>4. ASSUME NEW s \in Setters, SyncStart(s) PROVE TypeOK'
  BY <1>4 DEF SyncStart, Readers, GotoS, TypeOK, Pointer, Places
<1>5. ASSUME NEW s \in Setters, Free(s) PROVE TypeOK'
  BY <1>5 DEF Free, GotoS, TypeOK, Pointer, Places
<1>6. ASSUME NEW s \in Setters, SendIpis(s) PROVE TypeOK'
  BY <1>6 DEF SendIpis, GotoS, TypeOK, Pointer, Places
<1>7. ASSUME NEW s \in Setters, NEW v \in Vcpus, MakeRequest(s, v) PROVE TypeOK'
  BY <1>7 DEF MakeRequest, TypeOK, Pointer, Places
<1>8. ASSUME NEW s \in Setters, NEW v \in Vcpus, ExitMode(s, v) PROVE TypeOK'
  <2>1. requested' \in [Setters -> SUBSET Vcpus]
    BY <1>8 DEF ExitMode, TypeOK
  <2>2. mode' \in [Vcpus -> {"OUTSIDE", "IN_GUEST", "EXITING"}] /\ kicked' \in [Setters -> SUBSET Vcpus]
    <3>1. CASE mode[v] = "IN_GUEST"
      <4>1. kicked[s] \cup {v} \in SUBSET Vcpus
        BY DEF TypeOK
      <4> QED
        BY <1>8, <3>1, <4>1 DEF ExitMode, TypeOK
    <3>2. CASE mode[v] # "IN_GUEST"
      BY <1>8, <3>2 DEF ExitMode, TypeOK
    <3> QED
      BY <3>1, <3>2
  <2> QED
    BY <1>8, <2>1, <2>2 DEF ExitMode, TypeOK, Pointer, Places
<1>9. ASSUME NEW v \in Vcpus, Lock(v) PROVE TypeOK'
  BY <1>9 DEF Lock, Goto, TypeOK, Pointer, Places
<1>10. ASSUME NEW v \in Vcpus, Load(v) PROVE TypeOK'
  BY <1>10 DEF Load, Goto, TypeOK, Pointer, Places
<1>11. ASSUME NEW v \in Vcpus, Decide(v) PROVE TypeOK'
  BY <1>11 DEF Decide, EndSection, Goto, TypeOK, Pointer, Places
<1>12. ASSUME NEW v \in Vcpus, Online(v) PROVE TypeOK'
  BY <1>12 DEF Online, Goto, TypeOK, Pointer, Places
<1>13. ASSUME NEW v \in Vcpus, CheckRequest(v) PROVE TypeOK'
  BY <1>13 DEF CheckRequest, Refresh, Goto, TypeOK, Pointer, Places
<1>14. ASSUME NEW v \in Vcpus, SetMode(v) PROVE TypeOK'
  BY <1>14 DEF SetMode, Goto, TypeOK, Pointer, Places
<1>15. ASSUME NEW v \in Vcpus, Unlock(v) PROVE TypeOK'
  BY <1>15 DEF Unlock, EndSection, Goto, TypeOK, Pointer, Places
<1>16. ASSUME NEW v \in Vcpus, VmEnter(v) PROVE TypeOK'
  BY <1>16 DEF VmEnter, ExitRequest, Goto, TypeOK, Pointer, Places
<1>17. ASSUME NEW v \in Vcpus, CancelEntry(v) PROVE TypeOK'
  BY <1>17 DEF CancelEntry, ExitRequest, Goto, TypeOK, Pointer, Places
<1>18. ASSUME NEW v \in Vcpus, TakeIpi(v) PROVE TypeOK'
  BY <1>18 DEF TakeIpi, Goto, TypeOK, Pointer, Places
<1>19. ASSUME NEW v \in Vcpus, Relock(v) PROVE TypeOK'
  BY <1>19 DEF Relock, Goto, TypeOK, Pointer, Places
<1>20. ASSUME NEW v \in Vcpus, Handle(v) PROVE TypeOK'
  BY <1>20 DEF Handle, Goto, TypeOK, Pointer, Places
<1>21. ASSUME NEW v \in Vcpus, EnterRun(v) PROVE TypeOK'
  BY <1>21 DEF EnterRun, Goto, TypeOK, Pointer, Places
<1>22. ASSUME NEW v \in Vcpus, Exit(v) PROVE TypeOK'
  BY <1>22 DEF Exit, Goto, TypeOK, Pointer, Places
<1>23. ASSUME NEW v \in Vcpus, LeaveRun(v) PROVE TypeOK'
  BY <1>23 DEF LeaveRun, EndSection, Goto, TypeOK, Pointer, Places
<1>24. ASSUME NEW v \in Vcpus, NEW r \in Rights, SetCpuid(v, r) PROVE TypeOK'
  <2>0. /\ jobs \in [Vcpus -> SUBSET Rights] /\ shadow \in [Vcpus -> SUBSET Rights]
        /\ bitmap \in [Vcpus -> SUBSET Rights]
    BY DEF TypeOK
  <2>1. jobs' \in [Vcpus -> SUBSET Rights]
    BY <1>24, <2>0 DEF SetCpuid
  <2>2. shadow' \in [Vcpus -> SUBSET Rights]
    BY <1>24, <2>0 DEF SetCpuid
  <2>3. bitmap' \in [Vcpus -> SUBSET Rights]
    BY <1>24, <2>0 DEF SetCpuid
  <2>4. UNCHANGED <<msr_filter, denied, allocated, spc, new, old, waiting, todo, requested, kicked,
                    pc, mode, requests, ipi, online, outer, inner, reader>>
    BY <1>24 DEF SetCpuid
  <2> QED
    BY <2>1, <2>2, <2>3, <2>4 DEF TypeOK, Pointer, Places
<1>25. ASSUME NEW v \in Vcpus, NEW r \in Rights, FirstWrite(v, r) PROVE TypeOK'
  BY <1>25 DEF FirstWrite, Goto, TypeOK, Pointer, Places
<1>26. ASSUME UNCHANGED vars PROVE TypeOK'
  BY <1>26 DEF vars, TypeOK, Pointer, Places
<1> QED
  BY <1>1, <1>2, <1>3, <1>4, <1>5, <1>6, <1>7, <1>8, <1>9, <1>10, <1>11, <1>12, <1>13, <1>14, <1>15, <1>16, <1>17, <1>18, <1>19, <1>20, <1>21, <1>22, <1>23, <1>24, <1>25, <1>26 DEF Next, Setter, Loop

\* Decisions and the jobs they are for.
LEMMA JobsStep ==
  ASSUME MsrInv, TypeOK', [Next]_vars
  PROVE  JobsInv'
<1> USE MsrAssumption DEF MsrInv, filter, setter, srcu, sched, intercepts
<1>1. ASSUME NEW s \in Setters, Alloc(s) PROVE JobsInv'
  BY <1>1 DEF Alloc, GotoS, JobsInv, TypeOK
<1>2. ASSUME NEW s \in Setters, AddFails(s) PROVE JobsInv'
  BY <1>2 DEF AddFails, AfterFailure, GotoS, JobsInv, TypeOK
<1>3. ASSUME NEW s \in Setters, Replace(s) PROVE JobsInv'
  BY <1>3 DEF Replace, GotoS, JobsInv, TypeOK
<1>4. ASSUME NEW s \in Setters, SyncStart(s) PROVE JobsInv'
  BY <1>4 DEF SyncStart, Readers, GotoS, JobsInv, TypeOK
<1>5. ASSUME NEW s \in Setters, Free(s) PROVE JobsInv'
  BY <1>5 DEF Free, GotoS, JobsInv, TypeOK
<1>6. ASSUME NEW s \in Setters, SendIpis(s) PROVE JobsInv'
  BY <1>6 DEF SendIpis, GotoS, JobsInv, TypeOK
<1>7. ASSUME NEW s \in Setters, NEW v \in Vcpus, MakeRequest(s, v) PROVE JobsInv'
  BY <1>7 DEF MakeRequest, JobsInv, TypeOK
<1>8. ASSUME NEW s \in Setters, NEW v \in Vcpus, ExitMode(s, v) PROVE JobsInv'
  BY <1>8 DEF ExitMode, JobsInv, TypeOK
<1>9. ASSUME NEW v \in Vcpus, Lock(v) PROVE JobsInv'
  BY <1>9 DEF Lock, Goto, JobsInv, TypeOK
<1>10. ASSUME NEW v \in Vcpus, Load(v) PROVE JobsInv'
  BY <1>10 DEF Load, Goto, JobsInv, TypeOK
<1>11. ASSUME NEW v \in Vcpus, Decide(v) PROVE JobsInv'
  BY <1>11 DEF Decide, EndSection, Goto, JobsInv, TypeOK
<1>12. ASSUME NEW v \in Vcpus, Online(v) PROVE JobsInv'
  BY <1>12 DEF Online, Goto, JobsInv, TypeOK
<1>13. ASSUME NEW v \in Vcpus, CheckRequest(v) PROVE JobsInv'
  BY <1>13 DEF CheckRequest, Refresh, Goto, JobsInv, TypeOK
<1>14. ASSUME NEW v \in Vcpus, SetMode(v) PROVE JobsInv'
  BY <1>14 DEF SetMode, Goto, JobsInv, TypeOK
<1>15. ASSUME NEW v \in Vcpus, Unlock(v) PROVE JobsInv'
  BY <1>15 DEF Unlock, EndSection, Goto, JobsInv, TypeOK
<1>16. ASSUME NEW v \in Vcpus, VmEnter(v) PROVE JobsInv'
  BY <1>16 DEF VmEnter, ExitRequest, Goto, JobsInv, TypeOK
<1>17. ASSUME NEW v \in Vcpus, CancelEntry(v) PROVE JobsInv'
  BY <1>17 DEF CancelEntry, ExitRequest, Goto, JobsInv, TypeOK
<1>18. ASSUME NEW v \in Vcpus, TakeIpi(v) PROVE JobsInv'
  BY <1>18 DEF TakeIpi, Goto, JobsInv, TypeOK
<1>19. ASSUME NEW v \in Vcpus, Relock(v) PROVE JobsInv'
  BY <1>19 DEF Relock, Goto, JobsInv, TypeOK
<1>20. ASSUME NEW v \in Vcpus, Handle(v) PROVE JobsInv'
  BY <1>20 DEF Handle, Goto, JobsInv, TypeOK
<1>21. ASSUME NEW v \in Vcpus, EnterRun(v) PROVE JobsInv'
  BY <1>21 DEF EnterRun, Goto, JobsInv, TypeOK
<1>22. ASSUME NEW v \in Vcpus, Exit(v) PROVE JobsInv'
  BY <1>22 DEF Exit, Goto, JobsInv, TypeOK
<1>23. ASSUME NEW v \in Vcpus, LeaveRun(v) PROVE JobsInv'
  BY <1>23 DEF LeaveRun, EndSection, Goto, JobsInv, TypeOK
<1>24. ASSUME NEW v \in Vcpus, NEW r \in Rights, SetCpuid(v, r) PROVE JobsInv'
  <2>1. CASE jobs' = [jobs EXCEPT ![v] = {r}] /\ shadow' = [shadow EXCEPT ![v] = @ \cup {r}]
             /\ bitmap' = bitmap
    BY <1>24, <2>1 DEF SetCpuid, JobsInv, TypeOK
  <2>2. CASE jobs' = jobs /\ shadow' = [shadow EXCEPT ![v] = @ \ {r}]
             /\ bitmap' = [bitmap EXCEPT ![v] = @ \ {r}]
    BY <1>24, <2>2 DEF SetCpuid, JobsInv, TypeOK
  <2> QED  BY <1>24, <2>1, <2>2 DEF SetCpuid
<1>25. ASSUME NEW v \in Vcpus, NEW r \in Rights, FirstWrite(v, r) PROVE JobsInv'
  BY <1>25 DEF FirstWrite, Goto, JobsInv, TypeOK
<1>26. ASSUME UNCHANGED vars PROVE JobsInv'
  BY <1>26 DEF vars, JobsInv, TypeOK
<1> QED
  BY <1>1, <1>2, <1>3, <1>4, <1>5, <1>6, <1>7, <1>8, <1>9, <1>10, <1>11, <1>12, <1>13, <1>14, <1>15, <1>16, <1>17, <1>18, <1>19, <1>20, <1>21, <1>22, <1>23, <1>24, <1>25, <1>26 DEF Next, Setter, Loop

\* Who owns a filter, through allocation, replacement and freeing.
LEMMA OwnStep ==
  ASSUME MsrInv, TypeOK', [Next]_vars
  PROVE  OwnInv'
<1> USE MsrAssumption DEF MsrInv, filter, setter, srcu, sched, intercepts
<1>1. ASSUME NEW s \in Setters, Alloc(s) PROVE OwnInv'
  BY <1>1 DEF Alloc, GotoS, OwnInv, NoLeak, Owner, TypeOK, Pointer
<1>2. ASSUME NEW s \in Setters, AddFails(s) PROVE OwnInv'
  BY <1>2 DEF AddFails, AfterFailure, GotoS, OwnInv, NoLeak, Owner, TypeOK, Pointer
<1>3. ASSUME NEW s \in Setters, Replace(s) PROVE OwnInv'
  <2>1. NoLeak'
    <3>1. /\ msr_filter' = new[s] /\ allocated' = allocated
          /\ new'[s] = NoFilter /\ old'[s] = msr_filter
          /\ \A t \in Setters \ {s} : new'[t] = new[t] /\ old'[t] = old[t]
      BY <1>3 DEF Replace, GotoS, TypeOK
    <3>2. old[s] = NoFilter
      BY <1>3 DEF Replace, GotoS, OwnInv
    <3> QED
      BY <3>1, <3>2 DEF OwnInv, NoLeak, Owner, TypeOK
  <2>2. \A t \in Setters :
          /\ new'[t] # NoFilter => spc'[t] = "fill" /\ new'[t] # msr_filter'
          /\ spc'[t] = "fill" => new'[t] # NoFilter
          /\ old'[t] # NoFilter => spc'[t] \in {"sync", "wait"} /\ old'[t] # msr_filter'
    BY <1>3 DEF Replace, GotoS, OwnInv, TypeOK, Pointer
  <2>3. \A t, u \in Setters :
          /\ new'[t] # NoFilter => new'[t] # old'[u]
          /\ new'[t] # NoFilter /\ new'[t] = new'[u] => t = u
          /\ old'[t] # NoFilter /\ old'[t] = old'[u] => t = u
    BY <1>3 DEF Replace, GotoS, OwnInv, TypeOK, Pointer
  <2> QED
    BY <2>1, <2>2, <2>3 DEF OwnInv
<1>4. ASSUME NEW s \in Setters, SyncStart(s) PROVE OwnInv'
  BY <1>4 DEF SyncStart, Readers, GotoS, OwnInv, NoLeak, Owner, TypeOK, Pointer
<1>5. ASSUME NEW s \in Setters, Free(s) PROVE OwnInv'
  BY <1>5 DEF Free, GotoS, OwnInv, NoLeak, Owner, TypeOK, Pointer
<1>6. ASSUME NEW s \in Setters, SendIpis(s) PROVE OwnInv'
  BY <1>6 DEF SendIpis, GotoS, OwnInv, NoLeak, Owner, TypeOK, Pointer
<1>7. ASSUME NEW s \in Setters, NEW v \in Vcpus, MakeRequest(s, v) PROVE OwnInv'
  BY <1>7 DEF MakeRequest, OwnInv, NoLeak, Owner, TypeOK, Pointer
<1>8. ASSUME NEW s \in Setters, NEW v \in Vcpus, ExitMode(s, v) PROVE OwnInv'
  BY <1>8 DEF ExitMode, OwnInv, NoLeak, Owner, TypeOK, Pointer
<1>9. ASSUME NEW v \in Vcpus, Lock(v) PROVE OwnInv'
  BY <1>9 DEF Lock, Goto, OwnInv, NoLeak, Owner, TypeOK, Pointer
<1>10. ASSUME NEW v \in Vcpus, Load(v) PROVE OwnInv'
  BY <1>10 DEF Load, Goto, OwnInv, NoLeak, Owner, TypeOK, Pointer
<1>11. ASSUME NEW v \in Vcpus, Decide(v) PROVE OwnInv'
  BY <1>11 DEF Decide, EndSection, Goto, OwnInv, NoLeak, Owner, TypeOK, Pointer
<1>12. ASSUME NEW v \in Vcpus, Online(v) PROVE OwnInv'
  BY <1>12 DEF Online, Goto, OwnInv, NoLeak, Owner, TypeOK, Pointer
<1>13. ASSUME NEW v \in Vcpus, CheckRequest(v) PROVE OwnInv'
  BY <1>13 DEF CheckRequest, Refresh, Goto, OwnInv, NoLeak, Owner, TypeOK, Pointer
<1>14. ASSUME NEW v \in Vcpus, SetMode(v) PROVE OwnInv'
  BY <1>14 DEF SetMode, Goto, OwnInv, NoLeak, Owner, TypeOK, Pointer
<1>15. ASSUME NEW v \in Vcpus, Unlock(v) PROVE OwnInv'
  BY <1>15 DEF Unlock, EndSection, Goto, OwnInv, NoLeak, Owner, TypeOK, Pointer
<1>16. ASSUME NEW v \in Vcpus, VmEnter(v) PROVE OwnInv'
  BY <1>16 DEF VmEnter, ExitRequest, Goto, OwnInv, NoLeak, Owner, TypeOK, Pointer
<1>17. ASSUME NEW v \in Vcpus, CancelEntry(v) PROVE OwnInv'
  BY <1>17 DEF CancelEntry, ExitRequest, Goto, OwnInv, NoLeak, Owner, TypeOK, Pointer
<1>18. ASSUME NEW v \in Vcpus, TakeIpi(v) PROVE OwnInv'
  BY <1>18 DEF TakeIpi, Goto, OwnInv, NoLeak, Owner, TypeOK, Pointer
<1>19. ASSUME NEW v \in Vcpus, Relock(v) PROVE OwnInv'
  BY <1>19 DEF Relock, Goto, OwnInv, NoLeak, Owner, TypeOK, Pointer
<1>20. ASSUME NEW v \in Vcpus, Handle(v) PROVE OwnInv'
  BY <1>20 DEF Handle, Goto, OwnInv, NoLeak, Owner, TypeOK, Pointer
<1>21. ASSUME NEW v \in Vcpus, EnterRun(v) PROVE OwnInv'
  BY <1>21 DEF EnterRun, Goto, OwnInv, NoLeak, Owner, TypeOK, Pointer
<1>22. ASSUME NEW v \in Vcpus, Exit(v) PROVE OwnInv'
  BY <1>22 DEF Exit, Goto, OwnInv, NoLeak, Owner, TypeOK, Pointer
<1>23. ASSUME NEW v \in Vcpus, LeaveRun(v) PROVE OwnInv'
  BY <1>23 DEF LeaveRun, EndSection, Goto, OwnInv, NoLeak, Owner, TypeOK, Pointer
<1>24. ASSUME NEW v \in Vcpus, NEW r \in Rights, SetCpuid(v, r) PROVE OwnInv'
  BY <1>24 DEF SetCpuid, Goto, OwnInv, NoLeak, Owner, TypeOK, Pointer
<1>25. ASSUME NEW v \in Vcpus, NEW r \in Rights, FirstWrite(v, r) PROVE OwnInv'
  BY <1>25 DEF FirstWrite, Goto, OwnInv, NoLeak, Owner, TypeOK, Pointer
<1>26. ASSUME UNCHANGED vars PROVE OwnInv'
  BY <1>26 DEF vars, OwnInv, NoLeak, Owner, TypeOK, Pointer
<1> QED
  BY <1>1, <1>2, <1>3, <1>4, <1>5, <1>6, <1>7, <1>8, <1>9, <1>10, <1>11, <1>12, <1>13, <1>14, <1>15, <1>16, <1>17, <1>18, <1>19, <1>20, <1>21, <1>22, <1>23, <1>24, <1>25, <1>26 DEF Next, Setter, Loop

\* What a reader may hold.
LEMMA ReadStep ==
  ASSUME MsrInv, TypeOK', [Next]_vars
  PROVE  ReadInv'
<1> USE MsrAssumption DEF MsrInv, filter, setter, srcu, sched, intercepts
<1>1. ASSUME NEW s \in Setters, Alloc(s) PROVE ReadInv'
  BY <1>1 DEF Alloc, GotoS, ReadInv, OwnInv, NoLeak, Owner, JobsInv, TypeOK, Pointer
<1>2. ASSUME NEW s \in Setters, AddFails(s) PROVE ReadInv'
  BY <1>2 DEF AddFails, AfterFailure, GotoS, ReadInv, OwnInv, NoLeak, Owner, JobsInv, TypeOK, Pointer
<1>3. ASSUME NEW s \in Setters, Replace(s) PROVE ReadInv'
  BY <1>3 DEF Replace, GotoS, ReadInv, OwnInv, NoLeak, Owner, JobsInv, TypeOK, Pointer
<1>4. ASSUME NEW s \in Setters, SyncStart(s) PROVE ReadInv'
  BY <1>4 DEF SyncStart, Readers, GotoS, ReadInv, OwnInv, NoLeak, Owner, JobsInv, TypeOK, Pointer
<1>5. ASSUME NEW s \in Setters, Free(s) PROVE ReadInv'
  BY <1>5 DEF Free, GotoS, ReadInv, OwnInv, NoLeak, Owner, JobsInv, TypeOK, Pointer
<1>6. ASSUME NEW s \in Setters, SendIpis(s) PROVE ReadInv'
  BY <1>6 DEF SendIpis, GotoS, ReadInv, OwnInv, NoLeak, Owner, JobsInv, TypeOK, Pointer
<1>7. ASSUME NEW s \in Setters, NEW v \in Vcpus, MakeRequest(s, v) PROVE ReadInv'
  BY <1>7 DEF MakeRequest, ReadInv, OwnInv, NoLeak, Owner, JobsInv, TypeOK, Pointer
<1>8. ASSUME NEW s \in Setters, NEW v \in Vcpus, ExitMode(s, v) PROVE ReadInv'
  BY <1>8 DEF ExitMode, ReadInv, OwnInv, NoLeak, Owner, JobsInv, TypeOK, Pointer
<1>9. ASSUME NEW v \in Vcpus, Lock(v) PROVE ReadInv'
  BY <1>9 DEF Lock, Goto, ReadInv, OwnInv, NoLeak, Owner, JobsInv, TypeOK, Pointer
<1>10. ASSUME NEW v \in Vcpus, Load(v) PROVE ReadInv'
  BY <1>10 DEF Load, Goto, ReadInv, OwnInv, NoLeak, Owner, JobsInv, TypeOK, Pointer
<1>11. ASSUME NEW v \in Vcpus, Decide(v) PROVE ReadInv'
  BY <1>11 DEF Decide, EndSection, Goto, ReadInv, OwnInv, NoLeak, Owner, JobsInv, TypeOK, Pointer
<1>12. ASSUME NEW v \in Vcpus, Online(v) PROVE ReadInv'
  BY <1>12 DEF Online, Goto, ReadInv, OwnInv, NoLeak, Owner, JobsInv, TypeOK, Pointer
<1>13. ASSUME NEW v \in Vcpus, CheckRequest(v) PROVE ReadInv'
  BY <1>13 DEF CheckRequest, Refresh, Goto, ReadInv, OwnInv, NoLeak, Owner, JobsInv, TypeOK, Pointer
<1>14. ASSUME NEW v \in Vcpus, SetMode(v) PROVE ReadInv'
  BY <1>14 DEF SetMode, Goto, ReadInv, OwnInv, NoLeak, Owner, JobsInv, TypeOK, Pointer
<1>15. ASSUME NEW v \in Vcpus, Unlock(v) PROVE ReadInv'
  BY <1>15 DEF Unlock, EndSection, Goto, ReadInv, OwnInv, NoLeak, Owner, JobsInv, TypeOK, Pointer
<1>16. ASSUME NEW v \in Vcpus, VmEnter(v) PROVE ReadInv'
  BY <1>16 DEF VmEnter, ExitRequest, Goto, ReadInv, OwnInv, NoLeak, Owner, JobsInv, TypeOK, Pointer
<1>17. ASSUME NEW v \in Vcpus, CancelEntry(v) PROVE ReadInv'
  BY <1>17 DEF CancelEntry, ExitRequest, Goto, ReadInv, OwnInv, NoLeak, Owner, JobsInv, TypeOK, Pointer
<1>18. ASSUME NEW v \in Vcpus, TakeIpi(v) PROVE ReadInv'
  BY <1>18 DEF TakeIpi, Goto, ReadInv, OwnInv, NoLeak, Owner, JobsInv, TypeOK, Pointer
<1>19. ASSUME NEW v \in Vcpus, Relock(v) PROVE ReadInv'
  BY <1>19 DEF Relock, Goto, ReadInv, OwnInv, NoLeak, Owner, JobsInv, TypeOK, Pointer
<1>20. ASSUME NEW v \in Vcpus, Handle(v) PROVE ReadInv'
  BY <1>20 DEF Handle, Goto, ReadInv, OwnInv, NoLeak, Owner, JobsInv, TypeOK, Pointer
<1>21. ASSUME NEW v \in Vcpus, EnterRun(v) PROVE ReadInv'
  BY <1>21 DEF EnterRun, Goto, ReadInv, OwnInv, NoLeak, Owner, JobsInv, TypeOK, Pointer
<1>22. ASSUME NEW v \in Vcpus, Exit(v) PROVE ReadInv'
  BY <1>22 DEF Exit, Goto, ReadInv, OwnInv, NoLeak, Owner, JobsInv, TypeOK, Pointer
<1>23. ASSUME NEW v \in Vcpus, LeaveRun(v) PROVE ReadInv'
  BY <1>23 DEF LeaveRun, EndSection, Goto, ReadInv, OwnInv, NoLeak, Owner, JobsInv, TypeOK, Pointer
<1>24. ASSUME NEW v \in Vcpus, NEW r \in Rights, SetCpuid(v, r) PROVE ReadInv'
  BY <1>24 DEF SetCpuid, Goto, ReadInv, OwnInv, NoLeak, Owner, JobsInv, TypeOK, Pointer
<1>25. ASSUME NEW v \in Vcpus, NEW r \in Rights, FirstWrite(v, r) PROVE ReadInv'
  BY <1>25 DEF FirstWrite, Goto, ReadInv, OwnInv, NoLeak, Owner, JobsInv, TypeOK, Pointer
<1>26. ASSUME UNCHANGED vars PROVE ReadInv'
  BY <1>26 DEF vars, ReadInv, OwnInv, NoLeak, Owner, JobsInv, TypeOK, Pointer
<1> QED
  BY <1>1, <1>2, <1>3, <1>4, <1>5, <1>6, <1>7, <1>8, <1>9, <1>10, <1>11, <1>12, <1>13, <1>14, <1>15, <1>16, <1>17, <1>18, <1>19, <1>20, <1>21, <1>22, <1>23, <1>24, <1>25, <1>26 DEF Next, Setter, Loop

\* A decision from an old filter will be redone.
LEMMA LoadedStep ==
  ASSUME MsrInv, TypeOK', [Next]_vars
  PROVE  LoadedInv'
<1> USE MsrAssumption DEF MsrInv, filter, setter, srcu, sched, intercepts
<1>1. ASSUME NEW s \in Setters, Alloc(s) PROVE LoadedInv'
  BY <1>1 DEF Alloc, GotoS, LoadedInv, Told, TypeOK, JobsInv
<1>2. ASSUME NEW s \in Setters, AddFails(s) PROVE LoadedInv'
  BY <1>2 DEF AddFails, AfterFailure, GotoS, LoadedInv, Told, TypeOK, JobsInv
<1>3. ASSUME NEW s \in Setters, Replace(s) PROVE LoadedInv'
  BY <1>3 DEF Replace, GotoS, LoadedInv, Told, TypeOK, JobsInv
<1>4. ASSUME NEW s \in Setters, SyncStart(s) PROVE LoadedInv'
  BY <1>4 DEF SyncStart, Readers, GotoS, LoadedInv, Told, TypeOK, JobsInv
<1>5. ASSUME NEW s \in Setters, Free(s) PROVE LoadedInv'
  BY <1>5 DEF Free, GotoS, LoadedInv, Told, TypeOK, JobsInv
<1>6. ASSUME NEW s \in Setters, SendIpis(s) PROVE LoadedInv'
  BY <1>6 DEF SendIpis, GotoS, LoadedInv, Told, TypeOK, JobsInv
<1>7. ASSUME NEW s \in Setters, NEW v \in Vcpus, MakeRequest(s, v) PROVE LoadedInv'
  BY <1>7 DEF MakeRequest, LoadedInv, Told, TypeOK, JobsInv
<1>8. ASSUME NEW s \in Setters, NEW v \in Vcpus, ExitMode(s, v) PROVE LoadedInv'
  BY <1>8 DEF ExitMode, LoadedInv, Told, TypeOK, JobsInv
<1>9. ASSUME NEW v \in Vcpus, Lock(v) PROVE LoadedInv'
  BY <1>9 DEF Lock, Goto, LoadedInv, Told, TypeOK, JobsInv
<1>10. ASSUME NEW v \in Vcpus, Load(v) PROVE LoadedInv'
  BY <1>10 DEF Load, Goto, LoadedInv, Told, TypeOK, JobsInv
<1>11. ASSUME NEW v \in Vcpus, Decide(v) PROVE LoadedInv'
  BY <1>11 DEF Decide, EndSection, Goto, LoadedInv, Told, TypeOK, JobsInv
<1>12. ASSUME NEW v \in Vcpus, Online(v) PROVE LoadedInv'
  BY <1>12 DEF Online, Goto, LoadedInv, Told, TypeOK, JobsInv
<1>13. ASSUME NEW v \in Vcpus, CheckRequest(v) PROVE LoadedInv'
  \* A vCPU with a job left would not be here.
  <2>1. inner[v] # "loaded"
    BY <1>13 DEF CheckRequest, Goto, JobsInv
  <2>2. UNCHANGED <<msr_filter, spc, todo, online, inner, reader>>
    BY <1>13 DEF CheckRequest
  <2>3. \A w \in Vcpus \ {v} : Told(w) => Told(w)'
    BY <1>13, <2>2 DEF CheckRequest, Told, TypeOK
  <2> QED
    BY <2>1, <2>2, <2>3 DEF LoadedInv
<1>14. ASSUME NEW v \in Vcpus, SetMode(v) PROVE LoadedInv'
  BY <1>14 DEF SetMode, Goto, LoadedInv, Told, TypeOK, JobsInv
<1>15. ASSUME NEW v \in Vcpus, Unlock(v) PROVE LoadedInv'
  BY <1>15 DEF Unlock, EndSection, Goto, LoadedInv, Told, TypeOK, JobsInv
<1>16. ASSUME NEW v \in Vcpus, VmEnter(v) PROVE LoadedInv'
  BY <1>16 DEF VmEnter, ExitRequest, Goto, LoadedInv, Told, TypeOK, JobsInv
<1>17. ASSUME NEW v \in Vcpus, CancelEntry(v) PROVE LoadedInv'
  BY <1>17 DEF CancelEntry, ExitRequest, Goto, LoadedInv, Told, TypeOK, JobsInv
<1>18. ASSUME NEW v \in Vcpus, TakeIpi(v) PROVE LoadedInv'
  BY <1>18 DEF TakeIpi, Goto, LoadedInv, Told, TypeOK, JobsInv
<1>19. ASSUME NEW v \in Vcpus, Relock(v) PROVE LoadedInv'
  BY <1>19 DEF Relock, Goto, LoadedInv, Told, TypeOK, JobsInv
<1>20. ASSUME NEW v \in Vcpus, Handle(v) PROVE LoadedInv'
  BY <1>20 DEF Handle, Goto, LoadedInv, Told, TypeOK, JobsInv
<1>21. ASSUME NEW v \in Vcpus, EnterRun(v) PROVE LoadedInv'
  BY <1>21 DEF EnterRun, Goto, LoadedInv, Told, TypeOK, JobsInv
<1>22. ASSUME NEW v \in Vcpus, Exit(v) PROVE LoadedInv'
  BY <1>22 DEF Exit, Goto, LoadedInv, Told, TypeOK, JobsInv
<1>23. ASSUME NEW v \in Vcpus, LeaveRun(v) PROVE LoadedInv'
  BY <1>23 DEF LeaveRun, EndSection, Goto, LoadedInv, Told, TypeOK, JobsInv
<1>24. ASSUME NEW v \in Vcpus, NEW r \in Rights, SetCpuid(v, r) PROVE LoadedInv'
  BY <1>24 DEF SetCpuid, Goto, LoadedInv, Told, TypeOK, JobsInv
<1>25. ASSUME NEW v \in Vcpus, NEW r \in Rights, FirstWrite(v, r) PROVE LoadedInv'
  BY <1>25 DEF FirstWrite, Goto, LoadedInv, Told, TypeOK, JobsInv
<1>26. ASSUME UNCHANGED vars PROVE LoadedInv'
  BY <1>26 DEF vars, LoadedInv, Told, TypeOK, JobsInv
<1> QED
  BY <1>1, <1>2, <1>3, <1>4, <1>5, <1>6, <1>7, <1>8, <1>9, <1>10, <1>11, <1>12, <1>13, <1>14, <1>15, <1>16, <1>17, <1>18, <1>19, <1>20, <1>21, <1>22, <1>23, <1>24, <1>25, <1>26 DEF Next, Setter, Loop

\* So will a bit decided from an old filter.
LEMMA StaleStep ==
  ASSUME MsrInv, TypeOK', [Next]_vars
  PROVE  StaleInv'
<1> USE MsrAssumption DEF MsrInv, filter, setter, srcu, sched, intercepts
<1>1. ASSUME NEW s \in Setters, Alloc(s) PROVE StaleInv'
  \* The filter that is filled is not the published one.
  <2>1. \A r \in Rights : Allowed(msr_filter, r)' = Allowed(msr_filter, r)
    BY <1>1 DEF Alloc, OwnInv, NoLeak, Owner, Allowed, TypeOK
  <2>2. UNCHANGED <<msr_filter, todo, requests, shadow, jobs, bitmap>>
    BY <1>1 DEF Alloc
  <2>3. \A w \in Vcpus : Told(w) => Told(w)'
    BY <1>1, <2>2 DEF Alloc, GotoS, Told, TypeOK
  <2> QED
    BY <2>1, <2>2, <2>3 DEF StaleInv, TypeOK
<1>2. ASSUME NEW s \in Setters, AddFails(s) PROVE StaleInv'
  BY <1>2 DEF AddFails, AfterFailure, GotoS, StaleInv, LoadedInv, Told, Allowed, OwnInv, NoLeak, JobsInv, TypeOK
<1>3. ASSUME NEW s \in Setters, Replace(s) PROVE StaleInv'
  BY <1>3 DEF Replace, GotoS, StaleInv, LoadedInv, Told, Allowed, OwnInv, NoLeak, JobsInv, TypeOK
<1>4. ASSUME NEW s \in Setters, SyncStart(s) PROVE StaleInv'
  BY <1>4 DEF SyncStart, Readers, GotoS, StaleInv, LoadedInv, Told, Allowed, OwnInv, NoLeak, JobsInv, TypeOK
<1>5. ASSUME NEW s \in Setters, Free(s) PROVE StaleInv'
  BY <1>5 DEF Free, GotoS, StaleInv, LoadedInv, Told, Allowed, OwnInv, NoLeak, JobsInv, TypeOK
<1>6. ASSUME NEW s \in Setters, SendIpis(s) PROVE StaleInv'
  BY <1>6 DEF SendIpis, GotoS, StaleInv, LoadedInv, Told, Allowed, OwnInv, NoLeak, JobsInv, TypeOK
<1>7. ASSUME NEW s \in Setters, NEW v \in Vcpus, MakeRequest(s, v) PROVE StaleInv'
  BY <1>7 DEF MakeRequest, StaleInv, LoadedInv, Told, Allowed, OwnInv, NoLeak, JobsInv, TypeOK
<1>8. ASSUME NEW s \in Setters, NEW v \in Vcpus, ExitMode(s, v) PROVE StaleInv'
  BY <1>8 DEF ExitMode, StaleInv, LoadedInv, Told, Allowed, OwnInv, NoLeak, JobsInv, TypeOK
<1>9. ASSUME NEW v \in Vcpus, Lock(v) PROVE StaleInv'
  BY <1>9 DEF Lock, Goto, StaleInv, LoadedInv, Told, Allowed, OwnInv, NoLeak, JobsInv, TypeOK
<1>10. ASSUME NEW v \in Vcpus, Load(v) PROVE StaleInv'
  BY <1>10 DEF Load, Goto, StaleInv, LoadedInv, Told, Allowed, OwnInv, NoLeak, JobsInv, TypeOK
<1>11. ASSUME NEW v \in Vcpus, Decide(v) PROVE StaleInv'
  BY <1>11 DEF Decide, EndSection, Goto, StaleInv, LoadedInv, Told, Allowed, OwnInv, NoLeak, JobsInv, TypeOK
<1>12. ASSUME NEW v \in Vcpus, Online(v) PROVE StaleInv'
  BY <1>12 DEF Online, Goto, StaleInv, LoadedInv, Told, Allowed, OwnInv, NoLeak, JobsInv, TypeOK
<1>13. ASSUME NEW v \in Vcpus, CheckRequest(v) PROVE StaleInv'
  BY <1>13 DEF CheckRequest, Refresh, Goto, StaleInv, LoadedInv, Told, Allowed, OwnInv, NoLeak, JobsInv, TypeOK
<1>14. ASSUME NEW v \in Vcpus, SetMode(v) PROVE StaleInv'
  BY <1>14 DEF SetMode, Goto, StaleInv, LoadedInv, Told, Allowed, OwnInv, NoLeak, JobsInv, TypeOK
<1>15. ASSUME NEW v \in Vcpus, Unlock(v) PROVE StaleInv'
  BY <1>15 DEF Unlock, EndSection, Goto, StaleInv, LoadedInv, Told, Allowed, OwnInv, NoLeak, JobsInv, TypeOK
<1>16. ASSUME NEW v \in Vcpus, VmEnter(v) PROVE StaleInv'
  BY <1>16 DEF VmEnter, ExitRequest, Goto, StaleInv, LoadedInv, Told, Allowed, OwnInv, NoLeak, JobsInv, TypeOK
<1>17. ASSUME NEW v \in Vcpus, CancelEntry(v) PROVE StaleInv'
  BY <1>17 DEF CancelEntry, ExitRequest, Goto, StaleInv, LoadedInv, Told, Allowed, OwnInv, NoLeak, JobsInv, TypeOK
<1>18. ASSUME NEW v \in Vcpus, TakeIpi(v) PROVE StaleInv'
  BY <1>18 DEF TakeIpi, Goto, StaleInv, LoadedInv, Told, Allowed, OwnInv, NoLeak, JobsInv, TypeOK
<1>19. ASSUME NEW v \in Vcpus, Relock(v) PROVE StaleInv'
  BY <1>19 DEF Relock, Goto, StaleInv, LoadedInv, Told, Allowed, OwnInv, NoLeak, JobsInv, TypeOK
<1>20. ASSUME NEW v \in Vcpus, Handle(v) PROVE StaleInv'
  BY <1>20 DEF Handle, Goto, StaleInv, LoadedInv, Told, Allowed, OwnInv, NoLeak, JobsInv, TypeOK
<1>21. ASSUME NEW v \in Vcpus, EnterRun(v) PROVE StaleInv'
  BY <1>21 DEF EnterRun, Goto, StaleInv, LoadedInv, Told, Allowed, OwnInv, NoLeak, JobsInv, TypeOK
<1>22. ASSUME NEW v \in Vcpus, Exit(v) PROVE StaleInv'
  BY <1>22 DEF Exit, Goto, StaleInv, LoadedInv, Told, Allowed, OwnInv, NoLeak, JobsInv, TypeOK
<1>23. ASSUME NEW v \in Vcpus, LeaveRun(v) PROVE StaleInv'
  BY <1>23 DEF LeaveRun, EndSection, Goto, StaleInv, LoadedInv, Told, Allowed, OwnInv, NoLeak, JobsInv, TypeOK
<1>24. ASSUME NEW v \in Vcpus, NEW r \in Rights, SetCpuid(v, r) PROVE StaleInv'
  <2>1. UNCHANGED <<filter, setter, srcu, sched>>
    BY <1>24 DEF SetCpuid
  <2>2. \A w \in Vcpus : Told(w)' = Told(w)
    BY <2>1 DEF Told
  <2>3. \A q \in Rights : Allowed(msr_filter, q)' = Allowed(msr_filter, q)
    BY <2>1 DEF Allowed
  <2>4. \A w \in Vcpus : shadow'[w] \ jobs'[w] \subseteq shadow[w] \ jobs[w]
          /\ \A q \in shadow'[w] \ jobs'[w] : (q \in bitmap'[w]) = (q \in bitmap[w])
    <3> SUFFICES ASSUME NEW w \in Vcpus
                 PROVE  /\ shadow'[w] \ jobs'[w] \subseteq shadow[w] \ jobs[w]
                        /\ \A q \in shadow'[w] \ jobs'[w] : (q \in bitmap'[w]) = (q \in bitmap[w])
      OBVIOUS
    <3>1. CASE w # v  BY <1>24, <3>1 DEF SetCpuid, TypeOK
    <3>2. CASE w = v
      <4>1. CASE jobs'[v] = {r} /\ shadow'[v] = shadow[v] \cup {r} /\ bitmap'[v] = bitmap[v]
        BY <1>24, <3>2, <4>1 DEF SetCpuid
      <4>2. CASE jobs'[v] = jobs[v] /\ shadow'[v] = shadow[v] \ {r} /\ bitmap'[v] = bitmap[v] \ {r}
        BY <3>2, <4>2
      <4> QED  BY <1>24, <4>1, <4>2 DEF SetCpuid, TypeOK
    <3> QED  BY <3>1, <3>2
  <2>5. \A w \in Vcpus : shadow[w] \subseteq Rights
    BY DEF TypeOK
  <2> QED
    BY <2>2, <2>3, <2>4, <2>5 DEF StaleInv
<1>25. ASSUME NEW v \in Vcpus, NEW r \in Rights, FirstWrite(v, r) PROVE StaleInv'
  BY <1>25 DEF FirstWrite, Goto, StaleInv, LoadedInv, Told, Allowed, OwnInv, NoLeak, JobsInv, TypeOK
<1>26. ASSUME UNCHANGED vars PROVE StaleInv'
  BY <1>26 DEF vars, StaleInv, LoadedInv, Told, Allowed, OwnInv, NoLeak, JobsInv, TypeOK
<1> QED
  BY <1>1, <1>2, <1>3, <1>4, <1>5, <1>6, <1>7, <1>8, <1>9, <1>10, <1>11, <1>12, <1>13, <1>14, <1>15, <1>16, <1>17, <1>18, <1>19, <1>20, <1>21, <1>22, <1>23, <1>24, <1>25, <1>26 DEF Next, Setter, Loop

\* A request made while the guest runs is followed by the IPI.
LEMMA KickStep ==
  ASSUME MsrInv, TypeOK', [Next]_vars
  PROVE  KickInv'
<1> USE MsrAssumption DEF MsrInv, filter, setter, srcu, sched, intercepts
<1>1. ASSUME NEW s \in Setters, Alloc(s) PROVE KickInv'
  BY <1>1 DEF Alloc, GotoS, KickInv, JobsInv, TypeOK
<1>2. ASSUME NEW s \in Setters, AddFails(s) PROVE KickInv'
  BY <1>2 DEF AddFails, AfterFailure, GotoS, KickInv, JobsInv, TypeOK
<1>3. ASSUME NEW s \in Setters, Replace(s) PROVE KickInv'
  BY <1>3 DEF Replace, GotoS, KickInv, JobsInv, TypeOK
<1>4. ASSUME NEW s \in Setters, SyncStart(s) PROVE KickInv'
  BY <1>4 DEF SyncStart, Readers, GotoS, KickInv, JobsInv, TypeOK
<1>5. ASSUME NEW s \in Setters, Free(s) PROVE KickInv'
  BY <1>5 DEF Free, GotoS, KickInv, JobsInv, TypeOK
<1>6. ASSUME NEW s \in Setters, SendIpis(s) PROVE KickInv'
  BY <1>6 DEF SendIpis, GotoS, KickInv, JobsInv, TypeOK
<1>7. ASSUME NEW s \in Setters, NEW v \in Vcpus, MakeRequest(s, v) PROVE KickInv'
  BY <1>7 DEF MakeRequest, KickInv, JobsInv, TypeOK
<1>8. ASSUME NEW s \in Setters, NEW v \in Vcpus, ExitMode(s, v) PROVE KickInv'
  <2>1. /\ UNCHANGED <<pc, requests, ipi>> /\ requested' = [requested EXCEPT ![s] = @ \ {v}]
        /\ \A t \in Setters : kicked[t] \subseteq kicked'[t]
    BY <1>8 DEF ExitMode, TypeOK
  <2>2. SUFFICES ASSUME NEW w \in Vcpus
                 PROVE  /\ pc[w] \in {"unlock", "check", "guest"} => mode'[w] # "OUTSIDE"
                        /\ pc[w] = "guest" /\ mode'[w] = "EXITING" =>
                             ipi[w] \/ \E t \in Setters : w \in kicked'[t]
                        /\ pc[w] = "guest" /\ requests[w] =>
                             ipi[w] \/ \E t \in Setters : w \in requested'[t] \cup kicked'[t]
    BY <2>1 DEF KickInv
  <2>3. CASE w = v /\ mode[v] = "IN_GUEST"
    BY <1>8, <2>3 DEF ExitMode, TypeOK
  <2>4. CASE w = v /\ mode[v] # "IN_GUEST"
    <3>1. mode'[w] = mode[w] /\ mode[w] \in {"OUTSIDE", "EXITING"}
      BY <1>8, <2>4 DEF ExitMode, TypeOK
    <3>2. pc[w] = "guest" => ipi[w] \/ \E t \in Setters : w \in kicked[t]
      BY <3>1 DEF KickInv
    <3> QED
      BY <2>1, <3>1, <3>2 DEF KickInv
  <2>5. CASE w # v
    <3>1. mode'[w] = mode[w] /\ \A t \in Setters : w \in requested[t] => w \in requested'[t]
      BY <1>8, <2>1, <2>5 DEF ExitMode, TypeOK
    <3> QED
      BY <2>1, <3>1 DEF KickInv
  <2> QED
    BY <2>3, <2>4, <2>5
<1>9. ASSUME NEW v \in Vcpus, Lock(v) PROVE KickInv'
  BY <1>9 DEF Lock, Goto, KickInv, JobsInv, TypeOK
<1>10. ASSUME NEW v \in Vcpus, Load(v) PROVE KickInv'
  BY <1>10 DEF Load, Goto, KickInv, JobsInv, TypeOK
<1>11. ASSUME NEW v \in Vcpus, Decide(v) PROVE KickInv'
  BY <1>11 DEF Decide, EndSection, Goto, KickInv, JobsInv, TypeOK
<1>12. ASSUME NEW v \in Vcpus, Online(v) PROVE KickInv'
  BY <1>12 DEF Online, Goto, KickInv, JobsInv, TypeOK
<1>13. ASSUME NEW v \in Vcpus, CheckRequest(v) PROVE KickInv'
  BY <1>13 DEF CheckRequest, Refresh, Goto, KickInv, JobsInv, TypeOK
<1>14. ASSUME NEW v \in Vcpus, SetMode(v) PROVE KickInv'
  BY <1>14 DEF SetMode, Goto, KickInv, JobsInv, TypeOK
<1>15. ASSUME NEW v \in Vcpus, Unlock(v) PROVE KickInv'
  BY <1>15 DEF Unlock, EndSection, Goto, KickInv, JobsInv, TypeOK
<1>16. ASSUME NEW v \in Vcpus, VmEnter(v) PROVE KickInv'
  BY <1>16 DEF VmEnter, ExitRequest, Goto, KickInv, JobsInv, TypeOK
<1>17. ASSUME NEW v \in Vcpus, CancelEntry(v) PROVE KickInv'
  BY <1>17 DEF CancelEntry, ExitRequest, Goto, KickInv, JobsInv, TypeOK
<1>18. ASSUME NEW v \in Vcpus, TakeIpi(v) PROVE KickInv'
  BY <1>18 DEF TakeIpi, Goto, KickInv, JobsInv, TypeOK
<1>19. ASSUME NEW v \in Vcpus, Relock(v) PROVE KickInv'
  BY <1>19 DEF Relock, Goto, KickInv, JobsInv, TypeOK
<1>20. ASSUME NEW v \in Vcpus, Handle(v) PROVE KickInv'
  BY <1>20 DEF Handle, Goto, KickInv, JobsInv, TypeOK
<1>21. ASSUME NEW v \in Vcpus, EnterRun(v) PROVE KickInv'
  BY <1>21 DEF EnterRun, Goto, KickInv, JobsInv, TypeOK
<1>22. ASSUME NEW v \in Vcpus, Exit(v) PROVE KickInv'
  BY <1>22 DEF Exit, Goto, KickInv, JobsInv, TypeOK
<1>23. ASSUME NEW v \in Vcpus, LeaveRun(v) PROVE KickInv'
  BY <1>23 DEF LeaveRun, EndSection, Goto, KickInv, JobsInv, TypeOK
<1>24. ASSUME NEW v \in Vcpus, NEW r \in Rights, SetCpuid(v, r) PROVE KickInv'
  BY <1>24 DEF SetCpuid, Goto, KickInv, JobsInv, TypeOK
<1>25. ASSUME NEW v \in Vcpus, NEW r \in Rights, FirstWrite(v, r) PROVE KickInv'
  BY <1>25 DEF FirstWrite, Goto, KickInv, JobsInv, TypeOK
<1>26. ASSUME UNCHANGED vars PROVE KickInv'
  BY <1>26 DEF vars, KickInv, JobsInv, TypeOK
<1> QED
  BY <1>1, <1>2, <1>3, <1>4, <1>5, <1>6, <1>7, <1>8, <1>9, <1>10, <1>11, <1>12, <1>13, <1>14, <1>15, <1>16, <1>17, <1>18, <1>19, <1>20, <1>21, <1>22, <1>23, <1>24, <1>25, <1>26 DEF Next, Setter, Loop

LEMMA MsrInvariant == Spec => []MsrInv
<1>1. Init => MsrInv
  BY InitInv
<1>2. MsrInv /\ [Next]_vars => MsrInv'
  BY TypeStep, JobsStep, OwnStep, ReadStep, LoadedStep, StaleStep, KickStep DEF MsrInv
<1> QED
  BY <1>1, <1>2, PTL DEF Spec

-----------------------------------------------------------------------------
\* Types of the ioctl's, the vCPUs' and the bitmaps' state.
THEOREM TypeCorrect == Spec => []TypeOK
<1>1. MsrInv => TypeOK
  BY DEF MsrInv
<1> QED
  BY <1>1, MsrInvariant, PTL

\* synchronize_srcu before kvm_free_msr_filter: no vCPU reads a freed filter.
THEOREM NoUseAfterFreeCorrect == Spec => []NoUseAfterFree
<1>1. MsrInv => NoUseAfterFree
  <2> SUFFICES ASSUME MsrInv PROVE NoUseAfterFree
    OBVIOUS
  <2>1. \A f : Owner(f) /\ f # NoFilter => f \in allocated
    BY DEF MsrInv, OwnInv, NoLeak, Owner
  <2>2. Owner(msr_filter) /\ \A s \in Setters : Owner(old[s])
    BY DEF Owner
  <2> QED
    BY <2>1, <2>2 DEF MsrInv, ReadInv, NoUseAfterFree
<1> QED
  BY <1>1, MsrInvariant, PTL

\* kvm_free_msr_filter on every path: no filter is forgotten.
THEOREM NoLeakCorrect == Spec => []NoLeak
<1>1. MsrInv => NoLeak
  BY DEF MsrInv, OwnInv
<1> QED
  BY <1>1, MsrInvariant, PTL

\* vmx_msr_filter_changed: no guest runs on with an old bitmap unless it is being kicked.
THEOREM BitmapFreshCorrect == Spec => []BitmapFresh
<1>1. MsrInv => BitmapFresh
  <2> SUFFICES ASSUME MsrInv, NEW v \in Vcpus \ Late, pc[v] = "guest", ~Fresh(v)
               PROVE  ipi[v] \/ \E s \in Setters : Underway(s, v)
    BY DEF BitmapFresh, FreshOrReached
  <2>1. jobs[v] = {} /\ bitmap[v] \subseteq shadow[v]
    BY DEF MsrInv, JobsInv
  <2>2. PICK r \in shadow[v] : (r \in bitmap[v]) # Allowed(msr_filter, r)
    BY <2>1 DEF Fresh
  <2>3. Told(v)
    BY <2>1, <2>2 DEF MsrInv, StaleInv
  <2> QED
    BY <2>3 DEF MsrInv, KickInv, Told, Underway
<1> QED
  BY <1>1, MsrInvariant, PTL
=============================================================================
