--------------------------- MODULE KvmPartsProofs ---------------------------
(***************************************************************************)
(* The invariants of KvmParts' components, for every value of the          *)
(* constants; KvmProofs concludes the suite's properties from them.        *)
(*                                                                         *)
(* In RdtscHandler, NeverAhead needs only that a handler's own register is *)
(* capped when it answers (Capped).  NeverBack and SlowRate rest on        *)
(* SerialInv, which says where the one running handler is and how its      *)
(* registers relate to the static variables: those are consistent          *)
(* (Settled) except between the gain and the store of rdtsc_prev.          *)
(***************************************************************************)
EXTENDS KvmParts, TLAPS

\* Every reading is one the clock has passed.
Past == rdtsc_prev <= clock /\ \A v \in Vcpus : rdtsc_real[v] <= clock

\* A handler that is about to answer has capped its counter.
Capped == \A v \in Vcpus : pc[v] = "finish" => fake[v] <= rdtsc_real[v]

\* The slow counter f against the host's counter p.
Rate(f, p) == origin <= f /\ f <= p /\ Divisor * (f - origin) <= p - origin

\* No guest has been told a time beyond the slow counter.
ToldUpTo(f) == \A w \in Vcpus : Seen(w) <= f

\* The static variables between two handlers.
Settled ==
  IF print_once THEN rdtsc_prev = 0 /\ ToldUpTo(0)
  ELSE rdtsc_prev # 0 /\ Rate(rdtsc_fake, rdtsc_prev) /\ ToldUpTo(rdtsc_fake)

Idle == {"guest", "first", "start", "clear", "load_prev", "load_fake"}

\* What the one running handler knows where it stands.
Place(v) ==
  /\ pc[v] # "guest" => rdtsc_prev <= rdtsc_real[v] /\ 0 < rdtsc_real[v]
  /\ pc[v] \in Idle => Settled
  /\ pc[v] = "start" => print_once
  /\ pc[v] = "clear" => print_once /\ prev[v] = 0
  /\ pc[v] = "seed" => ~print_once /\ rdtsc_prev = 0 /\ prev[v] = 0 /\ ToldUpTo(0)
  /\ pc[v] = "load_prev" => ~print_once
  /\ pc[v] = "load_fake" => ~print_once /\ prev[v] = rdtsc_prev
  /\ pc[v] = "gain" =>
       /\ ~print_once /\ prev[v] = rdtsc_prev /\ fake[v] = rdtsc_fake /\ ToldUpTo(rdtsc_fake)
       /\ IF prev[v] = 0 THEN Rate(fake[v], rdtsc_real[v]) ELSE Rate(fake[v], prev[v])
  /\ pc[v] \in {"cap", "finish"} =>
       /\ ~print_once /\ fake[v] = rdtsc_fake /\ ToldUpTo(rdtsc_fake)
       /\ Rate(fake[v], rdtsc_real[v])

Alone == \A v, w \in Vcpus : pc[v] # "guest" /\ pc[w] # "guest" => v = w

SerialInv == ~raced =>
  /\ Alone
  /\ \A v \in Vcpus : pc[v] # "guest" => Place(v)
  /\ (\A v \in Vcpus : pc[v] = "guest") => Settled

RdtscInv == TypeOK /\ Past /\ Capped /\ SerialInv

-----------------------------------------------------------------------------
\* Integer division by the code's constants.
LEMMA DivisionFacts ==
  ASSUME NEW n \in Nat, NEW d \in Nat \ {0}
  PROVE  /\ n \div d \in Nat /\ n % d \in 0..(d - 1)
         /\ n = d * (n \div d) + (n % d)
OBVIOUS

LEMMA QuotientBound ==
  ASSUME NEW d \in Nat \ {0}, NEW q \in Nat, NEW r \in Nat, d * q + r < d * d
  PROVE  q < d
OBVIOUS

\* The two halves a guest reads are the slow counter the handler split.
LEMMA Halves ==
  ASSUME NEW f \in Nat, f <= MaxClock
  PROVE  /\ Low(f) \in 0..(Half - 1) /\ High(f) \in 0..(Half - 1)
         /\ High(f) * Half + Low(f) = f
<1> DEFINE q == f \div Half
           r == f % Half
<1>1. Half \in Nat \ {0} /\ MaxClock \in Nat /\ MaxClock < Half * Half
  BY RdtscAssumption
<1>2. q \in Nat /\ r \in 0..(Half - 1) /\ f = Half * q + r
  BY <1>1, DivisionFacts
<1> HIDE DEF q, r
<1>3. Half * Half \in Nat /\ Half * q + r < Half * Half
  BY <1>1, <1>2
<1>4. q < Half
  BY <1>1, <1>2, <1>3, QuotientBound
<1>5. q % Half = q
  BY <1>1, <1>2, <1>4
<1>6. Low(f) = r /\ High(f) = q
  BY <1>5 DEF Low, High, q, r
<1>7. q * Half = Half * q
  BY <1>1, <1>2
<1> QED
  BY <1>1, <1>2, <1>4, <1>6, <1>7

\* A sixteenth of what passed keeps the slow counter within its rate.
LEMMA GainKeepsRate ==
  ASSUME NEW o \in Nat, NEW f \in Nat, NEW p \in Nat, NEW r \in Nat,
         o <= f, f <= p, p < r, Divisor * (f - o) <= p - o
  PROVE  /\ Gained(f, r - p) \in Nat
         /\ o <= Gained(f, r - p) /\ f <= Gained(f, r - p) /\ Gained(f, r - p) <= r
         /\ Divisor * (Gained(f, r - p) - o) <= r - o
<1> DEFINE q == (r - p) \div Divisor
<1>1. Divisor \in Nat \ {0}
  BY RdtscAssumption
<1>2. r - p \in Nat
  OBVIOUS
<1>3. q \in Nat /\ (r - p) % Divisor \in 0..(Divisor - 1)
        /\ r - p = Divisor * q + ((r - p) % Divisor)
  BY <1>1, <1>2, DivisionFacts
<1> HIDE DEF q
<1>4. Gained(f, r - p) = f + q
  BY DEF Gained, q
<1>5. Divisor * q <= r - p
  BY <1>1, <1>3
<1>6. Divisor * ((f + q) - o) = Divisor * (f - o) + Divisor * q
  BY <1>1, <1>3
<1>7. Divisor * ((f + q) - o) <= r - o
  BY <1>1, <1>3, <1>5, <1>6
<1>8. q <= Divisor * q
  BY <1>1, <1>3
<1>9. q <= r - p
  BY <1>1, <1>3, <1>5, <1>8
<1> QED
  BY <1>3, <1>4, <1>7, <1>9

-----------------------------------------------------------------------------
LEMMA InitInv == Init => RdtscInv
<1> SUFFICES ASSUME Init PROVE RdtscInv
  OBVIOUS
<1> USE RdtscAssumption
<1>1. TypeOK
  <2>1. clock \in 1..MaxClock /\ print_once \in BOOLEAN /\ rdtsc_fake \in Nat
          /\ rdtsc_prev \in 0..MaxClock /\ pc \in [Vcpus -> Labels]
    BY DEF Init, Labels
  <2>2. 0 \in 0..MaxClock /\ 0 \in 0..(Half - 1)
    OBVIOUS
  <2>3. /\ rdtsc_real \in [Vcpus -> 0..MaxClock]
        /\ fake \in [Vcpus -> Nat] /\ prev \in [Vcpus -> 0..MaxClock]
    BY <2>2 DEF Init
  <2>4. rax \in [Vcpus -> 0..(Half - 1)] /\ rdx \in [Vcpus -> 0..(Half - 1)]
    BY <2>2 DEF Init
  <2> QED
    BY <2>1, <2>2, <2>3, <2>4 DEF Init, TypeOK
<1>2. Past /\ Capped
  BY DEF Init, Past, Capped
<1>3. Settled /\ Alone
  BY DEF Init, Settled, Alone, ToldUpTo, Seen
<1> QED
  BY <1>1, <1>2, <1>3 DEF Init, RdtscInv, SerialInv

\* handle_rdtsc keeps the types, its readings in the past and its answer capped, however the
\* handlers interleave.
LEMMA TypeStep ==
  ASSUME TypeOK, Past, Capped, [Next]_vars
  PROVE  TypeOK' /\ Past' /\ Capped'
<1> USE RdtscAssumption
<1>1. CASE Tick
  BY <1>1 DEF Tick, TypeOK, Past, Capped, shared, local, regs, hist
<1>2. CASE \E v \in Vcpus : Handler(v)
  <2> PICK v \in Vcpus : Handler(v)
    BY <1>2
  <2> USE DEF Step, shared, local, regs, hist
  <2>1. CASE ReadReal(v)
    BY <2>1 DEF ReadReal, TypeOK, Past, Capped, Labels
  <2>2. CASE First(v)
    BY <2>2 DEF First, TypeOK, Past, Capped, Labels
  <2>3. CASE Start(v)
    BY <2>3 DEF Start, TypeOK, Past, Capped, Labels
  <2>4. CASE Clear(v)
    BY <2>4 DEF Clear, TypeOK, Past, Capped, Labels
  <2>5. CASE Seed(v)
    BY <2>5 DEF Seed, TypeOK, Past, Capped, Labels
  <2>6. CASE LoadPrev(v)
    BY <2>6 DEF LoadPrev, TypeOK, Past, Capped, Labels
  <2>7. CASE LoadFake(v)
    BY <2>7 DEF LoadFake, TypeOK, Past, Capped, Labels
  <2>8. CASE Gain(v)
    <3>1. CASE prev[v] # 0 /\ rdtsc_real[v] > prev[v]
      <4>1. rdtsc_real[v] - prev[v] \in Nat /\ fake[v] \in Nat /\ Divisor \in Nat \ {0}
        BY <3>1 DEF TypeOK
      <4>2. (rdtsc_real[v] - prev[v]) \div Divisor \in Nat
        BY <4>1, DivisionFacts
      <4>3. Gained(fake[v], rdtsc_real[v] - prev[v]) \in Nat
        BY <4>1, <4>2 DEF Gained
      <4> QED
        BY <2>8, <3>1, <4>3 DEF Gain, TypeOK, Past, Capped, Labels
    <3>2. CASE ~(prev[v] # 0 /\ rdtsc_real[v] > prev[v])
      BY <2>8, <3>2 DEF Gain, TypeOK, Past, Capped, Labels
    <3> QED
      BY <3>1, <3>2
  <2>9. CASE Cap(v)
    BY <2>9 DEF Cap, Ahead, TypeOK, Past, Capped, Labels
  <2>10. CASE Finish(v)
    <3>1. fake[v] \in Nat /\ fake[v] <= MaxClock
      BY <2>10 DEF Finish, TypeOK, Capped
    <3>2. Low(fake[v]) \in 0..(Half - 1) /\ High(fake[v]) \in 0..(Half - 1)
      BY <3>1, Halves
    <3> QED
      BY <2>10, <3>2 DEF Finish, TypeOK, Past, Capped, Labels
  <2> QED
    BY <2>1, <2>2, <2>3, <2>4, <2>5, <2>6, <2>7, <2>8, <2>9, <2>10 DEF Handler
<1>3. CASE UNCHANGED vars
  BY <1>3 DEF vars, TypeOK, Past, Capped, shared, local, regs, hist
<1> QED
  BY <1>1, <1>2, <1>3 DEF Next

\* Without an overlap one handler runs at a time, and where it stands the static variables are
\* what it knows them to be.
LEMMA SerialStep ==
  ASSUME RdtscInv, TypeOK', [Next]_vars
  PROVE  SerialInv'
<1> USE RdtscAssumption DEF RdtscInv
<1> SUFFICES ASSUME ~raced'
             PROVE  /\ Alone'
                    /\ \A v \in Vcpus : pc'[v] # "guest" => Place(v)'
                    /\ (\A v \in Vcpus : pc'[v] = "guest") => Settled'
  BY DEF SerialInv
<1>1. CASE Tick
  <2>1. ~raced /\ UNCHANGED <<shared, pc, local, regs, hist>>
    BY <1>1 DEF Tick, hist
  <2> QED
    BY <2>1 DEF SerialInv, Alone, Place, Settled, ToldUpTo, Rate, Seen, shared, local, regs,
        hist
<1>2. CASE \E v \in Vcpus : Handler(v)
  <2> PICK v \in Vcpus : Handler(v)
    BY <1>2
  <2>0. ~raced
    BY DEF Handler, ReadReal, First, Start, Clear, Seed, LoadPrev, LoadFake, Gain, Cap,
        Finish,
           hist
  <2>1. \A w \in Vcpus : w # v => pc[w] = "guest"
    <3>1. CASE ReadReal(v)
      BY <3>1 DEF ReadReal
    <3>2. CASE ~ReadReal(v)
      <4>1. pc[v] # "guest"
        BY <3>2 DEF Handler, First, Start, Clear, Seed, LoadPrev, LoadFake, Gain, Cap, Finish,
            Step
      <4> QED
        BY <2>0, <4>1 DEF SerialInv, Alone
    <3> QED
      BY <3>1, <3>2
  <2>2. pc' = [pc EXCEPT ![v] = pc'[v]] /\ pc \in [Vcpus -> Labels]
    BY DEF TypeOK, Handler, ReadReal, First, Start, Clear, Seed, LoadPrev, LoadFake, Gain,
        Cap,
           Finish, Step
  <2>3. Alone' /\ \A w \in Vcpus : w # v => pc'[w] = "guest"
    BY <2>1, <2>2 DEF Alone
  <2>4. pc[v] # "guest" => Place(v)
    BY <2>0 DEF SerialInv
  <2>5. SUFFICES /\ pc'[v] # "guest" => Place(v)'
                 /\ pc'[v] = "guest" => Settled'
    BY <2>3
  <2> USE DEF Step, Place, Idle, hist, shared, local, regs
  <2>6. CASE ReadReal(v)
    <3>1. Settled
      BY <2>0, <2>1, <2>6 DEF ReadReal, SerialInv
    <3>2. Settled'
      BY <2>6, <3>1 DEF ReadReal, Settled, ToldUpTo, Rate, Seen
    <3>3. pc'[v] = "first" /\ rdtsc_real'[v] = clock /\ rdtsc_prev' = rdtsc_prev
      BY <2>6 DEF ReadReal, TypeOK
    <3>4. 0 < clock /\ rdtsc_prev <= clock
      BY DEF TypeOK, Past
    <3> QED
      BY <3>2, <3>3, <3>4
  <2>7. CASE First(v)
    <3>1. Settled /\ Settled'
      BY <2>4, <2>7 DEF First, Settled, ToldUpTo, Rate, Seen
    <3> QED
      BY <2>4, <2>7, <3>1 DEF First, Settled, TypeOK
  <2>8. CASE Start(v)
    <3>1. Settled /\ Settled'
      BY <2>4, <2>8 DEF Start, Settled, ToldUpTo, Rate, Seen
    <3> QED
      BY <2>4, <2>8, <3>1 DEF Start, Settled, TypeOK
  <2>9. CASE Clear(v)
    <3>1. rdtsc_prev = 0 /\ ToldUpTo(0)
      BY <2>4, <2>9 DEF Clear, Settled
    <3>2. ToldUpTo(0)'
      BY <2>9, <3>1 DEF Clear, ToldUpTo, Seen
    <3> QED
      BY <2>4, <2>9, <3>1, <3>2 DEF Clear, TypeOK
  <2>10. CASE LoadPrev(v)
    <3>1. Settled /\ Settled'
      BY <2>4, <2>10 DEF LoadPrev, Settled, ToldUpTo, Rate, Seen
    <3> QED
      BY <2>4, <2>10, <3>1 DEF LoadPrev, Settled, TypeOK
  <2>11. CASE LoadFake(v)
    <3>1. /\ ~print_once /\ prev[v] = rdtsc_prev /\ rdtsc_prev # 0
          /\ Rate(rdtsc_fake, rdtsc_prev) /\ ToldUpTo(rdtsc_fake)
      BY <2>4, <2>11 DEF LoadFake, Settled
    <3>2. pc'[v] = "gain" /\ fake'[v] = rdtsc_fake /\ UNCHANGED <<shared, rdtsc_real, prev, regs, hist>>
      BY <2>11 DEF LoadFake, TypeOK
    <3>3. Rate(rdtsc_fake, rdtsc_prev)' /\ ToldUpTo(rdtsc_fake)'
      BY <3>1, <3>2 DEF Rate, ToldUpTo, Seen
    <3> QED
      BY <2>4, <2>11, <3>1, <3>2, <3>3 DEF LoadFake, Rate
  <2>12. CASE Seed(v)
    <3>1. ~print_once /\ rdtsc_prev = 0 /\ prev[v] = 0 /\ ToldUpTo(0)
      BY <2>4, <2>12 DEF Seed
    <3>2. /\ pc'[v] = "gain" /\ rdtsc_fake' = rdtsc_real[v] /\ fake'[v] = rdtsc_real[v]
          /\ origin' = rdtsc_real[v] /\ UNCHANGED <<print_once, rdtsc_prev, rdtsc_real, prev, regs>>
      BY <2>12 DEF Seed, TypeOK
    <3>3. rdtsc_real[v] \in Nat /\ \A w \in Vcpus : Seen(w) \in Int
      BY DEF TypeOK, Seen
    <3>4. Rate(fake[v], rdtsc_real[v])' /\ ToldUpTo(rdtsc_fake)'
      BY <3>1, <3>2, <3>3 DEF Rate, ToldUpTo, Seen
    <3> QED
      BY <2>4, <2>12, <3>1, <3>2, <3>4 DEF Seed
  <2>13. CASE Gain(v)
    <3>1. /\ ~print_once /\ prev[v] = rdtsc_prev /\ fake[v] = rdtsc_fake /\ ToldUpTo(rdtsc_fake)
          /\ IF prev[v] = 0 THEN Rate(fake[v], rdtsc_real[v]) ELSE Rate(fake[v], prev[v])
          /\ rdtsc_prev <= rdtsc_real[v] /\ 0 < rdtsc_real[v]
      BY <2>4, <2>13 DEF Gain
    <3>2. /\ pc'[v] = "cap"
          /\ UNCHANGED <<print_once, rdtsc_prev, rdtsc_real, prev, regs, hist>>
      BY <2>13 DEF Gain, TypeOK
    <3>3. /\ rdtsc_real[v] \in Nat /\ prev[v] \in Nat /\ fake[v] \in Nat /\ origin \in Nat
          /\ \A w \in Vcpus : Seen(w) \in Int
      BY DEF TypeOK, Seen
    <3>4. CASE prev[v] # 0 /\ rdtsc_real[v] > prev[v]
      <4>1. /\ Gained(fake[v], rdtsc_real[v] - prev[v]) \in Nat
            /\ fake[v] <= Gained(fake[v], rdtsc_real[v] - prev[v])
            /\ Rate(Gained(fake[v], rdtsc_real[v] - prev[v]), rdtsc_real[v])
        BY <3>1, <3>3, <3>4, GainKeepsRate DEF Rate
      <4>2. /\ fake'[v] = Gained(fake[v], rdtsc_real[v] - prev[v])
            /\ rdtsc_fake' = fake'[v]
        BY <2>13, <3>4 DEF Gain, TypeOK
      <4>3. Rate(fake[v], rdtsc_real[v])'
        BY <3>2, <4>1, <4>2 DEF Rate
      <4>4. ToldUpTo(rdtsc_fake)'
        BY <3>1, <3>2, <3>3, <4>1, <4>2 DEF ToldUpTo, Seen
      <4> QED
        BY <3>1, <3>2, <4>2, <4>3, <4>4
    <3>5. CASE ~(prev[v] # 0 /\ rdtsc_real[v] > prev[v])
      <4>1. Rate(fake[v], rdtsc_real[v])
        BY <3>1, <3>3, <3>5
      <4>2. UNCHANGED <<fake, rdtsc_fake>>
        BY <2>13, <3>5 DEF Gain
      <4>3. Rate(fake[v], rdtsc_real[v])' /\ ToldUpTo(rdtsc_fake)'
        BY <3>1, <3>2, <4>1, <4>2 DEF Rate, ToldUpTo, Seen
      <4> QED
        BY <3>1, <3>2, <4>2, <4>3
    <3> QED
      BY <3>4, <3>5
  <2>14. CASE Cap(v)
    <3>1. ~Ahead(fake[v], rdtsc_real[v])
      BY <2>4, <2>14 DEF Cap, Ahead, Rate, TypeOK
    <3>2. pc'[v] = "finish" /\ UNCHANGED <<clock, shared, local, regs, hist>>
      BY <2>14, <3>1 DEF Cap, TypeOK
    <3>3. ToldUpTo(rdtsc_fake)' /\ Rate(fake[v], rdtsc_real[v])'
      BY <2>4, <2>14, <3>2 DEF Cap, ToldUpTo, Seen, Rate
    <3> QED
      BY <2>4, <2>14, <3>2, <3>3 DEF Cap
  <2>15. CASE Finish(v)
    <3>1. /\ ~print_once /\ fake[v] = rdtsc_fake /\ ToldUpTo(rdtsc_fake)
          /\ Rate(fake[v], rdtsc_real[v]) /\ 0 < rdtsc_real[v]
      BY <2>4, <2>15 DEF Finish
    <3>2. fake[v] \in Nat /\ fake[v] <= MaxClock
      BY <2>15 DEF Finish, TypeOK, Capped
    <3>3. /\ pc'[v] = "guest" /\ rdtsc_prev' = rdtsc_real[v]
          /\ UNCHANGED <<print_once, rdtsc_fake, fake, rdtsc_real, origin>>
      BY <2>15 DEF Finish, TypeOK
    <3>4. \A w \in Vcpus : Seen(w)' = IF w = v THEN fake[v] ELSE Seen(w)
      BY <2>15, <3>2, Halves DEF Finish, Seen, TypeOK
    <3>5. ToldUpTo(rdtsc_fake)'
      BY <3>1, <3>2, <3>3, <3>4 DEF ToldUpTo
    <3>6. Rate(rdtsc_fake, rdtsc_prev)'
      BY <3>1, <3>3 DEF Rate
    <3> QED
      BY <3>1, <3>3, <3>5, <3>6 DEF Settled
  <2> QED
    BY <2>6, <2>7, <2>8, <2>9, <2>10, <2>11, <2>12, <2>13, <2>14, <2>15 DEF Handler
<1>3. CASE UNCHANGED vars
  BY <1>3 DEF vars, SerialInv, Alone, Place, Settled, ToldUpTo, Rate, Seen, shared, local,
      regs, hist
<1> QED
  BY <1>1, <1>2, <1>3 DEF Next

LEMMA RdtscInvariant == Spec => []RdtscInv
<1>1. Init => RdtscInv
  BY InitInv
<1>2. RdtscInv /\ [Next]_vars => RdtscInv'
  BY TypeStep, SerialStep DEF RdtscInv
<1> QED
  BY <1>1, <1>2, PTL DEF Spec

-----------------------------------------------------------------------------
\* Only Finish answers.
LEMMA AnsweredIsFinish ==
  ASSUME TypeOK, Next, NEW v \in Vcpus, Answered(v)
  PROVE  Finish(v)
<1>1. CASE Tick
  BY <1>1 DEF Tick, Answered
<1>2. CASE \E w \in Vcpus : Handler(w)
  <2> PICK w \in Vcpus : Handler(w)
    BY <1>2
  <2>1. \A from, to : Step(w, from, to) /\ to # "guest" => ~Answered(v)
    BY DEF Step, Answered, TypeOK
  <2>2. \A from, to : Step(w, from, to) /\ w # v => ~Answered(v)
    BY DEF Step, Answered, TypeOK
  <2>3. w = v
    BY <2>2 DEF Handler, ReadReal, First, Start, Clear, Seed, LoadPrev, LoadFake, Gain, Cap,
        Finish
  <2>4. ~(ReadReal(w) \/ First(w) \/ Start(w) \/ Clear(w) \/ Seed(w) \/ LoadPrev(w)
            \/ LoadFake(w) \/ Gain(w) \/ Cap(w))
    BY <2>1 DEF ReadReal, First, Start, Clear, Seed, LoadPrev, LoadFake, Gain, Cap
  <2> QED
    BY <2>3, <2>4 DEF Handler
<1> QED
  BY <1>1, <1>2 DEF Next

-----------------------------------------------------------------------------
(***************************************************************************)
(* LoadedVmcs: who clears a VMCS for whom, in which list it is meanwhile,  *)
(* and what its cpu field then means.                                      *)
(***************************************************************************)
LEMMA VmcsInit == ASSUME Vmcs!Constants PROVE Vmcs!Init => Vmcs!VmcsInv
<1> SUFFICES ASSUME Vmcs!Init PROVE Vmcs!VmcsInv  OBVIOUS
<1> USE DEF Vmcs!Init, Vmcs!Constants, Vmcs!OffCpu, Vmcs!Moving, Vmcs!Running, Vmcs!Waiting
<1>1. Vmcs!TypeInv  BY DEF Vmcs!TypeInv
<1>2. Vmcs!ThreadInv /\ Vmcs!FieldInv /\ Vmcs!ClearInv /\ Vmcs!ListInv
  BY DEF Vmcs!ThreadInv, Vmcs!FieldInv, Vmcs!ClearInv, Vmcs!ListInv, Vmcs!Clearing
<1> QED  BY <1>1, <1>2 DEF Vmcs!VmcsInv

LEMMA VmcsTypes == ASSUME Vmcs!Constants, Vmcs!TypeInv,
    [Vmcs!Next]_(Vmcs!vars) PROVE Vmcs!TypeInv'
<1> USE DEF Vmcs!TypeInv, Vmcs!cpus, Vmcs!vmcs, Vmcs!clear, Vmcs!Go, Vmcs!OffCpu, Vmcs!Moving,
    Vmcs!Running
<1>1. ASSUME NEW c \in Cpus, Vmcs!Clear(c) PROVE Vmcs!TypeInv'
  BY <1>1 DEF Vmcs!Clear, Vmcs!Stores
<1>2. ASSUME NEW c \in Cpus, Vmcs!Unlink(c) PROVE Vmcs!TypeInv'
  BY <1>2 DEF Vmcs!Unlink, Vmcs!Stores
<1>3. ASSUME NEW c \in Cpus, Vmcs!Release(c) PROVE Vmcs!TypeInv'
  BY <1>3 DEF Vmcs!Release, Vmcs!Stores
<1>4. ASSUME NEW c \in Cpus, Vmcs!ClearLaunched(c) PROVE Vmcs!TypeInv'
  BY <1>4 DEF Vmcs!ClearLaunched
<1>5. ASSUME NEW c \in Cpus, Vmcs!Offline(c) PROVE Vmcs!TypeInv'
  BY <1>5 DEF Vmcs!Offline
<1>6. ASSUME NEW c \in Cpus, Vmcs!ClearLocal(c) PROVE Vmcs!TypeInv'
  BY <1>6 DEF Vmcs!ClearLocal, Vmcs!Begin
<1>7. ASSUME NEW c \in Cpus, Vmcs!Vmxoff(c) PROVE Vmcs!TypeInv'
  BY <1>7 DEF Vmcs!Vmxoff
<1>8. ASSUME NEW c \in Cpus, Vmcs!Online(c) PROVE Vmcs!TypeInv'
  BY <1>8 DEF Vmcs!Online
<1>9. ASSUME NEW v \in Vcpus, NEW c \in Cpus, Vmcs!VcpuLoad(v, c) PROVE Vmcs!TypeInv'
  BY <1>9 DEF Vmcs!VcpuLoad
<1>10. ASSUME NEW v \in Vcpus, Vmcs!ReadCpu(v) PROVE Vmcs!TypeInv'
  BY <1>10 DEF Vmcs!ReadCpu
<1>11. ASSUME NEW v \in Vcpus, Vmcs!Interrupt(v) PROVE Vmcs!TypeInv'
  BY <1>11 DEF Vmcs!Interrupt, Vmcs!Begin
<1>12. ASSUME NEW v \in Vcpus, Vmcs!Interrupted(v) PROVE Vmcs!TypeInv'
  BY <1>12 DEF Vmcs!Interrupted
<1>13. ASSUME NEW v \in Vcpus, Vmcs!Link(v) PROVE Vmcs!TypeInv'
  BY <1>13 DEF Vmcs!Link
<1>14. ASSUME NEW v \in Vcpus, Vmcs!MakeCurrent(v) PROVE Vmcs!TypeInv'
  BY <1>14 DEF Vmcs!MakeCurrent
<1>15. ASSUME NEW v \in Vcpus, Vmcs!Settle(v) PROVE Vmcs!TypeInv'
  BY <1>15 DEF Vmcs!Settle
<1>16. ASSUME NEW v \in Vcpus, Vmcs!ChooseEntry(v) PROVE Vmcs!TypeInv'
  BY <1>16 DEF Vmcs!ChooseEntry
<1>17. ASSUME NEW v \in Vcpus, Vmcs!Run(v) PROVE Vmcs!TypeInv'
  BY <1>17 DEF Vmcs!Run
<1>18. ASSUME NEW v \in Vcpus, Vmcs!MarkLaunched(v) PROVE Vmcs!TypeInv'
  BY <1>18 DEF Vmcs!MarkLaunched
<1>19. ASSUME NEW v \in Vcpus, Vmcs!VcpuPut(v) PROVE Vmcs!TypeInv'
  BY <1>19 DEF Vmcs!VcpuPut
<1>20. ASSUME NEW v \in Vcpus, Vmcs!Destroy(v) PROVE Vmcs!TypeInv'
  BY <1>20 DEF Vmcs!Destroy
<1>21. ASSUME NEW v \in Vcpus, Vmcs!Free(v) PROVE Vmcs!TypeInv'
  BY <1>21 DEF Vmcs!Free
<1>22. CASE UNCHANGED Vmcs!vars  BY <1>22 DEF Vmcs!vars
<1> QED
  BY <1>1, <1>2, <1>3, <1>4, <1>5, <1>6, <1>7, <1>8, <1>9, <1>10, <1>11, <1>12, <1>13,
     <1>14, <1>15, <1>16, <1>17, <1>18, <1>19, <1>20, <1>21, <1>22 DEF Vmcs!Next

LEMMA VmcsThread == ASSUME Vmcs!Constants, Vmcs!VmcsInv, Vmcs!TypeInv',
    [Vmcs!Next]_(Vmcs!vars) PROVE Vmcs!ThreadInv'
<1> USE DEF Vmcs!VmcsInv, Vmcs!TypeInv, Vmcs!ThreadInv, Vmcs!FieldInv, Vmcs!ClearInv,
    Vmcs!ListInv, Vmcs!Clearing, Vmcs!Constants,
            Vmcs!Moving, Vmcs!Running, Vmcs!Waiting, Vmcs!OffCpu, Vmcs!cpus, Vmcs!vmcs, Vmcs!clear, Vmcs!Go
<1>1. ASSUME NEW c \in Cpus, Vmcs!Clear(c) PROVE Vmcs!ThreadInv'
  BY <1>1 DEF Vmcs!Clear, Vmcs!Stores
<1>2. ASSUME NEW c \in Cpus, Vmcs!Unlink(c) PROVE Vmcs!ThreadInv'
  BY <1>2 DEF Vmcs!Unlink, Vmcs!Stores
<1>3. ASSUME NEW c \in Cpus, Vmcs!Release(c) PROVE Vmcs!ThreadInv'
  BY <1>3 DEF Vmcs!Release, Vmcs!Stores
<1>4. ASSUME NEW c \in Cpus, Vmcs!ClearLaunched(c) PROVE Vmcs!ThreadInv'
  BY <1>4 DEF Vmcs!ClearLaunched
<1>5. ASSUME NEW c \in Cpus, Vmcs!Offline(c) PROVE Vmcs!ThreadInv'
  BY <1>5 DEF Vmcs!Offline
<1>6. ASSUME NEW c \in Cpus, Vmcs!ClearLocal(c) PROVE Vmcs!ThreadInv'
  BY <1>6 DEF Vmcs!ClearLocal, Vmcs!Begin
<1>7. ASSUME NEW c \in Cpus, Vmcs!Vmxoff(c) PROVE Vmcs!ThreadInv'
  BY <1>7 DEF Vmcs!Vmxoff
<1>8. ASSUME NEW c \in Cpus, Vmcs!Online(c) PROVE Vmcs!ThreadInv'
  BY <1>8 DEF Vmcs!Online
<1>9. ASSUME NEW v \in Vcpus, NEW c \in Cpus, Vmcs!VcpuLoad(v, c) PROVE Vmcs!ThreadInv'
  BY <1>9 DEF Vmcs!VcpuLoad
<1>10. ASSUME NEW v \in Vcpus, Vmcs!ReadCpu(v) PROVE Vmcs!ThreadInv'
  BY <1>10 DEF Vmcs!ReadCpu
<1>11. ASSUME NEW v \in Vcpus, Vmcs!Interrupt(v) PROVE Vmcs!ThreadInv'
  BY <1>11 DEF Vmcs!Interrupt, Vmcs!Begin
<1>12. ASSUME NEW v \in Vcpus, Vmcs!Interrupted(v) PROVE Vmcs!ThreadInv'
  BY <1>12 DEF Vmcs!Interrupted
<1>13. ASSUME NEW v \in Vcpus, Vmcs!Link(v) PROVE Vmcs!ThreadInv'
  BY <1>13 DEF Vmcs!Link
<1>14. ASSUME NEW v \in Vcpus, Vmcs!MakeCurrent(v) PROVE Vmcs!ThreadInv'
  BY <1>14 DEF Vmcs!MakeCurrent
<1>15. ASSUME NEW v \in Vcpus, Vmcs!Settle(v) PROVE Vmcs!ThreadInv'
  BY <1>15 DEF Vmcs!Settle
<1>16. ASSUME NEW v \in Vcpus, Vmcs!ChooseEntry(v) PROVE Vmcs!ThreadInv'
  BY <1>16 DEF Vmcs!ChooseEntry
<1>17. ASSUME NEW v \in Vcpus, Vmcs!Run(v) PROVE Vmcs!ThreadInv'
  BY <1>17 DEF Vmcs!Run
<1>18. ASSUME NEW v \in Vcpus, Vmcs!MarkLaunched(v) PROVE Vmcs!ThreadInv'
  BY <1>18 DEF Vmcs!MarkLaunched
<1>19. ASSUME NEW v \in Vcpus, Vmcs!VcpuPut(v) PROVE Vmcs!ThreadInv'
  BY <1>19 DEF Vmcs!VcpuPut
<1>20. ASSUME NEW v \in Vcpus, Vmcs!Destroy(v) PROVE Vmcs!ThreadInv'
  BY <1>20 DEF Vmcs!Destroy
<1>21. ASSUME NEW v \in Vcpus, Vmcs!Free(v) PROVE Vmcs!ThreadInv'
  BY <1>21 DEF Vmcs!Free
<1>22. CASE UNCHANGED Vmcs!vars  BY <1>22 DEF Vmcs!vars
<1> QED
  BY <1>1, <1>2, <1>3, <1>4, <1>5, <1>6, <1>7, <1>8, <1>9, <1>10, <1>11, <1>12, <1>13,
     <1>14, <1>15, <1>16, <1>17, <1>18, <1>19, <1>20, <1>21, <1>22 DEF Vmcs!Next

LEMMA VmcsField == ASSUME Vmcs!Constants, Vmcs!VmcsInv, Vmcs!TypeInv',
    [Vmcs!Next]_(Vmcs!vars) PROVE Vmcs!FieldInv'
<1> USE DEF Vmcs!VmcsInv, Vmcs!TypeInv, Vmcs!ThreadInv, Vmcs!FieldInv, Vmcs!ClearInv,
    Vmcs!ListInv, Vmcs!Clearing, Vmcs!Constants,
            Vmcs!Moving, Vmcs!Running, Vmcs!Waiting, Vmcs!OffCpu, Vmcs!cpus, Vmcs!vmcs, Vmcs!clear, Vmcs!Go
<1>1. ASSUME NEW c \in Cpus, Vmcs!Clear(c) PROVE Vmcs!FieldInv'
  BY <1>1 DEF Vmcs!Clear, Vmcs!Stores
<1>2. ASSUME NEW c \in Cpus, Vmcs!Unlink(c) PROVE Vmcs!FieldInv'
  BY <1>2 DEF Vmcs!Unlink, Vmcs!Stores
<1>3. ASSUME NEW c \in Cpus, Vmcs!Release(c) PROVE Vmcs!FieldInv'
  BY <1>3 DEF Vmcs!Release, Vmcs!Stores
<1>4. ASSUME NEW c \in Cpus, Vmcs!ClearLaunched(c) PROVE Vmcs!FieldInv'
  BY <1>4 DEF Vmcs!ClearLaunched
<1>5. ASSUME NEW c \in Cpus, Vmcs!Offline(c) PROVE Vmcs!FieldInv'
  BY <1>5 DEF Vmcs!Offline
<1>6. ASSUME NEW c \in Cpus, Vmcs!ClearLocal(c) PROVE Vmcs!FieldInv'
  BY <1>6 DEF Vmcs!ClearLocal, Vmcs!Begin
<1>7. ASSUME NEW c \in Cpus, Vmcs!Vmxoff(c) PROVE Vmcs!FieldInv'
  BY <1>7 DEF Vmcs!Vmxoff
<1>8. ASSUME NEW c \in Cpus, Vmcs!Online(c) PROVE Vmcs!FieldInv'
  BY <1>8 DEF Vmcs!Online
<1>9. ASSUME NEW v \in Vcpus, NEW c \in Cpus, Vmcs!VcpuLoad(v, c) PROVE Vmcs!FieldInv'
  BY <1>9 DEF Vmcs!VcpuLoad
<1>10. ASSUME NEW v \in Vcpus, Vmcs!ReadCpu(v) PROVE Vmcs!FieldInv'
  BY <1>10 DEF Vmcs!ReadCpu
<1>11. ASSUME NEW v \in Vcpus, Vmcs!Interrupt(v) PROVE Vmcs!FieldInv'
  BY <1>11 DEF Vmcs!Interrupt, Vmcs!Begin
<1>12. ASSUME NEW v \in Vcpus, Vmcs!Interrupted(v) PROVE Vmcs!FieldInv'
  BY <1>12 DEF Vmcs!Interrupted
<1>13. ASSUME NEW v \in Vcpus, Vmcs!Link(v) PROVE Vmcs!FieldInv'
  BY <1>13 DEF Vmcs!Link
<1>14. ASSUME NEW v \in Vcpus, Vmcs!MakeCurrent(v) PROVE Vmcs!FieldInv'
  BY <1>14 DEF Vmcs!MakeCurrent
<1>15. ASSUME NEW v \in Vcpus, Vmcs!Settle(v) PROVE Vmcs!FieldInv'
  BY <1>15 DEF Vmcs!Settle
<1>16. ASSUME NEW v \in Vcpus, Vmcs!ChooseEntry(v) PROVE Vmcs!FieldInv'
  BY <1>16 DEF Vmcs!ChooseEntry
<1>17. ASSUME NEW v \in Vcpus, Vmcs!Run(v) PROVE Vmcs!FieldInv'
  BY <1>17 DEF Vmcs!Run
<1>18. ASSUME NEW v \in Vcpus, Vmcs!MarkLaunched(v) PROVE Vmcs!FieldInv'
  BY <1>18 DEF Vmcs!MarkLaunched
<1>19. ASSUME NEW v \in Vcpus, Vmcs!VcpuPut(v) PROVE Vmcs!FieldInv'
  BY <1>19 DEF Vmcs!VcpuPut
<1>20. ASSUME NEW v \in Vcpus, Vmcs!Destroy(v) PROVE Vmcs!FieldInv'
  BY <1>20 DEF Vmcs!Destroy
<1>21. ASSUME NEW v \in Vcpus, Vmcs!Free(v) PROVE Vmcs!FieldInv'
  BY <1>21 DEF Vmcs!Free
<1>22. CASE UNCHANGED Vmcs!vars  BY <1>22 DEF Vmcs!vars
<1> QED
  BY <1>1, <1>2, <1>3, <1>4, <1>5, <1>6, <1>7, <1>8, <1>9, <1>10, <1>11, <1>12, <1>13,
     <1>14, <1>15, <1>16, <1>17, <1>18, <1>19, <1>20, <1>21, <1>22 DEF Vmcs!Next

LEMMA VmcsClear == ASSUME Vmcs!Constants, Vmcs!VmcsInv, Vmcs!TypeInv',
    [Vmcs!Next]_(Vmcs!vars) PROVE Vmcs!ClearInv'
<1> USE DEF Vmcs!VmcsInv, Vmcs!TypeInv, Vmcs!ThreadInv, Vmcs!FieldInv, Vmcs!ClearInv,
    Vmcs!ListInv, Vmcs!Clearing, Vmcs!Constants,
            Vmcs!Moving, Vmcs!Running, Vmcs!Waiting, Vmcs!OffCpu, Vmcs!cpus, Vmcs!vmcs, Vmcs!clear, Vmcs!Go
<1>1. ASSUME NEW c \in Cpus, Vmcs!Clear(c) PROVE Vmcs!ClearInv'
  BY <1>1 DEF Vmcs!Clear, Vmcs!Stores
<1>2. ASSUME NEW c \in Cpus, Vmcs!Unlink(c) PROVE Vmcs!ClearInv'
  BY <1>2 DEF Vmcs!Unlink, Vmcs!Stores
<1>3. ASSUME NEW c \in Cpus, Vmcs!Release(c) PROVE Vmcs!ClearInv'
  BY <1>3 DEF Vmcs!Release, Vmcs!Stores
<1>4. ASSUME NEW c \in Cpus, Vmcs!ClearLaunched(c) PROVE Vmcs!ClearInv'
  BY <1>4 DEF Vmcs!ClearLaunched
<1>5. ASSUME NEW c \in Cpus, Vmcs!Offline(c) PROVE Vmcs!ClearInv'
  BY <1>5 DEF Vmcs!Offline
<1>6. ASSUME NEW c \in Cpus, Vmcs!ClearLocal(c) PROVE Vmcs!ClearInv'
  BY <1>6 DEF Vmcs!ClearLocal, Vmcs!Begin
<1>7. ASSUME NEW c \in Cpus, Vmcs!Vmxoff(c) PROVE Vmcs!ClearInv'
  BY <1>7 DEF Vmcs!Vmxoff
<1>8. ASSUME NEW c \in Cpus, Vmcs!Online(c) PROVE Vmcs!ClearInv'
  BY <1>8 DEF Vmcs!Online
<1>9. ASSUME NEW v \in Vcpus, NEW c \in Cpus, Vmcs!VcpuLoad(v, c) PROVE Vmcs!ClearInv'
  BY <1>9 DEF Vmcs!VcpuLoad
<1>10. ASSUME NEW v \in Vcpus, Vmcs!ReadCpu(v) PROVE Vmcs!ClearInv'
  BY <1>10 DEF Vmcs!ReadCpu
<1>11. ASSUME NEW v \in Vcpus, Vmcs!Interrupt(v) PROVE Vmcs!ClearInv'
  BY <1>11 DEF Vmcs!Interrupt, Vmcs!Begin
<1>12. ASSUME NEW v \in Vcpus, Vmcs!Interrupted(v) PROVE Vmcs!ClearInv'
  BY <1>12 DEF Vmcs!Interrupted
<1>13. ASSUME NEW v \in Vcpus, Vmcs!Link(v) PROVE Vmcs!ClearInv'
  BY <1>13 DEF Vmcs!Link
<1>14. ASSUME NEW v \in Vcpus, Vmcs!MakeCurrent(v) PROVE Vmcs!ClearInv'
  BY <1>14 DEF Vmcs!MakeCurrent
<1>15. ASSUME NEW v \in Vcpus, Vmcs!Settle(v) PROVE Vmcs!ClearInv'
  BY <1>15 DEF Vmcs!Settle
<1>16. ASSUME NEW v \in Vcpus, Vmcs!ChooseEntry(v) PROVE Vmcs!ClearInv'
  BY <1>16 DEF Vmcs!ChooseEntry
<1>17. ASSUME NEW v \in Vcpus, Vmcs!Run(v) PROVE Vmcs!ClearInv'
  BY <1>17 DEF Vmcs!Run
<1>18. ASSUME NEW v \in Vcpus, Vmcs!MarkLaunched(v) PROVE Vmcs!ClearInv'
  BY <1>18 DEF Vmcs!MarkLaunched
<1>19. ASSUME NEW v \in Vcpus, Vmcs!VcpuPut(v) PROVE Vmcs!ClearInv'
  BY <1>19 DEF Vmcs!VcpuPut
<1>20. ASSUME NEW v \in Vcpus, Vmcs!Destroy(v) PROVE Vmcs!ClearInv'
  BY <1>20 DEF Vmcs!Destroy
<1>21. ASSUME NEW v \in Vcpus, Vmcs!Free(v) PROVE Vmcs!ClearInv'
  BY <1>21 DEF Vmcs!Free
<1>22. CASE UNCHANGED Vmcs!vars  BY <1>22 DEF Vmcs!vars
<1> QED
  BY <1>1, <1>2, <1>3, <1>4, <1>5, <1>6, <1>7, <1>8, <1>9, <1>10, <1>11, <1>12, <1>13,
     <1>14, <1>15, <1>16, <1>17, <1>18, <1>19, <1>20, <1>21, <1>22 DEF Vmcs!Next

LEMMA VmcsList == ASSUME Vmcs!Constants, Vmcs!VmcsInv, Vmcs!TypeInv',
    [Vmcs!Next]_(Vmcs!vars) PROVE Vmcs!ListInv'
<1> USE DEF Vmcs!VmcsInv, Vmcs!TypeInv, Vmcs!ThreadInv, Vmcs!FieldInv, Vmcs!ClearInv,
    Vmcs!ListInv, Vmcs!Clearing, Vmcs!Constants,
            Vmcs!Moving, Vmcs!Running, Vmcs!Waiting, Vmcs!OffCpu, Vmcs!cpus, Vmcs!vmcs, Vmcs!clear, Vmcs!Go
<1>1. ASSUME NEW c \in Cpus, Vmcs!Clear(c) PROVE Vmcs!ListInv'
  BY <1>1 DEF Vmcs!Clear, Vmcs!Stores
<1>2. ASSUME NEW c \in Cpus, Vmcs!Unlink(c) PROVE Vmcs!ListInv'
  BY <1>2 DEF Vmcs!Unlink, Vmcs!Stores
<1>3. ASSUME NEW c \in Cpus, Vmcs!Release(c) PROVE Vmcs!ListInv'
  BY <1>3 DEF Vmcs!Release, Vmcs!Stores
<1>4. ASSUME NEW c \in Cpus, Vmcs!ClearLaunched(c) PROVE Vmcs!ListInv'
  BY <1>4 DEF Vmcs!ClearLaunched
<1>5. ASSUME NEW c \in Cpus, Vmcs!Offline(c) PROVE Vmcs!ListInv'
  BY <1>5 DEF Vmcs!Offline
<1>6. ASSUME NEW c \in Cpus, Vmcs!ClearLocal(c) PROVE Vmcs!ListInv'
  BY <1>6 DEF Vmcs!ClearLocal, Vmcs!Begin
<1>7. ASSUME NEW c \in Cpus, Vmcs!Vmxoff(c) PROVE Vmcs!ListInv'
  BY <1>7 DEF Vmcs!Vmxoff
<1>8. ASSUME NEW c \in Cpus, Vmcs!Online(c) PROVE Vmcs!ListInv'
  BY <1>8 DEF Vmcs!Online
<1>9. ASSUME NEW v \in Vcpus, NEW c \in Cpus, Vmcs!VcpuLoad(v, c) PROVE Vmcs!ListInv'
  BY <1>9 DEF Vmcs!VcpuLoad
<1>10. ASSUME NEW v \in Vcpus, Vmcs!ReadCpu(v) PROVE Vmcs!ListInv'
  BY <1>10 DEF Vmcs!ReadCpu
<1>11. ASSUME NEW v \in Vcpus, Vmcs!Interrupt(v) PROVE Vmcs!ListInv'
  <2>1. CASE x5[v] = x13[v]  BY <1>11, <2>1 DEF Vmcs!Interrupt, Vmcs!Begin
  <2>2. CASE x5[v] # x13[v]  BY <1>11, <2>2 DEF Vmcs!Interrupt
  <2> QED  BY <2>1, <2>2
<1>12. ASSUME NEW v \in Vcpus, Vmcs!Interrupted(v) PROVE Vmcs!ListInv'
  BY <1>12 DEF Vmcs!Interrupted
<1>13. ASSUME NEW v \in Vcpus, Vmcs!Link(v) PROVE Vmcs!ListInv'
  BY <1>13 DEF Vmcs!Link
<1>14. ASSUME NEW v \in Vcpus, Vmcs!MakeCurrent(v) PROVE Vmcs!ListInv'
  BY <1>14 DEF Vmcs!MakeCurrent
<1>15. ASSUME NEW v \in Vcpus, Vmcs!Settle(v) PROVE Vmcs!ListInv'
  BY <1>15 DEF Vmcs!Settle
<1>16. ASSUME NEW v \in Vcpus, Vmcs!ChooseEntry(v) PROVE Vmcs!ListInv'
  BY <1>16 DEF Vmcs!ChooseEntry
<1>17. ASSUME NEW v \in Vcpus, Vmcs!Run(v) PROVE Vmcs!ListInv'
  BY <1>17 DEF Vmcs!Run
<1>18. ASSUME NEW v \in Vcpus, Vmcs!MarkLaunched(v) PROVE Vmcs!ListInv'
  BY <1>18 DEF Vmcs!MarkLaunched
<1>19. ASSUME NEW v \in Vcpus, Vmcs!VcpuPut(v) PROVE Vmcs!ListInv'
  BY <1>19 DEF Vmcs!VcpuPut
<1>20. ASSUME NEW v \in Vcpus, Vmcs!Destroy(v) PROVE Vmcs!ListInv'
  BY <1>20 DEF Vmcs!Destroy
<1>21. ASSUME NEW v \in Vcpus, Vmcs!Free(v) PROVE Vmcs!ListInv'
  BY <1>21 DEF Vmcs!Free
<1>22. CASE UNCHANGED Vmcs!vars  BY <1>22 DEF Vmcs!vars
<1> QED
  BY <1>1, <1>2, <1>3, <1>4, <1>5, <1>6, <1>7, <1>8, <1>9, <1>10, <1>11, <1>12, <1>13,
     <1>14, <1>15, <1>16, <1>17, <1>18, <1>19, <1>20, <1>21, <1>22 DEF Vmcs!Next

LEMMA VmcsStep == ASSUME Vmcs!Constants, Vmcs!VmcsInv, [Vmcs!Next]_(Vmcs!vars) PROVE Vmcs!VmcsInv'
BY VmcsTypes, VmcsThread, VmcsField, VmcsClear, VmcsList DEF Vmcs!VmcsInv

LEMMA VmcsImplies == ASSUME Vmcs!Constants PROVE Vmcs!VmcsInv => Vmcs!OneCpu
<1> SUFFICES ASSUME Vmcs!VmcsInv PROVE Vmcs!OneCpu  OBVIOUS
<1> USE DEF Vmcs!VmcsInv, Vmcs!TypeInv, Vmcs!ThreadInv, Vmcs!FieldInv, Vmcs!ClearInv,
    Vmcs!ListInv, Vmcs!Constants, Vmcs!Moving, Vmcs!Running,
            Vmcs!OffCpu
<1>1. ASSUME NEW c \in Cpus, NEW d \in Cpus, NEW v \in x3[c] \cap x3[d] PROVE c = d
  <2>1. v \in Vcpus  OBVIOUS
  <2>2. /\ x5[v] = c \/ (x12[v] = c /\ x11[v] \in Vmcs!Moving)
        /\ x5[v] = d \/ (x12[v] = d /\ x11[v] \in Vmcs!Moving)
    OBVIOUS
  <2>3. x11[v] \in Vmcs!Moving => x5[v] \notin Cpus  BY <2>1
  <2> QED  BY <2>2, <2>3
<1>2. \A c, d \in Cpus : c # d => x7[c] \cap x7[d] = {} /\ x3[c] \cap x3[d] = {}
  BY <1>1
<1>3. \A v \in Vcpus : x11[v] \in Vmcs!Running =>
        v \in x7[x12[v]] /\ v \in x3[x12[v]] /\ x4[x12[v]] = v
  OBVIOUS
<1>4. \A c \in Cpus \ (x1 \cup x2) : x7[c] = {}  OBVIOUS
<1>5. \A v \in x14, c \in Cpus : v \notin x7[c] \cup x3[c]  OBVIOUS
<1> QED  BY <1>2, <1>3, <1>4, <1>5 DEF Vmcs!OneCpu

(* A VMCS is active on one CPU and in one list (vmx_vcpu_load_vmcs,               *)
(* __loaded_vmcs_clear, vmclear_local_loaded_vmcss and free_loaded_vmcs).         *)
THEOREM LoadedVmcsCorrect == ASSUME Vmcs!Constants PROVE Vmcs!Spec => []Vmcs!OneCpu
<1>1. Vmcs!Init => Vmcs!VmcsInv  BY VmcsInit
<1>2. Vmcs!VmcsInv /\ [Vmcs!Next]_(Vmcs!vars) => Vmcs!VmcsInv'  BY VmcsStep
<1>3. Vmcs!VmcsInv => Vmcs!OneCpu  BY VmcsImplies
<1> QED  BY <1>1, <1>2, <1>3, PTL DEF Vmcs!Spec

-----------------------------------------------------------------------------
(***************************************************************************)
(* StealTime.  The mark is in the record only while record_steal_time is   *)
(* still to come (MarkInv), so a request put into it, and a translation    *)
(* that waits for the flush, are seen before the next use (StaleInv).      *)
(***************************************************************************)
\* Nothing is marked and nothing is stale at the start.
LEMMA StealInit == Steal!Init => Steal!FlushInv
BY DEF Steal!Init, Steal!FlushInv, Steal!TypeInv, Steal!MarkInv, Steal!FlusherInv,
    Steal!StaleInv

\* One step keeps the invariant.
LEMMA StealStep == Steal!FlushInv /\ [Steal!Next]_(Steal!vars) => Steal!FlushInv'
<1> SUFFICES ASSUME Steal!FlushInv, [Steal!Next]_(Steal!vars) PROVE Steal!FlushInv'  OBVIOUS
<1> USE DEF Steal!FlushInv, Steal!TypeInv, Steal!MarkInv, Steal!FlusherInv, Steal!StaleInv
<1>1. CASE Steal!WriteMsr  BY <1>1 DEF Steal!WriteMsr
<1>2. CASE Steal!CheckRequest  BY <1>2 DEF Steal!CheckRequest
<1>3. CASE Steal!Exchange  BY <1>3 DEF Steal!Exchange
<1>4. CASE Steal!SetKnown  BY <1>4 DEF Steal!SetKnown
<1>5. CASE Steal!Flush  BY <1>5 DEF Steal!Flush
<1>6. CASE Steal!Enter  BY <1>6 DEF Steal!Enter
<1>7. CASE Steal!HandleIpi  BY <1>7 DEF Steal!HandleIpi
<1>8. CASE Steal!HostInterrupt  BY <1>8 DEF Steal!HostInterrupt
<1>9. CASE Steal!ExitToEmulate  BY <1>9 DEF Steal!ExitToEmulate
<1>10. CASE Steal!Loop  BY <1>10 DEF Steal!Loop, Steal!BoundaryAtRun
<1>11. CASE Steal!VcpuPut
  <2>1. CASE UNCHANGED <<x3, x4>>
    <3>1. /\ x8 /\ x7 # "guest" /\ x8' = FALSE
          /\ UNCHANGED <<x1, x2, x5, x6, x7, x9, x10, x11, x12>>
      BY <1>11 DEF Steal!VcpuPut
    <3> HIDE DEF Steal!MarkInv, Steal!FlusherInv, Steal!StaleInv
    <3>2. Steal!TypeInv'
      <4>1. x8' \in BOOLEAN  BY <3>1
      <4> QED  BY <2>1, <3>1, <4>1
    <3>3. Steal!MarkInv'  BY <2>1, <3>1 DEF Steal!MarkInv
    <3>4. Steal!FlusherInv'  BY <2>1, <3>1 DEF Steal!FlusherInv
    <3>5. Steal!StaleInv'  BY <2>1, <3>1 DEF Steal!StaleInv
    <3> QED  BY <3>2, <3>3, <3>4, <3>5
  <2>2. CASE x6 /\ x2 /\ ~x4 /\ x3' = {"PREEMPTED"} /\ x4' = TRUE
    <3>1. x3 = {} /\ x9 = {} /\ x7 = "exit"  BY <2>2
    <3>2. x12 => x10 \in {"look", "ask", "send"} \/ (x10 = "wait" /\ x11)  BY <3>1
    <3> QED  BY <1>11, <2>2, <3>1, <3>2 DEF Steal!VcpuPut
  <2> QED  BY <1>11, <2>1, <2>2 DEF Steal!VcpuPut, Steal!SetPreempted
<1>12. CASE Steal!VcpuLoad  BY <1>12 DEF Steal!VcpuLoad
<1>13. CASE Steal!Unmap  BY <1>13 DEF Steal!Unmap
<1>14. CASE Steal!Look  BY <1>14 DEF Steal!Look
<1>15. CASE Steal!Ask  BY <1>15 DEF Steal!Ask
<1>16. CASE Steal!Send  BY <1>16 DEF Steal!Send
<1>17. CASE Steal!Done  BY <1>17 DEF Steal!Done
<1>18. CASE UNCHANGED Steal!vars  BY <1>18 DEF Steal!vars
<1> QED
  BY <1>1, <1>2, <1>3, <1>4, <1>5, <1>6, <1>7, <1>8, <1>9, <1>10, <1>11, <1>12, <1>13,
     <1>14, <1>15, <1>16, <1>17, <1>18 DEF Steal!Next

\* In the guest and while KVM emulates, no request is in the record or taken from it.
LEMMA StealImplies == Steal!FlushInv => Steal!FlushHonoured
BY DEF Steal!FlushInv, Steal!TypeInv, Steal!MarkInv, Steal!FlusherInv, Steal!StaleInv,
    Steal!FlushHonoured

-----------------------------------------------------------------------------
(***************************************************************************)
(* UserReturnMsr.  In the suite's names x1 is hw, x3 curr, x7 cur, x8      *)
(* data, x11 pc, x12 todo, x13 slot, x14 value, x15 back and x16 irqs.     *)
(***************************************************************************)
\* kvm_set_user_return_msr keeps the host's bits outside the mask.
LEMMA MaskedLent ==
  ASSUME Uret!Constants, Uret!TypeInv, NEW s \in Slots, NEW d \in MsrValues \cup {HostValue}
  PROVE  Uret!Masked(s, d) = <<d[1], HostValue[2]>> /\ Uret!Masked(s, d) \in Uret!Lent
BY DEF Uret!TypeInv, Uret!Masked, Uret!Lent

\* The host's value is one of those it may write.
LEMMA HostLent == Uret!Constants => HostValue \in Uret!Lent /\ None \notin Vcpus
BY DEF Uret!Constants, Uret!Lent

\* Nothing is lent at the start.
LEMMA UretInit == ASSUME Uret!Constants PROVE Uret!Init => Uret!UretInv
<1> SUFFICES ASSUME Uret!Init PROVE Uret!UretInv  OBVIOUS
<1>1. Uret!TypeInv  BY HostLent DEF Uret!Init, Uret!TypeInv, Uret!Setting, Uret!Restoring
<1>2. Uret!PlaceInv  BY HostLent DEF Uret!Init, Uret!PlaceInv, Uret!Setting, Uret!Restoring
<1>3. Uret!NotifierInv  BY DEF Uret!Init, Uret!NotifierInv, Uret!Restoring
<1>4. Uret!HostInv  BY DEF Uret!Init, Uret!HostInv, Uret!Changed
<1>5. Uret!GuestInv  BY DEF Uret!Init, Uret!GuestInv, Uret!Asked
<1> QED  BY <1>1, <1>2, <1>3, <1>4, <1>5 DEF Uret!UretInv

\* Every step keeps the types.
LEMMA UretType ==
  ASSUME Uret!Constants, Uret!TypeInv, Uret!PlaceInv, [Uret!Next]_(Uret!vars)
  PROVE  Uret!TypeInv'
<1> USE DEF Uret!TypeInv, Uret!PlaceInv, Uret!values, Uret!notifier, Uret!vcpu, Uret!Setting,
    Uret!Restoring
<1>1. ASSUME Uret!Compare PROVE Uret!TypeInv'
  BY <1>1, HostLent, MaskedLent DEF Uret!Compare
<1>2. ASSUME Uret!Write PROVE Uret!TypeInv'
  BY <1>2, HostLent, MaskedLent DEF Uret!Write
<1>3. ASSUME Uret!Remember PROVE Uret!TypeInv'
  BY <1>3, HostLent, MaskedLent DEF Uret!Remember
<1>4. ASSUME Uret!Register PROVE Uret!TypeInv'
  BY <1>4, HostLent, MaskedLent DEF Uret!Register, Uret!NeedsNotifier
<1>5. ASSUME Uret!Mark PROVE Uret!TypeInv'
  BY <1>5, HostLent, MaskedLent DEF Uret!Mark
<1>6. ASSUME Uret!NextSlot PROVE Uret!TypeInv'
  <2>1. CASE x12 = {} /\ x11' = x15
    BY <1>6, <2>1 DEF Uret!NextSlot
  <2>2. ASSUME NEW s \in x12, x12' = x12 \ {s}, Uret!Set(s, x8[x7][s]), x16' = x16
        PROVE  Uret!TypeInv'
    <3>1. x7 \in Vcpus /\ s \in Slots /\ x8[x7][s] \in MsrValues \cup {HostValue}
      BY <1>6 DEF Uret!NextSlot
    <3> QED  BY <1>6, <2>2, <3>1, MaskedLent DEF Uret!NextSlot, Uret!Set
  <2> QED  BY <1>6, <2>1, <2>2 DEF Uret!NextSlot
<1>7. ASSUME NEW v \in Vcpus, Uret!VcpuLoad(v) PROVE Uret!TypeInv'
  BY <1>7, HostLent, MaskedLent DEF Uret!VcpuLoad
<1>8. ASSUME Uret!VcpuPut PROVE Uret!TypeInv'
  BY <1>8, HostLent, MaskedLent DEF Uret!VcpuPut, Uret!Loaded
<1>9. ASSUME NEW s \in Slots, NEW d \in MsrValues, Uret!SetGuestMsr(s, d) PROVE Uret!TypeInv'
  BY <1>9, HostLent, MaskedLent DEF Uret!SetGuestMsr, Uret!Set
<1>10. ASSUME NEW S \in SUBSET Slots, Uret!SetupMsrs(S) PROVE Uret!TypeInv'
  BY <1>10, HostLent, MaskedLent DEF Uret!SetupMsrs, Uret!Loaded
<1>11. ASSUME Uret!PrepareSwitchToGuest PROVE Uret!TypeInv'
  BY <1>11, HostLent, MaskedLent DEF Uret!PrepareSwitchToGuest
<1>12. ASSUME Uret!Enter PROVE Uret!TypeInv'
  BY <1>12, HostLent, MaskedLent DEF Uret!Enter
<1>13. ASSUME Uret!Exit PROVE Uret!TypeInv'
  BY <1>13, HostLent, MaskedLent DEF Uret!Exit
<1>14. ASSUME Uret!ReturnToUser PROVE Uret!TypeInv'
  BY <1>14, HostLent, MaskedLent DEF Uret!ReturnToUser
<1>15. ASSUME Uret!SaveIrqs PROVE Uret!TypeInv'
  BY <1>15, HostLent, MaskedLent DEF Uret!SaveIrqs, Uret!IrqsWhileUnlinking
<1>16. ASSUME Uret!Unlink PROVE Uret!TypeInv'
  BY <1>16, HostLent, MaskedLent DEF Uret!Unlink
<1>17. ASSUME Uret!Restore PROVE Uret!TypeInv'
  BY <1>17, HostLent, MaskedLent DEF Uret!Restore
<1>18. ASSUME Uret!Rewrite PROVE Uret!TypeInv'
  BY <1>18, HostLent, MaskedLent DEF Uret!Rewrite
<1>19. ASSUME Uret!Forget PROVE Uret!TypeInv'
  BY <1>19, HostLent, MaskedLent DEF Uret!Forget
<1>20. ASSUME Uret!Syscall PROVE Uret!TypeInv'
  BY <1>20, HostLent, MaskedLent DEF Uret!Syscall
<1>21. ASSUME Uret!HardwareDisable PROVE Uret!TypeInv'
  <2>1. UNCHANGED <<x2, x7, x8, x9, x10, x11, x12, x13, x14, x15, x16>> /\ x17' = TRUE
    BY <1>21 DEF Uret!HardwareDisable
  <2>2. /\ x1' \in [Slots -> Uret!Lent] /\ x3' \in [Slots -> Uret!Lent]
        /\ x4' \in BOOLEAN /\ x5' \in BOOLEAN /\ x6' \in BOOLEAN
    <3>1. CASE x4
      <4>1. /\ x3' = x2 /\ x4' = FALSE /\ x5' = FALSE /\ x6' = (x6 \/ ~x5)
            /\ x1' = [s \in Slots |-> IF x2[s] # x3[s] THEN x2[s] ELSE x1[s]]
        BY <1>21, <3>1 DEF Uret!HardwareDisable, Uret!DropNotifiers
      <4>2. x2 \in [Slots -> Uret!Lent]  BY HostLent
      <4>3. x1' \in [Slots -> Uret!Lent]  BY <4>1, <4>2
      <4> QED  BY <4>1, <4>2, <4>3
    <3>2. CASE ~x4
      BY <1>21, <3>2 DEF Uret!HardwareDisable, Uret!DropNotifiers
    <3> QED  BY <3>1, <3>2
  <2> QED  BY <2>1, <2>2
<1>22. ASSUME UNCHANGED Uret!vars PROVE Uret!TypeInv'
  BY <1>22, HostLent, MaskedLent DEF Uret!vars
<1> QED  BY <1>1, <1>2, <1>3, <1>4, <1>5, <1>6, <1>7, <1>8, <1>9, <1>10, <1>11, <1>12, <1>13,
    <1>14, <1>15, <1>16, <1>17, <1>18, <1>19, <1>20, <1>21, <1>22 DEF Uret!Next

\* vmx_prepare_switch_to_guest loads the values of the vCPU on the CPU, vmx_vcpu_put unloads them.
LEMMA UretPlace ==
  ASSUME Uret!Constants, Uret!TypeInv, Uret!PlaceInv, [Uret!Next]_(Uret!vars)
  PROVE  Uret!PlaceInv'
<1> USE DEF Uret!TypeInv, Uret!PlaceInv, Uret!values, Uret!notifier, Uret!vcpu, Uret!Setting,
    Uret!Restoring
<1>1. ASSUME Uret!Compare PROVE Uret!PlaceInv'
  BY <1>1, HostLent DEF Uret!Compare
<1>2. ASSUME Uret!Write PROVE Uret!PlaceInv'
  BY <1>2, HostLent DEF Uret!Write
<1>3. ASSUME Uret!Remember PROVE Uret!PlaceInv'
  BY <1>3, HostLent DEF Uret!Remember
<1>4. ASSUME Uret!Register PROVE Uret!PlaceInv'
  BY <1>4, HostLent DEF Uret!Register, Uret!NeedsNotifier
<1>5. ASSUME Uret!Mark PROVE Uret!PlaceInv'
  BY <1>5, HostLent DEF Uret!Mark
<1>6. ASSUME Uret!NextSlot PROVE Uret!PlaceInv'
  BY <1>6, HostLent DEF Uret!NextSlot, Uret!Set
<1>7. ASSUME NEW v \in Vcpus, Uret!VcpuLoad(v) PROVE Uret!PlaceInv'
  BY <1>7, HostLent DEF Uret!VcpuLoad
<1>8. ASSUME Uret!VcpuPut PROVE Uret!PlaceInv'
  BY <1>8, HostLent DEF Uret!VcpuPut, Uret!Loaded
<1>9. ASSUME NEW s \in Slots, NEW d \in MsrValues, Uret!SetGuestMsr(s, d) PROVE Uret!PlaceInv'
  BY <1>9, HostLent DEF Uret!SetGuestMsr, Uret!Set
<1>10. ASSUME NEW S \in SUBSET Slots, Uret!SetupMsrs(S) PROVE Uret!PlaceInv'
  BY <1>10, HostLent DEF Uret!SetupMsrs, Uret!Loaded
<1>11. ASSUME Uret!PrepareSwitchToGuest PROVE Uret!PlaceInv'
  BY <1>11, HostLent DEF Uret!PrepareSwitchToGuest
<1>12. ASSUME Uret!Enter PROVE Uret!PlaceInv'
  BY <1>12, HostLent DEF Uret!Enter
<1>13. ASSUME Uret!Exit PROVE Uret!PlaceInv'
  BY <1>13, HostLent DEF Uret!Exit
<1>14. ASSUME Uret!ReturnToUser PROVE Uret!PlaceInv'
  BY <1>14, HostLent DEF Uret!ReturnToUser
<1>15. ASSUME Uret!SaveIrqs PROVE Uret!PlaceInv'
  BY <1>15, HostLent DEF Uret!SaveIrqs, Uret!IrqsWhileUnlinking
<1>16. ASSUME Uret!Unlink PROVE Uret!PlaceInv'
  BY <1>16, HostLent DEF Uret!Unlink
<1>17. ASSUME Uret!Restore PROVE Uret!PlaceInv'
  BY <1>17, HostLent DEF Uret!Restore
<1>18. ASSUME Uret!Rewrite PROVE Uret!PlaceInv'
  BY <1>18, HostLent DEF Uret!Rewrite
<1>19. ASSUME Uret!Forget PROVE Uret!PlaceInv'
  BY <1>19, HostLent DEF Uret!Forget
<1>20. ASSUME Uret!Syscall PROVE Uret!PlaceInv'
  BY <1>20, HostLent DEF Uret!Syscall
<1>21. ASSUME Uret!HardwareDisable PROVE Uret!PlaceInv'
  BY <1>21, HostLent DEF Uret!HardwareDisable, Uret!DropNotifiers
<1>22. ASSUME UNCHANGED Uret!vars PROVE Uret!PlaceInv'
  BY <1>22, HostLent DEF Uret!vars
<1> QED  BY <1>1, <1>2, <1>3, <1>4, <1>5, <1>6, <1>7, <1>8, <1>9, <1>10, <1>11, <1>12, <1>13,
    <1>14, <1>15, <1>16, <1>17, <1>18, <1>19, <1>20, <1>21, <1>22 DEF Uret!Next

\* Registering and unlinking keep the flag and the list together, with the interrupt in between.
LEMMA UretNotifier ==
  ASSUME Uret!Constants, Uret!TypeInv, Uret!PlaceInv, Uret!NotifierInv, [Uret!Next]_(Uret!vars)
  PROVE  Uret!NotifierInv'
<1> USE DEF Uret!TypeInv, Uret!PlaceInv, Uret!NotifierInv, Uret!values, Uret!notifier,
    Uret!vcpu, Uret!Setting, Uret!Restoring
<1>1. ASSUME Uret!Compare PROVE Uret!NotifierInv'
  BY <1>1 DEF Uret!Compare
<1>2. ASSUME Uret!Write PROVE Uret!NotifierInv'
  BY <1>2 DEF Uret!Write
<1>3. ASSUME Uret!Remember PROVE Uret!NotifierInv'
  BY <1>3 DEF Uret!Remember
<1>4. ASSUME Uret!Register PROVE Uret!NotifierInv'
  BY <1>4 DEF Uret!Register, Uret!NeedsNotifier
<1>5. ASSUME Uret!Mark PROVE Uret!NotifierInv'
  BY <1>5 DEF Uret!Mark
<1>6. ASSUME Uret!NextSlot PROVE Uret!NotifierInv'
  BY <1>6 DEF Uret!NextSlot, Uret!Set
<1>7. ASSUME NEW v \in Vcpus, Uret!VcpuLoad(v) PROVE Uret!NotifierInv'
  BY <1>7 DEF Uret!VcpuLoad
<1>8. ASSUME Uret!VcpuPut PROVE Uret!NotifierInv'
  BY <1>8 DEF Uret!VcpuPut, Uret!Loaded
<1>9. ASSUME NEW s \in Slots, NEW d \in MsrValues, Uret!SetGuestMsr(s, d) PROVE Uret!NotifierInv'
  BY <1>9 DEF Uret!SetGuestMsr, Uret!Set
<1>10. ASSUME NEW S \in SUBSET Slots, Uret!SetupMsrs(S) PROVE Uret!NotifierInv'
  BY <1>10 DEF Uret!SetupMsrs, Uret!Loaded
<1>11. ASSUME Uret!PrepareSwitchToGuest PROVE Uret!NotifierInv'
  BY <1>11 DEF Uret!PrepareSwitchToGuest
<1>12. ASSUME Uret!Enter PROVE Uret!NotifierInv'
  BY <1>12 DEF Uret!Enter
<1>13. ASSUME Uret!Exit PROVE Uret!NotifierInv'
  BY <1>13 DEF Uret!Exit
<1>14. ASSUME Uret!ReturnToUser PROVE Uret!NotifierInv'
  BY <1>14 DEF Uret!ReturnToUser
<1>15. ASSUME Uret!SaveIrqs PROVE Uret!NotifierInv'
  BY <1>15 DEF Uret!SaveIrqs, Uret!IrqsWhileUnlinking
<1>16. ASSUME Uret!Unlink PROVE Uret!NotifierInv'
  BY <1>16 DEF Uret!Unlink
<1>17. ASSUME Uret!Restore PROVE Uret!NotifierInv'
  BY <1>17 DEF Uret!Restore
<1>18. ASSUME Uret!Rewrite PROVE Uret!NotifierInv'
  BY <1>18 DEF Uret!Rewrite
<1>19. ASSUME Uret!Forget PROVE Uret!NotifierInv'
  BY <1>19 DEF Uret!Forget
<1>20. ASSUME Uret!Syscall PROVE Uret!NotifierInv'
  BY <1>20 DEF Uret!Syscall
<1>21. ASSUME Uret!HardwareDisable PROVE Uret!NotifierInv'
  BY <1>21 DEF Uret!HardwareDisable, Uret!DropNotifiers
<1>22. ASSUME UNCHANGED Uret!vars PROVE Uret!NotifierInv'
  BY <1>22 DEF Uret!vars
<1> QED  BY <1>1, <1>2, <1>3, <1>4, <1>5, <1>6, <1>7, <1>8, <1>9, <1>10, <1>11, <1>12, <1>13,
    <1>14, <1>15, <1>16, <1>17, <1>18, <1>19, <1>20, <1>21, <1>22 DEF Uret!Next

\* A store to the hardware is followed by one to curr, that by the notifier.
LEMMA UretHost ==
  ASSUME Uret!Constants, Uret!TypeInv, Uret!PlaceInv, Uret!NotifierInv,
         Uret!HostInv, [Uret!Next]_(Uret!vars)
  PROVE  Uret!HostInv'
<1> USE DEF Uret!TypeInv, Uret!PlaceInv, Uret!NotifierInv, Uret!HostInv, Uret!Changed,
    Uret!values, Uret!notifier, Uret!vcpu, Uret!Setting, Uret!Restoring
<1>1. ASSUME Uret!Compare PROVE Uret!HostInv'
  BY <1>1 DEF Uret!Compare
<1>2. ASSUME Uret!Write PROVE Uret!HostInv'
  BY <1>2 DEF Uret!Write
<1>3. ASSUME Uret!Remember PROVE Uret!HostInv'
  <2>1. x13 \in Slots /\ x3' = [x3 EXCEPT ![x13] = x14] /\ x11 = "remember" /\ x11' = "register"
    BY <1>3 DEF Uret!Remember
  <2>2. \A s \in Slots : x3'[s] = IF s = x13 THEN x14 ELSE x3[s]
    BY <2>1
  <2> QED  BY <1>3, <2>1, <2>2 DEF Uret!Remember
<1>4. ASSUME Uret!Register PROVE Uret!HostInv'
  BY <1>4 DEF Uret!Register, Uret!NeedsNotifier
<1>5. ASSUME Uret!Mark PROVE Uret!HostInv'
  BY <1>5 DEF Uret!Mark
<1>6. ASSUME Uret!NextSlot PROVE Uret!HostInv'
  BY <1>6 DEF Uret!NextSlot, Uret!Set
<1>7. ASSUME NEW v \in Vcpus, Uret!VcpuLoad(v) PROVE Uret!HostInv'
  BY <1>7 DEF Uret!VcpuLoad
<1>8. ASSUME Uret!VcpuPut PROVE Uret!HostInv'
  BY <1>8 DEF Uret!VcpuPut, Uret!Loaded
<1>9. ASSUME NEW s \in Slots, NEW d \in MsrValues, Uret!SetGuestMsr(s, d) PROVE Uret!HostInv'
  BY <1>9 DEF Uret!SetGuestMsr, Uret!Set
<1>10. ASSUME NEW S \in SUBSET Slots, Uret!SetupMsrs(S) PROVE Uret!HostInv'
  BY <1>10 DEF Uret!SetupMsrs, Uret!Loaded
<1>11. ASSUME Uret!PrepareSwitchToGuest PROVE Uret!HostInv'
  BY <1>11 DEF Uret!PrepareSwitchToGuest
<1>12. ASSUME Uret!Enter PROVE Uret!HostInv'
  BY <1>12 DEF Uret!Enter
<1>13. ASSUME Uret!Exit PROVE Uret!HostInv'
  BY <1>13 DEF Uret!Exit
<1>14. ASSUME Uret!ReturnToUser PROVE Uret!HostInv'
  BY <1>14 DEF Uret!ReturnToUser
<1>15. ASSUME Uret!SaveIrqs PROVE Uret!HostInv'
  BY <1>15 DEF Uret!SaveIrqs, Uret!IrqsWhileUnlinking
<1>16. ASSUME Uret!Unlink PROVE Uret!HostInv'
  BY <1>16 DEF Uret!Unlink
<1>17. ASSUME Uret!Restore PROVE Uret!HostInv'
  BY <1>17 DEF Uret!Restore
<1>18. ASSUME Uret!Rewrite PROVE Uret!HostInv'
  BY <1>18 DEF Uret!Rewrite
<1>19. ASSUME Uret!Forget PROVE Uret!HostInv'
  BY <1>19 DEF Uret!Forget
<1>20. ASSUME Uret!Syscall PROVE Uret!HostInv'
  BY <1>20 DEF Uret!Syscall
<1>21. ASSUME Uret!HardwareDisable PROVE Uret!HostInv'
  BY <1>21 DEF Uret!HardwareDisable, Uret!DropNotifiers
<1>22. ASSUME UNCHANGED Uret!vars PROVE Uret!HostInv'
  BY <1>22 DEF Uret!vars
<1> QED  BY <1>1, <1>2, <1>3, <1>4, <1>5, <1>6, <1>7, <1>8, <1>9, <1>10, <1>11, <1>12, <1>13,
    <1>14, <1>15, <1>16, <1>17, <1>18, <1>19, <1>20, <1>21, <1>22 DEF Uret!Next

\* What kvm_set_user_return_msr skips is already in the hardware.
LEMMA UretGuest ==
  ASSUME Uret!Constants, Uret!TypeInv, Uret!PlaceInv, Uret!NotifierInv,
         Uret!HostInv, Uret!GuestInv, [Uret!Next]_(Uret!vars)
  PROVE  Uret!GuestInv'
<1> USE DEF Uret!TypeInv, Uret!PlaceInv, Uret!NotifierInv, Uret!HostInv, Uret!Changed,
    Uret!GuestInv, Uret!Of, Uret!Asked, Uret!Masked, Uret!values, Uret!notifier, Uret!vcpu,
    Uret!Setting, Uret!Restoring
<1>1. ASSUME Uret!Compare PROVE Uret!GuestInv'
  BY <1>1, HostLent DEF Uret!Compare
<1>2. ASSUME Uret!Write PROVE Uret!GuestInv'
  BY <1>2, HostLent DEF Uret!Write
<1>3. ASSUME Uret!Remember PROVE Uret!GuestInv'
  <2>1. x13 \in Slots /\ x3' = [x3 EXCEPT ![x13] = x14] /\ x11 = "remember" /\ x11' = "register"
    BY <1>3 DEF Uret!Remember
  <2>2. \A s \in Slots : x3'[s] = IF s = x13 THEN x14 ELSE x3[s]
    BY <2>1
  <2> QED  BY <1>3, <2>1, <2>2, HostLent DEF Uret!Remember
<1>4. ASSUME Uret!Register PROVE Uret!GuestInv'
  BY <1>4, HostLent DEF Uret!Register, Uret!NeedsNotifier
<1>5. ASSUME Uret!Mark PROVE Uret!GuestInv'
  BY <1>5, HostLent DEF Uret!Mark
<1>6. ASSUME Uret!NextSlot PROVE Uret!GuestInv'
  BY <1>6, HostLent DEF Uret!NextSlot, Uret!Set
<1>7. ASSUME NEW v \in Vcpus, Uret!VcpuLoad(v) PROVE Uret!GuestInv'
  BY <1>7, HostLent DEF Uret!VcpuLoad
<1>8. ASSUME Uret!VcpuPut PROVE Uret!GuestInv'
  BY <1>8, HostLent DEF Uret!VcpuPut, Uret!Loaded
<1>9. ASSUME NEW s \in Slots, NEW d \in MsrValues, Uret!SetGuestMsr(s, d) PROVE Uret!GuestInv'
  BY <1>9, HostLent DEF Uret!SetGuestMsr, Uret!Set
<1>10. ASSUME NEW S \in SUBSET Slots, Uret!SetupMsrs(S) PROVE Uret!GuestInv'
  BY <1>10, HostLent DEF Uret!SetupMsrs, Uret!Loaded
<1>11. ASSUME Uret!PrepareSwitchToGuest PROVE Uret!GuestInv'
  BY <1>11, HostLent DEF Uret!PrepareSwitchToGuest
<1>12. ASSUME Uret!Enter PROVE Uret!GuestInv'
  BY <1>12, HostLent DEF Uret!Enter
<1>13. ASSUME Uret!Exit PROVE Uret!GuestInv'
  BY <1>13, HostLent DEF Uret!Exit
<1>14. ASSUME Uret!ReturnToUser PROVE Uret!GuestInv'
  BY <1>14, HostLent DEF Uret!ReturnToUser
<1>15. ASSUME Uret!SaveIrqs PROVE Uret!GuestInv'
  BY <1>15, HostLent DEF Uret!SaveIrqs, Uret!IrqsWhileUnlinking
<1>16. ASSUME Uret!Unlink PROVE Uret!GuestInv'
  BY <1>16, HostLent DEF Uret!Unlink
<1>17. ASSUME Uret!Restore PROVE Uret!GuestInv'
  BY <1>17, HostLent DEF Uret!Restore
<1>18. ASSUME Uret!Rewrite PROVE Uret!GuestInv'
  BY <1>18, HostLent DEF Uret!Rewrite
<1>19. ASSUME Uret!Forget PROVE Uret!GuestInv'
  BY <1>19, HostLent DEF Uret!Forget
<1>20. ASSUME Uret!Syscall PROVE Uret!GuestInv'
  BY <1>20, HostLent DEF Uret!Syscall
<1>21. ASSUME Uret!HardwareDisable PROVE Uret!GuestInv'
  BY <1>21, HostLent DEF Uret!HardwareDisable, Uret!DropNotifiers
<1>22. ASSUME UNCHANGED Uret!vars PROVE Uret!GuestInv'
  BY <1>22, HostLent DEF Uret!vars
<1> QED  BY <1>1, <1>2, <1>3, <1>4, <1>5, <1>6, <1>7, <1>8, <1>9, <1>10, <1>11, <1>12, <1>13,
    <1>14, <1>15, <1>16, <1>17, <1>18, <1>19, <1>20, <1>21, <1>22 DEF Uret!Next

\* In the guest every loaded slot has been visited; in userspace none is changed.
LEMMA UretImplies == ASSUME Uret!Constants, Uret!UretInv PROVE Uret!MsrsFollowMode
BY DEF Uret!Constants, Uret!UretInv, Uret!TypeInv, Uret!PlaceInv, Uret!NotifierInv,
    Uret!HostInv, Uret!Changed, Uret!GuestInv, Uret!Of, Uret!Asked, Uret!Masked,
    Uret!MsrsFollowMode, Uret!Setting, Uret!Restoring

\* One step keeps the invariant.
LEMMA UretStep ==
  ASSUME Uret!Constants
  PROVE  Uret!UretInv /\ [Uret!Next]_(Uret!vars) => Uret!UretInv'
BY UretType, UretPlace, UretNotifier, UretHost, UretGuest DEF Uret!UretInv

-----------------------------------------------------------------------------
(***************************************************************************)
(* VendorInit.  First what concatenation does to plans, then what the plan *)
(* of every host loads, unloads and undoes, and in which order, and then   *)
(* that each action keeps the invariant of VendorInit.                     *)
(***************************************************************************)
LEMMA Positions ==
  /\ Vendor!AllSteps = {"cache", "percpu", "mmu", "checks", "nested", "iopm", "sev", "areas", "handler",
                 "ops", "compat", "cpufreq", "gtod", "perf", "l1d", "emergency", "dev"}
  /\ Vendor!Position["cache"] = 1 /\ Vendor!Position["percpu"] = 2 /\ Vendor!Position["mmu"] = 3
  /\ Vendor!Position["checks"] = 4 /\ Vendor!Position["nested"] = 5 /\ Vendor!Position["iopm"] = 6
  /\ Vendor!Position["sev"] = 7 /\ Vendor!Position["areas"] = 8 /\ Vendor!Position["handler"] = 9
  /\ Vendor!Position["ops"] = 10 /\ Vendor!Position["compat"] = 11 /\ Vendor!Position["cpufreq"] = 12
  /\ Vendor!Position["gtod"] = 13 /\ Vendor!Position["perf"] = 14 /\ Vendor!Position["l1d"] = 15
  /\ Vendor!Position["emergency"] = 16 /\ Vendor!Position["dev"] = 17
BY DEF Vendor!AllSteps, Vendor!Position

LEMMA EarlierIs ==
  ASSUME NEW x \in Vendor!AllSteps, NEW y \in Vendor!AllSteps
  PROVE  <<x, y>> \in Vendor!Earlier <=> Vendor!Position[x] < Vendor!Position[y]
BY DEF Vendor!Earlier

\* p is a plan of the steps s, in the order r.
LEMMA JoinSteps ==
  ASSUME NEW S, NEW p \in Seq(S), NEW q \in Seq(S)
  PROVE  p \o q \in Seq(S) /\ Vendor!Steps(p \o q) = Vendor!Steps(p) \cup Vendor!Steps(q)
<1> DEFINE pq == p \o q
<1>1. /\ pq \in Seq(S) /\ Len(pq) = Len(p) + Len(q) /\ Len(p) \in Nat /\ Len(q) \in Nat
      /\ DOMAIN p = 1..Len(p) /\ DOMAIN q = 1..Len(q) /\ DOMAIN pq = 1..Len(pq)
  OBVIOUS
<1>2. \A i \in 1..Len(p) : pq[i] = p[i]
  OBVIOUS
<1>3. \A i \in 1..Len(q) : pq[Len(p) + i] = q[i]
  OBVIOUS
<1>4. Vendor!Steps(pq) \subseteq Vendor!Steps(p) \cup Vendor!Steps(q)
  <2> SUFFICES ASSUME NEW i \in 1..Len(pq) PROVE pq[i] \in Vendor!Steps(p) \cup Vendor!Steps(q)
    BY <1>1 DEF Vendor!Steps
  <2>1. CASE i \in 1..Len(p)
    BY <2>1, <1>1, <1>2 DEF Vendor!Steps
  <2>2. CASE i \notin 1..Len(p)
    <3>1. i - Len(p) \in 1..Len(q) /\ i = Len(p) + (i - Len(p))
      BY <2>2, <1>1
    <3> QED
      BY <3>1, <1>1, <1>3 DEF Vendor!Steps
  <2> QED
    BY <2>1, <2>2
<1>5. Vendor!Steps(p) \subseteq Vendor!Steps(pq)
  <2>1. \A i \in 1..Len(p) : i \in 1..Len(pq)
    BY <1>1
  <2> HIDE DEF pq
  <2> QED
    BY <1>1, <1>2, <2>1 DEF Vendor!Steps
<1>6. Vendor!Steps(q) \subseteq Vendor!Steps(pq)
  <2>1. \A i \in 1..Len(q) : Len(p) + i \in 1..Len(pq)
    BY <1>1
  <2> HIDE DEF pq
  <2> QED
    BY <1>1, <1>3, <2>1 DEF Vendor!Steps
<1> QED
  BY <1>1, <1>4, <1>5, <1>6

LEMMA JoinOrder ==
  ASSUME NEW S, NEW p \in Seq(S), NEW q \in Seq(S), NEW r, Vendor!InOrder(p, r),
      Vendor!InOrder(q, r),
         Vendor!Steps(p) \X Vendor!Steps(q) \subseteq r
  PROVE  Vendor!InOrder(p \o q, r)
<1> DEFINE pq == p \o q
<1>1. /\ pq \in Seq(S) /\ Len(pq) = Len(p) + Len(q) /\ Len(p) \in Nat /\ Len(q) \in Nat
      /\ DOMAIN p = 1..Len(p) /\ DOMAIN q = 1..Len(q) /\ DOMAIN pq = 1..Len(pq)
  OBVIOUS
<1>2. \A i \in 1..Len(p) : pq[i] = p[i]
  OBVIOUS
<1>3. \A i \in 1..Len(q) : pq[Len(p) + i] = q[i]
  OBVIOUS
<1> HIDE DEF pq
<1> SUFFICES ASSUME NEW i \in 1..Len(pq), NEW j \in 1..Len(pq), i < j
             PROVE  <<pq[i], pq[j]>> \in r
  BY <1>1 DEF Vendor!InOrder, pq
<1>4. CASE j \in 1..Len(p)
  <2>1. i \in 1..Len(p)
    BY <1>1, <1>4
  <2>2. <<p[i], p[j]>> \in r
    BY <1>1, <1>4, <2>1 DEF Vendor!InOrder
  <2> QED
    BY <1>2, <1>4, <2>1, <2>2
<1>5. CASE i \in 1..Len(p) /\ j \notin 1..Len(p)
  <2>1. j - Len(p) \in 1..Len(q) /\ j = Len(p) + (j - Len(p))
    BY <1>1, <1>5
  <2>2. pq[i] \in Vendor!Steps(p) /\ pq[j] \in Vendor!Steps(q)
    BY <1>1, <1>2, <1>3, <1>5, <2>1 DEF Vendor!Steps
  <2> QED
    BY <2>2
<1>6. CASE i \notin 1..Len(p) /\ j \notin 1..Len(p)
  <2>1. /\ j - Len(p) \in 1..Len(q) /\ j = Len(p) + (j - Len(p))
        /\ i - Len(p) \in 1..Len(q) /\ i = Len(p) + (i - Len(p))
        /\ i - Len(p) < j - Len(p)
    BY <1>1, <1>6
  <2>2. <<q[i - Len(p)], q[j - Len(p)]>> \in r
    BY <1>1, <2>1 DEF Vendor!InOrder
  <2> QED
    BY <1>3, <2>1, <2>2
<1> QED
  BY <1>1, <1>4, <1>5, <1>6

LEMMA TailSteps ==
  ASSUME NEW S, NEW p \in Seq(S), p # <<>>
  PROVE  /\ Tail(p) \in Seq(S) /\ Head(p) \in S
         /\ Vendor!Steps(p) = {Head(p)} \cup Vendor!Steps(Tail(p))
         /\ \A r : Vendor!InOrder(p, r) => Vendor!InOrder(Tail(p), r) /\ {Head(p)} \X Vendor!Steps(Tail(p)) \subseteq r
<1> DEFINE t == Tail(p)
<1>1. /\ t \in Seq(S) /\ Len(p) \in Nat \ {0} /\ Len(t) = Len(p) - 1
      /\ DOMAIN p = 1..Len(p) /\ DOMAIN t = 1..Len(t) /\ Head(p) = p[1] /\ p[1] \in S
  OBVIOUS
<1>2. \A i \in 1..Len(t) : t[i] = p[i + 1]
  OBVIOUS
<1> HIDE DEF t
<1>3. \A i \in 1..Len(t) : i + 1 \in 1..Len(p)
  BY <1>1
<1>4. \A i \in 1..Len(p) : i = 1 \/ (i - 1 \in 1..Len(t) /\ t[i - 1] = p[i])
  <2> SUFFICES ASSUME NEW i \in 1..Len(p), i # 1 PROVE i - 1 \in 1..Len(t) /\ t[i - 1] = p[i]
    OBVIOUS
  <2>1. i - 1 \in 1..Len(t) /\ (i - 1) + 1 = i
    BY <1>1
  <2> QED
    BY <1>2, <2>1
<1>5. Vendor!Steps(p) = {p[1]} \cup Vendor!Steps(t)
  <2>1. Vendor!Steps(p) \subseteq {p[1]} \cup Vendor!Steps(t)
    BY <1>1, <1>4 DEF Vendor!Steps
  <2>2. {p[1]} \cup Vendor!Steps(t) \subseteq Vendor!Steps(p)
    <3>1. p[1] \in Vendor!Steps(p)
      BY <1>1 DEF Vendor!Steps
    <3>2. ASSUME NEW i \in 1..Len(t) PROVE t[i] \in Vendor!Steps(p)
      BY <1>1, <1>2, <1>3, <3>2 DEF Vendor!Steps
    <3> QED
      BY <1>1, <3>1, <3>2 DEF Vendor!Steps
  <2> QED
    BY <2>1, <2>2
<1>6. ASSUME NEW r, Vendor!InOrder(p, r) PROVE Vendor!InOrder(t,
    r) /\ {p[1]} \X Vendor!Steps(t) \subseteq r
  <2>1. ASSUME NEW i \in 1..Len(t), NEW j \in 1..Len(t), i < j PROVE <<t[i], t[j]>> \in r
    <3>1. i + 1 \in 1..Len(p) /\ j + 1 \in 1..Len(p) /\ i + 1 < j + 1
      BY <1>1, <2>1
    <3> QED
      BY <1>1, <1>2, <1>6, <3>1 DEF Vendor!InOrder
  <2>2. ASSUME NEW j \in 1..Len(t) PROVE <<p[1], t[j]>> \in r
    <3>1. 1 \in 1..Len(p) /\ j + 1 \in 1..Len(p) /\ 1 < j + 1
      BY <1>1
    <3> QED
      BY <1>1, <1>2, <1>6, <3>1 DEF Vendor!InOrder
  <2> QED
    BY <1>1, <2>1, <2>2 DEF Vendor!InOrder, Vendor!Steps
<1> QED
  BY <1>1, <1>5, <1>6 DEF t

Plan(p, s, r) == p \in Seq(Vendor!UndoSteps) /\ Vendor!Steps(p) = s /\ Vendor!InOrder(p, r)

LEMMA JoinPlans ==
  ASSUME NEW p, NEW q, NEW s, NEW t, NEW r, Plan(p, s, r), Plan(q, t, r), s \X t \subseteq r
  PROVE  Plan(p \o q, s \cup t, r)
BY JoinSteps, JoinOrder DEF Plan

LEMMA PlanNone == ASSUME NEW r PROVE Plan(<<>>, {}, r)
BY DEF Plan, Vendor!Steps, Vendor!InOrder

LEMMA PlanOne == ASSUME NEW r, NEW x \in Vendor!UndoSteps PROVE Plan(<<x>>, {x}, r)
BY DEF Plan, Vendor!Steps, Vendor!InOrder

LEMMA PlanTwo ==
  ASSUME NEW r, NEW x \in Vendor!UndoSteps, NEW y \in Vendor!UndoSteps, <<x, y>> \in r
  PROVE  Plan(<<x, y>>, {x, y}, r)
<1> DEFINE p == <<x, y>>
<1>1. p \in Seq(Vendor!UndoSteps) /\ DOMAIN p = {1, 2} /\ p[1] = x /\ p[2] = y
  OBVIOUS
<1> HIDE DEF p
<1>2. Vendor!Steps(p) = {x, y} /\ Vendor!InOrder(p, r)
  BY <1>1 DEF Vendor!Steps, Vendor!InOrder
<1> QED
  BY <1>1, <1>2 DEF Plan, p

LEMMA PlanThree ==
  ASSUME NEW r, NEW x \in Vendor!UndoSteps, NEW y \in Vendor!UndoSteps,
      NEW z \in Vendor!UndoSteps,
         <<x, y>> \in r, <<x, z>> \in r, <<y, z>> \in r
  PROVE  Plan(<<x, y, z>>, {x, y, z}, r)
<1> DEFINE p == <<x, y, z>>
<1>1. p \in Seq(Vendor!UndoSteps) /\ DOMAIN p = {1, 2, 3} /\ p[1] = x /\ p[2] = y /\ p[3] = z
  OBVIOUS
<1> HIDE DEF p
<1>2. Vendor!Steps(p) = {x, y, z} /\ Vendor!InOrder(p, r)
  BY <1>1 DEF Vendor!Steps, Vendor!InOrder
<1> QED
  BY <1>1, <1>2 DEF Plan, p

LEMMA PlanFour ==
  ASSUME NEW r, NEW x \in Vendor!UndoSteps, NEW y \in Vendor!UndoSteps,
      NEW z \in Vendor!UndoSteps, NEW w \in Vendor!UndoSteps,
         <<x, y>> \in r, <<x, z>> \in r, <<x, w>> \in r, <<y, z>> \in r, <<y, w>> \in r,
         <<z, w>> \in r
  PROVE  Plan(<<x, y, z, w>>, {x, y, z, w}, r)
<1> DEFINE p == <<x, y, z, w>>
<1>1. /\ p \in Seq(Vendor!UndoSteps) /\ DOMAIN p = {1, 2, 3, 4}
      /\ p[1] = x /\ p[2] = y /\ p[3] = z /\ p[4] = w
  OBVIOUS
<1> HIDE DEF p
<1>2. Vendor!Steps(p) = {x, y, z, w}
  BY <1>1 DEF Vendor!Steps
<1>3. Vendor!InOrder(p, r)
  <2>1. /\ <<p[1], p[2]>> \in r /\ <<p[1], p[3]>> \in r /\ <<p[1], p[4]>> \in r
        /\ <<p[2], p[3]>> \in r /\ <<p[2], p[4]>> \in r /\ <<p[3], p[4]>> \in r
    BY <1>1
  <2>2. \A i, j \in {1, 2, 3, 4} :
           i < j => \/ i = 1 /\ j \in {2, 3, 4}
                    \/ i = 2 /\ j \in {3, 4}
                    \/ i = 3 /\ j = 4
    OBVIOUS
  <2> QED
    BY <1>1, <2>1, <2>2 DEF Vendor!InOrder
<1> QED
  BY <1>1, <1>2, <1>3 DEF Plan, p

UpTo(n) == {x \in Vendor!AllSteps : Vendor!Position[x] <= n}
Beyond(n) == {x \in Vendor!AllSteps : n < Vendor!Position[x]}
LEMMA BeforeBeyond == ASSUME NEW n \in Nat PROVE UpTo(n) \X Beyond(n) \subseteq Vendor!Earlier
<1>1. \A x \in Vendor!AllSteps : Vendor!Position[x] \in Nat
  BY Positions
<1> QED
  BY <1>1 DEF Vendor!Earlier, UpTo, Beyond

LEMMA NoneTooEarly ==
  ASSUME NEW s \in SUBSET Vendor!UndoSteps, NEW t \in SUBSET Vendor!UndoSteps,
         s \cap {"irq work", "work"} = {} \/ t \cap {"irq work", "gtod"} = {}
  PROVE  s \X t \subseteq Vendor!NotTooEarly
BY DEF Vendor!NotTooEarly

Only(c, s) == IF c THEN s ELSE {}

LEMMA MaybeStep ==
  ASSUME NEW r, NEW c \in BOOLEAN, NEW x \in Vendor!UndoSteps
  PROVE  Plan(Vendor!If(c, <<x>>), Only(c, {x}), r) /\ Only(c, {x}) \subseteq {x}
<1>1. CASE c
  BY <1>1, PlanOne DEF Vendor!If, Only
<1>2. CASE ~c
  BY <1>2, PlanNone DEF Vendor!If, Only
<1> QED
  BY <1>1, <1>2

SetupSteps ==
  {"checks", "areas"} \cup Only(x1.vmx /\ x1.nested, {"nested"})
    \cup (IF x1.vmx THEN {"handler"} ELSE {"iopm", "sev"})
InitSteps ==
  {"cache", "percpu", "mmu", "ops", "compat", "gtod", "perf", "emergency", "dev"}
    \cup SetupSteps \cup Only(~x1.constantTsc, {"cpufreq"}) \cup Only(x1.vmx, {"l1d"})

LEMMA SomeEarlier ==
  /\ <<"cache", "percpu">> \in Vendor!Earlier /\ <<"cache", "mmu">> \in Vendor!Earlier
  /\ <<"percpu", "mmu">> \in Vendor!Earlier /\ <<"areas", "handler">> \in Vendor!Earlier
  /\ <<"checks", "iopm">> \in Vendor!Earlier /\ <<"checks", "sev">> \in Vendor!Earlier
  /\ <<"checks", "areas">> \in Vendor!Earlier /\ <<"iopm", "sev">> \in Vendor!Earlier
  /\ <<"iopm", "areas">> \in Vendor!Earlier /\ <<"sev", "areas">> \in Vendor!Earlier
  /\ <<"ops", "compat">> \in Vendor!Earlier /\ <<"gtod", "perf">> \in Vendor!Earlier
  /\ <<"emergency", "dev">> \in Vendor!Earlier
<1>a. {"cache", "percpu", "mmu", "areas", "handler", "checks", "iopm",
       "sev", "ops", "compat", "gtod", "perf", "emergency", "dev"} \subseteq Vendor!AllSteps
  BY Positions
<1>1. <<"cache", "percpu">> \in Vendor!Earlier
  <2>1. Vendor!Position["cache"] < Vendor!Position["percpu"]  BY Positions
  <2> QED  BY <1>a, <2>1, EarlierIs
<1>2. <<"cache", "mmu">> \in Vendor!Earlier
  <2>1. Vendor!Position["cache"] < Vendor!Position["mmu"]  BY Positions
  <2> QED  BY <1>a, <2>1, EarlierIs
<1>3. <<"percpu", "mmu">> \in Vendor!Earlier
  <2>1. Vendor!Position["percpu"] < Vendor!Position["mmu"]  BY Positions
  <2> QED  BY <1>a, <2>1, EarlierIs
<1>4. <<"areas", "handler">> \in Vendor!Earlier
  <2>1. Vendor!Position["areas"] < Vendor!Position["handler"]  BY Positions
  <2> QED  BY <1>a, <2>1, EarlierIs
<1>5. <<"checks", "iopm">> \in Vendor!Earlier
  <2>1. Vendor!Position["checks"] < Vendor!Position["iopm"]  BY Positions
  <2> QED  BY <1>a, <2>1, EarlierIs
<1>6. <<"checks", "sev">> \in Vendor!Earlier
  <2>1. Vendor!Position["checks"] < Vendor!Position["sev"]  BY Positions
  <2> QED  BY <1>a, <2>1, EarlierIs
<1>7. <<"checks", "areas">> \in Vendor!Earlier
  <2>1. Vendor!Position["checks"] < Vendor!Position["areas"]  BY Positions
  <2> QED  BY <1>a, <2>1, EarlierIs
<1>8. <<"iopm", "sev">> \in Vendor!Earlier
  <2>1. Vendor!Position["iopm"] < Vendor!Position["sev"]  BY Positions
  <2> QED  BY <1>a, <2>1, EarlierIs
<1>9. <<"iopm", "areas">> \in Vendor!Earlier
  <2>1. Vendor!Position["iopm"] < Vendor!Position["areas"]  BY Positions
  <2> QED  BY <1>a, <2>1, EarlierIs
<1>10. <<"sev", "areas">> \in Vendor!Earlier
  <2>1. Vendor!Position["sev"] < Vendor!Position["areas"]  BY Positions
  <2> QED  BY <1>a, <2>1, EarlierIs
<1>11. <<"ops", "compat">> \in Vendor!Earlier
  <2>1. Vendor!Position["ops"] < Vendor!Position["compat"]  BY Positions
  <2> QED  BY <1>a, <2>1, EarlierIs
<1>12. <<"gtod", "perf">> \in Vendor!Earlier
  <2>1. Vendor!Position["gtod"] < Vendor!Position["perf"]  BY Positions
  <2> QED  BY <1>a, <2>1, EarlierIs
<1>13. <<"emergency", "dev">> \in Vendor!Earlier
  <2>1. Vendor!Position["emergency"] < Vendor!Position["dev"]  BY Positions
  <2> QED  BY <1>a, <2>1, EarlierIs
<1> QED  BY <1>1, <1>2, <1>3, <1>4, <1>5, <1>6, <1>7, <1>8, <1>9, <1>10, <1>11, <1>12, <1>13

LEMMA StepNames ==
  /\ {"cache", "percpu", "mmu", "checks", "nested", "iopm", "sev", "areas", "handler",
      "ops", "compat", "cpufreq", "gtod", "perf", "l1d", "emergency", "dev", "irq work", "work",
      "set handler"} \subseteq Vendor!UndoSteps
  /\ Vendor!AllSteps \subseteq Vendor!UndoSteps
BY Positions DEF Vendor!UndoSteps

HostType == x1 \in [vmx : BOOLEAN, nested : BOOLEAN, constantTsc : BOOLEAN]

LEMMA SetupPlan == HostType => Plan(Vendor!HardwareSetup, SetupSteps, Vendor!Earlier)
<1> SUFFICES ASSUME HostType PROVE Plan(Vendor!HardwareSetup, SetupSteps, Vendor!Earlier)
  OBVIOUS
<1>0. x1.vmx \in BOOLEAN /\ x1.nested \in BOOLEAN
  BY DEF HostType
<1>1. CASE x1.vmx
  <2> DEFINE nested == Only(x1.nested, {"nested"})
             p == <<"checks">> \o Vendor!If(x1.nested, <<"nested">>)
             s == {"checks"} \cup nested
             t == {"areas", "handler"}
  <2>1. Plan(<<"checks">>, {"checks"}, Vendor!Earlier)
    BY StepNames, PlanOne
  <2>2. Plan(Vendor!If(x1.nested, <<"nested">>), nested, Vendor!Earlier) /\ nested \subseteq {"nested"}
    BY <1>0, StepNames, MaybeStep
  <2>3. Plan(<<"areas", "handler">>, t, Vendor!Earlier)
    BY StepNames, SomeEarlier, PlanTwo
  <2>4. {"checks"} \X nested \subseteq Vendor!Earlier
    <3>1. {"checks"} \subseteq UpTo(4) /\ nested \subseteq Beyond(4)
      BY <2>2, Positions DEF UpTo, Beyond
    <3>2. UpTo(4) \X Beyond(4) \subseteq Vendor!Earlier
      BY BeforeBeyond
    <3> HIDE DEF nested
    <3> QED
      BY <3>1, <3>2
  <2>5. s \X t \subseteq Vendor!Earlier
    <3>1. s \subseteq UpTo(5) /\ t \subseteq Beyond(5)
      BY <2>2, Positions DEF UpTo, Beyond
    <3>2. UpTo(5) \X Beyond(5) \subseteq Vendor!Earlier
      BY BeforeBeyond
    <3> HIDE DEF s, t
    <3> QED
      BY <3>1, <3>2
  <2> HIDE DEF nested, t
  <2>6. Plan(p, s, Vendor!Earlier)
    BY <2>1, <2>2, <2>4, JoinPlans
  <2> HIDE DEF p, s
  <2>7. Plan(p \o <<"areas", "handler">>, s \cup t, Vendor!Earlier)
    BY <2>3, <2>5, <2>6, JoinPlans
  <2>8. SetupSteps = s \cup t
    BY <1>1 DEF SetupSteps, Only, s, t, nested
  <2>9. Vendor!HardwareSetup = p \o <<"areas", "handler">>
    BY <1>1 DEF Vendor!HardwareSetup, p
  <2> QED
    BY <2>7, <2>8, <2>9
<1>2. CASE ~x1.vmx
  <2>1. Plan(<<"checks", "iopm", "sev", "areas">>, {"checks", "iopm", "sev", "areas"}, Vendor!Earlier)
    BY StepNames, SomeEarlier, PlanFour
  <2>2. SetupSteps = {"checks", "iopm", "sev", "areas"}
    BY <1>2 DEF SetupSteps, Only
  <2> QED
    BY <1>2, <2>1, <2>2 DEF Vendor!HardwareSetup
<1> QED
  BY <1>0, <1>1, <1>2

\* p is a plan of the steps s, none beyond the nth; t has steps beyond it, up to the mth.
Loads(p, s, n) == Plan(p, s, Vendor!Earlier) /\ s \subseteq UpTo(n)
Between(n, t, m) == n \in Nat /\ m \in Nat /\ n <= m /\ t \subseteq Beyond(n) \cap UpTo(m)

LEMMA Extend ==
  ASSUME NEW n, NEW m, NEW p, NEW s, NEW q, NEW t,
         Loads(p, s, n), Plan(q, t, Vendor!Earlier), Between(n, t, m)
  PROVE  Loads(p \o q, s \cup t, m)
<1> USE DEF Loads, Between
<1>1. UpTo(n) \X Beyond(n) \subseteq Vendor!Earlier
  BY BeforeBeyond
<1>2. s \X t \subseteq Vendor!Earlier
  BY <1>1
<1>3. Plan(p \o q, s \cup t, Vendor!Earlier)
  BY <1>2, JoinPlans
<1>4. UpTo(n) \subseteq UpTo(m)
  <2>1. \A x \in Vendor!AllSteps : Vendor!Position[x] \in Nat
    BY Positions
  <2> QED
    BY <2>1 DEF UpTo
<1> QED
  BY <1>3, <1>4

LEMMA InitPlan == HostType => Plan(Vendor!ModuleInit, InitSteps, Vendor!Earlier)
<1> SUFFICES ASSUME HostType PROVE Plan(Vendor!ModuleInit, InitSteps, Vendor!Earlier)
  OBVIOUS
<1> DEFINE tsc == Only(~x1.constantTsc, {"cpufreq"})
           l1d == Only(x1.vmx, {"l1d"})
           p0 == <<"cache", "percpu", "mmu">>
           s0 == {"cache", "percpu", "mmu"}
           p1 == p0 \o Vendor!HardwareSetup
           s1 == s0 \cup SetupSteps
           p2 == p1 \o <<"ops", "compat">>
           s2 == s1 \cup {"ops", "compat"}
           p3 == p2 \o Vendor!If(~x1.constantTsc, <<"cpufreq">>)
           s3 == s2 \cup tsc
           p4 == p3 \o <<"gtod", "perf">>
           s4 == s3 \cup {"gtod", "perf"}
           p5 == p4 \o Vendor!If(x1.vmx, <<"l1d">>)
           s5 == s4 \cup l1d
           p6 == p5 \o <<"emergency", "dev">>
           s6 == s5 \cup {"emergency", "dev"}
<1>a. /\ Plan(Vendor!If(~x1.constantTsc, <<"cpufreq">>), tsc, Vendor!Earlier) /\ tsc \subseteq {"cpufreq"}
      /\ Plan(Vendor!If(x1.vmx, <<"l1d">>), l1d, Vendor!Earlier) /\ l1d \subseteq {"l1d"}
  <2>1. x1.vmx \in BOOLEAN /\ x1.constantTsc \in BOOLEAN
    BY DEF HostType
  <2>2. (~x1.constantTsc) \in BOOLEAN
    BY <2>1
  <2> QED
    BY <2>1, <2>2, StepNames, MaybeStep
<1>b. SetupSteps \subseteq {"checks", "areas", "nested", "handler", "iopm", "sev"}
  BY DEF SetupSteps, Only
<1>c. /\ Vendor!ModuleInit = p6
      /\ InitSteps = s6
  BY DEF Vendor!ModuleInit, Vendor!VendorInit, InitSteps
<1> HIDE DEF tsc, l1d
<1>d. /\ Between(3, SetupSteps, 9)
      /\ Between(9, {"ops", "compat"}, 11)
      /\ Between(11, tsc, 12)
      /\ Between(12, {"gtod", "perf"}, 14)
      /\ Between(14, l1d, 15)
      /\ Between(15, {"emergency", "dev"}, 17)
  BY <1>a, <1>b, Positions DEF Beyond, UpTo, Between
<1>e. /\ Plan(<<"ops", "compat">>, {"ops", "compat"}, Vendor!Earlier)
      /\ Plan(<<"gtod", "perf">>, {"gtod", "perf"}, Vendor!Earlier)
      /\ Plan(<<"emergency", "dev">>, {"emergency", "dev"}, Vendor!Earlier)
      /\ Plan(Vendor!HardwareSetup, SetupSteps, Vendor!Earlier)
  BY StepNames, SomeEarlier, PlanTwo, SetupPlan
<1>0. Loads(p0, s0, 3)
  <2>1. Plan(p0, s0, Vendor!Earlier)
    BY StepNames, SomeEarlier, PlanThree
  <2>2. s0 \subseteq UpTo(3)
    BY Positions DEF UpTo
  <2> QED
    BY <2>1, <2>2 DEF Loads
<1> HIDE DEF p0, s0
<1>1. Loads(p1, s1, 9)
  BY <1>0, <1>e, <1>d, Extend
<1> HIDE DEF p1, s1
<1>2. Loads(p2, s2, 11)
  BY <1>1, <1>e, <1>d, Extend
<1> HIDE DEF p2, s2
<1>3. Loads(p3, s3, 12)
  BY <1>2, <1>a, <1>d, Extend
<1> HIDE DEF p3, s3
<1>4. Loads(p4, s4, 14)
  BY <1>3, <1>e, <1>d, Extend
<1> HIDE DEF p4, s4
<1>5. Loads(p5, s5, 15)
  BY <1>4, <1>a, <1>d, Extend
<1> HIDE DEF p5, s5
<1>6. Loads(p6, s6, 17)
  BY <1>5, <1>e, <1>d, Extend
<1> HIDE DEF p6, s6
<1> QED
  BY <1>6, <1>c DEF Loads

\* Two undoing plans one after the other: the first does not wait for work, or the second has no
\* notifier left to remove.
LEMMA JoinUndo ==
  ASSUME NEW p, NEW q, NEW s, NEW t, Plan(p, s, Vendor!NotTooEarly), Plan(q, t,
      Vendor!NotTooEarly),
         s \subseteq Vendor!UndoSteps, t \subseteq Vendor!UndoSteps,
         s \cap {"irq work", "work"} = {} \/ t \cap {"irq work", "gtod"} = {}
  PROVE  Plan(p \o q, s \cup t, Vendor!NotTooEarly) /\ s \cup t \subseteq Vendor!UndoSteps
<1>1. s \X t \subseteq Vendor!NotTooEarly
  BY NoneTooEarly
<1> QED
  BY <1>1, JoinPlans

CommonSteps == {"mmu", "percpu", "cache"}
UnsetupSteps == IF x1.vmx THEN {"handler", "areas"} \cup Only(x1.nested, {"nested"})
                ELSE {"sev", "areas", "iopm"}
ExitSteps == {"perf", "gtod", "irq work", "work", "ops"} \cup Only(~x1.constantTsc, {"cpufreq"})
             \cup UnsetupSteps \cup CommonSteps

LEMMA CommonPlan == Plan(Vendor!Common, CommonSteps, Vendor!NotTooEarly)
<1>1. /\ <<"mmu", "percpu">> \in Vendor!NotTooEarly /\ <<"mmu", "cache">> \in Vendor!NotTooEarly
      /\ <<"percpu", "cache">> \in Vendor!NotTooEarly
  BY StepNames DEF Vendor!NotTooEarly
<1> QED
  BY <1>1, StepNames, PlanThree DEF Vendor!Common, CommonSteps

LEMMA UnsetupPlan == HostType => Plan(Vendor!Unsetup, UnsetupSteps, Vendor!NotTooEarly)
<1> SUFFICES ASSUME HostType PROVE Plan(Vendor!Unsetup, UnsetupSteps, Vendor!NotTooEarly)
  OBVIOUS
<1>0. x1.vmx \in BOOLEAN /\ x1.nested \in BOOLEAN
  BY DEF HostType
<1>1. CASE x1.vmx
  <2> DEFINE n == Only(x1.nested, {"nested"})
             q == Vendor!If(x1.nested, <<"nested">>)
  <2>1. Plan(q, n, Vendor!NotTooEarly) /\ n \subseteq {"nested"}
    BY <1>0, StepNames, MaybeStep
  <2>2. Plan(<<"handler">>, {"handler"}, Vendor!NotTooEarly) /\ Plan(<<"areas">>, {"areas"}, Vendor!NotTooEarly)
    BY StepNames, PlanOne
  <2>3. Vendor!Unsetup = (<<"handler">> \o q) \o <<"areas">>
    BY <1>1 DEF Vendor!Unsetup
  <2>4. UnsetupSteps = ({"handler"} \cup n) \cup {"areas"}
    BY <1>1 DEF UnsetupSteps
  <2> HIDE DEF n, q
  <2>5. Plan(<<"handler">> \o q, {"handler"} \cup n, Vendor!NotTooEarly)
    <3>1. /\ n \subseteq Vendor!UndoSteps /\ {"handler"} \subseteq Vendor!UndoSteps
          /\ {"handler"} \cap {"irq work", "work"} = {}
      BY <2>1, StepNames
    <3> QED
      BY <2>1, <2>2, <3>1, JoinUndo
  <2>6. {"handler"} \cup n \subseteq Vendor!UndoSteps /\ "areas" \in Vendor!UndoSteps
    BY <2>1, StepNames
  <2>7. Plan((<<"handler">> \o q) \o <<"areas">>, ({"handler"} \cup n) \cup {"areas"}, Vendor!NotTooEarly)
    BY <2>2, <2>5, <2>6, JoinUndo
  <2> QED
    BY <2>3, <2>4, <2>7
<1>2. CASE ~x1.vmx
  <2>1. /\ <<"sev", "areas">> \in Vendor!NotTooEarly /\ <<"sev", "iopm">> \in Vendor!NotTooEarly
        /\ <<"areas", "iopm">> \in Vendor!NotTooEarly
    BY StepNames DEF Vendor!NotTooEarly
  <2> QED
    BY <1>2, <2>1, StepNames, PlanThree DEF Vendor!Unsetup, UnsetupSteps
<1> QED
  BY <1>0, <1>1, <1>2

LEMMA UndoSets ==
  HostType => /\ CommonSteps \subseteq Vendor!AllSteps /\ UnsetupSteps \subseteq Vendor!AllSteps
              /\ ExitSteps \subseteq Vendor!AllSteps \cup {"irq work", "work"}
              /\ UnsetupSteps \cap {"gtod", "l1d"} = {} /\ "areas" \in UnsetupSteps
<1> SUFFICES ASSUME HostType
             PROVE  /\ CommonSteps \subseteq Vendor!AllSteps /\ UnsetupSteps \subseteq Vendor!AllSteps
                    /\ ExitSteps \subseteq Vendor!AllSteps \cup {"irq work", "work"}
                    /\ UnsetupSteps \cap {"gtod", "l1d"} = {} /\ "areas" \in UnsetupSteps
  OBVIOUS
<1>1. CommonSteps \subseteq Vendor!AllSteps
  BY Positions DEF CommonSteps
<1>2. UnsetupSteps \subseteq {"handler", "areas", "nested", "sev", "iopm"} /\ "areas" \in UnsetupSteps
  BY DEF UnsetupSteps, Only
<1>3. {"handler", "areas", "nested", "sev", "iopm"} \subseteq Vendor!AllSteps
  BY Positions
<1>4. {"perf", "gtod", "irq work", "work", "ops", "cpufreq"} \subseteq Vendor!AllSteps \cup {"irq work", "work"}
  BY Positions
<1>5. Only(~x1.constantTsc, {"cpufreq"}) \subseteq {"cpufreq"}
  BY DEF Only
<1> QED
  BY <1>1, <1>2, <1>3, <1>4, <1>5 DEF ExitSteps

LEMMA ExitPlan == HostType => Plan(Vendor!VendorExit, ExitSteps, Vendor!NotTooEarly)
<1> SUFFICES ASSUME HostType PROVE Plan(Vendor!VendorExit, ExitSteps, Vendor!NotTooEarly)
  OBVIOUS
<1> DEFINE tsc == Only(~x1.constantTsc, {"cpufreq"})
           q1 == Vendor!If(~x1.constantTsc, <<"cpufreq">>)
           p1 == <<"perf">> \o q1
           s1 == {"perf"} \cup tsc
           p2 == p1 \o <<"gtod", "irq work", "work">>
           s2 == s1 \cup {"gtod", "irq work", "work"}
           p3 == p2 \o Vendor!Unsetup
           s3 == s2 \cup UnsetupSteps
           p4 == p3 \o Vendor!Common
           s4 == s3 \cup CommonSteps
           p5 == p4 \o <<"ops">>
           s5 == s4 \cup {"ops"}
<1>0. Vendor!VendorExit = p5
  BY DEF Vendor!VendorExit
<1>1. ExitSteps = s5
  BY DEF ExitSteps
<1>2. Plan(q1, tsc, Vendor!NotTooEarly) /\ tsc \subseteq {"cpufreq"}
  <2>1. (~x1.constantTsc) \in BOOLEAN
    BY DEF HostType
  <2> QED
    BY <2>1, StepNames, MaybeStep
<1>3. /\ Plan(<<"perf">>, {"perf"}, Vendor!NotTooEarly) /\ Plan(<<"ops">>, {"ops"}, Vendor!NotTooEarly)
      /\ {"perf"} \subseteq Vendor!UndoSteps /\ {"ops"} \subseteq Vendor!UndoSteps /\ {"cpufreq"} \subseteq Vendor!UndoSteps
  BY StepNames, PlanOne
<1>4. Plan(<<"gtod", "irq work", "work">>, {"gtod", "irq work", "work"}, Vendor!NotTooEarly)
  <2>1. /\ <<"gtod", "irq work">> \in Vendor!NotTooEarly /\ <<"gtod", "work">> \in Vendor!NotTooEarly
        /\ <<"irq work", "work">> \in Vendor!NotTooEarly
    BY StepNames DEF Vendor!NotTooEarly
  <2> QED
    BY <2>1, StepNames, PlanThree
<1>5. {"gtod", "irq work", "work"} \subseteq Vendor!UndoSteps
  BY StepNames
<1> HIDE DEF tsc, q1
<1>6. Plan(p1, s1, Vendor!NotTooEarly) /\ s1 \subseteq Vendor!UndoSteps /\ s1 \subseteq {"perf", "cpufreq"}
  <2>1. tsc \subseteq Vendor!UndoSteps
    BY <1>2, <1>3
  <2>2. Plan(p1, s1, Vendor!NotTooEarly) /\ s1 \subseteq Vendor!UndoSteps
    BY <1>2, <1>3, <2>1, JoinUndo
  <2> QED
    BY <1>2, <2>2
<1> HIDE DEF p1, s1
<1>7. Plan(p2, s2, Vendor!NotTooEarly) /\ s2 \subseteq Vendor!UndoSteps
  <2>1. s1 \cap {"irq work", "work"} = {}
    BY <1>6
  <2> QED
    BY <1>4, <1>5, <1>6, <2>1, JoinUndo
<1> HIDE DEF p2, s2
<1>8. Plan(p3, s3, Vendor!NotTooEarly) /\ s3 \subseteq Vendor!UndoSteps
  <2>1. UnsetupSteps \subseteq Vendor!UndoSteps /\ UnsetupSteps \cap {"irq work", "gtod"} = {}
    BY UndoSets, Positions, StepNames
  <2>2. Plan(Vendor!Unsetup, UnsetupSteps, Vendor!NotTooEarly)
    BY UnsetupPlan
  <2> QED
    BY <1>7, <2>1, <2>2, JoinUndo
<1> HIDE DEF p3, s3
<1>9. Plan(p4, s4, Vendor!NotTooEarly) /\ s4 \subseteq Vendor!UndoSteps
  <2>1. CommonSteps \subseteq Vendor!UndoSteps /\ CommonSteps \cap {"irq work", "gtod"} = {}
    BY UndoSets, StepNames DEF CommonSteps
  <2> QED
    BY <1>8, <2>1, CommonPlan, JoinUndo
<1> HIDE DEF p4, s4
<1>10. Plan(p5, s5, Vendor!NotTooEarly)
  BY <1>3, <1>9, JoinUndo
<1> HIDE DEF p5, s5
<1> QED
  BY <1>0, <1>1, <1>10

\* What a plan that undoes must have: a wait for the work the notifier has queued.
Complete(s) ==
  /\ "set handler" \in s => x1.vmx
  /\ "gtod" \in s => "irq work" \in s
  /\ "gtod" \in s \/ "irq work" \in s => "work" \in s

LEMMA LeavePlan ==
  ASSUME HostType
  PROVE  /\ Vendor!ModuleExit \in Seq(Vendor!UndoSteps) /\ Vendor!InOrder(Vendor!ModuleExit, Vendor!NotTooEarly)
         /\ Vendor!ModuleExit # <<>>
         /\ InitSteps \ {"checks", "compat"} \subseteq Vendor!Steps(Vendor!ModuleExit)
         /\ Complete(Vendor!Steps(Vendor!ModuleExit))
<1> DEFINE l1d == Only(x1.vmx, {"l1d"})
           q == Vendor!If(x1.vmx, <<"l1d">>)
           p1 == <<"dev">> \o Vendor!VendorExit
           s1 == {"dev"} \cup ExitSteps
           p2 == p1 \o <<"emergency">>
           s2 == s1 \cup {"emergency"}
           p3 == p2 \o q
           s3 == s2 \cup l1d
<1>0. Vendor!ModuleExit = p3
  BY DEF Vendor!ModuleExit
<1>1. Plan(q, l1d, Vendor!NotTooEarly) /\ l1d \subseteq {"l1d"}
  <2>1. x1.vmx \in BOOLEAN
    BY DEF HostType
  <2> QED
    BY <2>1, StepNames, MaybeStep
<1>2. /\ Plan(<<"dev">>, {"dev"}, Vendor!NotTooEarly) /\ Plan(<<"emergency">>, {"emergency"}, Vendor!NotTooEarly)
      /\ {"dev"} \subseteq Vendor!UndoSteps /\ {"emergency"} \subseteq Vendor!UndoSteps /\ {"l1d"} \subseteq Vendor!UndoSteps
  BY StepNames, PlanOne
<1>3. ExitSteps \subseteq Vendor!UndoSteps
  BY UndoSets, StepNames
<1>s. s3 = {"dev", "emergency"} \cup ExitSteps \cup l1d
  OBVIOUS
<1> HIDE DEF l1d, q
<1>4. Plan(p1, s1, Vendor!NotTooEarly) /\ s1 \subseteq Vendor!UndoSteps
  BY <1>2, <1>3, ExitPlan, JoinUndo
<1> HIDE DEF p1, s1
<1>5. Plan(p2, s2, Vendor!NotTooEarly) /\ s2 \subseteq Vendor!UndoSteps
  BY <1>2, <1>4, JoinUndo
<1> HIDE DEF p2, s2
<1>6. Plan(p3, s3, Vendor!NotTooEarly)
  <2>1. l1d \subseteq Vendor!UndoSteps /\ l1d \cap {"irq work", "gtod"} = {}
    BY <1>1, <1>2
  <2> QED
    BY <1>1, <1>5, <2>1, JoinUndo
<1> HIDE DEF p3, s3
<1>7. InitSteps \ {"checks", "compat"} \subseteq s3
  BY <1>s DEF InitSteps, SetupSteps, ExitSteps, UnsetupSteps, CommonSteps, Only, l1d
<1>8. Complete(s3)
  <2>1. "set handler" \notin s3
    BY <1>1, <1>s DEF ExitSteps, UnsetupSteps, CommonSteps, Only
  <2>2. {"irq work", "work"} \subseteq s3
    BY <1>s DEF ExitSteps
  <2> QED
    BY <2>1, <2>2 DEF Complete
<1>9. Vendor!ModuleExit # <<>>
  <2>1. Vendor!Steps(<<>>) = {}
    BY DEF Vendor!Steps
  <2>2. "dev" \in s3
    BY <1>s
  <2> QED
    BY <1>0, <1>6, <2>1, <2>2 DEF Plan
<1> QED
  BY <1>0, <1>6, <1>7, <1>8, <1>9 DEF Plan

\* What a failing step undoes is whatever the steps before it acquired.
UndoneBy(step) == {x \in InitSteps \ {"checks", "compat"} : Vendor!Position[x] < Vendor!Position[step]}

LEMMA UnwoundBy ==
  ASSUME HostType
  PROVE  \A step \in Vendor!MayFail \cap InitSteps : \E s \in SUBSET Vendor!UndoSteps :
           /\ Plan(Vendor!Unwound(step), s, Vendor!NotTooEarly) /\ UndoneBy(step) \subseteq s /\ Complete(s)
           /\ step = "areas" => "areas" \in s
<1> SUFFICES ASSUME NEW step \in Vendor!MayFail, step \in InitSteps
             PROVE  \E s \in SUBSET Vendor!UndoSteps :
                      /\ Plan(Vendor!Unwound(step), s, Vendor!NotTooEarly) /\ UndoneBy(step) \subseteq s
                      /\ Complete(s) /\ (step = "areas" => "areas" \in s)
  OBVIOUS
<1> DEFINE Good(s) == /\ s \in SUBSET Vendor!UndoSteps
                      /\ Plan(Vendor!Unwound(step), s, Vendor!NotTooEarly) /\ UndoneBy(step) \subseteq s
                      /\ Complete(s) /\ (step = "areas" => "areas" \in s)
<1> SUFFICES \E s : Good(s)
  OBVIOUS
<1>t. x1.vmx \in BOOLEAN /\ x1.nested \in BOOLEAN
  BY DEF HostType
<1>c. /\ Plan(Vendor!Common, CommonSteps, Vendor!NotTooEarly) /\ CommonSteps \subseteq Vendor!UndoSteps
      /\ Plan(Vendor!Unsetup, UnsetupSteps, Vendor!NotTooEarly) /\ UnsetupSteps \subseteq Vendor!UndoSteps
      /\ Plan(Vendor!VendorExit, ExitSteps, Vendor!NotTooEarly) /\ ExitSteps \subseteq Vendor!UndoSteps
      /\ CommonSteps \cap {"irq work", "gtod", "set handler"} = {}
      /\ UnsetupSteps \cap {"irq work", "work", "gtod", "set handler"} = {}
  BY CommonPlan, UnsetupPlan, ExitPlan, UndoSets, StepNames
     DEF CommonSteps, UnsetupSteps, Only
<1>s. UndoneBy(step) \subseteq InitSteps \ {"checks", "compat"}
  BY DEF UndoneBy
<1>e. InitSteps \ {"checks", "compat", "emergency", "dev"} \subseteq ExitSteps \cup Only(x1.vmx, {"l1d"})
  BY DEF InitSteps, SetupSteps, ExitSteps, UnsetupSteps, CommonSteps, Only
<1>l. Only(x1.vmx, {"l1d"}) \subseteq {"l1d"} /\ (~x1.vmx => Only(x1.vmx, {"l1d"}) = {})
  BY DEF Only
<1>1. CASE step = "cache"
  <2>1. Vendor!Unwound(step) = <<>>
    BY <1>1 DEF Vendor!Unwound
  <2>2. UndoneBy(step) = {}
    BY <1>1, Positions DEF UndoneBy, InitSteps, SetupSteps, Only
  <2> QED
    BY <1>1, <2>1, <2>2, PlanNone DEF Complete
<1>2. CASE step = "percpu"
  <2>1. Vendor!Unwound(step) = <<"cache">>
    BY <1>2 DEF Vendor!Unwound
  <2>2. UndoneBy(step) \subseteq {"cache"}
    BY <1>2, Positions DEF UndoneBy, InitSteps, SetupSteps, Only
  <2>3. /\ Plan(<<"cache">>, {"cache"}, Vendor!NotTooEarly) /\ {"cache"} \subseteq Vendor!UndoSteps
        /\ Complete({"cache"})
    BY StepNames, PlanOne DEF Complete
  <2> QED
    BY <1>2, <2>1, <2>2, <2>3
<1>3. CASE step = "mmu"
  <2>1. Vendor!Unwound(step) = <<"percpu", "cache">>
    BY <1>3 DEF Vendor!Unwound
  <2>2. UndoneBy(step) \subseteq {"percpu", "cache"}
    BY <1>3, Positions DEF UndoneBy, InitSteps, SetupSteps, Only
  <2>3. <<"percpu", "cache">> \in Vendor!NotTooEarly
    BY StepNames DEF Vendor!NotTooEarly
  <2>4. /\ Plan(<<"percpu", "cache">>, {"percpu", "cache"}, Vendor!NotTooEarly)
        /\ {"percpu", "cache"} \subseteq Vendor!UndoSteps /\ Complete({"percpu", "cache"})
    BY <2>3, StepNames, PlanTwo DEF Complete
  <2> QED
    BY <1>3, <2>1, <2>2, <2>4
<1>4. CASE step \in {"checks", "nested", "iopm"}
  <2>1. Vendor!Unwound(step) = Vendor!Common
    BY <1>4 DEF Vendor!Unwound
  <2>2. UndoneBy(step) \subseteq CommonSteps
    BY <1>4, Positions DEF UndoneBy, InitSteps, SetupSteps, Only, CommonSteps
  <2> QED
    BY <1>4, <1>c, <2>1, <2>2 DEF Complete
<1>5. CASE step = "areas" /\ x1.vmx
  <2> DEFINE n == Only(x1.nested, {"nested"})
             q == Vendor!If(x1.nested, <<"nested">>)
             p1 == <<"areas">> \o q
             s1 == {"areas"} \cup n
             p2 == p1 \o <<"set handler">>
             s2 == s1 \cup {"set handler"}
             p3 == p2 \o Vendor!Common
             s3 == s2 \cup CommonSteps
  <2>0. Vendor!Unwound(step) = p3
    BY <1>5 DEF Vendor!Unwound
  <2>1. Plan(q, n, Vendor!NotTooEarly) /\ n \subseteq {"nested"}
    BY <1>t, StepNames, MaybeStep
  <2>2. /\ Plan(<<"areas">>, {"areas"}, Vendor!NotTooEarly)
        /\ Plan(<<"set handler">>, {"set handler"}, Vendor!NotTooEarly)
        /\ {"areas"} \subseteq Vendor!UndoSteps /\ {"set handler"} \subseteq Vendor!UndoSteps
    BY StepNames, PlanOne
  <2>3. UndoneBy(step) \subseteq s3
    <3>1. UndoneBy(step) \cap {"ops", "gtod", "perf", "emergency", "dev", "areas", "handler",
                               "cpufreq", "l1d", "checks", "compat"} = {}
      BY <1>5, Positions DEF UndoneBy
    <3>2. SetupSteps = {"checks", "areas", "handler"} \cup n
      BY <1>5 DEF SetupSteps, Only
    <3>3. InitSteps \subseteq CommonSteps \cup n
            \cup {"ops", "gtod", "perf", "emergency", "dev", "areas", "handler",
                  "cpufreq", "l1d", "checks", "compat"}
      BY <3>2 DEF InitSteps, Only, CommonSteps
    <3> HIDE DEF n
    <3> QED
      BY <1>s, <3>1, <3>3
  <2>4. Complete(s3) /\ "areas" \in s3
    BY <1>5, <1>c, <2>1 DEF Complete
  <2> HIDE DEF n, q
  <2>5. Plan(p1, s1, Vendor!NotTooEarly) /\ s1 \subseteq Vendor!UndoSteps
    <3>1. n \subseteq Vendor!UndoSteps /\ n \cap {"irq work", "gtod"} = {}
      BY <2>1, StepNames
    <3> QED
      BY <2>1, <2>2, <3>1, JoinUndo
  <2> HIDE DEF p1, s1
  <2>6. Plan(p2, s2, Vendor!NotTooEarly) /\ s2 \subseteq Vendor!UndoSteps
    <3>1. {"set handler"} \cap {"irq work", "gtod"} = {}
      OBVIOUS
    <3> QED
      BY <2>2, <2>5, <3>1, JoinUndo
  <2> HIDE DEF p2, s2
  <2>7. Plan(p3, s3, Vendor!NotTooEarly) /\ s3 \subseteq Vendor!UndoSteps
    <3>1. CommonSteps \cap {"irq work", "gtod"} = {}
      BY <1>c
    <3> QED
      BY <1>c, <2>6, <3>1, JoinUndo
  <2> HIDE DEF p3, s3
  <2> QED
    BY <2>0, <2>3, <2>4, <2>7
<1>6. CASE step = "areas" /\ ~x1.vmx
  <2> DEFINE p == Vendor!Unsetup \o Vendor!Common
             s == UnsetupSteps \cup CommonSteps
  <2>0. Vendor!Unwound(step) = p
    BY <1>6 DEF Vendor!Unwound
  <2>1. Plan(p, s, Vendor!NotTooEarly) /\ s \subseteq Vendor!UndoSteps
    <3>1. CommonSteps \cap {"irq work", "gtod"} = {}
      BY <1>c
    <3> QED
      BY <1>c, <3>1, JoinUndo
  <2>2. UndoneBy(step) \subseteq s
    BY <1>6, Positions DEF UndoneBy, InitSteps, SetupSteps, Only, CommonSteps, UnsetupSteps
  <2>3. Complete(s) /\ "areas" \in s
    BY <1>6, <1>c, UndoSets DEF Complete
  <2> HIDE DEF p, s
  <2> QED
    BY <2>0, <2>1, <2>2, <2>3
<1>7. CASE step = "compat"
  <2> DEFINE p1 == <<"ops">> \o Vendor!Unsetup
             s1 == {"ops"} \cup UnsetupSteps
             p2 == p1 \o Vendor!Common
             s2 == s1 \cup CommonSteps
  <2>0. Vendor!Unwound(step) = p2
    BY <1>7 DEF Vendor!Unwound
  <2>1. Plan(<<"ops">>, {"ops"}, Vendor!NotTooEarly) /\ {"ops"} \subseteq Vendor!UndoSteps
    BY StepNames, PlanOne
  <2>2. UndoneBy(step) \subseteq s2
    BY <1>7, Positions DEF UndoneBy, InitSteps, SetupSteps, Only, CommonSteps, UnsetupSteps
  <2>3. Complete(s2)
    BY <1>c DEF Complete
  <2>4. Plan(p1, s1, Vendor!NotTooEarly) /\ s1 \subseteq Vendor!UndoSteps
    <3>1. UnsetupSteps \cap {"irq work", "gtod"} = {}
      BY <1>c
    <3> QED
      BY <1>c, <2>1, <3>1, JoinUndo
  <2> HIDE DEF p1, s1
  <2>5. Plan(p2, s2, Vendor!NotTooEarly) /\ s2 \subseteq Vendor!UndoSteps
    <3>1. CommonSteps \cap {"irq work", "gtod"} = {}
      BY <1>c
    <3> QED
      BY <1>c, <2>4, <3>1, JoinUndo
  <2> HIDE DEF p2, s2
  <2> QED
    BY <1>7, <2>0, <2>2, <2>3, <2>5
<1>8. CASE step = "l1d"
  <2>0. Vendor!Unwound(step) = Vendor!VendorExit
    BY <1>8 DEF Vendor!Unwound
  <2>1. UndoneBy(step) \subseteq ExitSteps
    <3>1. UndoneBy(step) \cap {"l1d", "emergency", "dev"} = {}
      BY <1>8, Positions DEF UndoneBy
    <3> QED
      BY <1>s, <1>e, <1>l, <1>8, <3>1
  <2>2. "set handler" \notin ExitSteps /\ "irq work" \in ExitSteps /\ "work" \in ExitSteps
    BY <1>c DEF ExitSteps, Only
  <2> QED
    BY <1>8, <1>c, <2>0, <2>1, <2>2 DEF Complete
<1>9. CASE step = "dev" /\ x1.vmx
  <2> DEFINE p == <<"emergency", "l1d">> \o Vendor!VendorExit
             s == {"emergency", "l1d"} \cup ExitSteps
  <2>0. Vendor!Unwound(step) = p
    BY <1>9 DEF Vendor!Unwound
  <2>1. UndoneBy(step) \subseteq s
    <3>1. UndoneBy(step) \cap {"dev"} = {}
      BY <1>9, Positions DEF UndoneBy
    <3> QED
      BY <1>s, <1>e, <1>l, <1>9, <3>1
  <2>2. "set handler" \notin s /\ "irq work" \in s /\ "work" \in s
    BY <1>c DEF ExitSteps, Only
  <2>3. /\ Plan(<<"emergency", "l1d">>, {"emergency", "l1d"}, Vendor!NotTooEarly)
        /\ {"emergency", "l1d"} \subseteq Vendor!UndoSteps
        /\ {"emergency", "l1d"} \cap {"irq work", "work"} = {}
    <3>1. <<"emergency", "l1d">> \in Vendor!NotTooEarly
      BY StepNames DEF Vendor!NotTooEarly
    <3> QED
      BY <3>1, StepNames, PlanTwo
  <2>4. Plan(p, s, Vendor!NotTooEarly) /\ s \subseteq Vendor!UndoSteps
    BY <1>c, <2>3, JoinUndo
  <2> HIDE DEF p, s
  <2> QED
    BY <1>9, <2>0, <2>1, <2>2, <2>4 DEF Complete
<1>10. CASE step = "dev" /\ ~x1.vmx
  <2> DEFINE p == Vendor!VendorExit \o <<"emergency">>
             s == ExitSteps \cup {"emergency"}
  <2>0. Vendor!Unwound(step) = p
    BY <1>10 DEF Vendor!Unwound
  <2>1. UndoneBy(step) \subseteq s
    <3>1. UndoneBy(step) \cap {"dev"} = {}
      BY <1>10, Positions DEF UndoneBy
    <3> QED
      BY <1>s, <1>e, <1>l, <1>10, <3>1
  <2>2. "set handler" \notin s /\ "irq work" \in s /\ "work" \in s
    BY <1>c DEF ExitSteps, Only
  <2>3. /\ Plan(<<"emergency">>, {"emergency"}, Vendor!NotTooEarly)
        /\ {"emergency"} \subseteq Vendor!UndoSteps
        /\ {"emergency"} \cap {"irq work", "gtod"} = {}
    BY StepNames, PlanOne
  <2>4. Plan(p, s, Vendor!NotTooEarly) /\ s \subseteq Vendor!UndoSteps
    BY <1>c, <2>3, JoinUndo
  <2> HIDE DEF p, s
  <2> QED
    BY <1>10, <2>0, <2>1, <2>2, <2>4 DEF Complete
<1> HIDE DEF Good
<1> QED
  BY <1>t, <1>1, <1>2, <1>3, <1>4, <1>5, <1>6, <1>7, <1>8, <1>9, <1>10 DEF Vendor!MayFail

LEMMA NothingDone == Vendor!Steps(<<>>) = {} /\ \A r : Vendor!InOrder(<<>>, r)
BY DEF Vendor!Steps, Vendor!InOrder

LEMMA FinishedIs == Vendor!TypeInv => Vendor!Steps(Vendor!ModuleInit) = InitSteps /\ Vendor!Finished = InitSteps \ Vendor!Steps(x3)
BY InitPlan DEF Vendor!TypeInv, HostType, Plan, Vendor!Finished

LEMMA FinishedNext ==
  Vendor!TypeInv /\ x1' = x1 => Vendor!Finished' = InitSteps \ Vendor!Steps(x3') /\ Vendor!Steps(Vendor!ModuleInit)' = InitSteps
<1> SUFFICES ASSUME Vendor!TypeInv, x1' = x1
             PROVE  Vendor!Finished' = InitSteps \ Vendor!Steps(x3') /\ Vendor!Steps(Vendor!ModuleInit)' = InitSteps
  OBVIOUS
<1>1. Vendor!ModuleInit' = Vendor!ModuleInit
  BY DEF Vendor!ModuleInit, Vendor!VendorInit, Vendor!HardwareSetup
<1>2. Vendor!Steps(Vendor!ModuleInit)' = Vendor!Steps(Vendor!ModuleInit)
  BY <1>1 DEF Vendor!Steps
<1> QED
  BY <1>2, FinishedIs DEF Vendor!Finished

LEMMA InitNames ==
  /\ InitSteps \subseteq Vendor!AllSteps
  /\ \A x \in InitSteps : x \notin {"irq work", "work", "set handler", "flush", "l1d pages"}
<1>1. InitSteps \subseteq {"cache", "percpu", "mmu", "checks", "nested", "iopm", "sev", "areas",
                           "handler", "ops", "compat", "cpufreq", "gtod", "perf", "l1d",
                           "emergency", "dev"}
  BY DEF InitSteps, SetupSteps, Only
<1> QED
  BY <1>1, Positions

LEMMA VendorStart == Vendor!Init => Vendor!VendorInv
<1> SUFFICES ASSUME Vendor!Init PROVE Vendor!VendorInv
  OBVIOUS
<1> USE DEF Vendor!Init
<1>1. Vendor!TypeInv
  <2>1. x3 \in Seq(Vendor!UndoSteps)
    BY PlanNone DEF Plan
  <2> QED
    BY <2>1 DEF Vendor!TypeInv
<1>2. Vendor!VmInv
  BY DEF Vendor!VmInv
<1>3. Vendor!LoadInv
  BY DEF Vendor!LoadInv
<1>4. Vendor!LeaveInv
  BY NothingDone DEF Vendor!LeaveInv, Vendor!Remains
<1> QED
  BY <1>1, <1>2, <1>3, <1>4 DEF Vendor!VendorInv

LEMMA VendorLoad == Vendor!VendorInv /\ Vendor!Load => Vendor!VendorInv'
<1> SUFFICES ASSUME Vendor!VendorInv, Vendor!Load PROVE Vendor!VendorInv'
  OBVIOUS
<1> USE DEF Vendor!VendorInv, Vendor!Load, Vendor!loadVars, Vendor!vmVars, Vendor!clockVars
<1>0. HostType /\ x3 = <<>>
  BY DEF Vendor!TypeInv, HostType
<1>1. x3' = Vendor!ModuleInit /\ Vendor!ModuleInit \in Seq(Vendor!UndoSteps) /\ Vendor!Steps(x3') = InitSteps
      /\ Vendor!InOrder(x3', Vendor!Earlier)
  BY <1>0, InitPlan DEF Plan
<1>2. x3' # <<>>
  BY <1>1, NothingDone DEF InitSteps
<1>3. Vendor!TypeInv'
  BY <1>1, <1>2 DEF Vendor!TypeInv
<1>4. Vendor!VmInv'
  BY DEF Vendor!VmInv, Vendor!TypeInv
<1>5. x4 \subseteq Vendor!Remains /\ x5 = {} /\ x14 = "idle" /\ x15 = "idle"
  BY <1>0, NothingDone DEF Vendor!LeaveInv
<1>6. Vendor!Finished' = {} /\ Vendor!Steps(Vendor!ModuleInit)' = InitSteps
  BY <1>1, FinishedNext
<1>7. x4' \subseteq (IF x7' THEN {"handler"} ELSE {})
  BY <1>5 DEF Vendor!Remains, Vendor!FlushHeld
<1>8. Vendor!LoadInv'
  BY <1>1, <1>5, <1>6, <1>7 DEF Vendor!LoadInv
<1>9. Vendor!LeaveInv'
  BY DEF Vendor!LeaveInv
<1> QED
  BY <1>3, <1>4, <1>8, <1>9

LEMMA EarlierFacts ==
  /\ \A x, y : <<x, y>> \in Vendor!Earlier =>
       /\ x \in Vendor!AllSteps /\ y \in Vendor!AllSteps /\ Vendor!Position[x] < Vendor!Position[y]
       /\ x # y /\ <<y, x>> \notin Vendor!Earlier
  /\ <<"checks", "percpu">> \notin Vendor!Earlier
<1>1. \A x \in Vendor!AllSteps : Vendor!Position[x] \in Nat
  BY Positions
<1> QED
  BY <1>1, Positions DEF Vendor!Earlier

LEMMA VendorDone == Vendor!VendorInv /\ Vendor!Done => Vendor!VendorInv'
<1> SUFFICES ASSUME Vendor!VendorInv, Vendor!Done PROVE Vendor!VendorInv'
  OBVIOUS
<1> USE DEF Vendor!VendorInv, Vendor!loadVars, Vendor!vmVars, Vendor!clockVars
<1> DEFINE step == Head(x3)
<1>0. /\ x2 = "loading" /\ x1' = x1 /\ HostType /\ x3 # <<>> /\ x3 \in Seq(Vendor!UndoSteps)
      /\ x10 = FALSE /\ x10' = x10 /\ x11' = x11 /\ x12' = x12 /\ x8' = x8
      /\ x7' = x7 /\ x9' = x9 /\ x14' = x14 /\ x15' = x15
  BY DEF Vendor!Done, Vendor!TypeInv, HostType, Vendor!VmInv
<1>1. /\ Tail(x3) \in Seq(Vendor!UndoSteps) /\ step \in Vendor!UndoSteps
      /\ Vendor!Steps(x3) = {step} \cup Vendor!Steps(Tail(x3))
      /\ \A r : Vendor!InOrder(x3, r) => Vendor!InOrder(Tail(x3), r) /\ {step} \X Vendor!Steps(Tail(x3)) \subseteq r
  BY <1>0, TailSteps
<1>2. /\ Vendor!Steps(x3) \subseteq InitSteps /\ Vendor!Finished = InitSteps \ Vendor!Steps(x3)
      /\ Vendor!Finished' = InitSteps \ Vendor!Steps(x3') /\ Vendor!Steps(Vendor!ModuleInit)' = InitSteps
  BY <1>0, FinishedIs, FinishedNext DEF Vendor!LoadInv
<1>3. Vendor!VmInv'
  BY <1>0 DEF Vendor!VmInv
<1>4. CASE step = "areas" /\ x5 # Cpus
  <2>1. PICK c \in Cpus \ x5 : x5' = x5 \cup {c}
    BY <1>4 DEF Vendor!Done
  <2>2. x2' = x2 /\ x3' = x3 /\ x4' = x4 /\ x6' = x6
    BY <1>4 DEF Vendor!Done
  <2>3. Vendor!TypeInv'
    BY <1>0, <2>1, <2>2 DEF Vendor!TypeInv
  <2>4. "areas" \notin Vendor!Finished' /\ Vendor!Finished' = Vendor!Finished
    BY <1>1, <1>2, <1>4, <2>2
  <2>5. Vendor!LoadInv'
    BY <1>0, <1>2, <1>4, <2>2, <2>4 DEF Vendor!LoadInv
  <2>6. Vendor!LeaveInv'
    BY <1>0, <2>2 DEF Vendor!LeaveInv
  <2> QED
    BY <1>3, <2>3, <2>5, <2>6
<1>5. CASE ~(step = "areas" /\ x5 # Cpus)
  <2>1. PICK new \in Vendor!Gains(step) : x4' = x4 \cup new
    BY <1>5 DEF Vendor!Done
  <2>2. /\ x6' = CASE step = "percpu" -> 0
                       [] step = "checks" -> x6 + 1
                       [] OTHER -> x6
        /\ x3' = Tail(x3) /\ x2' = (IF x3' = <<>> THEN "open" ELSE "loading")
        /\ x5' = x5 /\ (step = "areas" => x5 = Cpus)
    BY <1>5 DEF Vendor!Done
  <2> HIDE DEF step
  <2>3. step \in InitSteps /\ step \in Vendor!AllSteps
    BY <1>1, <1>2, InitNames
  <2>4. /\ step \in {"checks", "compat"} => new = {}
        /\ step = "l1d" => "flush" \in new /\ new \subseteq Vendor!FlushHeld
        /\ step \notin {"checks", "compat", "l1d"} => new = {step}
    BY <2>1 DEF Vendor!Gains, Vendor!FlushHeld
  <2>5. Vendor!TypeInv'
    <3>1. x4' \subseteq (Vendor!AllSteps \ {"checks", "compat", "l1d"}) \cup Vendor!FlushHeld
      BY <2>1, <2>3, <2>4 DEF Vendor!TypeInv
    <3> QED
      BY <1>0, <1>1, <2>2, <3>1 DEF Vendor!TypeInv
  <2>6. /\ Vendor!InOrder(x3, Vendor!Earlier) /\ Vendor!Finished \X Vendor!Steps(x3) \subseteq Vendor!Earlier
        /\ {step} \X Vendor!Steps(x3') \subseteq Vendor!Earlier /\ Vendor!InOrder(x3', Vendor!Earlier)
    BY <1>0, <1>1, <2>2 DEF Vendor!LoadInv
  <2>7. step \notin Vendor!Steps(x3') /\ step \notin Vendor!Finished /\ Vendor!Finished' = Vendor!Finished \cup {step}
    BY <1>1, <1>2, <2>2, <2>3, <2>6, EarlierFacts
  <2>8. Vendor!Finished' \X Vendor!Steps(x3') \subseteq Vendor!Earlier
    BY <1>1, <2>2, <2>6, <2>7
  <2>9. "percpu" \in Vendor!Finished' => x6' = IF "checks" \in Vendor!Finished' THEN 1 ELSE 0
    <3>0. "percpu" \in Vendor!Finished => x6 = IF "checks" \in Vendor!Finished THEN 1 ELSE 0
      BY <1>0 DEF Vendor!LoadInv
    <3>1. CASE step = "percpu"
      <4>1. "checks" \notin Vendor!Finished'
        BY <1>1, <2>6, <2>7, <3>1, EarlierFacts
      <4> QED
        BY <2>2, <3>1, <4>1
    <3>2. CASE step = "checks"
      <4>1. "percpu" \in Vendor!Finished
        BY <1>1, <1>2, <2>2, <2>6, <3>2, EarlierFacts DEF InitSteps
      <4> QED
        BY <2>2, <2>7, <3>0, <3>2, <4>1
    <3>3. CASE step \notin {"percpu", "checks"}
      <4>1. x6' = x6
        BY <2>2, <3>3
      <4> QED
        BY <2>7, <3>0, <3>3, <4>1
    <3> QED
      BY <3>1, <3>2, <3>3
  <2>10. /\ Vendor!Finished' \ {"checks", "compat", "l1d"} \subseteq x4'
         /\ "l1d" \in Vendor!Finished' => "flush" \in x4'
         /\ x4' \subseteq (Vendor!Finished' \ {"checks", "compat", "l1d"})
                      \cup (IF x7' THEN {"handler"} ELSE {})
                      \cup (IF "l1d" \in Vendor!Finished' THEN Vendor!FlushHeld ELSE {})
    <3>1. /\ Vendor!Finished \ {"checks", "compat", "l1d"} \subseteq x4
          /\ "l1d" \in Vendor!Finished => "flush" \in x4
          /\ x4 \subseteq (Vendor!Finished \ {"checks", "compat", "l1d"})
                      \cup (IF x7 THEN {"handler"} ELSE {})
                      \cup (IF "l1d" \in Vendor!Finished THEN Vendor!FlushHeld ELSE {})
      BY <1>0 DEF Vendor!LoadInv
    <3> QED
      BY <1>0, <2>1, <2>4, <2>7, <3>1
  <2>11. Vendor!LoadInv'
    <3>1. /\ x8 => "flush" \in x4
          /\ ~x9
          /\ "areas" \in Vendor!Finished => x5 = Cpus
          /\ x5 # {} => "areas" \in Vendor!Finished \/ step = "areas"
          /\ x14 # "idle" \/ x15 # "idle" => "gtod" \in x4
      BY <1>0 DEF Vendor!LoadInv, step
    <3>2. Vendor!Steps(x3') \subseteq InitSteps
      BY <1>1, <1>2, <2>2
    <3> QED
      BY <1>0, <1>2, <2>1, <2>2, <2>6, <2>7, <2>8, <2>9, <2>10, <3>1, <3>2 DEF Vendor!LoadInv
  <2>12. Vendor!LeaveInv'
    BY <2>2 DEF Vendor!LeaveInv
  <2> QED
    BY <1>3, <2>5, <2>11, <2>12
<1> QED
  BY <1>4, <1>5

LEMMA VendorFailed == Vendor!VendorInv /\ Vendor!Failed => Vendor!VendorInv'
<1> SUFFICES ASSUME Vendor!VendorInv, Vendor!Failed PROVE Vendor!VendorInv'
  OBVIOUS
<1> USE DEF Vendor!VendorInv, Vendor!loadVars, Vendor!vmVars, Vendor!clockVars
<1> DEFINE step == Head(x3)
<1>0. /\ x2 = "loading" /\ x1' = x1 /\ HostType /\ x3 # <<>> /\ x3 \in Seq(Vendor!UndoSteps)
      /\ x10 = FALSE /\ x10' = x10 /\ x11' = x11 /\ x12' = x12 /\ x8' = x8
      /\ x7' = x7 /\ x9' = x9 /\ x14' = x14 /\ x15' = x15
      /\ x4' = x4 /\ x5' = x5 /\ x6' = x6
      /\ step \in Vendor!MayFail /\ x3' = Vendor!Unwound(step)
      /\ x2' = (IF x3' = <<>> THEN "out" ELSE "leaving")
  BY DEF Vendor!Failed, Vendor!TypeInv, HostType, Vendor!VmInv
<1>1. Vendor!Steps(x3) = {step} \cup Vendor!Steps(Tail(x3))
  BY <1>0, TailSteps
<1> HIDE DEF step
<1>2. Vendor!Steps(x3) \subseteq InitSteps /\ Vendor!Finished = InitSteps \ Vendor!Steps(x3) /\ step \in InitSteps
  BY <1>0, <1>1, FinishedIs DEF Vendor!LoadInv
<1>3. PICK s \in SUBSET Vendor!UndoSteps :
        /\ Plan(x3', s, Vendor!NotTooEarly) /\ UndoneBy(step) \subseteq s /\ Complete(s)
        /\ step = "areas" => "areas" \in s
  BY <1>0, <1>2, UnwoundBy
<1>4. Vendor!Finished \ {"checks", "compat"} \subseteq s
  <2>1. Vendor!Finished \X {step} \subseteq Vendor!Earlier
    BY <1>0, <1>1 DEF Vendor!LoadInv
  <2>2. \A x \in Vendor!Finished : Vendor!Position[x] < Vendor!Position[step]
    BY <2>1, EarlierFacts
  <2> QED
    BY <1>2, <1>3, <2>2 DEF UndoneBy
<1>5. Vendor!Steps(x3') = s /\ Vendor!InOrder(x3', Vendor!NotTooEarly) /\ x3' \in Seq(Vendor!UndoSteps)
  BY <1>3 DEF Plan
<1>6. Vendor!TypeInv'
  BY <1>0, <1>5 DEF Vendor!TypeInv
<1>7. Vendor!VmInv'
  BY <1>0 DEF Vendor!VmInv
<1>8. Vendor!LoadInv'
  BY <1>0 DEF Vendor!LoadInv
<1>9. Vendor!LeaveInv'
  <2>1. /\ x4 \subseteq (Vendor!Finished \ {"checks", "compat", "l1d"})
                      \cup (IF x7 THEN {"handler"} ELSE {})
                      \cup (IF "l1d" \in Vendor!Finished THEN Vendor!FlushHeld ELSE {})
        /\ x5 # {} => "areas" \in Vendor!Finished \/ step = "areas"
        /\ x14 # "idle" \/ x15 # "idle" => "gtod" \in x4
    BY <1>0 DEF Vendor!LoadInv, step
  <2>2. x4' \subseteq s \cup Vendor!Remains' \cup (IF "l1d" \in s THEN Vendor!FlushHeld ELSE {})
    BY <1>0, <1>4, <2>1 DEF Vendor!Remains
  <2>3. "gtod" \in x4 => "gtod" \in s
    BY <1>4, <2>1 DEF Vendor!FlushHeld
  <2>4. x5 # {} => "areas" \in s
    BY <1>3, <1>4, <2>1
  <2> QED
    BY <1>0, <1>3, <1>5, <2>1, <2>2, <2>3, <2>4 DEF Vendor!LeaveInv, Complete
<1> QED
  BY <1>6, <1>7, <1>8, <1>9

LEMMA VendorUnload == Vendor!VendorInv /\ Vendor!Unload => Vendor!VendorInv'
<1> SUFFICES ASSUME Vendor!VendorInv, Vendor!Unload PROVE Vendor!VendorInv'
  OBVIOUS
<1> USE DEF Vendor!VendorInv, Vendor!loadVars, Vendor!vmVars, Vendor!clockVars
<1>0. /\ x2 = "open" /\ x1' = x1 /\ HostType /\ x3 = <<>> /\ x2' = "leaving"
      /\ x10 = FALSE /\ x10' = x10 /\ x11' = x11 /\ x12' = x12 /\ x8' = x8
      /\ x7' = x7 /\ x9' = x9 /\ x14' = x14 /\ x15' = x15
      /\ x4' = x4 /\ x5' = x5 /\ x6' = x6 /\ x3' = Vendor!ModuleExit
  BY DEF Vendor!Unload, Vendor!TypeInv, HostType
<1>1. /\ Vendor!ModuleExit \in Seq(Vendor!UndoSteps) /\ Vendor!InOrder(Vendor!ModuleExit, Vendor!NotTooEarly) /\ Vendor!ModuleExit # <<>>
      /\ InitSteps \ {"checks", "compat"} \subseteq Vendor!Steps(Vendor!ModuleExit)
      /\ Complete(Vendor!Steps(Vendor!ModuleExit))
  BY <1>0, LeavePlan
<1>2. Vendor!Finished = InitSteps
  BY <1>0, FinishedIs, NothingDone
<1>3. Vendor!TypeInv'
  BY <1>0, <1>1 DEF Vendor!TypeInv
<1>4. Vendor!VmInv'
  BY <1>0 DEF Vendor!VmInv
<1>5. Vendor!LoadInv'
  BY <1>0 DEF Vendor!LoadInv
<1>6. Vendor!LeaveInv'
  <2> DEFINE s == Vendor!Steps(Vendor!ModuleExit)
  <2>0. Vendor!Steps(x3') = s /\ Vendor!InOrder(x3', Vendor!NotTooEarly)
    BY <1>0, <1>1
  <2>1. /\ x4 \subseteq (InitSteps \ {"checks", "compat", "l1d"})
                      \cup (IF x7 THEN {"handler"} ELSE {})
                      \cup (IF "l1d" \in InitSteps THEN Vendor!FlushHeld ELSE {})
        /\ x14 # "idle" \/ x15 # "idle" => "gtod" \in x4
    BY <1>0, <1>2 DEF Vendor!LoadInv
  <2>2. x4' \subseteq s \cup Vendor!Remains' \cup (IF "l1d" \in s THEN Vendor!FlushHeld ELSE {})
    BY <1>0, <1>1, <2>1 DEF Vendor!Remains
  <2>3. "gtod" \in s /\ "areas" \in s
    BY <1>1 DEF InitSteps, SetupSteps
  <2> HIDE DEF s
  <2>4. Complete(s)
    BY <1>1 DEF s
  <2> QED
    BY <1>0, <2>0, <2>2, <2>3, <2>4 DEF Vendor!LeaveInv, Complete
<1> QED
  BY <1>3, <1>4, <1>5, <1>6

LEMMA VendorUndone == Vendor!VendorInv /\ Vendor!Undone => Vendor!VendorInv'
<1> SUFFICES ASSUME Vendor!VendorInv, Vendor!Undone PROVE Vendor!VendorInv'
  OBVIOUS
<1> USE DEF Vendor!VendorInv, Vendor!loadVars, Vendor!vmVars, Vendor!clockVars
<1> DEFINE step == Head(x3)
<1>0. /\ x2 = "leaving" /\ x1' = x1 /\ HostType /\ x3 # <<>> /\ x3 \in Seq(Vendor!UndoSteps)
      /\ x10 = FALSE /\ x10' = x10 /\ x11' = x11 /\ x12' = x12 /\ x8' = x8
      /\ x9' = x9 /\ x14' = x14 /\ x6' = x6 /\ x3' = Tail(x3)
      /\ (step = "irq work" => x14 = "idle")
      /\ x7' = (step = "set handler" \/ (x7 /\ step # "handler"))
      /\ x5' = (IF step = "areas" THEN {} ELSE x5)
      /\ x15' = (IF step = "work" THEN "idle" ELSE x15)
      /\ x2' = (IF x3' = <<>> THEN "out" ELSE "leaving")
  BY DEF Vendor!Undone, Vendor!TypeInv, HostType, Vendor!VmInv
<1>1. /\ x3' \in Seq(Vendor!UndoSteps) /\ step \in Vendor!UndoSteps
      /\ Vendor!Steps(x3) = {step} \cup Vendor!Steps(x3')
      /\ \A r : Vendor!InOrder(x3, r) => Vendor!InOrder(x3', r) /\ {step} \X Vendor!Steps(x3') \subseteq r
  BY <1>0, TailSteps
<1>2. /\ step = "set handler" => x4' = x4 \cup {"handler"}
      /\ step = "l1d" => x4' = x4 \ Vendor!FlushHeld
      /\ step \notin {"set handler", "l1d"} => x4' = x4 \ {step}
  BY DEF Vendor!Undone, Vendor!FlushHeld
<1> HIDE DEF step
<1>3. {step} \X Vendor!Steps(x3') \subseteq Vendor!NotTooEarly /\ Vendor!InOrder(x3', Vendor!NotTooEarly)
  BY <1>0, <1>1 DEF Vendor!LeaveInv
<1>4. /\ x4 \subseteq Vendor!Steps(x3) \cup Vendor!Remains \cup (IF "l1d" \in Vendor!Steps(x3) THEN Vendor!FlushHeld ELSE {})
      /\ x5 # {} => "areas" \in Vendor!Steps(x3)
      /\ "set handler" \in Vendor!Steps(x3) => x1.vmx
      /\ "gtod" \in Vendor!Steps(x3) => "irq work" \in Vendor!Steps(x3)
      /\ "gtod" \in Vendor!Steps(x3) \/ x14 # "idle" \/ x15 # "idle" => "work" \in Vendor!Steps(x3)
      /\ x14 # "idle" => "irq work" \in Vendor!Steps(x3)
  BY <1>0 DEF Vendor!LeaveInv
<1>5. x4 \subseteq (Vendor!AllSteps \ {"checks", "compat", "l1d"}) \cup Vendor!FlushHeld
      /\ "set handler" \notin x4 /\ "l1d" \notin x4
  BY Positions DEF Vendor!TypeInv, Vendor!FlushHeld
<1>6. Vendor!TypeInv'
  <2>1. x4' \subseteq (Vendor!AllSteps \ {"checks", "compat", "l1d"}) \cup Vendor!FlushHeld
    BY <1>2, <1>5, Positions
  <2> QED
    BY <1>0, <1>1, <2>1 DEF Vendor!TypeInv
<1>7. Vendor!VmInv'
  BY <1>0, <1>1, <1>4 DEF Vendor!VmInv
<1>8. Vendor!LoadInv'
  BY <1>0 DEF Vendor!LoadInv
<1>9. x4' \subseteq Vendor!Steps(x3') \cup Vendor!Remains'
                 \cup (IF "l1d" \in Vendor!Steps(x3') THEN Vendor!FlushHeld ELSE {})
  <2>1. CASE step = "set handler"
    BY <1>0, <1>1, <1>2, <1>4, <1>5, <2>1 DEF Vendor!Remains
  <2>2. CASE step = "l1d"
    BY <1>0, <1>1, <1>2, <1>4, <1>5, <2>2 DEF Vendor!Remains, Vendor!FlushHeld
  <2>3. CASE step \notin {"set handler", "l1d"}
    BY <1>0, <1>1, <1>2, <1>4, <2>3 DEF Vendor!Remains, Vendor!FlushHeld
  <2> QED
    BY <2>1, <2>2, <2>3
<1>10. /\ step = "irq work" => "gtod" \notin Vendor!Steps(x3')
       /\ step = "work" => "irq work" \notin Vendor!Steps(x3') /\ "gtod" \notin Vendor!Steps(x3')
  <2>1. \A y \in Vendor!Steps(x3') : <<step, y>> \in Vendor!NotTooEarly
    BY <1>3
  <2>2. ~(<<"irq work", "gtod">> \in Vendor!NotTooEarly) /\ ~(<<"work", "gtod">> \in Vendor!NotTooEarly)
        /\ ~(<<"work", "irq work">> \in Vendor!NotTooEarly)
    BY DEF Vendor!NotTooEarly
  <2> QED
    BY <2>1, <2>2
<1>11. Vendor!LeaveInv'
  BY <1>0, <1>1, <1>3, <1>4, <1>9, <1>10 DEF Vendor!LeaveInv
<1> QED
  BY <1>6, <1>7, <1>8, <1>11

LEMMA VendorBeside ==
  /\ Vendor!VendorInv
  /\ \/ Vendor!CheckFlush \/ Vendor!SetFlush \/ Vendor!CreateVm \/ Vendor!HardwareEnable \/ Vendor!DestroyVm
     \/ Vendor!UseMasterClock \/ Vendor!GtodNotify \/ Vendor!IrqWork \/ Vendor!GtodWork \/ UNCHANGED Vendor!vars
  => Vendor!VendorInv'
<1> SUFFICES ASSUME Vendor!VendorInv, x1' = x1, x3' = x3, x2' = x2, x5' = x5,
                    x6' = x6, x7' = x7,
                    \/ Vendor!CheckFlush \/ Vendor!SetFlush \/ Vendor!CreateVm \/ Vendor!HardwareEnable \/ Vendor!DestroyVm
                    \/ Vendor!UseMasterClock \/ Vendor!GtodNotify \/ Vendor!IrqWork \/ Vendor!GtodWork \/ UNCHANGED Vendor!vars
             PROVE  Vendor!VendorInv'
  BY DEF Vendor!CheckFlush, Vendor!SetFlush, Vendor!CreateVm, Vendor!HardwareEnable,
      Vendor!DestroyVm, Vendor!UseMasterClock, Vendor!GtodNotify,
         Vendor!IrqWork, Vendor!GtodWork, Vendor!vars, Vendor!loadVars
<1> USE DEF Vendor!VendorInv, Vendor!loadVars, Vendor!vmVars, Vendor!clockVars
<1>1. /\ Vendor!Steps(x3) \subseteq Vendor!Steps(Vendor!ModuleInit) => Vendor!Steps(x3) \subseteq InitSteps
      /\ Vendor!Finished = InitSteps \ Vendor!Steps(x3)
      /\ Vendor!Finished' = InitSteps \ Vendor!Steps(x3') /\ Vendor!Steps(Vendor!ModuleInit)' = InitSteps
      /\ Vendor!Steps(Vendor!ModuleInit) = InitSteps
  BY FinishedIs, FinishedNext
<1>2. /\ "flush" \notin InitSteps /\ InitSteps \subseteq Vendor!AllSteps
      /\ "flush" \notin Vendor!AllSteps /\ "l1d pages" \notin Vendor!AllSteps /\ "gtod" \in Vendor!AllSteps
  BY InitNames, Positions
<1>3. Vendor!UndoSteps \cap Vendor!FlushHeld = {} /\ Vendor!Steps(x3) \subseteq Vendor!UndoSteps
  <2>1. Vendor!UndoSteps \cap Vendor!FlushHeld = {}
    BY Positions DEF Vendor!UndoSteps, Vendor!FlushHeld
  <2>2. x3 \in Seq(Vendor!UndoSteps)
    BY DEF Vendor!TypeInv
  <2> QED
    BY <2>1, <2>2 DEF Vendor!Steps
<1>r. x9' = x9 => Vendor!Remains' = Vendor!Remains
  BY DEF Vendor!Remains
<1> HIDE DEF Vendor!VendorInv
<1>4. ASSUME Vendor!CheckFlush PROVE Vendor!VendorInv'
  <2>1. Vendor!TypeInv'
    BY <1>4 DEF Vendor!VendorInv, Vendor!CheckFlush, Vendor!TypeInv
  <2>2. Vendor!VmInv'
    BY <1>4 DEF Vendor!VendorInv, Vendor!CheckFlush, Vendor!TypeInv, Vendor!VmInv
  <2>3. Vendor!LoadInv'
    BY <1>1, <1>4 DEF Vendor!VendorInv, Vendor!CheckFlush, Vendor!VmInv, Vendor!LoadInv
  <2>4. Vendor!LeaveInv'
    BY <1>r, <1>4 DEF Vendor!VendorInv, Vendor!CheckFlush, Vendor!TypeInv, Vendor!VmInv,
        Vendor!LeaveInv
  <2> QED
    BY <2>1, <2>2, <2>3, <2>4 DEF Vendor!VendorInv
<1>5. ASSUME Vendor!SetFlush PROVE Vendor!VendorInv'
  <2>1. PICK pages \in SUBSET {"l1d pages"} : x4' = x4 \cup {"flush"} \cup pages
    BY <1>5 DEF Vendor!SetFlush
  <2>2. /\ x8 /\ x8' = FALSE /\ x9' = (x9 \/ "flush" \notin x4)
        /\ x10' = x10 /\ x11' = x11 /\ x12' = x12
        /\ x13' = x13 /\ x14' = x14 /\ x15' = x15
    BY <1>5 DEF Vendor!SetFlush
  <2>3. Vendor!TypeInv'
    BY <2>1, <2>2 DEF Vendor!VendorInv, Vendor!TypeInv, Vendor!FlushHeld
  <2>4. Vendor!VmInv'
    BY <2>2 DEF Vendor!VendorInv, Vendor!VmInv
  <2>5. Vendor!LoadInv'
    <3> SUFFICES ASSUME x2 \in {"loading", "open"} PROVE Vendor!LoadInv'
      BY DEF Vendor!LoadInv
    <3>1. "flush" \in x4 /\ ~x9
      BY <2>2 DEF Vendor!VendorInv, Vendor!LoadInv
    <3>2. "l1d" \in Vendor!Finished
      BY <1>1, <1>2, <3>1 DEF Vendor!VendorInv, Vendor!LoadInv, Vendor!FlushHeld
    <3> QED
      BY <1>1, <2>1, <2>2, <3>1, <3>2 DEF Vendor!VendorInv, Vendor!LoadInv, Vendor!FlushHeld
  <2>6. Vendor!LeaveInv'
    <3> SUFFICES ASSUME x2 \in {"out", "leaving"} PROVE Vendor!LeaveInv'
      BY DEF Vendor!LeaveInv
    <3>1. x4' \subseteq Vendor!Steps(x3) \cup Vendor!Remains'
                          \cup (IF "l1d" \in Vendor!Steps(x3) THEN Vendor!FlushHeld ELSE {})
      BY <1>3, <2>1, <2>2 DEF Vendor!VendorInv, Vendor!LeaveInv, Vendor!Remains, Vendor!FlushHeld
    <3> QED
      BY <2>2, <3>1 DEF Vendor!VendorInv, Vendor!LeaveInv
  <2> QED
    BY <2>3, <2>4, <2>5, <2>6 DEF Vendor!VendorInv
<1>6. ASSUME Vendor!CreateVm PROVE Vendor!VendorInv'
  <2>1. Vendor!TypeInv'
    BY <1>6 DEF Vendor!VendorInv, Vendor!CreateVm, Vendor!TypeInv
  <2>2. Vendor!VmInv'
    BY <1>6 DEF Vendor!VendorInv, Vendor!CreateVm, Vendor!TypeInv, Vendor!VmInv
  <2>3. Vendor!LoadInv'
    BY <1>1, <1>6 DEF Vendor!VendorInv, Vendor!CreateVm, Vendor!VmInv, Vendor!LoadInv
  <2>4. Vendor!LeaveInv'
    BY <1>r, <1>6 DEF Vendor!VendorInv, Vendor!CreateVm, Vendor!TypeInv, Vendor!VmInv,
        Vendor!LeaveInv
  <2> QED
    BY <2>1, <2>2, <2>3, <2>4 DEF Vendor!VendorInv
<1>7. ASSUME Vendor!HardwareEnable PROVE Vendor!VendorInv'
  <2>1. Vendor!TypeInv'
    BY <1>7 DEF Vendor!VendorInv, Vendor!HardwareEnable, Vendor!TypeInv
  <2>2. Vendor!VmInv'
    BY <1>7 DEF Vendor!VendorInv, Vendor!HardwareEnable, Vendor!TypeInv, Vendor!VmInv
  <2>3. Vendor!LoadInv'
    BY <1>1, <1>7 DEF Vendor!VendorInv, Vendor!HardwareEnable, Vendor!VmInv, Vendor!LoadInv
  <2>4. Vendor!LeaveInv'
    BY <1>r, <1>7 DEF Vendor!VendorInv, Vendor!HardwareEnable, Vendor!TypeInv, Vendor!VmInv,
        Vendor!LeaveInv
  <2> QED
    BY <2>1, <2>2, <2>3, <2>4 DEF Vendor!VendorInv
<1>8. ASSUME Vendor!DestroyVm PROVE Vendor!VendorInv'
  <2>1. Vendor!TypeInv'
    BY <1>8 DEF Vendor!VendorInv, Vendor!DestroyVm, Vendor!TypeInv
  <2>2. Vendor!VmInv'
    BY <1>8 DEF Vendor!VendorInv, Vendor!DestroyVm, Vendor!TypeInv, Vendor!VmInv
  <2>3. Vendor!LoadInv'
    BY <1>1, <1>8 DEF Vendor!VendorInv, Vendor!DestroyVm, Vendor!VmInv, Vendor!LoadInv
  <2>4. Vendor!LeaveInv'
    BY <1>r, <1>8 DEF Vendor!VendorInv, Vendor!DestroyVm, Vendor!TypeInv, Vendor!VmInv,
        Vendor!LeaveInv
  <2> QED
    BY <2>1, <2>2, <2>3, <2>4 DEF Vendor!VendorInv
<1>9. ASSUME Vendor!UseMasterClock PROVE Vendor!VendorInv'
  <2>1. Vendor!TypeInv'
    BY <1>9 DEF Vendor!VendorInv, Vendor!UseMasterClock, Vendor!TypeInv
  <2>2. Vendor!VmInv'
    BY <1>9 DEF Vendor!VendorInv, Vendor!UseMasterClock, Vendor!TypeInv, Vendor!VmInv
  <2>3. Vendor!LoadInv'
    BY <1>1, <1>9 DEF Vendor!VendorInv, Vendor!UseMasterClock, Vendor!VmInv, Vendor!LoadInv
  <2>4. Vendor!LeaveInv'
    BY <1>r, <1>9 DEF Vendor!VendorInv, Vendor!UseMasterClock, Vendor!TypeInv, Vendor!VmInv,
        Vendor!LeaveInv
  <2> QED
    BY <2>1, <2>2, <2>3, <2>4 DEF Vendor!VendorInv
<1>10. ASSUME Vendor!GtodNotify PROVE Vendor!VendorInv'
  <2>0. x2 \in {"out", "leaving"} => "gtod" \in Vendor!Steps(x3)
    BY <1>2, <1>10 DEF Vendor!VendorInv, Vendor!GtodNotify, Vendor!LeaveInv, Vendor!Remains,
        Vendor!FlushHeld
  <2>1. Vendor!TypeInv'
    BY <1>10 DEF Vendor!VendorInv, Vendor!GtodNotify, Vendor!TypeInv
  <2>2. Vendor!VmInv'
    BY <1>10 DEF Vendor!VendorInv, Vendor!GtodNotify, Vendor!TypeInv, Vendor!VmInv
  <2>3. Vendor!LoadInv'
    BY <1>1, <1>10 DEF Vendor!VendorInv, Vendor!GtodNotify, Vendor!VmInv, Vendor!LoadInv
  <2>4. Vendor!LeaveInv'
    BY <1>r, <1>10, <2>0 DEF Vendor!VendorInv, Vendor!GtodNotify, Vendor!TypeInv, Vendor!VmInv,
        Vendor!LeaveInv
  <2> QED
    BY <2>1, <2>2, <2>3, <2>4 DEF Vendor!VendorInv
<1>11. ASSUME Vendor!IrqWork PROVE Vendor!VendorInv'
  <2>1. Vendor!TypeInv'
    BY <1>11 DEF Vendor!VendorInv, Vendor!IrqWork, Vendor!TypeInv
  <2>2. Vendor!VmInv'
    BY <1>11 DEF Vendor!VendorInv, Vendor!IrqWork, Vendor!TypeInv, Vendor!VmInv
  <2>3. Vendor!LoadInv'
    BY <1>1, <1>11 DEF Vendor!VendorInv, Vendor!IrqWork, Vendor!VmInv, Vendor!LoadInv
  <2>4. Vendor!LeaveInv'
    BY <1>r, <1>11 DEF Vendor!VendorInv, Vendor!IrqWork, Vendor!TypeInv, Vendor!VmInv,
        Vendor!LeaveInv
  <2> QED
    BY <2>1, <2>2, <2>3, <2>4 DEF Vendor!VendorInv
<1>12. ASSUME Vendor!GtodWork PROVE Vendor!VendorInv'
  <2>1. Vendor!TypeInv'
    BY <1>12 DEF Vendor!VendorInv, Vendor!GtodWork, Vendor!TypeInv
  <2>2. Vendor!VmInv'
    BY <1>12 DEF Vendor!VendorInv, Vendor!GtodWork, Vendor!TypeInv, Vendor!VmInv
  <2>3. Vendor!LoadInv'
    BY <1>1, <1>12 DEF Vendor!VendorInv, Vendor!GtodWork, Vendor!VmInv, Vendor!LoadInv
  <2>4. Vendor!LeaveInv'
    BY <1>r, <1>12 DEF Vendor!VendorInv, Vendor!GtodWork, Vendor!TypeInv, Vendor!VmInv,
        Vendor!LeaveInv
  <2> QED
    BY <2>1, <2>2, <2>3, <2>4 DEF Vendor!VendorInv
<1>13. ASSUME UNCHANGED Vendor!vars PROVE Vendor!VendorInv'
  <2>1. Vendor!TypeInv'
    BY <1>13 DEF Vendor!VendorInv, Vendor!vars, Vendor!TypeInv
  <2>2. Vendor!VmInv'
    BY <1>13 DEF Vendor!VendorInv, Vendor!vars, Vendor!TypeInv, Vendor!VmInv
  <2>3. Vendor!LoadInv'
    BY <1>1, <1>13 DEF Vendor!VendorInv, Vendor!vars, Vendor!VmInv, Vendor!LoadInv
  <2>4. Vendor!LeaveInv'
    BY <1>r, <1>13 DEF Vendor!VendorInv, Vendor!vars, Vendor!TypeInv, Vendor!VmInv,
        Vendor!LeaveInv
  <2> QED
    BY <2>1, <2>2, <2>3, <2>4 DEF Vendor!VendorInv
<1> QED
  BY <1>4, <1>5, <1>6, <1>7, <1>8, <1>9, <1>10, <1>11, <1>12, <1>13

LEMMA VendorStep == Vendor!VendorInv /\ [Vendor!Next]_(Vendor!vars) => Vendor!VendorInv'
BY VendorLoad, VendorDone, VendorFailed, VendorUnload, VendorUndone, VendorBeside DEF Vendor!Next

LEMMA VendorImplies == Vendor!VendorInv => Vendor!NothingLeft
<1> SUFFICES ASSUME Vendor!VendorInv PROVE Vendor!NothingLeft
  OBVIOUS
<1> USE DEF Vendor!VendorInv
<1>1. Vendor!Steps(Vendor!ModuleInit) = InitSteps /\ Vendor!Finished = InitSteps \ Vendor!Steps(x3)
      /\ (x2 \in {"out", "open"} => x3 = <<>> /\ Vendor!Steps(x3) = {})
  BY FinishedIs, NothingDone DEF Vendor!TypeInv
<1>2. Vendor!OutLeavesNothing
  BY <1>1 DEF Vendor!OutLeavesNothing, Vendor!LeaveInv, Vendor!Remains, Vendor!FlushHeld
<1>3. Vendor!OpenHasAll
  <2> SUFFICES ASSUME x2 = "open" PROVE Vendor!OpenHasAll
    BY DEF Vendor!OpenHasAll
  <2>1. Vendor!Finished = InitSteps
    BY <1>1
  <2>2. {"percpu", "checks", "areas"} \subseteq InitSteps /\ (x1.vmx => "l1d" \in InitSteps)
    BY DEF InitSteps, SetupSteps, Only
  <2>3. /\ InitSteps \ {"checks", "compat", "l1d"} \subseteq x4
        /\ (x1.vmx => "flush" \in x4) /\ x5 = Cpus /\ x6 = 1
    BY <2>1, <2>2 DEF Vendor!LoadInv
  <2>4. {Vendor!ModuleInit[i] : i \in DOMAIN Vendor!ModuleInit} = InitSteps
    BY <1>1 DEF Vendor!Steps
  <2> QED
    BY <2>3, <2>4 DEF Vendor!OpenHasAll
<1>4. Vendor!OnIsCovered
  <2> SUFFICES ASSUME x12 # {} PROVE x12 \subseteq x5 /\ "emergency" \in x4
    BY DEF Vendor!OnIsCovered
  <2>1. x10 /\ x2 = "open"
    BY DEF Vendor!VmInv, Vendor!TypeInv
  <2>2. Vendor!Finished = InitSteps /\ "emergency" \in InitSteps /\ "areas" \in InitSteps
    BY <1>1, <2>1 DEF InitSteps, SetupSteps
  <2> QED
    BY <2>1, <2>2 DEF Vendor!LoadInv, Vendor!TypeInv
<1> QED
  BY <1>2, <1>3, <1>4 DEF Vendor!NothingLeft

-----------------------------------------------------------------------------
(***************************************************************************)
(* DirtyLog: no page written under dirty logging is lost, for any number   *)
(* of vCPUs and pages and any PML buffer a 16-bit index can address.       *)
(***************************************************************************)

LEMMA LogInit == ASSUME Log!Constants PROVE Log!Init => Log!LogInv
<1> SUFFICES ASSUME Log!Init PROVE Log!LogInv  OBVIOUS
<1>1. Log!TypeInv
  BY DEF Log!Init, Log!TypeInv, Log!SetTypes, Log!PlaceTypes, Log!BufferTypes, Log!Constants
<1>2. Log!PmlInv  BY DEF Log!Init, Log!PmlInv, Log!Active
<1>3. Log!DirtyInv  BY DEF Log!Init, Log!DirtyInv, Log!Active
<1> QED  BY <1>1, <1>2, <1>3 DEF Log!LogInv

LEMMA LogSets == ASSUME Log!SetTypes, [Log!Next]_(Log!vars) PROVE Log!SetTypes'
<1> USE DEF Log!SetTypes, Log!vm, Log!cpu, Log!Go
<1>1. ASSUME NEW v \in Vcpus, Log!UpdateCpuDirtyLogging(v) PROVE Log!SetTypes'
  BY <1>1 DEF Log!UpdateCpuDirtyLogging
<1>2. ASSUME NEW v \in Vcpus, Log!Enter(v) PROVE Log!SetTypes'
  BY <1>2 DEF Log!Enter
<1>3. ASSUME NEW v \in Vcpus, Log!Exit(v) PROVE Log!SetTypes'
  BY <1>3 DEF Log!Exit
<1>4. ASSUME NEW v \in Vcpus, Log!FlushPmlBuffer(v) PROVE Log!SetTypes'
  BY <1>4 DEF Log!FlushPmlBuffer
<1>5. ASSUME NEW v \in Vcpus, NEW p \in Pages, Log!GuestWrite(v, p) PROVE Log!SetTypes'
  BY <1>5 DEF Log!GuestWrite
<1>6. ASSUME NEW s \in {"this", "other"}, Log!StartLogging(s) PROVE Log!SetTypes'
  BY <1>6 DEF Log!StartLogging
<1>7. ASSUME NEW s \in {"this", "other"}, Log!StopLogging(s) PROVE Log!SetTypes'
  BY <1>7 DEF Log!StopLogging
<1>8. CASE Log!ApplyFlags  BY <1>8 DEF Log!ApplyFlags
<1>9. CASE Log!SyncDirtyLog  BY <1>9 DEF Log!SyncDirtyLog
<1>10. CASE Log!Collect  BY <1>10 DEF Log!Collect
<1>11. CASE UNCHANGED Log!vars  BY <1>11 DEF Log!vars
<1>12. ASSUME NEW v \in Vcpus, Log!SetMode(v) PROVE Log!SetTypes'
  BY <1>12 DEF Log!SetMode
<1>13. ASSUME NEW v \in Vcpus, Log!CancelEntry(v) PROVE Log!SetTypes'
  BY <1>13 DEF Log!CancelEntry
<1>14. CASE Log!RequestUpdates  BY <1>14 DEF Log!RequestUpdates
<1>15. CASE Log!Kick  BY <1>15 DEF Log!Kick
<1> QED
  BY <1>1, <1>2, <1>3, <1>4, <1>5, <1>6, <1>7, <1>8, <1>9, <1>10, <1>11, <1>12,
     <1>13, <1>14, <1>15 DEF Log!Next

LEMMA LogPlaces == ASSUME Log!PlaceTypes, [Log!Next]_(Log!vars) PROVE Log!PlaceTypes'
<1> USE DEF Log!PlaceTypes, Log!vm, Log!cpu, Log!Go
<1>1. ASSUME NEW v \in Vcpus, Log!UpdateCpuDirtyLogging(v) PROVE Log!PlaceTypes'
  BY <1>1 DEF Log!UpdateCpuDirtyLogging
<1>2. ASSUME NEW v \in Vcpus, Log!Enter(v) PROVE Log!PlaceTypes'
  BY <1>2 DEF Log!Enter
<1>3. ASSUME NEW v \in Vcpus, Log!Exit(v) PROVE Log!PlaceTypes'
  BY <1>3 DEF Log!Exit
<1>4. ASSUME NEW v \in Vcpus, Log!FlushPmlBuffer(v) PROVE Log!PlaceTypes'
  BY <1>4 DEF Log!FlushPmlBuffer
<1>5. ASSUME NEW v \in Vcpus, NEW p \in Pages, Log!GuestWrite(v, p) PROVE Log!PlaceTypes'
  BY <1>5 DEF Log!GuestWrite
<1>6. ASSUME NEW s \in {"this", "other"}, Log!StartLogging(s) PROVE Log!PlaceTypes'
  BY <1>6 DEF Log!StartLogging
<1>7. ASSUME NEW s \in {"this", "other"}, Log!StopLogging(s) PROVE Log!PlaceTypes'
  BY <1>7 DEF Log!StopLogging
<1>8. CASE Log!ApplyFlags  BY <1>8 DEF Log!ApplyFlags
<1>9. CASE Log!SyncDirtyLog  BY <1>9 DEF Log!SyncDirtyLog
<1>10. CASE Log!Collect  BY <1>10 DEF Log!Collect
<1>11. CASE UNCHANGED Log!vars  BY <1>11 DEF Log!vars
<1>12. ASSUME NEW v \in Vcpus, Log!SetMode(v) PROVE Log!PlaceTypes'
  BY <1>12 DEF Log!SetMode
<1>13. ASSUME NEW v \in Vcpus, Log!CancelEntry(v) PROVE Log!PlaceTypes'
  BY <1>13 DEF Log!CancelEntry
<1>14. CASE Log!RequestUpdates  BY <1>14 DEF Log!RequestUpdates
<1>15. CASE Log!Kick  BY <1>15 DEF Log!Kick
<1> QED
  BY <1>1, <1>2, <1>3, <1>4, <1>5, <1>6, <1>7, <1>8, <1>9, <1>10, <1>11, <1>12,
     <1>13, <1>14, <1>15 DEF Log!Next

\* Only a write and a flush touch a buffer.
LEMMA LogBuffers == ASSUME Log!Constants, Log!BufferTypes, [Log!Next]_(Log!vars) PROVE Log!BufferTypes'
<1> USE DEF Log!BufferTypes, Log!cpu
<1>1. ASSUME NEW v \in Vcpus, Log!UpdateCpuDirtyLogging(v) PROVE Log!BufferTypes'
  BY <1>1 DEF Log!UpdateCpuDirtyLogging
<1>2. ASSUME NEW v \in Vcpus, Log!Enter(v) PROVE Log!BufferTypes'
  BY <1>2 DEF Log!Enter
<1>3. ASSUME NEW v \in Vcpus, Log!Exit(v) PROVE Log!BufferTypes'
  BY <1>3 DEF Log!Exit
<1>4. ASSUME NEW v \in Vcpus, Log!FlushPmlBuffer(v) PROVE Log!BufferTypes'
  BY <1>4 DEF Log!FlushPmlBuffer, Log!Constants
<1>5. ASSUME NEW v \in Vcpus, NEW p \in Pages, Log!GuestWrite(v, p) PROVE Log!BufferTypes'
  <2>2. CASE UNCHANGED <<x7, x8>>  BY <2>2
  <2>3. CASE /\ ~Log!Full(v) /\ x8' = [x8 EXCEPT ![v][x7[v]] = p]
             /\ x7' = [x7 EXCEPT ![v] = IF @ = 0 THEN Log!Wrapped ELSE @ - 1]
    <3>1. PICK k \in 0..Entries - 1 : k = x7[v]  BY <2>3 DEF Log!Full
    <3>2. x7' \in [Vcpus -> 0..Entries - 1 \cup {Log!Wrapped}]
      <4>1. (IF k = 0 THEN Log!Wrapped ELSE k - 1) \in 0..Entries - 1 \cup {Log!Wrapped}
        BY <3>1 DEF Log!Constants
      <4> QED  BY <2>3, <3>1, <4>1
    <3>3. x8' \in [Vcpus -> [0..Entries - 1 -> Pages \cup {NoPage}]]
      <4>1. [x8[v] EXCEPT ![k] = p] \in [0..Entries - 1 -> Pages \cup {NoPage}]
        OBVIOUS
      <4>2. x8' = [x8 EXCEPT ![v] = [x8[v] EXCEPT ![k] = p]]  BY <2>3, <3>1
      <4> QED  BY <4>1, <4>2
    <3> QED  BY <3>2, <3>3
  <2> QED  BY <1>5, <2>2, <2>3 DEF Log!GuestWrite
<1>6. ASSUME NEW s \in {"this", "other"}, Log!StartLogging(s) PROVE Log!BufferTypes'
  BY <1>6 DEF Log!StartLogging
<1>7. ASSUME NEW s \in {"this", "other"}, Log!StopLogging(s) PROVE Log!BufferTypes'
  BY <1>7 DEF Log!StopLogging
<1>8. CASE Log!ApplyFlags  BY <1>8 DEF Log!ApplyFlags
<1>9. CASE Log!SyncDirtyLog  BY <1>9 DEF Log!SyncDirtyLog
<1>10. CASE Log!Collect  BY <1>10 DEF Log!Collect
<1>11. CASE UNCHANGED Log!vars  BY <1>11 DEF Log!vars
<1>12. ASSUME NEW v \in Vcpus, Log!SetMode(v) PROVE Log!BufferTypes'
  BY <1>12 DEF Log!SetMode
<1>13. ASSUME NEW v \in Vcpus, Log!CancelEntry(v) PROVE Log!BufferTypes'
  BY <1>13 DEF Log!CancelEntry
<1>14. CASE Log!RequestUpdates  BY <1>14 DEF Log!RequestUpdates
<1>15. CASE Log!Kick  BY <1>15 DEF Log!Kick
<1> QED
  BY <1>1, <1>2, <1>3, <1>4, <1>5, <1>6, <1>7, <1>8, <1>9, <1>10, <1>11, <1>12,
     <1>13, <1>14, <1>15 DEF Log!Next

LEMMA LogTypes == ASSUME Log!Constants, Log!TypeInv, [Log!Next]_(Log!vars) PROVE Log!TypeInv'
BY LogSets, LogPlaces, LogBuffers DEF Log!TypeInv

LEMMA LogPml == ASSUME Log!TypeInv, Log!PmlInv, [Log!Next]_(Log!vars) PROVE Log!PmlInv'
<1> USE DEF Log!TypeInv, Log!SetTypes, Log!PlaceTypes, Log!PmlInv, Log!Active, Log!vm, Log!cpu, Log!Go
<1>1. ASSUME NEW v \in Vcpus, Log!UpdateCpuDirtyLogging(v) PROVE Log!PmlInv'
  <2>1. CASE v \in x5  BY <1>1, <2>1 DEF Log!UpdateCpuDirtyLogging
  <2>2. CASE v \notin x5  BY <1>1, <2>2 DEF Log!UpdateCpuDirtyLogging
  <2> QED  BY <2>1, <2>2
<1>2. ASSUME NEW v \in Vcpus, Log!Enter(v) PROVE Log!PmlInv'  BY <1>2 DEF Log!Enter
<1>3. ASSUME NEW v \in Vcpus, Log!Exit(v) PROVE Log!PmlInv'  BY <1>3 DEF Log!Exit
<1>4. ASSUME NEW v \in Vcpus, Log!FlushPmlBuffer(v) PROVE Log!PmlInv'
  BY <1>4 DEF Log!FlushPmlBuffer
<1>5. ASSUME NEW v \in Vcpus, NEW p \in Pages, Log!GuestWrite(v, p) PROVE Log!PmlInv'
  BY <1>5 DEF Log!GuestWrite
<1>6. ASSUME NEW s \in {"this", "other"}, Log!StartLogging(s) PROVE Log!PmlInv'
  <2>1. x1' = x1 \cup {s} /\ x1' # {}  BY <1>6 DEF Log!StartLogging
  <2>2. UNCHANGED <<x5, x6, x9, x10, x11>> /\ x2 = "none"  BY <1>6 DEF Log!StartLogging
  <2>3. CASE Log!Toggled
    <3>1. x1 = {}  BY <2>1, <2>3 DEF Log!Toggled
    <3>2. x2' \in {"request", "request_this"} /\ (x2' = "request" => "this" \notin x1')
      BY <1>6, <2>1, <2>3, <3>1 DEF Log!StartLogging
    <3>3. ~Log!Active'  BY <3>2
    <3> QED  BY <2>2, <3>2, <3>3
  <2>4. CASE ~Log!Toggled
    <3>1. x1 # {}  BY <2>1, <2>4 DEF Log!Toggled
    <3>2. x2' \in {"none", "enable"} /\ (x2' = "none" => s = "other")
      BY <1>6, <2>4 DEF Log!StartLogging
    <3>3. Log!Active' => Log!Active  BY <2>1, <2>2, <3>2
    <3> QED  BY <2>2, <3>1, <3>2, <3>3
  <2> QED  BY <2>3, <2>4
<1>7. ASSUME NEW s \in {"this", "other"}, Log!StopLogging(s) PROVE Log!PmlInv'
  <2>1. x1' = x1 \ {s} /\ s \in x1  BY <1>7 DEF Log!StopLogging
  <2>2. UNCHANGED <<x5, x6, x9, x10, x11>> /\ x2 = "none"  BY <1>7 DEF Log!StopLogging
  <2>3. x2' \in {"none", "request"} /\ (x2' = "request" => x1' = {})
    BY <1>7, <2>1 DEF Log!StopLogging, Log!Toggled
  <2>4. Log!Active' => Log!Active  BY <2>1, <2>2
  <2> QED  BY <2>1, <2>2, <2>3, <2>4
<1>8. CASE Log!ApplyFlags  BY <1>8 DEF Log!ApplyFlags
<1>9. CASE Log!SyncDirtyLog  BY <1>9 DEF Log!SyncDirtyLog
<1>10. CASE Log!Collect  BY <1>10 DEF Log!Collect
<1>11. CASE UNCHANGED Log!vars  BY <1>11 DEF Log!vars
<1>12. ASSUME NEW v \in Vcpus, Log!SetMode(v) PROVE Log!PmlInv'
  BY <1>12 DEF Log!SetMode
<1>13. ASSUME NEW v \in Vcpus, Log!CancelEntry(v) PROVE Log!PmlInv'
  BY <1>13 DEF Log!CancelEntry
<1>14. CASE Log!RequestUpdates
  BY <1>14 DEF Log!RequestUpdates
<1>15. CASE Log!Kick
  BY <1>15 DEF Log!Kick
<1> QED
  BY <1>1, <1>2, <1>3, <1>4, <1>5, <1>6, <1>7, <1>8, <1>9, <1>10, <1>11, <1>12,
     <1>13, <1>14, <1>15 DEF Log!Next

\* Of the value an index below zero becomes, only that it is beyond the buffer.
LEMMA LogBeyond ==
  ASSUME Log!Constants PROVE Log!Wrapped \in Nat /\ Entries \in Nat \ {0} /\ Entries <= Log!Wrapped
<1>1. Log!Wrapped \in Nat  BY SMT DEF Log!Wrapped
<1> QED  BY <1>1 DEF Log!Constants

\* The processor logs into the free part of the buffer only.
LEMMA LogGrows ==
  ASSUME Log!Constants, Log!TypeInv, NEW v \in Vcpus, NEW p \in Pages, Log!GuestWrite(v, p),
         v \in x6, p \notin x4
  PROVE  /\ p \in Log!Logged(v)' /\ Log!Logged(v) \subseteq Log!Logged(v)'
         /\ \A w \in Vcpus \ {v} : Log!Logged(w)' = Log!Logged(w)
<1>1. /\ x7[v] \in 0..Entries - 1
      /\ x8' = [x8 EXCEPT ![v][x7[v]] = p]
      /\ x7' = [x7 EXCEPT ![v] = IF @ = 0 THEN Log!Wrapped ELSE @ - 1]
  BY DEF Log!GuestWrite, Log!Full
<1>2. PICK k \in 0..Entries - 1 : k = x7[v]  BY <1>1
<1>3. /\ x7'[v] = IF k = 0 THEN Log!Wrapped ELSE k - 1
      /\ x8'[v] = [x8[v] EXCEPT ![k] = p]
      /\ \A w \in Vcpus \ {v} : x7'[w] = x7[w] /\ x8'[w] = x8[w]
  BY <1>1, <1>2 DEF Log!TypeInv, Log!BufferTypes
<1>4. /\ x8'[v][k] = p
      /\ \A i \in k + 1..Entries - 1 : x8'[v][i] = x8[v][i]
  <2>1. x8[v] \in [0..Entries - 1 -> Pages \cup {NoPage}]  BY DEF Log!TypeInv, Log!BufferTypes
  <2>2. \A i \in k + 1..Entries - 1 : i \in 0..Entries - 1 /\ i # k
    BY <1>2 DEF Log!Constants
  <2> QED  BY <1>2, <1>3, <2>1, <2>2
<1>5. Log!Logged(v) = {x8[v][i] : i \in k + 1..Entries - 1}
  BY <1>1, <1>2 DEF Log!Logged, Log!Full, Log!Constants
<1>6. Log!Logged(v)' = {x8'[v][i] : i \in k..Entries - 1}
  <2>1. x7'[v] # Entries - 1
    <3>1. CASE k = 0  BY <1>3, <3>1, LogBeyond
    <3>2. CASE k # 0  BY <1>2, <1>3, <3>2, LogBeyond
    <3> QED  BY <3>1, <3>2
  <2>2. (IF Log!Full(v)' THEN 0 ELSE x7'[v] + 1) = k
    <3>1. CASE k = 0  BY <1>3, <3>1, LogBeyond DEF Log!Full
    <3>2. CASE k # 0  BY <1>2, <1>3, <3>2, LogBeyond DEF Log!Full
    <3> QED  BY <3>1, <3>2
  <2> QED  BY <2>1, <2>2 DEF Log!Logged
<1>7. /\ k \in k..Entries - 1
      /\ \A i \in k + 1..Entries - 1 : i \in k..Entries - 1
  BY <1>2 DEF Log!Constants
<1>8. p \in Log!Logged(v)' /\ Log!Logged(v) \subseteq Log!Logged(v)'  BY <1>4, <1>5, <1>6, <1>7
<1>9. \A w \in Vcpus \ {v} : Log!Logged(w)' = Log!Logged(w)
  <2> SUFFICES ASSUME NEW w \in Vcpus \ {v} PROVE Log!Logged(w)' = Log!Logged(w)  OBVIOUS
  <2>1. x7'[w] = x7[w] /\ x8'[w] = x8[w]  BY <1>3
  <2> QED  BY <2>1 DEF Log!Logged, Log!Full
<1> QED  BY <1>8, <1>9

LEMMA LogDirty ==
  ASSUME Log!Constants, Log!LogInv, Log!TypeInv', [Log!Next]_(Log!vars) PROVE Log!DirtyInv'
<1> USE DEF Log!LogInv
\* A step that moves neither bits nor buffers.
<1>0. ASSUME UNCHANGED <<x4, x3, x7, x8, x12>>, Log!Active' => Log!Active,
             Log!Active => Log!Active'
      PROVE  Log!DirtyInv'
  BY <1>0 DEF Log!DirtyInv, Log!Logged, Log!Full
<1>1. ASSUME NEW v \in Vcpus, Log!UpdateCpuDirtyLogging(v) PROVE Log!DirtyInv'
  BY <1>0, <1>1 DEF Log!UpdateCpuDirtyLogging, Log!vm, Log!Active
<1>2. ASSUME NEW v \in Vcpus, Log!Enter(v) PROVE Log!DirtyInv'
  BY <1>0, <1>2 DEF Log!Enter, Log!vm, Log!cpu, Log!Active
<1>3. ASSUME NEW v \in Vcpus, Log!Exit(v) PROVE Log!DirtyInv'
  BY <1>0, <1>3 DEF Log!Exit, Log!vm, Log!cpu, Log!Active
<1>4. ASSUME NEW v \in Vcpus, Log!FlushPmlBuffer(v) PROVE Log!DirtyInv'
  <2>1. UNCHANGED <<x1, x2, x4, x12, x8>>  BY <1>4 DEF Log!FlushPmlBuffer
  <2>2. CASE x7[v] = Entries - 1
    BY <1>0, <1>4, <2>1, <2>2 DEF Log!FlushPmlBuffer, Log!Active
  <2>3. CASE x7[v] # Entries - 1
    <3>1. \A w \in Vcpus \ {v} : Log!Logged(w)' = Log!Logged(w)
      <4>1. \A w \in Vcpus \ {v} : x7'[w] = x7[w]
        BY <1>4, <2>3 DEF Log!FlushPmlBuffer, Log!TypeInv, Log!BufferTypes
      <4> QED  BY <2>1, <4>1 DEF Log!Logged, Log!Full
    <3>2. (IF Log!Full(v) THEN 0 ELSE x7[v] + 1) = Log!FirstLogged(v)
      <4>1. x7[v] \in 0..Entries - 1 \cup {Log!Wrapped}  BY DEF Log!TypeInv, Log!BufferTypes
      <4> QED  BY <4>1, LogBeyond DEF Log!Full, Log!FirstLogged
    <3>3. Log!Logged(v) = {x8[v][i] : i \in Log!FirstLogged(v)..Entries - 1}
      BY <2>3, <3>2 DEF Log!Logged
    <3>4. Log!Active => x3' = x3 \cup Log!Logged(v)
      BY <1>4, <2>3, <3>3 DEF Log!FlushPmlBuffer, Log!Active
    <3> QED  BY <2>1, <3>1, <3>4 DEF Log!DirtyInv, Log!Active
  <2> QED  BY <2>2, <2>3
<1>5. ASSUME NEW v \in Vcpus, NEW p \in Pages, Log!GuestWrite(v, p) PROVE Log!DirtyInv'
  <2>1. /\ UNCHANGED <<x1, x2, x3>> /\ x4' = x4 \cup {p}
        /\ x12' = IF Log!Active THEN x12 \cup {p} ELSE x12
        /\ x9[v] = "guest"
    BY <1>5 DEF Log!GuestWrite, Log!Active
  <2>2. CASE v \in x6 /\ p \notin x4
    BY <1>5, <2>1, <2>2, LogGrows DEF Log!DirtyInv, Log!Active
  <2>3. CASE ~(v \in x6 /\ p \notin x4)
    <3>1. UNCHANGED <<x7, x8>>  BY <1>5, <2>3 DEF Log!GuestWrite
    <3>2. Log!Active => p \in x4  BY <2>1, <2>3 DEF Log!PmlInv
    <3> QED  BY <2>1, <3>1, <3>2 DEF Log!DirtyInv, Log!Active, Log!Logged, Log!Full
  <2> QED  BY <2>2, <2>3
<1>6. ASSUME NEW s \in {"this", "other"}, Log!StartLogging(s) PROVE Log!DirtyInv'
  <2>1. UNCHANGED <<x4, x3, x7, x8, x12>>
    BY <1>6 DEF Log!StartLogging, Log!cpu
  <2>2. (Log!Active' => Log!Active) /\ (Log!Active => Log!Active')  BY <1>6 DEF Log!StartLogging, Log!Active
  <2> QED  BY <1>0, <2>1, <2>2
<1>7. ASSUME NEW s \in {"this", "other"}, Log!StopLogging(s) PROVE Log!DirtyInv'
  <2>1. CASE s = "this"
    BY <1>7, <2>1 DEF Log!StopLogging, Log!cpu, Log!DirtyInv, Log!Active
  <2>2. CASE s = "other"
    BY <1>0, <1>7, <2>2 DEF Log!StopLogging, Log!cpu, Log!Active
  <2> QED  BY <2>1, <2>2
<1>8. CASE Log!ApplyFlags  BY <1>8 DEF Log!ApplyFlags, Log!DirtyInv, Log!Active, Log!cpu
<1>9. CASE Log!SyncDirtyLog  BY <1>0, <1>9 DEF Log!SyncDirtyLog, Log!Active, Log!cpu
<1>10. CASE Log!Collect
  BY <1>10 DEF Log!Collect, Log!cpu, Log!DirtyInv, Log!Active, Log!Logged, Log!Full
<1>11. CASE UNCHANGED Log!vars  BY <1>0, <1>11 DEF Log!vars, Log!Active
<1>12. ASSUME NEW v \in Vcpus, Log!SetMode(v) PROVE Log!DirtyInv'
  BY <1>0, <1>12 DEF Log!SetMode, Log!vm, Log!cpu, Log!Active
<1>13. ASSUME NEW v \in Vcpus, Log!CancelEntry(v) PROVE Log!DirtyInv'
  BY <1>0, <1>13 DEF Log!CancelEntry, Log!vm, Log!cpu, Log!Active
<1>14. CASE Log!RequestUpdates
  BY <1>0, <1>14 DEF Log!RequestUpdates, Log!vm, Log!cpu, Log!Active
<1>15. CASE Log!Kick
  BY <1>0, <1>15 DEF Log!Kick, Log!vm, Log!cpu, Log!Active
<1> QED
  BY <1>1, <1>2, <1>3, <1>4, <1>5, <1>6, <1>7, <1>8, <1>9, <1>10, <1>11, <1>12,
     <1>13, <1>14, <1>15 DEF Log!Next

LEMMA LogStep == ASSUME Log!Constants, Log!LogInv, [Log!Next]_(Log!vars) PROVE Log!LogInv'
BY LogTypes, LogPml, LogDirty DEF Log!LogInv

LEMMA LogImplies == Log!LogInv => Log!NoWriteLost
<1> SUFFICES ASSUME Log!LogInv, NEW p \in x12
             PROVE  p \in x3 \/ \E v \in Vcpus :
                      /\ x7[v] # Entries - 1
                      /\ p \in {x8[v][i] : i \in
                                 (IF Log!Full(v) THEN 0 ELSE x7[v] + 1)..Entries - 1}
  BY DEF Log!NoWriteLost
<1>1. p \in x3 \/ \E v \in Vcpus : p \in Log!Logged(v)  BY DEF Log!LogInv, Log!DirtyInv
<1> QED  BY <1>1 DEF Log!Logged

(* No page written since logging began or since its last report is lost           *)
(* (vmx_flush_pml_buffer, vmx_update_cpu_dirty_logging and                        *)
(* kvm_mmu_slot_apply_flags).                                                     *)
THEOREM DirtyLogCorrect == ASSUME Log!Constants PROVE Log!Spec => []Log!NoWriteLost
<1>1. Log!Init => Log!LogInv  BY LogInit
<1>2. Log!LogInv /\ [Log!Next]_(Log!vars) => Log!LogInv'  BY LogStep
<1> QED  BY <1>1, <1>2, LogImplies, PTL DEF Log!Spec

-----------------------------------------------------------------------------
(***************************************************************************)
(* AsyncPf: no page's arrival is lost between the workers, the vCPU and    *)
(* the guest, for any pages and whatever the hash table holds.             *)
(***************************************************************************)

LEMMA ApfStart == Apf!Init => Apf!ApfInv
<1> SUFFICES ASSUME Apf!Init PROVE Apf!ApfInv  OBVIOUS
<1>1. x4 \in Seq(Gfns \cup {Apf!All})  BY DEF Apf!Init
<1>2. Apf!TypeInv  BY <1>1 DEF Apf!Init, Apf!TypeInv, Apf!FlagTypes, Apf!PlaceTypes, Apf!PageTypes
<1> QED  BY <1>2 DEF Apf!Init, Apf!ApfInv, Apf!WordInv, Apf!RestInv, Apf!WaitInv, Apf!ToldInv

\* What the completed pages are after one is added or taken.
LEMMA AddedIs ==
  ASSUME NEW S, NEW s \in Seq(S), NEW x \in S
  PROVE  /\ Append(s, x) \in Seq(S) /\ Append(s, x) # <<>>
         /\ Apf!ToSet(Append(s, x)) = Apf!ToSet(s) \cup {x}
<1>1. /\ Append(s, x) \in Seq(S) /\ Len(Append(s, x)) = Len(s) + 1 /\ Len(s) \in Nat
      /\ \A i \in 1..Len(s) + 1 : Append(s, x)[i] = IF i = Len(s) + 1 THEN x ELSE s[i]
  OBVIOUS
<1>2. DOMAIN s = 1..Len(s) /\ DOMAIN Append(s, x) = 1..Len(s) + 1  BY <1>1
<1> QED  BY <1>1, <1>2 DEF Apf!ToSet

LEMMA RemovedIs ==
  ASSUME NEW S, NEW s \in Seq(S), s # <<>>
  PROVE  /\ Head(s) \in S /\ Tail(s) \in Seq(S)
         /\ Apf!ToSet(s) = Apf!ToSet(Tail(s)) \cup {Head(s)}
<1>1. /\ Len(s) \in Nat \ {0} /\ Head(s) = s[1] /\ Head(s) \in S /\ Tail(s) \in Seq(S)
      /\ Len(Tail(s)) = Len(s) - 1
      /\ \A i \in 1..Len(s) - 1 : Tail(s)[i] = s[i + 1]
  OBVIOUS
<1>2. DOMAIN s = 1..Len(s) /\ DOMAIN Tail(s) = 1..Len(s) - 1  BY <1>1
<1>3. ASSUME NEW i \in 1..Len(s) PROVE i = 1 \/ (i - 1 \in 1..Len(s) - 1 /\ s[i] = Tail(s)[i - 1])
  BY <1>1
<1>4. ASSUME NEW i \in 1..Len(s) - 1 PROVE i + 1 \in 1..Len(s)  BY <1>1
<1>5. ASSUME NEW x \in Apf!ToSet(s) PROVE x \in Apf!ToSet(Tail(s)) \cup {Head(s)}
  <2>1. PICK i \in 1..Len(s) : x = s[i]  BY <1>2 DEF Apf!ToSet
  <2>2. CASE i = 1  BY <2>1, <2>2, <1>1
  <2>3. CASE i - 1 \in 1..Len(s) - 1 /\ s[i] = Tail(s)[i - 1]  BY <2>1, <2>3, <1>2 DEF Apf!ToSet
  <2> QED  BY <2>2, <2>3, <1>3
<1>6. Apf!ToSet(Tail(s)) \cup {Head(s)} \subseteq Apf!ToSet(s)  BY <1>1, <1>2, <1>4 DEF Apf!ToSet
<1> QED  BY <1>1, <1>5, <1>6

\* Types; the sequence first, which few actions change.
LEMMA ApfDone == ASSUME Apf!TypeInv, [Apf!Next]_(Apf!vars) PROVE x4' \in Seq(Gfns \cup {Apf!All})
<1> USE DEF Apf!lists
<1> DEFINE Tokens == Gfns \cup {Apf!All}
<1>0. x4 \in Seq(Tokens)  BY DEF Apf!TypeInv
<1>1. ASSUME NEW g \in Gfns, Apf!Work(g) PROVE x4' \in Seq(Tokens)
  BY <1>0, <1>1, AddedIs DEF Apf!Work
<1>2. CASE Apf!Present  BY <1>0, <1>2, RemovedIs DEF Apf!Present
<1>3. CASE Apf!Enable
  <2>1. <<Apf!All>> \in Seq(Tokens)  OBVIOUS
  <2>2. x4' = <<Apf!All>> \/ x4' = x4  BY <1>3 DEF Apf!Enable
  <2> QED  BY <1>0, <2>1, <2>2
<1>4. CASE Apf!Disable
  <2>1. <<>> \in Seq(Tokens)  OBVIOUS
  <2> QED  BY <1>4, <2>1 DEF Apf!Disable
<1>5. CASE UNCHANGED x4  BY <1>0, <1>5
<1>6. ASSUME NEW g \in Gfns, NEW d \in BOOLEAN, Apf!Fault(g, d) PROVE x4' = x4  BY <1>6 DEF Apf!Fault
<1>7. ASSUME NEW o \in BOOLEAN, Apf!WakeUp(o) PROVE x4' = x4  BY <1>7 DEF Apf!WakeUp
<1>8. CASE Apf!RequestReady \/ Apf!Kick \/ Apf!CheckReady  BY <1>5, <1>8 DEF Apf!RequestReady, Apf!Kick, Apf!CheckReady
<1>9. CASE Apf!CompleteEnd \/ Apf!Halt \/ Apf!Block  BY <1>5, <1>9 DEF Apf!CompleteEnd, Apf!Halt, Apf!Block
<1>10. CASE Apf!Enter \/ Apf!Exit  BY <1>5, <1>10 DEF Apf!Enter, Apf!Exit
<1>11. CASE Apf!Interrupt \/ Apf!Clear \/ Apf!Ack  BY <1>5, <1>11 DEF Apf!Interrupt, Apf!Clear, Apf!Ack
<1>12. CASE UNCHANGED Apf!vars  BY <1>5, <1>12 DEF Apf!vars
<1> QED
  BY <1>1, <1>2, <1>3, <1>4, <1>5, <1>6, <1>7, <1>8, <1>9, <1>10, <1>11, <1>12 DEF Apf!Next

LEMMA ApfFlags == ASSUME Apf!TypeInv, [Apf!Next]_(Apf!vars) PROVE Apf!FlagTypes'
<1> USE DEF Apf!lists, Apf!reqs, Apf!guest, Apf!word, Apf!TypeInv, Apf!FlagTypes
<1>0. CASE UNCHANGED Apf!vars  BY <1>0 DEF Apf!vars
<1>1. ASSUME NEW g \in Gfns, Apf!Work(g) PROVE Apf!FlagTypes'  BY <1>1 DEF Apf!Work
<1>2. ASSUME NEW g \in Gfns, NEW d \in BOOLEAN, Apf!Fault(g, d) PROVE Apf!FlagTypes'  BY <1>2 DEF Apf!Fault
<1>3. CASE Apf!RequestReady  BY <1>3 DEF Apf!RequestReady
<1>4. CASE Apf!Kick  BY <1>4 DEF Apf!Kick
<1>5. CASE Apf!CheckReady  BY <1>5 DEF Apf!CheckReady
<1>6. CASE Apf!Present  BY <1>6 DEF Apf!Present
<1>7. CASE Apf!CompleteEnd  BY <1>7 DEF Apf!CompleteEnd
<1>8. CASE Apf!Halt  BY <1>8 DEF Apf!Halt
<1>9. CASE Apf!Block  BY <1>9 DEF Apf!Block
<1>10. CASE Apf!Enter  BY <1>10 DEF Apf!Enter
<1>11. CASE Apf!Exit  BY <1>11 DEF Apf!Exit
<1>12. ASSUME NEW o \in BOOLEAN, Apf!WakeUp(o) PROVE Apf!FlagTypes'  BY <1>12 DEF Apf!WakeUp
<1>13. CASE Apf!Interrupt  BY <1>13 DEF Apf!Interrupt
<1>14. CASE Apf!Clear  BY <1>14 DEF Apf!Clear
<1>15. CASE Apf!Ack  BY <1>15 DEF Apf!Ack
<1>16. CASE Apf!Enable  BY <1>16 DEF Apf!Enable
<1>17. CASE Apf!Disable  BY <1>17 DEF Apf!Disable
<1> QED
  BY <1>0, <1>1, <1>2, <1>3, <1>4, <1>5, <1>6, <1>7, <1>8, <1>9, <1>10, <1>11, <1>12, <1>13,
     <1>14, <1>15, <1>16, <1>17 DEF Apf!Next

LEMMA ApfPlaces == ASSUME Apf!TypeInv, [Apf!Next]_(Apf!vars) PROVE Apf!PlaceTypes'
<1> USE DEF Apf!lists, Apf!reqs, Apf!guest, Apf!word, Apf!TypeInv, Apf!PlaceTypes
<1>0. CASE UNCHANGED Apf!vars  BY <1>0 DEF Apf!vars
<1>1. ASSUME NEW g \in Gfns, Apf!Work(g) PROVE Apf!PlaceTypes'  BY <1>1 DEF Apf!Work
<1>2. ASSUME NEW g \in Gfns, NEW d \in BOOLEAN, Apf!Fault(g, d) PROVE Apf!PlaceTypes'  BY <1>2 DEF Apf!Fault
<1>3. CASE Apf!RequestReady
  <2>1. x6.request - 1 \in Nat /\ x6.kick + 1 \in Nat  BY <1>3 DEF Apf!RequestReady
  <2> QED  BY <1>3, <2>1 DEF Apf!RequestReady
<1>4. CASE Apf!Kick  BY <1>4 DEF Apf!Kick
<1>5. CASE Apf!CheckReady  BY <1>5 DEF Apf!CheckReady
<1>6. CASE Apf!Present  BY <1>6 DEF Apf!Present
<1>7. CASE Apf!CompleteEnd  BY <1>7 DEF Apf!CompleteEnd
<1>8. CASE Apf!Halt  BY <1>8 DEF Apf!Halt
<1>9. CASE Apf!Block  BY <1>9 DEF Apf!Block
<1>10. CASE Apf!Enter  BY <1>10 DEF Apf!Enter
<1>11. CASE Apf!Exit  BY <1>11 DEF Apf!Exit
<1>12. ASSUME NEW o \in BOOLEAN, Apf!WakeUp(o) PROVE Apf!PlaceTypes'  BY <1>12 DEF Apf!WakeUp
<1>13. CASE Apf!Interrupt  BY <1>13 DEF Apf!Interrupt
<1>14. CASE Apf!Clear  BY <1>14 DEF Apf!Clear
<1>15. CASE Apf!Ack  BY <1>15 DEF Apf!Ack
<1>16. CASE Apf!Enable  BY <1>16 DEF Apf!Enable
<1>17. CASE Apf!Disable  BY <1>17 DEF Apf!Disable
<1> QED
  BY <1>0, <1>1, <1>2, <1>3, <1>4, <1>5, <1>6, <1>7, <1>8, <1>9, <1>10, <1>11, <1>12, <1>13,
     <1>14, <1>15, <1>16, <1>17 DEF Apf!Next

LEMMA ApfPages == ASSUME Apf!TypeInv, [Apf!Next]_(Apf!vars) PROVE Apf!PageTypes'
<1> USE DEF Apf!lists, Apf!reqs, Apf!guest, Apf!word, Apf!TypeInv, Apf!PageTypes
<1>h. ASSUME Apf!Present PROVE Head(x4) \in Gfns \cup {Apf!All}  BY <1>h, RemovedIs DEF Apf!Present
<1>0. CASE UNCHANGED Apf!vars  BY <1>0 DEF Apf!vars
<1>1. ASSUME NEW g \in Gfns, Apf!Work(g) PROVE Apf!PageTypes'  BY <1>1 DEF Apf!Work
<1>2. ASSUME NEW g \in Gfns, NEW d \in BOOLEAN, Apf!Fault(g, d) PROVE Apf!PageTypes'  BY <1>2 DEF Apf!Fault
<1>3. CASE Apf!RequestReady  BY <1>3 DEF Apf!RequestReady
<1>4. CASE Apf!Kick  BY <1>4 DEF Apf!Kick
<1>5. CASE Apf!CheckReady  BY <1>5 DEF Apf!CheckReady
<1>6. CASE Apf!Present  BY <1>6, <1>h DEF Apf!Present
<1>7. CASE Apf!CompleteEnd  BY <1>7 DEF Apf!CompleteEnd
<1>8. CASE Apf!Halt  BY <1>8 DEF Apf!Halt
<1>9. CASE Apf!Block  BY <1>9 DEF Apf!Block
<1>10. CASE Apf!Enter  BY <1>10 DEF Apf!Enter
<1>11. CASE Apf!Exit  BY <1>11 DEF Apf!Exit
<1>12. ASSUME NEW o \in BOOLEAN, Apf!WakeUp(o) PROVE Apf!PageTypes'  BY <1>12 DEF Apf!WakeUp
<1>13. CASE Apf!Interrupt  BY <1>13 DEF Apf!Interrupt
<1>14. CASE Apf!Clear  BY <1>14 DEF Apf!Clear
<1>15. CASE Apf!Ack  BY <1>15 DEF Apf!Ack
<1>16. CASE Apf!Enable  BY <1>16 DEF Apf!Enable
<1>17. CASE Apf!Disable  BY <1>17 DEF Apf!Disable
<1> QED
  BY <1>0, <1>1, <1>2, <1>3, <1>4, <1>5, <1>6, <1>7, <1>8, <1>9, <1>10, <1>11, <1>12, <1>13,
     <1>14, <1>15, <1>16, <1>17 DEF Apf!Next

LEMMA ApfTypes == ASSUME Apf!TypeInv, [Apf!Next]_(Apf!vars) PROVE Apf!TypeInv'
BY ApfFlags, ApfPlaces, ApfPages, ApfDone DEF Apf!TypeInv

\* The word and the handler.
LEMMA ApfWord ==
  ASSUME Apf!Constants, Apf!TypeInv, [Apf!Next]_(Apf!vars), Apf!WordInv, Apf!RestInv, ~x17'
  PROVE  Apf!WordInv' /\ Apf!RestInv'
<1> USE DEF Apf!lists, Apf!reqs, Apf!guest, Apf!word, Apf!TypeInv, Apf!FlagTypes, Apf!PlaceTypes, Apf!PageTypes, Apf!WordInv, Apf!RestInv
<1>0. CASE UNCHANGED Apf!vars  BY <1>0 DEF Apf!vars
<1>1. ASSUME NEW g \in Gfns, Apf!Work(g) PROVE Apf!WordInv' /\ Apf!RestInv'  BY <1>1 DEF Apf!Work
<1>2. ASSUME NEW g \in Gfns, NEW d \in BOOLEAN, Apf!Fault(g, d) PROVE Apf!WordInv' /\ Apf!RestInv'
  BY <1>2 DEF Apf!Fault
<1>3. CASE Apf!RequestReady  BY <1>3 DEF Apf!RequestReady
<1>4. CASE Apf!Kick  BY <1>4 DEF Apf!Kick
<1>5. CASE Apf!CheckReady  BY <1>5 DEF Apf!CheckReady
<1>6. CASE Apf!Present
  <2>1. Head(x4) \in Gfns \cup {Apf!All}  BY <1>6, RemovedIs DEF Apf!Present
  <2>2. Head(x4) # 0  BY <2>1 DEF Apf!Constants, Apf!All
  <2> QED  BY <1>6, <2>2 DEF Apf!Present, Apf!CanDequeue
<1>7. CASE Apf!CompleteEnd  BY <1>7 DEF Apf!CompleteEnd
<1>8. CASE Apf!Halt  BY <1>8 DEF Apf!Halt
<1>9. CASE Apf!Block  BY <1>9 DEF Apf!Block, Apf!HasEvents
<1>10. CASE Apf!Enter  BY <1>10 DEF Apf!Enter
<1>11. CASE Apf!Exit  BY <1>11 DEF Apf!Exit
<1>12. ASSUME NEW o \in BOOLEAN, Apf!WakeUp(o) PROVE Apf!WordInv' /\ Apf!RestInv'  BY <1>12 DEF Apf!WakeUp
<1>13. CASE Apf!Interrupt  BY <1>13 DEF Apf!Interrupt
<1>14. CASE Apf!Clear  BY <1>14 DEF Apf!Clear
<1>15. CASE Apf!Ack  BY <1>15 DEF Apf!Ack
<1>16. CASE Apf!Enable  BY <1>16 DEF Apf!Enable
<1>17. CASE Apf!Disable  BY <1>17 DEF Apf!Disable
<1> QED
  BY <1>0, <1>1, <1>2, <1>3, <1>4, <1>5, <1>6, <1>7, <1>8, <1>9, <1>10, <1>11, <1>12, <1>13,
     <1>14, <1>15, <1>16, <1>17 DEF Apf!Next

\* Waiting tasks: only what completes, tells or takes the word matters.
LEMMA ApfWait ==
  ASSUME Apf!Constants, Apf!TypeInv, [Apf!Next]_(Apf!vars), Apf!WordInv, Apf!WaitInv
  PROVE  Apf!WaitInv'
<1> USE DEF Apf!lists, Apf!reqs, Apf!guest, Apf!word, Apf!TypeInv, Apf!FlagTypes, Apf!PlaceTypes, Apf!PageTypes
<1>0. CASE UNCHANGED <<x3, x4, x5, x16, x7, x13>>
  BY <1>0 DEF Apf!WaitInv, Apf!Completed
<1>1. ASSUME NEW g \in Gfns, Apf!Work(g) PROVE Apf!WaitInv'
  <2>1. Apf!Completed' = Apf!Completed \cup {g}  BY <1>1, AddedIs DEF Apf!Work, Apf!Completed
  <2> QED  BY <1>1, <2>1 DEF Apf!Work, Apf!WaitInv
<1>2. ASSUME NEW g \in Gfns, NEW d \in BOOLEAN, Apf!Fault(g, d) PROVE Apf!WaitInv'
  <2>1. Apf!Completed' = Apf!Completed  BY <1>2 DEF Apf!Fault, Apf!Completed
  <2> QED  BY <1>2, <2>1 DEF Apf!Fault, Apf!WaitInv
<1>3. CASE Apf!Present
  <2> DEFINE h == Head(x4)
  <2>1. Apf!Completed = Apf!Completed' \cup {h}  BY <1>3, RemovedIs DEF Apf!Present, Apf!Completed
  <2>2. x3' = x3 /\ x16' = x16 /\ x5' = x5 \ {h}  BY <1>3 DEF Apf!Present
  <2>3. (h = Apf!All \/ h \in x5) /\ x1 => x7' = h /\ x13'  BY <1>3 DEF Apf!Present
  <2>4. x1 => x7 = 0  BY <1>3 DEF Apf!Present, Apf!CanDequeue
  <2> SUFFICES ASSUME NEW g \in x16
               PROVE  \/ g \in x3' \cup Apf!Completed' /\ g \in x5'
                      \/ Apf!All \in Apf!Completed'
                      \/ x7' \in {g, Apf!All} /\ x13'
    BY <2>2 DEF Apf!WaitInv
  <2>5. x1 /\ x7 = 0 /\ x7 \notin {g, Apf!All}  BY <2>4 DEF Apf!WordInv, Apf!Constants, Apf!All
  <2> QED  BY <2>1, <2>2, <2>3, <2>5 DEF Apf!WaitInv
<1>4. CASE Apf!Interrupt
  <2>1. x3' = x3 /\ Apf!Completed' = Apf!Completed /\ x5' = x5
    BY <1>4 DEF Apf!Interrupt, Apf!Completed
  <2>2. x1 => x16' = IF x7 = Apf!All THEN {} ELSE x16 \ {x7}  BY <1>4 DEF Apf!Interrupt
  <2>3. ~x1 => x16' = {}  BY <1>4 DEF Apf!Interrupt, Apf!WordInv
  <2> QED  BY <2>1, <2>2, <2>3 DEF Apf!WaitInv
<1>5. CASE Apf!Clear
  <2>1. x3' = x3 /\ Apf!Completed' = Apf!Completed /\ x5' = x5 /\ x16' = x16
    BY <1>5 DEF Apf!Clear, Apf!Completed
  <2>2. ~x13  BY <1>5 DEF Apf!Clear, Apf!WordInv
  <2> QED  BY <2>1, <2>2 DEF Apf!WaitInv
<1>6. CASE Apf!Enable
  <2>1. x16' = {}  BY <1>6 DEF Apf!Enable, Apf!WordInv
  <2> QED  BY <2>1 DEF Apf!WaitInv
<1>7. CASE Apf!Disable  BY <1>7 DEF Apf!Disable, Apf!WaitInv
<1>8. ASSUME NEW o \in BOOLEAN, Apf!WakeUp(o) PROVE Apf!WaitInv'  BY <1>0, <1>8 DEF Apf!WakeUp
<1>9. CASE Apf!RequestReady \/ Apf!Kick \/ Apf!CheckReady  BY <1>0, <1>9 DEF Apf!RequestReady, Apf!Kick, Apf!CheckReady
<1>10. CASE Apf!CompleteEnd \/ Apf!Halt \/ Apf!Block  BY <1>0, <1>10 DEF Apf!CompleteEnd, Apf!Halt, Apf!Block
<1>11. CASE Apf!Enter \/ Apf!Exit \/ Apf!Ack  BY <1>0, <1>11 DEF Apf!Enter, Apf!Exit, Apf!Ack
<1>12. CASE UNCHANGED Apf!vars  BY <1>0, <1>12 DEF Apf!vars
<1> QED
  BY <1>1, <1>2, <1>3, <1>4, <1>5, <1>6, <1>7, <1>8, <1>9, <1>10, <1>11, <1>12 DEF Apf!Next

\* The vCPU is told.
LEMMA ApfTold ==
  ASSUME Apf!Constants, Apf!TypeInv, [Apf!Next]_(Apf!vars), Apf!WordInv, Apf!RestInv, Apf!ToldInv, ~x17'
  PROVE  Apf!ToldInv'
<1> USE DEF Apf!lists, Apf!reqs, Apf!guest, Apf!word, Apf!TypeInv, Apf!FlagTypes, Apf!PlaceTypes, Apf!PageTypes, Apf!ToldInv
<1>0. CASE UNCHANGED Apf!vars  BY <1>0 DEF Apf!vars
<1>1. ASSUME NEW g \in Gfns, Apf!Work(g) PROVE Apf!ToldInv'  BY <1>1 DEF Apf!Work
<1>2. ASSUME NEW g \in Gfns, NEW d \in BOOLEAN, Apf!Fault(g, d) PROVE Apf!ToldInv'  BY <1>2 DEF Apf!Fault
<1>3. CASE Apf!RequestReady  BY <1>3 DEF Apf!RequestReady
<1>4. CASE Apf!Kick  BY <1>4 DEF Apf!Kick, Apf!WordInv, Apf!RestInv
<1>5. CASE Apf!CheckReady  BY <1>5 DEF Apf!CheckReady
<1>6. CASE Apf!Present
  <2>1. x14' = "complete"  BY <1>6 DEF Apf!Present
  <2> QED  BY <2>1
<1>7. CASE Apf!CompleteEnd  BY <1>7 DEF Apf!CompleteEnd, Apf!CanDequeue, Apf!WordInv
<1>8. CASE Apf!Halt  BY <1>8 DEF Apf!Halt
<1>9. CASE Apf!Block  BY <1>9 DEF Apf!Block, Apf!HasEvents
<1>10. CASE Apf!Enter  BY <1>10 DEF Apf!Enter
<1>11. CASE Apf!Exit  BY <1>11 DEF Apf!Exit
<1>12. ASSUME NEW o \in BOOLEAN, Apf!WakeUp(o) PROVE Apf!ToldInv'  BY <1>12 DEF Apf!WakeUp
<1>13. CASE Apf!Interrupt  BY <1>13 DEF Apf!Interrupt, Apf!WordInv
<1>14. CASE Apf!Clear  BY <1>14 DEF Apf!Clear
<1>15. CASE Apf!Ack  BY <1>15 DEF Apf!Ack
<1>16. CASE Apf!Enable  BY <1>16 DEF Apf!Enable, Apf!WordInv
<1>17. CASE Apf!Disable  BY <1>17 DEF Apf!Disable
<1> QED
  BY <1>0, <1>1, <1>2, <1>3, <1>4, <1>5, <1>6, <1>7, <1>8, <1>9, <1>10, <1>11, <1>12, <1>13,
     <1>14, <1>15, <1>16, <1>17 DEF Apf!Next

\* left stays once set.
LEMMA ApfLeft == ASSUME Apf!TypeInv, [Apf!Next]_(Apf!vars), x17 PROVE x17'
<1> USE DEF Apf!lists, Apf!reqs, Apf!guest, Apf!word, Apf!TypeInv, Apf!FlagTypes, Apf!PlaceTypes, Apf!PageTypes
<1>1. ASSUME NEW g \in Gfns, Apf!Work(g) \/ (\E d \in BOOLEAN : Apf!Fault(g, d)) PROVE x17'
  BY <1>1 DEF Apf!Work, Apf!Fault
<1>2. CASE Apf!RequestReady \/ Apf!Kick \/ Apf!CheckReady \/ Apf!Present
  BY <1>2 DEF Apf!RequestReady, Apf!Kick, Apf!CheckReady, Apf!Present
<1>3. CASE Apf!CompleteEnd \/ Apf!Halt \/ Apf!Block \/ Apf!Enter \/ Apf!Exit
  BY <1>3 DEF Apf!CompleteEnd, Apf!Halt, Apf!Block, Apf!Enter, Apf!Exit
<1>4. CASE Apf!Interrupt \/ Apf!Clear \/ Apf!Ack \/ Apf!Enable \/ Apf!Disable
  BY <1>4 DEF Apf!Interrupt, Apf!Clear, Apf!Ack, Apf!Enable, Apf!Disable
<1>5. ASSUME NEW o \in BOOLEAN, Apf!WakeUp(o) PROVE x17'  BY <1>5 DEF Apf!WakeUp
<1>6. CASE UNCHANGED Apf!vars  BY <1>6 DEF Apf!vars
<1> QED  BY <1>1, <1>2, <1>3, <1>4, <1>5, <1>6 DEF Apf!Next

LEMMA ApfStep == ASSUME Apf!Constants, Apf!ApfInv, [Apf!Next]_(Apf!vars) PROVE Apf!ApfInv'
<1>1. Apf!TypeInv'  BY ApfTypes DEF Apf!ApfInv
<1>2. ASSUME ~x17' PROVE Apf!WordInv' /\ Apf!RestInv' /\ Apf!WaitInv' /\ Apf!ToldInv'
  <2>1. ~x17  BY <1>2, ApfLeft DEF Apf!ApfInv
  <2> QED  BY <1>2, <2>1, ApfWord, ApfWait, ApfTold DEF Apf!ApfInv
<1> QED  BY <1>1, <1>2 DEF Apf!ApfInv

LEMMA ApfImplies == Apf!ApfInv => Apf!TaskIsWoken /\ Apf!VcpuIsTold
<1> SUFFICES ASSUME Apf!ApfInv PROVE Apf!TaskIsWoken /\ Apf!VcpuIsTold  OBVIOUS
<1>1. Apf!TaskIsWoken  BY DEF Apf!ApfInv, Apf!WaitInv, Apf!TaskIsWoken
<1>2. Apf!VcpuIsTold  BY DEF Apf!ApfInv, Apf!ToldInv, Apf!VcpuIsTold
<1> QED  BY <1>1, <1>2

(* A guest task that waits has its page fetched, completed, or its token in the   *)
(* word with the interrupt to come, and a completed page finds a vCPU that is or  *)
(* will be told (kvm_arch_async_page_present, kvm_check_async_pf_completion,      *)
(* kvm_arch_async_page_present_queued and the acknowledgement).                   *)
THEOREM AsyncPfCorrect ==
  ASSUME Apf!Constants PROVE Apf!Spec => [](Apf!TaskIsWoken /\ Apf!VcpuIsTold)
<1>1. Apf!ApfInv /\ [Apf!Next]_(Apf!vars) => Apf!ApfInv'  BY ApfStep
<1> QED  BY <1>1, ApfStart, ApfImplies, PTL DEF Apf!Spec

-----------------------------------------------------------------------------
(***************************************************************************)
(* SvmAsid: no vCPU uses translations of another or flushed ones, for any  *)
(* number of vCPUs, CPUs, ASIDs and generations.                           *)
(***************************************************************************)

(* pre_svm_run keeps the ASID a vCPU has, or hands out the next one, or starts a  *)
(* generation; VMRUN leaves part of the TLB.                                      *)
\* The step assigns v on c the ASID a of generation g, makes n the next ASID and keeps the entries left.
Assigned(v, c, a, g, n, left) ==
  /\ x5' = [x5 EXCEPT ![v] = a]
  /\ x2' = [x2 EXCEPT ![c] = g]
  /\ x3' = [x3 EXCEPT ![c] = n]
  /\ x4' = [x4 EXCEPT ![v] = g]
  /\ x11' = [x11 EXCEPT ![c] = left]
  /\ x7[v] = "asid" => \A e \in left : e.asid # a
  /\ \/ Asid!Holds(v, c) /\ a = x5[v] /\ g = x2[c] /\ n = x3[c]
     \/ a = x3[c] /\ n = a + 1 /\ g = x2[c]
     \/ a = MinAsid /\ n = a + 1 /\ g = x2[c] + 1 /\ left = {}

LEMMA AsidCases ==
  ASSUME Asid!TypeInv, Asid!Constants, NEW v \in Vcpus, Asid!EnterGuest(v)
  PROVE  /\ x9[v] \in Cpus /\ ~x10[v] /\ ~x8[v]
         /\ \E a \in Int, g \in Int, n \in Int, left \in SUBSET x11[x9[v]] :
              Assigned(v, x9[v], a, g, n, left)
<1> DEFINE c == x9[v]
           wrap == Asid!NeedsAsid(v) /\ Asid!Exhausted(v)
           a == IF ~Asid!NeedsAsid(v) THEN x5[v] ELSE IF wrap THEN MinAsid ELSE x3[c]
           g == IF wrap THEN x2[c] + 1 ELSE x2[c]
           n == IF Asid!NeedsAsid(v) THEN a + 1 ELSE x3[c]
           flush == IF wrap THEN "all" ELSE x7[v]
           left == CASE flush = "all" -> {}
                     [] flush = "asid" -> {e \in x11[c] : e.asid # a}
                     [] OTHER -> x11[c]
<1>1. c \in Cpus /\ ~x10[v] /\ ~x8[v]  BY DEF Asid!EnterGuest, Asid!TypeInv
<1>2. a \in Int /\ g \in Int /\ n \in Int  BY <1>1 DEF Asid!TypeInv, Asid!Constants
<1>3. /\ x5' = [x5 EXCEPT ![v] = a]
      /\ x2' = [x2 EXCEPT ![c] = g]
      /\ x3' = [x3 EXCEPT ![c] = n]
      /\ x4' = [x4 EXCEPT ![v] = g]
      /\ x11' = [x11 EXCEPT ![c] = left]
  <2>1. x2' = [x2 EXCEPT ![c] = g]  BY DEF Asid!EnterGuest
  <2>2. x2'[c] = g  BY <2>1, <1>1 DEF Asid!TypeInv
  <2>3. x4' = [x4 EXCEPT ![v] = x2'[c]]  BY DEF Asid!EnterGuest
  <2>4. x5' = [x5 EXCEPT ![v] = a] /\ x3' = [x3 EXCEPT ![c] = n]
        /\ x11' = [x11 EXCEPT ![c] = left]
    BY DEF Asid!EnterGuest
  <2> QED  BY <2>1, <2>2, <2>3, <2>4
<1>4. /\ flush = "all" => left = {}
      /\ flush = "asid" => left = {e \in x11[c] : e.asid # a}
      /\ flush \notin {"all", "asid"} => left = x11[c]
  OBVIOUS
<1>5. left \in SUBSET x11[c] /\ (x7[v] = "asid" => \A e \in left : e.asid # a)
  <2> HIDE DEF left, a
  <2>1. x7[v] = "asid" => flush \in {"all", "asid"}  OBVIOUS
  <2> HIDE DEF flush
  <2> QED  BY <1>4, <2>1
<1>6. \/ Asid!Holds(v, c) /\ a = x5[v] /\ g = x2[c] /\ n = x3[c]
      \/ a = x3[c] /\ n = a + 1 /\ g = x2[c]
      \/ a = MinAsid /\ n = a + 1 /\ g = x2[c] + 1 /\ left = {}
  <2>1. CASE ~Asid!NeedsAsid(v)
    <3>1. Asid!Holds(v, c)  BY <2>1 DEF Asid!NeedsAsid, Asid!Moved, Asid!Holds
    <3> QED  BY <2>1, <3>1
  <2>2. CASE Asid!NeedsAsid(v) /\ ~wrap  BY <2>2
  <2>3. CASE wrap
    <3>1. flush = "all"  BY <2>3
    <3>2. left = {}  BY <3>1, <1>4
    <3> HIDE DEF left
    <3> QED  BY <2>3, <3>2
  <2> QED  BY <2>1, <2>2, <2>3
<1> HIDE DEF a, g, n, left
<1>7. Assigned(v, c, a, g, n, left)  BY <1>3, <1>5, <1>6 DEF Assigned
<1> QED  BY <1>1, <1>2, <1>5, <1>7

LEMMA AsidInit == ASSUME Asid!Constants PROVE Asid!Init => Asid!AsidsInv
<1> SUFFICES ASSUME Asid!Init PROVE Asid!AsidsInv  OBVIOUS
<1>1. Asid!TypeInv  BY DEF Asid!Init, Asid!TypeInv, Asid!Constants
<1>2. /\ \A v \in Vcpus : x6[v] = None /\ x9[v] = None /\ ~x10[v]
      /\ \A c \in Cpus : c # None /\ x11[c] = {}
  BY DEF Asid!Init, Asid!Constants
<1> QED  BY <1>1, <1>2 DEF Asid!AsidsInv, Asid!LoadedInv, Asid!GenerationInv, Asid!AsidInv, Asid!TlbInv, Asid!Holds

LEMMA AsidTypes == ASSUME Asid!Constants, Asid!TypeInv, [Asid!Next]_(Asid!vars) PROVE Asid!TypeInv'
<1> USE DEF Asid!TypeInv
<1>1. CASE UNCHANGED Asid!vars  BY <1>1 DEF Asid!vars
<1>2. ASSUME NEW v \in Vcpus, Asid!EnterGuest(v) PROVE Asid!TypeInv'
  <2>1. /\ x1' = x1 /\ x8' = x8 /\ x9' = x9
        /\ x6' = [x6 EXCEPT ![v] = x9[v]]
        /\ x10' = [x10 EXCEPT ![v] = TRUE]
        /\ \E f \in {"all", x7[v]} : x7' = [x7 EXCEPT ![v] = f]
    BY <1>2 DEF Asid!EnterGuest
  <2>2. PICK a \in Int, g \in Int, n \in Int, left \in SUBSET x11[x9[v]] :
          Assigned(v, x9[v], a, g, n, left)
    BY <1>2, AsidCases
  <2>3. x9[v] \in Cpus  BY <1>2, AsidCases
  <2>4. x5' \in [Vcpus -> Int] /\ x4' \in [Vcpus -> Int]
        /\ x2' \in [Cpus -> Int] /\ x3' \in [Cpus -> Int]
    BY <2>2, <2>3 DEF Assigned
  <2>5. x11' \in [Cpus -> SUBSET [asid : Int, owner : Vcpus, mapped : BOOLEAN]]
    BY <2>2, <2>3 DEF Assigned
  <2> QED  BY <2>1, <2>3, <2>4, <2>5
<1>3. ASSUME NEW v \in Vcpus, NEW c \in Cpus, Asid!VcpuLoad(v, c) PROVE Asid!TypeInv'
  BY <1>3 DEF Asid!VcpuLoad
<1>4. ASSUME NEW v \in Vcpus, Asid!VcpuPut(v) PROVE Asid!TypeInv'  BY <1>4 DEF Asid!VcpuPut
<1>5. ASSUME NEW v \in Vcpus, Asid!Unmap(v) PROVE Asid!TypeInv'  BY <1>5 DEF Asid!Unmap
<1>6. ASSUME NEW v \in Vcpus, Asid!FlushTlbAsid(v) PROVE Asid!TypeInv'  BY <1>6 DEF Asid!FlushTlbAsid
<1>7. ASSUME NEW v \in Vcpus, Asid!Fill(v) PROVE Asid!TypeInv'
  <2>1. [asid |-> x5[v], owner |-> v, mapped |-> TRUE]
          \in [asid : Int, owner : Vcpus, mapped : BOOLEAN]
    OBVIOUS
  <2> QED  BY <1>7, <2>1 DEF Asid!Fill
<1>8. ASSUME NEW v \in Vcpus, Asid!ExitGuest(v) PROVE Asid!TypeInv'  BY <1>8 DEF Asid!ExitGuest
<1> QED  BY <1>1, <1>2, <1>3, <1>4, <1>5, <1>6, <1>7, <1>8 DEF Asid!Next

LEMMA AsidEnter ==
  ASSUME Asid!Constants, Asid!AsidsInv, NEW v \in Vcpus, Asid!EnterGuest(v), Asid!TypeInv'
  PROVE  Asid!LoadedInv' /\ Asid!GenerationInv' /\ Asid!AsidInv' /\ Asid!TlbInv'
<1> USE DEF Asid!AsidsInv
<1>0. PICK c \in Cpus : c = x9[v]  BY AsidCases
<1>1. c = x9[v] /\ c \in Cpus /\ ~x10[v] /\ ~x8[v]  BY <1>0, AsidCases
<1>i. PICK a \in Int, g \in Int, n \in Int, left \in SUBSET x11[c] : Assigned(v, c, a, g, n, left)
  BY <1>1, AsidCases
<1>2. /\ x5' = [x5 EXCEPT ![v] = a]
      /\ x2' = [x2 EXCEPT ![c] = g]
      /\ x3' = [x3 EXCEPT ![c] = n]
      /\ x4' = [x4 EXCEPT ![v] = g]
      /\ x11' = [x11 EXCEPT ![c] = left]
      /\ x7[v] = "asid" => \A e \in left : e.asid # a
      /\ \/ Asid!Holds(v, c) /\ a = x5[v] /\ g = x2[c] /\ n = x3[c]
         \/ a = x3[c] /\ n = a + 1 /\ g = x2[c]
         \/ a = MinAsid /\ n = a + 1 /\ g = x2[c] + 1 /\ left = {}
  BY <1>i DEF Assigned
<1>3. /\ x8' = x8 /\ x9' = x9
      /\ x6' = [x6 EXCEPT ![v] = c]
      /\ x10' = [x10 EXCEPT ![v] = TRUE]
      /\ \A w \in Vcpus : w # v => x7'[w] = x7[w]
  BY <1>1 DEF Asid!EnterGuest, Asid!TypeInv
\* What the step leaves alone, and what holds of v after it.
<1>4. \A w \in Vcpus \ {v} : \A d \in Cpus :
        /\ x5'[w] = x5[w] /\ x10'[w] = x10[w]
        /\ Asid!Holds(w, d)' => Asid!Holds(w, d) /\ x2'[d] = x2[d]
  <2> SUFFICES ASSUME NEW w \in Vcpus \ {v}, NEW d \in Cpus
               PROVE  /\ x5'[w] = x5[w] /\ x10'[w] = x10[w]
                      /\ Asid!Holds(w, d)' => Asid!Holds(w, d) /\ x2'[d] = x2[d]
    OBVIOUS
  <2>1. /\ x5'[w] = x5[w] /\ x10'[w] = x10[w]
        /\ x6'[w] = x6[w] /\ x4'[w] = x4[w]
    BY <1>2, <1>3 DEF Asid!TypeInv
  <2>2. CASE d # c
    BY <2>1, <2>2, <1>1, <1>2 DEF Asid!TypeInv, Asid!Holds
  <2>3. CASE d = c
    <3>1. x2'[d] = g /\ g >= x2[c]  BY <2>3, <1>1, <1>2 DEF Asid!TypeInv
    <3>2. x6[w] = c => x4[w] <= x2[c]
      BY <1>1 DEF Asid!GenerationInv
    <3> QED  BY <2>1, <2>3, <3>1, <3>2, <1>1, <1>2 DEF Asid!TypeInv, Asid!Holds
  <2> QED  BY <2>2, <2>3
<1>5. /\ x5'[v] = a /\ x6'[v] = c /\ x4'[v] = g /\ x2'[c] = g
      /\ x3'[c] = n /\ x11'[c] = left /\ x10'[v] /\ a < n
  BY <1>1, <1>2, <1>3 DEF Asid!TypeInv, Asid!AsidInv, Asid!Constants
<1>6. \A d \in Cpus \ {c} : /\ x11'[d] = x11[d] /\ x3'[d] = x3[d]
                            /\ x2'[d] = x2[d]
  BY <1>1, <1>2 DEF Asid!TypeInv
<1>7. \A d \in Cpus : Asid!Holds(v, d)' => d = c  BY <1>5 DEF Asid!Holds
<1>8. Asid!LoadedInv'
  <2>1. \A w, u \in Vcpus : w # u /\ x9'[w] = x9'[u] => x9'[w] = None
    BY <1>3 DEF Asid!LoadedInv
  <2>2. ASSUME NEW w \in Vcpus, x10'[w]
        PROVE  x9'[w] \in Cpus /\ Asid!Holds(w, x9[w])' /\ ~x8'[w]
    <3>1. CASE w = v  BY <3>1, <1>1, <1>3, <1>5 DEF Asid!Holds
    <3>2. CASE w # v
      <4>1. /\ x10[w] /\ x9[w] \in Cpus \ {c} /\ Asid!Holds(w, x9[w]) /\ ~x8[w]
        BY <2>2, <3>2, <1>1, <1>4, Asid!Constants DEF Asid!LoadedInv, Asid!Constants
      <4>2. x6'[w] = x6[w] /\ x4'[w] = x4[w]
        BY <3>2, <1>2, <1>3 DEF Asid!TypeInv
      <4> QED  BY <4>1, <4>2, <1>3, <1>6 DEF Asid!Holds
    <3> QED  BY <3>1, <3>2
  <2> QED  BY <2>1, <2>2 DEF Asid!LoadedInv
<1>9. Asid!GenerationInv'
  <2> SUFFICES ASSUME NEW w \in Vcpus, NEW d \in Cpus, x6'[w] = d
               PROVE  x4'[w] <= x2'[d]
    BY DEF Asid!GenerationInv
  <2>1. CASE w = v  BY <2>1, <1>2, <1>5
  <2>2. CASE w # v
    <3>1. x6[w] = d /\ x4'[w] = x4[w]
      BY <2>2, <1>2, <1>3 DEF Asid!TypeInv
    <3>2. x2'[d] >= x2[d]
      BY <1>1, <1>2 DEF Asid!TypeInv
    <3> QED  BY <3>1, <3>2, <1>2 DEF Asid!GenerationInv, Asid!TypeInv
  <2> QED  BY <2>1, <2>2
<1>10. left = {} \/ (g = x2[c] /\ n >= x3[c])
  BY <1>1, <1>2 DEF Asid!TypeInv
<1>11. ASSUME NEW w \in Vcpus \ {v}, Asid!Holds(w, c)'
       PROVE  x5[w] # a /\ x5[w] < n
  <2>1. Asid!Holds(w, c) /\ g = x2[c]  BY <1>1, <1>4, <1>5, <1>11
  <2>2. x5[w] < x3[c]  BY <2>1, <1>1 DEF Asid!AsidInv
  <2>3. Asid!Holds(v, c) => x5[w] # x5[v]  BY <2>1, <1>1 DEF Asid!AsidInv
  <2> QED  BY <2>1, <2>2, <2>3, <1>1, <1>2 DEF Asid!TypeInv
<1>12. Asid!AsidInv'
  <2>1. ASSUME NEW d \in Cpus, NEW e \in x11'[d] PROVE e.asid < x3'[d]
    <3>1. CASE d # c  BY <2>1, <3>1, <1>6 DEF Asid!AsidInv
    <3>2. CASE d = c
      <4>1. e \in x11[c] /\ n >= x3[c]  BY <2>1, <3>2, <1>5, <1>10
      <4>2. e.asid < x3[c] /\ e.asid \in Int  BY <4>1, <1>1 DEF Asid!AsidInv, Asid!TypeInv
      <4> QED  BY <4>1, <4>2, <3>2, <1>1, <1>2, <1>5 DEF Asid!TypeInv
    <3> QED  BY <3>1, <3>2
  <2>2. ASSUME NEW w \in Vcpus, NEW d \in Cpus, Asid!Holds(w, d)' PROVE x5'[w] < x3'[d]
    <3>1. CASE w = v  BY <2>2, <3>1, <1>5, <1>7
    <3>2. CASE w # v /\ d = c  BY <2>2, <3>2, <1>4, <1>5, <1>11
    <3>3. CASE w # v /\ d # c  BY <2>2, <3>3, <1>4, <1>6 DEF Asid!AsidInv
    <3> QED  BY <3>1, <3>2, <3>3
  <2>3. ASSUME NEW w \in Vcpus, NEW u \in Vcpus, NEW d \in Cpus,
               w # u, Asid!Holds(w, d)', Asid!Holds(u, d)'
        PROVE  x5'[w] # x5'[u]
    <3>1. CASE w = v  BY <2>3, <3>1, <1>4, <1>5, <1>7, <1>11
    <3>2. CASE u = v  BY <2>3, <3>2, <1>4, <1>5, <1>7, <1>11
    <3>3. CASE w # v /\ u # v  BY <2>3, <3>3, <1>4 DEF Asid!AsidInv
    <3> QED  BY <3>1, <3>2, <3>3
  <2> QED  BY <2>1, <2>2, <2>3 DEF Asid!AsidInv
<1>13. Asid!TlbInv'
  <2> SUFFICES ASSUME NEW w \in Vcpus, NEW d \in Cpus, Asid!Holds(w, d)',
                      NEW e \in x11'[d], e.asid = x5'[w]
               PROVE  /\ e.owner = w
                      /\ e.mapped \/ (~x10'[w] /\ (x8'[w] \/ x7'[w] = "asid"))
    BY DEF Asid!TlbInv
  <2>1. e \in x11[d]  BY <1>5, <1>6
  <2>2. CASE w # v
    BY <2>1, <2>2, <1>3, <1>4 DEF Asid!TlbInv
  <2>3. CASE w = v
    <3>1. d = c /\ e \in left /\ e.asid = a  BY <2>3, <1>5, <1>7
    <3>2. e.asid < x3[c] /\ e.asid \in Int /\ x3[c] \in Int
      BY <2>1, <3>1, <1>1 DEF Asid!AsidInv, Asid!TypeInv
    <3>3. Asid!Holds(v, c) /\ a = x5[v] /\ x7[v] # "asid"  BY <3>1, <3>2, <1>2
    <3> QED  BY <2>1, <2>3, <3>1, <3>3, <1>1 DEF Asid!TlbInv
  <2> QED  BY <2>2, <2>3
<1> QED  BY <1>8, <1>9, <1>12, <1>13

LEMMA AsidStep == ASSUME Asid!Constants, Asid!AsidsInv, [Asid!Next]_(Asid!vars) PROVE Asid!AsidsInv'
<1>1. Asid!TypeInv'  BY AsidTypes DEF Asid!AsidsInv
<1>2. Asid!TypeInv  BY DEF Asid!AsidsInv
<1> SUFFICES Asid!LoadedInv' /\ Asid!GenerationInv' /\ Asid!AsidInv' /\ Asid!TlbInv'  BY <1>1 DEF Asid!AsidsInv
<1>3. CASE UNCHANGED Asid!vars
  BY <1>3 DEF Asid!vars, Asid!AsidsInv, Asid!LoadedInv, Asid!GenerationInv, Asid!AsidInv, Asid!TlbInv, Asid!Holds
<1>4. ASSUME NEW v \in Vcpus, Asid!EnterGuest(v)
      PROVE  Asid!LoadedInv' /\ Asid!GenerationInv' /\ Asid!AsidInv' /\ Asid!TlbInv'
  BY <1>1, <1>4, AsidEnter
<1>5. ASSUME NEW v \in Vcpus, NEW c \in Cpus, Asid!VcpuLoad(v, c)
      PROVE  Asid!LoadedInv' /\ Asid!GenerationInv' /\ Asid!AsidInv' /\ Asid!TlbInv'
  <2>1. /\ x9' = [x9 EXCEPT ![v] = c] /\ x9[v] = None
        /\ \A w \in Vcpus : x9[w] # c
        /\ UNCHANGED <<x2, x3, x4, x5, x6, x7,
                       x8, x10, x11>>
    BY <1>5 DEF Asid!VcpuLoad
  <2>2. ~x10[v]  BY <2>1, Asid!Constants DEF Asid!AsidsInv, Asid!LoadedInv, Asid!Constants
  <2>3. Asid!LoadedInv'  BY <1>2, <2>1, <2>2 DEF Asid!AsidsInv, Asid!LoadedInv, Asid!Holds, Asid!TypeInv
  <2>4. Asid!GenerationInv' /\ Asid!AsidInv' /\ Asid!TlbInv'
    BY <2>1 DEF Asid!AsidsInv, Asid!GenerationInv, Asid!AsidInv, Asid!TlbInv, Asid!Holds
  <2> QED  BY <2>3, <2>4
<1>6. ASSUME NEW v \in Vcpus, Asid!VcpuPut(v)
      PROVE  Asid!LoadedInv' /\ Asid!GenerationInv' /\ Asid!AsidInv' /\ Asid!TlbInv'
  <2>1. /\ x9' = [x9 EXCEPT ![v] = None] /\ ~x10[v]
        /\ UNCHANGED <<x2, x3, x4, x5, x6, x7,
                       x8, x10, x11>>
    BY <1>6 DEF Asid!VcpuPut
  <2>2. Asid!LoadedInv'  BY <1>2, <2>1 DEF Asid!AsidsInv, Asid!LoadedInv, Asid!Holds, Asid!TypeInv
  <2>3. Asid!GenerationInv' /\ Asid!AsidInv' /\ Asid!TlbInv'
    BY <2>1 DEF Asid!AsidsInv, Asid!GenerationInv, Asid!AsidInv, Asid!TlbInv, Asid!Holds
  <2> QED  BY <2>2, <2>3
<1>7. ASSUME NEW v \in Vcpus, Asid!Unmap(v)
      PROVE  Asid!LoadedInv' /\ Asid!GenerationInv' /\ Asid!AsidInv' /\ Asid!TlbInv'
  <2>1. /\ ~x10[v] /\ x8' = [x8 EXCEPT ![v] = TRUE]
        /\ UNCHANGED <<x2, x3, x4, x5, x6, x7,
                       x9, x10>>
    BY <1>7 DEF Asid!Unmap
  <2>2. \A c \in Cpus : \A e \in x11'[c] : \E f \in x11[c] :
          e.asid = f.asid /\ e.owner = f.owner /\ (f.mapped /\ f.owner # v => e.mapped)
    BY <1>2, <1>7 DEF Asid!Unmap, Asid!TypeInv
  <2>3. Asid!LoadedInv' /\ Asid!GenerationInv'
    BY <1>2, <2>1 DEF Asid!AsidsInv, Asid!LoadedInv, Asid!GenerationInv, Asid!Holds, Asid!TypeInv
  <2>4. Asid!AsidInv'  BY <2>1, <2>2 DEF Asid!AsidsInv, Asid!AsidInv, Asid!Holds
  <2>5. Asid!TlbInv'
    <3> SUFFICES ASSUME NEW w \in Vcpus, NEW c \in Cpus, Asid!Holds(w, c)',
                        NEW e \in x11'[c], e.asid = x5'[w]
                 PROVE  /\ e.owner = w
                        /\ e.mapped \/ (~x10'[w] /\ (x8'[w] \/ x7'[w] = "asid"))
      BY DEF Asid!TlbInv
    <3>1. PICK f \in x11[c] : /\ e.asid = f.asid /\ e.owner = f.owner
                              /\ f.mapped /\ f.owner # v => e.mapped
      BY <2>2
    <3>2. /\ f.owner = w
          /\ f.mapped \/ (~x10[w] /\ (x8[w] \/ x7[w] = "asid"))
      BY <2>1, <3>1 DEF Asid!AsidsInv, Asid!TlbInv, Asid!Holds
    <3>3. x8'[v] /\ (w # v => x8'[w] = x8[w])  BY <1>2, <2>1 DEF Asid!TypeInv
    <3> QED  BY <2>1, <3>1, <3>2, <3>3
  <2> QED  BY <2>3, <2>4, <2>5
<1>8. ASSUME NEW v \in Vcpus, Asid!FlushTlbAsid(v)
      PROVE  Asid!LoadedInv' /\ Asid!GenerationInv' /\ Asid!AsidInv' /\ Asid!TlbInv'
  <2>1. /\ ~x10[v] /\ x8' = [x8 EXCEPT ![v] = FALSE]
        /\ UNCHANGED <<x2, x3, x5, x6, x9, x10, x11>>
        /\ \/ x7' = [x7 EXCEPT ![v] = "asid"] /\ UNCHANGED x4
           \/ /\ x4' = [x4 EXCEPT ![v] = x4[v] - 1]
              /\ UNCHANGED x7
    BY <1>8 DEF Asid!FlushTlbAsid
  <2>2. \A w \in Vcpus : \A c \in Cpus :
          Asid!Holds(w, c)' => Asid!Holds(w, c) /\ (w = v => x7'[w] = "asid")
    BY <1>2, <2>1 DEF Asid!AsidsInv, Asid!GenerationInv, Asid!Holds, Asid!TypeInv
  <2>3. \A w \in Vcpus \ {v} : x4'[w] = x4[w] /\ x7'[w] = x7[w]
    BY <1>2, <2>1 DEF Asid!TypeInv
  <2>4. Asid!LoadedInv'  BY <1>2, <2>1, <2>3 DEF Asid!AsidsInv, Asid!LoadedInv, Asid!Holds, Asid!TypeInv
  <2>5. Asid!GenerationInv'  BY <1>2, <2>1 DEF Asid!AsidsInv, Asid!GenerationInv, Asid!TypeInv
  <2>6. Asid!AsidInv'  BY <2>1, <2>2 DEF Asid!AsidsInv, Asid!AsidInv
  <2>7. Asid!TlbInv'  BY <1>2, <2>1, <2>2, <2>3 DEF Asid!AsidsInv, Asid!TlbInv, Asid!TypeInv
  <2> QED  BY <2>4, <2>5, <2>6, <2>7
<1>9. ASSUME NEW v \in Vcpus, Asid!Fill(v)
      PROVE  Asid!LoadedInv' /\ Asid!GenerationInv' /\ Asid!AsidInv' /\ Asid!TlbInv'
  <2>1. PICK new \in [asid : Int, owner : Vcpus, mapped : BOOLEAN] :
          /\ x10[v] /\ new.asid = x5[v] /\ new.owner = v /\ new.mapped
          /\ x11' = [x11 EXCEPT ![x9[v]] = x11[x9[v]] \cup {new}]
    BY <1>2, <1>9 DEF Asid!Fill, Asid!TypeInv
  <2>2. UNCHANGED <<x2, x3, x4, x5, x6, x7, x8,
                    x9, x10>>
    BY <1>9 DEF Asid!Fill
  <2>3. x9[v] \in Cpus /\ Asid!Holds(v, x9[v])  BY <2>1 DEF Asid!AsidsInv, Asid!LoadedInv
  <2>4. \A c \in Cpus : \A e \in x11'[c] : e \in x11[c] \/ (c = x9[v] /\ e = new)
    BY <1>2, <2>1, <2>3 DEF Asid!TypeInv
  <2>5. Asid!LoadedInv' /\ Asid!GenerationInv'
    BY <2>2 DEF Asid!AsidsInv, Asid!LoadedInv, Asid!GenerationInv, Asid!Holds
  <2>6. Asid!AsidInv'  BY <2>1, <2>2, <2>3, <2>4 DEF Asid!AsidsInv, Asid!AsidInv, Asid!Holds
  <2>7. Asid!TlbInv'
    <3>1. \A w \in Vcpus : Asid!Holds(w, x9[v]) /\ x5[w] = x5[v] => w = v
      BY <2>3 DEF Asid!AsidsInv, Asid!AsidInv
    <3> QED  BY <2>1, <2>2, <2>3, <2>4, <3>1 DEF Asid!AsidsInv, Asid!TlbInv, Asid!Holds
  <2> QED  BY <2>5, <2>6, <2>7
<1>10. ASSUME NEW v \in Vcpus, Asid!ExitGuest(v)
       PROVE  Asid!LoadedInv' /\ Asid!GenerationInv' /\ Asid!AsidInv' /\ Asid!TlbInv'
  <2>1. /\ x10[v] /\ x10' = [x10 EXCEPT ![v] = FALSE]
        /\ x7' = [x7 EXCEPT ![v] = "none"]
        /\ UNCHANGED <<x2, x3, x4, x5, x6, x8, x9,
                       x11>>
    BY <1>10 DEF Asid!ExitGuest
  <2>2. Asid!LoadedInv' /\ Asid!GenerationInv'
    BY <1>2, <2>1 DEF Asid!AsidsInv, Asid!LoadedInv, Asid!GenerationInv, Asid!Holds, Asid!TypeInv
  <2>3. Asid!AsidInv'  BY <2>1 DEF Asid!AsidsInv, Asid!AsidInv, Asid!Holds
  <2>4. Asid!TlbInv'  BY <1>2, <2>1 DEF Asid!AsidsInv, Asid!TlbInv, Asid!Holds, Asid!TypeInv
  <2> QED  BY <2>2, <2>3, <2>4
<1> QED  BY <1>3, <1>4, <1>5, <1>6, <1>7, <1>8, <1>9, <1>10 DEF Asid!Next

LEMMA AsidImplies == Asid!AsidsInv => Asid!OwnTranslations
BY DEF Asid!AsidsInv, Asid!LoadedInv, Asid!TlbInv, Asid!OwnTranslations

(* Every TLB entry a running guest can hit is its own and mapped                  *)
(* (svm_flush_tlb_asid, pre_svm_run and new_asid).                                *)
THEOREM SvmAsidCorrect ==
  ASSUME Asid!Constants PROVE Asid!Spec => []Asid!OwnTranslations
<1>1. Asid!Init => Asid!AsidsInv  BY AsidInit
<1>2. Asid!AsidsInv /\ [Asid!Next]_(Asid!vars) => Asid!AsidsInv'  BY AsidStep
<1> QED  BY <1>1, <1>2, AsidImplies, PTL DEF Asid!Spec
=============================================================================
