---------------------------- MODULE RdtscHandler ----------------------------
(***************************************************************************)
(* The RDTSC exit handler of vmx.c: every RDTSC of every guest exits and   *)
(* is answered with a counter that runs sixteen times slower than the      *)
(* host's.  Its state is static: one copy for all vCPUs of all VMs, read   *)
(* and written without a lock by handlers that run at the same time.       *)
(*                                                                         *)
(* Each action makes one access to the static variables.  The accesses     *)
(* and their order are those of gcc -O2 for x86: rdtsc_fake is loaded at   *)
(* most once and then kept in a register, stored after the gain and stored *)
(* again when it is capped.  The host's counters are synchronized: one     *)
(* clock, that starts anywhere and stops at a bound.                       *)
(***************************************************************************)
EXTENDS Integers

CONSTANTS
  Vcpus,       \* vCPUs of all VMs of the host
  Divisor,     \* 16 in the code
  Half,        \* 2^32: what RAX and RDX hold each
  MaxClock     \* bound: the host's counter

ASSUME RdtscAssumption ==
  /\ Divisor \in Nat \ {0} /\ Half \in Nat \ {0}
  /\ MaxClock \in Nat /\ MaxClock < Half * Half

VARIABLES
  clock,       \* the host's time-stamp counter
  print_once, rdtsc_fake, rdtsc_prev,      \* the static variables
  pc, rdtsc_real, fake, prev,              \* each handler's place and registers
  rax, rdx,                                \* the guest's registers
  origin,      \* history: where the slow counter started
  raced        \* history: two handlers have overlapped

shared == <<print_once, rdtsc_fake, rdtsc_prev>>
local == <<rdtsc_real, fake, prev>>
regs == <<rax, rdx>>
hist == <<origin, raced>>
vars == <<clock, shared, pc, local, regs, hist>>

Labels == {"guest", "first", "start", "clear", "seed", "load_prev", "load_fake",
           "gain", "cap", "finish"}

Init ==
  /\ clock \in 1..MaxClock
  /\ print_once = TRUE /\ rdtsc_fake = 0 /\ rdtsc_prev = 0
  /\ pc = [v \in Vcpus |-> "guest"]
  /\ rdtsc_real = [v \in Vcpus |-> 0] /\ fake = [v \in Vcpus |-> 0] /\ prev = [v \in Vcpus |-> 0]
  /\ rax = [v \in Vcpus |-> 0] /\ rdx = [v \in Vcpus |-> 0]
  /\ origin = 0 /\ raced = FALSE

Tick ==
  /\ clock < MaxClock
  /\ clock' = clock + 1
  /\ UNCHANGED <<shared, pc, local, regs, hist>>

Step(v, from, to) == pc[v] = from /\ pc' = [pc EXCEPT ![v] = to]

\* The exit: rdtsc_real = rdtsc().
ReadReal(v) ==
  /\ Step(v, "guest", "first")
  /\ rdtsc_real' = [rdtsc_real EXCEPT ![v] = clock]
  /\ raced' = (raced \/ \E w \in Vcpus : pc[w] # "guest")
  /\ UNCHANGED <<clock, shared, fake, prev, regs, origin>>

\* if(print_once).  Two handlers may both find it set.
First(v) ==
  /\ Step(v, "first", IF print_once THEN "start" ELSE "load_prev")
  /\ UNCHANGED <<clock, shared, local, regs, hist>>

\* After the printk: rdtsc_prev is loaded, print_once cleared, and the slow counter starts at
\* the handler's own reading.
Start(v) ==
  /\ Step(v, "start", "clear")
  /\ prev' = [prev EXCEPT ![v] = rdtsc_prev]
  /\ UNCHANGED <<clock, shared, rdtsc_real, fake, regs, hist>>

Clear(v) ==
  /\ Step(v, "clear", "seed")
  /\ print_once' = FALSE
  /\ UNCHANGED <<clock, rdtsc_fake, rdtsc_prev, local, regs, hist>>

Seed(v) ==
  /\ Step(v, "seed", "gain")
  /\ rdtsc_fake' = rdtsc_real[v]
  /\ fake' = [fake EXCEPT ![v] = rdtsc_real[v]]
  /\ origin' = rdtsc_real[v]
  /\ UNCHANGED <<clock, print_once, rdtsc_prev, rdtsc_real, prev, regs, raced>>

LoadPrev(v) ==
  /\ Step(v, "load_prev", "load_fake")
  /\ prev' = [prev EXCEPT ![v] = rdtsc_prev]
  /\ UNCHANGED <<clock, shared, rdtsc_real, fake, regs, hist>>

LoadFake(v) ==
  /\ Step(v, "load_fake", "gain")
  /\ fake' = [fake EXCEPT ![v] = rdtsc_fake]
  /\ UNCHANGED <<clock, shared, rdtsc_real, prev, regs, hist>>

\* Regressions: the whole difference is added; the sixteenth is assigned.
GainedAll(f, diff) == f + diff
GainedAssigned(f, diff) == diff \div Divisor

\* What the slow counter becomes: a sixteenth of what passed is added.
Gained(f, diff) == f + diff \div Divisor

\* A first reading or one not later than the last gains nothing.
Gain(v) ==
  /\ Step(v, "gain", "cap")
  /\ IF prev[v] # 0 /\ rdtsc_real[v] > prev[v]
     THEN /\ fake' = [fake EXCEPT ![v] = Gained(fake[v], rdtsc_real[v] - prev[v])]
          /\ rdtsc_fake' = fake'[v]
     ELSE UNCHANGED <<fake, rdtsc_fake>>
  /\ UNCHANGED <<clock, print_once, rdtsc_prev, rdtsc_real, prev, regs, hist>>

\* Regression: the comparison is the other way round.
AheadReversed(f, real) == f < real

\* if(rdtsc_fake > rdtsc_real).
Ahead(f, real) == f > real

\* The slow counter never runs ahead of the host's.
Cap(v) ==
  /\ Step(v, "cap", "finish")
  /\ IF Ahead(fake[v], rdtsc_real[v])
     THEN /\ fake' = [fake EXCEPT ![v] = rdtsc_real[v]]
          /\ rdtsc_fake' = rdtsc_real[v]
     ELSE UNCHANGED <<fake, rdtsc_fake>>
  /\ UNCHANGED <<clock, print_once, rdtsc_prev, rdtsc_real, prev, regs, hist>>

\* rdtsc_prev = rdtsc_real, the two halves to the guest.
Low(f) == f % Half
High(f) == (f \div Half) % Half

Finish(v) ==
  /\ Step(v, "finish", "guest")
  /\ rdtsc_prev' = rdtsc_real[v]
  /\ rax' = [rax EXCEPT ![v] = Low(fake[v])]
  /\ rdx' = [rdx EXCEPT ![v] = High(fake[v])]
  /\ UNCHANGED <<clock, print_once, rdtsc_fake, local, hist>>

Handler(v) == ReadReal(v) \/ First(v) \/ Start(v) \/ Clear(v) \/ Seed(v) \/ LoadPrev(v)
                \/ LoadFake(v) \/ Gain(v) \/ Cap(v) \/ Finish(v)

Next == Tick \/ \E v \in Vcpus : Handler(v)

Spec == Init /\ [][Next]_vars

-----------------------------------------------------------------------------
\* What the guest makes of its registers.
Seen(v) == rdx[v] * Half + rax[v]
Answered(v) == pc[v] = "finish" /\ pc'[v] = "guest"

\* handle_rdtsc: types of the static variables, the handlers' locals and the guest's registers.
\* rdtsc_fake itself may be ahead of the host's counter between the gain and the cap, and a
\* handler that loads it there adds to it.
TypeOK ==
  /\ clock \in 1..MaxClock
  /\ print_once \in BOOLEAN /\ rdtsc_fake \in Nat /\ rdtsc_prev \in 0..MaxClock
  /\ pc \in [Vcpus -> Labels]
  /\ rdtsc_real \in [Vcpus -> 0..MaxClock]
  /\ fake \in [Vcpus -> Nat] /\ prev \in [Vcpus -> 0..MaxClock]
  /\ rax \in [Vcpus -> 0..(Half - 1)] /\ rdx \in [Vcpus -> 0..(Half - 1)]
  /\ origin \in 0..MaxClock /\ raced \in BOOLEAN

\* handle_rdtsc's cap: whatever the handlers of other vCPUs stored in between, no guest is told
\* a time ahead of the host's counter at its own exit.
NotAhead == \A v \in Vcpus : Answered(v) => Seen(v)' <= rdtsc_real[v]
NeverAhead == [][NotAhead]_vars

\* handle_rdtsc's static counter: as long as no two handlers have overlapped, no guest is told
\* an earlier time than any guest was told before.
NotBack == \A v, w \in Vcpus : ~raced /\ Answered(v) => Seen(v)' >= Seen(w)
NeverBack == [][NotBack]_vars

\* handle_rdtsc's division by 16: as long as no two handlers have overlapped, the slow counter
\* has gained at most a sixteenth of what the host's did since the first RDTSC of all.
SlowRate ==
  ~raced /\ ~print_once /\ (\A v \in Vcpus : pc[v] = "guest") =>
    /\ rdtsc_fake >= origin
    /\ Divisor * (rdtsc_fake - origin) <= rdtsc_prev - origin
=============================================================================
