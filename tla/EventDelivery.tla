--------------------------- MODULE EventDelivery ---------------------------
(***************************************************************************)
(* What a virtual CPU promises its guest about exceptions, NMIs, SMIs and   *)
(* interrupts, independently of how KVM carries them around.  At most one  *)
(* event is in flight between "the guest was interrupted" and "its handler *)
(* was entered"; an acknowledged interrupt or an accepted NMI leaves that   *)
(* place only by being delivered or by an exception raised while it was    *)
(* being delivered.                                                        *)
(***************************************************************************)
EXTENDS Integers, FiniteSets

CONSTANTS Vectors,       \* interrupt vectors the local APIC can raise
          ExcVectors     \* exception vectors the guest can raise

VARIABLES
  irr,          \* interrupts raised and not acknowledged
  isr,          \* interrupts acknowledged and not ended by EOI
  nmiRaised,    \* an NMI is raised and not accepted
  smiRaised,    \* an SMI is raised and not accepted
  flight,       \* the event between acceptance and delivery
  rflags_if,    \* the guest's interrupt flag
  shadow,       \* the one-instruction shadow of STI or MOV SS
  inNmi,        \* the guest runs its NMI handler
  smm,          \* the guest runs its SMI handler
  stopped       \* shutdown, or handed to userspace for good

avars == <<irr, isr, nmiRaised, smiRaised, flight, rflags_if, shadow, inNmi, smm, stopped>>

NoEvent == [type |-> "none", vec |-> 0]
NmiEvent == [type |-> "nmi", vec |-> 0]
ExcEvent(v) == [type |-> "exc", vec |-> v]
IrqEvent(v) == [type |-> "irq", vec |-> v]

\* Priorities of the local APIC: a vector is serviceable above everything in service.
Serviceable(v) == v \in irr /\ \A w \in irr : w <= v /\ \A s \in isr : s < v

(* The architecture's table for an exception raised while another one is   *)
(* being delivered: #PF then #PF, #PF then contributory and contributory   *)
(* then contributory make a double fault; all else is serial.              *)
Contributory == {0, 10, 11, 12, 13}
DoubleFault(p, c) == \/ p \in Contributory /\ c \in Contributory
                     \/ p = 14 /\ c \in Contributory \cup {14}

AInit ==
  /\ irr = {} /\ isr = {} /\ flight = NoEvent
  /\ nmiRaised = FALSE /\ smiRaised = FALSE
  /\ rflags_if = FALSE /\ shadow = FALSE /\ inNmi = FALSE /\ smm = FALSE /\ stopped = FALSE

ARaiseIrq(v) ==
  /\ irr' = irr \cup {v}
  /\ UNCHANGED <<isr, nmiRaised, smiRaised, flight, rflags_if, shadow, inNmi, smm, stopped>>

ARaiseNmi ==
  /\ nmiRaised' = TRUE
  /\ UNCHANGED <<irr, isr, smiRaised, flight, rflags_if, shadow, inNmi, smm, stopped>>

ARaiseSmi ==
  /\ smiRaised' = TRUE
  /\ UNCHANGED <<irr, isr, nmiRaised, flight, rflags_if, shadow, inNmi, smm, stopped>>

\* An interrupt is acknowledged only when the guest can take it and nothing is in flight.
AAcceptIrq(v) ==
  /\ flight = NoEvent /\ Serviceable(v) /\ rflags_if /\ ~shadow
  /\ flight' = IrqEvent(v)
  /\ irr' = irr \ {v}
  /\ isr' = isr \cup {v}
  /\ UNCHANGED <<nmiRaised, smiRaised, rflags_if, shadow, inNmi, smm, stopped>>

\* An NMI is accepted only outside an NMI handler and outside SMM; a second one may be held.
AAcceptNmi ==
  /\ flight = NoEvent /\ nmiRaised /\ ~inNmi /\ ~smm /\ ~shadow
  /\ flight' = NmiEvent
  /\ nmiRaised' \in BOOLEAN
  /\ UNCHANGED <<irr, isr, smiRaised, rflags_if, shadow, inNmi, smm, stopped>>

\* SMM is entered between two events only.
AAcceptSmi ==
  /\ flight = NoEvent /\ smiRaised /\ ~smm
  /\ smm' = TRUE /\ smiRaised' \in BOOLEAN
  /\ rflags_if' = FALSE /\ shadow' = FALSE
  /\ UNCHANGED <<irr, isr, nmiRaised, flight, inNmi, stopped>>

ALeaveSmm ==
  /\ flight = NoEvent /\ smm
  /\ smm' = FALSE /\ rflags_if' \in BOOLEAN /\ shadow' = FALSE
  /\ UNCHANGED <<irr, isr, nmiRaised, smiRaised, flight, inNmi, stopped>>

\* An exception takes the place of whatever is in flight, or makes a double fault of it.
ARaiseException(c) ==
  /\ flight' = IF flight.type = "exc" /\ DoubleFault(flight.vec, c)
               THEN ExcEvent(8) ELSE ExcEvent(c)
  /\ ~(flight.type = "exc" /\ flight.vec = 8)
  /\ UNCHANGED <<irr, isr, nmiRaised, smiRaised, rflags_if, shadow, inNmi, smm, stopped>>

\* The guest's handler is entered.
ADeliver ==
  /\ flight # NoEvent
  /\ flight' = NoEvent
  /\ inNmi' = (inNmi \/ flight.type = "nmi")
  /\ rflags_if' \in BOOLEAN
  /\ shadow' = FALSE
  /\ UNCHANGED <<irr, isr, nmiRaised, smiRaised, smm, stopped>>

\* The guest runs: flags, IRET and EOI, never while an event is in flight.
AGuest ==
  /\ flight = NoEvent
  /\ rflags_if' \in BOOLEAN /\ shadow' \in BOOLEAN
  /\ inNmi' \in {inNmi, FALSE}
  /\ isr' \in {isr} \cup {isr \ {s} : s \in isr}
  /\ UNCHANGED <<irr, nmiRaised, smiRaised, flight, smm, stopped>>

\* Shutdown, or an emulation failure that gives the virtual CPU up.
AStop ==
  /\ stopped' = TRUE
  /\ flight' \in {flight, NoEvent}
  /\ UNCHANGED <<irr, isr, nmiRaised, smiRaised, rflags_if, shadow, inNmi, smm>>

ANext ==
  \/ \E v \in Vectors : ARaiseIrq(v) \/ AAcceptIrq(v)
  \/ ARaiseNmi \/ ARaiseSmi \/ AAcceptNmi \/ AAcceptSmi \/ ALeaveSmm
  \/ \E c \in ExcVectors : ARaiseException(c)
  \/ ADeliver \/ AGuest \/ AStop

ASpec == AInit /\ [][ANext]_avars
=============================================================================
