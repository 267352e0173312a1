--------------------------- MODULE SvmEventsProofs ---------------------------
(***************************************************************************)
(* Handlers return to the right place, NMIs do not nest and masked events  *)
(* have an exit due, on every kind of host and for any depth of            *)
(* interrupted contexts.  A cpu is used as a function on Fields.  The      *)
(* lemmas follow the code: what each helper of an entry does to the        *)
(* invariant, then completing an interrupted event, the exit handlers, the *)
(* delivery of an event, and the actions.                                  *)
(***************************************************************************)
EXTENDS SvmEvents, TLAPS

LEMMA FieldsAre ==
  /\ "rip" \in Fields /\ "if" \in Fields /\ "tf" \in Fields /\ "shadow" \in Fields
  /\ "gif" \in Fields /\ "inj" \in Fields /\ "info" \in Fields /\ "nextRip" \in Fields
  /\ "iret" \in Fields /\ "vintr" \in Fields /\ "stgi" \in Fields /\ "vnmiPending" \in Fields
  /\ "vnmiBlocking" \in Fields /\ "queue" \in Fields /\ "pending" \in Fields /\ "irq" \in Fields
  /\ "smi" \in Fields /\ "event" \in Fields /\ "smm" \in Fields /\ "insideNmi" \in Fields
  /\ "masked" \in Fields /\ "awaiting" \in Fields /\ "iretRip" \in Fields /\ "step" \in Fields
  /\ "guestTf" \in Fields /\ "soft" \in Fields
BY DEF Fields

\* What the invariant depends on, unchanged from s to t.
SameOk(s, t) ==
  /\ TypeOk(t) /\ t.pending = s.pending /\ t.vnmiPending = s.vnmiPending
  /\ t.rip = s.rip /\ t.nextRip = s.nextRip /\ t.soft = s.soft /\ t.inj = s.inj
  /\ t.info = s.info /\ t.queue = s.queue /\ t.if = s.if
  /\ t.smm = s.smm /\ t.insideNmi = s.insideNmi
  /\ t.iret = s.iret /\ t.masked = s.masked /\ t.awaiting = s.awaiting
  /\ t.vnmiBlocking = s.vnmiBlocking /\ t.iretRip = s.iretRip

LEMMA OkSame ==
  ASSUME NEW s, NEW t, SameOk(s, t), NEW h, NEW f, NEW n, NEW o, NEW kvm, Ok(s, h, f, n, o, kvm)
  PROVE  Ok(t, h, f, n, o, kvm)
<1>1. TypeOk(t)  BY DEF SameOk
<1>2. StackOk(t, h, f)  BY DEF SameOk, Ok, StackOk
<1>3. RipOk(t, h, kvm)  BY DEF SameOk, Ok, RipOk
<1>4. MaskOk(t, h, o, kvm)  BY DEF SameOk, Ok, MaskOk
<1>5. HandlerOk(t, h, f, n, o, kvm)  BY DEF SameOk, Ok, HandlerOk, NmiMask
<1>6. VnmiOk(t, h, f, n, kvm)  BY DEF SameOk, Ok, VnmiOk
<1> QED  BY <1>1, <1>2, <1>3, <1>4, <1>5, <1>6 DEF Ok

LEMMA DisableStepSame ==
  ASSUME NEW s, TypeOk(s) PROVE SameOk(s, DisableStep(s))
BY FieldsAre DEF DisableStep, TypeOk, SameOk
LEMMA SetGifSame ==
  ASSUME NEW s, TypeOk(s), NEW b PROVE SameOk(s, SetGif(s, b))
<1>0. TypeOk(s)  OBVIOUS
<1>1. CASE b
  <2> DEFINE e == s.event \/ s.smi \/ s.pending > 0 \/ s.irq
             v == ~host.vgif
             t == SetGif(s, b)
  <2>1. t = [s EXCEPT !.gif = TRUE, !.stgi = v, !.vintr = FALSE, !.event = e]
    BY <1>1, FieldsAre DEF SetGif, TypeOk
  <2> HIDE DEF e, v, t
  <2>2. t.pending = s.pending /\ t = [x \in Fields |-> t[x]]  BY <2>1, FieldsAre DEF TypeOk
  <2>3. /\ t.vnmiPending = s.vnmiPending
        /\ t.rip = s.rip /\ t.nextRip = s.nextRip /\ t.soft = s.soft /\ t.inj = s.inj
        /\ t.info = s.info /\ t.queue = s.queue /\ t.if = s.if
        /\ t.smm = s.smm /\ t.insideNmi = s.insideNmi
        /\ t.iret = s.iret /\ t.masked = s.masked /\ t.awaiting = s.awaiting
        /\ t.vnmiBlocking = s.vnmiBlocking /\ t.iretRip = s.iretRip
    BY <2>1, FieldsAre DEF TypeOk
  <2>4. TypeOk(t)  BY <1>0, <2>2, <2>3 DEF TypeOk
  <2> QED  BY <2>2, <2>3, <2>4 DEF SameOk, t
<1>2. CASE ~b
  BY <1>2, FieldsAre DEF SetGif, TypeOk, SameOk
<1> QED  BY <1>1, <1>2
LEMMA NmiWindowSame ==
  ASSUME NEW s, TypeOk(s) PROVE SameOk(s, EnableNmiWindow(s))
BY FieldsAre DEF EnableNmiWindow, TypeOk, SameOk
LEMMA IrqWindowSame ==
  ASSUME NEW s, TypeOk(s) PROVE SameOk(s, EnableIrqWindow(s))
BY FieldsAre DEF EnableIrqWindow, TypeOk, SameOk
LEMMA SmiWindowSame ==
  ASSUME NEW s, TypeOk(s) PROVE SameOk(s, EnableSmiWindow(s))
BY FieldsAre DEF EnableSmiWindow, TypeOk, SameOk
LEMMA EventSame ==
  ASSUME NEW s, TypeOk(s), NEW b PROVE SameOk(s, [s EXCEPT !.event = b])
BY FieldsAre DEF TypeOk, SameOk

LEMMA ProcessNmiOk ==
  ASSUME NEW s, queued \in Nat, NEW h, NEW f, NEW n, NEW o, Ok(s, h, f, n, o, TRUE),
         ArmedOk(s, f)
  PROVE  Ok(ProcessNmi(s), h, f, n, o, TRUE) /\ ArmedOk(ProcessNmi(s), f)
         /\ ProcessNmi(s).smm = s.smm
         /\ ProcessNmi(s).awaiting = s.awaiting
<1> DEFINE waits == IF s.vnmiPending THEN 1 ELSE 0
           limit == (IF NmiMask(s) \/ s.queue = "nmi" THEN 1 ELSE 2) - waits
           m == IF s.pending + queued < limit THEN s.pending + queued ELSE limit
           offered == host.vnmi /\ m > 0 /\ ~s.vnmiPending
           left == IF offered THEN m - 1 ELSE m
           b == s.vnmiPending \/ offered
           e == s.event \/ left > 0
           t == ProcessNmi(s)
<1>1. t = [s EXCEPT !.pending = left, !.vnmiPending = b, !.event = e]
  BY FieldsAre DEF ProcessNmi, Ok, TypeOk
<1>2. m \in Nat /\ m <= limit /\ limit \in 0..2  BY DEF Ok, TypeOk
<1>3. left \in Nat  BY <1>2
<1>4. host.vnmi => left <= 1 /\ (NmiMask(s) \/ s.queue = "nmi" => left = 0)
  <2> HIDE DEF m
  <2> QED  BY <1>2
<1>5. ~host.vnmi => ~b  BY DEF Ok, MaskOk
<1> HIDE DEF left, b, e, t
<1>6. /\ TypeOk(t) /\ t.pending = left /\ t.vnmiPending = b /\ t.event = e
      /\ t.rip = s.rip /\ t.nextRip = s.nextRip /\ t.soft = s.soft /\ t.inj = s.inj
      /\ t.info = s.info /\ t.queue = s.queue /\ t.if = s.if
      /\ t.smm = s.smm /\ t.insideNmi = s.insideNmi
      /\ t.iret = s.iret /\ t.masked = s.masked /\ t.awaiting = s.awaiting
      /\ t.vnmiBlocking = s.vnmiBlocking /\ t.iretRip = s.iretRip
      /\ t.gif = s.gif /\ t.stgi = s.stgi /\ t.vintr = s.vintr /\ t.irq = s.irq
  BY <1>1, <1>3, FieldsAre DEF Ok, TypeOk
<1>7. StackOk(t, h, f)  BY <1>6 DEF Ok, StackOk
<1>8. RipOk(t, h, TRUE)  BY <1>6 DEF Ok, RipOk
<1>9. MaskOk(t, h, o, TRUE)  BY <1>5, <1>6 DEF Ok, MaskOk
<1>10. HandlerOk(t, h, f, n, o, TRUE)  BY <1>6 DEF Ok, HandlerOk, NmiMask
<1>11. VnmiOk(t, h, f, n, TRUE)
  <2> SUFFICES ASSUME host.vnmi PROVE VnmiOk(t, h, f, n, TRUE)  BY DEF VnmiOk
  <2>1. s.vnmiBlocking => left = 0  BY <1>4 DEF NmiMask
  <2>2. t.inj # "nmi" /\ (t.queue = "nmi" => t.pending = 0)  BY <1>4, <1>6 DEF Ok, RipOk, Absent
  <2>3. t.smm => t.vnmiBlocking /\ t.inj = Absent /\ t.queue = Absent
    BY <1>6 DEF Ok, VnmiOk
  <2>4. t.pending <= 1 /\ ~(t.vnmiBlocking /\ t.pending > 0)  BY <1>4, <1>6, <2>1
  <2>5. /\ h = "smm" <=> t.smm
        /\ \A i \in DOMAIN f : f[i].rip # "smm"
    BY <1>6 DEF Ok, VnmiOk
  <2> QED  BY <2>2, <2>3, <2>4, <2>5 DEF VnmiOk
<1>12. ArmedOk(t, f)  BY <1>6 DEF e, ArmedOk, IrqArmed
<1> QED  BY <1>6, <1>7, <1>8, <1>9, <1>10, <1>11, <1>12 DEF Ok, t

LEMMA PushIs ==
  ASSUME NEW f, f \in Seq({f[i] : i \in DOMAIN f}), NEW g
  PROVE  LET e == Append(f, g) IN
         /\ e \in Seq({e[i] : i \in DOMAIN e}) /\ Len(e) = Len(f) + 1 /\ Len(f) \in Nat
         /\ DOMAIN e = 1..Len(f) + 1 /\ DOMAIN f = 1..Len(f)
         /\ \A i \in 1..Len(f) : e[i] = f[i]
         /\ e[Len(f) + 1] = g
<1> DEFINE F == {f[i] : i \in DOMAIN f} \cup {g}
           e == Append(f, g)
<1>1. f \in Seq(F)
  <2>1. f \in [1..Len(f) -> {f[i] : i \in DOMAIN f}] /\ Len(f) \in Nat  OBVIOUS
  <2>2. f \in [1..Len(f) -> F]  BY <2>1
  <2> QED  BY <2>1, <2>2
<1>2. g \in F  OBVIOUS
<1> HIDE DEF F
<1>3. /\ e \in Seq(F) /\ Len(e) = Len(f) + 1 /\ Len(f) \in Nat
      /\ DOMAIN e = 1..Len(f) + 1 /\ DOMAIN f = 1..Len(f)
      /\ \A i \in 1..Len(f) : e[i] = f[i]
      /\ e[Len(f) + 1] = g
  BY <1>1, <1>2
<1> HIDE DEF e
<1>4. e \in [1..Len(e) -> {e[i] : i \in DOMAIN e}] /\ Len(e) \in Nat  BY <1>3
<1>5. e \in Seq({e[i] : i \in DOMAIN e})  BY <1>4
<1> QED  BY <1>3, <1>5 DEF e

LEMMA PopIs ==
  ASSUME NEW f, f \in Seq({f[i] : i \in DOMAIN f}), f # <<>>
  PROVE  LET e == SubSeq(f, 1, Len(f) - 1) IN
         /\ e \in Seq({e[i] : i \in DOMAIN e}) /\ Len(e) = Len(f) - 1 /\ Len(f) \in Nat \ {0}
         /\ DOMAIN e = 1..Len(f) - 1 /\ DOMAIN f = 1..Len(f)
         /\ \A i \in 1..Len(f) - 1 : e[i] = f[i]
<1> DEFINE F == {f[i] : i \in DOMAIN f}
           e == SubSeq(f, 1, Len(f) - 1)
<1> HIDE DEF F
<1>1. f \in Seq(F)  BY DEF F
<1>2. Len(f) \in Nat \ {0} /\ DOMAIN f = 1..Len(f)  BY <1>1
<1>3. e \in Seq(F)  BY <1>1, <1>2
<1>4. Len(e) = Len(f) - 1 /\ DOMAIN e = 1..Len(f) - 1  BY <1>1, <1>2, <1>3
<1>5. \A i \in 1..Len(f) - 1 : e[i] = f[i]  BY <1>1, <1>2
<1> HIDE DEF e
<1>6. e \in [1..Len(e) -> {e[i] : i \in DOMAIN e}] /\ Len(e) \in Nat  BY <1>3
<1>7. e \in Seq({e[i] : i \in DOMAIN e})  BY <1>6
<1> QED  BY <1>2, <1>4, <1>5, <1>7 DEF e

\* A context pushed on a stack leaves one.
LEMMA PushStack ==
  ASSUME NEW s, NEW h, NEW f, StackOk(s, h, f), NEW g, g.rip \in Code \/ h \notin Code,
         g.rip \notin Code => ~g.if, NEW t, ~t.if, NEW k
  PROVE  StackOk(t, k, Append(f, g))
<1> DEFINE e == Append(f, g)
<1> HIDE DEF e
<1>1. /\ e \in Seq({e[i] : i \in DOMAIN e}) /\ Len(e) = Len(f) + 1 /\ Len(f) \in Nat
      /\ DOMAIN e = 1..Len(f) + 1 /\ DOMAIN f = 1..Len(f)
      /\ \A i \in 1..Len(f) : e[i] = f[i]
      /\ e[Len(f) + 1] = g
  BY PushIs DEF StackOk, e
<1>2. e # <<>>  BY <1>1
<1>3. e[1].rip \in Code
  <2>1. CASE f = <<>>
    <3>1. Len(f) = 0 /\ h \in Code  BY <2>1 DEF StackOk
    <3> QED  BY <1>1, <3>1
  <2>2. CASE f # <<>>
    <3>1. 1 \in 1..Len(f)  BY <1>1, <2>2 DEF StackOk
    <3> QED  BY <1>1, <2>2, <3>1 DEF StackOk
  <2> QED  BY <2>1, <2>2
<1>4. \A i \in DOMAIN e : e[i].rip \notin Code => ~e[i].if
  <2> SUFFICES ASSUME NEW i \in DOMAIN e PROVE e[i].rip \notin Code => ~e[i].if  OBVIOUS
  <2>1. i = Len(f) + 1 \/ i \in 1..Len(f)  BY <1>1
  <2> QED  BY <1>1, <2>1 DEF StackOk
<1> QED  BY <1>1, <1>2, <1>3, <1>4 DEF StackOk, e

LEMMA InjectNmiOk ==
  ASSUME NEW s, NEW h, NEW f, NEW n, NEW o, Ok(s, h, f, n, o, FALSE),
         s.inj = Absent, s.soft = NoSoft, ~s.awaiting, host.vnmi => s.pending = 0 /\ ~s.smm,
         ~(n /\ ~o)
  PROVE  LET t == InjectNmi(s) IN
         /\ Ok(t, h, f, n, o, FALSE) /\ t.inj = "nmi" /\ t.pending = s.pending
         /\ t.gif = s.gif /\ t.stgi = s.stgi /\ t.vintr = s.vintr /\ t.irq = s.irq
         /\ t.event = s.event /\ t.queue = s.queue /\ t.awaiting = s.awaiting
         /\ t.shadow = s.shadow /\ t.smm = s.smm
         /\ ~host.vnmi => t.masked /\ t.iret
<1> DEFINE t == InjectNmi(s)
<1>1. /\ TypeOk(t) /\ t.inj = "nmi" /\ t.pending = s.pending
      /\ t.gif = s.gif /\ t.stgi = s.stgi /\ t.vintr = s.vintr /\ t.irq = s.irq
      /\ t.event = s.event /\ t.queue = s.queue /\ t.awaiting = s.awaiting
      /\ t.shadow = s.shadow /\ t.smm = s.smm /\ t.rip = s.rip /\ t.soft = s.soft
      /\ t.info = s.info /\ t.if = s.if /\ t.nextRip = s.nextRip /\ t.iretRip = s.iretRip
      /\ t.vnmiPending = s.vnmiPending /\ t.vnmiBlocking = s.vnmiBlocking
      /\ t.insideNmi = s.insideNmi
  BY FieldsAre DEF InjectNmi, Ok, TypeOk, Held, Handlers
<1>2. IF host.vnmi THEN t.masked = s.masked /\ t.iret = s.iret ELSE t.masked /\ t.iret
  BY FieldsAre DEF InjectNmi, Ok, TypeOk
<1> HIDE DEF t
<1>3. StackOk(t, h, f)  BY <1>1 DEF Ok, StackOk
<1>4. RipOk(t, h, FALSE)  BY <1>1 DEF Ok, RipOk, Absent
<1>5. MaskOk(t, h, o, FALSE)  BY <1>1, <1>2 DEF Ok, MaskOk
<1>6. HandlerOk(t, h, f, n, o, FALSE)  BY DEF HandlerOk
<1>7. VnmiOk(t, h, f, n, FALSE)  BY <1>1 DEF Ok, VnmiOk
<1> QED  BY <1>1, <1>2, <1>3, <1>4, <1>5, <1>6, <1>7 DEF Ok, t

\* What injecting the queued event makes of s.
Requeued(s, t, h, f, n, o) ==
  /\ Ok(t, h, f, n, o, FALSE) /\ t.pending = s.pending
  /\ t.gif = s.gif /\ t.stgi = s.stgi /\ t.vintr = s.vintr /\ t.irq = s.irq
  /\ t.event = s.event /\ t.queue = s.queue /\ t.awaiting = s.awaiting /\ t.smm = s.smm
  /\ s.queue = Absent => t.inj = Absent /\ t.soft = NoSoft

LEMMA InjectOk ==
  ASSUME host.nrips => host.hw,
         NEW s, NEW h, NEW f, NEW n, NEW o, Ok(s, h, f, n, o, TRUE), NEW skips
  PROVE  Requeued(s, Inject(s, s.queue, skips), h, f, n, o)
<1> DEFINE t == Inject(s, s.queue, skips)
<1> USE DEF Requeued
<1>0. Ok(s, h, f, n, o, FALSE) /\ s.inj = Absent /\ s.soft = NoSoft
  BY DEF Ok, RipOk, MaskOk, HandlerOk, VnmiOk
<1>1. CASE s.queue = "nmi"
  <2>1. t = InjectNmi(s)  BY <1>1 DEF Inject
  <2>2. ~s.awaiting /\ (host.vnmi => s.pending = 0 /\ ~s.smm) /\ ~(n /\ ~o)
    BY <1>1 DEF Ok, MaskOk, VnmiOk, HandlerOk, Absent
  <2> HIDE DEF t
  <2>3. s.queue # Absent  BY <1>1 DEF Absent
  <2>4. /\ Ok(t, h, f, n, o, FALSE) /\ t.pending = s.pending
        /\ t.gif = s.gif /\ t.stgi = s.stgi /\ t.vintr = s.vintr /\ t.irq = s.irq
        /\ t.event = s.event /\ t.queue = s.queue /\ t.awaiting = s.awaiting /\ t.smm = s.smm
    BY <1>0, <2>1, <2>2, InjectNmiOk
  <2> QED  BY <2>3, <2>4 DEF t
<1>2. CASE s.queue = "soft" /\ skips
  <2> DEFINE r == SoftRip(s)
  <2>1. t = [SoftRip(s) EXCEPT !.inj = "soft"]  BY <1>2 DEF Inject
  <2>2. h = "int" /\ s.rip = "int" /\ (host.nrips => s.nextRip \in {Absent, "next"})
    BY <1>0, <1>2 DEF Ok, RipOk, Absent
  <2>3. r = [s EXCEPT !.soft = AtInt, !.rip = IF host.nrips THEN "int" ELSE "next",
                      !.nextRip = IF host.hw THEN "next" ELSE @,
                      !.shadow = @ /\ host.nrips]
    BY <2>2, FieldsAre DEF SoftRip, Successor, AtInt, Ok, TypeOk
  <2> HIDE DEF r
  <2>4. t = [r EXCEPT !.inj = "soft"]  BY <2>1 DEF r
  <2> HIDE DEF t
  <2>5. /\ t = [x \in Fields |-> t[x]] /\ t.inj = "soft" /\ t.pending = s.pending
        /\ t.gif = s.gif /\ t.stgi = s.stgi /\ t.vintr = s.vintr /\ t.irq = s.irq
        /\ t.event = s.event /\ t.queue = s.queue /\ t.awaiting = s.awaiting
        /\ t.smm = s.smm /\ t.info = s.info /\ t.if = s.if /\ t.iretRip = s.iretRip
        /\ t.vnmiPending = s.vnmiPending /\ t.vnmiBlocking = s.vnmiBlocking
        /\ t.insideNmi = s.insideNmi /\ t.masked = s.masked /\ t.iret = s.iret
        /\ t.soft = AtInt /\ t.rip = (IF host.nrips THEN "int" ELSE "next")
        /\ host.hw => t.nextRip = "next"
    BY <2>3, <2>4, FieldsAre DEF Ok, TypeOk
  <2>6. s.queue # Absent /\ s.queue # "nmi"  BY <1>2 DEF Absent
  <2>7. TypeOk(t)  BY <2>5 DEF Ok, TypeOk, Held, Handlers
  <2>8. StackOk(t, h, f)  BY <2>5 DEF Ok, StackOk
  <2>9. RipOk(t, h, FALSE)  BY <2>2, <2>5 DEF Ok, RipOk
  <2>10. MaskOk(t, h, o, FALSE)  BY <2>5 DEF Ok, MaskOk
  <2>11. HandlerOk(t, h, f, n, o, FALSE)  BY <2>6 DEF Ok, HandlerOk
  <2>12. VnmiOk(t, h, f, n, FALSE)  BY <2>5, <2>6 DEF Ok, VnmiOk
  <2> QED  BY <2>5, <2>6, <2>7, <2>8, <2>9, <2>10, <2>11, <2>12 DEF Ok, t
<1>3. CASE s.queue = "soft" /\ ~skips
  <2>1. t = s  BY <1>3 DEF Inject
  <2> HIDE DEF t
  <2> QED  BY <1>0, <2>1 DEF t
<1>4. CASE s.queue \notin {"nmi", "soft"}
  <2>1. t = [s EXCEPT !.inj = s.queue]  BY <1>4 DEF Inject
  <2> HIDE DEF t
  <2>2. /\ t = [x \in Fields |-> t[x]] /\ t.inj = s.queue /\ t.pending = s.pending
        /\ t.gif = s.gif /\ t.stgi = s.stgi /\ t.vintr = s.vintr /\ t.irq = s.irq
        /\ t.event = s.event /\ t.queue = s.queue /\ t.awaiting = s.awaiting
        /\ t.smm = s.smm /\ t.info = s.info /\ t.if = s.if /\ t.iretRip = s.iretRip
        /\ t.vnmiPending = s.vnmiPending /\ t.vnmiBlocking = s.vnmiBlocking
        /\ t.insideNmi = s.insideNmi /\ t.masked = s.masked /\ t.iret = s.iret
        /\ t.soft = s.soft /\ t.rip = s.rip /\ t.nextRip = s.nextRip
    BY <2>1, FieldsAre DEF Ok, TypeOk
  <2>7. TypeOk(t)  BY <2>2 DEF Ok, TypeOk
  <2>8. StackOk(t, h, f)  BY <2>2 DEF Ok, StackOk
  <2>9. RipOk(t, h, FALSE)  BY <1>0, <1>4, <2>2 DEF Ok, RipOk, Absent
  <2>10. MaskOk(t, h, o, FALSE)  BY <1>4, <2>2 DEF Ok, MaskOk
  <2>11. HandlerOk(t, h, f, n, o, FALSE)  BY <2>2 DEF Ok, HandlerOk, NmiMask
  <2>12. VnmiOk(t, h, f, n, FALSE)  BY <1>4, <2>2 DEF Ok, VnmiOk
  <2> QED  BY <1>0, <2>2, <2>7, <2>8, <2>9, <2>10, <2>11, <2>12 DEF Ok, t
<1> QED  BY <1>1, <1>2, <1>3, <1>4

\* Where the steps of kvm_check_and_inject_events have led.
Mid(t, h, f, o) ==
  /\ Ok(t.s, h, f, inNmi, o, FALSE)
  /\ t.can => t.s.inj = Absent /\ t.s.soft = NoSoft /\ t.s.queue = Absent
  /\ t.s.awaiting => h \notin Code
  /\ host.vgif \/ t.s.stgi

\* What overtaken becomes when an SMI is taken.
Passed(p, o, s) == p <=> (o \/ s.awaiting)

LEMMA EnterSmmOk ==
  ASSUME NEW s, NEW h, NEW f, NEW n, NEW o, Ok(s, h, f, n, o, FALSE), NEW g,
         NEW p, Passed(p, o, s), s.inj = Absent, s.soft = NoSoft, ~s.smm, s.awaiting => h \notin Code,
         g.rip = h, h \notin Code => ~g.if
  PROVE  LET t == EnterSmm(s) IN
         /\ Ok(t, "smm", Append(f, g), n, p, FALSE) /\ t.smm
         /\ t.inj = Absent /\ t.queue = s.queue /\ t.stgi = s.stgi
<1> DEFINE t == EnterSmm(s)
           i == NmiMask(s)
           e == Append(f, g)
<1>1. /\ TypeOk(t) /\ t.inj = s.inj /\ t.pending = s.pending /\ t.smm /\ ~t.if
      /\ t.gif = s.gif /\ t.stgi = s.stgi /\ t.queue = s.queue /\ t.awaiting = s.awaiting
      /\ t.rip = "smm" /\ t.soft = s.soft /\ t.info = s.info /\ t.nextRip = s.nextRip
      /\ t.iretRip = s.iretRip /\ t.vnmiPending = s.vnmiPending
  <2> DEFINE u == IF i THEN s ELSE SetNmiMask(s, TRUE)
  <2>1. /\ u = [x \in Fields |-> u[x]] /\ u.inj = s.inj /\ u.pending = s.pending
        /\ u.gif = s.gif /\ u.stgi = s.stgi /\ u.queue = s.queue /\ u.awaiting = s.awaiting
        /\ u.soft = s.soft /\ u.info = s.info /\ u.nextRip = s.nextRip
        /\ u.iretRip = s.iretRip /\ u.vnmiPending = s.vnmiPending
    BY FieldsAre DEF SetNmiMask, Ok, TypeOk
  <2>2. t = [u EXCEPT !.smi = FALSE, !.smm = TRUE, !.insideNmi = i, !.rip = "smm",
                      !.if = FALSE, !.tf = s.step, !.shadow = FALSE]
    BY DEF EnterSmm
  <2> HIDE DEF u, t, i
  <2>3. /\ t = [x \in Fields |-> t[x]] /\ t.inj = u.inj /\ t.pending = u.pending
        /\ t.gif = u.gif /\ t.stgi = u.stgi /\ t.queue = u.queue /\ t.awaiting = u.awaiting
        /\ t.rip = "smm" /\ t.soft = u.soft /\ t.info = u.info /\ t.nextRip = u.nextRip
        /\ t.iretRip = u.iretRip /\ t.vnmiPending = u.vnmiPending /\ t.smm /\ ~t.if
    BY <2>1, <2>2, FieldsAre
  <2> QED  BY <2>1, <2>3 DEF Ok, TypeOk
<1>2. (t.insideNmi <=> i) /\ NmiMask(t)
  BY FieldsAre DEF EnterSmm, SetNmiMask, NmiMask, Ok, TypeOk
<1>3. ~host.vnmi => IF s.masked THEN t.masked /\ t.iret = s.iret ELSE t.masked /\ t.iret
  BY FieldsAre DEF EnterSmm, SetNmiMask, NmiMask, Ok, TypeOk
<1>4. host.vnmi => t.iret = s.iret /\ t.masked = s.masked
  BY FieldsAre DEF EnterSmm, SetNmiMask, NmiMask, Ok, TypeOk
<1> HIDE DEF t, i, e
<1>5. /\ e \in Seq({e[k] : k \in DOMAIN e}) /\ Len(e) = Len(f) + 1 /\ Len(f) \in Nat
      /\ DOMAIN e = 1..Len(f) + 1 /\ DOMAIN f = 1..Len(f)
      /\ \A k \in 1..Len(f) : e[k] = f[k]
      /\ e[Len(f) + 1] = g
  BY PushIs DEF Ok, StackOk, e
<1>6. StackOk(t, "smm", e)  BY <1>1, PushStack DEF Ok, e
<1>7. RipOk(t, "smm", FALSE)  BY <1>1 DEF Ok, RipOk, Absent
<1>8. MaskOk(t, "smm", p, FALSE)
  <2>1. CASE host.vnmi  BY <1>1, <1>4, <2>1 DEF Ok, MaskOk, Absent, Passed
  <2>2. CASE ~host.vnmi  BY <1>1, <1>3, <2>2 DEF Ok, MaskOk, Absent, Passed
  <2> QED  BY <2>1, <2>2
<1>9. HandlerOk(t, "smm", e, n, p, FALSE)
  BY <1>1, <1>2, <1>5 DEF Ok, HandlerOk, Passed, i
<1>10. VnmiOk(t, "smm", e, n, FALSE)
  <2> SUFFICES ASSUME host.vnmi PROVE VnmiOk(t, "smm", e, n, FALSE)  BY DEF VnmiOk
  <2>1. t.pending <= 1 /\ t.inj # "nmi"  BY <1>1 DEF Ok, VnmiOk, Absent
  <2>2. t.vnmiBlocking  BY <1>2 DEF NmiMask
  <2>3. t.pending > 0 /\ t.insideNmi => n /\ StepPushed(e, Len(e) - 1)
    <3> SUFFICES ASSUME t.pending > 0 /\ t.insideNmi PROVE n /\ StepPushed(e, Len(e) - 1)
      OBVIOUS
    <3>1. s.vnmiBlocking /\ s.pending > 0  BY <1>1, <1>2 DEF NmiMask, i
    <3>2. n /\ \E k \in 1..Len(f) : f[k].tf  BY <3>1 DEF Ok, VnmiOk, StepPushed
    <3>3. Len(e) - 1 = Len(f)  BY <1>5
    <3> QED  BY <1>5, <3>2, <3>3 DEF StepPushed
  <2>4. \A k \in DOMAIN e : e[k].rip # "smm"
    <3>1. h # "smm" /\ \A k \in DOMAIN f : f[k].rip # "smm"  BY DEF Ok, VnmiOk
    <3> SUFFICES ASSUME NEW k \in DOMAIN e PROVE e[k].rip # "smm"  OBVIOUS
    <3>2. k = Len(f) + 1 \/ k \in 1..Len(f)  BY <1>5
    <3> QED  BY <1>5, <3>1, <3>2
  <2> QED  BY <1>1, <2>1, <2>2, <2>3, <2>4 DEF VnmiOk
<1> QED  BY <1>1, <1>6, <1>7, <1>8, <1>9, <1>10 DEF Ok, t, e

LEMMA SmiStepOk ==
  ASSUME NEW t, t = [s |-> t.s, can |-> t.can, busy |-> FALSE], NEW h, NEW f, NEW o,
         Mid(t, h, f, o), NEW p, Passed(p, o, t.s), NEW g, g.rip = h, h \notin Code => ~g.if
  PROVE  LET u == SmiStep(t) IN
         /\ u = [s |-> u.s, can |-> u.can, busy |-> u.busy]
         /\ \/ u.s.smm = t.s.smm /\ Mid(u, h, f, o)
            \/ u.s.smm /\ ~t.s.smm /\ Mid(u, "smm", Append(f, g), p)
<1> DEFINE u == SmiStep(t)
<1>1. CASE ~t.s.smi
  <2>1. u = t  BY <1>1 DEF SmiStep
  <2> HIDE DEF u
  <2> QED  BY <2>1 DEF u
<1>2. CASE t.s.smi /\ ~t.can
  <2>1. u = [t EXCEPT !.busy = TRUE]  BY <1>2 DEF SmiStep, Busy
  <2>2. u.s = t.s /\ u.can = t.can /\ u = [s |-> u.s, can |-> u.can, busy |-> u.busy]
    BY <2>1
  <2> HIDE DEF u
  <2>3. Mid(u, h, f, o)  BY <2>2 DEF Mid
  <2> QED  BY <2>2, <2>3 DEF u
<1>3. CASE t.s.smi /\ t.can /\ SmiBlocked(t.s)
  <2> DEFINE w == EnableSmiWindow(t.s)
  <2>1. u = [t EXCEPT !.s = w]  BY <1>3 DEF SmiStep
  <2>2. u.s = w /\ u.can = t.can /\ u = [s |-> u.s, can |-> u.can, busy |-> u.busy]
    BY <2>1
  <2>3. SameOk(t.s, w)  BY SmiWindowSame DEF Mid, Ok
  <2>4. t.s.stgi => w.stgi  BY FieldsAre DEF EnableSmiWindow, Mid, Ok, TypeOk
  <2> HIDE DEF u, w
  <2>5. Ok(w, h, f, inNmi, o, FALSE)  BY <2>3, OkSame DEF Mid
  <2>6. Mid(u, h, f, o)  BY <2>2, <2>3, <2>4, <2>5 DEF Mid, SameOk
  <2> QED  BY <2>2, <2>3, <2>6 DEF u, SameOk
<1>4. CASE t.s.smi /\ t.can /\ ~SmiBlocked(t.s)
  <2> DEFINE w == EnterSmm(t.s)
  <2>1. u = [t EXCEPT !.s = w, !.can = FALSE]  BY <1>4 DEF SmiStep
  <2>2. u.s = w /\ ~u.can /\ u = [s |-> u.s, can |-> u.can, busy |-> u.busy]
    BY <2>1
  <2>3. ~t.s.smm  BY <1>4 DEF SmiBlocked
  <2> HIDE DEF u, w
  <2>4. /\ Ok(w, "smm", Append(f, g), inNmi, p, FALSE) /\ w.smm
        /\ w.stgi = t.s.stgi
    <3> DEFINE r == t.s
    <3>1. /\ Ok(r, h, f, inNmi, o, FALSE) /\ r.inj = Absent /\ r.soft = NoSoft
          /\ (r.awaiting => h \notin Code) /\ ~r.smm /\ Passed(p, o, r)
      BY <1>4, <2>3 DEF Mid
    <3> HIDE DEF r
    <3>2. LET v == EnterSmm(r) IN
          /\ Ok(v, "smm", Append(f, g), inNmi, p, FALSE) /\ v.smm
          /\ v.inj = Absent /\ v.queue = r.queue /\ v.stgi = r.stgi
      BY <3>1, EnterSmmOk
    <3> QED  BY <3>2 DEF w, r
  <2>5. Mid(u, "smm", Append(f, g), p)  BY <2>2, <2>4 DEF Mid, Code
  <2> QED  BY <2>2, <2>3, <2>4, <2>5 DEF u
<1> QED  BY <1>1, <1>2, <1>3, <1>4

\* After the NMI step, and after the interrupt's.
Looked(t, f) ==
  /\ t.s.pending > 0 => t.busy \/ NmiArmed(t.s, f)
  /\ t.s.inj # Absent /\ t.s.pending > 0 => t.busy \/ (NmiMask(t.s) /\ (t.s.iret \/ t.s.smm))
  /\ t.can /\ t.s.pending > 0 => t.busy \/ NmiBlocked(t.s)

LEMMA NmiWindowArms ==
  ASSUME NEW s, NEW h, NEW f, NEW n, NEW o, Ok(s, h, f, n, o, FALSE), s.pending > 0
  PROVE  NmiArmed(EnableNmiWindow(s), f)
<1> DEFINE t == EnableNmiWindow(s)
<1>1. CASE NmiMask(s) /\ ~s.awaiting
  <2>1. t = s  BY <1>1 DEF EnableNmiWindow
  <2>2. CASE host.vnmi /\ ~s.smm
    <3>1. \E i \in 1..Len(f) : f[i].tf  BY <1>1, <2>2 DEF Ok, VnmiOk, StepPushed, NmiMask
    <3>2. f \in Seq({f[i] : i \in DOMAIN f})  BY DEF Ok, StackOk
    <3>3. DOMAIN f = 1..Len(f)  BY <3>2
    <3> QED  BY <2>1, <3>1, <3>3 DEF NmiArmed
  <2>3. CASE ~host.vnmi
    <3>1. s.iret  BY <1>1, <2>3 DEF Ok, MaskOk, NmiMask
    <3> QED  BY <1>1, <2>1, <3>1 DEF NmiArmed
  <2>4. CASE s.smm
    BY <1>1, <2>1, <2>4 DEF NmiArmed
  <2> QED  BY <2>2, <2>3, <2>4
<1>2. CASE ~(NmiMask(s) /\ ~s.awaiting) /\ ~s.gif
  <2>1. t = [s EXCEPT !.stgi = TRUE]  BY <1>2 DEF EnableNmiWindow
  <2>2. t.stgi /\ ~t.gif  BY <1>2, <2>1, FieldsAre DEF Ok, TypeOk
  <2> QED  BY <2>2 DEF NmiArmed
<1>3. CASE ~(NmiMask(s) /\ ~s.awaiting) /\ s.gif
  <2>1. t = [s EXCEPT !.step = TRUE, !.guestTf = GuestTf(s), !.tf = TRUE]
    BY <1>3 DEF EnableNmiWindow
  <2>2. t.tf  BY <2>1, FieldsAre DEF Ok, TypeOk
  <2> QED  BY <2>2 DEF NmiArmed
<1> QED  BY <1>1, <1>2, <1>3

LEMMA NmiWindowKeeps ==
  ASSUME NEW s, TypeOk(s)
  PROVE  LET t == EnableNmiWindow(s) IN
         /\ t.gif = s.gif /\ t.shadow = s.shadow /\ t.irq = s.irq /\ t.vintr = s.vintr
         /\ s.stgi => t.stgi
BY FieldsAre DEF EnableNmiWindow, TypeOk

LEMMA NmiStepOk ==
  ASSUME NEW t, t = [s |-> t.s, can |-> t.can, busy |-> t.busy], NEW h, NEW f, NEW o,
         Mid(t, h, f, o)
  PROVE  LET u == NmiStep(t) IN
         /\ u = [s |-> u.s, can |-> u.can, busy |-> u.busy]
         /\ u.s.smm = t.s.smm /\ Mid(u, h, f, o) /\ (t.busy /\ ~t.can => ~u.can) /\ Looked(u, f)
<1> DEFINE u == NmiStep(t)
<1>1. CASE t.busy \/ t.s.pending = 0
  <2>1. u = t  BY <1>1 DEF NmiStep
  <2>2. Looked(t, f)  BY <1>1 DEF Looked
  <2> HIDE DEF u
  <2> QED  BY <2>1, <2>2 DEF u
<1>2. CASE ~(t.busy \/ t.s.pending = 0) /\ ~t.can
  <2>1. u = [t EXCEPT !.busy = TRUE]  BY <1>2 DEF NmiStep, Busy
  <2>2. u.s = t.s /\ u.can = t.can /\ u.busy /\ u = [s |-> u.s, can |-> u.can, busy |-> u.busy]
    BY <2>1
  <2> HIDE DEF u
  <2>3. Mid(u, h, f, o)  BY <2>2 DEF Mid
  <2>4. Looked(u, f)  BY <2>2 DEF Looked
  <2> QED  BY <1>2, <2>2, <2>3, <2>4 DEF u
<1>3. CASE ~(t.busy \/ t.s.pending = 0) /\ t.can /\ NmiBlocked(t.s)
  <2> DEFINE r == t.s
             w == EnableNmiWindow(r)
  <2>0. Ok(r, h, f, inNmi, o, FALSE) /\ r.pending > 0 /\ TypeOk(r)
    <3>1. Ok(r, h, f, inNmi, o, FALSE)  BY DEF Mid
    <3>2. TypeOk(r)  BY <3>1 DEF Ok
    <3>3. r.pending \in Nat  BY <3>2 DEF TypeOk
    <3>4. r.pending # 0  BY <1>3
    <3> HIDE DEF r
    <3>5. r.pending > 0  BY <3>3, <3>4
    <3> QED  BY <3>1, <3>2, <3>5
  <2>1. u = [t EXCEPT !.s = w, !.can = TRUE]
    <3>1. u = [t EXCEPT !.s = IF r.pending > 0 THEN EnableNmiWindow(r) ELSE r,
                        !.can = NmiBlocked(r)]
      BY <1>3 DEF NmiStep
    <3> QED  BY <1>3, <2>0, <3>1
  <2>2. u.s = w /\ u.can /\ u.busy = t.busy /\ u = [s |-> u.s, can |-> u.can, busy |-> u.busy]
    BY <2>1
  <2> HIDE DEF u, w, r
  <2>3. SameOk(r, w)  BY <2>0, NmiWindowSame DEF w
  <2>4. Ok(w, h, f, inNmi, o, FALSE)  BY <2>0, <2>3, OkSame
  <2>5. NmiArmed(w, f)  BY <2>0, NmiWindowArms DEF w
  <2>6. w.gif = r.gif /\ w.shadow = r.shadow /\ (r.stgi => w.stgi)
    BY <2>0, NmiWindowKeeps DEF w
  <2>7. Mid(u, h, f, o)  BY <1>3, <2>2, <2>3, <2>4, <2>6 DEF Mid, SameOk, r
  <2>8. w.inj = Absent /\ NmiBlocked(w) /\ w.smm = r.smm
    BY <1>3, <2>3, <2>6 DEF Mid, SameOk, NmiBlocked, NmiMask, r
  <2>9. Looked(u, f)  BY <2>2, <2>5, <2>8 DEF Looked
  <2> QED  BY <1>3, <2>2, <2>7, <2>8, <2>9 DEF u, r
<1>4. CASE ~(t.busy \/ t.s.pending = 0) /\ t.can /\ ~NmiBlocked(t.s)
  <2> DEFINE r == t.s
             m == r.pending - 1
             q == [r EXCEPT !.pending = m, !.queue = "nmi"]
             v == InjectNmi(q)
             w == IF v.pending > 0 THEN EnableNmiWindow(v) ELSE v
  <2>0. /\ Ok(r, h, f, inNmi, o, FALSE) /\ r.pending > 0 /\ TypeOk(r) /\ ~NmiMask(r)
        /\ r.inj = Absent /\ r.soft = NoSoft
    <3>1. Ok(r, h, f, inNmi, o, FALSE) /\ r.inj = Absent /\ r.soft = NoSoft
      BY <1>4 DEF Mid
    <3>2. TypeOk(r) /\ ~NmiMask(r)  BY <1>4, <3>1 DEF Ok, NmiBlocked
    <3>3. r.pending \in Nat  BY <3>2 DEF TypeOk
    <3>4. r.pending # 0  BY <1>4
    <3> HIDE DEF r
    <3>5. r.pending > 0  BY <3>3, <3>4
    <3> QED  BY <3>1, <3>2, <3>5
  <2>1. u = [t EXCEPT !.s = w, !.can = FALSE]
    <3> DEFINE b == NmiBlocked(r)
    <3>1. ~t.busy /\ t.s.pending # 0 /\ t.can /\ ~b  BY <1>4
    <3>2. u = LET x == IF b THEN r ELSE v
              IN [t EXCEPT !.s = IF x.pending > 0 THEN EnableNmiWindow(x) ELSE x, !.can = b]
      BY <3>1 DEF NmiStep
    <3>3. b = FALSE  BY <3>1 DEF NmiBlocked
    <3> HIDE DEF b, r, v
    <3> QED  BY <3>2, <3>3
  <2>2. u.s = w /\ ~u.can /\ u.busy = t.busy /\ u = [s |-> u.s, can |-> u.can, busy |-> u.busy]
    BY <2>1
  <2> HIDE DEF u, w, v, q, r
  <2>3. /\ TypeOk(q) /\ q.inj = r.inj /\ q.pending = r.pending - 1
        /\ q.gif = r.gif /\ q.stgi = r.stgi /\ q.vintr = r.vintr /\ q.irq = r.irq
        /\ q.awaiting = r.awaiting
        /\ q.shadow = r.shadow /\ q.smm = r.smm /\ q.rip = r.rip /\ q.soft = r.soft
        /\ q.info = r.info /\ q.if = r.if /\ q.nextRip = r.nextRip /\ q.iretRip = r.iretRip
        /\ q.vnmiPending = r.vnmiPending /\ q.vnmiBlocking = r.vnmiBlocking
        /\ q.insideNmi = r.insideNmi /\ q.masked = r.masked /\ q.iret = r.iret
    <3>1. m \in Nat  BY <2>0 DEF TypeOk
    <3> HIDE DEF m
    <3>2. /\ TypeOk(q) /\ q.inj = r.inj /\ q.pending = m
          /\ q.gif = r.gif /\ q.stgi = r.stgi /\ q.vintr = r.vintr /\ q.irq = r.irq
          /\ q.awaiting = r.awaiting
          /\ q.shadow = r.shadow /\ q.smm = r.smm /\ q.rip = r.rip /\ q.soft = r.soft
          /\ q.info = r.info /\ q.if = r.if /\ q.nextRip = r.nextRip /\ q.iretRip = r.iretRip
          /\ q.vnmiPending = r.vnmiPending /\ q.vnmiBlocking = r.vnmiBlocking
          /\ q.insideNmi = r.insideNmi /\ q.masked = r.masked /\ q.iret = r.iret
      BY <2>0, <3>1, FieldsAre DEF q, TypeOk, Held, Handlers
    <3> QED  BY <3>2 DEF m
  <2>4. ~r.awaiting /\ (host.vnmi => r.pending = 1 /\ ~r.smm) /\ ~(inNmi /\ ~o)
    <3>1. ~r.awaiting  BY <2>0 DEF Ok, MaskOk, NmiMask
    <3>2. host.vnmi => ~r.smm /\ r.pending <= 1  BY <2>0 DEF Ok, VnmiOk, NmiMask
    <3>3. ~(inNmi /\ ~o)  BY <2>0 DEF Ok, HandlerOk
    <3> QED  BY <2>0, <3>1, <3>2, <3>3 DEF TypeOk
  <2>5. Ok(q, h, f, inNmi, o, FALSE)
    <3>1. StackOk(q, h, f)  BY <2>0, <2>3 DEF Ok, StackOk
    <3>2. RipOk(q, h, FALSE)  BY <2>0, <2>3 DEF Ok, RipOk
    <3>3. MaskOk(q, h, o, FALSE)  BY <2>0, <2>3 DEF Ok, MaskOk
    <3>4. HandlerOk(q, h, f, inNmi, o, FALSE)  BY <2>4 DEF HandlerOk
    <3>5. VnmiOk(q, h, f, inNmi, FALSE)  BY <2>0, <2>3, <2>4 DEF Ok, VnmiOk, TypeOk, Absent
    <3> QED  BY <2>3, <3>1, <3>2, <3>3, <3>4, <3>5 DEF Ok
  <2>6. /\ Ok(v, h, f, inNmi, o, FALSE) /\ v.inj = "nmi" /\ v.pending = q.pending
        /\ v.stgi = q.stgi /\ v.awaiting = q.awaiting /\ v.smm = q.smm
        /\ ~host.vnmi => v.masked /\ v.iret
    <3>1. q.inj = Absent /\ q.soft = NoSoft /\ ~q.awaiting /\ (host.vnmi => q.pending = 0 /\ ~q.smm)
      BY <2>0, <2>3, <2>4
    <3> QED  BY <2>4, <2>5, <3>1, InjectNmiOk DEF v
  <2>7. SameOk(v, w) /\ (v.stgi => w.stgi)
    <3>1. TypeOk(v)  BY <2>6 DEF Ok
    <3>2. CASE v.pending > 0
      <4>1. w = EnableNmiWindow(v)  BY <3>2 DEF w
      <4> QED  BY <3>1, <4>1, NmiWindowSame, NmiWindowKeeps
    <3>3. CASE ~(v.pending > 0)
      <4>1. w = v  BY <3>3 DEF w
      <4> QED  BY <3>1, <4>1 DEF SameOk
    <3> QED  BY <3>2, <3>3
  <2>8. Ok(w, h, f, inNmi, o, FALSE)  BY <2>6, <2>7, OkSame
  <2>9. Mid(u, h, f, o)  BY <1>4, <2>2, <2>3, <2>4, <2>6, <2>7, <2>8 DEF Mid, SameOk, r
  <2>10. w.pending > 0 => NmiMask(w) /\ w.iret
    <3>1. w.pending > 0 => ~host.vnmi  BY <2>3, <2>4, <2>6, <2>7 DEF SameOk
    <3> QED  BY <2>6, <2>7, <3>1 DEF SameOk, NmiMask
  <2>11. Looked(u, f)  BY <2>2, <2>10 DEF Looked, NmiArmed
  <2>12. w.smm = r.smm  BY <2>3, <2>6, <2>7 DEF SameOk
  <2> QED  BY <1>4, <2>2, <2>9, <2>11, <2>12 DEF u, r
<1> QED  BY <1>1, <1>2, <1>3, <1>4

Armed(t, f) ==
  /\ t.s.pending > 0 => t.busy \/ NmiArmed(t.s, f)
  /\ t.s.irq => t.busy \/ IrqArmed(t.s)
  /\ t.s.inj # Absent /\ t.s.pending > 0 => t.busy \/ (NmiMask(t.s) /\ (t.s.iret \/ t.s.smm))

LEMMA IrqStepOk ==
  ASSUME NEW t, t = [s |-> t.s, can |-> t.can, busy |-> t.busy], NEW h, NEW f, NEW o,
         Mid(t, h, f, o), Looked(t, f)
  PROVE  LET u == IrqStep(t) IN
         /\ u = [s |-> u.s, can |-> u.can, busy |-> u.busy]
         /\ u.s.smm = t.s.smm /\ Ok(u.s, h, f, inNmi, o, FALSE) /\ (host.vgif \/ u.s.stgi)
         /\ Armed(u, f)
<1> DEFINE u == IrqStep(t)
<1>1. CASE t.busy \/ ~t.s.irq
  <2>1. u = t  BY <1>1 DEF IrqStep
  <2>2. Armed(t, f)  BY <1>1 DEF Looked, Armed
  <2> HIDE DEF u
  <2> QED  BY <2>1, <2>2 DEF u, Mid
<1>2. CASE ~(t.busy \/ ~t.s.irq) /\ ~t.can
  <2>1. u = [t EXCEPT !.busy = TRUE]  BY <1>2 DEF IrqStep, Busy
  <2>2. u.s = t.s /\ u.can = t.can /\ u.busy /\ u = [s |-> u.s, can |-> u.can, busy |-> u.busy]
    BY <2>1
  <2> HIDE DEF u
  <2>3. Armed(u, f)  BY <2>2 DEF Armed
  <2> QED  BY <2>2, <2>3 DEF u, Mid
<1>3. CASE ~(t.busy \/ ~t.s.irq) /\ t.can /\ IrqBlocked(t.s)
  <2> DEFINE r == t.s
             w == EnableIrqWindow(r)
  <2>1. u = [t EXCEPT !.s = w]  BY <1>3 DEF IrqStep
  <2>2. u.s = w /\ u.busy = t.busy /\ u = [s |-> u.s, can |-> u.can, busy |-> u.busy]
    BY <2>1
  <2> HIDE DEF u, w, r
  <2>3. Ok(r, h, f, inNmi, o, FALSE) /\ TypeOk(r) /\ (host.vgif \/ r.stgi)
    BY DEF Mid, Ok, r
  <2>4. SameOk(r, w)  BY <2>3, IrqWindowSame DEF w
  <2>5. Ok(w, h, f, inNmi, o, FALSE)  BY <2>3, <2>4, OkSame
  <2>6. w.gif = r.gif /\ w.stgi = r.stgi /\ w.tf = r.tf /\ w.shadow = r.shadow
    BY <2>3, FieldsAre DEF w, EnableIrqWindow, TypeOk
  <2>7. IrqArmed(w)
    <3>1. w.vintr \/ (~host.vgif /\ ~r.gif)
      BY <2>3, FieldsAre DEF w, EnableIrqWindow, TypeOk
    <3> QED  BY <2>3, <2>6, <3>1 DEF IrqArmed
  <2>8. NmiArmed(r, f) => NmiArmed(w, f)
    BY <2>4, <2>6 DEF NmiArmed, NmiMask, SameOk
  <2>9. Armed(u, f)
    BY <2>2, <2>4, <2>7, <2>8 DEF Looked, Armed, SameOk, NmiMask, r
  <2> QED  BY <2>2, <2>3, <2>4, <2>5, <2>6, <2>9 DEF u, r, SameOk
<1>4. CASE ~(t.busy \/ ~t.s.irq) /\ t.can /\ ~IrqBlocked(t.s)
  <2> DEFINE r == t.s
             w == [r EXCEPT !.irq = FALSE, !.queue = "irq", !.inj = "irq"]
  <2>1. u = [t EXCEPT !.s = w]  BY <1>4 DEF IrqStep
  <2>2. u.s = w /\ u.busy = t.busy /\ u = [s |-> u.s, can |-> u.can, busy |-> u.busy]
    BY <2>1
  <2>3. /\ Ok(r, h, f, inNmi, o, FALSE) /\ (host.vgif \/ r.stgi)
        /\ r.inj = Absent /\ r.soft = NoSoft /\ (r.awaiting => h \notin Code)
        /\ r.gif /\ r.if /\ ~r.shadow /\ ~t.busy
    BY <1>4 DEF Mid, IrqBlocked
  <2>4. r.pending > 0 => NmiBlocked(r) /\ NmiArmed(r, f)
    BY <1>4 DEF Looked
  <2> HIDE DEF u, w, r
  <2>5. TypeOk(r)  BY <2>3 DEF Ok
  <2>6. /\ TypeOk(w) /\ w.inj = "irq" /\ ~w.irq /\ w.pending = r.pending
        /\ w.gif = r.gif /\ w.stgi = r.stgi /\ w.vintr = r.vintr
        /\ w.awaiting = r.awaiting /\ w.tf = r.tf
        /\ w.shadow = r.shadow /\ w.smm = r.smm /\ w.rip = r.rip /\ w.soft = r.soft
        /\ w.info = r.info /\ w.if = r.if /\ w.nextRip = r.nextRip /\ w.iretRip = r.iretRip
        /\ w.vnmiPending = r.vnmiPending /\ w.vnmiBlocking = r.vnmiBlocking
        /\ w.insideNmi = r.insideNmi /\ w.masked = r.masked /\ w.iret = r.iret
    BY <2>5, FieldsAre DEF w, TypeOk, Held, Handlers
  <2>7. h \in Code  BY <2>3 DEF Ok, StackOk
  <2>8. ~(inNmi /\ ~o)  BY <2>3, <2>7 DEF Ok, HandlerOk, Code
  <2>9. host.vnmi => ~r.smm  BY <2>3, <2>7 DEF Ok, VnmiOk, Code
  <2>10. r.pending > 0 => NmiMask(r) /\ (r.iret \/ r.smm)
    <3>1. r.pending > 0 => NmiMask(r)  BY <2>3, <2>4 DEF NmiBlocked
    <3>2. ~host.vnmi /\ NmiMask(r) => r.iret  BY <2>3, <2>7 DEF Ok, MaskOk, NmiMask
    <3>3. host.vnmi => ~o  BY <2>3 DEF Ok, MaskOk
    <3>4. host.vnmi /\ r.pending > 0 => ~NmiMask(r)
      BY <2>3, <2>8, <2>9, <3>3 DEF Ok, VnmiOk, NmiMask
    <3> QED  BY <3>1, <3>2, <3>4
  <2>11. Ok(w, h, f, inNmi, o, FALSE)
    <3>1. StackOk(w, h, f)  BY <2>3, <2>6 DEF Ok, StackOk
    <3>2. RipOk(w, h, FALSE)  BY <2>3, <2>6 DEF Ok, RipOk, Absent
    <3>3. MaskOk(w, h, o, FALSE)  BY <2>3, <2>6 DEF Ok, MaskOk
    <3>4. HandlerOk(w, h, f, inNmi, o, FALSE)  BY <2>8 DEF HandlerOk
    <3>5. VnmiOk(w, h, f, inNmi, FALSE)  BY <2>3, <2>6, <2>9 DEF Ok, VnmiOk
    <3> QED  BY <2>6, <3>1, <3>2, <3>3, <3>4, <3>5 DEF Ok
  <2>12. NmiArmed(r, f) => NmiArmed(w, f)  BY <2>6 DEF NmiArmed, NmiMask
  <2>13. Armed(u, f)  BY <2>2, <2>4, <2>6, <2>10, <2>12 DEF Armed, NmiMask
  <2> QED  BY <2>2, <2>3, <2>6, <2>11, <2>13 DEF u, r
<1> QED  BY <1>1, <1>2, <1>3, <1>4

\* What an entry hands to the CPU.
Enters(s, busy, h, f, o) ==
  /\ Ok(s, h, f, inNmi, o, FALSE) /\ ArmedOk(s, f) /\ EntryOk(s) /\ (s.event => busy)

\* Either no SMI is taken, or its handler is entered from h.
Entered(s, r, h, f, g, o, p) ==
  \/ r.s.smm = s.smm /\ Enters(r.s, r.busy, h, f, o)
  \/ r.s.smm /\ ~s.smm /\ Enters(r.s, r.busy, "smm", Append(f, g), p)

LEMMA CheckAndInjectOk ==
  ASSUME host.nrips => host.hw, NEW s, NEW h, NEW f, NEW o, Ok(s, h, f, inNmi, o, TRUE),
         host.vgif \/ s.stgi, NEW p, Passed(p, o, s), NEW g, g.rip = h, h \notin Code => ~g.if,
         NEW skips
  PROVE  Entered(s, CheckAndInject(s, skips), h, f, g, o, p)
<1> DEFINE r == CheckAndInject(s, skips)
           q == [s EXCEPT !.event = FALSE]
           v == Inject(q, q.queue, skips)
           t0 == [s |-> v, can |-> s.queue = Absent, busy |-> FALSE]
           t1 == SmiStep(t0)
           t2 == NmiStep(t1)
           t3 == IrqStep(t2)
<1>1. q.queue = s.queue /\ SameOk(s, q) /\ q.stgi = s.stgi
  BY EventSame, FieldsAre DEF Ok, TypeOk
<1>2. r = [t3 EXCEPT !.s.event = t3.busy]  BY <1>1 DEF CheckAndInject
<1> HIDE DEF q, v, r, t3, t2, t1, t0
<1>3. Ok(q, h, f, inNmi, o, TRUE)  BY <1>1, OkSame
<1>4. Requeued(q, v, h, f, inNmi, o)  BY <1>3, InjectOk DEF v
<1>5. t0.s = v /\ (t0.can <=> s.queue = Absent) /\ t0 = [s |-> t0.s, can |-> t0.can, busy |-> FALSE]
  BY DEF t0
<1>6. s.awaiting => h \notin Code  BY DEF Ok, MaskOk, Handlers, Code
<1>7. Mid(t0, h, f, o) /\ Passed(p, o, t0.s) /\ t0.s.smm = s.smm
  BY <1>1, <1>4, <1>5, <1>6 DEF Mid, Passed, SameOk, Requeued
<1>8. /\ t1 = [s |-> t1.s, can |-> t1.can, busy |-> t1.busy]
      /\ \/ t1.s.smm = s.smm /\ Mid(t1, h, f, o)
         \/ t1.s.smm /\ ~s.smm /\ Mid(t1, "smm", Append(f, g), p)
  BY <1>5, <1>7, SmiStepOk DEF t1
<1>9. ASSUME NEW k, NEW e, NEW a, Mid(t1, k, e, a)
      PROVE  r.s.smm = t1.s.smm /\ Enters(r.s, r.busy, k, e, a)
  <2>1. /\ t2 = [s |-> t2.s, can |-> t2.can, busy |-> t2.busy]
        /\ t2.s.smm = t1.s.smm /\ Mid(t2, k, e, a) /\ Looked(t2, e)
    BY <1>8, <1>9, NmiStepOk DEF t2
  <2>2. /\ t3 = [s |-> t3.s, can |-> t3.can, busy |-> t3.busy]
        /\ t3.s.smm = t2.s.smm /\ Ok(t3.s, k, e, inNmi, a, FALSE) /\ (host.vgif \/ t3.s.stgi)
        /\ Armed(t3, e)
    BY <2>1, IrqStepOk DEF t3
  <2> DEFINE x == t3.s
             b == t3.busy
             y == [x EXCEPT !.event = b]
  <2>3. r.s = y /\ r.busy = b  BY <1>2, <2>2
  <2> HIDE DEF x, b, y
  <2>4. Ok(x, k, e, inNmi, a, FALSE) /\ TypeOk(x)  BY <2>2 DEF Ok, x
  <2>5. SameOk(x, y)  BY <2>4, EventSame DEF y
  <2>6. Ok(y, k, e, inNmi, a, FALSE)  BY <2>4, <2>5, OkSame
  <2>7. y.event = b /\ y.tf = x.tf /\ y.gif = x.gif /\ y.stgi = x.stgi /\ y.irq = x.irq
        /\ y.vintr = x.vintr
    BY <2>4, FieldsAre DEF y, TypeOk
  <2>8. /\ x.pending > 0 => b \/ NmiArmed(x, e)
        /\ x.irq => b \/ IrqArmed(x)
        /\ x.inj # Absent /\ x.pending > 0 => b \/ (NmiMask(x) /\ (x.iret \/ x.smm))
        /\ host.vgif \/ x.stgi
    BY <2>2 DEF Armed, x, b
  <2>9. NmiArmed(x, e) <=> NmiArmed(y, e)  BY <2>5, <2>7 DEF NmiArmed, NmiMask, SameOk
  <2>10. IrqArmed(x) <=> IrqArmed(y)  BY <2>7 DEF IrqArmed
  <2>11. ArmedOk(y, e)  BY <2>5, <2>7, <2>8, <2>9, <2>10 DEF ArmedOk, SameOk
  <2>12. EntryOk(y)  BY <2>5, <2>7, <2>8 DEF EntryOk, SameOk, NmiMask
  <2>13. y.smm = x.smm  BY <2>5 DEF SameOk
  <2> QED  BY <2>1, <2>2, <2>3, <2>6, <2>7, <2>11, <2>12, <2>13 DEF Enters, x
<1> QED  BY <1>8, <1>9 DEF r, Entered

\* The invariant of the next state, from its parts.
LEMMA NextInv ==
  ASSUME host' = host, host \in Hosts, pc' \in {"kvm", "ready", "guest"}, queued' \in Nat,
         overtaken' \in BOOLEAN,
         pc' = "kvm" => Ok(cpu', here', frames', inNmi', overtaken', TRUE),
         pc' # "kvm" => Ok(cpu', here', frames', inNmi', overtaken', FALSE),
         ArmedOk(cpu', frames'), pc' # "kvm" => (cpu'.event => kick'),
         pc' = "ready" => EntryOk(cpu'), (ReturnsRight /\ AfterIret)'
  PROVE  EventsInv'
<1>1. ASSUME NEW k, Ok(cpu', here', frames', inNmi', overtaken', k)
      PROVE  (Ok(cpu, here, frames, inNmi, overtaken, k))'
  <2>1. (TypeOk(cpu) /\ StackOk(cpu, here, frames))'  BY <1>1 DEF Ok, TypeOk, StackOk
  <2>2. (RipOk(cpu, here, k))'  BY <1>1 DEF Ok, RipOk
  <2>3. (MaskOk(cpu, here, overtaken, k))'  BY <1>1 DEF Ok, MaskOk
  <2>4. (HandlerOk(cpu, here, frames, inNmi, overtaken, k))'
    BY <1>1 DEF Ok, HandlerOk, NmiMask
  <2>5. (VnmiOk(cpu, here, frames, inNmi, k))'  BY <1>1 DEF Ok, VnmiOk
  <2> QED  BY <2>1, <2>2, <2>3, <2>4, <2>5 DEF Ok
<1>2. ArmedOk(cpu, frames)'  BY DEF ArmedOk, NmiArmed, IrqArmed, NmiMask
<1>3. pc' = "ready" => EntryOk(cpu)'  BY DEF EntryOk, NmiMask
<1> QED  BY <1>1, <1>2, <1>3 DEF EventsInv

LEMMA PrepareInv ==
  ASSUME Constants, EventsInv, Prepare PROVE EventsInv'
<1> DEFINE s == IF queued > 0 THEN ProcessNmi(cpu) ELSE cpu
           g == [rip |-> cpu.rip, if |-> cpu.if, tf |-> GuestTf(cpu), shadow |-> cpu.shadow]
<1>1. pc = "kvm" /\ pc' = "ready" /\ queued' = 0 /\ host' = host /\ inNmi' = inNmi /\ last' = last
  BY DEF Prepare
<1>2. /\ host \in Hosts /\ queued \in Nat /\ Ok(cpu, here, frames, inNmi, overtaken, TRUE)
      /\ ArmedOk(cpu, frames) /\ ReturnsRight /\ AfterIret /\ overtaken \in BOOLEAN
  BY <1>1 DEF EventsInv
<1>3. PICK skips : LET t == IF s.event THEN CheckAndInject(s, skips) ELSE [s |-> s, busy |-> FALSE]
                       smi == t.s.smm /\ ~cpu.smm
                   IN /\ cpu' = t.s /\ kick' = t.busy
                      /\ frames' = IF smi THEN Append(frames, g) ELSE frames
                      /\ here' = IF smi THEN "smm" ELSE here
                      /\ overtaken' = (overtaken \/ (smi /\ cpu.awaiting))
  BY DEF Prepare
<1> DEFINE t == IF s.event THEN CheckAndInject(s, skips) ELSE [s |-> s, busy |-> FALSE]
           smi == t.s.smm /\ ~cpu.smm
<1>4. Ok(s, here, frames, inNmi, overtaken, TRUE) /\ ArmedOk(s, frames) /\ s.smm = cpu.smm
      /\ s.awaiting = cpu.awaiting
  BY <1>2, ProcessNmiOk
<1>5. g.rip = here /\ (here \notin Code => ~g.if)
  BY <1>2 DEF Ok, RipOk, StackOk, Absent
<1>6. host.nrips => host.hw  BY <1>2 DEF Constants
<1> HIDE DEF s, g
<1>7. \/ t.s.smm = s.smm /\ Enters(t.s, t.busy, here, frames, overtaken)
      \/ /\ t.s.smm /\ ~s.smm
         /\ \A p : Passed(p, overtaken, s) => Enters(t.s, t.busy, "smm", Append(frames, g), p)
  <2>1. CASE s.event
    <3>1. t = CheckAndInject(s, skips)  BY <2>1
    <3>2. host.vgif \/ s.stgi  BY <1>4 DEF ArmedOk
    <3>3. ASSUME NEW p, Passed(p, overtaken, s)
          PROVE  Entered(s, t, here, frames, g, overtaken, p)
      BY <1>4, <1>5, <1>6, <3>1, <3>2, <3>3, CheckAndInjectOk
    <3>4. Passed(overtaken \/ s.awaiting, overtaken, s)  BY DEF Passed
    <3> HIDE DEF t
    <3> QED  BY <3>3, <3>4 DEF Entered
  <2>2. CASE ~s.event
    <3>1. t.s = s /\ t.busy = FALSE  BY <2>2
    <3> HIDE DEF t
    <3>2. Ok(s, here, frames, inNmi, overtaken, FALSE) /\ s.inj = Absent
      BY <1>4 DEF Ok, RipOk, MaskOk, HandlerOk, VnmiOk
    <3> QED  BY <1>4, <2>2, <3>1, <3>2 DEF Enters, EntryOk
  <2> QED  BY <2>1, <2>2
<1>8. /\ cpu' = t.s /\ kick' = t.busy
      /\ frames' = IF smi THEN Append(frames, g) ELSE frames
      /\ here' = IF smi THEN "smm" ELSE here
      /\ overtaken' = (overtaken \/ (smi /\ cpu.awaiting))
  BY <1>3
<1> HIDE DEF t
<1>9. Enters(cpu', kick', here', frames', overtaken')
  <2>1. CASE smi
    <3>1. \A p : Passed(p, overtaken, s) => Enters(t.s, t.busy, "smm", Append(frames, g), p)
      BY <1>4, <1>7, <2>1
    <3>2. Passed(overtaken', overtaken, s)  BY <1>4, <1>8, <2>1 DEF Passed
    <3>3. Enters(t.s, t.busy, "smm", Append(frames, g), overtaken')  BY <3>1, <3>2
    <3> QED  BY <1>8, <2>1, <3>3
  <2>2. CASE ~smi
    <3>1. Enters(t.s, t.busy, here, frames, overtaken)  BY <1>4, <1>7, <2>2
    <3>2. overtaken' = overtaken  BY <1>2, <1>8, <2>2
    <3> QED  BY <1>8, <2>2, <3>1, <3>2
  <2> QED  BY <2>1, <2>2
<1>10. (ReturnsRight /\ AfterIret)'  BY <1>1, <1>2, <1>8 DEF ReturnsRight, AfterIret
<1>11. overtaken' \in BOOLEAN  BY <1>8
<1> QED  BY <1>1, <1>2, <1>9, <1>10, <1>11, NextInv DEF Enters

\* Event e is what an exit, or a cancelled entry, interrupts.
Interrupted(s, h, e) ==
  \/ e = s.inj \/ (e = "fault" /\ s.inj = "soft")
  \/ h = "int" /\ s.inj = Absent /\ e \in {"soft", "fault"}
\* What svm_complete_interrupts makes of s.
Recovered(s, t, h, f, n, o, e) ==
  /\ Ok(t, h, f, n, o, TRUE) /\ t.queue = e /\ t.rip = h
  /\ t.pending = s.pending /\ t.gif = s.gif /\ t.stgi = s.stgi /\ t.vintr = s.vintr
  /\ t.irq = s.irq /\ t.tf = s.tf /\ t.step = s.step /\ t.smm = s.smm /\ t.iret = s.iret
  /\ t.insideNmi = s.insideNmi /\ t.vnmiBlocking = s.vnmiBlocking
  /\ s.event => t.event
  /\ s.masked => t.masked \/ t.event
  /\ h \notin Handlers => ~t.awaiting

LEMMA CompletedOk ==
  ASSUME host.nrips => host.hw,
         NEW s, NEW h, NEW f, NEW n, NEW o, Ok(s, h, f, n, o, FALSE), NEW e, NEW x,
         Interrupted(s, h, e), e = "soft" /\ host.nrips => x \in {Absent, "next"}
  PROVE  Recovered(s, CompleteInterrupts([s EXCEPT !.info = e, !.inj = Absent, !.nextRip = x]),
                   h, f, n, o, e)
<1> DEFINE r == [s EXCEPT !.info = e, !.inj = Absent, !.nextRip = x]
           w == CompleteSoft(r)
           b == Progressed(r)
           a == w.awaiting /\ ~b
           m == w.masked /\ ~b
           v == w.event \/ b \/ r.info # Absent
           t == CompleteInterrupts(r)
<1>0. TypeOk(s)  BY DEF Ok
<1>1. /\ r = [y \in Fields |-> r[y]] /\ r.info = e /\ r.inj = Absent /\ r.nextRip = x
      /\ r.pending = s.pending /\ r.gif = s.gif /\ r.stgi = s.stgi /\ r.vintr = s.vintr
      /\ r.irq = s.irq /\ r.tf = s.tf /\ r.step = s.step /\ r.smm = s.smm /\ r.iret = s.iret
      /\ r.insideNmi = s.insideNmi /\ r.vnmiBlocking = s.vnmiBlocking /\ r.event = s.event
      /\ r.masked = s.masked /\ r.awaiting = s.awaiting /\ r.iretRip = s.iretRip
      /\ r.soft = s.soft /\ r.rip = s.rip /\ r.if = s.if /\ r.vnmiPending = s.vnmiPending
  BY <1>0, FieldsAre DEF TypeOk
<1> HIDE DEF r, w, b, t
<1>2. /\ w = [y \in Fields |-> w[y]] /\ w.info = r.info /\ w.inj = r.inj
      /\ w.pending = r.pending /\ w.gif = r.gif /\ w.stgi = r.stgi /\ w.vintr = r.vintr
      /\ w.irq = r.irq /\ w.tf = r.tf /\ w.step = r.step /\ w.smm = r.smm /\ w.iret = r.iret
      /\ w.insideNmi = r.insideNmi /\ w.vnmiBlocking = r.vnmiBlocking /\ w.event = r.event
      /\ w.masked = r.masked /\ w.awaiting = r.awaiting /\ w.iretRip = r.iretRip
      /\ w.if = r.if /\ w.vnmiPending = r.vnmiPending
  BY <1>1, FieldsAre DEF w, CompleteSoft
<1>3. w.rip = h
  <2>1. CASE s.soft = NoSoft
    <3>1. w = r  BY <1>1, <2>1 DEF w, CompleteSoft, NoSoft
    <3>2. s.inj # "soft"  BY <2>1 DEF Ok, RipOk, NoSoft, AtInt, Absent
    <3> QED  BY <1>1, <3>1, <3>2 DEF Ok, RipOk
  <2>2. CASE s.soft = AtInt
    <3>1. s.inj \in {"soft", Absent} /\ AtInt.old = "int" /\ AtInt.next = "next"
      BY <2>2 DEF Ok, RipOk, NoSoft, AtInt, Absent
    <3>2. CASE host.nrips
      <4>1. s.rip = h  BY <3>1, <3>2 DEF Ok, RipOk, Absent
      <4>2. w.rip = r.rip
        BY <1>1, <3>2, FieldsAre DEF w, CompleteSoft
      <4> QED  BY <1>1, <4>1, <4>2
    <3>3. CASE ~host.nrips /\ s.inj = "soft"
      <4>1. s.rip = "next" /\ h = "int"  BY <3>3 DEF Ok, RipOk
      <4>2. e \in {"soft", "fault"}  BY <3>3 DEF Interrupted, Absent
      <4>3. w = [r EXCEPT !.rip = "int"]
        BY <1>1, <2>2, <3>1, <3>3, <4>1, <4>2 DEF w, CompleteSoft, Absent
      <4> QED  BY <1>1, <4>1, <4>3, FieldsAre
    <3>4. CASE ~host.nrips /\ s.inj = Absent
      <4>1. s.rip = h  BY <3>4 DEF Ok, RipOk, Absent
      <4>2. e \in {"soft", "fault"} => h = "int"  BY <3>4 DEF Interrupted, Absent
      <4>3. w = r
        BY <1>1, <2>2, <3>1, <3>4, <4>1, <4>2 DEF w, CompleteSoft, Absent
      <4> QED  BY <1>1, <4>1, <4>3
    <3> QED  BY <3>1, <3>2, <3>3, <3>4
  <2> QED  BY <2>1, <2>2 DEF Ok, RipOk
<1>4. e = "soft" /\ host.nrips => w.nextRip \in {Absent, "next"}
  BY <1>1, FieldsAre DEF w, CompleteSoft, Ok, RipOk, NoSoft, AtInt
<1>5. b <=> s.awaiting /\ s.rip # s.iretRip  BY <1>1 DEF b, Progressed
<1>6. t = [w EXCEPT !.awaiting = a, !.masked = m, !.event = v, !.queue = r.info,
                    !.info = Absent, !.soft = NoSoft]
  BY <1>2, FieldsAre DEF t, CompleteInterrupts, w, b, NoSoft
<1> HIDE DEF a, m, v
<1>7. /\ t = [y \in Fields |-> t[y]] /\ t.info = Absent /\ t.inj = w.inj /\ t.soft = NoSoft
      /\ t.queue = r.info /\ t.rip = w.rip /\ t.nextRip = w.nextRip
      /\ t.pending = w.pending /\ t.gif = w.gif /\ t.stgi = w.stgi /\ t.vintr = w.vintr
      /\ t.irq = w.irq /\ t.tf = w.tf /\ t.step = w.step /\ t.smm = w.smm /\ t.iret = w.iret
      /\ t.insideNmi = w.insideNmi /\ t.vnmiBlocking = w.vnmiBlocking
      /\ t.iretRip = w.iretRip /\ t.if = w.if /\ t.vnmiPending = w.vnmiPending
      /\ t.awaiting <=> a
      /\ t.masked <=> m
      /\ t.event <=> v
  <2> DEFINE u1 == [w EXCEPT !.awaiting = a, !.masked = m, !.event = v]
  <2>1. t = [u1 EXCEPT !.queue = r.info, !.info = Absent, !.soft = NoSoft]
    BY <1>2, <1>6, FieldsAre
  <2>2. /\ u1 = [y \in Fields |-> u1[y]]
        /\ u1.rip = w.rip /\ u1.nextRip = w.nextRip /\ u1.inj = w.inj
        /\ u1.pending = w.pending /\ u1.gif = w.gif /\ u1.stgi = w.stgi /\ u1.vintr = w.vintr
        /\ u1.irq = w.irq /\ u1.tf = w.tf /\ u1.step = w.step /\ u1.smm = w.smm
        /\ u1.insideNmi = w.insideNmi /\ u1.vnmiBlocking = w.vnmiBlocking
        /\ u1.iretRip = w.iretRip /\ u1.if = w.if /\ u1.vnmiPending = w.vnmiPending
        /\ u1.iret = w.iret
    BY <1>2, FieldsAre
  <2>3. /\ u1.awaiting <=> a
        /\ u1.masked <=> m
        /\ u1.event <=> v
    BY <1>2, FieldsAre
  <2> HIDE DEF u1
  <2>4. /\ t = [y \in Fields |-> t[y]] /\ t.info = Absent /\ t.inj = u1.inj /\ t.soft = NoSoft
        /\ t.queue = r.info /\ t.rip = u1.rip /\ t.nextRip = u1.nextRip
        /\ t.pending = u1.pending /\ t.gif = u1.gif /\ t.stgi = u1.stgi /\ t.vintr = u1.vintr
        /\ t.irq = u1.irq /\ t.tf = u1.tf /\ t.step = u1.step /\ t.smm = u1.smm
        /\ t.insideNmi = u1.insideNmi /\ t.vnmiBlocking = u1.vnmiBlocking
        /\ t.iretRip = u1.iretRip /\ t.if = u1.if /\ t.vnmiPending = u1.vnmiPending
        /\ t.awaiting = u1.awaiting /\ t.masked = u1.masked /\ t.event = u1.event
        /\ t.iret = u1.iret
    BY <2>1, <2>2, FieldsAre
  <2> QED  BY <2>2, <2>3, <2>4
<1>8. /\ t = [y \in Fields |-> t[y]] /\ t.info = Absent /\ t.inj = Absent /\ t.soft = NoSoft
      /\ t.queue = e /\ t.rip = h /\ t.nextRip = w.nextRip
      /\ t.pending = s.pending /\ t.gif = s.gif /\ t.stgi = s.stgi /\ t.vintr = s.vintr
      /\ t.irq = s.irq /\ t.tf = s.tf /\ t.step = s.step /\ t.smm = s.smm /\ t.iret = s.iret
      /\ t.insideNmi = s.insideNmi /\ t.vnmiBlocking = s.vnmiBlocking
      /\ t.iretRip = s.iretRip /\ t.if = s.if /\ t.vnmiPending = s.vnmiPending
  BY <1>1, <1>2, <1>3, <1>7
<1>9. /\ t.event <=> (s.event \/ b \/ e # Absent)
      /\ t.awaiting <=> (s.awaiting /\ ~b)
      /\ t.masked <=> (s.masked /\ ~b)
  BY <1>1, <1>2, <1>7 DEF a, m, v
<1>10. s.awaiting /\ ~b => h = s.iretRip
  <2>1. CASE s.inj = "soft"
    <3>1. s.rip \in {"int", "next"}  BY <2>1 DEF Ok, RipOk
    <3>2. s.awaiting => s.rip # s.iretRip  BY <3>1 DEF Ok, MaskOk, Handlers
    <3> QED  BY <1>5, <3>2
  <2>2. CASE s.inj # "soft"
    <3>1. s.rip = h  BY <2>2 DEF Ok, RipOk
    <3> QED  BY <1>5, <3>1
  <2> QED  BY <2>1, <2>2
<1>11. TypeOk(t)
  <2>1. e \in Held  BY <1>0 DEF Interrupted, TypeOk, Held, Handlers
  <2> QED  BY <1>0, <1>8, <2>1 DEF TypeOk, Held
<1>12. StackOk(t, h, f)  BY <1>8 DEF Ok, StackOk
<1>13. RipOk(t, h, TRUE)
  <2>1. e = "soft" => h = "int"  BY DEF Interrupted, Ok, RipOk
  <2> QED  BY <1>4, <1>8, <2>1 DEF RipOk, Absent
<1>14. MaskOk(t, h, o, TRUE)
  <2>1. e = "nmi" => ~s.awaiting  BY DEF Interrupted, Ok, MaskOk
  <2>2. t.awaiting => t.masked /\ t.iretRip \in Handlers /\ h = t.iretRip
    BY <1>8, <1>9, <1>10 DEF Ok, MaskOk
  <2>3. host.vnmi => ~t.iret /\ ~t.awaiting /\ ~o  BY <1>8, <1>9 DEF Ok, MaskOk
  <2>4. ~host.vnmi => /\ ~t.vnmiPending /\ (t.masked => t.iret \/ t.awaiting)
                      /\ t.iret => t.masked /\ ~t.awaiting
    BY <1>5, <1>8, <1>9 DEF Ok, MaskOk
  <2> QED  BY <1>8, <1>9, <2>1, <2>2, <2>3, <2>4 DEF MaskOk, Absent
<1>15. HandlerOk(t, h, f, n, o, TRUE)
  <2> SUFFICES ASSUME ~o, n PROVE HandlerOk(t, h, f, n, o, TRUE)  BY DEF HandlerOk
  <2>1. /\ NmiMask(s) /\ s.inj = Absent
        /\ h = "nmi" \/ (h = "smm" /\ s.smm /\ s.insideNmi /\ f[Len(f)].rip = "nmi")
        /\ s.awaiting => h = s.iretRip
    BY DEF Ok, HandlerOk
  <2>2. s.rip = h  BY <2>1 DEF Ok, RipOk, Absent
  <2>3. ~b  BY <1>5, <2>1, <2>2
  <2>4. e = Absent  BY <2>1 DEF Interrupted, Absent
  <2>5. NmiMask(t)  BY <1>8, <1>9, <2>1, <2>3 DEF NmiMask
  <2> QED  BY <1>8, <1>9, <2>1, <2>4, <2>5 DEF HandlerOk
<1>16. VnmiOk(t, h, f, n, TRUE)
  <2> SUFFICES ASSUME host.vnmi PROVE VnmiOk(t, h, f, n, TRUE)  BY DEF VnmiOk
  <2>1. e = "nmi" => s.pending = 0  BY DEF Interrupted, Ok, VnmiOk
  <2>2. s.smm => e = Absent  BY DEF Interrupted, Ok, VnmiOk, Absent
  <2> QED  BY <1>8, <2>1, <2>2 DEF Ok, VnmiOk, Absent
<1>17. h \notin Handlers => ~t.awaiting  BY <1>9, <1>10 DEF Ok, MaskOk
<1> QED  BY <1>8, <1>9, <1>11, <1>12, <1>13, <1>14, <1>15, <1>16, <1>17 DEF Ok, Recovered, t, r

LEMMA RecoveredArmed ==
  ASSUME NEW s, NEW t, NEW h, NEW f, NEW n, NEW o, NEW e, Recovered(s, t, h, f, n, o, e),
         ArmedOk(s, f)
  PROVE  ArmedOk(t, f)
<1>1. NmiArmed(s, f) => NmiArmed(t, f) \/ t.event
  BY DEF Recovered, NmiArmed, NmiMask
<1>2. IrqArmed(s) => IrqArmed(t)  BY DEF Recovered, IrqArmed
<1> QED  BY <1>1, <1>2 DEF Recovered, ArmedOk

LEMMA HandleSame ==
  ASSUME NEW s, NEW h, NEW f, NEW n, NEW o, Ok(s, h, f, n, o, TRUE), ArmedOk(s, f),
         NEW reason \in {"npf", "intr", "vintr", "stgi", "clgi"}, reason = "clgi" => ~host.vgif
  PROVE  Ok(Handle(reason, s), h, f, n, o, TRUE) /\ ArmedOk(Handle(reason, s), f)
<1> DEFINE t == Handle(reason, s)
<1>0. TypeOk(s)  BY DEF Ok
<1>1. CASE reason \in {"npf", "intr"}
  <2>1. t = s  BY <1>1 DEF Handle
  <2> HIDE DEF t
  <2> QED  BY <2>1 DEF t
<1>2. CASE reason = "vintr"
  <2>1. t = [s EXCEPT !.event = TRUE, !.vintr = FALSE]  BY <1>2 DEF Handle
  <2> HIDE DEF t
  <2>2. SameOk(s, t) /\ t.event /\ t.stgi = s.stgi  BY <1>0, <2>1, FieldsAre DEF TypeOk, SameOk
  <2>3. Ok(t, h, f, n, o, TRUE)  BY <2>2, OkSame
  <2>4. ArmedOk(t, f)  BY <2>2 DEF ArmedOk
  <2> QED  BY <2>3, <2>4 DEF t
<1>3. CASE reason \in {"stgi", "clgi"}
  <2> DEFINE u == [s EXCEPT !.shadow = FALSE]
             on == reason = "stgi"
  <2>1. t = SetGif(u, on)  BY <1>3 DEF Handle
  <2> HIDE DEF t, u
  <2>2. /\ SameOk(s, u) /\ u.stgi = s.stgi /\ u.irq = s.irq /\ u.event = s.event
    BY <1>0, FieldsAre DEF u, TypeOk, SameOk
  <2>3. TypeOk(u)  BY <2>2 DEF SameOk
  <2>4. SameOk(u, t)  BY <2>1, <2>3, SetGifSame
  <2>5. Ok(t, h, f, n, o, TRUE)  BY <2>2, <2>4, OkSame
  <2>6. ArmedOk(t, f)
    <3>1. CASE on
      <4>1. t = [u EXCEPT !.gif = TRUE, !.stgi = ~host.vgif, !.vintr = FALSE,
                          !.event = @ \/ u.smi \/ u.pending > 0 \/ u.irq]
        BY <2>1, <3>1 DEF SetGif
      <4>2. (t.stgi <=> ~host.vgif) /\ t.irq = u.irq /\ (t.event <=> (u.event \/ u.smi \/ u.pending > 0 \/ u.irq))
        BY <2>3, <4>1, FieldsAre DEF TypeOk
      <4> QED  BY <2>4, <4>2 DEF ArmedOk, SameOk
    <3>2. CASE ~on
      <4>1. t = [u EXCEPT !.gif = FALSE, !.vintr = @ /\ host.vgif]
        BY <2>1, <3>2 DEF SetGif
      <4>2. t.stgi = u.stgi /\ ~t.gif
        BY <2>3, <4>1, FieldsAre DEF TypeOk
      <4>3. t.stgi  BY <1>3, <2>2, <3>2, <4>2 DEF ArmedOk
      <4> QED  BY <4>2, <4>3 DEF ArmedOk, NmiArmed, IrqArmed
    <3> QED  BY <3>1, <3>2
  <2> QED  BY <2>5, <2>6 DEF t
<1> QED  BY <1>1, <1>2, <1>3

LEMMA HandleDb ==
  ASSUME NEW s, NEW h, NEW f, NEW n, NEW o, Ok(s, h, f, n, o, TRUE), host.vgif \/ s.stgi,
         n => o, host.vnmi => ~s.smm
  PROVE  Ok(Handle("db", s), h, f, n, o, TRUE) /\ ArmedOk(Handle("db", s), f)
<1> DEFINE t == Handle("db", s)
<1>0. TypeOk(s)  BY DEF Ok
<1>1. CASE s.step
  <2> DEFINE u == DisableStep(s)
  <2>1. t = [u EXCEPT !.event = TRUE]  BY <1>1 DEF Handle
  <2>2. SameOk(s, u) /\ u.stgi = s.stgi
    BY <1>0, DisableStepSame, FieldsAre DEF DisableStep, TypeOk
  <2> HIDE DEF t, u
  <2>3. TypeOk(u)  BY <2>2 DEF SameOk
  <2>4. SameOk(u, t) /\ t.event /\ t.stgi = u.stgi
    BY <2>1, <2>3, EventSame, FieldsAre DEF TypeOk
  <2>5. Ok(t, h, f, n, o, TRUE)  BY <2>2, <2>4, OkSame
  <2>6. ArmedOk(t, f)  BY <2>2, <2>4 DEF ArmedOk
  <2> QED  BY <2>5, <2>6 DEF t
<1>2. CASE ~s.step
  <2>1. t = [s EXCEPT !.queue = "fault", !.event = TRUE]  BY <1>2 DEF Handle
  <2> HIDE DEF t
  <2>2. /\ TypeOk(t) /\ t.queue = "fault" /\ t.event /\ t.stgi = s.stgi /\ t.pending = s.pending
        /\ t.awaiting = s.awaiting /\ t.smm = s.smm /\ t.info = s.info /\ t.if = s.if
        /\ t.iretRip = s.iretRip /\ t.inj = s.inj
        /\ t.vnmiPending = s.vnmiPending /\ t.vnmiBlocking = s.vnmiBlocking
        /\ t.insideNmi = s.insideNmi /\ t.masked = s.masked /\ t.iret = s.iret
        /\ t.soft = s.soft /\ t.rip = s.rip /\ t.nextRip = s.nextRip
    BY <1>0, <2>1, FieldsAre DEF TypeOk, Held, Handlers
  <2>3. StackOk(t, h, f)  BY <2>2 DEF Ok, StackOk
  <2>4. RipOk(t, h, TRUE)  BY <2>2 DEF Ok, RipOk
  <2>5. MaskOk(t, h, o, TRUE)  BY <2>2 DEF Ok, MaskOk
  <2>6. HandlerOk(t, h, f, n, o, TRUE)  BY DEF HandlerOk
  <2>7. VnmiOk(t, h, f, n, TRUE)  BY <2>2 DEF Ok, VnmiOk
  <2>8. ArmedOk(t, f)  BY <2>2 DEF ArmedOk
  <2> QED  BY <2>2, <2>3, <2>4, <2>5, <2>6, <2>7, <2>8 DEF Ok, t
<1> QED  BY <1>1, <1>2

LEMMA HandleIret ==
  ASSUME NEW s, NEW h, NEW f, NEW n, NEW o, Ok(s, h, f, n, o, TRUE), host.vgif \/ s.stgi,
         s.queue = Absent, h \in Handlers, s.iret
  PROVE  Ok(Handle("iret", s), h, f, n, o, TRUE) /\ ArmedOk(Handle("iret", s), f)
<1> DEFINE t == Handle("iret", s)
<1>0. TypeOk(s) /\ s.rip = h  BY DEF Ok, RipOk, Absent
<1>1. t = [s EXCEPT !.awaiting = TRUE, !.iret = FALSE, !.iretRip = s.rip, !.event = TRUE]
  BY DEF Handle
<1> HIDE DEF t
<1>2. /\ TypeOk(t) /\ t.awaiting /\ ~t.iret /\ t.iretRip = h /\ t.queue = s.queue
      /\ t.event /\ t.stgi = s.stgi /\ t.pending = s.pending
      /\ t.smm = s.smm /\ t.info = s.info /\ t.if = s.if /\ t.inj = s.inj
      /\ t.vnmiPending = s.vnmiPending /\ t.vnmiBlocking = s.vnmiBlocking
      /\ t.insideNmi = s.insideNmi /\ t.masked = s.masked
      /\ t.soft = s.soft /\ t.rip = s.rip /\ t.nextRip = s.nextRip
  BY <1>0, <1>1, FieldsAre DEF TypeOk
<1>3. StackOk(t, h, f)  BY <1>2 DEF Ok, StackOk
<1>4. RipOk(t, h, TRUE)  BY <1>2 DEF Ok, RipOk
<1>5. MaskOk(t, h, o, TRUE)  BY <1>2 DEF Ok, MaskOk, RipOk, Absent
<1>6. HandlerOk(t, h, f, n, o, TRUE)  BY <1>2 DEF Ok, HandlerOk, NmiMask
<1>7. VnmiOk(t, h, f, n, TRUE)  BY <1>2 DEF Ok, VnmiOk
<1>8. ArmedOk(t, f)  BY <1>2 DEF ArmedOk
<1> QED  BY <1>2, <1>3, <1>4, <1>5, <1>6, <1>7, <1>8 DEF Ok, t

\* The stack behind its top is one.
LEMMA PopStack ==
  ASSUME NEW s, NEW h, NEW f, StackOk(s, h, f), f # <<>>, NEW t, NEW g, g = f[Len(f)],
         g.rip \notin Code => ~t.if
  PROVE  StackOk(t, g.rip, SubSeq(f, 1, Len(f) - 1))
<1> DEFINE e == SubSeq(f, 1, Len(f) - 1)
<1> HIDE DEF e
<1>1. /\ e \in Seq({e[i] : i \in DOMAIN e}) /\ Len(e) = Len(f) - 1 /\ Len(f) \in Nat \ {0}
      /\ DOMAIN e = 1..Len(f) - 1 /\ DOMAIN f = 1..Len(f)
      /\ \A i \in 1..Len(f) - 1 : e[i] = f[i]
  BY PopIs DEF StackOk, e
<1>2. e # <<>> => e[1].rip \in Code
  <2> SUFFICES ASSUME e # <<>> PROVE e[1].rip \in Code  OBVIOUS
  <2>1. Len(e) # 0  BY <1>1
  <2>2. 1 \in 1..Len(f) - 1  BY <1>1, <2>1
  <2> QED  BY <1>1, <2>2 DEF StackOk
<1>3. g.rip \notin Code => e # <<>>
  <2> SUFFICES ASSUME e = <<>> PROVE g.rip \in Code  OBVIOUS
  <2>1. Len(e) = 0  OBVIOUS
  <2>2. Len(f) = 1  BY <1>1, <2>1
  <2> QED  BY <2>2 DEF StackOk
<1>4. \A i \in DOMAIN e : e[i].rip \notin Code => ~e[i].if
  <2> SUFFICES ASSUME NEW i \in DOMAIN e PROVE e[i].rip \notin Code => ~e[i].if  OBVIOUS
  <2>1. i \in DOMAIN f /\ e[i] = f[i]  BY <1>1
  <2> QED  BY <2>1 DEF StackOk
<1> QED  BY <1>1, <1>2, <1>3, <1>4 DEF StackOk, e

LEMMA HandleRsm ==
  ASSUME NEW s, NEW n, NEW o, Ok(s, "smm", frames, n, o, TRUE), host.vgif \/ s.stgi,
         s.queue = Absent, ~s.awaiting
  PROVE  LET t == Handle("rsm", s)
             h == frames[Len(frames)].rip
             e == SubSeq(frames, 1, Len(frames) - 1)
         IN Ok(t, h, e, n, o, TRUE) /\ ArmedOk(t, e)
<1> DEFINE t == Handle("rsm", s)
           g == frames[Len(frames)]
           e == SubSeq(frames, 1, Len(frames) - 1)
           u == IF s.insideNmi THEN s ELSE SetNmiMask(s, FALSE)
           b == g.tf \/ s.step
<1>0. TypeOk(s) /\ frames # <<>>  BY DEF Ok, StackOk, Code
<1>1. t = [u EXCEPT !.smm = FALSE, !.event = TRUE, !.rip = g.rip, !.if = g.if, !.tf = b,
                    !.shadow = g.shadow]
  BY DEF Handle, LeaveSmm
<1>2. /\ u = [x \in Fields |-> u[x]] /\ u.inj = s.inj /\ u.pending = s.pending
      /\ u.stgi = s.stgi /\ u.queue = s.queue /\ u.awaiting = s.awaiting
      /\ u.soft = s.soft /\ u.info = s.info /\ u.insideNmi = s.insideNmi
      /\ u.vnmiPending = s.vnmiPending
      /\ s.insideNmi => /\ u.masked = s.masked /\ u.iret = s.iret
                        /\ u.vnmiBlocking = s.vnmiBlocking
      /\ ~s.insideNmi => IF host.vnmi THEN ~u.vnmiBlocking /\ u.iret = s.iret
                         ELSE ~u.masked /\ ~u.iret
  BY <1>0, FieldsAre DEF SetNmiMask, TypeOk
<1> HIDE DEF t, g, e, u, b
<1>3. /\ t = [x \in Fields |-> t[x]] /\ t.inj = u.inj /\ t.pending = u.pending
      /\ t.stgi = u.stgi /\ t.queue = u.queue /\ t.awaiting = u.awaiting
      /\ t.soft = u.soft /\ t.info = u.info /\ t.insideNmi = u.insideNmi
      /\ t.vnmiPending = u.vnmiPending /\ t.masked = u.masked /\ t.iret = u.iret
      /\ t.vnmiBlocking = u.vnmiBlocking
      /\ t.rip = g.rip /\ t.if = g.if /\ t.event /\ ~t.smm
  BY <1>1, <1>2, FieldsAre
<1>4. TypeOk(t)  BY <1>0, <1>2, <1>3 DEF TypeOk
<1>5. /\ Len(e) = Len(frames) - 1 /\ Len(frames) \in Nat \ {0}
      /\ DOMAIN e = 1..Len(frames) - 1 /\ DOMAIN frames = 1..Len(frames)
      /\ \A i \in 1..Len(frames) - 1 : e[i] = frames[i]
  BY <1>0, PopIs DEF Ok, StackOk, e
<1>6. Len(frames) \in DOMAIN frames  BY <1>5
<1>7. StackOk(t, g.rip, e)
  <2>1. StackOk(s, "smm", frames)  BY DEF Ok
  <2>2. g.rip \notin Code => ~t.if  BY <1>3, <1>6, <2>1 DEF StackOk, g
  <2> QED  BY <1>0, <2>1, <2>2, PopStack DEF g, e
<1>8. RipOk(t, g.rip, TRUE)  BY <1>2, <1>3 DEF Ok, RipOk, Absent
<1>9. MaskOk(t, g.rip, o, TRUE)
  BY <1>2, <1>3 DEF Ok, MaskOk, RipOk, Absent
<1>10. HandlerOk(t, g.rip, e, n, o, TRUE)
  <2> SUFFICES ASSUME ~o, n PROVE HandlerOk(t, g.rip, e, n, o, TRUE)  BY DEF HandlerOk
  <2>1. NmiMask(s) /\ s.inj = Absent /\ s.insideNmi /\ g.rip = "nmi"
    BY DEF Ok, HandlerOk, g
  <2> QED  BY <1>2, <1>3, <2>1 DEF HandlerOk, NmiMask
<1>11. VnmiOk(t, g.rip, e, n, TRUE)
  <2> SUFFICES ASSUME host.vnmi PROVE VnmiOk(t, g.rip, e, n, TRUE)  BY DEF VnmiOk
  <2>1. /\ s.pending <= 1 /\ s.inj # "nmi" /\ s.smm
        /\ \A i \in DOMAIN frames : frames[i].rip # "smm"
        /\ s.vnmiBlocking /\ s.pending > 0 /\ s.insideNmi => n /\ StepPushed(frames, Len(frames) - 1)
    BY DEF Ok, VnmiOk, RipOk, Absent
  <2>2. StepPushed(frames, Len(frames) - 1) => StepPushed(e, Len(e))
    BY <1>5 DEF StepPushed
  <2>3. t.vnmiBlocking /\ t.pending > 0 => n /\ StepPushed(e, Len(e))
    BY <1>2, <1>3, <2>1, <2>2
  <2>4. g.rip # "smm"  BY <1>6, <2>1 DEF g
  <2>5. \A i \in DOMAIN e : e[i].rip # "smm"  BY <1>5, <2>1
  <2> QED  BY <1>2, <1>3, <2>1, <2>3, <2>4, <2>5 DEF VnmiOk, Absent
<1>12. ArmedOk(t, e)  BY <1>2, <1>3 DEF ArmedOk
<1> QED  BY <1>4, <1>7, <1>8, <1>9, <1>10, <1>11, <1>12 DEF Ok, t, g, e

\* An exit leads to t in KVM, with the guest where it is.
Exits(t, h, f, n, o) == Ok(t, h, f, n, o, TRUE) /\ ArmedOk(t, f)

LEMMA ExitSame ==
  ASSUME host.nrips => host.hw, NEW s, NEW h, NEW f, NEW n, NEW o, Ok(s, h, f, n, o, FALSE),
         ArmedOk(s, f), NEW e, Interrupted(s, h, e),
         NEW reason \in {"npf", "intr", "vintr", "stgi", "clgi"}, reason = "clgi" => ~host.vgif,
         e = "soft" => reason = "npf", Exit(reason, s, e)
  PROVE  Exits(cpu', h, f, n, o)
<1> DEFINE x == IF reason \in {"iret", "stgi", "clgi", "rsm"} THEN "after" ELSE Absent
           t == CompleteInterrupts([s EXCEPT !.info = e, !.inj = Absent, !.nextRip = x])
<1>1. cpu' = Handle(reason, t)  BY DEF Exit
<1>2. e = "soft" /\ host.nrips => x \in {Absent, "next"}  OBVIOUS
<1> HIDE DEF x
<1>3. Recovered(s, t, h, f, n, o, e)  BY <1>2, CompletedOk
<1> HIDE DEF t
<1>4. Ok(t, h, f, n, o, TRUE) /\ ArmedOk(t, f)  BY <1>3, RecoveredArmed DEF Recovered
<1> QED  BY <1>1, <1>4, HandleSame DEF Exits

LEMMA ExitDb ==
  ASSUME host.nrips => host.hw, NEW s, NEW h, NEW f, NEW n, NEW o, Ok(s, h, f, n, o, FALSE),
         host.vgif \/ s.stgi, s.inj = Absent, n => o, host.vnmi => ~s.smm,
         Exit("db", s, Absent)
  PROVE  Exits(cpu', h, f, n, o)
<1> DEFINE t == CompleteInterrupts([s EXCEPT !.info = Absent, !.inj = Absent, !.nextRip = Absent])
<1>1. cpu' = Handle("db", t)  BY DEF Exit
<1>2. Recovered(s, t, h, f, n, o, Absent)  BY CompletedOk DEF Interrupted, Absent
<1> HIDE DEF t
<1>3. Ok(t, h, f, n, o, TRUE) /\ (host.vgif \/ t.stgi) /\ (host.vnmi => ~t.smm)
  BY <1>2 DEF Recovered
<1> QED  BY <1>1, <1>3, HandleDb DEF Exits

LEMMA ExitIret ==
  ASSUME host.nrips => host.hw, NEW s, NEW h, NEW f, NEW n, NEW o, Ok(s, h, f, n, o, FALSE),
         host.vgif \/ s.stgi, s.inj = Absent, h \in Handlers, s.iret, Exit("iret", s, Absent)
  PROVE  Exits(cpu', h, f, n, o)
<1> DEFINE t == CompleteInterrupts([s EXCEPT !.info = Absent, !.inj = Absent, !.nextRip = "after"])
<1>1. cpu' = Handle("iret", t)  BY DEF Exit
<1>2. Recovered(s, t, h, f, n, o, Absent)  BY CompletedOk DEF Interrupted, Absent
<1> HIDE DEF t
<1>3. Ok(t, h, f, n, o, TRUE) /\ (host.vgif \/ t.stgi) /\ t.iret /\ t.queue = Absent
  BY <1>2 DEF Recovered
<1> QED  BY <1>1, <1>3, HandleIret DEF Exits

LEMMA ExitRsm ==
  ASSUME host.nrips => host.hw, NEW s, NEW n, NEW o, Ok(s, "smm", frames, n, o, FALSE),
         host.vgif \/ s.stgi, s.inj = Absent, Exit("rsm", s, Absent)
  PROVE  Exits(cpu', frames[Len(frames)].rip, SubSeq(frames, 1, Len(frames) - 1), n, o)
<1> DEFINE t == CompleteInterrupts([s EXCEPT !.info = Absent, !.inj = Absent, !.nextRip = "after"])
<1>1. cpu' = Handle("rsm", t)  BY DEF Exit
<1>2. Recovered(s, t, "smm", frames, n, o, Absent)  BY CompletedOk DEF Interrupted, Absent
<1> HIDE DEF t
<1>3. Ok(t, "smm", frames, n, o, TRUE) /\ (host.vgif \/ t.stgi) /\ t.queue = Absent /\ ~t.awaiting
  BY <1>2 DEF Recovered, Handlers
<1> QED  BY <1>1, <1>3, HandleRsm DEF Exits

\* The guest takes event e from s, which is b but for the RIPs and vNMI's pending bit.
Takes(b, s, e) ==
  /\ TypeOk(s) /\ s.pending = b.pending /\ s.soft = b.soft /\ s.inj = b.inj /\ s.info = b.info
  /\ s.if = b.if /\ s.tf = b.tf /\ s.gif = b.gif /\ s.stgi = b.stgi /\ s.vintr = b.vintr
  /\ s.irq = b.irq /\ s.event = b.event
  /\ s.smm = b.smm /\ s.insideNmi = b.insideNmi /\ s.iret = b.iret /\ s.masked = b.masked
  /\ s.awaiting = b.awaiting /\ s.vnmiBlocking = b.vnmiBlocking /\ s.iretRip = b.iretRip
  /\ s.vnmiPending => b.vnmiPending
  /\ e \in Handlers /\ (e = "soft" => here = "int") /\ (host.vnmi => ~b.smm)
  /\ inNmi => overtaken
  /\ e = "nmi" => /\ ~b.awaiting /\ (b.masked \/ host.vnmi)
                  /\ host.vnmi /\ b.pending > 0 => b.tf \/ StepPushed(frames, Len(frames))
  /\ IF e = "soft" THEN IF host.hw THEN s.nextRip = "next" ELSE s.rip = "next"
     ELSE s.rip = here

LEMMA DeliverOk ==
  ASSUME NEW b, NEW s, NEW e, Ok(b, here, frames, inNmi, overtaken, FALSE), ArmedOk(b, frames),
         Takes(b, s, e), Deliver(s, e), AfterIret
  PROVE  /\ Ok(cpu', here', frames', inNmi', overtaken, FALSE) /\ ArmedOk(cpu', frames')
         /\ cpu'.event = b.event /\ last'.ret = last'.due /\ (last'.nested => overtaken)
<1> DEFINE due == IF e = "soft" THEN "next" ELSE here
           g == [rip |-> due, if |-> s.if, tf |-> s.tf, shadow |-> FALSE]
           t == cpu'
           k == Append(frames, g)
           v == s.vnmiBlocking \/ (host.vnmi /\ e = "nmi")
<1>1. (IF e # "soft" THEN s.rip ELSE IF host.hw THEN s.nextRip ELSE s.rip) = due
  BY DEF Takes
<1>2. /\ t = [s EXCEPT !.inj = Absent, !.rip = e, !.if = FALSE, !.tf = FALSE, !.shadow = FALSE,
                       !.vnmiBlocking = v]
      /\ frames' = k /\ here' = e /\ inNmi' = (inNmi \/ e = "nmi")
  <2>1. /\ cpu' = [s EXCEPT !.inj = Absent, !.rip = e, !.if = FALSE, !.tf = FALSE,
                            !.shadow = FALSE,
                            !.vnmiBlocking = @ \/ (host.vnmi /\ e = "nmi")]
        /\ here' = e /\ inNmi' = (inNmi \/ e = "nmi")
    BY DEF Deliver
  <2>2. frames' = k  BY <1>1 DEF Deliver
  <2> QED  BY <2>1, <2>2, FieldsAre DEF Takes, TypeOk
<1>3. last'.ret = last'.due /\ (last'.nested => overtaken)
  <2>1. last' = [ret |-> due, due |-> IF e = "soft" THEN Successor(here) ELSE here,
                 nested |-> e = "nmi" /\ inNmi]
    BY <1>1 DEF Deliver
  <2>2. (IF e = "soft" THEN Successor(here) ELSE here) = due  BY DEF Takes, Successor
  <2> QED  BY <2>1, <2>2 DEF Takes
<1> HIDE DEF due, g, t, k, v
<1>4. /\ TypeOk(t) /\ t.inj = Absent /\ t.rip = e /\ ~t.if
      /\ t.pending = b.pending /\ t.soft = b.soft /\ t.info = b.info
      /\ t.gif = b.gif /\ t.stgi = b.stgi /\ t.vintr = b.vintr /\ t.irq = b.irq
      /\ t.event = b.event /\ t.smm = b.smm /\ t.insideNmi = b.insideNmi /\ t.iret = b.iret
      /\ t.masked = b.masked /\ t.awaiting = b.awaiting /\ t.iretRip = b.iretRip
      /\ t.vnmiPending => b.vnmiPending
      /\ t.vnmiBlocking <=> (b.vnmiBlocking \/ (host.vnmi /\ e = "nmi"))
  <2>1. /\ TypeOk(t) /\ t.inj = Absent /\ t.rip = e /\ ~t.if
        /\ t.pending = s.pending /\ t.soft = s.soft /\ t.info = s.info
        /\ t.gif = s.gif /\ t.stgi = s.stgi /\ t.vintr = s.vintr /\ t.irq = s.irq
        /\ t.event = s.event /\ t.smm = s.smm /\ t.insideNmi = s.insideNmi /\ t.iret = s.iret
        /\ t.masked = s.masked /\ t.awaiting = s.awaiting /\ t.iretRip = s.iretRip
        /\ t.vnmiPending = s.vnmiPending
    BY <1>2, FieldsAre DEF Takes, TypeOk, Held
  <2>2. t.vnmiBlocking <=> v  BY <1>2, FieldsAre DEF Takes, TypeOk
  <2> QED  BY <2>1, <2>2 DEF Takes, v
<1>5. g.rip = due /\ g.if = s.if /\ g.tf = s.tf  BY DEF g
<1>6. /\ Len(k) = Len(frames) + 1 /\ Len(frames) \in Nat
      /\ DOMAIN k = 1..Len(frames) + 1 /\ DOMAIN frames = 1..Len(frames)
      /\ \A i \in 1..Len(frames) : k[i] = frames[i]
      /\ k[Len(frames) + 1] = g
  BY PushIs DEF Ok, StackOk, k
<1>7. StackOk(t, e, k)
  <2>1. StackOk(b, here, frames)  BY DEF Ok
  <2>2. g.rip \in Code \/ (here \notin Code /\ ~g.if)
    BY <1>5, <2>1 DEF due, Code, StackOk, Takes
  <2> QED  BY <1>4, <2>1, <2>2, PushStack DEF k
<1>8. RipOk(t, e, FALSE)  BY <1>4 DEF Ok, RipOk, Absent
<1>9. MaskOk(t, e, overtaken, FALSE)  BY <1>4 DEF Ok, MaskOk, Absent
<1>10. HandlerOk(t, e, k, inNmi', overtaken, FALSE)
  <2> SUFFICES ASSUME ~overtaken, inNmi' PROVE HandlerOk(t, e, k, inNmi', overtaken, FALSE)
    BY DEF HandlerOk
  <2>1. e = "nmi"  BY <1>2 DEF Takes
  <2>2. ~b.awaiting /\ (b.masked \/ host.vnmi)  BY <2>1 DEF Takes
  <2>3. NmiMask(t)  BY <1>4, <2>1, <2>2 DEF NmiMask
  <2> QED  BY <1>4, <2>1, <2>2, <2>3 DEF HandlerOk
<1>11. VnmiOk(t, e, k, inNmi', FALSE)
  <2> SUFFICES ASSUME host.vnmi PROVE VnmiOk(t, e, k, inNmi', FALSE)  BY DEF VnmiOk
  <2>1. /\ b.pending <= 1 /\ ~b.smm /\ here # "smm" /\ ~overtaken
        /\ \A i \in DOMAIN frames : frames[i].rip # "smm"
        /\ b.vnmiBlocking /\ b.pending > 0 => inNmi
    BY DEF Ok, VnmiOk, MaskOk, Takes
  <2>2. e # "smm" /\ due # "smm"  BY <2>1 DEF Takes, Handlers, due
  <2>3. \A i \in DOMAIN k : k[i].rip # "smm"
    <3> SUFFICES ASSUME NEW i \in DOMAIN k PROVE k[i].rip # "smm"  OBVIOUS
    <3>1. i = Len(frames) + 1 \/ i \in 1..Len(frames)  BY <1>6
    <3> QED  BY <1>5, <1>6, <2>1, <2>2, <3>1
  <2>4. t.vnmiBlocking /\ t.pending > 0 => inNmi' /\ StepPushed(k, Len(k))
    <3> SUFFICES ASSUME t.vnmiBlocking, t.pending > 0 PROVE inNmi' /\ StepPushed(k, Len(k))
      OBVIOUS
    <3>1. ~inNmi  BY <2>1 DEF Takes
    <3>2. e = "nmi"  BY <1>4, <2>1, <3>1
    <3>3. b.tf \/ \E i \in 1..Len(frames) : frames[i].tf
      BY <1>4, <3>2 DEF Takes, StepPushed
    <3>4. \E i \in 1..Len(frames) + 1 : k[i].tf
      <4>1. CASE b.tf
        <5>1. g.tf  BY <1>5, <4>1 DEF Takes
        <5> QED  BY <1>6, <5>1
      <4>2. CASE \E i \in 1..Len(frames) : frames[i].tf  BY <1>6, <4>2
      <4> QED  BY <3>3, <4>1, <4>2
    <3> QED  BY <1>2, <1>6, <3>2, <3>4 DEF StepPushed
  <2> QED  BY <1>4, <2>1, <2>2, <2>3, <2>4 DEF VnmiOk, Absent
<1>12. ArmedOk(t, k)
  <2>1. NmiArmed(b, frames) => NmiArmed(t, k)
    <3>1. CASE b.tf \/ \E i \in DOMAIN frames : frames[i].tf
      <4>1. \E i \in DOMAIN k : k[i].tf
        <5>1. CASE b.tf
          <6>1. g.tf  BY <1>5, <5>1 DEF Takes
          <6> QED  BY <1>6, <6>1
        <5>2. CASE \E i \in 1..Len(frames) : frames[i].tf  BY <1>6, <5>2
        <5> QED  BY <1>6, <3>1, <5>1, <5>2
      <4> QED  BY <4>1 DEF NmiArmed
    <3>2. CASE ~b.gif /\ b.stgi  BY <1>4, <3>2 DEF NmiArmed
    <3>3. CASE NmiMask(b) /\ (b.iret \/ b.smm)  BY <1>4, <3>3 DEF NmiArmed, NmiMask
    <3> QED  BY <3>1, <3>2, <3>3 DEF NmiArmed
  <2>2. IrqArmed(b) => IrqArmed(t)  BY <1>4 DEF IrqArmed
  <2> QED  BY <1>4, <2>1, <2>2 DEF ArmedOk
<1> QED  BY <1>2, <1>3, <1>4, <1>7, <1>8, <1>9, <1>10, <1>11, <1>12 DEF Ok, t, k

\* A step to KVM, and one that stays in the guest.
LEMMA ExitInv ==
  ASSUME EventsInv, host' = host, queued' = queued, overtaken' = overtaken, last' = last,
         pc' = "kvm", Exits(cpu', here', frames', inNmi', overtaken)
  PROVE  EventsInv'
<1>1. (ReturnsRight /\ AfterIret)'  BY DEF EventsInv, ReturnsRight, AfterIret
<1>2. /\ host \in Hosts /\ queued' \in Nat /\ overtaken' \in BOOLEAN
      /\ Ok(cpu', here', frames', inNmi', overtaken', TRUE) /\ ArmedOk(cpu', frames')
  BY DEF EventsInv, Exits
<1> QED  BY <1>1, <1>2, NextInv
LEMMA GuestInv ==
  ASSUME EventsInv, host' = host, queued' = queued, overtaken' = overtaken,
         pc = "guest", pc' = "guest", kick' = kick, cpu'.event = cpu.event,
         Ok(cpu', here', frames', inNmi', overtaken, FALSE), ArmedOk(cpu', frames'),
         last'.ret = last'.due, last'.nested => overtaken
  PROVE  EventsInv'
<1>1. (ReturnsRight /\ AfterIret)'  BY DEF ReturnsRight, AfterIret
<1>2. /\ host \in Hosts /\ queued' \in Nat /\ overtaken' \in BOOLEAN
      /\ Ok(cpu', here', frames', inNmi', overtaken', FALSE) /\ (cpu'.event => kick')
  BY DEF EventsInv
<1> QED  BY <1>1, <1>2, NextInv

LEMMA ArriveInv ==
  ASSUME EventsInv, Arrive PROVE EventsInv'
<1>1. /\ host' = host /\ pc' = pc /\ here' = here /\ frames' = frames /\ inNmi' = inNmi
      /\ last' = last /\ overtaken' = overtaken /\ (kick' <=> pc # "kvm")
  BY DEF Arrive
<1>2. /\ host \in Hosts /\ pc \in {"kvm", "ready", "guest"} /\ queued \in Nat
      /\ overtaken \in BOOLEAN /\ ArmedOk(cpu, frames) /\ (pc = "ready" => EntryOk(cpu))
      /\ (pc = "kvm" => Ok(cpu, here, frames, inNmi, overtaken, TRUE))
      /\ (pc # "kvm" => Ok(cpu, here, frames, inNmi, overtaken, FALSE))
  BY DEF EventsInv
<1>3. TypeOk(cpu)  BY <1>2 DEF Ok
<1>4. queued' \in Nat /\ (cpu' = cpu \/ (SameOk(cpu, cpu') /\ cpu'.event /\ cpu'.stgi = cpu.stgi))
  <2>1. CASE queued' = queued + 1 /\ cpu' = cpu  BY <1>2, <2>1
  <2>2. CASE cpu' = [cpu EXCEPT !.irq = TRUE, !.event = TRUE] /\ queued' = queued
    BY <1>2, <1>3, <2>2, FieldsAre DEF TypeOk, SameOk
  <2>3. CASE cpu' = [cpu EXCEPT !.smi = TRUE, !.event = TRUE] /\ queued' = queued
    BY <1>2, <1>3, <2>3, FieldsAre DEF TypeOk, SameOk
  <2> QED  BY <2>1, <2>2, <2>3 DEF Arrive
<1>5. ArmedOk(cpu', frames)  BY <1>2, <1>4 DEF ArmedOk
<1>6. pc = "ready" => EntryOk(cpu')  BY <1>2, <1>4 DEF EntryOk
<1>7. ASSUME NEW k, Ok(cpu, here, frames, inNmi, overtaken, k)
      PROVE  Ok(cpu', here, frames, inNmi, overtaken, k)
  BY <1>4, <1>7, OkSame
<1>8. (ReturnsRight /\ AfterIret)'  BY <1>1 DEF EventsInv, ReturnsRight, AfterIret
<1> QED  BY <1>1, <1>2, <1>4, <1>5, <1>6, <1>7, <1>8, NextInv

LEMMA CancelInv ==
  ASSUME Constants, EventsInv, Cancel PROVE EventsInv'
<1> DEFINE t == CompleteInterrupts([cpu EXCEPT !.info = cpu.inj, !.inj = Absent])
           b == t.event \/ kick
<1>1. /\ host' = host /\ pc = "ready" /\ pc' = "kvm" /\ here' = here /\ frames' = frames
      /\ inNmi' = inNmi /\ last' = last /\ overtaken' = overtaken /\ queued' = queued
  BY DEF Cancel
<1>2. /\ Ok(cpu, here, frames, inNmi, overtaken, FALSE) /\ ArmedOk(cpu, frames)
      /\ host.nrips => host.hw
  BY <1>1 DEF EventsInv, Constants
<1>3. t = CompleteInterrupts([cpu EXCEPT !.info = cpu.inj, !.inj = Absent, !.nextRip = cpu.nextRip])
  <2>1. [cpu EXCEPT !.info = cpu.inj, !.inj = Absent]
          = [cpu EXCEPT !.info = cpu.inj, !.inj = Absent, !.nextRip = cpu.nextRip]
    BY <1>2, FieldsAre DEF Ok, TypeOk
  <2> QED  BY <2>1
<1>4. Interrupted(cpu, here, cpu.inj)  BY DEF Interrupted
<1>5. cpu.inj = "soft" /\ host.nrips => cpu.nextRip \in {Absent, "next"}  BY <1>2 DEF Ok, RipOk
<1>6. cpu' = [t EXCEPT !.event = @ \/ kick]  BY DEF Cancel
<1> HIDE DEF t
<1>7. Recovered(cpu, t, here, frames, inNmi, overtaken, cpu.inj)
  BY <1>2, <1>3, <1>4, <1>5, CompletedOk
<1>8. Ok(t, here, frames, inNmi, overtaken, TRUE) /\ ArmedOk(t, frames) /\ TypeOk(t)
  BY <1>2, <1>7, RecoveredArmed DEF Recovered, Ok
<1>9. cpu' = [t EXCEPT !.event = b]  BY <1>6, <1>8, FieldsAre DEF TypeOk
<1>10. (cpu'.event <=> b) /\ cpu'.tf = t.tf /\ cpu'.gif = t.gif /\ cpu'.stgi = t.stgi
       /\ cpu'.irq = t.irq /\ cpu'.vintr = t.vintr
  BY <1>8, <1>9, FieldsAre DEF TypeOk
<1> HIDE DEF b
<1>11. SameOk(t, cpu')  BY <1>8, <1>9, EventSame
<1>12. Ok(cpu', here, frames, inNmi, overtaken, TRUE)  BY <1>8, <1>11, OkSame
<1>13. ArmedOk(cpu', frames)
  BY <1>8, <1>10, <1>11 DEF ArmedOk, NmiArmed, IrqArmed, NmiMask, SameOk, b
<1> QED  BY <1>1, <1>12, <1>13, ExitInv DEF Exits

LEMMA RunInv ==
  ASSUME EventsInv, Run PROVE EventsInv'
<1> DEFINE stop == cpu.step /\ cpu.inj # Absent
<1>1. /\ host' = host /\ pc = "ready" /\ pc' = "guest" /\ here' = here /\ frames' = frames
      /\ inNmi' = inNmi /\ last' = last /\ overtaken' = overtaken /\ queued' = queued
      /\ cpu' = (IF stop THEN DisableStep(cpu) ELSE cpu) /\ kick' = (kick \/ stop)
  BY DEF Run
<1>2. /\ Ok(cpu, here, frames, inNmi, overtaken, FALSE) /\ ArmedOk(cpu, frames) /\ EntryOk(cpu)
      /\ (cpu.event => kick) /\ host \in Hosts /\ queued \in Nat /\ overtaken \in BOOLEAN
  BY <1>1 DEF EventsInv
<1>3. (ReturnsRight /\ AfterIret)'  BY <1>1 DEF EventsInv, ReturnsRight, AfterIret
<1>4. /\ Ok(cpu', here, frames, inNmi, overtaken, FALSE) /\ ArmedOk(cpu', frames)
      /\ cpu'.event => kick'
  <2>1. CASE stop
    <3>1. cpu' = DisableStep(cpu) /\ kick'  BY <1>1, <2>1
    <3>2. SameOk(cpu, cpu')  BY <1>2, <3>1, DisableStepSame DEF Ok
    <3>3. /\ cpu'.gif = cpu.gif /\ cpu'.stgi = cpu.stgi /\ cpu'.vintr = cpu.vintr
          /\ cpu'.irq = cpu.irq /\ cpu'.event = cpu.event
      BY <1>2, <3>1, FieldsAre DEF DisableStep, Ok, TypeOk
    <3>4. cpu'.pending > 0 => NmiArmed(cpu', frames) \/ cpu'.event
      BY <1>2, <2>1, <3>2, <3>3 DEF EntryOk, SameOk, NmiArmed, NmiMask
    <3>5. ArmedOk(cpu', frames)  BY <1>2, <3>3, <3>4 DEF ArmedOk, IrqArmed
    <3> QED  BY <1>2, <3>1, <3>2, <3>5, OkSame
  <2>2. CASE ~stop  BY <1>1, <1>2, <2>2
  <2> QED  BY <2>1, <2>2
<1> HIDE DEF stop
<1> QED  BY <1>1, <1>2, <1>3, <1>4, NextInv

LEMMA InjectedInv ==
  ASSUME Constants, EventsInv, Injected PROVE EventsInv'
<1>1. pc = "guest" /\ cpu.inj # Absent /\ host' = host /\ queued' = queued /\ overtaken' = overtaken
  BY DEF Injected
<1>2. /\ Ok(cpu, here, frames, inNmi, overtaken, FALSE) /\ ArmedOk(cpu, frames)
      /\ (host.nrips => host.hw) /\ AfterIret
  BY <1>1 DEF EventsInv, Constants
<1>3. CASE Deliver(cpu, cpu.inj) /\ UNCHANGED <<pc, kick>>
  <2> DEFINE e == cpu.inj
  <2>1. e \in Handlers  BY <1>1, <1>2 DEF Ok, TypeOk, Held
  <2>2. e = "soft" => here = "int" /\ IF host.hw THEN cpu.nextRip = "next" ELSE cpu.rip = "next"
    BY <1>2 DEF Ok, RipOk
  <2>3. e # "soft" => cpu.rip = here  BY <1>2 DEF Ok, RipOk
  <2>4. (host.vnmi => ~cpu.smm) /\ (inNmi => overtaken)
    BY <1>1, <1>2 DEF Ok, VnmiOk, HandlerOk
  <2>5. e = "nmi" => /\ ~cpu.awaiting /\ (cpu.masked \/ host.vnmi)
                     /\ host.vnmi => cpu.pending = 0
    BY <1>2 DEF Ok, MaskOk, VnmiOk
  <2>6. Takes(cpu, cpu, e)  BY <1>2, <2>1, <2>2, <2>3, <2>4, <2>5 DEF Takes, Ok
  <2> HIDE DEF e
  <2>7. Deliver(cpu, e)  BY <1>3 DEF e
  <2>8. /\ Ok(cpu', here', frames', inNmi', overtaken, FALSE) /\ ArmedOk(cpu', frames')
        /\ cpu'.event = cpu.event /\ last'.ret = last'.due /\ (last'.nested => overtaken)
    BY <1>2, <2>6, <2>7, DeliverOk
  <2> QED  BY <1>1, <1>3, <2>8, GuestInv
<1>4. CASE \E info \in {cpu.inj} \cup (IF cpu.inj = "soft" THEN {"fault"} ELSE {}) :
             Exit("npf", cpu, info) /\ UNCHANGED <<here, frames, inNmi, last>>
  <2>1. PICK info \in {cpu.inj} \cup (IF cpu.inj = "soft" THEN {"fault"} ELSE {}) :
             Exit("npf", cpu, info) /\ UNCHANGED <<here, frames, inNmi, last>>
    BY <1>4
  <2>2. Interrupted(cpu, here, info)  BY DEF Interrupted
  <2>3. Exits(cpu', here, frames, inNmi, overtaken)  BY <1>2, <2>1, <2>2, ExitSame
  <2>4. pc' = "kvm"  BY <2>1 DEF Exit
  <2> QED  BY <1>1, <2>1, <2>3, <2>4, ExitInv
<1> QED  BY <1>3, <1>4 DEF Injected

LEMMA VnmiInv ==
  ASSUME EventsInv, Vnmi PROVE EventsInv'
<1> DEFINE s == [cpu EXCEPT !.vnmiPending = FALSE]
<1>1. /\ pc = "guest" /\ cpu.inj = Absent /\ ~kick /\ VnmiDue /\ Deliver(s, "nmi")
      /\ host' = host /\ queued' = queued /\ overtaken' = overtaken /\ pc' = pc /\ kick' = kick
  BY DEF Vnmi
<1>2. /\ Ok(cpu, here, frames, inNmi, overtaken, FALSE) /\ ArmedOk(cpu, frames) /\ ~cpu.event
      /\ AfterIret
  BY <1>1 DEF EventsInv
<1>3. host.vnmi /\ ~NmiMask(cpu) /\ cpu.gif  BY <1>1, <1>2 DEF VnmiDue, Ok, MaskOk, NmiMask
<1>4. /\ TypeOk(s) /\ s.pending = cpu.pending /\ s.soft = cpu.soft /\ s.inj = cpu.inj
      /\ s.info = cpu.info /\ s.if = cpu.if /\ s.tf = cpu.tf /\ s.gif = cpu.gif
      /\ s.stgi = cpu.stgi /\ s.vintr = cpu.vintr /\ s.irq = cpu.irq /\ s.event = cpu.event
      /\ s.smm = cpu.smm /\ s.insideNmi = cpu.insideNmi /\ s.iret = cpu.iret
      /\ s.masked = cpu.masked /\ s.awaiting = cpu.awaiting /\ s.vnmiBlocking = cpu.vnmiBlocking
      /\ s.iretRip = cpu.iretRip /\ ~s.vnmiPending /\ s.rip = cpu.rip
  BY <1>2, FieldsAre DEF Ok, TypeOk
<1>5. s.rip = here  BY <1>1, <1>2, <1>4 DEF Ok, RipOk, Absent
<1>6. ~cpu.smm /\ (inNmi => overtaken) /\ ~cpu.awaiting
  BY <1>2, <1>3 DEF Ok, VnmiOk, HandlerOk, MaskOk, NmiMask
<1>7. cpu.pending > 0 => cpu.tf \/ StepPushed(frames, Len(frames))
  <2>1. DOMAIN frames = 1..Len(frames)
    <3>1. frames \in Seq({frames[i] : i \in DOMAIN frames})  BY <1>2 DEF Ok, StackOk
    <3> QED  BY <3>1
  <2> QED  BY <1>2, <1>3, <2>1 DEF ArmedOk, NmiArmed, StepPushed
<1> HIDE DEF s
<1>8. Takes(cpu, s, "nmi")  BY <1>3, <1>4, <1>5, <1>6, <1>7 DEF Takes, Handlers
<1>9. /\ Ok(cpu', here', frames', inNmi', overtaken, FALSE) /\ ArmedOk(cpu', frames')
      /\ cpu'.event = cpu.event /\ last'.ret = last'.due /\ (last'.nested => overtaken)
  BY <1>1, <1>2, <1>8, DeliverOk
<1> QED  BY <1>1, <1>9, GuestInv

LEMMA LeaveInv ==
  ASSUME Constants, EventsInv, Leave PROVE EventsInv'
<1>1. /\ pc = "guest" /\ cpu.inj = Absent /\ host' = host /\ queued' = queued
      /\ overtaken' = overtaken /\ here' = here /\ frames' = frames /\ inNmi' = inNmi
      /\ last' = last
  BY DEF Leave
<1>2. /\ Ok(cpu, here, frames, inNmi, overtaken, FALSE) /\ ArmedOk(cpu, frames)
      /\ (host.nrips => host.hw)
  BY <1>1 DEF EventsInv, Constants
<1>3. PICK reason \in {"intr", "vintr"} : Exit(reason, cpu, Absent)  BY DEF Leave
<1>4. Interrupted(cpu, here, Absent) /\ Absent # "soft"  BY <1>1 DEF Interrupted, Absent
<1>5. Exits(cpu', here, frames, inNmi, overtaken)  BY <1>2, <1>3, <1>4, ExitSame
<1>6. pc' = "kvm"  BY <1>3 DEF Exit
<1> QED  BY <1>1, <1>5, <1>6, ExitInv

\* An instruction that leaves s behind completes, or the trap after it exits.
LEMMA CompleteInv ==
  ASSUME Constants, EventsInv, pc = "guest", host' = host, queued' = queued,
         overtaken' = overtaken, last' = last, NEW s, Complete(s),
         Ok(s, s.rip, frames', inNmi', overtaken, FALSE), s.inj = Absent, s.event = cpu.event,
         ~cpu.tf => ArmedOk(s, frames'), host.vgif \/ s.stgi, inNmi' => overtaken,
         host.vnmi => ~s.smm
  PROVE  EventsInv'
<1>1. (host.nrips => host.hw) /\ last.ret = last.due /\ (last.nested => overtaken)
  BY DEF EventsInv, Constants, ReturnsRight, AfterIret
<1>2. here' = s.rip  BY DEF Complete
<1>3. CASE cpu.tf
  <2>1. Exit("db", s, Absent)  BY <1>3 DEF Complete
  <2>2. Exits(cpu', s.rip, frames', inNmi', overtaken)  BY <1>1, <2>1, ExitDb
  <2>3. pc' = "kvm"  BY <2>1 DEF Exit
  <2> QED  BY <1>2, <2>2, <2>3, ExitInv
<1>4. CASE ~cpu.tf
  <2>1. cpu' = s /\ pc' = pc /\ kick' = kick  BY <1>4 DEF Complete
  <2> QED  BY <1>1, <1>2, <1>4, <2>1, GuestInv
<1> QED  BY <1>3, <1>4

\* An instruction of the guest's code takes cpu to s.
Walks(s) ==
  /\ TypeOk(s) /\ s.rip \in Code /\ s.pending = cpu.pending /\ s.vnmiPending = cpu.vnmiPending
  /\ s.soft = cpu.soft /\ s.inj = cpu.inj /\ s.info = cpu.info /\ s.tf = cpu.tf
  /\ s.stgi = cpu.stgi /\ s.vintr = cpu.vintr /\ s.irq = cpu.irq /\ s.event = cpu.event
  /\ s.smm = cpu.smm /\ s.insideNmi = cpu.insideNmi /\ s.iret = cpu.iret
  /\ s.masked = cpu.masked /\ s.awaiting = cpu.awaiting
  /\ s.vnmiBlocking = cpu.vnmiBlocking /\ s.iretRip = cpu.iretRip
  /\ s.gif = cpu.gif \/ ~cpu.stgi \/ ~s.gif

LEMMA WalkInv ==
  ASSUME Constants, EventsInv, pc = "guest", host' = host, queued' = queued,
         overtaken' = overtaken, last' = last, frames' = frames, inNmi' = inNmi,
         here \in Code, cpu.inj = Absent, NEW s, Walks(s), Complete(s)
  PROVE  EventsInv'
<1>1. Ok(cpu, here, frames, inNmi, overtaken, FALSE) /\ ArmedOk(cpu, frames)
  BY DEF EventsInv
<1>2. inNmi => overtaken  BY <1>1 DEF Ok, HandlerOk, Code
<1>3. StackOk(s, s.rip, frames)  BY <1>1 DEF Ok, StackOk, Walks
<1>4. RipOk(s, s.rip, FALSE)  BY <1>1 DEF Ok, RipOk, Walks, Absent
<1>5. MaskOk(s, s.rip, overtaken, FALSE)  BY <1>1 DEF Ok, MaskOk, Walks
<1>6. HandlerOk(s, s.rip, frames, inNmi, overtaken, FALSE)  BY <1>2 DEF HandlerOk
<1>7. VnmiOk(s, s.rip, frames, inNmi, FALSE)  BY <1>1 DEF Ok, VnmiOk, Walks, Code
<1>8. Ok(s, s.rip, frames, inNmi, overtaken, FALSE)
  BY <1>3, <1>4, <1>5, <1>6, <1>7 DEF Ok, Walks
<1>9. ArmedOk(s, frames)  BY <1>1 DEF ArmedOk, NmiArmed, IrqArmed, NmiMask, Walks
<1>10. host.vnmi => ~s.smm  BY <1>1 DEF Ok, VnmiOk, Walks, Code
<1>11. host.vgif \/ s.stgi  BY <1>9 DEF ArmedOk
<1> QED  BY <1>2, <1>8, <1>9, <1>10, <1>11, CompleteInv DEF Walks

LEMMA StraightInv ==
  ASSUME Constants, EventsInv, Straight, pc = "guest", cpu.inj = Absent,
         host' = host, queued' = queued, overtaken' = overtaken
  PROVE  EventsInv'
<1>1. /\ Ok(cpu, here, frames, inNmi, overtaken, FALSE) /\ ArmedOk(cpu, frames)
      /\ host.nrips => host.hw
  BY DEF EventsInv, Constants
<1>2. TypeOk(cpu) /\ cpu.rip = here  BY <1>1 DEF Ok, RipOk, Absent
<1>3. inNmi' = inNmi /\ last' = last  BY DEF Straight
<1>4. ASSUME here # "smm" PROVE frames' = frames  BY <1>4 DEF Straight
<1>5. ASSUME NEW s, Walks(s), Complete(s), here \in Code PROVE EventsInv'
  <2>1. frames' = frames  BY <1>4, <1>5 DEF Code
  <2> QED  BY <1>3, <1>5, <2>1, WalkInv
<1>6. ASSUME NEW reason \in {"stgi", "clgi"}, Intercept(reason), reason = "clgi" => ~host.vgif,
             here = "main"
      PROVE  EventsInv'
  <2>1. frames' = frames /\ here' = here /\ Exit(reason, cpu, Absent) /\ pc' = "kvm"
    BY <1>4, <1>6 DEF Intercept, Exit
  <2>2. Interrupted(cpu, here, Absent) /\ Absent # "soft"  BY DEF Interrupted, Absent
  <2>3. Exits(cpu', here, frames, inNmi, overtaken)  BY <1>1, <1>6, <2>1, <2>2, ExitSame
  <2> QED  BY <1>3, <2>1, <2>3, ExitInv
<1>7. CASE here = "main" /\ Complete([cpu EXCEPT !.rip = "int", !.shadow = FALSE])
  <2> DEFINE s == [cpu EXCEPT !.rip = "int", !.shadow = FALSE]
  <2>1. Walks(s)  BY <1>2, FieldsAre DEF Walks, TypeOk, Code
  <2> HIDE DEF s
  <2> QED  BY <1>5, <1>7, <2>1 DEF s, Code
<1>8. CASE here = "main" /\ Complete([cpu EXCEPT !.if = TRUE, !.shadow = ~cpu.if])
  <2> DEFINE b == ~cpu.if
             s == [cpu EXCEPT !.if = TRUE, !.shadow = b]
  <2> HIDE DEF b
  <2>1. Walks(s)  BY <1>2, <1>8, FieldsAre DEF Walks, TypeOk, Code
  <2>2. Complete(s)  BY <1>8 DEF b
  <2> HIDE DEF s
  <2> QED  BY <1>5, <1>8, <2>1, <2>2 DEF Code
<1>9. Successor("main") = "main" /\ Successor("next") = "main"  BY DEF Successor
<1>10. CASE here = "main" /\ Complete([Step EXCEPT !.if = FALSE])
  <2> DEFINE s == [Step EXCEPT !.if = FALSE]
  <2>1. Walks(s)  BY <1>2, <1>9, <1>10, FieldsAre DEF Step, Walks, TypeOk, Code
  <2> HIDE DEF s
  <2> QED  BY <1>5, <1>10, <2>1 DEF s, Code
<1>11. CASE here = "main" /\ ~cpu.stgi /\ Complete([Step EXCEPT !.gif = TRUE])
  <2> DEFINE s == [Step EXCEPT !.gif = TRUE]
  <2>1. Walks(s)  BY <1>2, <1>9, <1>11, FieldsAre DEF Step, Walks, TypeOk, Code
  <2> HIDE DEF s
  <2> QED  BY <1>5, <1>11, <2>1 DEF s, Code
<1>12. CASE here = "main" /\ Complete([Step EXCEPT !.gif = FALSE])
  <2> DEFINE s == [Step EXCEPT !.gif = FALSE]
  <2>1. Walks(s)  BY <1>2, <1>9, <1>12, FieldsAre DEF Step, Walks, TypeOk, Code
  <2> HIDE DEF s
  <2> QED  BY <1>5, <1>12, <2>1 DEF s, Code
<1>13. CASE here = "next" /\ Complete(Step)
  <2> DEFINE s == Step
  <2>1. Walks(s)  BY <1>2, <1>9, <1>13, FieldsAre DEF Step, Walks, TypeOk, Code
  <2> HIDE DEF s
  <2> QED  BY <1>5, <1>13, <2>1 DEF s, Code
<1>14. CASE here = "smm" /\ Exit("rsm", cpu, Absent) /\ here' = frames[Len(frames)].rip
  <2>1. frames' = SubSeq(frames, 1, Len(frames) - 1)  BY <1>14 DEF Straight
  <2>2. Ok(cpu, "smm", frames, inNmi, overtaken, FALSE)  BY <1>1, <1>14
  <2>3. Exits(cpu', here', frames', inNmi', overtaken)
    BY <1>1, <1>3, <1>14, <2>1, <2>2, ExitRsm DEF ArmedOk
  <2>4. pc' = "kvm"  BY <1>14 DEF Exit
  <2> QED  BY <1>3, <2>3, <2>4, ExitInv
<1> QED
  BY <1>6, <1>7, <1>8, <1>10, <1>11, <1>12, <1>13, <1>14 DEF Straight

LEMMA SoftIntInv ==
  ASSUME Constants, EventsInv, SoftInt, pc = "guest", cpu.inj = Absent,
         host' = host, queued' = queued, overtaken' = overtaken
  PROVE  EventsInv'
<1>1. /\ Ok(cpu, here, frames, inNmi, overtaken, FALSE) /\ ArmedOk(cpu, frames)
      /\ (host.nrips => host.hw) /\ here = "int" /\ AfterIret
  BY DEF EventsInv, Constants, SoftInt
<1>2. TypeOk(cpu) /\ cpu.rip = here  BY <1>1 DEF Ok, RipOk, Absent
<1>3. (inNmi => overtaken) /\ (host.vnmi => ~cpu.smm)  BY <1>1 DEF Ok, HandlerOk, VnmiOk
<1>4. ASSUME NEW s, NEW e, Takes(cpu, s, e), Deliver(s, e), UNCHANGED <<pc, kick>>
      PROVE  EventsInv'
  <2>1. /\ Ok(cpu', here', frames', inNmi', overtaken, FALSE) /\ ArmedOk(cpu', frames')
        /\ cpu'.event = cpu.event /\ last'.ret = last'.due /\ (last'.nested => overtaken)
    BY <1>1, <1>4, DeliverOk
  <2> QED  BY <1>4, <2>1, GuestInv
<1>5. CASE /\ Deliver([cpu EXCEPT !.nextRip = "next", !.rip = IF host.hw THEN @ ELSE "next"], "soft")
           /\ UNCHANGED <<pc, kick>>
  <2> DEFINE s == [cpu EXCEPT !.nextRip = "next", !.rip = IF host.hw THEN @ ELSE "next"]
  <2>1. Takes(cpu, s, "soft")
    BY <1>1, <1>2, <1>3, FieldsAre DEF Takes, TypeOk, Handlers
  <2> HIDE DEF s
  <2> QED  BY <1>4, <1>5, <2>1 DEF s
<1>6. CASE Deliver(cpu, "fault") /\ UNCHANGED <<pc, kick>>
  <2>1. Takes(cpu, cpu, "fault")  BY <1>1, <1>2, <1>3 DEF Takes, Handlers
  <2> QED  BY <1>4, <1>6, <2>1
<1>7. ASSUME NEW info \in {"soft", "fault"}, Exit("npf", cpu, info),
             UNCHANGED <<here, frames, inNmi, last>>
      PROVE  EventsInv'
  <2>1. Interrupted(cpu, here, info)  BY <1>1 DEF Interrupted
  <2>2. Exits(cpu', here, frames, inNmi, overtaken)  BY <1>1, <1>7, <2>1, ExitSame
  <2>3. pc' = "kvm"  BY <1>7 DEF Exit
  <2> QED  BY <1>7, <2>2, <2>3, ExitInv
<1> QED  BY <1>5, <1>6, <1>7 DEF SoftInt

LEMMA IretInv ==
  ASSUME Constants, EventsInv, Iret, pc = "guest", cpu.inj = Absent,
         host' = host, queued' = queued, overtaken' = overtaken
  PROVE  EventsInv'
<1>1. /\ Ok(cpu, here, frames, inNmi, overtaken, FALSE) /\ ArmedOk(cpu, frames)
      /\ (host.nrips => host.hw) /\ here \in Handlers /\ last' = last
  BY DEF EventsInv, Constants, Iret
<1>2. CASE cpu.iret /\ Intercept("iret") /\ UNCHANGED <<frames, inNmi>>
  <2>1. Exit("iret", cpu, Absent) /\ here' = here /\ pc' = "kvm"  BY <1>2 DEF Intercept, Exit
  <2>2. Exits(cpu', here, frames, inNmi, overtaken)  BY <1>1, <1>2, <2>1, ExitIret DEF ArmedOk
  <2> QED  BY <1>1, <1>2, <2>1, <2>2, ExitInv
<1>3. CASE ~cpu.iret
  <2> DEFINE g == frames[Len(frames)]
             e == SubSeq(frames, 1, Len(frames) - 1)
             s == [cpu EXCEPT !.rip = g.rip, !.if = g.if, !.tf = g.tf, !.shadow = FALSE,
                              !.vnmiBlocking = FALSE]
  <2>1. Complete(s) /\ frames' = e /\ inNmi' = FALSE  BY <1>3 DEF Iret
  <2> HIDE DEF g, e
  <2>2. /\ TypeOk(s) /\ s.rip = g.rip /\ s.if = g.if /\ s.tf = g.tf /\ ~s.vnmiBlocking
        /\ s.pending = cpu.pending /\ s.vnmiPending = cpu.vnmiPending
        /\ s.soft = cpu.soft /\ s.inj = cpu.inj /\ s.info = cpu.info /\ s.gif = cpu.gif
        /\ s.stgi = cpu.stgi /\ s.vintr = cpu.vintr /\ s.irq = cpu.irq /\ s.event = cpu.event
        /\ s.smm = cpu.smm /\ s.iret = cpu.iret /\ s.masked = cpu.masked
        /\ s.awaiting = cpu.awaiting /\ s.iretRip = cpu.iretRip
    BY <1>1, FieldsAre DEF Ok, TypeOk
  <2> HIDE DEF s
  <2>3. StackOk(cpu, here, frames) /\ frames # <<>>
    BY <1>1 DEF Ok, StackOk, Handlers, Code
  <2>4. /\ Len(e) = Len(frames) - 1 /\ Len(frames) \in Nat \ {0}
        /\ DOMAIN e = 1..Len(frames) - 1 /\ DOMAIN frames = 1..Len(frames)
        /\ \A i \in 1..Len(frames) - 1 : e[i] = frames[i]
    BY <2>3, PopIs DEF StackOk, e
  <2>5. Len(frames) \in DOMAIN frames  BY <2>4
  <2>6. StackOk(s, g.rip, e)
    <3>1. g.rip \notin Code => ~s.if  BY <2>2, <2>3, <2>5 DEF StackOk, g
    <3> QED  BY <2>3, <3>1, PopStack DEF g, e
  <2>7. RipOk(s, g.rip, FALSE)  BY <1>1, <2>2 DEF Ok, RipOk, Absent
  <2>8. MaskOk(s, g.rip, overtaken, FALSE)  BY <1>1, <2>2 DEF Ok, MaskOk
  <2>9. HandlerOk(s, g.rip, e, FALSE, overtaken, FALSE)  BY DEF HandlerOk
  <2>10. host.vnmi => ~s.smm  BY <1>1, <2>2 DEF Ok, VnmiOk, Handlers
  <2>11. VnmiOk(s, g.rip, e, FALSE, FALSE)
    <3> SUFFICES ASSUME host.vnmi PROVE VnmiOk(s, g.rip, e, FALSE, FALSE)  BY DEF VnmiOk
    <3>1. cpu.pending <= 1 /\ \A i \in DOMAIN frames : frames[i].rip # "smm"
      BY <1>1 DEF Ok, VnmiOk
    <3>2. g.rip # "smm" /\ \A i \in DOMAIN e : e[i].rip # "smm"
      BY <2>4, <2>5, <3>1 DEF g
    <3>3. s.inj = "nmi" => s.pending = 0  BY <1>1, <2>2 DEF Ok, VnmiOk
    <3> QED  BY <2>2, <2>10, <3>1, <3>2, <3>3 DEF VnmiOk
  <2>12. Ok(s, s.rip, e, FALSE, overtaken, FALSE)
    BY <2>2, <2>6, <2>7, <2>8, <2>9, <2>11 DEF Ok
  <2>13. ~cpu.tf => ArmedOk(s, e)
    <3> SUFFICES ASSUME ~cpu.tf, NmiArmed(cpu, frames) PROVE NmiArmed(s, e)
      BY <1>1, <2>2 DEF ArmedOk, IrqArmed
    <3>1. CASE \E i \in DOMAIN frames : frames[i].tf
      <4>1. PICK i \in DOMAIN frames : frames[i].tf  BY <3>1
      <4>2. CASE i = Len(frames)  BY <2>2, <4>1, <4>2 DEF g, NmiArmed
      <4>3. CASE i # Len(frames)
        <5>1. i \in DOMAIN e /\ e[i] = frames[i]  BY <2>4, <4>1, <4>3
        <5> QED  BY <4>1, <5>1 DEF NmiArmed
      <4> QED  BY <4>2, <4>3
    <3>2. CASE ~cpu.gif /\ cpu.stgi  BY <2>2, <3>2 DEF NmiArmed
    <3>3. CASE NmiMask(cpu) /\ cpu.smm
      BY <2>2, <2>10, <3>3 DEF NmiArmed, NmiMask
    <3> QED  BY <1>3, <3>1, <3>2, <3>3 DEF NmiArmed
  <2>14. host.vgif \/ s.stgi  BY <1>1, <2>2 DEF ArmedOk
  <2>15. /\ Ok(s, s.rip, frames', inNmi', overtaken, FALSE) /\ (inNmi' => overtaken)
         /\ ~cpu.tf => ArmedOk(s, frames')
    BY <2>1, <2>12, <2>13
  <2> QED  BY <1>1, <2>1, <2>2, <2>10, <2>14, <2>15, CompleteInv
<1> QED  BY <1>2, <1>3 DEF Iret

LEMMA StepInv ==
  ASSUME Constants, EventsInv, [Next]_vars PROVE EventsInv'
<1>1. CASE Instruction
  <2>1. /\ pc = "guest" /\ cpu.inj = Absent /\ (Straight \/ SoftInt \/ Iret)
        /\ host' = host /\ queued' = queued /\ overtaken' = overtaken
    BY <1>1 DEF Instruction
  <2> QED  BY <2>1, StraightInv, SoftIntInv, IretInv
<1>2. CASE UNCHANGED vars
  <2>1. /\ host' = host /\ pc' = pc /\ cpu' = cpu /\ kick' = kick /\ queued' = queued
        /\ here' = here /\ frames' = frames /\ inNmi' = inNmi /\ last' = last
        /\ overtaken' = overtaken
    BY <1>2 DEF vars
  <2>2. (ReturnsRight /\ AfterIret)'  BY <2>1 DEF EventsInv, ReturnsRight, AfterIret
  <2> QED  BY <2>1, <2>2, NextInv DEF EventsInv
<1> QED
  BY <1>1, <1>2, ArriveInv, PrepareInv, CancelInv, RunInv, InjectedInv, VnmiInv, LeaveInv
  DEF Next

LEMMA InitInv ==
  ASSUME Init PROVE EventsInv
<1>1. /\ host \in Hosts /\ pc = "kvm" /\ kick = FALSE /\ queued = 0 /\ here = "main"
      /\ frames = <<>> /\ inNmi = FALSE /\ overtaken = FALSE
      /\ last = [ret |-> Absent, due |-> Absent, nested |-> FALSE]
  BY DEF Init
<1> DEFINE b == ~host.vgif
<1>2. cpu = [rip |-> "main", if |-> FALSE, tf |-> FALSE, shadow |-> FALSE, gif |-> TRUE,
            inj |-> Absent, info |-> Absent, nextRip |-> Absent, iret |-> FALSE, vintr |-> FALSE,
            stgi |-> b, vnmiPending |-> FALSE, vnmiBlocking |-> FALSE,
            queue |-> Absent, pending |-> 0, irq |-> FALSE, smi |-> FALSE, event |-> FALSE,
            smm |-> FALSE, insideNmi |-> FALSE, masked |-> FALSE, awaiting |-> FALSE,
            iretRip |-> Absent, step |-> FALSE, guestTf |-> FALSE,
            soft |-> [old |-> Absent, next |-> Absent]]
  BY DEF Init
<1> HIDE DEF b
<1>3. cpu = [x \in Fields |-> cpu[x]]  BY <1>2 DEF Fields
<1>4. /\ cpu.rip = "main" /\ ~cpu.if /\ ~cpu.tf /\ cpu.inj = Absent /\ cpu.info = Absent
      /\ ~cpu.iret /\ (cpu.stgi <=> b) /\ ~cpu.vnmiPending /\ ~cpu.vnmiBlocking
      /\ cpu.queue = Absent /\ cpu.pending = 0 /\ ~cpu.irq /\ ~cpu.smm /\ ~cpu.masked
      /\ ~cpu.awaiting /\ cpu.soft = NoSoft
  BY <1>2 DEF NoSoft
<1>5. TypeOk(cpu)  BY <1>3, <1>4 DEF TypeOk, Held
<1>6. frames \in Seq({frames[i] : i \in DOMAIN frames}) /\ DOMAIN frames = {}  BY <1>1
<1>7. StackOk(cpu, here, frames)  BY <1>1, <1>6 DEF StackOk, Code
<1>8. RipOk(cpu, here, TRUE)  BY <1>1, <1>4 DEF RipOk, Absent
<1>9. MaskOk(cpu, here, overtaken, TRUE)  BY <1>1, <1>4 DEF MaskOk, Absent
<1>10. HandlerOk(cpu, here, frames, inNmi, overtaken, TRUE)  BY <1>1 DEF HandlerOk
<1>11. VnmiOk(cpu, here, frames, inNmi, TRUE)  BY <1>1, <1>4, <1>6 DEF VnmiOk, Absent
<1>12. ArmedOk(cpu, frames)  BY <1>4 DEF ArmedOk, b
<1>13. ReturnsRight /\ AfterIret
  <2>1. last.ret = last.due /\ ~last.nested  BY <1>1
  <2> QED  BY <2>1 DEF ReturnsRight, AfterIret
<1> QED
  BY <1>1, <1>4, <1>5, <1>7, <1>8, <1>9, <1>10, <1>11, <1>12, <1>13 DEF EventsInv, Ok

LEMMA InvKept ==
  ASSUME EventsInv PROVE EventsKept
BY DEF EventsInv, EventsKept, WindowsOpen, ArmedOk

(* Handlers return to where the guest was (svm_complete_soft_interrupt), no NMI   *)
(* is delivered before the IRET of the last one (svm_complete_interrupts), and a  *)
(* masked event has an exit due (svm_enable_nmi_window, svm_enable_irq_window).   *)
THEOREM EventsKeptCorrect ==
  ASSUME Constants PROVE Spec => []EventsKept
<1>1. Constants  OBVIOUS
<1> QED  BY <1>1, InitInv, StepInv, InvKept, PTL DEF Spec
=============================================================================
