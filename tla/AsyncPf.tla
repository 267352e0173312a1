------------------------------- MODULE AsyncPf -------------------------------
(***************************************************************************)
(* Asynchronous page faults of one vCPU (x86.c).  A page the host must     *)
(* first bring in is fetched by a worker while the guest runs another      *)
(* task; the guest learns of the missing page by an exception with a token *)
(* and of the page's arrival by the same token, one at a time, in a word   *)
(* it clears and acknowledges.  Faults under way are kept in a hash table. *)
(*                                                                         *)
(* A gfn serves as its fault's token.  The queues and workers are those of *)
(* async_pf.c (kvm_main); the guest waits, clears the word and             *)
(* acknowledges as Linux does.                                             *)
(***************************************************************************)
EXTENDS Integers, Sequences, SequencesExt

CONSTANTS
  Gfns,          \* numbers above zero
  Home,          \* kvm_async_pf_hash_fn
  Size,          \* ASYNC_PF_PER_VCPU
  MaxNotifying   \* bound on the workers that notify at once

Free == -1
All == -2        \* the token that wakes every task

VARIABLES
  enabled,       \* kvm_pv_async_pf_enabled
  gfns,          \* the hash table
  queue,         \* faults with a worker
  done,          \* completed, in order
  injected,      \* those with notpresent_injected
  notifying,     \* how many workers, having found the done list empty, are about to
                 \* "request" and to "kick"
  token,         \* the guest's word, 0 when free
  pagereadyPending, halted,
  ready, halt,   \* KVM_REQ_APF_READY and KVM_REQ_APF_HALT
  kicked,        \* an IPI or a wake-up under way
  irq,           \* the page-ready interrupt in the local APIC
  pc,            \* "host", "complete", "guest", "asleep"
  handler,       \* the guest's handler, interrupts off: "no", "took", "cleared"
  waiting,       \* tokens of sleeping guest tasks
  left           \* history: the guest stopped with an event it had not handled

vars == <<enabled, gfns, queue, done, injected, notifying, token, pagereadyPending, halted,
          ready, halt, kicked, irq, pc, handler, waiting, left>>
lists == <<gfns, queue, done, injected>>
reqs == <<notifying, ready, halt, kicked>>
guest == <<handler, waiting, left>>
word == <<token, pagereadyPending, irq>>

Init ==
  /\ enabled = FALSE /\ gfns = [k \in 0..Size - 1 |-> Free]
  /\ queue = {} /\ done = <<>> /\ injected = {} /\ notifying = [request |-> 0, kick |-> 0]
  /\ token = 0 /\ pagereadyPending = FALSE /\ irq = FALSE /\ halted = FALSE
  /\ ready = FALSE /\ halt = FALSE /\ kicked = FALSE
  /\ pc = "host" /\ handler = "no" /\ waiting = {} /\ left = FALSE

(***************************************************************************)
(* The hash table: open addressing, deletion moves later entries back.     *)
(***************************************************************************)
NextProbe(k) == (k + 1) % Size
\* The slot of gfn, or the free one a search for it ends at.
Slot(table, gfn) ==
  LET probe(n) == (Home[gfn] + n) % Size
      hits == {n \in 0..Size - 1 : table[probe(n)] \in {gfn, Free}}
  IN probe(Min(hits \cup {Size}))
Find(table, gfn) == table[Slot(table, gfn)] = gfn
Add(table, gfn) == [table EXCEPT ![Slot(table, gfn)] = gfn]
\* Regression: the interval does not wrap.
StaysUnwrapped(i, j, k) == i < k /\ k <= j
\* An entry at j with home k stays when k is cyclically in ]i, j].
Stays(i, j, k) == IF i <= j THEN i < k /\ k <= j ELSE i < k \/ k <= j
Delete(table, gfn) ==
  LET Tables == [0..Size - 1 -> Gfns \cup {Free}]
      from[t \in Tables, i \in 0..Size - 1, last \in 0..Size - 1] ==
        LET j == NextProbe(last)
        IN IF t[j] = Free THEN t
           ELSE IF Stays(i, j, Home[t[j]]) THEN from[t, i, j]
           ELSE from[[t EXCEPT ![i] = t[j], ![j] = Free], j, j]
      hole == Slot(table, gfn)
  IN IF table[hole] # gfn THEN table ELSE from[[table EXCEPT ![hole] = Free], hole, hole]

(***************************************************************************)
(* Faults and workers.                                                     *)
(***************************************************************************)
\* A fault of the guest with interrupts on: kvm_can_do_async_pf, then
\* kvm_arch_async_page_not_present with or without the exception.
Fault(g, deliver) ==
  /\ pc = "host" /\ handler = "no" /\ ~halted /\ ~halt /\ g \notin waiting
  /\ IF Find(gfns, g)
       THEN ~deliver /\ halt' = TRUE /\ UNCHANGED <<gfns, queue, injected, waiting>>
       ELSE /\ deliver => enabled
            /\ gfns' = Add(gfns, g) /\ queue' = queue \cup {g}
            /\ injected' = IF deliver THEN injected \cup {g} ELSE injected
            /\ waiting' = IF deliver THEN waiting \cup {g} ELSE waiting
            /\ halt' = ~deliver
  /\ UNCHANGED <<enabled, done, notifying, word, halted, ready, kicked, pc, handler, left>>
\* async_pf_execute: a worker that finds the list empty notifies the vCPU.  Another may
\* come upon an empty list before it has, and notifies too.
Work(g) ==
  /\ g \in queue
  /\ queue' = queue \ {g} /\ done' = Append(done, g)
  /\ IF done = <<>>
       THEN /\ notifying.request + notifying.kick < MaxNotifying
            /\ notifying' = [notifying EXCEPT !.request = @ + 1]
       ELSE UNCHANGED notifying
  /\ UNCHANGED <<enabled, gfns, injected, word, halted, ready, halt, kicked, pc, guest>>
\* kvm_arch_async_page_present_queued.
RequestReady ==
  /\ notifying.request > 0 /\ ready' = TRUE
  /\ notifying' = [notifying EXCEPT !.request = @ - 1, !.kick = @ + 1]
  /\ UNCHANGED <<enabled, lists, word, halted, halt, kicked, pc, guest>>
Kick ==
  /\ notifying.kick > 0 /\ notifying' = [notifying EXCEPT !.kick = @ - 1]
  /\ kicked' = (kicked \/ (~pagereadyPending /\ pc \in {"guest", "asleep"}))
  /\ UNCHANGED <<enabled, lists, word, halted, ready, halt, pc, guest>>

(***************************************************************************)
(* The vCPU outside the guest.                                             *)
(***************************************************************************)
CheckReady ==
  /\ pc = "host" /\ ready /\ ~halt /\ ~halted /\ ready' = FALSE /\ pc' = "complete"
  /\ UNCHANGED <<enabled, lists, notifying, word, halted, halt, kicked, guest>>
\* kvm_check_async_pf_completion: one round, and its end.
CanDequeue == ~enabled \/ token = 0
Present ==
  LET h == Head(done)
      tell == (h = All \/ h \in injected) /\ enabled
  IN /\ pc = "complete" /\ done # <<>> /\ CanDequeue
     /\ done' = Tail(done) /\ injected' = injected \ {h}
     /\ gfns' = IF h = All THEN gfns ELSE Delete(gfns, h)
     /\ IF tell THEN token' = h /\ pagereadyPending' = TRUE /\ irq' = TRUE
        ELSE UNCHANGED word
     /\ halted' = FALSE
     /\ UNCHANGED <<enabled, queue, reqs, pc, guest>>
CompleteEnd ==
  /\ pc = "complete" /\ (done = <<>> \/ ~CanDequeue) /\ pc' = "host"
  /\ UNCHANGED <<enabled, lists, reqs, word, halted, guest>>
\* KVM_REQ_APF_HALT in vcpu_enter_guest.
Halt ==
  /\ pc = "host" /\ halt /\ halt' = FALSE /\ halted' = TRUE
  /\ UNCHANGED <<enabled, lists, notifying, ready, kicked, word, pc, guest>>
\* kvm_vcpu_has_events; other events of the guest may come at any time.
HasEvents == done # <<>> \/ (irq /\ handler = "no")
\* vcpu_block.
Block ==
  /\ pc = "host" /\ halted
  /\ IF HasEvents THEN halted' = FALSE /\ UNCHANGED pc ELSE pc' = "asleep" /\ UNCHANGED halted
  /\ UNCHANGED <<enabled, lists, reqs, word, guest>>
WakeUp(other) ==
  /\ pc = "asleep" /\ (kicked \/ other)
  /\ pc' = "host" /\ kicked' = FALSE /\ halted' = (halted /\ ~other)
  /\ UNCHANGED <<enabled, lists, notifying, ready, halt, word, guest>>
Enter ==
  /\ pc = "host" /\ ~halt /\ ~ready /\ ~halted /\ pc' = "guest"
  /\ UNCHANGED <<enabled, lists, reqs, word, halted, guest>>
Exit ==
  /\ pc = "guest" /\ pc' = "host" /\ kicked' = FALSE
  /\ UNCHANGED <<enabled, lists, notifying, ready, halt, word, halted, guest>>

(***************************************************************************)
(* The guest.                                                              *)
(***************************************************************************)
Interrupt ==
  /\ pc = "guest" /\ irq /\ handler = "no" /\ irq' = FALSE
  /\ IF enabled
       THEN /\ handler' = "took"
            /\ waiting' = IF token = All THEN {} ELSE waiting \ {token}
            /\ UNCHANGED left
       ELSE UNCHANGED guest
  /\ UNCHANGED <<enabled, lists, reqs, token, pagereadyPending, halted, pc>>
Clear ==
  /\ pc = "guest" /\ handler = "took" /\ handler' = "cleared" /\ token' = 0
  /\ UNCHANGED <<enabled, lists, reqs, pagereadyPending, irq, halted, pc, waiting, left>>
\* MSR_KVM_ASYNC_PF_ACK.
Ack ==
  /\ pc = "guest" /\ handler = "cleared" /\ handler' = "no"
  /\ pagereadyPending' = FALSE /\ pc' = "complete" /\ kicked' = FALSE
  /\ UNCHANGED <<enabled, lists, notifying, ready, halt, token, irq, halted, waiting, left>>
\* kvm_pv_enable_async_pf; the guest has cleared its word.
Enable ==
  /\ pc = "guest" /\ handler = "no" /\ ~enabled /\ enabled' = TRUE /\ token' = 0
  /\ pc' = "host" /\ kicked' = FALSE
  /\ IF done = <<>> THEN done' = <<All>> /\ ready' = TRUE ELSE UNCHANGED <<done, ready>>
  /\ UNCHANGED <<gfns, queue, injected, notifying, halt, pagereadyPending, irq, halted, guest>>
\* It stops: the workers are waited for, and the guest wakes its tasks itself.
Disable ==
  /\ pc = "guest" /\ handler = "no" /\ enabled /\ enabled' = FALSE
  /\ notifying.request = 0 /\ notifying.kick = 0
  /\ queue' = {} /\ done' = <<>> /\ injected' = {} /\ gfns' = [k \in 0..Size - 1 |-> Free]
  /\ pc' = "host" /\ kicked' = FALSE /\ waiting' = {}
  /\ left' = (left \/ pagereadyPending \/ token # 0)
  /\ UNCHANGED <<notifying, ready, halt, word, halted, handler>>

Next ==
  \/ \E g \in Gfns : Work(g) \/ (\E d \in BOOLEAN : Fault(g, d))
  \/ RequestReady \/ Kick
  \/ CheckReady \/ Present \/ CompleteEnd \/ Halt \/ Block \/ Enter \/ Exit
  \/ \E o \in BOOLEAN : WakeUp(o)
  \/ Interrupt \/ Clear \/ Ack \/ Enable \/ Disable

Spec == Init /\ [][Next]_vars

-----------------------------------------------------------------------------
Completed == ToSet(done)

(* The table holds the faults under way and no others, through every deletion.    *)
TableHolds == \A g \in Gfns : Find(gfns, g) <=> g \in queue \cup Completed

(* Unless the guest once stopped with an event it had not handled, a task that    *)
(* waits has its page fetched, completed, or its token in the word with the       *)
(* interrupt to come.                                                             *)
TaskIsWoken ==
  \A g \in waiting : left \/ g \in queue \/ {g, All} \cap Completed # {}
                       \/ (token \in {g, All} /\ irq)

(* With page-ready events enabled a completed page finds a vCPU in the guest or   *)
(* asleep about to be kicked, or a guest about to acknowledge the last one.       *)
VcpuIsTold ==
  (enabled /\ ~left /\ done # <<>> /\ pc \in {"guest", "asleep"}) =>
    \/ kicked \/ notifying.request > 0 \/ notifying.kick > 0
    \/ pc = "guest" /\ (irq \/ handler # "no")

(* No page's arrival is lost.                                                     *)
EveryPageArrives == TableHolds /\ TaskIsWoken /\ VcpuIsTold

-----------------------------------------------------------------------------
(* The inductive invariant behind TaskIsWoken and VcpuIsTold: a fault the guest   *)
(* was told of stays in injected until its token is in the word, the word is free *)
(* only when nothing is pending, and a completed page has someone to look at it.  *)
Constants == \A g \in Gfns : g \in Nat /\ g # 0

FlagTypes ==
  /\ enabled \in BOOLEAN /\ ready \in BOOLEAN /\ halt \in BOOLEAN /\ halted \in BOOLEAN
  /\ kicked \in BOOLEAN /\ irq \in BOOLEAN /\ pagereadyPending \in BOOLEAN /\ left \in BOOLEAN
PlaceTypes ==
  /\ notifying \in [request : Nat, kick : Nat]
  /\ pc \in {"host", "complete", "guest", "asleep"}
  /\ handler \in {"no", "took", "cleared"}
PageTypes ==
  /\ queue \subseteq Gfns /\ injected \subseteq Gfns /\ waiting \subseteq Gfns
  /\ token \in Gfns \cup {0, All}
TypeInv == FlagTypes /\ PlaceTypes /\ PageTypes /\ done \in Seq(Gfns \cup {All})

WordInv ==
  /\ irq => token # 0
  /\ token # 0 => irq \/ handler = "took"
  /\ handler = "took" => token # 0 /\ ~irq
  /\ pagereadyPending => irq \/ handler # "no"
  /\ ~enabled => token = 0 /\ waiting = {} /\ handler = "no"

RestInv ==
  /\ halt \/ halted \/ pc = "asleep" => handler = "no"
  /\ pc = "asleep" => ~irq
  /\ pc = "guest" => ~halt /\ ~halted

WaitInv ==
  \A g \in waiting :
    \/ g \in queue \cup Completed /\ g \in injected
    \/ All \in Completed
    \/ token \in {g, All} /\ irq

ToldInv ==
  /\ pc # "complete" /\ done # <<>> =>
       ready \/ notifying.request > 0 \/ irq \/ handler # "no"
  /\ pc \in {"guest", "asleep"} /\ done # <<>> =>
       \/ kicked \/ notifying.request > 0 \/ notifying.kick > 0
       \/ (pc = "guest" /\ (irq \/ handler # "no"))

ApfInv == TypeInv /\ (~left => WordInv /\ RestInv /\ WaitInv /\ ToldInv)
=============================================================================
