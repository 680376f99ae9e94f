-------------------------------- MODULE FIFO --------------------------------
(***************************************************************************)
(* The lock-free ring buffer of FIFO.cpp, between the task that delivers   *)
(* WiFi events (Network::event pushes) and the loop task                   *)
(* (Network::process_events polls and pops).  Each action is one access to *)
(* memory the two tasks share: head, tail or a slot of data.               *)
(*                                                                         *)
(* The accesses race in the C++ sense (no field is atomic or volatile).    *)
(* What the build can produce of it is an interleaving of whole accesses:  *)
(* the fields are aligned 32-bit words of internal RAM; push and pop are   *)
(* calls into another translation unit, so nothing is cached across them;  *)
(* and inside them the int slot may alias the unsigned indices, so the     *)
(* compiler keeps the order of the slot access and the index store.        *)
(***************************************************************************)
EXTENDS Naturals, Sequences

CONSTANTS
  Length,     \* slots allocated, one of which stays free
  Events,     \* the WiFi event numbers
  ZeroEvent,  \* event number 0, which is also pop's "empty" answer
  NoEvent,    \* no event has been popped yet
  Junk        \* what malloc left in a slot

ASSUME LengthAssumption == Length \in Nat /\ Length > 1
ASSUME ZeroAssumption == ZeroEvent \in Events
ASSUME JunkAssumption == Junk \notin Events /\ NoEvent \notin Events

VARIABLES
  data,       \* the slots
  head,       \* next slot to write, stored by the producer only
  tail,       \* next slot to read, stored by the consumer only
  ppc, pval,  \* the producer: its place in push, and push's argument e
  cpc, cval,  \* the consumer: its place in pop, and pop's local val
  pushed,     \* what the last push returned
  popped      \* what the last pop returned

vars == <<data, head, tail, ppc, pval, cpc, cval, pushed, popped>>
producerVars == <<ppc, pval, pushed>>
consumerVars == <<cpc, cval, popped>>

Slots == 0 .. Length - 1

TypeOK ==
  /\ data \in [Slots -> Events \cup {Junk}]
  /\ head \in Slots
  /\ tail \in Slots
  /\ ppc \in {"idle", "write", "publish"}
  /\ pval \in Events \cup {NoEvent}
  /\ cpc \in {"idle", "check", "read", "advance"}
  /\ cval \in Events \cup {NoEvent}
  /\ pushed \in BOOLEAN
  /\ popped \in Events \cup {NoEvent}

Init ==
  /\ data = [i \in Slots |-> Junk]
  /\ head = 0
  /\ tail = 0
  /\ ppc = "idle" /\ pval = NoEvent
  /\ cpc = "idle" /\ cval = NoEvent
  /\ pushed = TRUE
  /\ popped = NoEvent

\* Faulty variant of NextSlot: the wrap is taken one slot late.
NextSlotLate(i) == IF i + 1 > Length THEN 0 ELSE i + 1

NextSlot(i) == IF i + 1 > Length - 1 THEN 0 ELSE i + 1

Empty == tail = head

-----------------------------------------------------------------------------
(* The producer: FIFO::push.                                               *)

\* Faulty variant of PushFull: refuses while one slot could still be used.
PushFullEarly ==
  /\ ppc = "idle"
  /\ NextSlot(NextSlot(head)) = tail
  /\ pushed' = FALSE
  /\ UNCHANGED <<data, head, tail, ppc, pval, consumerVars>>

PushFull ==
  /\ ppc = "idle"
  /\ NextSlot(head) = tail
  /\ pushed' = FALSE
  /\ UNCHANGED <<data, head, tail, ppc, pval, consumerVars>>

\* Faulty variant of PushRoom: writes without the test for room.
PushUnguarded(e) ==
  /\ ppc = "idle"
  /\ pval' = e
  /\ ppc' = "write"
  /\ UNCHANGED <<data, head, tail, pushed, consumerVars>>

PushRoom(e) ==
  /\ ppc = "idle"
  /\ NextSlot(head) # tail
  /\ pval' = e
  /\ ppc' = "write"
  /\ UNCHANGED <<data, head, tail, pushed, consumerVars>>

PushWrite ==
  /\ ppc = "write"
  /\ data' = [data EXCEPT ![head] = pval]
  /\ ppc' = "publish"
  /\ UNCHANGED <<head, tail, pval, pushed, consumerVars>>

PushPublish ==
  /\ ppc = "publish"
  /\ head' = NextSlot(head)
  /\ pushed' = TRUE
  /\ ppc' = "idle"
  /\ UNCHANGED <<data, tail, pval, consumerVars>>

Producer == PushFull \/ (\E e \in Events : PushRoom(e)) \/ PushWrite \/ PushPublish

-----------------------------------------------------------------------------
(* The consumer: the loop of Network::process_events around FIFO::pop.     *)

Poll ==
  /\ cpc = "idle"
  /\ ~Empty
  /\ cpc' = "check"
  /\ UNCHANGED <<data, head, tail, producerVars, cval, popped>>

\* pop tests empty() again; it would answer 0, which is also an event number.
PopCheck ==
  /\ cpc = "check"
  /\ IF Empty
     THEN /\ cpc' = "idle"
          /\ popped' = ZeroEvent
     ELSE /\ cpc' = "read"
          /\ UNCHANGED popped
  /\ UNCHANGED <<data, head, tail, producerVars, cval>>

PopRead ==
  /\ cpc = "read"
  /\ cval' = data[tail]
  /\ cpc' = "advance"
  /\ UNCHANGED <<data, head, tail, producerVars, popped>>

PopAdvance ==
  /\ cpc = "advance"
  /\ tail' = NextSlot(tail)
  /\ popped' = cval
  /\ cpc' = "idle"
  /\ UNCHANGED <<data, head, producerVars, cval>>

Consumer == Poll \/ PopCheck \/ PopRead \/ PopAdvance

Next == Producer \/ Consumer

Spec == Init /\ [][Next]_vars

-----------------------------------------------------------------------------
(* The producer never writes the slot the consumer is reading: the index   *)
(* arithmetic alone has to keep the two tasks apart (FIFO.cpp:9).          *)
NoSlotRace == ~ (ppc = "write" /\ cpc = "read" /\ head = tail)

(* Once process_events has seen an event, pop finds it: its "empty" answer *)
(* 0, which reads as the event WIFI_READY, is never returned.              *)
PopFindsEvent == cpc # "idle" => ~Empty

(* The waiting elements, oldest first, read out of the ring.               *)
Count == IF head >= tail THEN head - tail ELSE head + Length - tail
SlotAt(t, i) == IF t + i < Length THEN t + i ELSE t + i - Length
Contents == [i \in 1 .. Count |-> data[SlotAt(tail, i - 1)]]

EQ == INSTANCE EventQueue WITH
        Capacity <- Length - 1, queue <- Contents,
        accepted <- pushed, delivered <- popped

(* The ring is a bounded queue: an event is refused only when Length - 1   *)
(* events wait, none is lost, repeated, reordered or made up.              *)
ImplementsQueue == EQ!QueueSpec

=============================================================================
