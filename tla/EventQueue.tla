----------------------------- MODULE EventQueue -----------------------------
(***************************************************************************)
(* What the network event buffer promises its two users: a bounded         *)
(* first-in first-out queue between the WiFi event task, which offers      *)
(* events, and the loop task, which takes them.  An offer is refused only  *)
(* when Capacity events are waiting; an accepted event is delivered once,  *)
(* in the order of acceptance.                                             *)
(***************************************************************************)
EXTENDS Naturals, Sequences

CONSTANTS
  Events,     \* the values a caller may offer
  Capacity,   \* how many events can wait
  NoEvent     \* "nothing delivered yet"

VARIABLES
  queue,      \* the accepted events still waiting, oldest first
  accepted,   \* the answer to the last offer
  delivered   \* the event handed out last

qvars == <<queue, accepted, delivered>>

QueueInit ==
  /\ queue = <<>>
  /\ accepted = TRUE
  /\ delivered = NoEvent

Accept(e) ==
  /\ Len(queue) < Capacity
  /\ queue' = Append(queue, e)
  /\ accepted' = TRUE
  /\ UNCHANGED delivered

Refuse ==
  /\ Len(queue) = Capacity
  /\ accepted' = FALSE
  /\ UNCHANGED <<queue, delivered>>

Deliver ==
  /\ queue # <<>>
  /\ delivered' = Head(queue)
  /\ queue' = Tail(queue)
  /\ UNCHANGED accepted

QueueNext ==
  \/ \E e \in Events : Accept(e)
  \/ Refuse
  \/ Deliver

QueueSpec == QueueInit /\ [][QueueNext]_qvars

=============================================================================
