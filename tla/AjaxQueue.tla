----------------------------- MODULE AjaxQueue ------------------------------
(***************************************************************************)
(* The queue of requests of a page (AJAX.js).  One request is with the     *)
(* board at a time, the head of the queue; saving the project queues its   *)
(* three files at once, as they were at that moment.  A project that       *)
(* cannot be loaded is replaced by the default one, by a further request.  *)
(*                                                                         *)
(* second() is no action: it compares getMilliseconds(), 0 .. 999, with    *)
(* the time since 1970 of the request, and so never finds one too old.     *)
(***************************************************************************)
EXTENDS Integers, SequencesExt

CONSTANTS
  MaxRequests,   \* a bound on the requests of the page's life
  Faults         \* of "lost", "refused", "hung": what may go wrong

VARIABLES
  requests,      \* the pending requests
  next_id,
  stored,        \* the save each file of the board is of: 0 before the
                 \* first one, Partly when it was cut off
  saves,         \* the number of save_project calls
  spoiled        \* a request of the last of them failed, or was refused

vars == <<requests, next_id, stored, saves, spoiled>>

Files == {"project.txt", "bytecode.txt", "config.txt"}
Partly == -1

Ids == 0 .. MaxRequests - 1

\* Only the head has been sent.
TypeOK ==
  /\ requests \in Seq([id : Ids, what : Files \cup {"load", "default"},
                       data : 0 .. MaxRequests, at : {"queued", "sent", "answered", "hung"}])
  /\ \A i \in 1 .. Len(requests) : (requests[i].at = "queued") = (i > 1)
  /\ next_id \in 0 .. MaxRequests
  /\ stored \in [Files -> Partly .. MaxRequests]
  /\ saves \in 0 .. MaxRequests /\ spoiled \in BOOLEAN

Init ==
  /\ requests = <<>> /\ next_id = 0
  /\ stored = [f \in Files |-> 0] /\ saves = 0 /\ spoiled = FALSE

-----------------------------------------------------------------------------
(* The queue.                                                              *)

\* get_request, and what save_systemfile or load_systemfile add: the file to
\* save and its data, or which project to load.
Request(id, what, data) == [id |-> id, what |-> what, data |-> data, at |-> "queued"]

RequestNext(reqs) == IF reqs = <<>> THEN reqs ELSE [reqs EXCEPT ![1].at = "sent"]

\* Faulty variants of AddRequest: each request is sent as it is made; the
\* newest one is the next to be sent.
AddRequestSends(reqs, r) == Append(reqs, [r EXCEPT !.at = "sent"])
AddRequestFirst(reqs, r) ==
  IF reqs = <<>> THEN RequestNext(<<r>>) ELSE <<Head(reqs), r>> \o Tail(reqs)

\* A request is sent at once when no other is pending.
AddRequest(reqs, r) ==
  LET added == Append(reqs, r) IN IF Len(added) = 1 THEN RequestNext(added) ELSE added

\* Faulty variant of RequestComplete: the next request is not sent.
RequestCompleteIdles(reqs, r) == SelectSeq(reqs, LAMBDA s : s.id # r.id)

\* The first request with the id leaves the list, and the next one is sent.
RequestComplete(reqs, r) ==
  LET places == {i \in DOMAIN reqs : reqs[i].id = r.id}
  IN  RequestNext(IF places = {} THEN reqs ELSE RemoveAt(reqs, Min(places)))

-----------------------------------------------------------------------------
(* What the user starts.                                                   *)

SaveProject ==
  /\ next_id + 3 <= MaxRequests /\ next_id' = next_id + 3
  /\ saves' = saves + 1 /\ spoiled' = FALSE
  /\ LET project == AddRequest(requests, Request(next_id, "project.txt", saves'))
         bytecode == AddRequest(project, Request(next_id + 1, "bytecode.txt", saves'))
     IN  requests' = AddRequest(bytecode, Request(next_id + 2, "config.txt", saves'))
  /\ UNCHANGED stored

\* The bound leaves room for the default project.
LoadProject ==
  /\ next_id + 2 <= MaxRequests /\ next_id' = next_id + 1
  /\ requests' = AddRequest(requests, Request(next_id, "load", 0))
  /\ UNCHANGED <<stored, saves, spoiled>>

-----------------------------------------------------------------------------
(* The board, the network and the listeners of the request.                *)

Sent(r) == r \in Range(requests) /\ r.at = "sent"

At(r, at) == [i \in DOMAIN requests |->
                IF requests[i].id = r.id THEN [r EXCEPT !.at = at] ELSE requests[i]]

Spoils(r) == spoiled' = (spoiled \/ (r.what \in Files /\ r.data = saves))

\* The board's answer is the same when it did not store the file (SystemFile).
Answer(r) ==
  /\ Sent(r)
  /\ requests' = At(r, "answered")
  /\ \/ /\ stored' = IF r.what \in Files THEN [stored EXCEPT ![r.what] = r.data] ELSE stored
        /\ UNCHANGED spoiled
     \/ /\ "refused" \in Faults /\ r.what \in Files
        /\ Spoils(r)
        /\ UNCHANGED stored
  /\ UNCHANGED <<next_id, saves>>

\* The "load" event: the queue moves on before the request's own callback.
Loaded(r) ==
  /\ r \in Range(requests) /\ r.at = "answered"
  /\ requests' = RequestComplete(requests, r)
  /\ UNCHANGED <<next_id, stored, saves, spoiled>>

(* The "error" event, before the board has the request, in the middle of   *)
(* it or when its answer is lost.  When it was the project's, the default  *)
(* one is asked for then, behind what is queued.                           *)
Failed(r) ==
  /\ "lost" \in Faults
  /\ r \in Range(requests) /\ r.at \in {"sent", "answered"}
  /\ LET rest == RequestComplete(requests, r)
     IN  IF r.what = "load"
         THEN /\ next_id < MaxRequests /\ next_id' = next_id + 1
              /\ requests' = AddRequest(rest, Request(next_id, "default", 0))
         ELSE requests' = rest /\ UNCHANGED next_id
  /\ \/ r.at = "sent" /\ r.what \in Files /\ stored' = [stored EXCEPT ![r.what] = Partly]
     \/ UNCHANGED stored
  /\ Spoils(r)
  /\ UNCHANGED saves

\* Nothing is ever heard of it again; the request itself has no timeout.
Hangs(r) ==
  /\ "hung" \in Faults
  /\ Sent(r)
  /\ requests' = At(r, "hung")
  /\ UNCHANGED <<next_id, stored, saves, spoiled>>

Next ==
  \/ SaveProject \/ LoadProject
  \/ \E r \in Range(requests) :
       Answer(r) \/ Loaded(r) \/ Failed(r) \/ Hangs(r)

Spec == Init /\ [][Next]_vars

\* The board answers what it is asked, and the browser reports the answer.
FairSpec ==
  /\ Spec
  /\ WF_vars(\E r \in Range(requests) : Answer(r) \/ Failed(r))
  /\ WF_vars(\E r \in Range(requests) : Loaded(r))

-----------------------------------------------------------------------------
(* The board's three files are of one save when the queue is empty: of the *)
(* last one, however saves, loads and failures of earlier saves followed   *)
(* each other, if nothing failed in it.  A save that is followed by        *)
(* another one never overwrites it.                                        *)
FilesAgree ==
  requests = <<>> /\ ~spoiled => \A f \in Files : stored[f] = saves

Stuck == \E r \in Range(requests) : r.at = "hung"

(* The queue runs empty again and again, as the page makes no more than    *)
(* MaxRequests requests: each one is answered or fails, and the listeners  *)
(* always send the next one, unless one hangs.                             *)
AllAnswered == []<>(requests = <<>> \/ Stuck)

=============================================================================
