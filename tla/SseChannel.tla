------------------------------ MODULE SseChannel ------------------------------
(***************************************************************************)
(* http::sse::Channel, a bounded queue between publishers (any thread) and *)
(* the transport of one SSE response (the shard thread), with the part of  *)
(* the three transports that drains it.                                    *)
(*                                                                         *)
(* Every member function of Channel is one step under mutex_.  publish()   *)
(* and close() copy the wakeup under the mutex and call it afterwards; the *)
(* wakeup posts a drain to the owner loop.  The drain of all three         *)
(* transports has the same shape: take_next() until it returns nothing,    *)
(* then, as a separate locked step, closed(); if that is true the response *)
(* ends (HTTP/1.1 terminal chunk, HTTP/2 and HTTP/3 EOF flag).  HTTP/1.1   *)
(* drains in one call on the shard thread; the two stream transports       *)
(* ("stream") are called back for one event after the other, as flow       *)
(* control and acknowledgements allow, and the stream may go in between.   *)
(* publish() that returns Closed, Backpressured or InvalidEvent changes    *)
(* nothing and is a stuttering step.                                       *)
(***************************************************************************)
EXTENDS Integers, Sequences

CONSTANTS Publishers,   \* threads that publish or close
          Sizes,        \* encoded sizes of the events they publish
          MaxEvents,    \* limits_.max_pending_events
          MaxBytes,     \* limits_.max_pending_bytes
          MaxPublished  \* bound of the model: events accepted over a run

ASSUME LimitsAssumption == MaxEvents \in Nat /\ MaxBytes \in Nat
ASSUME SizesAssumption == Sizes \subseteq Nat \ {0}
ASSUME BoundAssumption == MaxPublished \in Nat

VARIABLES pending,       \* pending_, as the sizes of the queued events
          pendingBytes,  \* pending_bytes_
          closed,        \* closed_
          wakeup,        \* wakeup_ is set
          ppc,           \* publisher: "idle", or "wake" with a copied wakeup to call
          posted,        \* a drain is in the owner loop's task queue
          kind,          \* which transport serves the response, fixed
          tpc,           \* transport: route running, open, draining, ended, gone ...
          accepted,      \* history: events for which publish() returned Accepted
          ends,          \* history: bytes accepted up to and including each event
          wire           \* history: events handed to the peer

vars == <<pending, pendingBytes, closed, wakeup, ppc, posted, kind, tpc, accepted, ends, wire>>

TransportState == {"route", "open", "draining", "checkClosed", "ended", "detached", "gone"}

TypeOK ==
  /\ pending \in Seq(Sizes)
  /\ pendingBytes \in Nat
  /\ closed \in BOOLEAN
  /\ wakeup \in BOOLEAN
  /\ ppc \in [Publishers -> {"idle", "wake"}]
  /\ posted \in BOOLEAN
  /\ kind \in {"http1", "stream"}
  /\ tpc \in TransportState
  /\ accepted \in Seq(Sizes)
  /\ ends \in Seq(Nat)
  /\ wire \in Seq(Sizes)

Init ==
  /\ pending = <<>> /\ pendingBytes = 0
  /\ closed = FALSE /\ wakeup = FALSE
  /\ ppc = [p \in Publishers |-> "idle"]
  /\ posted = FALSE
  /\ kind \in {"http1", "stream"}
  /\ tpc = "route"
  /\ accepted = <<>> /\ ends = <<>> /\ wire = <<>>

LastEnd == IF ends = <<>> THEN 0 ELSE ends[Len(ends)]

(* The test of publish(): max_pending_bytes - pending_bytes_ is unsigned,  *)
(* which PendingWithinLimits shows to be harmless.                         *)
FullIgnoringPending(size) == Len(pending) >= MaxEvents \/ size > MaxBytes
Full(size) == Len(pending) >= MaxEvents \/ size > MaxBytes - pendingBytes

(* publish() of a valid event that is accepted.                            *)
PublishAcceptedSilently(p, size) ==
  /\ ppc[p] = "idle" /\ Len(accepted) < MaxPublished
  /\ ~closed /\ ~Full(size)
  /\ pendingBytes' = pendingBytes + size
  /\ pending' = Append(pending, size)
  /\ accepted' = Append(accepted, size)
  /\ ends' = Append(ends, LastEnd + size)
  /\ UNCHANGED <<kind, closed, wakeup, ppc, posted, tpc, wire>>

PublishAccepted(p, size) ==
  /\ ppc[p] = "idle" /\ Len(accepted) < MaxPublished
  /\ ~closed /\ ~Full(size)
  /\ pendingBytes' = pendingBytes + size
  /\ pending' = Append(pending, size)
  /\ accepted' = Append(accepted, size)
  /\ ends' = Append(ends, LastEnd + size)
  /\ ppc' = [ppc EXCEPT ![p] = IF wakeup THEN "wake" ELSE "idle"]
  /\ UNCHANGED <<kind, closed, wakeup, posted, tpc, wire>>

(* close() by the application.                                             *)
Close(p) ==
  /\ ppc[p] = "idle"
  /\ closed' = TRUE
  /\ ppc' = [ppc EXCEPT ![p] = IF wakeup THEN "wake" ELSE "idle"]
  /\ UNCHANGED <<kind, pending, pendingBytes, wakeup, posted, tpc, accepted, ends, wire>>

(* The copied wakeup is called without the mutex: it posts the drain.      *)
CallWakeup(p) ==
  /\ ppc[p] = "wake"
  /\ posted' = TRUE
  /\ ppc' = [ppc EXCEPT ![p] = "idle"]
  /\ UNCHANGED <<kind, pending, pendingBytes, closed, wakeup, tpc, accepted, ends, wire>>

(* The route returns: the transport installs its wakeup and drains what    *)
(* has been queued already.                                                *)
Attach ==
  /\ tpc = "route"
  /\ wakeup' = TRUE
  /\ tpc' = "draining"
  /\ UNCHANGED <<kind, pending, pendingBytes, closed, ppc, posted, accepted, ends, wire>>

(* The owner loop runs the posted drain.  It does nothing without a stream *)
(* and for a stream that is being read already (resume of a stream that is *)
(* not deferred).                                                          *)
RunPosted ==
  /\ posted
  /\ tpc \in {"open", "ended", "gone"} \/ (kind = "stream" /\ tpc = "draining")
  /\ posted' = FALSE
  /\ tpc' = IF tpc = "open" THEN "draining" ELSE tpc
  /\ UNCHANGED <<kind, pending, pendingBytes, closed, wakeup, ppc, accepted, ends, wire>>

(* take_next() returns an event, which the transport sends.                *)
TakeNextLast ==
  /\ tpc = "draining" /\ pending # <<>>
  /\ wire' = Append(wire, pending[Len(pending)])
  /\ pendingBytes' = pendingBytes - pending[Len(pending)]
  /\ pending' = SubSeq(pending, 1, Len(pending) - 1)
  /\ UNCHANGED <<kind, closed, wakeup, ppc, posted, tpc, accepted, ends>>

TakeNext ==
  /\ tpc = "draining" /\ pending # <<>>
  /\ wire' = Append(wire, Head(pending))
  /\ pendingBytes' = pendingBytes - Head(pending)
  /\ pending' = Tail(pending)
  /\ UNCHANGED <<kind, closed, wakeup, ppc, posted, tpc, accepted, ends>>

(* take_next() returns nothing.                                            *)
TakeNextEmpty ==
  /\ tpc = "draining" /\ pending = <<>>
  /\ tpc' = "checkClosed"
  /\ UNCHANGED <<kind, pending, pendingBytes, closed, wakeup, ppc, posted, accepted, ends, wire>>

(* closed(), a locked step of its own: end the response, or wait (defer).  *)
(* HTTP/1.1 drops its wakeup here, a stream when it is closed (Detach).    *)
CheckClosed ==
  /\ tpc = "checkClosed"
  /\ tpc' = IF closed THEN "ended" ELSE "open"
  /\ wakeup' = (wakeup /\ ~(closed /\ kind = "http1"))
  /\ UNCHANGED <<kind, pending, pendingBytes, closed, ppc, posted, accepted, ends, wire>>

(* The peer goes away or the session is destroyed: set_wakeup({}) ...      *)
Detach ==
  /\ tpc = "open" \/ (kind = "stream" /\ tpc \in {"draining", "ended"})
  /\ tpc' = "detached"
  /\ wakeup' = FALSE
  /\ UNCHANGED <<kind, pending, pendingBytes, closed, ppc, posted, accepted, ends, wire>>

(* ... and then close().                                                   *)
DetachClose ==
  /\ tpc = "detached"
  /\ tpc' = "gone"
  /\ closed' = TRUE
  /\ UNCHANGED <<kind, pending, pendingBytes, wakeup, ppc, posted, accepted, ends, wire>>

Next ==
  \/ \E p \in Publishers :
       \/ \E size \in Sizes : PublishAccepted(p, size)
       \/ Close(p)
       \/ CallWakeup(p)
  \/ Attach \/ RunPosted \/ TakeNext \/ TakeNextEmpty \/ CheckClosed
  \/ Detach \/ DetachClose

(* The owner loop goes on running, a publisher inside publish() or close() *)
(* is scheduled again, and a peer that stays reads what it is sent.        *)
Fairness ==
  /\ \A p \in Publishers : WF_vars(CallWakeup(p))
  /\ WF_vars(Attach) /\ WF_vars(RunPosted) /\ WF_vars(TakeNext)
  /\ WF_vars(TakeNextEmpty) /\ WF_vars(CheckClosed) /\ WF_vars(DetachClose)

Spec == Init /\ [][Next]_vars /\ Fairness

-----------------------------------------------------------------------------
(* Both limits hold, and the byte counter neither drifts nor wraps: it is  *)
(* the number of bytes accepted and not taken yet.                         *)
PendingWithinLimits ==
  /\ Len(pending) <= MaxEvents
  /\ 0 <= pendingBytes /\ pendingBytes <= MaxBytes
  /\ pendingBytes = LastEnd - (IF wire = <<>> THEN 0 ELSE ends[Len(wire)])

(* FIFO without loss or duplication: what the peer has got is a prefix of  *)
(* the accepted events, and the queue holds exactly the rest.              *)
FifoConservation ==
  /\ Len(accepted) = Len(wire) + Len(pending)
  /\ \A i \in 1..Len(wire) : wire[i] = accepted[i]
  /\ \A i \in 1..Len(pending) : pending[i] = accepted[Len(wire) + i]

(* The transport as a consumer.                                            *)
Consumer == IF tpc = "ended" THEN "ended" ELSE IF tpc \in {"detached", "gone"} THEN "lost" ELSE "reading"
Channel == INSTANCE BoundedChannel WITH
  Items <- Sizes, Capacity <- MaxEvents, sent <- accepted, received <- wire, consumer <- Consumer

(* Publishers, wakeups, drains and disconnects together are a bounded      *)
(* channel: each step that the two sides can see is one of its steps.      *)
ImplementsChannel == [][Channel!Next]_<<accepted, wire, closed, Consumer>>

(* A publisher that outlives the peer gets Closed: after the detachment is *)
(* complete nothing is accepted any more.                                  *)
ClosedAfterDisconnect == [][tpc = "gone" => accepted' = accepted]_vars

(* No wakeup is lost: an accepted event reaches the peer unless the stream *)
(* ends or the peer goes away first.                                       *)
AcceptedIsDelivered ==
  \A n \in 1..MaxPublished :
    (Len(accepted) >= n /\ tpc # "route")
      ~> (Len(wire) >= n \/ tpc \in {"ended", "detached", "gone"})

(* Closing the channel ends the response, unless the peer goes away first. *)
CloseEndsResponse == (closed /\ tpc = "open") ~> (tpc \in {"ended", "gone"})
=============================================================================
