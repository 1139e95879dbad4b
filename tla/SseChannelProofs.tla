--------------------------- MODULE SseChannelProofs ---------------------------
(***************************************************************************)
(* Proofs about SseChannel, for every limit, event size and number of      *)
(* publishers.                                                             *)
(*                                                                         *)
(* PendingWithinLimits is not inductive alone: that take_next() may        *)
(* subtract the size of the head without wrapping needs to know what the   *)
(* head is (FifoConservation) and how the running totals of the accepted   *)
(* events are related (EndsInv).                                           *)
(***************************************************************************)
EXTENDS SseChannel, TLAPS

End(n) == IF n = 0 THEN 0 ELSE ends[n]

EndsInv ==
  /\ Len(ends) = Len(accepted)
  /\ \A i \in 1..Len(ends) : ends[i] = End(i - 1) + accepted[i]
  /\ \A i, j \in 0..Len(ends) : i <= j => End(i) <= End(j)

GoneClosed == tpc = "gone" => closed

IInv == TypeOK /\ PendingWithinLimits /\ FifoConservation /\ EndsInv /\ GoneClosed

LEMMA LastEndIsEnd == ASSUME TypeOK PROVE LastEnd = End(Len(ends)) /\ LastEnd \in Nat
BY DEF TypeOK, LastEnd, End

LEMMA InitIInv == Init => IInv
<1> SUFFICES ASSUME Init PROVE IInv
  OBVIOUS
<1>1. TypeOK
  <2>1. ppc \in [Publishers -> {"idle", "wake"}]
    BY DEF Init
  <2>2. pending \in Seq(Sizes) /\ accepted \in Seq(Sizes) /\ wire \in Seq(Sizes) /\ ends \in Seq(Nat)
    BY DEF Init
  <2> QED
    BY <2>1, <2>2, ZenonT(40) DEF Init, TypeOK, TransportState
<1>2. Len(pending) = 0 /\ Len(accepted) = 0 /\ Len(ends) = 0 /\ Len(wire) = 0
  BY DEF Init
<1>3. PendingWithinLimits
  BY <1>2, LimitsAssumption DEF Init, PendingWithinLimits, LastEnd
<1>4. FifoConservation
  BY <1>2 DEF FifoConservation
<1>5. EndsInv
  BY <1>2 DEF EndsInv, End
<1> QED
  BY <1>1, <1>3, <1>4, <1>5 DEF IInv, GoneClosed, Init

LEMMA PublishIInv ==
  ASSUME IInv, NEW p \in Publishers, NEW size \in Sizes, PublishAccepted(p, size)
  PROVE  IInv'
<1> USE SizesAssumption, LimitsAssumption
<1>1. size \in Nat \ {0}
  OBVIOUS
<1>2. TypeOK'
  BY <1>1, LastEndIsEnd DEF IInv, TypeOK, PublishAccepted
<1>3. /\ Len(pending') = Len(pending) + 1 /\ Len(accepted') = Len(accepted) + 1
      /\ Len(ends') = Len(ends) + 1
      /\ \A i \in 1..Len(pending) : pending'[i] = pending[i]
      /\ pending'[Len(pending) + 1] = size
      /\ \A i \in 1..Len(accepted) : accepted'[i] = accepted[i]
      /\ accepted'[Len(accepted) + 1] = size
      /\ \A i \in 1..Len(ends) : ends'[i] = ends[i]
      /\ ends'[Len(ends) + 1] = LastEnd + size
      /\ wire' = wire
  BY DEF IInv, TypeOK, PublishAccepted
<1>4. FifoConservation'
  <2>1. Len(accepted) = Len(wire) + Len(pending) /\ Len(wire) \in Nat /\ Len(pending) \in Nat
    BY DEF IInv, TypeOK, FifoConservation
  <2>2. \A i \in 1..Len(wire') : wire'[i] = accepted'[i]
    BY <1>3, <2>1 DEF IInv, FifoConservation
  <2>3. ASSUME NEW i \in 1..Len(pending') PROVE pending'[i] = accepted'[Len(wire') + i]
    <3>1. CASE i = Len(pending) + 1
      <4>1. Len(wire') + i = Len(accepted) + 1
        BY <1>3, <2>1, <3>1
      <4> QED
        BY <1>3, <3>1, <4>1
    <3>2. CASE i # Len(pending) + 1
      <4>1. i \in 1..Len(pending) /\ Len(wire) + i \in 1..Len(accepted)
        BY <1>3, <2>1, <3>2
      <4> QED
        BY <1>3, <4>1, ZenonT(40) DEF IInv, FifoConservation
    <3> QED
      BY <3>1, <3>2
  <2>4. Len(accepted') = Len(wire') + Len(pending')
    BY <1>3, <2>1
  <2> QED
    BY <2>2, <2>3, <2>4 DEF FifoConservation
<1>5. \A n \in 0..Len(ends) : End(n)' = End(n)
  BY <1>3 DEF IInv, TypeOK, End
<1>6. End(Len(ends)) \in Nat /\ \A n \in Nat : n = Len(ends) + 1 => End(n)' = End(Len(ends)) + size
  BY <1>3, LastEndIsEnd, SMTT(40) DEF IInv, TypeOK, End
<1>7. \A n \in 0..Len(ends) : End(n) \in Nat
  BY DEF IInv, TypeOK, End
<1>8. EndsInv'
  <2>1. Len(ends)' = Len(accepted)'
    BY <1>3 DEF IInv, EndsInv
  <2>2. \A i \in 1..Len(ends') : ends'[i] = End(i - 1)' + accepted'[i]
    <3> SUFFICES ASSUME NEW i \in 1..Len(ends') PROVE ends'[i] = End(i - 1)' + accepted'[i]
      OBVIOUS
    <3>1. CASE i = Len(ends) + 1
      BY <1>3, <1>5, <3>1, LastEndIsEnd, SMTT(40) DEF IInv, EndsInv, TypeOK
    <3>2. CASE i # Len(ends) + 1
      <4>1. Len(ends) \in Nat /\ Len(ends') = Len(ends) + 1
        BY <1>3 DEF IInv, TypeOK
      <4>2. i \in 1..Len(ends) /\ i - 1 \in 0..Len(ends)
        BY <3>2, <4>1
      <4> QED
        BY <1>3, <1>5, <4>2 DEF IInv, EndsInv
    <3> QED
      BY <3>1, <3>2
  <2>3. \A i, j \in 0..Len(ends') : i <= j => End(i)' <= End(j)'
    <3> SUFFICES ASSUME NEW i \in 0..Len(ends'), NEW j \in 0..Len(ends'), i <= j
                 PROVE  End(i)' <= End(j)'
      OBVIOUS
    <3>1. CASE j # Len(ends) + 1
      <4>1. i \in 0..Len(ends) /\ j \in 0..Len(ends)
        BY <1>3, <3>1 DEF IInv, TypeOK
      <4> QED
        BY <1>5, <4>1 DEF IInv, EndsInv
    <3>2. CASE j = Len(ends) + 1 /\ i # Len(ends) + 1
      <4>1. i \in 0..Len(ends) /\ Len(ends) \in 0..Len(ends) /\ i <= Len(ends)
        BY <1>3, <3>2 DEF IInv, TypeOK
      <4>2. End(i) <= End(Len(ends))
        BY <4>1 DEF IInv, EndsInv
      <4>3. End(i)' = End(i) /\ End(i) \in Nat
        BY <1>5, <1>7, <4>1
      <4>4. End(j)' = End(Len(ends)) + size
        BY <1>6, <3>2
      <4> QED
        BY <1>1, <1>6, <4>2, <4>3, <4>4
    <3>3. CASE j = Len(ends) + 1 /\ i = Len(ends) + 1
      <4>1. i = j /\ End(j)' = End(Len(ends)) + size /\ End(Len(ends)) + size \in Nat
        BY <1>1, <1>6, <3>3
      <4>2. End(i)' = End(j)'
        BY <4>1 DEF End
      <4>3. End(j)' \in Nat
        BY <4>1
      <4> QED
        BY <4>2, <4>3
    <3> QED
      BY <3>1, <3>2, <3>3
  <2> QED
    BY <2>1, <2>2, <2>3 DEF EndsInv
<1>9. PendingWithinLimits'
  <2>1. Len(pending) < MaxEvents /\ size <= MaxBytes - pendingBytes
    BY DEF PublishAccepted, Full, IInv, TypeOK
  <2>2. LastEnd' = LastEnd + size
    BY <1>2, <1>3 DEF IInv, TypeOK, LastEnd
  <2>3. Len(wire) \in 0..Len(ends)
    BY DEF IInv, TypeOK, FifoConservation, EndsInv
  <2>4. wire # <<>> => ends'[Len(wire)] = ends[Len(wire)]
    BY <1>3, <2>3 DEF IInv, TypeOK
  <2>5. pendingBytes' = pendingBytes + size
    BY DEF PublishAccepted
  <2>6. pendingBytes' = LastEnd' - (IF wire' = <<>> THEN 0 ELSE ends'[Len(wire')])
    <3>1. CASE wire = <<>>
      <4>1. pendingBytes = LastEnd - 0 /\ LastEnd \in Nat
        BY <3>1, LastEndIsEnd DEF IInv, PendingWithinLimits
      <4>2. pendingBytes' = LastEnd' - 0
        BY <1>1, <2>2, <2>5, <4>1
      <4>3. wire' = <<>>
        BY <1>3, <3>1
      <4> QED
        BY <4>2, <4>3
    <3>2. CASE wire # <<>>
      <4>1. ends[Len(wire)] \in Nat
        BY <2>3, <3>2 DEF IInv, TypeOK
      <4>2. pendingBytes = LastEnd - ends[Len(wire)] /\ LastEnd \in Nat
        BY <3>2, LastEndIsEnd DEF IInv, PendingWithinLimits
      <4>3. pendingBytes' = LastEnd' - ends[Len(wire)]
        BY <1>1, <2>2, <2>5, <4>1, <4>2
      <4> QED
        BY <1>3, <2>4, <3>2, <4>3
    <3> QED
      BY <3>1, <3>2
  <2>7. 0 <= pendingBytes' /\ pendingBytes' <= MaxBytes
    <3>1. pendingBytes \in Nat
      BY DEF IInv, TypeOK
    <3> QED
      BY <1>1, <2>1, <2>5, <3>1
  <2>8. Len(pending') <= MaxEvents
    BY <1>3, <2>1 DEF IInv, TypeOK
  <2> QED
    BY <2>6, <2>7, <2>8 DEF PendingWithinLimits
<1>10. GoneClosed'
  BY DEF PublishAccepted, IInv, GoneClosed
<1> QED
  BY <1>2, <1>4, <1>8, <1>9, <1>10 DEF IInv

LEMMA TakeIInv == ASSUME IInv, TakeNext PROVE IInv'
<1> USE SizesAssumption, LimitsAssumption
<1>1. /\ pending # <<>> /\ wire' = Append(wire, Head(pending)) /\ pending' = Tail(pending)
      /\ pendingBytes' = pendingBytes - Head(pending)
      /\ UNCHANGED <<kind, closed, wakeup, ppc, posted, tpc, accepted, ends>>
  BY DEF TakeNext
<1>2. Head(pending) \in Sizes /\ Head(pending) = pending[1] /\ Len(pending) > 0
  BY <1>1 DEF IInv, TypeOK
<1>3. wire' \in Seq(Sizes) /\ pending' \in Seq(Sizes)
  BY <1>1, <1>2 DEF IInv, TypeOK
<1>4. /\ Len(wire') = Len(wire) + 1 /\ Len(pending') = Len(pending) - 1
      /\ \A i \in 1..Len(wire) : wire'[i] = wire[i]
      /\ wire'[Len(wire) + 1] = pending[1]
      /\ \A i \in 1..Len(pending') : pending'[i] = pending[i + 1]
  BY <1>1, <1>2 DEF IInv, TypeOK
<1>5. FifoConservation'
  <2>1. Len(accepted) = Len(wire) + Len(pending) /\ Len(wire) \in Nat /\ Len(pending) \in Nat
    BY DEF IInv, TypeOK, FifoConservation
  <2>2. ASSUME NEW i \in 1..Len(wire') PROVE wire'[i] = accepted'[i]
    <3>1. CASE i = Len(wire) + 1
      <4>1. 1 \in 1..Len(pending)
        BY <1>2, <2>1
      <4> QED
        BY <1>1, <1>4, <3>1, <4>1 DEF IInv, FifoConservation
    <3>2. CASE i # Len(wire) + 1
      <4>1. i \in 1..Len(wire)
        BY <1>4, <2>1, <3>2
      <4> QED
        BY <1>1, <1>4, <4>1 DEF IInv, FifoConservation
    <3> QED
      BY <3>1, <3>2
  <2>3. ASSUME NEW i \in 1..Len(pending') PROVE pending'[i] = accepted'[Len(wire') + i]
    <3>1. i + 1 \in 1..Len(pending) /\ Len(wire') + i = Len(wire) + (i + 1)
      BY <1>4, <2>1
    <3>2. pending[i + 1] = accepted[Len(wire) + (i + 1)]
      BY <3>1 DEF IInv, FifoConservation
    <3> QED
      BY <1>1, <1>4, <3>1, <3>2
  <2>4. Len(accepted') = Len(wire') + Len(pending')
    BY <1>1, <1>4, <2>1
  <2> QED
    BY <2>2, <2>3, <2>4 DEF FifoConservation
<1>6. EndsInv'
  BY <1>1 DEF IInv, EndsInv, End
<1>7. Len(wire) + 1 \in 1..Len(ends)
  BY <1>2 DEF IInv, TypeOK, FifoConservation, EndsInv
<1>8. ends[Len(wire) + 1] = End(Len(wire)) + pending[1]
  <2>1. accepted[Len(wire) + 1] = pending[1]
    BY <1>2 DEF IInv, TypeOK, FifoConservation
  <2>2. Len(wire) + 1 - 1 = Len(wire)
    BY DEF IInv, TypeOK
  <2> QED
    BY <1>7, <2>1, <2>2 DEF IInv, EndsInv
<1>9. End(Len(wire)) = (IF wire = <<>> THEN 0 ELSE ends[Len(wire)]) /\ End(Len(wire)) \in Nat
  BY <1>7 DEF IInv, TypeOK, End
<1>10. LastEnd' = LastEnd /\ LastEnd \in Nat
  BY <1>1, LastEndIsEnd DEF IInv, LastEnd
<1>11. ends[Len(wire) + 1] <= LastEnd
  <2>1. Len(wire) + 1 \in 0..Len(ends) /\ Len(ends) \in 0..Len(ends) /\ Len(wire) + 1 <= Len(ends)
    BY <1>7 DEF IInv, TypeOK
  <2>2. End(Len(wire) + 1) <= End(Len(ends))
    BY <2>1 DEF IInv, EndsInv
  <2>3. End(Len(wire) + 1) = ends[Len(wire) + 1]
    BY <1>7 DEF End
  <2> QED
    BY <2>2, <2>3, LastEndIsEnd DEF IInv
<1>12. PendingWithinLimits'
  <2>1. pendingBytes = LastEnd - End(Len(wire))
    BY <1>9 DEF IInv, PendingWithinLimits
  <2>2. pending[1] \in Nat \ {0} /\ pendingBytes \in Nat
    <3>1. pendingBytes \in Nat
      BY DEF IInv, TypeOK
    <3> QED
      BY <1>2, <3>1, ZenonT(40)
  <2>3. pendingBytes' = LastEnd - ends[Len(wire) + 1]
    BY <1>1, <1>2, <1>8, <1>9, <1>10, <2>1, <2>2, SMTT(40)
  <2>4. wire' # <<>> /\ ends'[Len(wire')] = ends[Len(wire) + 1]
    <3>1. Len(wire') # 0 /\ wire' \in Seq(Sizes)
      BY <1>3, <1>4 DEF IInv, TypeOK
    <3>2. ends' = ends /\ Len(wire') = Len(wire) + 1
      BY <1>1, <1>4
    <3> QED
      BY <3>1, <3>2
  <2>5. ends[Len(wire) + 1] \in Nat
    BY <1>7 DEF IInv, TypeOK
  <2>6. 0 <= pendingBytes' /\ pendingBytes' <= MaxBytes
    <3>1. pendingBytes <= MaxBytes /\ MaxBytes \in Nat /\ pendingBytes' = pendingBytes - pending[1]
      BY <1>1, <1>2, LimitsAssumption DEF IInv, PendingWithinLimits
    <3>2. 0 <= pendingBytes'
      BY <1>10, <1>11, <2>3, <2>5
    <3> QED
      BY <2>2, <3>1, <3>2
  <2>7. Len(pending') <= MaxEvents
    BY <1>4 DEF IInv, TypeOK, PendingWithinLimits
  <2> QED
    BY <1>10, <2>3, <2>4, <2>6, <2>7 DEF PendingWithinLimits
<1>13. GoneClosed'
  BY <1>1 DEF IInv, GoneClosed
<1>14. TypeOK'
  <2>1. pendingBytes' \in Int
    BY <1>1, <1>2 DEF IInv, TypeOK
  <2>2. pendingBytes' \in Nat
    BY <1>12, <2>1 DEF PendingWithinLimits
  <2> QED
    BY <1>1, <1>3, <2>2 DEF IInv, TypeOK
<1> QED
  BY <1>14, <1>5, <1>6, <1>12, <1>13 DEF IInv

(* The steps that leave the queue and the histories alone.                 *)
LEMMA QuietIInv ==
  ASSUME IInv, TypeOK', GoneClosed', UNCHANGED <<pending, pendingBytes, accepted, ends, wire>>
  PROVE  IInv'
BY ZenonT(40) DEF IInv, PendingWithinLimits, FifoConservation, EndsInv, End, LastEnd

LEMMA NextIInv == IInv /\ [Next]_vars => IInv'
<1> SUFFICES ASSUME IInv, [Next]_vars PROVE IInv'
  OBVIOUS
<1>1. ASSUME NEW p \in Publishers, NEW size \in Sizes, PublishAccepted(p, size) PROVE IInv'
  BY <1>1, PublishIInv
<1>2. CASE TakeNext
  BY <1>2, TakeIInv
<1>3. ASSUME NEW p \in Publishers, Close(p) \/ CallWakeup(p) PROVE IInv'
  <2>1. TypeOK' /\ GoneClosed'
    BY <1>3, ZenonT(40) DEF Close, CallWakeup, IInv, TypeOK, GoneClosed
  <2> QED
    BY <1>3, <2>1, QuietIInv DEF Close, CallWakeup
<1>4. CASE Attach \/ RunPosted \/ TakeNextEmpty \/ CheckClosed
  <2>1. TypeOK' /\ GoneClosed'
    BY <1>4, ZenonT(40) DEF Attach, RunPosted, TakeNextEmpty, CheckClosed, IInv, TypeOK, TransportState, GoneClosed
  <2> QED
    BY <1>4, <2>1, QuietIInv DEF Attach, RunPosted, TakeNextEmpty, CheckClosed
<1>5. CASE Detach \/ DetachClose
  <2>1. TypeOK' /\ GoneClosed'
    BY <1>5, ZenonT(40) DEF Detach, DetachClose, IInv, TypeOK, TransportState, GoneClosed
  <2> QED
    BY <1>5, <2>1, QuietIInv DEF Detach, DetachClose
<1>6. CASE UNCHANGED vars
  <2>1. TypeOK' /\ GoneClosed'
    BY <1>6 DEF vars, IInv, TypeOK, GoneClosed
  <2> QED
    BY <1>6, <2>1, QuietIInv DEF vars
<1> QED
  BY <1>1, <1>2, <1>3, <1>4, <1>5, <1>6 DEF Next

LEMMA Invariance == Spec => []IInv
BY InitIInv, NextIInv, PTL DEF Spec

(* Both limits hold and pending_bytes_ is exact, so that the subtractions  *)
(* in publish() and take_next() never wrap, for every value of the limits. *)
THEOREM LimitsHold == Spec => [](TypeOK /\ PendingWithinLimits)
<1>1. IInv => TypeOK /\ PendingWithinLimits
  BY DEF IInv
<1> QED
  BY <1>1, Invariance, PTL

(* Events are delivered in the order they were accepted, none lost from    *)
(* the queue and none twice, for any number of events.                     *)
THEOREM FifoDelivery == Spec => []FifoConservation
<1>1. IInv => FifoConservation
  BY DEF IInv
<1> QED
  BY <1>1, Invariance, PTL

(* Once the transport has detached and closed the channel, publish()       *)
(* accepts nothing.                                                        *)
THEOREM NothingAfterDisconnect == Spec => ClosedAfterDisconnect
<1>1. IInv /\ [Next]_vars => [tpc = "gone" => accepted' = accepted]_vars
  <2> SUFFICES ASSUME IInv, Next, tpc = "gone" PROVE accepted' = accepted
    BY DEF vars
  <2>1. ~ \E p \in Publishers, size \in Sizes : PublishAccepted(p, size)
    BY DEF IInv, GoneClosed, PublishAccepted
  <2> QED
    BY <2>1 DEF Next, Close, CallWakeup, Attach, RunPosted, TakeNext, TakeNextEmpty,
                CheckClosed, Detach, DetachClose
<1> QED
  BY <1>1, Invariance, PTL DEF Spec, ClosedAfterDisconnect

(* The steps that neither side sees, and those that only stop the reading. *)
LEMMA QuietIsChannelStep ==
  ASSUME UNCHANGED <<accepted, wire, closed>>, Consumer' = Consumer \/ Consumer' = "lost"
  PROVE  Channel!Next \/ UNCHANGED <<accepted, wire, closed, Consumer>>
BY DEF Channel!Next, Channel!Lose

LEMMA StepIsChannelStep ==
  ASSUME IInv, [Next]_vars
  PROVE  [Channel!Next]_<<accepted, wire, closed, Consumer>>
<1>1. ASSUME NEW p \in Publishers, NEW size \in Sizes, PublishAccepted(p, size) PROVE Channel!Put(size)
  <2>1. Len(accepted) - Len(wire) < MaxEvents
    <3>1. Len(pending) < MaxEvents
      BY <1>1, LimitsAssumption DEF PublishAccepted, Full, IInv, TypeOK
    <3>2. Len(accepted) = Len(wire) + Len(pending) /\ Len(wire) \in Nat /\ Len(pending) \in Nat
      BY DEF IInv, TypeOK, FifoConservation
    <3> QED
      BY <3>1, <3>2
  <2> QED
    BY <1>1, <2>1 DEF PublishAccepted, Channel!Put, Consumer
<1>2. CASE TakeNext
  <2>1. Head(pending) = pending[1] /\ Len(pending) \in Nat /\ Len(pending) > 0 /\ Len(wire) \in Nat
    BY <1>2 DEF TakeNext, IInv, TypeOK
  <2>2. Len(wire) < Len(accepted) /\ pending[1] = accepted[Len(wire) + 1]
    BY <2>1 DEF IInv, FifoConservation
  <2>3. Channel!Get
    BY <1>2, <2>1, <2>2 DEF TakeNext, Channel!Get, Consumer
  <2> QED
    BY <2>3 DEF Channel!Next
<1>3. ASSUME NEW p \in Publishers, Close(p) PROVE Channel!Close
  BY <1>3 DEF Close, Channel!Close, Consumer
<1>4. CASE DetachClose
  <2>1. Channel!Close
    BY <1>4 DEF DetachClose, Channel!Close, Consumer
  <2> QED
    BY <2>1 DEF Channel!Next
<1>5. CASE CheckClosed
  <2>1. CASE closed
    <3>1. Channel!End
      BY <1>5, <2>1 DEF CheckClosed, Channel!End, Consumer
    <3> QED
      BY <3>1 DEF Channel!Next
  <2>2. CASE ~closed
    BY <1>5, <2>2, QuietIsChannelStep DEF CheckClosed, Consumer
  <2> QED
    BY <2>1, <2>2
<1>6. ASSUME NEW p \in Publishers, CallWakeup(p) PROVE UNCHANGED <<accepted, wire, closed, Consumer>>
  BY <1>6 DEF CallWakeup, Consumer
<1>7. CASE Attach \/ RunPosted \/ TakeNextEmpty \/ Detach
  BY <1>7, QuietIsChannelStep DEF Attach, RunPosted, TakeNextEmpty, Detach, Consumer
<1>8. CASE UNCHANGED vars
  BY <1>8 DEF vars, Consumer
<1> QED
  BY <1>1, <1>2, <1>3, <1>4, <1>5, <1>6, <1>7, <1>8 DEF Next, Channel!Next

(* publish(), close(), take_next() and closed(), with the transports that  *)
(* call them, implement a bounded channel: in order, without loss or       *)
(* repetition while the peer stays, and never past max_pending_events.     *)
THEOREM RefinesChannel == Spec => Channel!Init /\ ImplementsChannel
<1>1. Init => Channel!Init
  BY DEF Init, Channel!Init, Consumer
<1>2. IInv /\ [Next]_vars => [Channel!Next]_<<accepted, wire, closed, Consumer>>
  BY StepIsChannelStep
<1> QED
  BY <1>1, <1>2, Invariance, PTL DEF Spec, ImplementsChannel
=============================================================================
