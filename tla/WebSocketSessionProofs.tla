------------------------ MODULE WebSocketSessionProofs ------------------------
(***************************************************************************)
(* Proofs about WebSocketSession, for every limit and all frame sizes.     *)
(*                                                                         *)
(* CloseIsLast needs to know that a Close anywhere between the session and *)
(* the peer means close_sent_ (SentMeansSent).  OutboundBounded holds only *)
(* with a TransportBackpressure, whose reservation is never less than what *)
(* is buffered and exceeds the limit only by the forced Close (Reserved).  *)
(***************************************************************************)
EXTENDS WebSocketSession, TLAPS

SentMeansSent == HasClose(handedOn) \/ HasClose(buffer) \/ HasClose(out.frames) => out.closeSent

Reserved ==
  Transport = "h2" =>
    /\ bufferBytes + out.bytes <= out.reserved
    /\ out.reserved <= Limit + (IF out.closeSent THEN CloseSize ELSE 0)

IInv == WsType /\ CloseIsLast /\ SentMeansSent /\ Reserved /\ QueueBounded

SessionBuffer == [frames : Seq(Frame), bytes : Nat, closeSent : BOOLEAN, reserved : Nat]

(* A session buffer o fits what has already been handed on.                *)
Fits(o) ==
  /\ CloseThenPongs(o.frames)
  /\ HasClose(handedOn) \/ HasClose(buffer) => OnlyPongs(o.frames)
  /\ HasClose(handedOn) \/ HasClose(buffer) \/ HasClose(o.frames) => o.closeSent
  /\ Transport = "h2" =>
       /\ bufferBytes + o.bytes <= o.reserved
       /\ o.reserved <= Limit + (IF o.closeSent THEN CloseSize ELSE 0)

LEMMA PutType ==
  ASSUME NEW o \in SessionBuffer, NEW kind \in {"data", "pong", "close"}, NEW n \in Nat
  PROVE  /\ Put(o, kind, n) \in SessionBuffer
         /\ Put(o, kind, n).frames = Append(o.frames, [kind |-> kind, size |-> n])
         /\ Put(o, kind, n).bytes = o.bytes + n
         /\ Put(o, kind, n).closeSent = o.closeSent
         /\ Transport = "h2" => Put(o, kind, n).reserved = o.reserved + n
<1> DEFINE f == [kind |-> kind, size |-> n]
           rs == IF Transport = "h2" THEN o.reserved + n ELSE o.reserved
<1>1. /\ o.frames \in Seq(Frame) /\ o.bytes \in Nat /\ o.reserved \in Nat
      /\ o.closeSent \in BOOLEAN
  BY DEF SessionBuffer
<1>2. f \in Frame
  BY DEF Frame
<1>3. Append(o.frames, f) \in Seq(Frame) /\ o.bytes + n \in Nat /\ rs \in Nat
  BY <1>1, <1>2
<1>4. Put(o, kind, n) = [frames |-> Append(o.frames, f), bytes |-> o.bytes + n,
                         closeSent |-> o.closeSent, reserved |-> rs]
  BY DEF Put
<1> HIDE DEF f, rs
<1>5. Put(o, kind, n) \in SessionBuffer
  BY <1>1, <1>3, <1>4 DEF SessionBuffer
<1> QED
  BY <1>4, <1>5 DEF f, rs

(* Appending a frame that is no message after a Close keeps the order.     *)
LEMMA AppendOrder ==
  ASSUME NEW fs \in Seq(Frame), NEW f \in Frame, CloseThenPongs(fs),
         HasClose(fs) => f.kind = "pong"
  PROVE  /\ CloseThenPongs(Append(fs, f))
         /\ HasClose(Append(fs, f)) => HasClose(fs) \/ f.kind = "close"
         /\ OnlyPongs(fs) /\ f.kind = "pong" => OnlyPongs(Append(fs, f))
<1> DEFINE gs == Append(fs, f)
<1>1. Len(gs) = Len(fs) + 1 /\ gs[Len(fs) + 1] = f /\ Len(fs) \in Nat
  OBVIOUS
<1>2. \A i \in 1..Len(fs) : gs[i] = fs[i]
  OBVIOUS
<1> HIDE DEF gs
<1>3. \A i \in 1..Len(gs) : i \in 1..Len(fs) \/ i = Len(fs) + 1
  BY <1>1
<1>4. CloseThenPongs(gs)
  <2> SUFFICES ASSUME NEW i \in 1..Len(gs), NEW j \in 1..Len(gs), i < j, gs[i].kind = "close"
               PROVE  gs[j].kind = "pong"
    BY DEF CloseThenPongs
  <2>1. i \in 1..Len(fs)
    BY <1>1
  <2>2. fs[i].kind = "close" /\ HasClose(fs)
    BY <1>2, <2>1 DEF HasClose
  <2>3. CASE j = Len(fs) + 1
    BY <1>1, <2>2, <2>3
  <2>4. CASE j \in 1..Len(fs)
    BY <1>2, <2>1, <2>2, <2>4 DEF CloseThenPongs
  <2> QED
    BY <1>3, <2>3, <2>4
<1>5. HasClose(gs) => HasClose(fs) \/ f.kind = "close"
  BY <1>1, <1>2, <1>3 DEF HasClose
<1>6. OnlyPongs(fs) /\ f.kind = "pong" => OnlyPongs(gs)
  BY <1>1, <1>2, <1>3 DEF OnlyPongs
<1> QED
  BY <1>4, <1>5, <1>6 DEF gs

LEMMA EmptyFrames == CloseThenPongs(<<>>) /\ ~HasClose(<<>>) /\ OnlyPongs(<<>>)
BY DEF CloseThenPongs, HasClose, OnlyPongs

LEMMA ClearedFits ==
  ASSUME NEW o \in SessionBuffer, Fits(o), bufferBytes \in Int
  PROVE  /\ Cleared(o) \in SessionBuffer /\ Fits(Cleared(o)) /\ Cleared(o).closeSent = o.closeSent
         /\ Cleared(o).frames = <<>> /\ Cleared(o).bytes = 0 /\ Cleared(o).reserved = o.reserved
<1>1. /\ Cleared(o) \in SessionBuffer /\ Cleared(o).closeSent = o.closeSent
      /\ Cleared(o).frames = <<>> /\ Cleared(o).bytes = 0 /\ Cleared(o).reserved = o.reserved
  BY DEF Cleared, SessionBuffer
<1>2. Transport = "h2" => bufferBytes + 0 <= o.reserved
  BY DEF Fits, SessionBuffer
<1> QED
  BY <1>1, <1>2, EmptyFrames DEF Fits

LEMMA CloseFits ==
  ASSUME NEW o \in SessionBuffer, Fits(o), bufferBytes \in Int
  PROVE  SessionClose(o) \in SessionBuffer /\ Fits(SessionClose(o)) /\ SessionClose(o).closeSent
<1> USE FramesAssumption
<1>1. CASE o.closeSent
  BY <1>1 DEF SessionClose
<1>2. CASE ~o.closeSent
  <2> DEFINE b == IF o.bytes + CloseSize > Limit THEN Cleared(o) ELSE o
             p == Put(b, "close", CloseSize)
             c == [p EXCEPT !.closeSent = TRUE]
  <2>1. b \in SessionBuffer /\ Fits(b) /\ ~b.closeSent
    BY <1>2, ClearedFits
  <2>2. ~HasClose(handedOn) /\ ~HasClose(buffer) /\ ~HasClose(b.frames)
    BY <2>1 DEF Fits
  <2> HIDE DEF b
  <2>3. /\ p \in SessionBuffer /\ p.frames = Append(b.frames, [kind |-> "close", size |-> CloseSize])
        /\ p.bytes = b.bytes + CloseSize
        /\ Transport = "h2" => p.reserved = b.reserved + CloseSize
    BY <2>1, PutType, SMTT(40)
  <2> HIDE DEF p
  <2>4. /\ c \in SessionBuffer /\ c.frames = p.frames /\ c.bytes = p.bytes
        /\ c.reserved = p.reserved /\ c.closeSent
    BY <2>3, ZenonT(40) DEF SessionBuffer
  <2>5. [kind |-> "close", size |-> CloseSize] \in Frame /\ b.frames \in Seq(Frame)
    BY <2>1 DEF Frame, SessionBuffer
  <2>6. CloseThenPongs(c.frames)
    BY <2>1, <2>2, <2>3, <2>4, <2>5, AppendOrder, ZenonT(40) DEF Fits
  <2>7. Transport = "h2" => /\ bufferBytes + c.bytes <= c.reserved
                            /\ c.reserved <= Limit + CloseSize
    <3>1. b.bytes \in Nat /\ b.reserved \in Nat
      BY <2>1 DEF SessionBuffer
    <3>2. Transport = "h2" => bufferBytes + b.bytes <= b.reserved /\ b.reserved <= Limit + 0
      BY <2>1 DEF Fits
    <3>3. c.bytes = b.bytes + CloseSize /\ (Transport = "h2" => c.reserved = b.reserved + CloseSize)
      BY <2>3, <2>4
    <3> HIDE DEF c
    <3> QED
      BY <3>1, <3>2, <3>3
  <2>8. SessionClose(o) = c
    BY <1>2 DEF SessionClose, b, p
  <2> HIDE DEF c
  <2> QED
    BY <2>2, <2>4, <2>6, <2>7, <2>8 DEF Fits
<1> QED
  BY <1>1, <1>2

LEMMA SendFits ==
  ASSUME NEW o \in SessionBuffer, Fits(o), bufferBytes \in Int, NEW n \in Nat,
         NEW kind \in {"data", "pong"}, kind = "data" => ~o.closeSent
  PROVE  SendFrame(o, kind, n) \in SessionBuffer /\ Fits(SendFrame(o, kind, n))
<1> USE FramesAssumption
<1>1. CASE NoRoom(o, n)
  BY <1>1, CloseFits DEF SendFrame
<1>2. CASE ~NoRoom(o, n)
  <2> DEFINE p == Put(o, kind, n)
             f == [kind |-> kind, size |-> n]
  <2>1. /\ p \in SessionBuffer /\ p.frames = Append(o.frames, f)
        /\ p.bytes = o.bytes + n /\ p.closeSent = o.closeSent
        /\ Transport = "h2" => p.reserved = o.reserved + n
    <3>1. kind \in {"data", "pong", "close"}
      OBVIOUS
    <3> HIDE DEF p
    <3>2. p = Put(o, kind, n)
      BY DEF p
    <3> QED
      BY ONLY <3>1, <3>2, PutType, o \in SessionBuffer, n \in Nat, SMTT(40)
  <2>2. f \in Frame /\ o.frames \in Seq(Frame) /\ f.kind = kind
    BY DEF Frame, SessionBuffer
  <2>3. SendFrame(o, kind, n) = p
    BY <1>2 DEF SendFrame
  <2> HIDE DEF p, f
  <2>4. HasClose(handedOn) \/ HasClose(buffer) \/ HasClose(o.frames) => f.kind = "pong"
    BY <2>2 DEF Fits
  <2>5. /\ CloseThenPongs(p.frames)
        /\ HasClose(p.frames) => HasClose(o.frames)
        /\ OnlyPongs(o.frames) /\ f.kind = "pong" => OnlyPongs(p.frames)
    BY <2>1, <2>2, <2>4, AppendOrder DEF Fits
  <2>6. Transport = "h2" => /\ bufferBytes + p.bytes <= p.reserved
                            /\ p.reserved <= Limit + (IF p.closeSent THEN CloseSize ELSE 0)
    <3> SUFFICES ASSUME Transport = "h2"
                 PROVE  /\ bufferBytes + p.bytes <= p.reserved
                        /\ p.reserved <= Limit + (IF p.closeSent THEN CloseSize ELSE 0)
      OBVIOUS
    <3>1. o.reserved <= Limit - n /\ o.reserved \in Nat /\ o.bytes \in Nat
      BY <1>2 DEF NoRoom, SessionBuffer
    <3>2. bufferBytes + o.bytes <= o.reserved
      BY DEF Fits
    <3>3. p.bytes = o.bytes + n /\ p.reserved = o.reserved + n
      BY <2>1
    <3>4. bufferBytes + p.bytes <= p.reserved /\ p.reserved <= Limit
      BY <3>1, <3>2, <3>3
    <3>5. (IF p.closeSent THEN CloseSize ELSE 0) \in Nat /\ p.reserved \in Int
      BY <3>1, <3>3
    <3> QED
      BY <3>4, <3>5
  <2> QED
    BY <2>1, <2>3, <2>4, <2>5, <2>6, ZenonT(40) DEF Fits
<1> QED
  BY <1>1, <1>2

LEMMA SendDataFits ==
  ASSUME NEW o \in SessionBuffer, Fits(o), bufferBytes \in Int, NEW n \in Nat
  PROVE  SendData(o, n) \in SessionBuffer /\ Fits(SendData(o, n))
<1>1. n + Header \in Nat
  BY FramesAssumption
<1> QED
  BY <1>1, SendFits DEF SendData

(* The frames of a session that fits may follow what is in the buffer.     *)
LEMMA ConcatOrder ==
  ASSUME NEW fs \in Seq(Frame), NEW gs \in Seq(Frame), CloseThenPongs(fs), CloseThenPongs(gs),
         HasClose(fs) => OnlyPongs(gs)
  PROVE  /\ fs \o gs \in Seq(Frame)
         /\ CloseThenPongs(fs \o gs)
         /\ HasClose(fs \o gs) => HasClose(fs) \/ HasClose(gs)
         /\ OnlyPongs(fs) /\ OnlyPongs(gs) => OnlyPongs(fs \o gs)
<1> DEFINE hs == fs \o gs
<1>1. hs \in Seq(Frame) /\ Len(hs) = Len(fs) + Len(gs) /\ Len(fs) \in Nat /\ Len(gs) \in Nat
  OBVIOUS
<1>2. \A i \in 1..Len(fs) : hs[i] = fs[i]
  OBVIOUS
<1>3. \A i \in 1..Len(hs) : i \notin 1..Len(fs) =>
        i - Len(fs) \in 1..Len(gs) /\ hs[i] = gs[i - Len(fs)]
  OBVIOUS
<1> HIDE DEF hs
<1>4. CloseThenPongs(hs)
  <2> SUFFICES ASSUME NEW i \in 1..Len(hs), NEW j \in 1..Len(hs), i < j, hs[i].kind = "close"
               PROVE  hs[j].kind = "pong"
    BY DEF CloseThenPongs
  <2>1. CASE j \in 1..Len(fs)
    <3>1. i \in 1..Len(fs)
      BY <1>1, <2>1
    <3> QED
      BY <1>2, <2>1, <3>1 DEF CloseThenPongs
  <2>2. CASE j \notin 1..Len(fs) /\ i \in 1..Len(fs)
    <3>1. HasClose(fs)
      BY <1>2, <2>2 DEF HasClose
    <3> QED
      BY <1>3, <2>2, <3>1 DEF OnlyPongs
  <2>3. CASE j \notin 1..Len(fs) /\ i \notin 1..Len(fs)
    <3>1. i - Len(fs) \in 1..Len(gs) /\ j - Len(fs) \in 1..Len(gs) /\ i - Len(fs) < j - Len(fs)
      BY <1>1, <1>3, <2>3
    <3> QED
      BY <1>3, <2>3, <3>1, ZenonT(40) DEF CloseThenPongs
  <2> QED
    BY <2>1, <2>2, <2>3
<1>5. HasClose(hs) => HasClose(fs) \/ HasClose(gs)
  BY <1>2, <1>3, ZenonT(40) DEF HasClose
<1>6. OnlyPongs(fs) /\ OnlyPongs(gs) => OnlyPongs(hs)
  BY <1>2, <1>3, ZenonT(40) DEF OnlyPongs
<1> QED
  BY <1>1, <1>4, <1>5, <1>6 DEF hs

LEMMA FitsFromIInv == ASSUME IInv PROVE out \in SessionBuffer /\ Fits(out) /\ bufferBytes \in Int
BY DEF IInv, WsType, SessionBuffer, CloseIsLast, SentMeansSent, Reserved, Fits

(* Handing a session that fits over to the transport.                      *)
LEMMA FlushIInv ==
  ASSUME IInv, NEW o \in SessionBuffer, Fits(o), Flush(o), handedOn' = handedOn
  PROVE  /\ out' \in SessionBuffer /\ out'.frames = <<>> /\ out'.bytes = 0
         /\ buffer' \in Seq(Frame) /\ bufferBytes' \in Int
         /\ CloseIsLast' /\ SentMeansSent' /\ Reserved'
<1>1. /\ buffer \in Seq(Frame) /\ bufferBytes \in Int /\ handedOn \in Seq(Frame)
      /\ o.frames \in Seq(Frame) /\ o.bytes \in Nat /\ o.reserved \in Nat
  BY DEF IInv, WsType, SessionBuffer
<1>2. /\ out' = Cleared(o) /\ buffer' = buffer \o o.frames
      /\ bufferBytes' = bufferBytes + o.bytes
  BY DEF Flush
<1>3. /\ out'.frames = <<>> /\ out'.bytes = 0 /\ out'.closeSent = o.closeSent
      /\ out'.reserved = o.reserved /\ out' \in SessionBuffer
  BY <1>1, <1>2, ClearedFits
<1>4. CloseThenPongs(buffer) /\ CloseThenPongs(o.frames) /\ (HasClose(buffer) => OnlyPongs(o.frames))
  BY DEF IInv, CloseIsLast, Fits
<1>5. /\ buffer' \in Seq(Frame) /\ CloseThenPongs(buffer')
      /\ HasClose(buffer') => HasClose(buffer) \/ HasClose(o.frames)
      /\ OnlyPongs(buffer) /\ OnlyPongs(o.frames) => OnlyPongs(buffer')
  BY <1>1, <1>2, <1>4, ConcatOrder
<1>6. CloseIsLast'
  <2>1. CloseThenPongs(handedOn) /\ (HasClose(handedOn) => OnlyPongs(buffer) /\ OnlyPongs(o.frames))
    BY DEF IInv, CloseIsLast, Fits
  <2>2. CloseThenPongs(handedOn') /\ (HasClose(handedOn') => OnlyPongs(buffer'))
    BY <1>5, <2>1
  <2>3. CloseThenPongs(out'.frames) /\ OnlyPongs(out'.frames)
    BY <1>3, EmptyFrames
  <2> QED
    BY <1>5, <2>2, <2>3 DEF CloseIsLast, CloseThenPongs, HasClose, OnlyPongs
<1>7. SentMeansSent'
  <2>1. HasClose(handedOn') \/ HasClose(buffer') => out'.closeSent
    BY <1>3, <1>5 DEF Fits
  <2>2. ~HasClose(out'.frames)
    BY <1>3, EmptyFrames
  <2> QED
    BY <2>1, <2>2 DEF SentMeansSent, HasClose
<1>8. Reserved'
  <2>1. bufferBytes' + out'.bytes = bufferBytes + o.bytes
    BY <1>1, <1>2, <1>3
  <2> QED
    BY <1>3, <2>1 DEF Reserved, Fits
<1>9. bufferBytes' \in Int
  BY <1>1, <1>2
<1> QED
  BY <1>3, <1>5, <1>6, <1>7, <1>8, <1>9

LEMMA EmptySeq == \A S : <<>> \in Seq(S)
OBVIOUS

LEMMA InitIInv == WsInit => IInv
<1> SUFFICES ASSUME WsInit PROVE IInv
  OBVIOUS
<1> USE FramesAssumption
<1>1. WsType
  <2>1. out \in SessionBuffer
    BY EmptySeq DEF WsInit, SessionBuffer
  <2>2. /\ active \in BOOLEAN /\ closing \in BOOLEAN /\ drainPosted \in BOOLEAN
        /\ connClosed \in BOOLEAN /\ alive \in BOOLEAN
    BY ZenonT(40) DEF WsInit
  <2>3. queued \in Seq(Command) /\ taken \in Seq(Command) /\ buffer \in Seq(Frame)
        /\ handedOn \in Seq(Frame) /\ taken = <<>> /\ dpc = "idle"
    BY EmptySeq DEF WsInit
  <2>4. out.frames = <<>> /\ out.bytes = 0 /\ queuedBytes = 0 /\ bufferBytes = 0 /\ sends = 0
        /\ unread \in 0..Window
    BY DEF WsInit
  <2> QED
    BY <2>1, <2>2, <2>3, <2>4 DEF WsType, SessionBuffer
<1>2. handedOn = <<>> /\ buffer = <<>> /\ out.frames = <<>> /\ out.bytes = 0 /\ out.reserved = 0
      /\ bufferBytes = 0 /\ queuedBytes = 0 /\ ~out.closeSent
  BY DEF WsInit
<1>3. CloseIsLast /\ SentMeansSent
  BY <1>2, EmptyFrames DEF CloseIsLast, SentMeansSent
<1>4. Reserved /\ QueueBounded
  BY <1>2 DEF Reserved, QueueBounded
<1> QED
  BY <1>1, <1>3, <1>4 DEF IInv

(* Steps that leave the session's frames and the transport alone.          *)
LEMMA QuietIInv ==
  ASSUME IInv, WsType', QueueBounded', UNCHANGED <<out, buffer, bufferBytes, handedOn>>
  PROVE  IInv'
BY DEF IInv, CloseIsLast, SentMeansSent, Reserved, CloseThenPongs, HasClose, OnlyPongs

LEMMA HandleIInv ==
  ASSUME IInv, (\E payload \in Payloads : Enqueue(payload)) \/ EnqueueClose \/ DrainTake
  PROVE  IInv'
<1> USE FramesAssumption
<1>1. ASSUME NEW payload \in Payloads, Enqueue(payload) PROVE IInv'
  <2>1. payload \in Nat /\ sends' \in Nat
    BY <1>1 DEF Enqueue, MaySend, IInv, WsType
  <2>2. queued' \in Seq(Command) /\ queuedBytes' \in Nat /\ closing' \in BOOLEAN
    <3>1. queued \in Seq(Command) /\ queuedBytes \in Nat /\ closing \in BOOLEAN
      BY DEF IInv, WsType
    <3>2. [kind |-> "close", size |-> 0] \in Command /\ [kind |-> "data", size |-> payload] \in Command
      BY <2>1 DEF Command
    <3>3. <<[kind |-> "close", size |-> 0]>> \in Seq(Command)
      BY <3>2
    <3>4. Append(queued, [kind |-> "data", size |-> payload]) \in Seq(Command)
      BY <3>1, <3>2
    <3>5. queuedBytes + payload + QueueOverhead \in Nat
      BY <2>1, <3>1
    <3>6. closing' \in BOOLEAN
      BY <1>1, <3>1, ZenonT(40) DEF Enqueue
    <3>7. queued' \in Seq(Command) /\ queuedBytes' \in Nat
      <4>1. CASE QueueFull(payload)
        <5>1. queued' = <<[kind |-> "close", size |-> 0]>> /\ queuedBytes' = 0
          BY <1>1, <4>1 DEF Enqueue
        <5> QED
          BY <3>3, <5>1
      <4>2. CASE ~QueueFull(payload)
        BY <1>1, <3>4, <3>5, <4>2, SMTT(40) DEF Enqueue
      <4> QED
        BY <4>1, <4>2
    <3> QED
      BY <3>6, <3>7
  <2>3. QueueBounded'
    <3>1. queuedBytes \in Nat /\ queuedBytes <= Limit /\ Limit \in Nat /\ QueueOverhead \in Nat
      BY DEF IInv, WsType, QueueBounded
    <3>2. CASE QueueFull(payload)
      <4>1. queuedBytes' = 0
        BY <1>1, <3>2 DEF Enqueue
      <4> QED
        BY <3>1, <4>1 DEF QueueBounded
    <3>3. CASE ~QueueFull(payload)
      <4>1. queuedBytes' = queuedBytes + payload + QueueOverhead
        BY <1>1, <3>3 DEF Enqueue
      <4>2. ~(queuedBytes + payload + QueueOverhead > Limit)
        BY <3>3 DEF QueueFull
      <4> QED
        BY <2>1, <3>1, <4>1, <4>2 DEF QueueBounded
    <3> QED
      BY <3>2, <3>3
  <2>4. WsType'
    BY <1>1, <2>1, <2>2 DEF Enqueue, bufferVars, IInv, WsType
  <2> QED
    BY <1>1, <2>3, <2>4, QuietIInv DEF Enqueue, bufferVars
<1>2. CASE EnqueueClose
  <2>1. sends' \in Nat
    <3>1. sends \in Nat /\ sends' = sends + 1
      BY <1>2 DEF EnqueueClose, MaySend, IInv, WsType
    <3> QED
      BY <3>1
  <2>2. queued' \in Seq(Command)
    <3>1. queued \in Seq(Command) /\ queued' = Append(queued, [kind |-> "close", size |-> 0])
      BY <1>2 DEF EnqueueClose, IInv, WsType
    <3>2. [kind |-> "close", size |-> 0] \in Command
      BY DEF Command
    <3> QED
      BY <3>1, <3>2
  <2>3. WsType' /\ QueueBounded'
    BY <1>2, <2>1, <2>2 DEF EnqueueClose, bufferVars, IInv, WsType, QueueBounded
  <2> QED
    BY <1>2, <2>3, QuietIInv DEF EnqueueClose, bufferVars
<1>3. CASE DrainTake
  <2>1. WsType'
    BY <1>3, ZenonT(40) DEF DrainTake, bufferVars, IInv, WsType
  <2>2. QueueBounded'
    BY <1>3 DEF DrainTake, IInv, QueueBounded
  <2> QED
    BY <1>3, <2>1, <2>2, QuietIInv DEF DrainTake, bufferVars
<1> QED
  BY <1>1, <1>2, <1>3

LEMMA DrainIInv == ASSUME IInv, DrainCommand \/ DrainFlush PROVE IInv'
<1>1. CASE DrainCommand
  <2>1. Head(taken) \in Command /\ Tail(taken) \in Seq(Command)
    BY <1>1 DEF DrainCommand, IInv, WsType
  <2>2. out' \in SessionBuffer /\ Fits(out')
    <3>1. Head(taken).size \in Nat
      BY <2>1 DEF Command
    <3> QED
      BY <1>1, <3>1, FitsFromIInv, CloseFits, SendDataFits DEF DrainCommand
  <2>3. WsType'
    BY <1>1, <2>1, <2>2 DEF DrainCommand, bufferVars, IInv, WsType, SessionBuffer
  <2>4. CloseIsLast' /\ SentMeansSent' /\ Reserved'
    <3>1. UNCHANGED <<handedOn, buffer, bufferBytes>>
      BY <1>1 DEF DrainCommand, bufferVars
    <3>2. /\ CloseThenPongs(handedOn) /\ CloseThenPongs(buffer)
          /\ HasClose(handedOn) => OnlyPongs(buffer)
      BY DEF IInv, CloseIsLast
    <3> QED
      BY <2>2, <3>1, <3>2 DEF Fits, CloseIsLast, SentMeansSent, Reserved, CloseThenPongs, HasClose, OnlyPongs
  <2> QED
    BY <1>1, <2>3, <2>4 DEF DrainCommand, IInv, QueueBounded
<1>2. CASE DrainFlush
  <2>1. /\ out' \in SessionBuffer /\ out'.frames = <<>> /\ out'.bytes = 0
        /\ buffer' \in Seq(Frame) /\ bufferBytes' \in Int
        /\ CloseIsLast' /\ SentMeansSent' /\ Reserved'
    BY <1>2, FitsFromIInv, FlushIInv DEF DrainFlush
  <2>2. WsType'
    BY <1>2, <2>1 DEF DrainFlush, sharedVars, IInv, WsType, SessionBuffer
  <2> QED
    BY <1>2, <2>1, <2>2 DEF DrainFlush, sharedVars, IInv, QueueBounded
<1> QED
  BY <1>1, <1>2

(* A callback of the peer: one session that fits, flushed.                 *)
LEMMA FeedIInv ==
  ASSUME IInv, (\E payload \in Payloads : RecvMessage(payload)) \/ RecvPing \/ RecvClose
  PROVE  IInv'
<1> USE FramesAssumption
<1>1. ASSUME NEW o \in SessionBuffer, Fits(o), Flush(o), dpc = "idle",
             UNCHANGED <<taken, dpc, alive, unread, handedOn, drainPosted>>,
             active' \in BOOLEAN /\ closing' \in BOOLEAN /\ connClosed' \in BOOLEAN,
             queued' \in Seq(Command), queuedBytes' \in Nat, queuedBytes' <= Limit, sends' \in Nat
      PROVE  IInv'
  <2>1. /\ out' \in SessionBuffer /\ out'.frames = <<>> /\ out'.bytes = 0
        /\ buffer' \in Seq(Frame) /\ bufferBytes' \in Int
        /\ CloseIsLast' /\ SentMeansSent' /\ Reserved'
    BY <1>1, FlushIInv
  <2>2. WsType'
    BY <1>1, <2>1 DEF IInv, WsType, SessionBuffer
  <2> QED
    BY <1>1, <2>1, <2>2 DEF IInv, QueueBounded
<1>2. out \in SessionBuffer /\ Fits(out) /\ bufferBytes \in Int
  BY FitsFromIInv
<1>3. ASSUME NEW payload \in Payloads, RecvMessage(payload) PROVE IInv'
  <2>1. SendData(out, payload) \in SessionBuffer /\ Fits(SendData(out, payload))
    BY <1>2, SendDataFits
  <2>2. Flush(SendData(out, payload)) /\ dpc = "idle" /\ sends' \in Nat
    BY <1>3 DEF RecvMessage, Feeds, MaySend, IInv, WsType
  <2>3. out'.closeSent \in BOOLEAN
    BY <2>1, <2>2 DEF Flush, Cleared, SessionBuffer
  <2>4. /\ UNCHANGED <<taken, dpc, alive, unread, handedOn, drainPosted>>
        /\ active' \in BOOLEAN /\ closing' \in BOOLEAN /\ connClosed' \in BOOLEAN
        /\ queued' \in Seq(Command) /\ queuedBytes' \in Nat /\ queuedBytes' <= Limit
    BY <1>3, <2>3 DEF RecvMessage, IInv, WsType, QueueBounded
  <2> QED
    BY <1>1, <2>1, <2>2, <2>4
<1>4. CASE RecvPing
  <2>1. SendFrame(out, "pong", Header) \in SessionBuffer /\ Fits(SendFrame(out, "pong", Header))
    BY <1>2, SendFits
  <2>2. Flush(SendFrame(out, "pong", Header)) /\ dpc = "idle" /\ sends' \in Nat
    BY <1>4 DEF RecvPing, Feeds, MaySend, IInv, WsType
  <2>3. out'.closeSent \in BOOLEAN
    BY <2>1, <2>2 DEF Flush, Cleared, SessionBuffer
  <2>4. /\ UNCHANGED <<taken, dpc, alive, unread, handedOn, drainPosted>>
        /\ active' \in BOOLEAN /\ closing' \in BOOLEAN /\ connClosed' \in BOOLEAN
        /\ queued' \in Seq(Command) /\ queuedBytes' \in Nat /\ queuedBytes' <= Limit
    BY <1>4, <2>3 DEF RecvPing, IInv, WsType, QueueBounded
  <2> QED
    BY <1>1, <2>1, <2>2, <2>4
<1>5. CASE RecvClose
  <2>1. SessionClose(out) \in SessionBuffer /\ Fits(SessionClose(out))
    BY <1>2, CloseFits
  <2>2. Flush(SessionClose(out)) /\ dpc = "idle" /\ sends' \in Nat
    BY <1>5 DEF RecvClose, Feeds, IInv, WsType
  <2>3. /\ UNCHANGED <<taken, dpc, alive, unread, handedOn, drainPosted>>
        /\ active' \in BOOLEAN /\ closing' \in BOOLEAN /\ connClosed' \in BOOLEAN
        /\ queued' \in Seq(Command) /\ queuedBytes' \in Nat /\ queuedBytes' <= Limit
    <3>1. active' \in BOOLEAN /\ closing' \in BOOLEAN /\ connClosed' \in BOOLEAN
      BY <1>5, ZenonT(40) DEF RecvClose
    <3>2. queued' \in Seq(Command) /\ UNCHANGED <<taken, dpc, alive, unread, handedOn, drainPosted>>
      BY <1>5, EmptySeq DEF RecvClose
    <3>3. queuedBytes' = 0
      BY <1>5 DEF RecvClose
    <3> QED
      BY <3>1, <3>2, <3>3
  <2> QED
    BY <1>1, <2>1, <2>2, <2>3
<1> QED
  BY <1>3, <1>4, <1>5

LEMMA DestroyIInv == ASSUME IInv, Destroy PROVE IInv'
<1> USE FramesAssumption
<1>1. WsType'
  <2>1. active' \in BOOLEAN /\ closing' \in BOOLEAN /\ alive' \in BOOLEAN
    BY ZenonT(40) DEF Destroy
  <2>2. queued' \in Seq(Command) /\ buffer' \in Seq(Frame)
    BY EmptySeq DEF Destroy
  <2>3. queuedBytes' = 0 /\ bufferBytes' = 0 /\ unread' \in 0..Window /\ UNCHANGED <<drainPosted, taken, dpc, out, connClosed, handedOn, sends>>
    BY DEF Destroy
  <2> QED
    BY <2>1, <2>2, <2>3 DEF IInv, WsType
<1>2. handedOn' = handedOn /\ out' = out /\ buffer' = <<>> /\ bufferBytes' = 0 /\ queuedBytes' = 0
  BY DEF Destroy
<1>3. CloseIsLast' /\ SentMeansSent'
  <2>1. CloseThenPongs(buffer') /\ ~HasClose(buffer') /\ OnlyPongs(buffer')
    BY <1>2, EmptyFrames
  <2> QED
    <3>1. CloseIsLast /\ SentMeansSent
      BY DEF IInv
    <3>2. CloseThenPongs(handedOn') /\ CloseThenPongs(out'.frames) /\ (HasClose(handedOn') <=> HasClose(handedOn))
          /\ (HasClose(out'.frames) <=> HasClose(out.frames))
      BY <1>2, <3>1 DEF CloseIsLast, CloseThenPongs, HasClose
    <3> QED
      BY <1>2, <2>1, <3>1, <3>2 DEF CloseIsLast, SentMeansSent, OnlyPongs
<1>4. Reserved'
  <2>1. out.bytes = 0 /\ out.reserved \in Nat
    BY DEF Destroy, IInv, WsType
  <2> QED
    BY <1>2, <2>1 DEF IInv, Reserved
<1> QED
  BY <1>1, <1>2, <1>3, <1>4 DEF IInv, QueueBounded

LEMMA TransmitIInv == ASSUME IInv, Transmit PROVE IInv'
<1> USE FramesAssumption
<1> DEFINE f == Head(buffer)
<1>1. /\ buffer \in Seq(Frame) /\ buffer # <<>> /\ handedOn \in Seq(Frame) /\ bufferBytes \in Int
      /\ out \in SessionBuffer /\ out.frames = <<>> /\ out.bytes = 0
  BY DEF Transmit, IInv, WsType, SessionBuffer
<1>2. f \in Frame /\ f = buffer[1] /\ Len(buffer) \in Nat \ {0} /\ f.size \in Nat
  <2>1. f \in Frame /\ f = buffer[1] /\ Len(buffer) \in Nat \ {0}
    BY <1>1
  <2> QED
    BY <2>1 DEF Frame
<1>3. /\ Tail(buffer) \in Seq(Frame) /\ Len(Tail(buffer)) = Len(buffer) - 1
      /\ \A i \in 1..Len(Tail(buffer)) : Tail(buffer)[i] = buffer[i + 1] /\ i + 1 \in 1..Len(buffer)
  BY <1>1, <1>2
<1>4. /\ handedOn' = Append(handedOn, f) /\ buffer' = Tail(buffer) /\ bufferBytes' = bufferBytes - f.size
      /\ out' = Release(out, f.size)
      /\ UNCHANGED <<sharedVars, drainPosted, taken, dpc, connClosed, alive, sends>>
  BY DEF Transmit
<1>5. /\ out' \in SessionBuffer /\ out'.frames = <<>> /\ out'.bytes = 0
      /\ out'.closeSent = out.closeSent
      /\ Transport = "h2" => out'.reserved = IF f.size >= out.reserved THEN 0 ELSE out.reserved - f.size
  <2> HIDE DEF f
  <2>1. CASE Transport = "h2"
    <3> DEFINE rest == IF f.size >= out.reserved THEN 0 ELSE out.reserved - f.size
    <3>1. out.reserved \in Nat
      BY <1>1 DEF SessionBuffer
    <3>2. rest \in Nat
      BY <1>2, <3>1
    <3>3. out' = [out EXCEPT !.reserved = rest]
      BY <1>4, <2>1 DEF Release
    <3> HIDE DEF rest
    <3>4. out' \in SessionBuffer /\ out'.frames = <<>> /\ out'.bytes = 0
          /\ out'.closeSent = out.closeSent /\ out'.reserved = rest
      BY <1>1, <3>2, <3>3, ZenonT(40) DEF SessionBuffer
    <3> QED
      BY <3>4 DEF rest
  <2>2. CASE Transport # "h2"
    BY <1>1, <1>4, <2>2 DEF Release
  <2> QED
    BY <2>1, <2>2
<1> HIDE DEF f
<1>6. WsType'
  <2>1. Append(handedOn, f) \in Seq(Frame) /\ bufferBytes - f.size \in Int
    BY <1>1, <1>2
  <2>2. unread' \in 0..Window
    <3>1. unread \in 0..Window
      BY DEF IInv, WsType
    <3>2. /\ unread' = IF Transport = "h2" THEN unread + f.size ELSE unread
          /\ Transport = "h2" => unread + f.size <= Window
      BY DEF Transmit, WindowOpen, f
    <3> QED
      BY <1>2, <3>1, <3>2
  <2> QED
    BY <1>3, <1>4, <1>5, <2>1, <2>2 DEF sharedVars, IInv, WsType, SessionBuffer
<1>7. /\ HasClose(handedOn) => f.kind = "pong" /\ OnlyPongs(buffer)
      /\ f.kind = "close" => OnlyPongs(Tail(buffer))
      /\ HasClose(Tail(buffer)) => HasClose(buffer)
      /\ OnlyPongs(buffer) => OnlyPongs(Tail(buffer))
      /\ CloseThenPongs(Tail(buffer))
      /\ f.kind = "close" => HasClose(buffer)
  <2>1. 1 \in 1..Len(buffer)
    BY <1>2
  <2>2. \A i \in 1..Len(Tail(buffer)) : 1 < i + 1
    OBVIOUS
  <2>3. CloseThenPongs(buffer) /\ (HasClose(handedOn) => OnlyPongs(buffer))
    BY DEF IInv, CloseIsLast
  <2>4. f.kind = "close" => OnlyPongs(Tail(buffer))
    BY <1>2, <1>3, <2>1, <2>2, <2>3 DEF CloseThenPongs, OnlyPongs
  <2>5. CloseThenPongs(Tail(buffer))
    <3> SUFFICES ASSUME NEW i \in 1..Len(Tail(buffer)), NEW j \in 1..Len(Tail(buffer)), i < j,
                        Tail(buffer)[i].kind = "close"
                 PROVE  Tail(buffer)[j].kind = "pong"
      BY DEF CloseThenPongs
    <3>1. i + 1 \in 1..Len(buffer) /\ j + 1 \in 1..Len(buffer) /\ i + 1 < j + 1
      BY <1>3
    <3> QED
      BY <1>3, <2>3, <3>1 DEF CloseThenPongs
  <2> QED
    BY <1>2, <1>3, <2>1, <2>3, <2>4, <2>5 DEF HasClose, OnlyPongs
<1>8. /\ CloseThenPongs(handedOn') /\ (HasClose(handedOn') => HasClose(handedOn) \/ f.kind = "close")
  BY <1>1, <1>2, <1>4, <1>7, AppendOrder DEF IInv, CloseIsLast
<1>9. CloseIsLast'
  <2>1. CloseThenPongs(out'.frames) /\ OnlyPongs(out'.frames)
    BY <1>5, EmptyFrames
  <2>2. HasClose(handedOn') => OnlyPongs(buffer')
    BY <1>4, <1>7, <1>8
  <2>3. CloseThenPongs(buffer')
    BY <1>4, <1>7
  <2> QED
    BY <1>8, <2>1, <2>2, <2>3 DEF CloseIsLast, CloseThenPongs, HasClose, OnlyPongs
<1>10. SentMeansSent'
  <2>1. HasClose(handedOn') \/ HasClose(buffer') => out'.closeSent
    BY <1>4, <1>5, <1>7, <1>8 DEF IInv, SentMeansSent
  <2>2. ~HasClose(out'.frames)
    BY <1>5, EmptyFrames
  <2> QED
    BY <2>1, <2>2 DEF SentMeansSent, HasClose
<1>11. Reserved'
  <2> SUFFICES ASSUME Transport = "h2"
               PROVE  /\ bufferBytes' + out'.bytes <= out'.reserved
                      /\ out'.reserved <= Limit + (IF out'.closeSent THEN CloseSize ELSE 0)
    BY DEF Reserved
  <2>1. bufferBytes <= out.reserved /\ out.reserved \in Nat
        /\ out.reserved <= Limit + (IF out.closeSent THEN CloseSize ELSE 0)
    BY <1>1 DEF IInv, Reserved, SessionBuffer
  <2> DEFINE extra == IF out.closeSent THEN CloseSize ELSE 0
             left == out'.reserved
  <2>2. left = IF f.size >= out.reserved THEN 0 ELSE out.reserved - f.size
    BY <1>5
  <2>3. extra \in Nat /\ f.size \in Nat /\ bufferBytes \in Int /\ Limit \in Nat
    BY <1>1, <1>2
  <2>4. bufferBytes' + out'.bytes = (bufferBytes - f.size) + 0
    BY <1>4, <1>5
  <2>5. (IF out'.closeSent THEN CloseSize ELSE 0) = extra
    BY <1>5
  <2>6. out.reserved <= Limit + extra
    BY <2>1
  <2> HIDE DEF extra, left
  <2>7. bufferBytes - f.size <= left /\ left <= Limit + extra
    BY <2>1, <2>2, <2>3, <2>6
  <2>8. bufferBytes' + out'.bytes <= left
    BY <2>3, <2>4, <2>7
  <2> QED
    BY <2>5, <2>7, <2>8 DEF left
<1> QED
  BY <1>4, <1>6, <1>9, <1>10, <1>11 DEF IInv, QueueBounded, sharedVars

LEMMA PeerReadsIInv == ASSUME IInv, PeerReads PROVE IInv'
<1> USE FramesAssumption
<1>1. unread' \in 0..Window
  BY DEF PeerReads, IInv, WsType
<1>2. WsType' /\ QueueBounded'
  BY <1>1 DEF PeerReads, sharedVars, IInv, WsType, QueueBounded
<1> QED
  BY <1>2, QuietIInv DEF PeerReads

LEMMA NextIInv == IInv /\ [WsNext]_wsVars => IInv'
<1> SUFFICES ASSUME IInv, [WsNext]_wsVars PROVE IInv'
  OBVIOUS
<1>1. CASE UNCHANGED wsVars
  <2>1. WsType'
    BY <1>1 DEF wsVars, sharedVars, bufferVars, IInv, WsType
  <2>2. QueueBounded'
    BY <1>1 DEF wsVars, sharedVars, IInv, QueueBounded
  <2> QED
    BY <1>1, <2>1, <2>2, QuietIInv DEF wsVars, bufferVars
<1> QED
  BY <1>1, HandleIInv, DrainIInv, FeedIInv, DestroyIInv, TransmitIInv, PeerReadsIInv DEF WsNext

LEMMA Invariance == WsSpec => []IInv
BY InitIInv, NextIInv, PTL DEF WsSpec

(* At most one Close reaches the peer, and no message after it.            *)
THEOREM NoMessageAfterClose == WsSpec => [](WsType /\ CloseIsLast)
<1>1. IInv => WsType /\ CloseIsLast
  BY DEF IInv
<1> QED
  BY <1>1, Invariance, PTL

(* The cross-thread queue never exceeds the limit.                         *)
THEOREM HandleQueueBounded == WsSpec => []QueueBounded
<1>1. IInv => QueueBounded
  BY DEF IInv
<1> QED
  BY <1>1, Invariance, PTL

(* With a TransportBackpressure (HTTP/2), all that waits for a slow peer,  *)
(* down to the write_buffer of its connection, is bounded by the limit, one*)
(* Close frame and the flow-control window that the peer has granted.  Over*)
(* TCP there is no such bound: the slow_peer run shows the limit exceeded. *)
THEOREM BackpressureBounds == (Transport = "h2") => (WsSpec => []OutboundBounded)
<1> SUFFICES ASSUME Transport = "h2" PROVE WsSpec => []OutboundBounded
  OBVIOUS
<1>1. IInv => OutboundBounded
  <2> SUFFICES ASSUME IInv PROVE OutboundBounded
    OBVIOUS
  <2>1. /\ bufferBytes + out.bytes <= out.reserved /\ out.reserved \in Nat
        /\ bufferBytes \in Int /\ out.bytes \in Nat /\ unread \in 0..Window
        /\ out.reserved <= Limit + (IF out.closeSent THEN CloseSize ELSE 0)
    BY DEF IInv, Reserved, WsType
  <2>2. Limit + (IF out.closeSent THEN CloseSize ELSE 0) <= Limit + CloseSize
    BY FramesAssumption
  <2> QED
    BY <2>1, <2>2, FramesAssumption DEF OutboundBounded
<1> QED
  BY <1>1, Invariance, PTL
=============================================================================
