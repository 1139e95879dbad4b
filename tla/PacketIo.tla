------------------------------- MODULE PacketIo -------------------------------
(***************************************************************************)
(* Datagrams on the event loop (core/io_uring_event_loop.cpp): the         *)
(* multishot receive of a UDP socket, its ring of provided buffers, the    *)
(* pool of send contexts and the table of registered files.  The kernel    *)
(* side is external.  A socket is a number that is never reused; a         *)
(* descriptor is, and the lowest free one comes first.                     *)
(***************************************************************************)
EXTENDS Naturals, Sequences, SequencesExt, FiniteSets, FiniteSetsExt, Functions

CONSTANTS Fds,            \* descriptors available to UDP sockets
          Slots,          \* kMaxRegisteredFiles
          Contexts,       \* kSendContextsCount
          Buffers,        \* kBufRingEntries
          SqSize,         \* entries of the submission queue
          MaxSockets,     \* bound of the model: sockets made
          MaxSends        \* bound of the model: packets sent

VARIABLES open,           \* the process's descriptors: fd -> socket
          sockets,        \* sockets made so far
          files,          \* registered_files_ and the ring's table: slot -> [fd, socket]
          callbacks,      \* packet_recv_cbs_: fd -> socket it was registered for
          sq,             \* submission queue
          armed,          \* receives in the kernel: [fd, socket]; two on one file count as one
          sending,        \* sends in the kernel: [context, socket]
          cq,             \* completion queue
          buffers,        \* buffers in the ring
          free,           \* free_send_indices_
          ctx,            \* send_contexts_: [packet, socket], packet 0 when not in_use
          packets,        \* packets given to async_send
          dropped,        \* ... dropped there
          wired,          \* what the kernel sent: [packet, socket it was given, socket it left by]
          lost,           \* descriptors whose ended receive process_cqe or start_packet_recv gave up
          running         \* running_

vars == <<open, sockets, files, callbacks, sq, armed, sending, cq, buffers, free, ctx, packets, dropped, wired, lost, running>>
sendVars == <<sending, free, ctx, packets, dropped, wired, lost>>

Put(f, k, v) == [j \in DOMAIN f \cup {k} |-> IF j = k THEN v ELSE f[j]]
Recv(fd, s) == [op |-> "recv", fd |-> fd, socket |-> s]
Send(i, s) == [op |-> "send", i |-> i, socket |-> s]
Idle == [packet |-> 0, socket |-> 0]
Arms(q) == {[fd |-> q[k].fd, socket |-> q[k].socket] : k \in {j \in DOMAIN q : q[j].op = "recv"}}
Sends(q) == {[i |-> q[k].i, socket |-> q[k].socket] : k \in {j \in DOMAIN q : q[j].op = "send"}}

Init ==
  /\ open = [f \in {} |-> 0] /\ sockets = 0 /\ files = <<>> /\ callbacks = [f \in {} |-> 0]
  /\ sq = <<>> /\ armed = {} /\ sending = {} /\ cq = <<>> /\ buffers = Buffers
  /\ free = [i \in 1..Contexts |-> Contexts + 1 - i] /\ ctx = [i \in 1..Contexts |-> Idle]
  /\ packets = 0 /\ dropped = {} /\ wired = {} /\ lost = {} /\ running \in BOOLEAN

-----------------------------------------------------------------------------
(* get_or_register_file: the slot that has the number, or a free one, or   *)
(* none; the socket an operation on the descriptor then reaches.  (The     *)
(* plain descriptor is used when its number is the slot's index: left out.) *)
SlotOf(fd) == {k \in DOMAIN files : files[k].fd = fd}
Register(fd, s) ==
  IF SlotOf(fd) = {} /\ Len(files) < Slots THEN Append(files, [fd |-> fd, socket |-> s]) ELSE files
Reaches(fd, current) ==
  IF SlotOf(fd) # {} THEN files[CHOOSE k \in SlotOf(fd) : TRUE].socket ELSE current

(* The kernel takes what is submitted.                                     *)
Take(q) == armed' = armed \cup Arms(q) /\ sending' = sending \cup Sends(q)

(* io_uring_get_sqe, after io_uring_submit when the queue is full.  The    *)
(* submit may be refused: then there is no entry to be had.                *)
Full == Len(sq) = SqSize
Queue(entry) ==
  \/ ~Full /\ sq' = Append(sq, entry) /\ UNCHANGED <<armed, sending>>
  \/ Full /\ sq' = <<entry>> /\ Take(sq)
Refused == Full /\ UNCHANGED <<sq, armed, sending>>

(* UdpSocket::create, then start_packet_recv, which submits at once.       *)
StartPacketRecv(table, fd) ==
  LET s == sockets + 1
  IN /\ sockets' = s
     /\ open' = Put(table, fd, s)
     /\ callbacks' = Put(callbacks, fd, s)
     /\ files' = Register(fd, s)
     /\ \/ sq' = <<>> /\ Take(Append(sq, Recv(fd, Reaches(fd, s)))) /\ lost' = lost \ {fd}
        \/ Refused /\ lost' = lost \cup {fd}
     /\ UNCHANGED <<cq, buffers, free, ctx, packets, dropped, wired, running>>
Lowest(table) == Min(Fds \ DOMAIN table)
Start ==
  /\ sockets < MaxSockets /\ Fds \ DOMAIN open # {}
  /\ StartPacketRecv(open, Lowest(open))

(* RestClient::do_reconnect: remove_fd finds no FdEntry and returns, the   *)
(* socket is closed and another one made.                                  *)
Reconnect(fd) ==
  LET rest == Restrict(open, DOMAIN open \ {fd})
  IN /\ sockets < MaxSockets /\ fd \in DOMAIN open
     /\ StartPacketRecv(rest, Lowest(rest))

(* async_send: the packet is dropped when no context is free, and when no  *)
(* entry is, the context going back.                                       *)
AsyncSend(fd) ==
  LET p == packets + 1
      i == Last(free)
  IN /\ fd \in DOMAIN open /\ packets < MaxSends
     /\ packets' = p
     /\ \/ /\ free = <<>>
           /\ dropped' = dropped \cup {p} /\ UNCHANGED <<free, ctx, sq, armed, sending, files>>
        \/ /\ free # <<>> /\ Refused
           /\ dropped' = dropped \cup {p} /\ UNCHANGED <<free, ctx, files>>
        \/ /\ free # <<>> /\ Queue(Send(i, Reaches(fd, open[fd])))
           /\ free' = Front(free) /\ ctx' = [ctx EXCEPT ![i] = [packet |-> p, socket |-> open[fd]]]
           /\ files' = Register(fd, open[fd])
           /\ UNCHANGED dropped
     /\ UNCHANGED <<open, sockets, callbacks, cq, buffers, wired, lost, running>>

(* run_once: everything queued is submitted.                               *)
Submit ==
  /\ sq # <<>>
  /\ Take(sq) /\ sq' = <<>>
  /\ UNCHANGED <<open, sockets, files, callbacks, cq, buffers, free, ctx, packets, dropped, wired, lost, running>>

-----------------------------------------------------------------------------
(* The kernel: a datagram takes a buffer, and its header may not validate; *)
(* without a buffer, or on an error, the multishot receive ends.  A send   *)
(* completes.                                                              *)
KernelRecv(a) ==
  /\ a \in armed /\ buffers > 0
  /\ buffers' = buffers - 1
  /\ \E more, valid \in BOOLEAN :
       /\ cq' = Append(cq, [op |-> "recv", fd |-> a.fd, ok |-> TRUE, valid |-> valid, more |-> more])
       /\ armed' = IF more THEN armed ELSE armed \ {a}
  /\ UNCHANGED <<open, sockets, files, callbacks, sq, sendVars, running>>
KernelRecvEnds(a) ==
  /\ a \in armed
  /\ cq' = Append(cq, [op |-> "recv", fd |-> a.fd, ok |-> FALSE, valid |-> FALSE, more |-> FALSE])
  /\ armed' = armed \ {a}
  /\ UNCHANGED <<open, sockets, files, callbacks, sq, sendVars, buffers, running>>
KernelSend(e) ==
  /\ e \in sending
  /\ sending' = sending \ {e}
  /\ wired' = wired \cup {[packet |-> ctx[e.i].packet, socket |-> ctx[e.i].socket, by |-> e.socket]}
  /\ cq' = Append(cq, [op |-> "send", i |-> e.i])
  /\ UNCHANGED <<open, sockets, files, callbacks, sq, armed, buffers, free, ctx, packets, dropped, lost, running>>

(* process_cqe, case RecvMsg: the callback, the buffer goes back, and a    *)
(* receive that has ended is submitted again while the loop runs.  It is   *)
(* not when the datagram did not validate, which leaves the case at once,  *)
(* nor when there is no entry.  (A descriptor without a callback leaves it *)
(* at once too, and cannot occur: no callback is ever removed.)            *)
GivesUp(c) == c.ok /\ ~c.valid
RearmsOnData(c) == ~c.more /\ running /\ c.ok /\ ~GivesUp(c)
Rearms(c) == ~c.more /\ running /\ ~GivesUp(c)
ProcessRecv ==
  LET c == Head(cq)
      current == IF c.fd \in DOMAIN open THEN open[c.fd] ELSE 0
  IN /\ cq # <<>> /\ c.op = "recv"
     /\ cq' = Tail(cq)
     /\ buffers' = IF c.ok THEN buffers + 1 ELSE buffers
     /\ \/ Rearms(c) /\ Queue(Recv(c.fd, Reaches(c.fd, current))) /\ files' = Register(c.fd, current)
           /\ lost' = lost \ {c.fd}
        \/ Rearms(c) /\ Refused /\ lost' = lost \cup {c.fd} /\ UNCHANGED files
        \/ /\ ~Rearms(c)
           /\ lost' = IF GivesUp(c) /\ ~c.more THEN lost \cup {c.fd} ELSE lost
           /\ UNCHANGED <<sq, armed, sending, files>>
     /\ UNCHANGED <<open, sockets, callbacks, free, ctx, packets, dropped, wired, running>>

(* Case SendMsg: plain sends have no notification.                         *)
ProcessSend ==
  LET c == Head(cq)
  IN /\ cq # <<>> /\ c.op = "send"
     /\ cq' = Tail(cq) /\ free' = Append(free, c.i) /\ ctx' = [ctx EXCEPT ![c.i] = Idle]
     /\ UNCHANGED <<open, sockets, files, callbacks, sq, armed, sending, buffers, packets, dropped, wired, lost, running>>

Next ==
  \/ Start \/ Submit \/ ProcessRecv \/ ProcessSend
  \/ \E fd \in Fds : Reconnect(fd) \/ AsyncSend(fd)
  \/ \E a \in armed : KernelRecv(a) \/ KernelRecvEnds(a)
  \/ \E e \in sending : KernelSend(e)
Spec == Init /\ [][Next]_vars

-----------------------------------------------------------------------------
Completing == {cq[k].i : k \in {j \in DOMAIN cq : cq[j].op = "send"}}
NoneReplaced == sockets = Cardinality(DOMAIN open)
Held == Cardinality({k \in DOMAIN cq : cq[k].op = "recv" /\ cq[k].ok})

(* A send context is free once or holds one packet that is queued, in the  *)
(* kernel or completing; a packet is sent once, or is dropped.  It leaves  *)
(* by the socket it was given to, as long as no socket was replaced.       *)
ContextsSound ==
  LET queued == {e.i : e \in Sends(sq)}
      kernel == {e.i : e \in sending}
      sent == {w.packet : w \in wired}
  IN /\ IsInjective(free) /\ \A i \in 1..Contexts : (ctx[i] = Idle) <=> (i \in Range(free))
     /\ {i \in 1..Contexts : ctx[i] # Idle} = queued \cup kernel \cup Completing
     /\ queued \cap kernel = {} /\ (queued \cup kernel) \cap Completing = {}
     /\ 1..packets = dropped \cup sent \cup {ctx[i].packet : i \in queued \cup kernel}
     /\ dropped \cap sent = {}
     /\ NoneReplaced => \A w \in wired : w.by = w.socket

(* While the loop runs, a socket that receives keeps a receive: armed,     *)
(* queued, or ended with its completion still to be processed.  The two    *)
(* ways process_cqe gives one up are excepted: a datagram that does not    *)
(* validate, and a full queue that is refused.                             *)
NeverDeaf ==
  running => \A fd \in DOMAIN callbacks \ lost :
    \/ \E a \in armed \cup Arms(sq) : a.fd = fd
    \/ \E k \in DOMAIN cq : cq[k].op = "recv" /\ cq[k].fd = fd /\ ~cq[k].more

(* A socket is the one the loop receives from, for as long as the loop     *)
(* runs, unless it has the number of one that Reconnect closed: the slot   *)
(* of that number still holds the closed socket.                           *)
ReceivesFromSocket ==
  running /\ NoneReplaced => \A fd \in DOMAIN open \ lost :
    \/ [fd |-> fd, socket |-> open[fd]] \in armed \cup Arms(sq)
    \/ \E k \in DOMAIN cq : cq[k].op = "recv" /\ cq[k].fd = fd /\ ~cq[k].more

(* Buffers and contexts are never lost or doubled, and a receive ends for  *)
(* good only where process_cqe gives it up, whatever the kernel reports in *)
(* which order.  A loop that is driven by run_once alone (running_ false)  *)
(* re-arms nothing: of it only buffers and contexts are asserted.          *)
PacketsSound == ContextsSound /\ buffers + Held = Buffers /\ NeverDeaf /\ ReceivesFromSocket
=============================================================================
