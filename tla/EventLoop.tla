------------------------------ MODULE EventLoop ------------------------------
(***************************************************************************)
(* IoUringEventLoop: one shard's thread drives a submission queue and a    *)
(* completion queue shared with the kernel.  File descriptors are watched  *)
(* by multishot polls, timers are kernel timeouts, and other threads hand  *)
(* over work with post().  The callers of add_fd, modify_fd and remove_fd  *)
(* are the TCP connections, whose descriptor numbers the kernel reuses.    *)
(*                                                                         *)
(* A completion carries only an operation and a number, and the numbers of *)
(* descriptors and of timers overlap.  The ring never stays full after a   *)
(* submission (kRingSize = 512), so every submission finds a slot.         *)
(***************************************************************************)
EXTENDS Naturals, Sequences, FiniteSets, SequencesExt

CONSTANTS Fds,        \* descriptor numbers of the connections
          WakeFd,     \* wakeup_fd_, the eventfd
          Tasks,      \* tasks that other threads post
          MaxConns,   \* bound: connections accepted
          MaxModify,  \* bound: changes of an event mask
          MaxTimers,  \* bound: timers added
          MaxEnds     \* bound: polls that the kernel ends by itself

VARIABLES conn,      \* fd_entries_: which connection is registered, 0 is none
          active,    \* FdEntry::poll_active
          conns,     \* connections accepted so far
          mods, ends,
          sq, cq,    \* the two rings
          polls,     \* kernel: live polls per descriptor and connection
          armed,     \* kernel: running timeouts
          timers,    \* timer_entries_
          nextTimer, \* next_timer_id_
          fired,     \* how often each timer's callback ran
          revoked,   \* timers cancelled while they had an entry
          poster,    \* where each posting thread is
          posted,    \* posted_tasks_
          counter,   \* the eventfd has been written
          edge,      \* kernel: the eventfd's readiness is to be reported
          batch,     \* pending, the tasks run_posted_tasks has swapped out
          ran, pc    \* pc: where the wake-up callback is

fdVars == <<conn, active, conns, mods>>
timerVars == <<timers, nextTimer, fired, revoked>>
postVars == <<poster, posted, counter, edge, batch, ran, pc>>
vars == <<fdVars, ends, sq, cq, polls, armed, timerVars, postVars>>

AllFds == Fds \cup {WakeFd}
TimerIds == 1..MaxTimers
Sqes == {"poll", "poll_remove"} \X AllFds \cup {"timeout", "timeout_remove"} \X TimerIds
(* A completion: operation, number, success, and IORING_CQE_F_MORE.        *)
Cqes == {"poll", "timer", "cancel"} \X (AllFds \cup TimerIds) \X BOOLEAN \X BOOLEAN

TypeOK ==
  /\ conn \in [AllFds -> 0..MaxConns] /\ active \in [AllFds -> BOOLEAN]
  /\ conns \in 0..MaxConns /\ mods \in 0..MaxModify /\ ends \in 0..MaxEnds
  /\ sq \in Seq(Sqes) /\ cq \in Seq(Cqes)
  /\ polls \in [AllFds \X (0..MaxConns) -> Nat] /\ armed \subseteq TimerIds
  /\ timers \in [TimerIds -> {"none", "live", "cancelled"}]
  /\ nextTimer \in 1..MaxTimers + 1 /\ revoked \subseteq TimerIds
  /\ fired \in [TimerIds -> Nat]
  /\ poster \in [Tasks -> {"idle", "pushed", "done"}]
  /\ posted \in Seq(Tasks) /\ batch \in Seq(Tasks) /\ ran \in Seq(Tasks)
  /\ counter \in BOOLEAN /\ edge \in BOOLEAN /\ pc \in {"idle", "drained", "tasks"}
  /\ \A f \in Fds : active[f] => conn[f] > 0
  /\ \A t \in TimerIds : timers[t] # "none" => t < nextTimer

(* The wake-up eventfd is connection 0 and always registered.              *)
Registered(f) == f = WakeFd \/ conn[f] > 0

(* What the operations put into the submission queue.                      *)
SubmitPoll(f) == <<<<"poll", f>>>>
SubmitTimer(t) == <<<<"timeout", t>>>>
CancelPoll(f) == IF active[f] THEN <<<<"poll_remove", f>>>> ELSE <<>>
Modify(f) == CancelPoll(f) \o SubmitPoll(f)

Init ==
  /\ conn = [f \in AllFds |-> 0] /\ active = [f \in AllFds |-> f = WakeFd]
  /\ conns = 0 /\ mods = 0 /\ ends = 0
  /\ sq = SubmitPoll(WakeFd) /\ cq = <<>>
  /\ polls = [p \in AllFds \X (0..MaxConns) |-> 0] /\ armed = {}
  /\ timers = [t \in TimerIds |-> "none"] /\ nextTimer = 1
  /\ fired = [t \in TimerIds |-> 0] /\ revoked = {}
  /\ poster = [t \in Tasks |-> "idle"] /\ posted = <<>> /\ batch = <<>>
  /\ counter = FALSE /\ edge = FALSE /\ ran = <<>> /\ pc = "idle"

-----------------------------------------------------------------------------
(* The owner thread, between two completions: the accept handler, posted   *)
(* tasks and timer callbacks.                                              *)

(* add_fd                                                                  *)
Accept(f) ==
  /\ pc = "idle" /\ conn[f] = 0 /\ conns < MaxConns
  /\ conns' = conns + 1
  /\ conn' = [conn EXCEPT ![f] = conns + 1]
  /\ active' = [active EXCEPT ![f] = TRUE]
  /\ sq' = sq \o SubmitPoll(f)
  /\ UNCHANGED <<mods, ends, cq, polls, armed, timerVars, postVars>>

(* modify_fd from drain_websocket_outbound                                 *)
Drain(f) ==
  /\ pc = "idle" /\ conn[f] > 0 /\ mods < MaxModify
  /\ mods' = mods + 1
  /\ active' = [active EXCEPT ![f] = TRUE]
  /\ sq' = sq \o Modify(f)
  /\ UNCHANGED <<conn, conns, ends, cq, polls, armed, timerVars, postVars>>

(* remove_fd and close, when writing fails in drain_websocket_outbound     *)
Close(f) ==
  /\ pc = "idle" /\ conn[f] > 0
  /\ conn' = [conn EXCEPT ![f] = 0]
  /\ active' = [active EXCEPT ![f] = FALSE]
  /\ sq' = sq \o CancelPoll(f)
  /\ UNCHANGED <<conns, mods, ends, cq, polls, armed, timerVars, postVars>>

AddTimer ==
  /\ pc = "idle" /\ nextTimer <= MaxTimers
  /\ timers' = [timers EXCEPT ![nextTimer] = "live"]
  /\ nextTimer' = nextTimer + 1
  /\ sq' = sq \o SubmitTimer(nextTimer)
  /\ UNCHANGED <<fdVars, ends, cq, polls, armed, fired, revoked, postVars>>

CancelTimer(t) ==
  /\ pc = "idle" /\ timers[t] = "live"
  /\ timers' = [timers EXCEPT ![t] = "cancelled"]
  /\ revoked' = revoked \cup {t}
  /\ sq' = Append(sq, <<"timeout_remove", t>>)
  /\ UNCHANGED <<fdVars, ends, cq, polls, armed, nextTimer, fired, postVars>>

-----------------------------------------------------------------------------
(* The kernel (external).                                                  *)

Cancelled(op, n) == {<<op, n, FALSE, FALSE>>, <<"cancel", n, TRUE, FALSE>>}

(* The poll is placed on the file that the number stands for at that time. *)
TakePoll ==
  /\ sq # <<>> /\ Head(sq)[1] = "poll" /\ sq' = Tail(sq)
  /\ LET f == Head(sq)[2] IN
     IF Registered(f)
     THEN /\ polls' = [polls EXCEPT ![f, conn[f]] = @ + 1]
          /\ edge' = (edge \/ f = WakeFd)
          /\ UNCHANGED cq
     ELSE /\ cq' = Append(cq, <<"poll", f, FALSE, FALSE>>)
          /\ UNCHANGED <<polls, edge>>
  /\ UNCHANGED <<fdVars, ends, armed, timerVars, poster, posted, counter, batch, ran, pc>>

(* One poll with this user data is cancelled, if there is one.             *)
TakePollRemove ==
  /\ sq # <<>> /\ Head(sq)[1] = "poll_remove" /\ sq' = Tail(sq)
  /\ LET f == Head(sq)[2]
         live == {c \in 0..MaxConns : polls[f, c] > 0}
     IN IF live = {}
        THEN cq' = Append(cq, <<"cancel", f, FALSE, FALSE>>) /\ UNCHANGED polls
        ELSE /\ \E c \in live : polls' = [polls EXCEPT ![f, c] = @ - 1]
             /\ \E s \in SetToAllKPermutations(Cancelled("poll", f)) :
                  Len(s) = 2 /\ cq' = cq \o s
  /\ UNCHANGED <<fdVars, ends, armed, timerVars, postVars>>

TakeTimeout ==
  /\ sq # <<>> /\ Head(sq)[1] = "timeout" /\ sq' = Tail(sq)
  /\ armed' = armed \cup {Head(sq)[2]}
  /\ UNCHANGED <<fdVars, ends, cq, polls, timerVars, postVars>>

TakeTimeoutRemove ==
  /\ sq # <<>> /\ Head(sq)[1] = "timeout_remove" /\ sq' = Tail(sq)
  /\ LET t == Head(sq)[2] IN
     /\ armed' = armed \ {t}
     /\ IF t \in armed
        THEN \E s \in SetToAllKPermutations(Cancelled("timer", t)) :
               Len(s) = 2 /\ cq' = cq \o s
        ELSE cq' = Append(cq, <<"cancel", t, FALSE, FALSE>>)
  /\ UNCHANGED <<fdVars, ends, polls, timerVars, postVars>>

Expire(t) ==
  /\ t \in armed /\ armed' = armed \ {t}
  /\ cq' = Append(cq, <<"timer", t, TRUE, FALSE>>)
  /\ UNCHANGED <<fdVars, ends, sq, polls, timerVars, postVars>>

(* A connection has something to read or room to write.                    *)
Ready(f, c) ==
  /\ polls[f, c] > 0 /\ ~Contains(cq, <<"poll", f, TRUE, TRUE>>)
  /\ cq' = Append(cq, <<"poll", f, TRUE, TRUE>>)
  /\ UNCHANGED <<fdVars, ends, sq, polls, armed, timerVars, postVars>>

(* The kernel looks at the eventfd once after each write or arming.        *)
ReadyWake ==
  /\ edge /\ polls[WakeFd, 0] > 0 /\ edge' = FALSE
  /\ cq' = IF counter THEN Append(cq, <<"poll", WakeFd, TRUE, TRUE>>) ELSE cq
  /\ UNCHANGED <<fdVars, ends, sq, polls, armed, timerVars, poster, posted, counter, batch, ran, pc>>

(* The kernel ends a multishot poll, for instance when its queue overflows.*)
EndPoll(f, c) ==
  /\ polls[f, c] > 0 /\ ends < MaxEnds
  /\ ends' = ends + 1
  /\ polls' = [polls EXCEPT ![f, c] = @ - 1]
  /\ cq' = Append(cq, <<"poll", f, f # WakeFd \/ counter, FALSE>>)
  /\ UNCHANGED <<fdVars, sq, armed, timerVars, postVars>>

-----------------------------------------------------------------------------
(* process_cqe on the owner thread.                                        *)

(* The end of the Poll case: a poll that will report nothing more is put   *)
(* back if the descriptor is (still) registered.                           *)
RearmNever(f, more, stays) == <<>>
Rearm(f, more, stays) == IF ~more /\ stays THEN SubmitPoll(f) ELSE <<>>

(* The callback of TcpConnectionManager::on_accept, or of the connection   *)
(* that has the number now: it leaves the event mask alone, changes it, or *)
(* closes the connection.                                                  *)
OnPoll ==
  /\ pc = "idle" /\ cq # <<>> /\ Head(cq)[1] = "poll" /\ Head(cq)[2] \in Fds
  /\ cq' = Tail(cq)
  /\ LET f == Head(cq)[2]
         more == Head(cq)[4]
         calls == conn[f] > 0 /\ Head(cq)[3]
     IN \/ /\ active' = [active EXCEPT ![f] = conn[f] > 0 /\ (@ \/ ~more)]
           /\ sq' = sq \o Rearm(f, more, conn[f] > 0)
           /\ UNCHANGED <<conn, mods>>
        \/ /\ calls /\ mods < MaxModify /\ mods' = mods + 1
           /\ active' = [active EXCEPT ![f] = TRUE]
           /\ sq' = sq \o Modify(f) \o Rearm(f, more, TRUE)
           /\ UNCHANGED conn
        \/ /\ calls
           /\ conn' = [conn EXCEPT ![f] = 0]
           /\ active' = [active EXCEPT ![f] = FALSE]
           /\ sq' = sq \o CancelPoll(f)
           /\ UNCHANGED mods
  /\ UNCHANGED <<conns, ends, polls, armed, timerVars, postVars>>

(* The callback of wakeup_fd_ first reads the eventfd until it is empty.   *)
(* The completion stays at the head until the end of the Poll case.        *)
WakeFails == ~Head(cq)[3] /\ cq' = Tail(cq) /\ sq' = sq \o Rearm(WakeFd, FALSE, TRUE) /\ UNCHANGED <<counter, pc>>

OnWake ==
  /\ pc = "idle" /\ cq # <<>> /\ Head(cq)[1] = "poll" /\ Head(cq)[2] = WakeFd
  /\ \/ WakeFails
     \/ Head(cq)[3] /\ pc' = "drained" /\ counter' = FALSE /\ UNCHANGED <<sq, cq>>
  /\ UNCHANGED <<fdVars, ends, polls, armed, timerVars, poster, posted, edge, batch, ran>>

(* run_posted_tasks: swap the queue under the mutex, then run the tasks;   *)
(* after the callback the poll is re-armed if need be.                     *)
SwapTasks ==
  /\ pc = "drained" /\ pc' = "tasks"
  /\ batch' = posted /\ posted' = <<>>
  /\ UNCHANGED <<fdVars, ends, sq, cq, polls, armed, timerVars, poster, counter, edge, ran>>

RunTask ==
  /\ pc = "tasks" /\ batch # <<>>
  /\ batch' = Tail(batch) /\ ran' = Append(ran, Head(batch))
  /\ UNCHANGED <<fdVars, ends, sq, cq, polls, armed, timerVars, poster, posted, counter, edge, pc>>

EndWakeReading == pc = "tasks" /\ batch = <<>> /\ pc' = "idle" /\ cq' = Tail(cq) /\ sq' = sq \o Rearm(WakeFd, Head(cq)[4], TRUE) /\ counter' = FALSE /\ UNCHANGED <<fdVars, ends, polls, armed, timerVars, poster, posted, edge, batch, ran>>
EndWake ==
  /\ pc = "tasks" /\ batch = <<>> /\ pc' = "idle"
  /\ cq' = Tail(cq) /\ sq' = sq \o Rearm(WakeFd, Head(cq)[4], TRUE)
  /\ UNCHANGED <<fdVars, ends, polls, armed, timerVars, poster, posted, counter, edge, batch, ran>>

OnTimer ==
  /\ pc = "idle" /\ cq # <<>> /\ Head(cq)[1] = "timer" /\ cq' = Tail(cq)
  /\ LET t == Head(cq)[2] IN
     /\ fired' = [fired EXCEPT ![t] = IF timers[t] = "live" THEN @ + 1 ELSE @]
     /\ timers' = [timers EXCEPT ![t] = "none"]
  /\ UNCHANGED <<fdVars, ends, sq, polls, armed, nextTimer, revoked, postVars>>

(* Is this the entry to erase when the completion of a removal arrives?    *)
Erases(n) == n \in TimerIds /\ timers[n] = "cancelled"

OnCancel ==
  /\ pc = "idle" /\ cq # <<>> /\ Head(cq)[1] = "cancel" /\ cq' = Tail(cq)
  /\ timers' = [t \in TimerIds |-> IF t = Head(cq)[2] /\ Erases(t) THEN "none" ELSE timers[t]]
  /\ UNCHANGED <<fdVars, ends, sq, polls, armed, nextTimer, fired, revoked, postVars>>

-----------------------------------------------------------------------------
(* post() on another thread: the queue under the mutex, then the eventfd.  *)
Push(t) ==
  /\ poster[t] = "idle" /\ poster' = [poster EXCEPT ![t] = "pushed"]
  /\ posted' = Append(posted, t)
  /\ UNCHANGED <<fdVars, ends, sq, cq, polls, armed, timerVars, counter, edge, batch, ran, pc>>

WriteWake(t) ==
  /\ poster[t] = "pushed" /\ poster' = [poster EXCEPT ![t] = "done"]
  /\ counter' = TRUE /\ edge' = TRUE
  /\ UNCHANGED <<fdVars, ends, sq, cq, polls, armed, timerVars, posted, batch, ran, pc>>

Caller ==
  \/ AddTimer
  \/ \E f \in Fds : Accept(f) \/ Drain(f) \/ Close(f)
  \/ \E t \in TimerIds : CancelTimer(t)
Submit == TakePoll \/ TakePollRemove \/ TakeTimeout \/ TakeTimeoutRemove
Kernel ==
  \/ Submit \/ ReadyWake \/ \E t \in TimerIds : Expire(t)
Loop == OnPoll \/ OnWake \/ SwapTasks \/ RunTask \/ EndWake \/ OnTimer \/ OnCancel
Post == \E t \in Tasks : Push(t) \/ WriteWake(t)
Outside ==
  \/ \E f \in Fds, c \in 1..MaxConns : Ready(f, c) \/ EndPoll(f, c)
  \/ EndPoll(WakeFd, 0)

Next == Caller \/ Kernel \/ Loop \/ Post \/ Outside

(* run_once submits everything before it waits and handles every completion*)
(* it finds; the kernel carries out what was submitted; write follows push.*)
Fairness ==
  /\ WF_vars(Submit)
  /\ WF_vars(Loop) /\ WF_vars(ReadyWake)
  /\ \A t \in TimerIds : WF_vars(Expire(t))
  /\ \A t \in Tasks : WF_vars(WriteWake(t))

Spec == Init /\ [][Next]_vars /\ Fairness

-----------------------------------------------------------------------------
(* A registered descriptor is never deaf: it has a live poll, or one is on *)
(* its way into the kernel, or a completion is queued that will put it     *)
(* back (modify_fd, the re-arming at the end of the Poll case, number      *)
(* reuse after close).                                                     *)
Watched ==
  \A f \in AllFds : Registered(f) =>
    \/ polls[f, conn[f]] > 0
    \/ Contains(sq, <<"poll", f>>)
    \/ \E ok \in BOOLEAN : Contains(cq, <<"poll", f, ok, FALSE>>)

(* A timer's callback runs at most once and never after cancel_timer found *)
(* its entry; a timer that nobody cancelled and that has not run still has *)
(* its entry, although the completions of poll removals use descriptors'   *)
(* numbers as ids too.                                                     *)
TimerAccounted ==
  \A t \in TimerIds :
    /\ fired[t] <= (IF t \in revoked THEN 0 ELSE 1)
    /\ t < nextTimer /\ t \notin revoked /\ fired[t] = 0 => timers[t] = "live"


(* A task that a thread has queued runs, however the write to the eventfd, *)
(* its reading in the callback, the swap of the queue and the re-arming of *)
(* the poll interleave.                                                    *)
PostedRuns == \A t \in Tasks : poster[t] # "idle" ~> Contains(ran, t)

(* Every timer leaves the table: it fires or its cancellation completes.   *)
TimersLeave == \A t \in TimerIds : timers[t] # "none" ~> timers[t] = "none"

(* Once everything submitted has been carried out and every completion has *)
(* been handled, no poll is left on a connection that was removed.         *)
RemovedNotMonitored ==
  sq = <<>> /\ cq = <<>> =>
    \A f \in Fds, c \in 1..MaxConns : polls[f, c] > 0 => conn[f] = c
=============================================================================
