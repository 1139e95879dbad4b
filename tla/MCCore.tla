-------------------------------- MODULE MCCore --------------------------------
(* What every shard rests on: server lifecycle, shutdown drain, event      *)
(* loop, cancellation tokens and the concurrency limit.  A behaviour moves *)
(* one part, chosen at the start: two shards, two threads that call stop() *)
(* when the cfg allows, or only once the server has settled; two           *)
(* requests and two WebSocket sessions at the drain gate; the loop with    *)
(* one descriptor number that two connections use, with a timer whose id   *)
(* is that number, or with two threads that post; tokens; the limit.       *)
EXTENDS Cancellation

CONSTANTS Parts, NumShards, Stoppers, Signal, StopWhen

VARIABLES part,
          running, stopping, ready, avail, pushed, mpc, spc, toStop, shpc, loop, gate,
          accepting, inside, rpc, registry, session, closing, told, dpc, expired, forced, gap,
          conn, active, conns, mods, ends, sq, cq, polls, armed, timers, nextTimer,
          fired, revoked, poster, posted, counter, edge, batch, ran, pc,
          counts, permit, limited

serverVars == <<running, stopping, ready, avail, pushed, mpc, spc, toStop, shpc, loop, gate>>
drainVars == <<accepting, inside, rpc, registry, session, closing, told, dpc, expired, forced, gap>>
loopVars == <<conn, active, conns, mods, ends, sq, cq, polls, armed, timers, nextTimer,
              fired, revoked, poster, posted, counter, edge, batch, ran, pc>>
limitVars == <<counts, permit, limited>>

SL == INSTANCE ServerLifecycle
LS == INSTANCE ServerLifecycle WITH StopWhen <- "settled"
SD == INSTANCE ShutdownDrain WITH Requests <- {"r1", "r2"}, Sessions <- {"w1", "w2"},
        active <- inside, conn <- session
EL == INSTANCE EventLoop WITH Fds <- {1}, WakeFd <- 9, Tasks <- {"t1", "t2"},
        MaxConns <- 2, MaxModify <- 1, MaxTimers <- 1, MaxEnds <- 1
CL == INSTANCE ConcurrencyLimit WITH Requests <- {"r1", "r2", "r3", "r4"}, Keys <- {"anonymous", "k1", "k2"},
        Anonymous <- "anonymous", MaxConcurrent <- 2, MaxKeys <- 2, NoKey <- "none",
        active <- counts, pc <- limited

(* Three views of the loop, each without the operations it is not about.   *)
LoopFds == (\E f \in {1} : EL!Accept(f) \/ EL!Drain(f) \/ EL!Close(f)) \/ EL!Kernel \/ EL!Loop \/ EL!Outside
LoopTimers == (EL!Caller \/ EL!Kernel \/ EL!Loop \/ EL!Outside) /\ conns' <= 1 /\ ends' = 0
LoopPosts == EL!AddTimer \/ EL!CancelTimer(1) \/ EL!Kernel \/ EL!Loop \/ EL!Outside \/ EL!Post

MCInit == part \in Parts /\ Init /\ SL!Init /\ SD!Init /\ EL!Init /\ CL!Init
MCNext ==
  \/ part = "server" /\ SL!Next /\ UNCHANGED <<part, drainVars, loopVars, vars, limitVars>>
  \/ part = "settled" /\ LS!Next /\ UNCHANGED <<part, drainVars, loopVars, vars, limitVars>>
  \/ part = "drain" /\ SD!Next /\ UNCHANGED <<part, serverVars, loopVars, vars, limitVars>>
  \/ part = "fds" /\ LoopFds /\ UNCHANGED <<part, serverVars, drainVars, vars, limitVars>>
  \/ part = "timers" /\ LoopTimers /\ UNCHANGED <<part, serverVars, drainVars, vars, limitVars>>
  \/ part = "post" /\ LoopPosts /\ UNCHANGED <<part, serverVars, drainVars, vars, limitVars>>
  \/ part = "tokens" /\ Next /\ UNCHANGED <<part, serverVars, drainVars, loopVars, limitVars>>
  \/ part = "limit" /\ CL!Next /\ UNCHANGED <<part, serverVars, drainVars, loopVars, vars>>
IsServer == part \in {"server", "settled"}
MCSpec ==
  /\ MCInit /\ [][MCNext]_<<part, serverVars, drainVars, loopVars, vars, limitVars>>
  /\ WF_serverVars(IsServer /\ SL!RunStep)
  /\ \A s \in Stoppers : WF_serverVars(IsServer /\ SL!StopStep(s))
  /\ \A i \in SL!Shards : WF_serverVars(IsServer /\ SL!ShardStep(i))
  /\ WF_drainVars(part = "drain" /\ SD!Drain) /\ WF_drainVars(part = "drain" /\ SD!DeadlinePasses)
  /\ WF_loopVars(part = "post" /\ EL!Submit) /\ WF_loopVars(part = "post" /\ EL!Loop)
  /\ WF_loopVars(part = "post" /\ EL!ReadyWake) /\ WF_loopVars(part = "post" /\ EL!Expire(1))
  /\ \A t \in {"t1", "t2"} : WF_loopVars(part = "post" /\ EL!WriteWake(t))
  /\ \A o \in Ops : WF_vars(part = "tokens" /\ InvokeNow(o))
  /\ \A c \in Cancellers :
       /\ WF_vars(part = "tokens" /\ CancelSwap(c)) /\ WF_vars(part = "tokens" /\ CancelReturn(c))
       /\ \A o \in Ops : WF_vars(part = "tokens" /\ CancelRun(c, o))
  /\ \A r \in {"r1", "r2", "r3", "r4"} :
       WF_limitVars(part = "limit" /\ CL!LeavePipeline(r)) /\ WF_limitVars(part = "limit" /\ CL!Finish(r))

(* is_ready() is never true before every listener is bound, and nothing is *)
(* left alive when run() has returned.  In the drain active_ counts the    *)
(* requests inside, a drain that succeeds leaves behind only requests that *)
(* were between the gate's test and its count, it has waited for every     *)
(* session that it told to close, and participants are forced only after   *)
(* the deadline.                                                           *)
ShutdownSound ==
  /\ SL!TypeOK /\ SL!ReadyMeansBound /\ SL!ReturnedIsDown
  /\ SD!TypeOK
  /\ SD!ActiveExact /\ SD!LeftBehindOnlyInGap /\ SD!DrainWaitsForSessions /\ SD!ForcedAfterDeadline
(* When the server had settled, loops are stopped only after the drain, and*)
(* a stop() makes run() return.                                            *)
SettledStops ==
  /\ [][part = "settled" =>
          \A i \in SL!Shards : loop[i] = "on" /\ loop'[i] # "on" => gate = "drained"]_serverVars
  /\ part = "settled" => SL!StopEndsRun
(* A shard that stop() has gone through leaves its loop.                   *)
ServerStopEndsLoops == part = "server" => SL!StopEndsLoops
(* The drain ends whatever requests and peers do.                          *)
DrainEnds == SD!DrainEnds
(* A registered descriptor is never deaf, through mask changes, polls that *)
(* the kernel ends and reuse of its number; a timer fires at most once,    *)
(* never after cancel_timer, and is not erased by another completion.      *)
LoopSound == EL!Watched /\ EL!TimerAccounted /\ EL!TypeOK
(* A task that a thread has queued with post() runs, and every timer leaves*)
(* the table: it fires or its cancellation completes.                      *)
LoopServes == part = "post" => EL!PostedRuns /\ EL!TimersLeave
(* No poll is left on a connection that remove_fd has taken out.           *)
RemovedNotMonitored == EL!RemovedNotMonitored
(* A key that the concurrency limit refuses is not refused for ever.       *)
LimitClears == CL!LimitClears
==============================================================================
