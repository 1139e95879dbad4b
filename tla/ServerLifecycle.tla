--------------------------- MODULE ServerLifecycle ---------------------------
(***************************************************************************)
(* Server::run() on the main thread, Server::stop() on the signal thread   *)
(* and on any other, and one thread per shard.                             *)
(*                                                                         *)
(* The steps are the accesses to what the threads share: running_,         *)
(* stopping_, ready_, shards_, the availability of the actuators, and the  *)
(* running_ flag of each shard's event loop.  The drain of the shutdown    *)
(* participants (module ShutdownDrain) ends within its deadline and is one *)
(* step here.  shards_ has its capacity reserved before the first          *)
(* push_back, and stop() takes end() once, so that a stop() that overlaps  *)
(* the creation sees the shards pushed so far.                             *)
(***************************************************************************)
EXTENDS Naturals, FiniteSets

CONSTANTS NumShards,  \* worker_count_, at least 1
          Stoppers,   \* threads that call stop(), the signal thread included
          Signal,     \* the signal thread, one of the stoppers
          StopWhen    \* when they call it: "any", "afterReady" or "settled"

Shards == 1..NumShards

VARIABLES running, stopping, ready,  \* the three flags of Server
          avail,    \* availability of the actuators
          pushed,   \* number of shards in shards_
          mpc,      \* where run() is
          spc,      \* where each stop() is
          toStop,   \* per stopper, the shards its loop has still to stop
          shpc,     \* where each shard thread is
          loop,     \* event_loop_: "none", or its running_ flag "off" / "on"
          gate      \* the drain gate: "open", "closed" or "drained"

shardVars == <<shpc, loop>>
stopVars == <<spc, toStop, gate>>
vars == <<running, stopping, ready, avail, pushed, mpc, stopVars, shardVars>>

HasLoop(i) == shpc[i] \notin {"none", "starting"}

TypeOK ==
  /\ {running, stopping, ready} \subseteq BOOLEAN
  /\ avail \in {"Starting", "Ready", "RefusingTraffic", "Stopped"}
  /\ pushed \in 0..NumShards
  /\ mpc \in {"idle", "claimed", "create", "wait", "setReady", "announce", "join",
              "finish", "clear", "joinSignal", "returned", "threw"}
  /\ spc \in [Stoppers -> {"idle", "cas", "clearReady", "refuse", "drain", "shards",
                           "stopShard", "done"}]
  /\ toStop \in [Stoppers -> SUBSET Shards]
  /\ shpc \in [Shards -> {"none", "starting", "binding", "ready", "running", "exited"}]
  /\ loop \in [Shards -> {"none", "off", "on"}]
  /\ \A i \in Shards : loop[i] # "none" <=> HasLoop(i)
  /\ gate \in {"open", "closed", "drained"}

Init ==
  /\ running = FALSE /\ stopping = FALSE /\ ready = FALSE
  /\ avail = "Starting"
  /\ pushed = 0
  /\ mpc = "idle"
  /\ spc = [s \in Stoppers |-> "idle"]
  /\ toStop = [s \in Stoppers |-> {}]
  /\ shpc = [i \in Shards |-> "none"]
  /\ loop = [i \in Shards |-> "none"]
  /\ gate = "open"

-----------------------------------------------------------------------------
(* run()                                                                   *)

RunClaim ==
  /\ mpc = "idle" /\ ~running
  /\ running' = TRUE
  /\ mpc' = "claimed"
  /\ UNCHANGED <<stopping, ready, avail, pushed, stopVars, shardVars>>

(* stopping_ = false, ready_ = false, then the crypto library.             *)
RunReset ==
  /\ mpc = "claimed"
  /\ stopping' = FALSE /\ ready' = FALSE
  /\ \/ mpc' = "create" /\ UNCHANGED running
     \/ mpc' = "threw" /\ running' = FALSE
  /\ UNCHANGED <<avail, pushed, stopVars, shardVars>>

(* shard->start() and push_back.                                           *)
RunStartShard ==
  /\ mpc = "create"
  /\ pushed' = pushed + 1
  /\ shpc' = [shpc EXCEPT ![pushed + 1] = "starting"]
  /\ mpc' = IF pushed + 1 = NumShards THEN "wait" ELSE "create"
  /\ UNCHANGED <<running, stopping, ready, avail, stopVars, loop>>

(* The readiness loop.                                                     *)
AllReadyLast == shpc[NumShards] \in {"ready", "running"}
AllReady == \A i \in Shards : shpc[i] \in {"ready", "running"}

RunWait ==
  /\ mpc = "wait"
  /\ \/ stopping /\ mpc' = "announce"
     \/ ~stopping /\ AllReady /\ mpc' = "setReady"
  /\ UNCHANGED <<running, stopping, ready, avail, pushed, stopVars, shardVars>>

RunSetReady ==
  /\ mpc = "setReady"
  /\ ready' = TRUE
  /\ mpc' = "announce"
  /\ UNCHANGED <<running, stopping, avail, pushed, stopVars, shardVars>>

RunAnnounce ==
  /\ mpc = "announce"
  /\ avail' = "Ready"
  /\ mpc' = "join"
  /\ UNCHANGED <<running, stopping, ready, pushed, stopVars, shardVars>>

RunJoin ==
  /\ mpc = "join"
  /\ \A i \in Shards : shpc[i] = "exited"
  /\ mpc' = "finish"
  /\ UNCHANGED <<running, stopping, ready, avail, pushed, stopVars, shardVars>>

RunFinish ==
  /\ mpc = "finish"
  /\ running' = FALSE
  /\ mpc' = "clear"
  /\ UNCHANGED <<stopping, ready, avail, pushed, stopVars, shardVars>>

RunClear ==
  /\ mpc = "clear"
  /\ stopping' = FALSE /\ ready' = FALSE
  /\ avail' = "Stopped"
  /\ mpc' = "joinSignal"
  /\ UNCHANGED <<running, pushed, stopVars, shardVars>>

(* stop_signal_thread(): a signal thread that waits in sigwait is woken,   *)
(* finds running_ false and ends; one that is inside stop() is waited for. *)
RunReturn ==
  /\ mpc = "joinSignal"
  /\ spc[Signal] \in {"idle", "done"}
  /\ spc' = [spc EXCEPT ![Signal] = "done"]
  /\ mpc' = "returned"
  /\ UNCHANGED <<running, stopping, ready, avail, pushed, toStop, gate, shardVars>>

-----------------------------------------------------------------------------
(* stop()                                                                  *)

Settled ==
  /\ pushed = NumShards
  /\ \A i \in Shards : shpc[i] \in {"running", "exited"}
  /\ mpc = "join" \/ (mpc = "wait" /\ ~AllReady)

MayStop ==
  \/ StopWhen = "any"
  \/ StopWhen = "afterReady" /\ ready
  \/ StopWhen = "settled" /\ Settled

Goto(s, pc) == spc' = [spc EXCEPT ![s] = pc]

StopCheck(s) ==
  /\ spc[s] = "idle" /\ MayStop
  /\ Goto(s, IF running THEN "cas" ELSE "done")
  /\ UNCHANGED <<running, stopping, ready, avail, pushed, mpc, toStop, gate, shardVars>>

StopClaim(s) ==
  /\ spc[s] = "cas"
  /\ stopping' = TRUE
  /\ Goto(s, IF stopping THEN "done" ELSE "clearReady")
  /\ UNCHANGED <<running, ready, avail, pushed, mpc, toStop, gate, shardVars>>

StopClearReady(s) ==
  /\ spc[s] = "clearReady"
  /\ ready' = FALSE
  /\ Goto(s, "refuse")
  /\ UNCHANGED <<running, stopping, avail, pushed, mpc, toStop, gate, shardVars>>

StopRefuseNoDrain(s) ==
  /\ spc[s] = "refuse"
  /\ avail' = "RefusingTraffic"
  /\ gate' = "closed"
  /\ Goto(s, "shards")
  /\ UNCHANGED <<running, stopping, ready, pushed, mpc, toStop, shardVars>>

StopRefuse(s) ==
  /\ spc[s] = "refuse"
  /\ avail' = "RefusingTraffic"
  /\ gate' = "closed"  \* stop_accepting, the first step of drain_for
  /\ Goto(s, "drain")
  /\ UNCHANGED <<running, stopping, ready, pushed, mpc, toStop, shardVars>>

StopDrain(s) ==
  /\ spc[s] = "drain"
  /\ gate' = "drained"
  /\ Goto(s, "shards")
  /\ UNCHANGED <<running, stopping, ready, avail, pushed, mpc, toStop, shardVars>>

StopShardsBegin(s) ==
  /\ spc[s] = "shards"
  /\ toStop' = [toStop EXCEPT ![s] = 1..pushed]
  /\ Goto(s, "stopShard")
  /\ UNCHANGED <<running, stopping, ready, avail, pushed, mpc, gate, shardVars>>

(* Shard::stop(): nothing without an event loop; otherwise running_ =      *)
(* false and a write to the wakeup descriptor.                             *)
Stopped(i) == IF loop[i] = "none" THEN "none" ELSE "off"

StopShard(s) ==
  /\ spc[s] = "stopShard"
  /\ \E i \in toStop[s] :
       /\ \A j \in toStop[s] : i <= j
       /\ loop' = [loop EXCEPT ![i] = Stopped(i)]
       /\ toStop' = [toStop EXCEPT ![s] = @ \ {i}]
  /\ UNCHANGED <<running, stopping, ready, avail, pushed, mpc, spc, gate, shpc>>

StopReturn(s) ==
  /\ spc[s] = "stopShard" /\ toStop[s] = {}
  /\ running' = FALSE
  /\ Goto(s, "done")
  /\ UNCHANGED <<stopping, ready, avail, pushed, mpc, toStop, gate, shardVars>>

-----------------------------------------------------------------------------
(* Shard::run()                                                            *)

mainVars == <<running, stopping, ready, avail, pushed, mpc>>

ShardCreateLoop(i) ==
  /\ shpc[i] = "starting"
  /\ shpc' = [shpc EXCEPT ![i] = "binding"]
  /\ loop' = [loop EXCEPT ![i] = "off"]
  /\ UNCHANGED <<mainVars, stopVars>>

(* The UDP socket or the TCP listener cannot be created.                   *)
ShardBindFails(i) ==
  /\ shpc[i] = "binding"
  /\ shpc' = [shpc EXCEPT ![i] = "exited"]
  /\ UNCHANGED <<mainVars, stopVars, loop>>

ShardReady(i) ==
  /\ shpc[i] = "binding"
  /\ shpc' = [shpc EXCEPT ![i] = "ready"]
  /\ UNCHANGED <<mainVars, stopVars, loop>>

(* EventLoop::run() begins with running_ = true.                           *)
ShardEnterLoop(i) ==
  /\ shpc[i] = "ready"
  /\ shpc' = [shpc EXCEPT ![i] = "running"]
  /\ loop' = [loop EXCEPT ![i] = "on"]
  /\ UNCHANGED <<mainVars, stopVars>>

(* run_once() returns and the loop finds running_ false.                   *)
ShardExit(i) ==
  /\ shpc[i] = "running" /\ loop[i] = "off"
  /\ shpc' = [shpc EXCEPT ![i] = "exited"]
  /\ UNCHANGED <<mainVars, stopVars, loop>>

-----------------------------------------------------------------------------
RunStep ==
  \/ RunClaim \/ RunReset \/ RunStartShard \/ RunWait \/ RunSetReady
  \/ RunAnnounce \/ RunJoin \/ RunFinish \/ RunClear \/ RunReturn

StopStep(s) ==
  \/ StopClaim(s) \/ StopClearReady(s) \/ StopRefuse(s) \/ StopDrain(s)
  \/ StopShardsBegin(s) \/ StopShard(s) \/ StopReturn(s)

ShardStep(i) == ShardCreateLoop(i) \/ ShardReady(i) \/ ShardEnterLoop(i) \/ ShardExit(i)

Next ==
  \/ RunStep
  \/ \E s \in Stoppers : StopCheck(s) \/ StopStep(s)
  \/ \E i \in Shards : ShardStep(i) \/ ShardBindFails(i)

(* Threads that can run are scheduled.  ShardExit is fair because stop()   *)
(* writes to the wakeup descriptor that the loop polls (and because the    *)
(* cleanup timer ends every wait after five seconds).  No stop() has to    *)
(* be called and no bind has to fail.                                      *)
Fairness ==
  /\ WF_vars(RunStep)
  /\ \A s \in Stoppers : WF_vars(StopStep(s))
  /\ \A i \in Shards : WF_vars(ShardStep(i))

Spec == Init /\ [][Next]_vars /\ Fairness

-----------------------------------------------------------------------------
(* is_ready() is "true only after every configured shard has bound its     *)
(* listeners", whenever stop() is called.                                  *)
ReadyMeansBound ==
  ready => /\ pushed = NumShards
           /\ \A i \in Shards : shpc[i] \in {"ready", "running", "exited"}

(* After run() has returned no shard thread is alive, is_ready() is false, *)
(* and no stop() that was in progress can bring the server up again.       *)
ReturnedIsDown ==
  mpc = "returned" =>
    ~ready /\ ~running /\ \A i \in Shards : shpc[i] = "exited" /\ loop[i] # "on"

(* A stop() that is called once the server is up (or once a shard has      *)
(* failed to bind and the others run) makes run() return.                  *)
StopEndsRun ==
  (\E s \in Stoppers : spc[s] \notin {"idle", "done"}) ~> (mpc = "returned")

(* "Run the event loop (blocks until stop() is called)": a shard that      *)
(* stop() has gone through leaves its loop.                                *)
StopEndsLoops ==
  \A i \in Shards :
    (gate = "drained" /\ \A s \in Stoppers : spc[s] = "done") ~> (shpc[i] = "exited")
=============================================================================
