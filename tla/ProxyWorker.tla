---------------------------- MODULE ProxyWorker ----------------------------
(***************************************************************************)
(* go/pkg/worker/exec.go: the supervisor of one mxl-fabrics-proxy-worker    *)
(* process.  run() launches the process with restart(), waits until either  *)
(* its context is done or the process has ended, calls terminate() and      *)
(* starts over.  Each launch owns three goroutines counted by w.wg:         *)
(* runWorker (the process, variable proc), runFlowObservation (obs) and     *)
(* translateLogs (scan).                                                    *)
(*                                                                          *)
(* The mutex w.mu: restart, observeFlow and the getters hold it for one     *)
(* atomic step each; terminate() keeps it while it waits for w.wg, so it is *)
(* held across steps exactly when pc = "join".                              *)
(*                                                                          *)
(* Nobody recovers from a panic in one of these goroutines: it ends the     *)
(* whole proxy, and leaves the worker process to itself.                    *)
(***************************************************************************)
EXTENDS Integers

CONSTANTS IsTarget,   \* a receiving worker, which writes target-info.json
          Carried,    \* restart counts that NewWorker may be given
          Strays,     \* the output may have a line without a [..] prefix
          MaxDeaths,  \* bound: processes that end without being told to
          MaxFails    \* bound: calls of restart() that return an error

ASSUME ConstantsOK ==
  /\ IsTarget \in BOOLEAN /\ Strays \in BOOLEAN /\ Carried \subseteq Nat
  /\ MaxDeaths \in Nat /\ MaxFails \in Nat

VARIABLES pc,         \* where run() is; here and below "panic": it has panicked
          last,       \* run() returns after this terminate()
          ctxDone,    \* the context given to Start is cancelled
          wctx,       \* w.ctx and w.cancel: nil before the first launch
          terminated, \* the channel w.terminated
          proc,       \* goroutine runWorker and the process it waits for
          obs,        \* goroutine runFlowObservation
          scan,       \* goroutine translateLogs
          gen,        \* number of calls of restart(); each makes directory gen
          workdir,    \* w.workdir: 0 is the empty string
          cfgdir,     \* the directory that w.config.MetricsSocket is in
          dirs,       \* the work directories that exist
          info,       \* target-info.json in workdir
          restarts,   \* w.restarts
          carried,    \* history: what NewWorker was given for it
          deaths, fails

runVars  == <<pc, last, ctxDone>>
chanVars == <<wctx, terminated>>
goVars   == <<proc, obs, scan>>
dirVars  == <<gen, workdir, cfgdir, dirs>>
envVars  == <<deaths, fails>>
countVars == <<restarts, carried>>
vars     == <<runVars, chanVars, goVars, dirVars, info, countVars, envVars>>

\* The proxy runs.
Up == pc # "panic" /\ proc # "panic" /\ scan # "panic"

\* The three goroutines counted by w.wg are gone.
Quiet == proc = "idle" /\ obs = "idle" /\ scan = "idle"

Init ==
  /\ pc = "sleep" /\ last = FALSE /\ ctxDone = FALSE
  /\ wctx = "nil" /\ terminated = "nil"
  /\ proc = "idle" /\ obs = "idle" /\ scan = "idle"
  /\ gen = 0 /\ workdir = 0 /\ cfgdir = 0 /\ dirs = {}
  /\ info = "none" /\ carried \in Carried /\ restarts = carried
  /\ deaths = 0 /\ fails = 0

\* The owner cancels the context it passed to Start.
Cancel ==
  /\ ~ctxDone
  /\ ctxDone' = TRUE
  /\ UNCHANGED <<pc, last, chanVars, goVars, dirVars, info, countVars, envVars>>

-----------------------------------------------------------------------------
(* The goroutine of run().                                                  *)

\* Mutant: the socket of the first launch is kept in w.config.
RestartKeepsSocket ==
  /\ pc = "sleep"
  /\ pc' = "watch"
  /\ gen' = gen + 1 /\ workdir' = gen + 1
  /\ cfgdir' = IF cfgdir = 0 THEN gen + 1 ELSE cfgdir
  /\ dirs' = dirs \cup {gen + 1}
  /\ info' = "none"
  /\ wctx' = "live" /\ terminated' = "open"
  /\ proc' = "exec" /\ obs' = "sleep" /\ scan' = "scan"
  /\ UNCHANGED <<last, ctxDone, countVars, envVars>>

\* The timer fires and restart() succeeds.
RestartOK ==
  /\ pc = "sleep"
  /\ pc' = "watch"
  /\ gen' = gen + 1 /\ workdir' = gen + 1 /\ cfgdir' = gen + 1
  /\ dirs' = dirs \cup {gen + 1}
  /\ info' = "none"
  /\ wctx' = "live" /\ terminated' = "open"
  /\ proc' = "exec" /\ obs' = "sleep" /\ scan' = "scan"
  /\ UNCHANGED <<last, ctxDone, countVars, envVars>>

\* Mutant: restart() has made the new channel before it fails.
RestartFailNewChannel ==
  /\ pc = "sleep" /\ fails < MaxFails
  /\ fails' = fails + 1
  /\ pc' = "watch"
  /\ gen' = gen + 1
  /\ terminated' = "open"
  /\ UNCHANGED <<cfgdir, dirs, last, ctxDone, wctx, goVars, workdir, info, countVars, deaths>>

\* restart() returns early: w.ctx, w.workdir and w.terminated keep the values
\* of the previous launch.  A failure after MkdirTemp has already changed
\* w.config and leaves the new directory behind.
RestartFail ==
  /\ pc = "sleep" /\ fails < MaxFails
  /\ fails' = fails + 1
  /\ pc' = "watch"
  /\ gen' = gen + 1
  /\ \/ UNCHANGED <<cfgdir, dirs>>
     \/ cfgdir' = gen + 1 /\ dirs' = dirs \cup {gen + 1}
  /\ UNCHANGED <<last, ctxDone, chanVars, goVars, workdir, info, countVars, deaths>>

\* ctx.Done in the select at the top of the loop: run() returns.
SleepCtxDone ==
  /\ pc = "sleep" /\ ctxDone
  /\ pc' = "done"
  /\ UNCHANGED <<last, ctxDone, chanVars, goVars, dirVars, info, countVars, envVars>>

\* Mutant: a launch that ends because the owner has cancelled is counted as well.
WatchCtxDoneCounts ==
  /\ pc = "watch" /\ ctxDone
  /\ restarts' = restarts + 1
  /\ pc' = "terminate" /\ last' = TRUE
  /\ UNCHANGED <<ctxDone, chanVars, goVars, dirVars, info, carried, envVars>>

WatchCtxDone ==
  /\ pc = "watch" /\ ctxDone
  /\ pc' = "terminate" /\ last' = TRUE
  /\ UNCHANGED <<ctxDone, chanVars, goVars, dirVars, info, countVars, envVars>>

WatchTerminated ==
  /\ pc = "watch" /\ terminated = "closed"
  /\ restarts' = restarts + 1
  /\ pc' = "terminate" /\ last' = FALSE
  /\ UNCHANGED <<ctxDone, chanVars, goVars, dirVars, info, carried, envVars>>

\* Mutant: terminate() waits without having cancelled.
TerminateNoCancel ==
  /\ pc = "terminate"
  /\ pc' = "join"
  /\ UNCHANGED <<last, ctxDone, chanVars, goVars, dirVars, info, countVars, envVars>>

\* terminate() locks w.mu and calls w.cancel, a nil function before the first
\* successful launch.
TerminateLock ==
  /\ pc = "terminate"
  /\ IF wctx = "nil" THEN pc' = "panic" /\ UNCHANGED wctx
                     ELSE pc' = "join" /\ wctx' = "cancelled"
  /\ UNCHANGED <<last, ctxDone, terminated, goVars, dirVars, info, countVars, envVars>>

\* Mutant: terminate() returns without waiting.
JoinNoWait ==
  /\ pc = "join"
  /\ pc' = IF last THEN "done" ELSE "sleep"
  /\ UNCHANGED <<last, ctxDone, chanVars, goVars, dirVars, info, countVars, envVars>>

\* w.wg.Wait returns and w.mu is released.
Join ==
  /\ pc = "join" /\ Quiet
  /\ pc' = IF last THEN "done" ELSE "sleep"
  /\ UNCHANGED <<last, ctxDone, chanVars, goVars, dirVars, info, countVars, envVars>>

-----------------------------------------------------------------------------
(* Goroutine runWorker and the worker process.                              *)

\* cmd.Start launches the process, unless its context is already done.
ExecStart ==
  /\ proc = "exec" /\ wctx = "live"
  /\ proc' = "running"
  /\ UNCHANGED <<runVars, chanVars, obs, scan, dirVars, info, countVars, envVars>>

ExecCancelled ==
  /\ proc = "exec" /\ wctx = "cancelled"
  /\ proc' = "exited"
  /\ UNCHANGED <<runVars, chanVars, obs, scan, dirVars, info, countVars, envVars>>

\* The executable cannot be started, or the process ends by itself.
Die ==
  /\ proc = "running" \/ (proc = "exec" /\ Up)
  /\ deaths < MaxDeaths
  /\ deaths' = deaths + 1
  /\ proc' = "exited"
  /\ UNCHANGED <<runVars, chanVars, obs, scan, dirVars, info, countVars, fails>>

\* SIGTERM, or the kill after cmd.WaitDelay, has ended the process.
ProcessStops ==
  /\ proc = "running" /\ wctx = "cancelled"
  /\ proc' = "exited"
  /\ UNCHANGED <<runVars, chanVars, obs, scan, dirVars, info, countVars, envVars>>

\* The receiving process creates target-info.json, then its contents arrive.
WriteInfo ==
  /\ proc = "running" /\ IsTarget
  /\ \/ info = "none" /\ info' = "partial"
     \/ info = "partial" /\ info' = "full"
  /\ UNCHANGED <<runVars, chanVars, goVars, dirVars, countVars, envVars>>

\* Mutant: the work directory is left to the next launch.
RemoveWorkdirSkipped ==
  /\ proc = "exited"
  /\ proc' = "removed"
  /\ UNCHANGED <<runVars, chanVars, obs, scan, dirVars, info, countVars, envVars>>

\* Deferred: os.RemoveAll(w.workdir).
RemoveWorkdir ==
  /\ proc = "exited"
  /\ proc' = "removed"
  /\ dirs' = dirs \ {workdir}
  /\ info' = "none"
  /\ UNCHANGED <<runVars, chanVars, obs, scan, gen, workdir, cfgdir, countVars, envVars>>

\* Deferred: close(w.terminated), then w.wg.Done.  Closing twice panics.
CloseTerminated ==
  /\ proc = "removed"
  /\ IF terminated = "open"
       THEN terminated' = "closed" /\ proc' = "idle"
       ELSE UNCHANGED terminated /\ proc' = "panic"
  /\ UNCHANGED <<runVars, wctx, obs, scan, dirVars, info, countVars, envVars>>

-----------------------------------------------------------------------------
(* Goroutines translateLogs and runFlowObservation.                         *)

\* The pipe is closed when the command is over; an overlong line ends the
\* scanner earlier.
LogsEnd ==
  /\ scan = "scan" /\ proc # "exec"
  /\ scan' = "idle"
  /\ UNCHANGED <<runVars, chanVars, proc, obs, dirVars, info, countVars, envVars>>

\* parseProxyWorkerLogEntry takes the first prefix of a line that has none.
LogsPanic ==
  /\ Strays /\ scan = "scan" /\ proc # "exec"
  /\ scan' = "panic"
  /\ UNCHANGED <<runVars, chanVars, proc, obs, dirVars, info, countVars, envVars>>

\* time.After(3s) wins the select: next is w.mu.Lock in observeFlow.
ObserverWake ==
  /\ obs = "sleep"
  /\ obs' = "lock"
  /\ UNCHANGED <<runVars, chanVars, proc, scan, dirVars, info, countVars, envVars>>

ObserverQuit ==
  /\ obs = "sleep" /\ wctx = "cancelled"
  /\ obs' = "idle"
  /\ UNCHANGED <<runVars, chanVars, proc, scan, dirVars, info, countVars, envVars>>

\* observeFlow gets w.mu, which terminate() must not be holding.
ObserveFlow ==
  /\ obs = "lock" /\ pc # "join"
  /\ obs' = "sleep"
  /\ UNCHANGED <<runVars, chanVars, proc, scan, dirVars, info, countVars, envVars>>

-----------------------------------------------------------------------------
Run == RestartOK \/ RestartFail \/ SleepCtxDone \/ WatchCtxDone \/ WatchTerminated
         \/ TerminateLock \/ Join

RunWorker == ExecStart \/ ExecCancelled \/ RemoveWorkdir \/ CloseTerminated

Observer == ObserverWake \/ ObserverQuit \/ ObserveFlow

\* The worker process goes on when the proxy is gone.
Process == Die \/ ProcessStops \/ WriteInfo

Next ==
  \/ Up /\ (Cancel \/ Run \/ RunWorker \/ LogsEnd \/ LogsPanic \/ Observer)
  \/ Process

Spec == Init /\ [][Next]_vars

\* Go schedules every runnable goroutine, timers fire, a signalled process
\* ends (it is killed after WaitDelay) and its pipe is then closed.  Nothing
\* makes the process die, the owner cancel or the process write its info.
Fairness ==
  /\ WF_vars(Up /\ Run)
  /\ WF_vars(Up /\ RunWorker) /\ WF_vars(ProcessStops)
  /\ WF_vars(Up /\ LogsEnd /\ proc # "running")
  /\ WF_vars(Up /\ Observer)

FairSpec == Spec /\ Fairness

-----------------------------------------------------------------------------
(* Properties.                                                              *)

TypeOK ==
  /\ pc \in {"sleep", "watch", "terminate", "join", "done", "panic"}
  /\ last \in BOOLEAN /\ ctxDone \in BOOLEAN
  /\ wctx \in {"nil", "live", "cancelled"}
  /\ terminated \in {"nil", "open", "closed"}
  /\ proc \in {"idle", "exec", "running", "exited", "removed", "panic"}
  /\ obs \in {"idle", "sleep", "lock"}
  /\ scan \in {"idle", "scan", "panic"}
  /\ gen \in Nat /\ workdir \in 0..gen /\ cfgdir \in 0..gen
  /\ dirs \subseteq 1..gen
  /\ info \in {"none", "partial", "full"}
  /\ restarts \in Nat /\ carried \in Nat
  /\ deaths \in 0..MaxDeaths /\ fails \in 0..MaxFails

\* The launches of one worker never overlap and none outlives run(): when
\* run() is about to call restart(), or has returned and released its owner's
\* WaitGroup, no goroutine or process of an earlier launch is left and its
\* work directory is gone.
NothingLeftBehind ==
  pc \in {"sleep", "done"} => Quiet /\ workdir \notin dirs /\ info = "none"

\* GetMetricsSocket names a socket in the work directory of the process that
\* is running, and that directory is not removed under it.
MetricsSocketOwned ==
  proc \in {"exec", "running"} => cfgdir = workdir /\ workdir \in dirs

\* mxl_worker_restarts counts, on top of what an earlier worker of the same owner
\* had counted, every call of restart() but the first and no other: it lags by one
\* only while the latest attempt is being watched, or when run() is leaving because
\* its context is done.
RestartsCounted ==
  /\ pc = "sleep" => restarts = carried + gen
  /\ pc = "watch" => restarts = carried + gen - 1
  /\ pc \in {"terminate", "join"} => restarts = carried + (IF last THEN gen - 1 ELSE gen)
  /\ pc = "done" => restarts \in {carried + gen - 1, carried + gen}

\* Two panics of a supervisor take the whole proxy down, that of the log reader at
\* a line without a prefix (LogsPanic) and that of run() when it leaves before the
\* first launch ever succeeded.  No other is possible: run() does not call a nil
\* w.cancel later, and w.terminated is not closed twice.
PanicCauses ==
  /\ proc # "panic"
  /\ scan = "panic" => Strays
  /\ pc = "panic" => workdir = 0 /\ ctxDone /\ fails > 0

\* The first launch failed: run() waits for a nil channel.
Stalled == wctx = "nil" /\ gen > 0

\* terminate() waits for the observer, and the observer for the mutex.
Hung == pc = "join" /\ obs = "lock"

\* The abstract specification this module implements.
Life == INSTANCE WorkerLife WITH
          inc    <- workdir,
          phase  <- CASE wctx = "nil"     -> IF Stalled THEN "stalled" ELSE "new"
                      [] proc = "exec"    -> "ready"
                      [] proc = "running" -> "up"
                      [] proc = "exited"  -> "down"
                      [] OTHER            -> "idle",
          told   <- ctxDone,
          sup    <- IF ~Up THEN "panic"
                    ELSE CASE pc = "done" -> "halted"
                           [] Hung        -> "hung"
                           [] OTHER       -> "run"

\* Towards its owner the worker behaves as WorkerLife promises.
ImplementsLife == Life!LifeSpec

\* Cancelling the context ends the process for good, even when run() itself
\* gets stuck in terminate(): the signal is sent before the wait.  Only a panic
\* may leave the process to itself.
StopKills == ctxDone ~> (~Up \/ [](proc \notin {"exec", "running"}))

\* As long as the owner has not cancelled, the process runs again and again,
\* whatever ended it: but for the first launch that fails, the wait of
\* terminate() that does not end, and a panic.
Relaunched == []<>(proc = "running" \/ ctxDone \/ Stalled \/ Hung \/ ~Up)

-----------------------------------------------------------------------------
(* What README.md of the repository says and the code does not keep: TLC    *)
(* finds each violated.                                                     *)

\* A launch that is over is followed by another attempt, unless the owner has
\* cancelled.
WorkerRetries == (proc = "idle" /\ pc = "watch") ~> (proc # "idle" \/ ctxDone)

\* No worker ever takes down the whole proxy process.
NoPanic == Up
=============================================================================
