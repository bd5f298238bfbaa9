------------------------- MODULE ProxyWorkerProofs -------------------------
(***************************************************************************)
(* Proofs about ProxyWorker for any number of unexpected exits and failed   *)
(* launches: the inductive invariant IInv, the invariants that follow from  *)
(* it, and that every step is a step of WorkerLife or leaves it unchanged.  *)
(***************************************************************************)
EXTENDS ProxyWorker, TLAPS

-----------------------------------------------------------------------------
(* The inductive invariant.                                                 *)

\* The channel w.terminated is closed exactly once per launch: as long as
\* runWorker runs, the channel it is going to close is the open one of its own
\* launch, and w.cancel is set.
CloseOnce == proc # "idle" => terminated = "open" /\ wctx # "nil"

\* Why these hold at every step: what is left of a launch whose process is
\* gone, what run() knows before the first launch, and why terminate() runs.
DeadIsClean == proc \in {"idle", "removed"} => workdir \notin dirs /\ info = "none"

Unlaunched ==
  /\ wctx = "nil" <=> workdir = 0
  /\ wctx = "nil" => terminated = "nil" /\ Quiet
  /\ wctx = "nil" /\ gen > 0 => fails > 0
  /\ wctx = "nil" /\ pc \in {"sleep", "done"} => gen = 0

TerminateWhy ==
  /\ pc \in {"watch", "terminate", "join"} => gen > 0
  /\ pc \in {"terminate", "join"} => (IF last THEN ctxDone ELSE proc = "idle")
  /\ pc = "terminate" /\ wctx = "nil" => last
  /\ pc = "done" => ctxDone
  /\ pc = "join" => wctx # "nil"
  /\ pc = "panic" => wctx = "nil" /\ gen > 0

\* The inductive invariant of the proofs.
IInv ==
  /\ TypeOK /\ NothingLeftBehind /\ CloseOnce /\ MetricsSocketOwned
  /\ RestartsCounted /\ PanicCauses
  /\ DeadIsClean /\ Unlaunched /\ TerminateWhy

-----------------------------------------------------------------------------

\* The invariant holds before run() has done anything.
LEMMA InitInv == Init => IInv
<1> SUFFICES ASSUME Init PROVE IInv
    OBVIOUS
<1> USE DEF Init
<1>1. TypeOK
  <2>1. deaths \in 0..MaxDeaths /\ fails \in 0..MaxFails
      BY ConstantsOK DEF ConstantsOK
  <2>2. dirs \subseteq 1..gen
      OBVIOUS
  <2>3. gen \in Nat /\ workdir \in 0..gen /\ cfgdir \in 0..gen /\ restarts \in Nat /\ carried \in Nat
      BY ConstantsOK DEF ConstantsOK
  <2>4. last \in BOOLEAN /\ ctxDone \in BOOLEAN
      OBVIOUS
  <2>5. /\ pc \in {"sleep", "watch", "terminate", "join", "done", "panic"}
        /\ wctx \in {"nil", "live", "cancelled"}
        /\ terminated \in {"nil", "open", "closed"}
      OBVIOUS
  <2>6. /\ proc \in {"idle", "exec", "running", "exited", "removed", "panic"}
        /\ obs \in {"idle", "sleep", "lock"}
        /\ scan \in {"idle", "scan", "panic"}
        /\ info \in {"none", "partial", "full"}
      OBVIOUS
  <2> HIDE DEF Init
  <2> QED
      BY <2>1, <2>2, <2>3, <2>4, <2>5, <2>6, Zenon DEF TypeOK
<1>2. NothingLeftBehind /\ CloseOnce /\ MetricsSocketOwned /\ DeadIsClean
    BY DEF NothingLeftBehind, Quiet, CloseOnce, MetricsSocketOwned, DeadIsClean
<1>3. PanicCauses /\ Unlaunched /\ TerminateWhy
    BY DEF PanicCauses, Unlaunched, TerminateWhy, Quiet
<1>4. RestartsCounted
    BY <1>1 DEF RestartsCounted, TypeOK
<1> QED
    BY <1>1, <1>2, <1>3, <1>4 DEF IInv

\* No step of run(), of the launch's goroutines or of the environment breaks it.
LEMMA NextInv == IInv /\ [Next]_vars => IInv'
<1> SUFFICES ASSUME IInv, [Next]_vars PROVE IInv'
    OBVIOUS
<1> USE ConstantsOK
    DEF ConstantsOK, IInv, TypeOK, NothingLeftBehind, Quiet, CloseOnce,
        MetricsSocketOwned, RestartsCounted, PanicCauses, DeadIsClean,
        Unlaunched, TerminateWhy, runVars, countVars, chanVars, goVars, dirVars, envVars
<1>1. CASE Cancel
    BY <1>1 DEF Cancel
<1>2. CASE RestartOK
  <2> USE <1>2 DEF RestartOK
  <2>1. gen + 1 \in Nat /\ 1..gen \subseteq 1..(gen + 1) /\ gen + 1 \in 1..(gen + 1)
      OBVIOUS
  <2>2. TypeOK'
      BY <2>1
  <2>3. NothingLeftBehind' /\ CloseOnce' /\ MetricsSocketOwned' /\ DeadIsClean'
      OBVIOUS
  <2>4. RestartsCounted' /\ PanicCauses' /\ Unlaunched' /\ TerminateWhy'
      OBVIOUS
  <2> QED
      BY <2>2, <2>3, <2>4
<1>3. CASE RestartFail
  <2> USE <1>3 DEF RestartFail
  <2>1. /\ gen + 1 \in Nat /\ 1..gen \subseteq 1..(gen + 1) /\ gen + 1 \in 1..(gen + 1)
        /\ 0..gen \subseteq 0..(gen + 1) /\ gen + 1 \in 0..(gen + 1)
      OBVIOUS
  <2>2. TypeOK'
    <3>1. dirs' \subseteq 1..(gen + 1) /\ cfgdir' \in 0..(gen + 1)
        BY <2>1
    <3>2. fails' \in 0..MaxFails
        OBVIOUS
    <3> QED
        BY <2>1, <3>1, <3>2
  <2>3. NothingLeftBehind' /\ CloseOnce' /\ MetricsSocketOwned' /\ DeadIsClean'
      BY <2>1
  <2>4. RestartsCounted' /\ PanicCauses' /\ Unlaunched' /\ TerminateWhy'
      BY <2>1
  <2> QED
      BY <2>2, <2>3, <2>4
<1>4. CASE SleepCtxDone
    BY <1>4 DEF SleepCtxDone
<1>5. CASE WatchCtxDone
    BY <1>5 DEF WatchCtxDone
<1>6. CASE WatchTerminated
  <2> USE <1>6 DEF WatchTerminated
  <2>1. wctx # "nil" /\ gen > 0 /\ restarts' = carried + gen
      OBVIOUS
  <2>2. TypeOK'
    <3>1. restarts' \in Nat
        BY <2>1
    <3>2. pc' \in {"sleep", "watch", "terminate", "join", "done", "panic"} /\ last' \in BOOLEAN
        OBVIOUS
    <3> QED
        BY <3>1, <3>2
  <2>3. NothingLeftBehind' /\ CloseOnce' /\ MetricsSocketOwned' /\ DeadIsClean'
      BY <2>1
  <2>4. RestartsCounted' /\ PanicCauses' /\ Unlaunched' /\ TerminateWhy'
      BY <2>1
  <2> QED
      BY <2>2, <2>3, <2>4
<1>7. CASE TerminateLock
    BY <1>7 DEF TerminateLock
<1>8. CASE Join
    BY <1>8 DEF Join
<1>9. CASE ExecStart
    BY <1>9 DEF ExecStart
<1>10. CASE ExecCancelled
    BY <1>10 DEF ExecCancelled
<1>11. CASE Die
    BY <1>11 DEF Die
<1>12. CASE ProcessStops
    BY <1>12 DEF ProcessStops
<1>13. CASE WriteInfo
    BY <1>13 DEF WriteInfo
<1>14. CASE RemoveWorkdir
    BY <1>14 DEF RemoveWorkdir
<1>15. CASE CloseTerminated
    BY <1>15 DEF CloseTerminated
<1>16. CASE LogsEnd
    BY <1>16 DEF LogsEnd
<1>17. CASE ObserverWake
    BY <1>17 DEF ObserverWake
<1>18. CASE ObserverQuit
    BY <1>18 DEF ObserverQuit
<1>19. CASE ObserveFlow
    BY <1>19 DEF ObserveFlow
<1>20. CASE UNCHANGED vars
    BY <1>20 DEF vars
<1>21. CASE LogsPanic
    BY <1>21 DEF LogsPanic
<1> QED
    BY <1>1, <1>2, <1>3, <1>4, <1>5, <1>6, <1>7, <1>8, <1>9, <1>10, <1>11, <1>12,
       <1>13, <1>14, <1>15, <1>16, <1>17, <1>18, <1>19, <1>20, <1>21
       DEF Next, Run, RunWorker, Observer, Process

THEOREM InvariantHolds == Spec => []IInv
BY InitInv, NextInv, PTL DEF Spec

\* Every variable keeps its type.
THEOREM TypeCorrect == Spec => []TypeOK
<1>1. IInv => TypeOK
    BY DEF IInv
<1> QED
    BY <1>1, InvariantHolds, PTL

\* Launches never overlap and none outlives run(): whatever the order of exits,
\* failures and cancellation, run() goes on or returns only after the process,
\* its two companion goroutines and its work directory are gone.
THEOREM NoLaunchOutlivesRun == Spec => []NothingLeftBehind
<1>1. IInv => NothingLeftBehind
    BY DEF IInv
<1> QED
    BY <1>1, InvariantHolds, PTL

\* The socket that GetMetricsSocket names is that of the process that is running,
\* in a directory that stays as long as it does, across any number of launches.
THEOREM SocketIsRunning == Spec => []MetricsSocketOwned
<1>1. IInv => MetricsSocketOwned
    BY DEF IInv
<1> QED
    BY <1>1, InvariantHolds, PTL

\* The channel that tells run() of an exit is never closed twice, and the only
\* panics of a supervisor are that of a cancel before the first successful launch
\* and that of the log reader at a line without a prefix.
THEOREM PanicsHaveTwoCauses == Spec => [](CloseOnce /\ PanicCauses)
<1>1. IInv => CloseOnce /\ PanicCauses
    BY DEF IInv
<1> QED
    BY <1>1, InvariantHolds, PTL

\* The restart metric counts the attempts exactly, on top of the count that the
\* worker was made with.
THEOREM RestartMetricExact == Spec => []RestartsCounted
<1>1. IInv => RestartsCounted
    BY DEF IInv
<1> QED
    BY <1>1, InvariantHolds, PTL

-----------------------------------------------------------------------------
(* The worker implements WorkerLife.                                        *)

LEMMA InitLife == Init => Life!LifeInit
BY DEF Init, Up, Hung, Stalled, Life!LifeInit

\* Each step of the supervisor maps to one step of WorkerLife or to none.
LEMMA NextLife == IInv /\ [Next]_vars => [Life!LifeNext]_(Life!lifeVars)
<1> SUFFICES ASSUME IInv, [Next]_vars PROVE [Life!LifeNext]_(Life!lifeVars)
    OBVIOUS
<1> USE DEF Life!lifeVars, runVars, chanVars, goVars, dirVars, countVars, envVars, Up, Hung,
            Stalled
<1>0. /\ wctx = "nil" => proc = "idle" /\ obs = "idle" /\ scan = "idle" /\ info = "none"
      /\ gen \in Nat /\ workdir \in 0..gen
      /\ pc \in {"sleep", "done"} => proc = "idle" /\ obs = "idle" /\ scan = "idle"
      /\ wctx = "nil" /\ pc \in {"sleep", "done"} => gen = 0
      /\ pc \in {"watch", "terminate", "join"} => gen > 0
      /\ pc \in {"terminate", "join"} => ctxDone \/ proc = "idle"
      /\ pc = "join" => wctx # "nil"
      /\ proc # "idle" => terminated = "open"
      BY DEF IInv, TypeOK, NothingLeftBehind, Quiet, CloseOnce, DeadIsClean, Unlaunched,
             TerminateWhy
<1>1. CASE Up /\ RestartOK
  <2>1. info = "none" /\ gen + 1 > workdir
      BY <1>0, <1>1 DEF RestartOK, IInv, NothingLeftBehind
  <2>2. Life!Prepare
      BY <1>0, <1>1, <2>1 DEF RestartOK, Life!Prepare
  <2> QED
      BY <2>2 DEF Life!LifeNext
<1>2. CASE Up /\ RestartFail
  <2>1. Life!Stall \/ UNCHANGED Life!lifeVars
      BY <1>0, <1>2 DEF RestartFail, Life!Stall
  <2> QED
      BY <2>1 DEF Life!LifeNext
<1>3. CASE Up /\ ExecStart
    BY <1>0, <1>3 DEF ExecStart, Life!LifeNext, Life!Launch
<1>4. CASE Up /\ ExecCancelled
    BY <1>0, <1>4 DEF ExecCancelled, Life!LifeNext, Life!Fail
<1>5. CASE Die
    BY <1>0, <1>5 DEF Die, Life!LifeNext, Life!Fail, Life!Die
<1>6. CASE ProcessStops
    BY <1>0, <1>6 DEF ProcessStops, Life!LifeNext, Life!Die
<1>7. CASE WriteInfo
    BY <1>0, <1>7 DEF WriteInfo, Life!LifeNext, Life!Publish
<1>8. CASE Up /\ RemoveWorkdir
    BY <1>0, <1>8 DEF RemoveWorkdir, Life!LifeNext, Life!Retract
<1>9. CASE Up /\ (SleepCtxDone \/ Join)
  <2>1. /\ proc = "idle" /\ obs = "idle" /\ scan = "idle"
        /\ pc' = "done" => ctxDone
      BY <1>0, <1>9 DEF SleepCtxDone, Join, Quiet, IInv, TerminateWhy
  <2>2. Life!Halt \/ UNCHANGED Life!lifeVars
      BY <1>0, <1>9, <2>1 DEF SleepCtxDone, Join, Life!Halt
  <2> QED
      BY <2>2 DEF Life!LifeNext
<1>10. CASE Up /\ TerminateLock
  <2>1. CASE wctx = "nil"
    <3>1. ctxDone
        BY <1>10, <2>1 DEF TerminateLock, IInv, TerminateWhy
    <3>2. Life!Panic
        BY <1>0, <1>10, <2>1, <3>1 DEF TerminateLock, Life!Panic
    <3> QED
        BY <3>2 DEF Life!LifeNext
  <2>2. CASE wctx # "nil"
    <3>1. Life!Hang \/ UNCHANGED Life!lifeVars
        BY <1>0, <1>10, <2>2 DEF TerminateLock, Life!Hang
    <3> QED
        BY <3>1 DEF Life!LifeNext
  <2> QED
      BY <2>1, <2>2
<1>11. CASE Up /\ CloseTerminated
    BY <1>0, <1>11 DEF CloseTerminated
<1>12. CASE Up /\ Cancel
    BY <1>0, <1>12 DEF Cancel, Life!LifeNext, Life!Tell
<1>13. CASE Up /\ (WatchCtxDone \/ WatchTerminated \/ LogsEnd \/ ObserverQuit \/ ObserveFlow)
    BY <1>0, <1>13 DEF WatchCtxDone, WatchTerminated, LogsEnd, ObserverQuit, ObserveFlow
<1>14. CASE Up /\ LogsPanic
  <2>1. Life!Panic
      BY <1>0, <1>14 DEF LogsPanic, Life!Panic
  <2> QED
      BY <2>1 DEF Life!LifeNext
<1>15. CASE Up /\ ObserverWake
  <2>1. Life!Hang \/ UNCHANGED Life!lifeVars
      BY <1>0, <1>15 DEF ObserverWake, Life!Hang
  <2> QED
      BY <2>1 DEF Life!LifeNext
<1>16. CASE UNCHANGED vars
    BY <1>16 DEF vars
<1> QED
    BY <1>1, <1>2, <1>3, <1>4, <1>5, <1>6, <1>7, <1>8, <1>9, <1>10, <1>11, <1>12, <1>13,
       <1>14, <1>15, <1>16
       DEF Next, Run, RunWorker, Observer, Process

\* Its owner may rely on WorkerLife: incarnations one at a time, target info
\* only of the current one and unchanged once complete, nothing after run() has
\* returned, and no other way of giving up than those WorkerLife names.
THEOREM RefinesLife == Spec => ImplementsLife
BY InitLife, NextLife, InvariantHolds, PTL DEF Spec, ImplementsLife, Life!LifeSpec
=============================================================================
