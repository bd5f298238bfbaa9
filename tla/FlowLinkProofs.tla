--------------------------- MODULE FlowLinkProofs ---------------------------
(***************************************************************************)
(* Proofs about one flow from end to end.  First its two ends, each alone,  *)
(* whatever the other one does: a target against any remote proxy (Target), *)
(* for a worker that is launched any number of times; a table of leases     *)
(* against any requests (Subscriptions), for any number of subscriptions.   *)
(* Then both of them joined by HTTP (FlowLink), for any number of faults    *)
(* and attempts: the table still behaves as Subscriptions does and forgets  *)
(* no worker, no two sending workers ever serve one incarnation of the      *)
(* receiving worker, and no late DELETE names the lease in use.  At the     *)
(* end, the clock of one subscription (LeaseTiming), for delays of any      *)
(* length.                                                                  *)
(***************************************************************************)
EXTENDS FlowLink, LeaseTiming, TLAPS

(***************************************************************************)
(* The target.                                                              *)
(***************************************************************************)

\* Stop() does not return on its own: only the cancelled context ends run().
StoppedOnlyByStop == tpc = "stopped" => tctx

\* A worker is told to stop only by cleanup(): no worker is stopped while the
\* subscription it serves is being set up or renewed.
StopOnlyInCleanup ==
  wstop => tpc \in {"halt", "getdef", "wait", "stopped", "delete", "crashed"}

\* Why these hold at every step: a worker with nothing running has no info, a
\* halted one has nothing running, what is running while a subscription is being
\* set up was launched after the latest POST, and only Stop ends run().
WorkerConsistent ==
  /\ phase \in {"new", "stalled", "idle", "ready"} => info = "none"
  /\ sup = "halted" => phase \in {"new", "idle"}
  /\ made \/ (phase = "new" /\ ~wstop)
  /\ made \/ tpc \in {"wait", "getdef", "stopped"}

PostedBefore ==
  /\ lastPost <= inc
  /\ tpc = "info" /\ phase \notin {"new", "stalled", "idle"} => lastPost < inc

LeavingWhy ==
  /\ leaving => tctx
  /\ tpc = "stopped" => leaving

\* A request is under way exactly where run() waits for an answer.
RequestMatches ==
  /\ req.kind = "POST" <=> tpc = "post"
  /\ req.kind = "PATCH" <=> tpc = "patch"
  /\ req.kind = "DELETE" <=> tpc = "delete"
  /\ req.kind = "GET" <=> tpc \in {"getdef", "check"}
  /\ tpc = "post" => req.info.inc = lastPost

\* The inductive invariant of the proofs.
TargetInv ==
  /\ TargetTypeOK /\ StoppedIsClean /\ StoppedOnlyByStop /\ InfoOfferedOnce
  /\ StopOnlyInCleanup
  /\ WorkerConsistent /\ PostedBefore /\ LeavingWhy /\ RequestMatches

\* The requests that run() sends are well formed.
LEMMA RequestTypes ==
  /\ NoInfo \in InfoType
  /\ NoReq \in ReqType /\ NoReq.kind = "none" /\ NoReq.info.inc = 0
  /\ \A id \in Nat, i \in InfoType, k \in {"GET", "POST", "PATCH", "DELETE"} :
       /\ [kind |-> k, id |-> id, info |-> i] \in ReqType
       /\ [kind |-> k, id |-> id, info |-> i].kind = k
       /\ [kind |-> k, id |-> id, info |-> i].info = i
BY DEF NoInfo, InfoType, NoReq, ReqType, Worker!InfoStates

\* What Send and NoReq leave in req.
LEMMA SendFacts ==
  ASSUME NEW id \in Nat, NEW i \in InfoType, NEW k \in {"GET", "POST", "PATCH", "DELETE"},
         Send(k, id, i)
  PROVE  req' \in ReqType /\ req'.kind = k /\ req'.info = i
BY RequestTypes DEF Send

LEMMA TargetInitInv == TargetInit => TargetInv
<1> SUFFICES ASSUME TargetInit PROVE TargetInv
    OBVIOUS
<1>1. TargetTypeOK
    BY RequestTypes DEF TargetInit, TargetTypeOK, Requests, Worker!LifeInit,
                        Worker!LifeTypeOK, Worker!InfoStates
<1>2. RequestMatches
    BY RequestTypes DEF TargetInit, RequestMatches
<1> QED
    BY <1>1, <1>2
       DEF TargetInit, TargetInv, StoppedIsClean, StoppedOnlyByStop, InfoOfferedOnce,
           StopOnlyInCleanup, WorkerConsistent, PostedBefore, LeavingWhy, Worker!LifeInit

LEMMA TargetNextInv == TargetInv /\ [TargetNext]_targetVars => TargetInv'
<1> SUFFICES ASSUME TargetInv, [TargetNext]_targetVars PROVE TargetInv'
    OBVIOUS
<1>0. CurrentInfo \in InfoType /\ CurrentInfo.inc = inc
    BY DEF TargetInv, TargetTypeOK, CurrentInfo, InfoType, Worker!LifeTypeOK
<1> USE TargetOK
    DEF TargetOK, TargetInv, TargetTypeOK, StoppedIsClean, StoppedOnlyByStop,
        InfoOfferedOnce, StopOnlyInCleanup, WorkerConsistent, PostedBefore, LeavingWhy,
        RequestMatches, Requests, BackToWait,
        Worker!LifeTypeOK, Worker!InfoStates, loopVars, ownerVars, workerVars
<1>1. CASE StopTarget
    BY <1>1 DEF StopTarget
<1>2. CASE WaitTimer \/ WaitDone
  <2>1. CASE ~made
    <3> USE <1>2, <2>1 DEF WaitTimer, WaitDone, BeginCleanup, AfterCleanup
    <3>1. req' \in ReqType
        BY <1>0, RequestTypes, SendFacts
    <3>2. RequestMatches'
        BY <1>0, RequestTypes, SendFacts
    <3>3. TargetTypeOK'
        BY <3>1
    <3>4. StoppedIsClean' /\ StoppedOnlyByStop' /\ InfoOfferedOnce' /\ StopOnlyInCleanup'
        OBVIOUS
    <3>5. WorkerConsistent'
        OBVIOUS
    <3>6. PostedBefore' /\ LeavingWhy'
        OBVIOUS
    <3> QED
        BY <3>2, <3>3, <3>4, <3>5, <3>6
  <2>2. CASE made /\ active # 0
    <3> USE <1>2, <2>2 DEF WaitTimer, WaitDone, BeginCleanup, AfterCleanup
    <3>1. req' \in ReqType
        BY <1>0, RequestTypes, SendFacts
    <3>2. RequestMatches'
        BY <1>0, RequestTypes, SendFacts
    <3>3. TargetTypeOK'
        BY <3>1
    <3>4. StoppedIsClean' /\ StoppedOnlyByStop' /\ InfoOfferedOnce' /\ StopOnlyInCleanup'
        OBVIOUS
    <3>5. WorkerConsistent'
      <4>1. made' = made
          OBVIOUS
      <4>2. made'
          BY <4>1, <2>2, Zenon
      <4> QED
          BY <4>2
    <3>6. PostedBefore' /\ LeavingWhy'
        OBVIOUS
    <3> QED
        BY <3>2, <3>3, <3>4, <3>5, <3>6
  <2>3. CASE made /\ active = 0
    <3> USE <1>2, <2>3 DEF WaitTimer, WaitDone, BeginCleanup, AfterCleanup
    <3>1. req' \in ReqType
        BY <1>0, RequestTypes, SendFacts
    <3>2. RequestMatches'
        BY <1>0, RequestTypes, SendFacts
    <3>3. TargetTypeOK'
        BY <3>1
    <3>4. StoppedIsClean' /\ StoppedOnlyByStop' /\ InfoOfferedOnce' /\ StopOnlyInCleanup'
        OBVIOUS
    <3>5. WorkerConsistent'
      <4>1. made' = made
          OBVIOUS
      <4>2. made'
          BY <4>1, <2>3, Zenon
      <4> QED
          BY <4>2
    <3>6. PostedBefore' /\ LeavingWhy'
        OBVIOUS
    <3> QED
        BY <3>2, <3>3, <3>4, <3>5, <3>6
  <2> QED
      BY <2>1, <2>2, <2>3
<1>3. CASE HaltDone
  <2> USE <1>3 DEF HaltDone, AfterCleanup
  <2>1. req' \in ReqType
      BY <1>0, RequestTypes, SendFacts
  <2>2. RequestMatches'
      BY <1>0, RequestTypes, SendFacts
  <2>3. TargetTypeOK'
      BY <2>1
  <2>4. StoppedIsClean' /\ StoppedOnlyByStop' /\ InfoOfferedOnce' /\ StopOnlyInCleanup'
      OBVIOUS
  <2>5. WorkerConsistent'
      OBVIOUS
  <2>6. PostedBefore' /\ LeavingWhy'
      OBVIOUS
  <2> QED
      BY <2>2, <2>3, <2>4, <2>5, <2>6
<1>4. CASE PostInfo
  <2> USE <1>4 DEF PostInfo, Readable
  <2>1. req' \in ReqType
      BY <1>0, RequestTypes, SendFacts
  <2>2. RequestMatches'
      BY <1>0, RequestTypes, SendFacts
  <2>3. TargetTypeOK'
      BY <2>1
  <2>4. StoppedIsClean' /\ StoppedOnlyByStop' /\ InfoOfferedOnce' /\ StopOnlyInCleanup'
      OBVIOUS
  <2>5. WorkerConsistent'
      OBVIOUS
  <2>6. PostedBefore' /\ LeavingWhy'
      OBVIOUS
  <2> QED
      BY <2>2, <2>3, <2>4, <2>5, <2>6
<1>5. CASE InfoDone \/ ActiveDone
    BY <1>5, RequestTypes DEF InfoDone, ActiveDone
<1>6. CASE ActiveTimer
    BY <1>6 DEF ActiveTimer
<1>7. CASE PatchInfo
  <2> USE <1>7 DEF PatchInfo, Readable
  <2>1. req' \in ReqType
      BY <1>0, RequestTypes, SendFacts
  <2>2. RequestMatches'
      BY <1>0, RequestTypes, SendFacts
  <2>3. TargetTypeOK'
      BY <2>1
  <2>4. StoppedIsClean' /\ StoppedOnlyByStop' /\ InfoOfferedOnce' /\ StopOnlyInCleanup'
      OBVIOUS
  <2>5. WorkerConsistent'
      OBVIOUS
  <2>6. PostedBefore' /\ LeavingWhy'
      OBVIOUS
  <2> QED
      BY <2>2, <2>3, <2>4, <2>5, <2>6
<1>8. ASSUME NEW n \in Answers, Answer(n) PROVE TargetInv'
  <2>1. CASE DeleteAnswer(n)
    <3> USE <2>1 DEF DeleteAnswer
    <3>1. req' \in ReqType
        BY <1>0, RequestTypes, SendFacts
    <3>2. RequestMatches'
        BY <1>0, RequestTypes, SendFacts
    <3>3. TargetTypeOK'
        BY <3>1
    <3>4. StoppedIsClean' /\ StoppedOnlyByStop' /\ InfoOfferedOnce' /\ StopOnlyInCleanup'
        OBVIOUS
    <3>5. WorkerConsistent'
        OBVIOUS
    <3>6. PostedBefore' /\ LeavingWhy'
        OBVIOUS
    <3> QED
        BY <3>2, <3>3, <3>4, <3>5, <3>6
  <2>2. CASE GetDefAnswer(n)
    <3> USE <2>2 DEF GetDefAnswer
    <3>1. req' \in ReqType
        BY <1>0, RequestTypes, SendFacts
    <3>2. RequestMatches'
        BY <1>0, RequestTypes, SendFacts
    <3>3. TargetTypeOK'
        BY <3>1
    <3>4. StoppedIsClean' /\ StoppedOnlyByStop' /\ InfoOfferedOnce' /\ StopOnlyInCleanup'
        OBVIOUS
    <3>5. WorkerConsistent'
        OBVIOUS
    <3>6. PostedBefore' /\ LeavingWhy'
        OBVIOUS
    <3> QED
        BY <3>2, <3>3, <3>4, <3>5, <3>6
  <2>3. CASE PostAnswer(n)
    <3> USE <2>3 DEF PostAnswer
    <3>1. req' \in ReqType
        BY <1>0, RequestTypes, SendFacts
    <3>2. RequestMatches'
        BY <1>0, RequestTypes, SendFacts
    <3>3. TargetTypeOK'
        BY <3>1
    <3>4. StoppedIsClean' /\ StoppedOnlyByStop' /\ InfoOfferedOnce' /\ StopOnlyInCleanup'
        OBVIOUS
    <3>5. WorkerConsistent'
        OBVIOUS
    <3>6. PostedBefore' /\ LeavingWhy'
        OBVIOUS
    <3> QED
        BY <3>2, <3>3, <3>4, <3>5, <3>6
  <2>4. CASE PatchAnswer(n)
    <3> USE <2>4 DEF PatchAnswer
    <3>1. req' \in ReqType
        BY <1>0, RequestTypes, SendFacts
    <3>2. RequestMatches'
        BY <1>0, RequestTypes, SendFacts
    <3>3. TargetTypeOK'
        BY <3>1
    <3>4. StoppedIsClean' /\ StoppedOnlyByStop' /\ InfoOfferedOnce' /\ StopOnlyInCleanup'
        OBVIOUS
    <3>5. WorkerConsistent'
        OBVIOUS
    <3>6. PostedBefore' /\ LeavingWhy'
        OBVIOUS
    <3> QED
        BY <3>2, <3>3, <3>4, <3>5, <3>6
  <2>5. CASE CheckAnswer(n)
    <3> USE <2>5 DEF CheckAnswer
    <3>1. req' \in ReqType
        BY <1>0, RequestTypes, SendFacts
    <3>2. RequestMatches'
        BY <1>0, RequestTypes, SendFacts
    <3>3. TargetTypeOK'
        BY <3>1
    <3>4. StoppedIsClean' /\ StoppedOnlyByStop' /\ InfoOfferedOnce' /\ StopOnlyInCleanup'
        OBVIOUS
    <3>5. WorkerConsistent'
        OBVIOUS
    <3>6. PostedBefore' /\ LeavingWhy'
        OBVIOUS
    <3> QED
        BY <3>2, <3>3, <3>4, <3>5, <3>6
  <2> QED
      BY <1>8, <2>1, <2>2, <2>3, <2>4, <2>5 DEF Answer
<1>9. CASE WorkerStep
  <2> UNCHANGED <<loopVars, tctx, ownerVars>>
      BY <1>9 DEF WorkerStep
  <2>1. CASE WorkerPrepare
      BY <2>1 DEF WorkerPrepare, Worker!Prepare
  <2>6. CASE WorkerStuck
      BY <2>6 DEF WorkerStuck, Worker!Stall, Worker!Hang
  <2>2. CASE WorkerRun
      BY <2>2 DEF WorkerRun, Worker!Launch, Worker!Publish
  <2>3. CASE WorkerGone
      BY <2>3 DEF WorkerGone, Worker!Retract
  <2>4. CASE WorkerDie
      BY <2>4 DEF WorkerDie, Worker!Fail, Worker!Die
  <2>5. CASE WorkerHalt
      BY <2>5 DEF WorkerHalt, Worker!Halt
  <2> QED
      BY <1>9, <2>1, <2>2, <2>3, <2>4, <2>5, <2>6 DEF WorkerStep
<1>11. CASE Crash
    BY <1>11, RequestTypes DEF Crash, Worker!Panic
<1>10. CASE UNCHANGED targetVars
    BY <1>10 DEF targetVars
<1> QED
    BY <1>1, <1>2, <1>3, <1>4, <1>5, <1>6, <1>7, <1>8, <1>9, <1>10, <1>11
       DEF TargetNext, LoopStep

THEOREM TargetInvariantHolds == TargetSpec => []TargetInv
BY TargetInitInv, TargetNextInv, PTL DEF TargetSpec

\* Between attempts, and once Stop() has returned, no process of the target is
\* left, whatever the remote proxy does.
THEOREM NoWorkerBetweenAttempts == TargetSpec => []StoppedIsClean
<1>1. TargetInv => StoppedIsClean
    BY DEF TargetInv
<1> QED
    BY <1>1, TargetInvariantHolds, PTL

\* No incarnation's target info is ever offered to the remote proxy twice.
THEOREM NeverOfferedTwice == TargetSpec => []InfoOfferedOnce
<1>1. TargetInv => InfoOfferedOnce
    BY DEF TargetInv
<1> QED
    BY <1>1, TargetInvariantHolds, PTL

(***************************************************************************)
(* The table of leases.                                                     *)
(***************************************************************************)

\* Ids are given out in order, so what is in the table after shutdown() and was
\* not there before has an id above swept.
IdsInOrder ==
  /\ issued \in Nat /\ swept \in 0..issued
  /\ Live \subseteq 1..issued /\ jobs \subseteq 1..issued

\* shutdown() leaves nothing in the table, and cleanupJobs.Wait nothing to end:
\* what is found there later came later.
OnlyLate ==
  /\ loop \in {"run", "drain", "done", "crashed"}
  /\ loop \in {"drain", "done"} => \A i \in Live : i > swept
  /\ loop = "done" => \A i \in jobs : i > swept

LeaseInv == IdsInOrder /\ WorkersOwned /\ OnlyLate

-----------------------------------------------------------------------------
(* What a step does to the table: entries move to the cleanup jobs, or one   *)
(* is added under a new id, or a job is done.                                *)

Moves(ids) ==
  /\ ids \subseteq Live
  /\ Live' = Live \ ids /\ jobs' = jobs \cup ids
  /\ workers' = workers /\ issued' = issued

Adds ==
  /\ Live' = Live \cup {issued + 1} /\ workers' = workers \cup {issued + 1}
  /\ jobs' = jobs /\ issued' = issued + 1

Ends(id) ==
  /\ id \in jobs
  /\ jobs' = jobs \ {id} /\ workers' = workers \ {id}
  /\ Live' = Live /\ issued' = issued

LEMMA RemoveAllMoves ==
  ASSUME NEW ids \in SUBSET Live, RemoveAll(ids), UNCHANGED <<workers, issued>>
  PROVE  Moves(ids)
BY DEF RemoveAll, Without, Live, Moves

LEMMA HandleMovesOrAdds ==
  ASSUME Handle
  PROVE  (\E ids : Moves(ids)) \/ Adds
<1>1. ASSUME NEW given \in Infos, Create(given)
      PROVE  Adds
    BY <1>1 DEF Create, Adds, Live
<1>2. ASSUME NEW id \in 1..MaxIds, Remove(id)
      PROVE  Moves({id} \cap Live)
    BY <1>2, RemoveAllMoves, {id} \cap Live \subseteq Live DEF Remove
<1>3. ASSUME NEW id \in 1..MaxIds, Unknown(id)
      PROVE  Moves({})
    BY <1>3 DEF Unknown, tableVars, Moves, Live
<1>4. ASSUME NEW id \in 1..MaxIds, NEW given \in Infos, Renew(id, given)
      PROVE  Moves({})
    BY <1>4 DEF Renew, Moves, Live
<1>5. ASSUME NEW id \in 1..MaxIds, NEW given \in Infos, Reject(id, given)
      PROVE  Moves({id})
    BY <1>5, RemoveAllMoves, {id} \subseteq Live DEF Reject
<1> QED
    BY <1>1, <1>2, <1>3, <1>4, <1>5 DEF Handle

-----------------------------------------------------------------------------
(* LeaseInv is inductive.                                                   *)

LEMMA MovesKeeps ==
  ASSUME LeaseInv, NEW ids, Moves(ids), UNCHANGED exitVars
  PROVE  LeaseInv'
<1>1. IdsInOrder'
    BY DEF LeaseInv, IdsInOrder, Moves, exitVars
<1>2. WorkersOwned'
    BY DEF LeaseInv, WorkersOwned, Moves
<1>3. OnlyLate'
  <2>1. loop = "done" => \A i \in ids : i > swept
      BY DEF LeaseInv, OnlyLate, Moves
  <2> QED
      BY <2>1 DEF LeaseInv, OnlyLate, Moves, exitVars
<1> QED
    BY <1>1, <1>2, <1>3 DEF LeaseInv

LEMMA AddsKeeps ==
  ASSUME LeaseInv, Adds, UNCHANGED exitVars
  PROVE  LeaseInv'
<1>1. IdsInOrder'
    BY DEF LeaseInv, IdsInOrder, Adds, exitVars
<1>2. issued + 1 \notin jobs /\ issued + 1 > swept
    BY DEF LeaseInv, IdsInOrder
<1>3. WorkersOwned'
    BY <1>2 DEF LeaseInv, WorkersOwned, Adds
<1>4. OnlyLate'
    BY <1>2 DEF LeaseInv, OnlyLate, Adds, exitVars
<1> QED
    BY <1>1, <1>3, <1>4 DEF LeaseInv

LEMMA EndsKeeps ==
  ASSUME LeaseInv, NEW id, Ends(id), UNCHANGED exitVars
  PROVE  LeaseInv'
BY DEF LeaseInv, IdsInOrder, WorkersOwned, OnlyLate, Ends, exitVars

LEMMA InitLease == SubsInit => LeaseInv
BY DEF SubsInit, LeaseInv, IdsInOrder, WorkersOwned, OnlyLate, Live

LEMMA NextLease == LeaseInv /\ [SubsNext]_subsVars => LeaseInv'
<1> SUFFICES ASSUME LeaseInv, [SubsNext]_subsVars
             PROVE  LeaseInv'
    OBVIOUS
<1>1. CASE Handle /\ UNCHANGED exitVars
    BY <1>1, HandleMovesOrAdds, MovesKeeps, AddsKeeps
<1>2. CASE Tick /\ UNCHANGED exitVars
  <2>1. Moves({})
      BY <1>2 DEF Tick, Moves, Live
  <2> QED
      BY <1>2, <2>1, MovesKeeps
<1>3. CASE Cleanup /\ UNCHANGED exitVars
  <2>1. Moves(Expired)
      BY <1>3, RemoveAllMoves, Expired \subseteq Live DEF Cleanup, Expired
  <2> QED
      BY <1>3, <2>1, MovesKeeps
<1>4. ASSUME NEW id \in 1..MaxIds, JobDone(id), UNCHANGED exitVars
      PROVE  LeaseInv'
  <2>1. Ends(id)
      BY <1>4 DEF JobDone, Ends, Live
  <2> QED
      BY <1>4, <2>1, EndsKeeps
<1>5. CASE Signal
    BY <1>5 DEF Signal, tableVars, LeaseInv, IdsInOrder, WorkersOwned, OnlyLate, Live
<1>6. CASE Shutdown
  <2>1. Moves(Live)
      BY <1>6, RemoveAllMoves DEF Shutdown
  <2>2. Live' = {}
      BY <2>1 DEF Moves
  <2>3. IdsInOrder' /\ WorkersOwned'
      BY <1>6, <2>1 DEF Shutdown, Moves, LeaseInv, IdsInOrder, WorkersOwned
  <2> QED
      BY <1>6, <2>2, <2>3 DEF Shutdown, LeaseInv, OnlyLate
<1>7. CASE Drained
    BY <1>7 DEF Drained, tableVars, LeaseInv, IdsInOrder, WorkersOwned, OnlyLate, Live
<1>8. CASE CloseHttp
    BY <1>8 DEF CloseHttp, tableVars, LeaseInv, IdsInOrder, WorkersOwned, OnlyLate, Live
<1>9. CASE UNCHANGED subsVars
    BY <1>9 DEF subsVars, tableVars, exitVars, LeaseInv, IdsInOrder, WorkersOwned,
                OnlyLate, Live
<1>10. ASSUME NEW id, Hangs(id), UNCHANGED exitVars
       PROVE  LeaseInv'
  <2>1. Moves({})
      BY <1>10 DEF Hangs, Moves, Live
  <2> QED
      BY <1>10, <2>1, MovesKeeps
<1>11. CASE Panics
    BY <1>11 DEF Panics, tableVars, LeaseInv, IdsInOrder, WorkersOwned, OnlyLate, Live
<1> QED
    BY <1>1, <1>2, <1>3, <1>4, <1>5, <1>6, <1>7, <1>8, <1>9, <1>10, <1>11 DEF SubsNext

\* Every reachable state satisfies LeaseInv.
THEOREM LeaseInvariant == SubsSpec => []LeaseInv
BY InitLease, NextLease, PTL DEF SubsSpec

\* removeSubscription and the jobs it starts never lose a worker, and never end
\* one whose subscription is still in the table.
THEOREM EveryWorkerOwned == SubsSpec => []WorkersOwned
<1>1. LeaseInv => WorkersOwned
    BY DEF LeaseInv
<1> QED
    BY <1>1, LeaseInvariant, PTL

\* When run() has returned, the workers left were started after shutdown().
THEOREM NothingKnownOutlivesRun == SubsSpec => []ExitLeavesOnlyLate
<1>1. LeaseInv => ExitLeavesOnlyLate
    BY DEF LeaseInv, WorkersOwned, OnlyLate, ExitLeavesOnlyLate
<1> QED
    BY <1>1, LeaseInvariant, PTL

-----------------------------------------------------------------------------
(* One subscription, whatever becomes of the others.                        *)

EntriesOK == \A i \in Live : subs[i] \in [info : Infos, age : Nat]

\* The entries of the table that stay are as they were.
StayAsTheyWere == \A i \in Live' : i \in Live => subs'[i] = subs[i]

LEMMA InitEntries == SubsInit => EntriesOK
BY DEF SubsInit, EntriesOK, Live

LEMMA NextEntries == EntriesOK /\ [SubsNext]_subsVars => EntriesOK'
<1> SUFFICES ASSUME EntriesOK, [SubsNext]_subsVars PROVE EntriesOK'
    OBVIOUS
<1> DEFINE Row == [info : Infos, age : Nat]
<1>1. ASSUME NEW ids, RemoveAll(ids) PROVE EntriesOK'
    BY <1>1 DEF RemoveAll, Without, EntriesOK, Live
<1>2. ASSUME subs' = subs PROVE EntriesOK'
    BY <1>2 DEF EntriesOK, Live
<1>3. ASSUME NEW given \in Infos, Create(given) PROVE EntriesOK'
  <2>1. [info |-> given, age |-> 0] \in Row
      OBVIOUS
  <2> HIDE DEF Row
  <2>2. \A i \in Live : subs[i] \in Row
      BY DEF EntriesOK, Row
  <2>3. \A i \in Live' : subs'[i] \in Row
      BY <1>3, <2>1, <2>2 DEF Create, Live
  <2> QED
      BY <2>3 DEF EntriesOK, Row
<1>4. ASSUME NEW id, NEW given, Renew(id, given) PROVE EntriesOK'
  <2>1. id \in Live /\ subs' = [subs EXCEPT ![id].age = 0]
      BY <1>4 DEF Renew, Renews
  <2> QED
      BY <2>1 DEF EntriesOK, Live
<1>5. CASE Tick
  <2>1. \A i \in Live : subs[i].age \in Nat /\ subs[i].age + 1 \in Nat
      BY DEF EntriesOK
  <2>2. \A i \in Live : subs'[i] \in Row
      BY <1>5, <2>1 DEF Tick, EntriesOK
  <2>3. Live' = Live
      BY <1>5 DEF Tick, Live
  <2> QED
      BY <2>2, <2>3 DEF EntriesOK
<1>6. CASE Handle
    BY <1>1, <1>2, <1>3, <1>4, <1>6 DEF Handle, Remove, Unknown, Reject, tableVars
<1> QED
    BY <1>1, <1>2, <1>5, <1>6
       DEF SubsNext, Cleanup, JobDone, Hangs, Signal, Shutdown, Drained, CloseHttp, Panics,
           tableVars, subsVars

LEMMA InitHeld ==
  ASSUME NEW id \in Nat \ {0}, SubsInit PROVE HeldBy(id)!LeaseInit
BY DEF SubsInit, HeldBy!LeaseInit, PhaseOf, EntryOf, Live

\* A handler that moves entries to the jobs ends the lease or leaves it alone.
LEMMA MovesHeld ==
  ASSUME LeaseInv, NEW id \in Nat \ {0}, NEW ids, Moves(ids), StayAsTheyWere
  PROVE  [HeldBy(id)!LeaseNext]_(HeldBy(id)!leaseVars)
<1>1. CASE id \in ids
  <2>1. PhaseOf(id) = "held" /\ PhaseOf(id)' = "ending" /\ EntryOf(id)' = {}
      BY <1>1 DEF LeaseInv, IdsInOrder, WorkersOwned, Moves, PhaseOf, EntryOf
  <2> QED
      BY <2>1 DEF HeldBy!LeaseNext, HeldBy!End
<1>2. CASE id \notin ids
  <2>1. PhaseOf(id)' = PhaseOf(id) /\ EntryOf(id)' = EntryOf(id)
      BY <1>2 DEF Moves, PhaseOf, EntryOf, StayAsTheyWere
  <2> QED
      BY <2>1 DEF HeldBy!leaseVars
<1> QED
    BY <1>1, <1>2

\* A step that moves nothing may still change the one entry.
LEMMA RenewHeld ==
  ASSUME LeaseInv, NEW id \in Nat \ {0}, NEW i, NEW given, Renew(i, given)
  PROVE  [HeldBy(id)!LeaseNext]_(HeldBy(id)!leaseVars)
<1>1. i \in Live /\ subs' = [subs EXCEPT ![i].age = 0]
    BY DEF Renew, Renews
<1>2. Live' = Live /\ PhaseOf(id)' = PhaseOf(id)
    BY <1>1 DEF Renew, PhaseOf, Live
<1>3. CASE i = id
  <2>1. subs'[id] = [subs[id] EXCEPT !.age = 0]
      BY <1>1, <1>3 DEF Live
  <2>2. EntryOf(id) = {subs[id]} /\ EntryOf(id)' = {[subs[id] EXCEPT !.age = 0]}
      BY <1>1, <1>2, <1>3, <2>1 DEF EntryOf
  <2>3. PhaseOf(id) = "held"
      BY <1>1, <1>3 DEF PhaseOf, LeaseInv, IdsInOrder, WorkersOwned
  <2> QED
      BY <1>2, <2>2, <2>3 DEF HeldBy!LeaseNext, HeldBy!Prolong
<1>4. CASE i # id
  <2>1. EntryOf(id)' = EntryOf(id)
      BY <1>1, <1>2, <1>4 DEF EntryOf, Live
  <2> QED
      BY <1>2, <2>1 DEF HeldBy!leaseVars
<1> QED
    BY <1>3, <1>4

LEMMA TickHeld ==
  ASSUME LeaseInv, EntriesOK, NEW id \in Nat \ {0}, Tick
  PROVE  [HeldBy(id)!LeaseNext]_(HeldBy(id)!leaseVars)
<1>1. Live' = Live /\ PhaseOf(id)' = PhaseOf(id)
    BY DEF Tick, PhaseOf, Live
<1>2. CASE id \in Live
  <2>1. PhaseOf(id) = "held" /\ EntryOf(id) = {subs[id]} /\ EntryOf(id)' = {subs'[id]}
      BY <1>1, <1>2 DEF PhaseOf, EntryOf, LeaseInv, IdsInOrder, WorkersOwned
  <2>2. subs[id].age \in Nat /\ Lease \in Nat /\ subs[id] \in [info : Infos, age : Nat]
      BY <1>2, SubscriptionsOK DEF EntriesOK, SubscriptionsOK
  <2>3. CASE subs[id].age <= Lease
    <3>1. subs'[id] = [subs[id] EXCEPT !.age = subs[id].age + 1]
        BY <1>2, <2>3 DEF Tick
    <3> QED
        BY <1>1, <2>1, <2>3, <3>1 DEF HeldBy!LeaseNext, HeldBy!Grow
  <2>4. CASE ~(subs[id].age <= Lease)
    <3>1. subs'[id] = [subs[id] EXCEPT !.age = subs[id].age]
        BY <1>2, <2>4 DEF Tick
    <3>2. subs'[id] = subs[id]
        BY <2>2, <3>1
    <3> QED
        BY <1>1, <2>1, <3>2 DEF HeldBy!leaseVars
  <2> QED
      BY <2>3, <2>4
<1>3. CASE id \notin Live
  <2>1. EntryOf(id) = {} /\ EntryOf(id)' = {}
      BY <1>1, <1>3 DEF EntryOf
  <2> QED
      BY <1>1, <2>1 DEF HeldBy!leaseVars
<1> QED
    BY <1>2, <1>3

LEMMA CreateHeld ==
  ASSUME LeaseInv, NEW id \in Nat \ {0}, NEW given \in Infos, Create(given)
  PROVE  [HeldBy(id)!LeaseNext]_(HeldBy(id)!leaseVars)
<1>1. /\ issued \in Nat /\ issued' = issued + 1 /\ workers' = workers \cup {issued + 1}
      /\ Live' = Live \cup {issued + 1} /\ workers \subseteq 1..issued /\ Live \subseteq 1..issued
    BY DEF Create, Live, LeaseInv, IdsInOrder, WorkersOwned
<1>2. subs'[issued + 1] = [info |-> given, age |-> 0] /\ \A i \in Live : subs'[i] = subs[i]
    BY <1>1 DEF Create
<1>3. CASE id = issued + 1
  <2>1. PhaseOf(id) = "none" /\ PhaseOf(id)' = "held"
      BY <1>1, <1>3 DEF PhaseOf
  <2>2. EntryOf(id) = {} /\ EntryOf(id)' = {[info |-> given, age |-> 0]}
      BY <1>1, <1>2, <1>3 DEF EntryOf
  <2> QED
      BY <2>1, <2>2 DEF HeldBy!LeaseNext, HeldBy!Grant
<1>4. CASE id # issued + 1
  <2>1. PhaseOf(id)' = PhaseOf(id)
      BY <1>1, <1>4 DEF PhaseOf
  <2>2. EntryOf(id)' = EntryOf(id)
      BY <1>1, <1>2, <1>4 DEF EntryOf
  <2> QED
      BY <2>1, <2>2 DEF HeldBy!leaseVars
<1> QED
    BY <1>3, <1>4

LEMMA EndsHeld ==
  ASSUME LeaseInv, NEW id \in Nat \ {0}, NEW i, JobDone(i)
  PROVE  [HeldBy(id)!LeaseNext]_(HeldBy(id)!leaseVars)
<1>1. EntryOf(id)' = EntryOf(id)
    BY DEF JobDone, EntryOf, Live
<1>2. CASE i = id
  <2>1. PhaseOf(id) = "ending" /\ PhaseOf(id)' = "gone"
      BY <1>2 DEF JobDone, LeaseInv, IdsInOrder, WorkersOwned, PhaseOf
  <2> QED
      BY <1>1, <2>1 DEF HeldBy!LeaseNext, HeldBy!Leave
<1>3. CASE i # id
  <2>1. PhaseOf(id)' = PhaseOf(id)
      BY <1>3 DEF JobDone, PhaseOf, Live
  <2> QED
      BY <1>1, <2>1 DEF HeldBy!leaseVars
<1> QED
    BY <1>2, <1>3

LEMMA NextHeld ==
  ASSUME LeaseInv, EntriesOK, NEW id \in Nat \ {0}, [SubsNext]_subsVars
  PROVE  [HeldBy(id)!LeaseNext]_(HeldBy(id)!leaseVars)
<1>1. ASSUME NEW ids \in SUBSET Live, RemoveAll(ids), UNCHANGED <<workers, issued>>
      PROVE  [HeldBy(id)!LeaseNext]_(HeldBy(id)!leaseVars)
  <2>1. Moves(ids)
      BY <1>1, RemoveAllMoves
  <2>2. StayAsTheyWere
      BY <1>1 DEF RemoveAll, Without, StayAsTheyWere, Live
  <2> QED
      BY <2>1, <2>2, MovesHeld
<1>2. ASSUME UNCHANGED tableVars
      PROVE  [HeldBy(id)!LeaseNext]_(HeldBy(id)!leaseVars)
    BY <1>2 DEF tableVars, HeldBy!leaseVars, PhaseOf, EntryOf, Live
<1>3. CASE Handle
  <2>1. ASSUME NEW i \in 1..MaxIds, Remove(i) PROVE [HeldBy(id)!LeaseNext]_(HeldBy(id)!leaseVars)
    <3>1. {i} \cap Live \in SUBSET Live
        OBVIOUS
    <3> QED
        BY <1>1, <2>1, <3>1 DEF Remove
  <2>2. ASSUME NEW i \in 1..MaxIds, NEW given \in Infos, Reject(i, given)
        PROVE  [HeldBy(id)!LeaseNext]_(HeldBy(id)!leaseVars)
    <3>1. {i} \in SUBSET Live
        BY <2>2 DEF Reject
    <3> QED
        BY <1>1, <2>2, <3>1 DEF Reject
  <2> QED
      BY <1>2, <1>3, <2>1, <2>2, CreateHeld, RenewHeld DEF Handle, Unknown
<1>4. CASE Cleanup
  <2>1. Expired \in SUBSET Live
      BY DEF Expired
  <2> QED
      BY <1>1, <1>4, <2>1 DEF Cleanup
<1>5. CASE Shutdown
  <2>1. Live \in SUBSET Live
      OBVIOUS
  <2> QED
      BY <1>1, <1>5, <2>1 DEF Shutdown
<1>6. ASSUME NEW i, Hangs(i)
      PROVE  [HeldBy(id)!LeaseNext]_(HeldBy(id)!leaseVars)
    BY <1>6 DEF Hangs, HeldBy!leaseVars, PhaseOf, EntryOf, Live
<1> QED
    BY <1>2, <1>3, <1>4, <1>5, <1>6, TickHeld, EndsHeld
       DEF SubsNext, Signal, Drained, CloseHttp, Panics, subsVars

\* Towards the holder of any one lease the table keeps what HeldLease promises:
\* it is not revived once it is out, and its worker runs from first to last.
THEOREM TableKeepsLeases ==
  ASSUME NEW id \in Nat \ {0}
  PROVE  SubsSpec => KeepsLease(id)
<1>1. SubsInit => HeldBy(id)!LeaseInit
    BY InitHeld
<1>2. LeaseInv /\ EntriesOK /\ [SubsNext]_subsVars
        => [HeldBy(id)!LeaseNext]_(HeldBy(id)!leaseVars)
    BY NextHeld
<1>3. SubsSpec => []EntriesOK
    BY InitEntries, NextEntries, PTL DEF SubsSpec
<1> QED
    BY <1>1, <1>2, <1>3, LeaseInvariant, PTL DEF SubsSpec, KeepsLease, HeldBy!LeaseSpec

(***************************************************************************)
(* The link.                                                                *)
(***************************************************************************)

\* Why OneInitiatorPerInfo and RenewsOwnLease hold at every step.  A POST that
\* may still be handled, of the target or late, carries an incarnation that no
\* lease and no other such POST has; the answer to the target's POST names the
\* lease that POST created, which no DELETE given up before can name.
TableOK ==
  /\ issued \in Nat /\ Live \subseteq 1..issued
  /\ \A i \in Live : subs[i] \in [info : InfoType, age : Int]

RequestsOK ==
  /\ reply \in {-1} \cup Replies
  /\ reply # -1 => req.kind # "none"
  /\ late \subseteq ReqType

PostUnused(n) ==
  /\ \A i \in Live : subs[i].info.inc # n
  /\ \A q \in late : q.kind = "POST" => q.info.inc # n

PostsUnique ==
  /\ \A i \in Live : subs[i].info.inc <= lastPost
  /\ \A q \in late : q.kind = "POST" =>
       /\ q.info.inc <= lastPost
       /\ \A i \in Live : subs[i].info.inc # q.info.inc
       /\ \A p \in late : p.kind = "POST" /\ p.info.inc = q.info.inc => p = q
  /\ tpc = "post" /\ reply = -1 => PostUnused(lastPost)

AnswerOwn ==
  /\ active <= issued
  /\ tpc = "post" /\ reply # -1 =>
       /\ reply <= issued
       /\ reply \in Live => subs[reply].info.inc = lastPost

DeletesOld ==
  /\ req.kind = "DELETE" => req.id = active
  /\ \A q \in late : q.kind = "DELETE" =>
       /\ q.id <= issued
       /\ tpc = "post" /\ reply > 0 => q.id # reply

\* The inductive invariant of the proofs.
LinkInv ==
  /\ TargetInv /\ TableOK /\ RequestsOK
  /\ OneInitiatorPerInfo /\ RenewsOwnLease /\ PostsUnique /\ AnswerOwn /\ DeletesOld

\* Why the table is only asked for what Subscriptions allows for: an info that is
\* offered is one that some incarnation has published.
LaunchedFirst ==
  inc \in 0..MaxInc /\ (phase \notin {"new", "stalled", "idle"} => inc >= 1)

CarriesInfo(q) == q.kind \in {"POST", "PATCH"} => q.info \in Infos

AskedForKnown ==
  /\ LaunchedFirst
  /\ CarriesInfo(req) /\ \A q \in late : CarriesInfo(q)
  /\ issued <= MaxIds /\ http = "open" /\ loop = "run"
  /\ subs = [i \in Live |-> subs[i]]

Entry == [info : InfoType, age : Int]

\* The table has lost entries at most, and those left kept their info.
TableShrinks ==
  /\ issued' = issued
  /\ DOMAIN subs' \subseteq Live
  /\ \A i \in DOMAIN subs' : subs'[i] \in Entry /\ subs'[i].info = subs[i].info

\* The table has a new entry for request info i, under an id never used before.
TableGrows(i) ==
  /\ issued' = issued + 1
  /\ DOMAIN subs' = Live \cup {issued + 1}
  /\ subs'[issued + 1] \in Entry /\ subs'[issued + 1].info = i
  /\ \A j \in Live : subs'[j] = subs[j]

LEMMA RemoveShrinks ==
  ASSUME TableOK, NEW ids, RemoveAll(ids), issued' = issued
  PROVE  TableShrinks
BY DEF TableOK, RemoveAll, Without, Live, TableShrinks, Entry

LEMMA CreateGrows ==
  ASSUME TableOK, NEW i \in InfoType, Create(i)
  PROVE  TableGrows(i)
<1>1. issued + 1 \notin Live
    BY DEF TableOK
<1>2. [info |-> i, age |-> 0] \in Entry /\ [info |-> i, age |-> 0].info = i
    BY DEF Entry
<1> QED
    BY <1>1, <1>2 DEF Create, TableGrows, Live

LEMMA RenewShrinks ==
  ASSUME TableOK, NEW id, NEW i, Renew(id, i)
  PROVE  TableShrinks
<1>1. id \in Live /\ DOMAIN subs' = Live
    BY DEF Renew, Renews, Live
<1>2. subs[id] \in Entry /\ subs'[id] = [subs[id] EXCEPT !.age = 0]
    BY <1>1 DEF Renew, TableOK, Entry, Live
<1>3. \A j \in Live \ {id} : subs'[j] = subs[j]
    BY <1>1 DEF Renew, Live
<1>4. subs'[id] \in Entry /\ subs'[id].info = subs[id].info
    BY <1>2 DEF Entry
<1> QED
    BY <1>1, <1>3, <1>4 DEF TableShrinks, TableOK, Renew, Live, Entry

LEMMA TickShrinks ==
  ASSUME TableOK, Tick, SubscriptionsOK
  PROVE  TableShrinks
<1>1. DOMAIN subs' = Live
    BY DEF Tick, Live
<1>2. ASSUME NEW j \in Live
      PROVE  subs'[j] \in Entry /\ subs'[j].info = subs[j].info
  <2>1. subs[j] \in Entry
      BY DEF TableOK, Entry
  <2> DEFINE a == IF subs[j].age <= Lease THEN subs[j].age + 1 ELSE subs[j].age
  <2>2. subs'[j] = [subs[j] EXCEPT !.age = a]
      BY DEF Tick, Live
  <2>3. a \in Int
      BY <2>1 DEF Entry
  <2> HIDE DEF a
  <2> QED
      BY <2>1, <2>2, <2>3 DEF Entry
<1> QED
    BY <1>1, <1>2 DEF TableShrinks, Tick

LEMMA SameShrinks ==
  ASSUME TableOK, UNCHANGED <<subs, issued>>
  PROVE  TableShrinks
BY DEF TableOK, TableShrinks, Live, Entry

\* A handled request leaves the table as it was or smaller, or adds the entry
\* its POST asks for; then its answer is the new id.
LEMMA HandledTable ==
  ASSUME TableOK, NEW q \in ReqType, NEW r \in Replies, HandleRequest(q, r)
  PROVE  TableShrinks \/ (q.kind = "POST" /\ TableGrows(q.info) /\ r = issued')
<1>1. CASE q.kind = "GET" /\ HandleGet(r)
    BY <1>1, SameShrinks DEF HandleGet, tableVars
<1>2. CASE q.kind = "POST" /\ HandlePost(q, r)
  <2>1. q.info \in InfoType
      BY DEF ReqType
  <2>2. CASE UNCHANGED tableVars
      BY <2>2, SameShrinks DEF tableVars
  <2>3. CASE Create(q.info) /\ r = issued + 1
      BY <2>1, <2>3, <1>2, CreateGrows DEF Create
  <2> QED
      BY <1>2, <2>2, <2>3 DEF HandlePost
<1>3. CASE q.kind = "PATCH" /\ HandlePatch(q, r)
  <2>1. CASE Renew(q.id, q.info)
      BY <2>1, RenewShrinks
  <2>2. CASE Reject(q.id, q.info)
      BY <2>2, RemoveShrinks DEF Reject
  <2>3. CASE Unknown(q.id)
      BY <2>3, SameShrinks DEF Unknown, tableVars
  <2> QED
      BY <1>3, <2>1, <2>2, <2>3 DEF HandlePatch
<1>4. CASE q.kind = "DELETE" /\ Remove(q.id) /\ r = 1
    BY <1>4, RemoveShrinks DEF Remove
<1> QED
    BY <1>1, <1>2, <1>3, <1>4 DEF HandleRequest

LEMMA ZeroReply == 0 \in Replies /\ Replies \subseteq Answers /\ Replies \subseteq Nat
BY SubscriptionsOK, FlowLinkOK DEF SubscriptionsOK, FlowLinkOK, Replies

-----------------------------------------------------------------------------
(* The target, seen alone, takes steps of Target only.                      *)

LEMMA LinkIsTarget == RequestsOK /\ [Next]_linkVars => [TargetNext]_targetVars
<1> SUFFICES ASSUME RequestsOK, [Next]_linkVars PROVE [TargetNext]_targetVars
    OBVIOUS
<1>1. CASE Receive
    BY <1>1, ZeroReply DEF Receive, RequestsOK, TargetNext
<1>2. CASE Timeout \/ Abort
    BY <1>2, ZeroReply DEF Timeout, Abort, GiveUp, TargetNext
<1>3. CASE TargetAlone
    BY <1>3 DEF TargetAlone, TargetNext
<1>4. CASE WorkerAlone
    BY <1>4 DEF WorkerAlone, TargetNext
<1>5. CASE Deliver \/ DeliverLate \/ LinkTick \/ LinkCleanup \/ LinkJobDone
             \/ FlowChanges \/ RemoteRestarts \/ RemoteHangs
    BY <1>5 DEF Deliver, DeliverLate, LinkTick, LinkCleanup, LinkJobDone, FlowChanges,
                RemoteRestarts, RemoteHangs
<1>6. CASE UNCHANGED linkVars
    BY <1>6 DEF linkVars
<1>7. CASE CrashAlone
    BY <1>7 DEF CrashAlone, TargetNext
<1> QED
    BY <1>1, <1>2, <1>3, <1>4, <1>5, <1>6, <1>7 DEF Next

-----------------------------------------------------------------------------
(* The invariant.                                                           *)

LEMMA LinkInitInv == Init => LinkInv
<1> SUFFICES ASSUME Init PROVE LinkInv
    OBVIOUS
<1>1. TargetInv
    BY TargetInitInv DEF Init
<1>2. Live = {} /\ issued = 0 /\ late = {} /\ reply = -1
    BY DEF Init, SubsInit, Live
<1>3. tpc = "wait" /\ active = 0 /\ req.kind = "none"
    BY RequestTypes DEF Init, TargetInit
<1> QED
    BY <1>1, <1>2, <1>3
       DEF LinkInv, TableOK, RequestsOK, OneInitiatorPerInfo, RenewsOwnLease, Renewing,
           PostsUnique, PostUnused, AnswerOwn, DeletesOld

\* Steps that only shrink the table and do not touch the loop.
LEMMA ShrinkInv ==
  ASSUME LinkInv, TargetInv', TableShrinks, UNCHANGED loopVars,
         RequestsOK', late' \subseteq late,
         \/ reply' = reply
         \/ reply = -1 /\ (tpc = "post" => reply' = 0)
  PROVE  LinkInv'
<1> USE DEF LinkInv, TableShrinks, Entry, Live, loopVars
<1>1. TableOK'
    BY DEF TableOK
<1>2. OneInitiatorPerInfo' /\ RenewsOwnLease'
    BY DEF OneInitiatorPerInfo, RenewsOwnLease, Renewing
<1>3. PostsUnique'
    BY DEF PostsUnique, PostUnused
<1>4. AnswerOwn'
    BY DEF AnswerOwn, TableOK
<1>5. DeletesOld'
    BY DEF DeletesOld
<1> QED
    BY <1>1, <1>2, <1>3, <1>4, <1>5

LEMMA TypesOfInv ==
  ASSUME LinkInv
  PROVE  /\ lastPost \in Nat /\ active \in Nat /\ issued \in Nat /\ req \in ReqType
         /\ \A i \in Live : i \in Nat /\ i <= issued /\ subs[i].info.inc \in Nat
         /\ \A q \in late : q \in ReqType /\ q.info \in InfoType /\ q.info.inc \in Nat
                         /\ q.id \in Nat
         /\ req.info \in InfoType
<1>1. ASSUME NEW q \in ReqType
      PROVE  q.info \in InfoType /\ q.info.inc \in Nat /\ q.id \in Nat
    BY DEF ReqType, InfoType
<1> QED
    BY <1>1 DEF LinkInv, TargetInv, TargetTypeOK, TableOK, RequestsOK, InfoType

LEMMA DeliverInv ==
  ASSUME LinkInv, TargetInv', Deliver
  PROVE  LinkInv'
<1>1. PICK r \in Replies : HandleRequest(req, r) /\ reply' = r
    BY DEF Deliver
<1>2. req \in ReqType /\ reply = -1 /\ late' = late /\ UNCHANGED loopVars
    BY TypesOfInv DEF Deliver, targetVars
<1>3. req.kind # "none"
    BY <1>1 DEF HandleRequest
<1>4. RequestsOK'
    BY <1>1, <1>2, <1>3 DEF LinkInv, RequestsOK, loopVars
<1>5. CASE TableShrinks /\ (tpc = "post" => r = 0)
    BY <1>1, <1>2, <1>4, <1>5, ShrinkInv
<1>6. CASE req.kind = "POST" /\ TableGrows(req.info) /\ r = issued'
  <2>1. tpc = "post" /\ req.info.inc = lastPost
      BY <1>6 DEF LinkInv, TargetInv, RequestMatches
  <2>2. PostUnused(lastPost)
      BY <1>2, <2>1 DEF LinkInv, PostsUnique
  <2> USE <1>1, <1>2, <1>6, <2>1, <2>2, TypesOfInv DEF TableGrows, loopVars
  <2>3. TableOK'
      BY DEF LinkInv, TableOK, Live, Entry
  <2>4. OneInitiatorPerInfo' /\ RenewsOwnLease'
      BY DEF LinkInv, OneInitiatorPerInfo, RenewsOwnLease, Renewing, PostUnused, Live
  <2>5. PostsUnique'
      BY DEF LinkInv, PostsUnique, PostUnused, Live, Replies
  <2>6. AnswerOwn'
      BY DEF LinkInv, AnswerOwn, Live, TableOK
  <2>7. DeletesOld'
      BY DEF LinkInv, DeletesOld
  <2> QED
      BY <1>4, <2>3, <2>4, <2>5, <2>6, <2>7 DEF LinkInv
<1>7. (TableShrinks /\ (tpc = "post" => r = 0))
        \/ (req.kind = "POST" /\ TableGrows(req.info) /\ r = issued')
  <2>1. CASE tpc = "post"
    <3>1. req.kind = "POST" /\ HandlePost(req, r)
        BY <1>1, <2>1 DEF HandleRequest, LinkInv, TargetInv, RequestMatches
    <3>2. CASE flow = 0 /\ r = 0 /\ UNCHANGED tableVars
        BY <3>2, SameShrinks DEF LinkInv, tableVars
    <3>3. CASE Create(req.info) /\ r = issued + 1
        BY <3>1, <3>3, CreateGrows, TypesOfInv DEF LinkInv, Create
    <3> QED
        BY <3>1, <3>2, <3>3 DEF HandlePost
  <2>2. CASE tpc # "post"
      BY <1>1, <1>2, <2>2, HandledTable DEF LinkInv
  <2> QED
      BY <2>1, <2>2
<1> QED
    BY <1>5, <1>6, <1>7

LEMMA DeliverLateInv ==
  ASSUME LinkInv, TargetInv', DeliverLate
  PROVE  LinkInv'
<1>1. PICK q \in late : (\E r \in Replies : HandleRequest(q, r)) /\ late' = late \ {q}
    BY DEF DeliverLate
<1>2. PICK r \in Replies : HandleRequest(q, r)
    BY <1>1
<1>3. q \in ReqType /\ reply' = reply /\ UNCHANGED loopVars
    BY TypesOfInv DEF DeliverLate, targetVars
<1>4. RequestsOK'
    BY <1>1, <1>3 DEF LinkInv, RequestsOK, loopVars
<1>5. CASE TableShrinks
    BY <1>1, <1>3, <1>4, <1>5, ShrinkInv
<1>6. CASE q.kind = "POST" /\ TableGrows(q.info)
  <2>1. PostUnused(lastPost) => q.info.inc # lastPost
      BY <1>6 DEF PostUnused
  <2>2. /\ q.info.inc <= lastPost
        /\ \A i \in Live : subs[i].info.inc # q.info.inc
        /\ \A p \in late \ {q} : p.kind = "POST" => p.info.inc # q.info.inc
      BY <1>6 DEF LinkInv, PostsUnique
  <2> USE <1>1, <1>3, <1>6, <2>1, <2>2, TypesOfInv DEF TableGrows, loopVars
  <2>3. TableOK'
      BY DEF LinkInv, TableOK, Live, Entry
  <2>4. OneInitiatorPerInfo'
      BY DEF LinkInv, OneInitiatorPerInfo, Live
  <2>5. RenewsOwnLease'
      BY DEF LinkInv, RenewsOwnLease, Renewing, AnswerOwn, Live
  <2>6. PostsUnique'
    <3>1. \A i \in Live' : subs'[i].info.inc <= lastPost'
        BY DEF LinkInv, PostsUnique, Live
    <3>2. ASSUME NEW p \in late', p.kind = "POST"
          PROVE  /\ p.info.inc <= lastPost'
                 /\ \A i \in Live' : subs'[i].info.inc # p.info.inc
                 /\ \A o \in late' : o.kind = "POST" /\ o.info.inc = p.info.inc => o = p
        BY <3>2 DEF LinkInv, PostsUnique, Live
    <3>3. tpc' = "post" /\ reply' = -1 => PostUnused(lastPost)'
        BY DEF LinkInv, PostsUnique, PostUnused, Live
    <3> QED
        BY <3>1, <3>2, <3>3 DEF PostsUnique
  <2>7. AnswerOwn'
      BY DEF LinkInv, AnswerOwn, Live, RequestsOK, Replies
  <2>8. DeletesOld'
      BY DEF LinkInv, DeletesOld
  <2> QED
      BY <1>4, <2>3, <2>4, <2>5, <2>6, <2>7, <2>8 DEF LinkInv
<1> QED
    BY <1>2, <1>3, <1>5, <1>6, HandledTable DEF LinkInv

\* The step that posts: the incarnation is newer than any that was posted.
LEMMA PostInv ==
  ASSUME LinkInv, TargetInv', PostInfo, UNCHANGED <<subsVars, reply, late>>
  PROVE  LinkInv'
<1>1. lastPost < inc /\ lastPost' = inc /\ inc \in Nat
    BY DEF PostInfo, Readable, LinkInv, TargetInv, InfoOfferedOnce, TargetTypeOK,
           Worker!LifeTypeOK
<1>2. reply = -1
    BY DEF PostInfo, LinkInv, RequestsOK, TargetInv, RequestMatches, TargetTypeOK, ReqType
<1>3. tpc' = "post" /\ active' = active /\ req'.kind = "POST" /\ \A i : ~Renewing(i)'
    BY DEF PostInfo, Send, Renewing
<1> USE <1>1, <1>2, <1>3, TypesOfInv DEF subsVars, tableVars, Live
<1>4. TableOK' /\ RequestsOK' /\ OneInitiatorPerInfo' /\ RenewsOwnLease' /\ AnswerOwn'
    BY DEF LinkInv, TableOK, RequestsOK, OneInitiatorPerInfo, RenewsOwnLease, AnswerOwn,
           Renewing
<1>5. PostsUnique'
    BY DEF LinkInv, PostsUnique, PostUnused
<1>6. DeletesOld'
    BY DEF LinkInv, DeletesOld
<1> QED
    BY <1>4, <1>5, <1>6 DEF LinkInv

\* Any other step of the loop by which no lease becomes the one being renewed.
LEMMA LoopInv ==
  ASSUME LinkInv, TargetInv', UNCHANGED <<subsVars, lastPost, active, late>>,
         tpc' # "post", RequestsOK', req'.kind = "DELETE" => req'.id = active,
         tpc' \in {"active", "kainfo", "patch", "check"} =>
           tpc \in {"active", "kainfo", "patch", "check"}
  PROVE  LinkInv'
<1> USE DEF subsVars, tableVars, Live
<1>1. TableOK' /\ OneInitiatorPerInfo' /\ AnswerOwn'
    BY DEF LinkInv, TableOK, OneInitiatorPerInfo, AnswerOwn
<1>2. RenewsOwnLease'
    BY DEF LinkInv, RenewsOwnLease, Renewing
<1>3. PostsUnique'
    BY DEF LinkInv, PostsUnique
<1>4. DeletesOld'
    BY DEF LinkInv, DeletesOld
<1> QED
    BY <1>1, <1>2, <1>3, <1>4 DEF LinkInv

LEMMA TargetAloneInv ==
  ASSUME LinkInv, TargetInv', TargetAlone
  PROVE  LinkInv'
<1>1. UNCHANGED <<subsVars, reply, late>>
    BY DEF TargetAlone
<1>2. CASE PostInfo
    BY <1>1, <1>2, PostInv
<1>3. CASE StopTarget
  <2>1. UNCHANGED loopVars
      BY <1>3 DEF StopTarget
  <2>2. TableShrinks
      BY <1>1, SameShrinks DEF LinkInv, subsVars, tableVars
  <2>3. RequestsOK'
      BY <1>1, <2>1 DEF LinkInv, RequestsOK, loopVars
  <2> QED
      BY <1>1, <2>1, <2>2, <2>3, ShrinkInv
<1>4. CASE WaitTimer \/ WaitDone \/ HaltDone \/ InfoDone \/ ActiveTimer \/ ActiveDone
             \/ PatchInfo
  <2>1. reply = -1
    <3>1. req.kind = "none"
        BY <1>4 DEF WaitTimer, WaitDone, BeginCleanup, HaltDone, InfoDone, ActiveTimer,
                    ActiveDone, PatchInfo, LinkInv, TargetInv, RequestMatches,
                    TargetTypeOK, ReqType
    <3> QED
        BY <3>1 DEF LinkInv, RequestsOK
  <2>2. RequestsOK'
      BY <1>1, <2>1 DEF LinkInv, RequestsOK
  <2>3. /\ lastPost' = lastPost /\ active' = active /\ tpc' # "post"
        /\ tpc' \in {"active", "kainfo", "patch", "check"} =>
             tpc \in {"active", "kainfo", "patch", "check"}
      BY <1>4 DEF WaitTimer, WaitDone, BeginCleanup, AfterCleanup, HaltDone, InfoDone,
                  BackToWait, ActiveTimer, ActiveDone, PatchInfo
  <2>4. req'.kind = "DELETE" => req'.id = active
      BY <1>4, RequestTypes
         DEF WaitTimer, WaitDone, BeginCleanup, AfterCleanup, HaltDone, InfoDone, BackToWait,
             ActiveTimer, ActiveDone, PatchInfo, Send, LinkInv, DeletesOld
  <2> QED
      BY <1>1, <2>2, <2>3, <2>4, LoopInv
<1> QED
    BY <1>2, <1>3, <1>4 DEF TargetAlone, LoopStep

\* No answer makes the target send a DELETE: only cleanup() does.
LEMMA AnswerSendsNoDelete ==
  ASSUME NEW n, Answer(n)
  PROVE  req'.kind # "DELETE"
BY RequestTypes DEF Answer, DeleteAnswer, GetDefAnswer, PostAnswer, PatchAnswer, CheckAnswer,
                    BackToWait, Send

\* An answer other than that to a POST, or a failed one.
LEMMA AnswerInv ==
  ASSUME LinkInv, TargetInv', NEW n, Answer(n), tpc = "post" => n = 0,
         reply' = -1, UNCHANGED <<subsVars, late>>
  PROVE  LinkInv'
<1>1. RequestsOK'
    BY DEF LinkInv, RequestsOK
<1>2. /\ lastPost' = lastPost /\ active' = active /\ tpc' # "post"
      /\ tpc' \in {"active", "kainfo", "patch", "check"} =>
           tpc \in {"active", "kainfo", "patch", "check"}
  <2>1. CASE DeleteAnswer(n)
      BY <2>1 DEF DeleteAnswer
  <2>2. CASE GetDefAnswer(n)
      BY <2>2 DEF GetDefAnswer, BackToWait
  <2>3. CASE PostAnswer(n)
      BY <2>3 DEF PostAnswer, BackToWait
  <2>4. CASE PatchAnswer(n)
      BY <2>4 DEF PatchAnswer, BackToWait
  <2>5. CASE CheckAnswer(n)
      BY <2>5 DEF CheckAnswer
  <2> QED
      BY <2>1, <2>2, <2>3, <2>4, <2>5 DEF Answer
<1>3. req'.kind # "DELETE"
    BY AnswerSendsNoDelete
<1> QED
    BY <1>1, <1>2, <1>3, LoopInv

LEMMA ReceiveInv ==
  ASSUME LinkInv, TargetInv', Receive
  PROVE  LinkInv'
<1>1. /\ Answer(reply) /\ reply # -1 /\ reply' = -1
      /\ UNCHANGED <<subsVars, late>>
    BY DEF Receive
<1>2. CASE tpc = "post" => reply = 0
    BY <1>1, <1>2, AnswerInv
<1>3. CASE tpc = "post" /\ reply # 0
  <2>1. PostAnswer(reply)
      BY <1>1, <1>3 DEF Answer, DeleteAnswer, GetDefAnswer, PatchAnswer, CheckAnswer
  <2>2. active' = reply /\ tpc' = "active" /\ lastPost' = lastPost
      BY <1>3, <2>1 DEF PostAnswer
  <2>3. reply <= issued /\ (reply \in Live => subs[reply].info.inc = lastPost)
      BY <1>1, <1>3 DEF LinkInv, AnswerOwn
  <2> USE <1>1, <2>2, <2>3 DEF subsVars, tableVars, Live
  <2>4. TableOK' /\ RequestsOK' /\ OneInitiatorPerInfo' /\ AnswerOwn'
      BY DEF LinkInv, TableOK, RequestsOK, OneInitiatorPerInfo, AnswerOwn
  <2>5. RenewsOwnLease'
    <3>1. reply > 0
        BY <1>1, <1>3, ZeroReply DEF LinkInv, RequestsOK
    <3> QED
        BY <1>3, <3>1 DEF RenewsOwnLease, Renewing, LinkInv, DeletesOld
  <2>6. PostsUnique'
      BY DEF LinkInv, PostsUnique
  <2>7. DeletesOld'
      BY AnswerSendsNoDelete DEF LinkInv, DeletesOld
  <2> QED
      BY <2>4, <2>5, <2>6, <2>7 DEF LinkInv
<1> QED
    BY <1>2, <1>3

\* A request that no handler has seen is kept for later, and the target is past it.
LEMMA LateInv ==
  ASSUME LinkInv, TargetInv', reply = -1, late' = late \cup {req}, reply' = -1,
         UNCHANGED <<subsVars, lastPost, active>>,
         tpc' # "post", req'.kind # "DELETE",
         tpc' \in {"active", "kainfo", "patch", "check"} =>
           tpc \in {"active", "kainfo", "patch", "check"}
  PROVE  LinkInv'
<1>1. req.kind = "POST" => PostUnused(lastPost) /\ req.info.inc = lastPost
    BY DEF LinkInv, PostsUnique, TargetInv, RequestMatches
<1>2. req.kind = "DELETE" => req.id = active /\ tpc = "delete"
    BY DEF LinkInv, DeletesOld, TargetInv, RequestMatches
<1> USE <1>1, TypesOfInv DEF subsVars, tableVars, Live
<1>3. TableOK' /\ RequestsOK' /\ OneInitiatorPerInfo' /\ AnswerOwn'
    BY DEF LinkInv, TableOK, RequestsOK, OneInitiatorPerInfo, AnswerOwn
<1>4. RenewsOwnLease'
    BY <1>2 DEF LinkInv, RenewsOwnLease, Renewing
<1>5. PostsUnique'
  <2>1. \A i \in Live' : subs'[i].info.inc <= lastPost'
      BY DEF LinkInv, PostsUnique
  <2>2. ASSUME NEW q \in late', q.kind = "POST"
        PROVE  /\ q.info.inc <= lastPost'
               /\ \A i \in Live' : subs'[i].info.inc # q.info.inc
               /\ \A p \in late' : p.kind = "POST" /\ p.info.inc = q.info.inc => p = q
    <3>1. CASE q = req
        BY <2>2, <3>1 DEF PostUnused
    <3>2. CASE q # req
        BY <2>2, <3>2 DEF LinkInv, PostsUnique, PostUnused
    <3> QED
        BY <3>1, <3>2
  <2> QED
      BY <2>1, <2>2 DEF PostsUnique
<1>6. DeletesOld'
    BY <1>2 DEF LinkInv, DeletesOld, AnswerOwn
<1> QED
    BY <1>3, <1>4, <1>5, <1>6 DEF LinkInv

\* A request given up, lost or kept for later.
LEMMA GiveUpInv ==
  ASSUME LinkInv, TargetInv', Timeout \/ Abort
  PROVE  LinkInv'
<1>1. /\ Answer(0) /\ reply' = -1 /\ UNCHANGED subsVars
    BY DEF Timeout, Abort, GiveUp
<1>2. CASE late' = late
    BY <1>1, <1>2, AnswerInv
<1>3. CASE reply = -1 /\ late' = late \cup {req}
  <2>1. /\ lastPost' = lastPost /\ active' = active /\ tpc' # "post"
        /\ tpc' \in {"active", "kainfo", "patch", "check"} =>
             tpc \in {"active", "kainfo", "patch", "check"}
      BY <1>1 DEF Answer, DeleteAnswer, GetDefAnswer, PostAnswer, PatchAnswer, CheckAnswer,
                  BackToWait
  <2> QED
      BY <1>1, <1>3, <2>1, LateInv, AnswerSendsNoDelete
<1> QED
    BY <1>2, <1>3 DEF Timeout, Abort, LostOrLate

\* So are the requests of a proxy that panics.
LEMMA CrashInv ==
  ASSUME LinkInv, TargetInv', CrashAlone
  PROVE  LinkInv'
<1>1. /\ UNCHANGED <<subsVars, lastPost, active>> /\ reply' = -1
      /\ tpc' = "crashed" /\ req'.kind = "none"
    BY RequestTypes DEF CrashAlone, Crash
<1>2. CASE late' = late
  <2>1. RequestsOK'
      BY <1>1, <1>2 DEF LinkInv, RequestsOK
  <2> QED
      BY <1>1, <1>2, <2>1, LoopInv
<1>3. CASE reply = -1 /\ late' = late \cup {req}
    BY <1>1, <1>3, LateInv
<1> QED
    BY <1>2, <1>3 DEF CrashAlone, LostOrLate

LEMMA LinkNextInv == LinkInv /\ [Next]_linkVars => LinkInv'
<1> SUFFICES ASSUME LinkInv, [Next]_linkVars PROVE LinkInv'
    OBVIOUS
<1>1. TargetInv'
    BY LinkIsTarget, TargetNextInv DEF LinkInv
<1>2. CASE Deliver
    BY <1>1, <1>2, DeliverInv
<1>3. CASE DeliverLate
    BY <1>1, <1>3, DeliverLateInv
<1>4. CASE Receive
    BY <1>1, <1>4, ReceiveInv
<1>5. CASE Timeout \/ Abort
    BY <1>1, <1>5, GiveUpInv
<1>6. CASE TargetAlone
    BY <1>1, <1>6, TargetAloneInv
<1>8. CASE CrashAlone
    BY <1>1, <1>8, CrashInv
<1>7. CASE WorkerAlone \/ LinkTick \/ LinkCleanup \/ LinkJobDone \/ FlowChanges
             \/ RemoteRestarts \/ RemoteHangs \/ UNCHANGED linkVars
  <2>1. UNCHANGED <<loopVars, reply, late>>
      BY <1>7 DEF WorkerAlone, WorkerStep, LinkTick, LinkCleanup, LinkJobDone, FlowChanges,
                  RemoteRestarts, RemoteHangs, linkVars, targetVars, netVars
  <2>2. TableShrinks
    <3>1. TableOK
        BY DEF LinkInv
    <3>2. CASE WorkerAlone \/ LinkJobDone \/ FlowChanges \/ RemoteHangs \/ UNCHANGED linkVars
        BY <3>1, <3>2, SameShrinks
           DEF WorkerAlone, LinkJobDone, JobDone, FlowChanges, RemoteHangs, Hangs, linkVars,
               subsVars, tableVars
    <3>3. CASE LinkTick
        BY <3>1, <3>3, TickShrinks, SubscriptionsOK DEF LinkTick
    <3>4. CASE LinkCleanup
        BY <3>1, <3>4, RemoveShrinks DEF LinkCleanup, Cleanup
    <3>5. CASE RemoteRestarts
        BY <3>5 DEF RemoteRestarts, TableLost, TableShrinks
    <3> QED
        BY <1>7, <3>2, <3>3, <3>4, <3>5
  <2>3. RequestsOK'
      BY <2>1 DEF LinkInv, RequestsOK, loopVars
  <2> QED
      BY <1>1, <2>1, <2>2, <2>3, ShrinkInv
<1> QED
    BY <1>2, <1>3, <1>4, <1>5, <1>6, <1>7, <1>8 DEF Next

THEOREM LinkInvariantHolds == Spec => []LinkInv
BY LinkInitInv, LinkNextInv, PTL DEF Spec

\* Two sending workers never serve the same incarnation of the receiving worker,
\* for any number of faults, attempts and late requests.
THEOREM NeverTwoInitiators == Spec => []OneInitiatorPerInfo
<1>1. LinkInv => OneInitiatorPerInfo
    BY DEF LinkInv
<1> QED
    BY <1>1, LinkInvariantHolds, PTL

\* A target renews the lease of its latest POST and no other, and no DELETE that
\* was given up can still remove it.
THEOREM AlwaysRenewsOwnLease == Spec => []RenewsOwnLease
<1>1. LinkInv => RenewsOwnLease
    BY DEF LinkInv
<1> QED
    BY <1>1, LinkInvariantHolds, PTL

\* The remote proxy owns every sending worker in one place, whatever is lost,
\* late or handled after it was given up, and after it was restarted itself.
LEMMA LinkTable == LeaseInv /\ [Next]_linkVars => LeaseInv'
<1> SUFFICES ASSUME LeaseInv, [Next]_linkVars PROVE LeaseInv'
    OBVIOUS
<1>1. ASSUME UNCHANGED exitVars, (\E ids : Moves(ids)) \/ Adds \/ (\E id : Ends(id))
      PROVE  LeaseInv'
    BY <1>1, MovesKeeps, AddsKeeps, EndsKeeps
<1>2. ASSUME NEW q, NEW r, HandleRequest(q, r)
      PROVE  (\E ids : Moves(ids)) \/ Adds
  <2>1. CASE UNCHANGED tableVars \/ (\E id, given : Renew(id, given))
    <3>1. Moves({})
        BY <2>1 DEF tableVars, Renew, Moves, Live
    <3> QED
        BY <3>1
  <2>2. CASE \E given : Create(given)
      BY <2>2 DEF Create, Adds, Live
  <2>3. ASSUME NEW id, NEW given, Reject(id, given)
        PROVE  Moves({id})
      BY <2>3, RemoveAllMoves, {id} \subseteq Live DEF Reject
  <2>4. ASSUME NEW id, Remove(id)
        PROVE  Moves({id} \cap Live)
      BY <2>4, RemoveAllMoves, {id} \cap Live \subseteq Live DEF Remove
  <2> QED
      BY <1>2, <2>1, <2>2, <2>3, <2>4
         DEF HandleRequest, HandleGet, HandlePost, HandlePatch, Unknown
<1>3. CASE Deliver \/ DeliverLate
    BY <1>1, <1>2, <1>3 DEF Deliver, DeliverLate
<1>4. CASE UNCHANGED subsVars
    BY <1>4 DEF subsVars, tableVars, exitVars, LeaseInv, IdsInOrder, WorkersOwned, OnlyLate, Live
<1>5. CASE LinkTick
  <2>1. Moves({})
      BY <1>5 DEF LinkTick, Tick, Moves, Live
  <2> QED
      BY <1>1, <1>5, <2>1 DEF LinkTick
<1>6. CASE LinkCleanup
  <2>1. Moves(Expired)
      BY <1>6, RemoveAllMoves, Expired \subseteq Live DEF LinkCleanup, Cleanup, Expired
  <2> QED
      BY <1>1, <1>6, <2>1 DEF LinkCleanup
<1>7. CASE LinkJobDone
  <2>1. \E id : Ends(id)
      BY <1>7 DEF LinkJobDone, JobDone, Ends, Live
  <2> QED
      BY <1>1, <1>7, <2>1 DEF LinkJobDone
<1>8. CASE RemoteRestarts
    BY <1>8 DEF RemoteRestarts, TableLost, LeaseInv, IdsInOrder, WorkersOwned, OnlyLate, Live,
                exitVars
<1>9. CASE RemoteHangs
  <2>1. Moves({})
      BY <1>9 DEF RemoteHangs, Hangs, Moves, Live
  <2> QED
      BY <1>1, <1>9, <2>1 DEF RemoteHangs
<1> QED
    BY <1>3, <1>4, <1>5, <1>6, <1>7, <1>8, <1>9
       DEF Next, Receive, Timeout, Abort, GiveUp, TargetAlone, WorkerAlone, CrashAlone, FlowChanges,
           linkVars

\* Joined with a target and a network that lose and delay requests, and across
\* its own restarts, the table still forgets no worker and ends none that is
\* still subscribed (removeSubscription, cleanup jobs).
THEOREM LinkForgetsNoWorker == Spec => []WorkersOwned
<1>1. Init => LeaseInv
    BY InitLease DEF Init
<1>2. LeaseInv => WorkersOwned
    BY DEF LeaseInv
<1> QED
    BY <1>1, <1>2, LinkTable, PTL DEF Spec

-----------------------------------------------------------------------------
(* The table is asked for nothing that Subscriptions does not allow for.     *)

\* The target offers only what an incarnation has published, whatever it is
\* answered.
LEMMA OffersPublished ==
  ASSUME TargetInv, LaunchedFirst, CarriesInfo(req), [TargetNext]_targetVars
  PROVE  LaunchedFirst' /\ CarriesInfo(req)'
<1>1. info # "none" => CurrentInfo \in Infos
  <2>1. info # "none" => inc \in 1..MaxInc /\ info \in {"partial", "full"}
      BY TargetOK DEF LaunchedFirst, TargetInv, WorkerConsistent, TargetTypeOK,
                      Worker!LifeTypeOK, Worker!InfoStates
  <2> QED
      BY <2>1, FlowLinkOK DEF CurrentInfo
<1>2. ASSUME UNCHANGED <<inc, phase>>
      PROVE  LaunchedFirst'
    BY <1>2 DEF LaunchedFirst
<1>3. ASSUME req' = NoReq \/ (\E k \in {"GET", "DELETE"} : \E i : Send(k, i, NoInfo)) \/ req' = req
      PROVE  CarriesInfo(req)'
    BY <1>3 DEF CarriesInfo, NoReq, Send
<1>4. ASSUME NEW k \in {"POST", "PATCH"}, NEW i, Send(k, i, CurrentInfo), info # "none"
      PROVE  CarriesInfo(req)'
    BY <1>1, <1>4 DEF CarriesInfo, Send
<1>5. CASE StopTarget \/ WaitTimer \/ WaitDone \/ HaltDone \/ InfoDone \/ ActiveTimer \/ ActiveDone
    BY <1>2, <1>3, <1>5
       DEF StopTarget, WaitTimer, WaitDone, BeginCleanup, AfterCleanup, HaltDone, InfoDone,
           BackToWait, ActiveTimer, ActiveDone, loopVars, workerVars
<1>6. CASE PostInfo \/ PatchInfo
    BY <1>2, <1>4, <1>6 DEF PostInfo, PatchInfo, Readable, workerVars
<1>7. ASSUME NEW n \in Answers, Answer(n)
      PROVE  LaunchedFirst' /\ CarriesInfo(req)'
  <2>1. CASE GetDefAnswer(n)
      BY <1>2, <1>3, <2>1 DEF GetDefAnswer, BackToWait, workerVars, LaunchedFirst
  <2>2. CASE DeleteAnswer(n) \/ PostAnswer(n) \/ PatchAnswer(n) \/ CheckAnswer(n)
      BY <1>2, <1>3, <2>2
         DEF DeleteAnswer, PostAnswer, PatchAnswer, CheckAnswer, BackToWait, workerVars
  <2> QED
      BY <1>7, <2>1, <2>2 DEF Answer
<1>8. CASE WorkerStep
  <2>1. CarriesInfo(req)'
      BY <1>3, <1>8 DEF WorkerStep, loopVars
  <2>2. LaunchedFirst'
    <3>1. CASE WorkerPrepare
        BY <3>1, TargetOK DEF WorkerPrepare, Worker!Prepare, LaunchedFirst
    <3>2. CASE WorkerRun \/ WorkerGone \/ WorkerDie \/ WorkerHalt \/ WorkerStuck
        BY <3>2 DEF WorkerRun, WorkerGone, WorkerDie, WorkerHalt, WorkerStuck, LaunchedFirst,
                    Worker!Launch, Worker!Publish, Worker!Retract, Worker!Fail, Worker!Die,
                    Worker!Halt, Worker!Stall, Worker!Hang
    <3> QED
        BY <1>8, <3>1, <3>2 DEF WorkerStep
  <2> QED
      BY <2>1, <2>2
<1>9. CASE UNCHANGED targetVars
    BY <1>2, <1>3, <1>9 DEF targetVars, loopVars, workerVars
<1>10. CASE Crash
    BY <1>2, <1>3, <1>10 DEF Crash, Worker!Panic
<1> QED
    BY <1>5, <1>6, <1>7, <1>8, <1>9, <1>10 DEF TargetNext, LoopStep

\* What is handled for the target, in time or late, is a step of Subscriptions.
LEMMA HandledIsAllowed ==
  ASSUME LeaseInv, AskedForKnown, NEW q, NEW r, CarriesInfo(q), HandleRequest(q, r),
         UNCHANGED exitVars
  PROVE  [SubsNext]_subsVars /\ issued' <= MaxIds /\ subs' = [i \in Live' |-> subs'[i]]
<1>1. issued \in Nat /\ Live \subseteq 1..MaxIds
    BY SubscriptionsOK DEF LeaseInv, IdsInOrder, AskedForKnown
<1>2. ASSUME Handle
      PROVE  [SubsNext]_subsVars
    BY <1>2 DEF SubsNext, Exited, AskedForKnown
<1>3. CASE UNCHANGED tableVars
    BY <1>3 DEF tableVars, subsVars, AskedForKnown, Live
<1>4. CASE q.kind = "POST" /\ Create(q.info)
  <2>1. Handle
      BY <1>4 DEF Handle, CarriesInfo
  <2> QED
      BY <1>1, <1>2, <1>4, <2>1, SubscriptionsOK DEF Create, Live
<1>5. CASE q.kind = "PATCH" /\ (Renew(q.id, q.info) \/ Reject(q.id, q.info))
  <2>1. Handle
      BY <1>1, <1>5 DEF Handle, CarriesInfo, Renew, Renews, Reject
  <2> QED
      BY <1>2, <1>5, <2>1 DEF Renew, Reject, RemoveAll, Without, AskedForKnown, Live
<1>6. CASE Remove(q.id)
  <2>1. CASE q.id \in Live
    <3>1. Handle
        BY <1>1, <1>6, <2>1 DEF Handle
    <3> QED
        BY <1>2, <1>6, <3>1 DEF Remove, RemoveAll, Without, AskedForKnown, Live
  <2>2. CASE q.id \notin Live
    <3>1. {q.id} \cap Live = {}
        BY <2>2
    <3>2. UNCHANGED tableVars
        BY <1>6, <3>1 DEF Remove, RemoveAll, Without, AskedForKnown, Live, tableVars
    <3> QED
        BY <1>3, <3>2
  <2> QED
      BY <2>1, <2>2
<1> QED
    BY <1>3, <1>4, <1>5, <1>6 DEF HandleRequest, HandleGet, HandlePost, HandlePatch, Unknown

\* Every step of the composition is one of Subscriptions for the table, its
\* restart, or none, and what the table may be asked for next stays known.
LEMMA LinkAsks ==
  ASSUME LinkInv, LeaseInv, AskedForKnown, [Next]_linkVars
  PROVE  AskedForKnown' /\ [SubsNext \/ TableLost]_subsVars
<1>1. LaunchedFirst' /\ CarriesInfo(req)'
    BY OffersPublished, LinkIsTarget DEF LinkInv, AskedForKnown
<1>2. ASSUME UNCHANGED exitVars, issued' <= MaxIds, subs' = [i \in Live' |-> subs'[i]],
             late' \subseteq late \cup {req}
      PROVE  AskedForKnown'
    BY <1>1, <1>2 DEF AskedForKnown, exitVars, CarriesInfo
<1>3. CASE Deliver \/ DeliverLate
  <2>1. PICK q \in late \cup {req}, r \in Replies : HandleRequest(q, r)
      BY <1>3 DEF Deliver, DeliverLate
  <2>2. CarriesInfo(q) /\ UNCHANGED exitVars /\ late' \subseteq late
      BY <1>3 DEF Deliver, DeliverLate, AskedForKnown
  <2>3. [SubsNext]_subsVars /\ issued' <= MaxIds /\ subs' = [i \in Live' |-> subs'[i]]
      BY <2>1, <2>2, HandledIsAllowed
  <2> QED
      BY <1>2, <2>2, <2>3
<1>4. CASE UNCHANGED subsVars /\ late' \subseteq late \cup {req}
    BY <1>2, <1>4 DEF subsVars, tableVars, AskedForKnown, Live
<1>5. CASE LinkTick \/ LinkCleanup \/ LinkJobDone
  <2>1. UNCHANGED <<exitVars, issued, late>>
      BY <1>5 DEF LinkTick, Tick, LinkCleanup, Cleanup, LinkJobDone, JobDone, netVars
  <2>2. subs' = [i \in Live' |-> subs'[i]]
      BY <1>5 DEF LinkTick, Tick, LinkCleanup, Cleanup, RemoveAll, Without, LinkJobDone, JobDone,
                  AskedForKnown, Live
  <2>3. jobs \subseteq 1..MaxIds
      BY SubscriptionsOK DEF LeaseInv, IdsInOrder, AskedForKnown
  <2>4. SubsNext
      BY <1>5, <2>1, <2>3 DEF LinkTick, LinkCleanup, LinkJobDone, JobDone, SubsNext, Exited,
                              AskedForKnown
  <2> QED
      BY <1>2, <2>1, <2>2, <2>4 DEF AskedForKnown
<1>6. CASE RemoteRestarts
    BY <1>2, <1>6 DEF RemoteRestarts, TableLost, AskedForKnown, Live
<1>7. (\/ Receive \/ Timeout \/ Abort \/ TargetAlone \/ WorkerAlone \/ CrashAlone \/ FlowChanges
       \/ UNCHANGED linkVars) => UNCHANGED subsVars /\ late' \subseteq late \cup {req}
    BY DEF Receive, Timeout, Abort, GiveUp, LostOrLate, TargetAlone, WorkerAlone, CrashAlone,
           FlowChanges, linkVars, netVars
<1>8. CASE RemoteHangs
  <2>1. PICK i \in workers : Hangs(i)
      BY <1>8 DEF RemoteHangs
  <2>2. i \in 1..MaxIds
      BY <2>1, SubscriptionsOK DEF LeaseInv, IdsInOrder, WorkersOwned, AskedForKnown
  <2>3. SubsNext
      BY <1>8, <2>1, <2>2 DEF RemoteHangs, SubsNext, Exited, AskedForKnown
  <2> QED
      BY <1>2, <1>8, <2>1, <2>3 DEF RemoteHangs, Hangs, AskedForKnown, Live
<1> QED
    BY <1>3, <1>4, <1>5, <1>6, <1>7, <1>8 DEF Next

\* The target, and the network between, ask the table for nothing that
\* Subscriptions does not allow for: a POST or PATCH carries a target info that
\* was published, and a late one hits the table as any request may.
THEOREM LinkRefinesTable == Spec => ImplementsTable
<1>1. Init => SubsInit /\ LeaseInv
    BY InitLease DEF Init
<1>2. Init => AskedForKnown
    BY SubscriptionsOK, TargetOK
       DEF Init, TargetInit, SubsInit, Worker!LifeInit, AskedForKnown, LaunchedFirst, CarriesInfo,
           NoReq, Live
<1>3. LinkInv /\ LeaseInv /\ AskedForKnown /\ [Next]_linkVars
        => AskedForKnown' /\ [SubsNext \/ TableLost]_subsVars
    BY LinkAsks
<1> QED
    BY <1>1, <1>2, <1>3, LinkTable, LinkInvariantHolds, PTL DEF Spec, ImplementsTable

(***************************************************************************)
(* The clock of one subscription, for all delays that satisfy LeaseTimingOK. *)
(***************************************************************************)

\* How old a lease can be when the target is at a given stage of its turn.
AgeBefore ==
  [created |-> 0,
   answer  |-> 0,
   check   |-> AnswerMax,
   sleep   |-> AnswerMax + CheckMax,
   info    |-> AnswerMax + CheckMax + KeepAlive,
   ask     |-> AnswerMax + CheckMax + KeepAlive + InfoWait]

\* The inductive invariant of the proofs: the age is within the sum of the
\* delays so far, and once it exceeds the lease the next sweep is due in time.
TimingInv ==
  /\ TimingTypeOK
  /\ stage # "gone" => alive /\ elapsed <= Longest[stage]
                             /\ age <= AgeBefore[stage] + elapsed
  /\ alive /\ age > LeaseTime => age + sweepIn <= LeaseTime + Sweep

\* Entering a stage once the previous one has taken its time keeps the bounds,
\* whatever stage the target leaves.
LEMMA EnterStep ==
  ASSUME TimingInv, NEW from \in Stages, NEW to \in Stages,
         from # "gone",
         Enter(from, to),
         to # "gone" => AgeBefore[to] >= AgeBefore[from] + Longest[from],
         UNCHANGED <<age, sweepIn, alive>>
  PROVE  TimingInv'
<1>1. stage = from /\ stage' = to /\ elapsed' = 0 /\ UNCHANGED <<age, sweepIn, alive>>
  BY DEF Enter
<1>2. TimingTypeOK'
  BY <1>1 DEF TimingInv, TimingTypeOK
<1>3. alive /\ elapsed <= Longest[from] /\ age <= AgeBefore[from] + elapsed
  BY <1>1 DEF TimingInv
<1>4. Longest[from] \in Nat /\ AgeBefore[from] \in Nat
  BY LeaseTimingOK DEF Longest, AgeBefore, Stages
<1>5. age <= AgeBefore[from] + Longest[from]
  BY <1>3, <1>4 DEF TimingInv, TimingTypeOK
<1>6. ASSUME to # "gone" PROVE 0 <= Longest[to] /\ age <= AgeBefore[to] + 0
  <2>1. Longest[to] \in Nat /\ AgeBefore[to] \in Nat
    BY <1>6, LeaseTimingOK DEF Longest, AgeBefore, Stages
  <2> QED
    BY <1>4, <1>5, <1>6, <2>1 DEF TimingInv, TimingTypeOK
<1> QED
  BY <1>1, <1>2, <1>3, <1>6 DEF TimingInv

\* The initial state satisfies the invariant.
LEMMA TimingInitial == TimingStarts => TimingInv
  BY LeaseTimingOK DEF TimingStarts, TimingInv, TimingTypeOK, Stages, Longest, AgeBefore

\* Every step keeps it.
LEMMA TimingStep == TimingInv /\ [TimingNext]_timingVars => TimingInv'
<1> SUFFICES ASSUME TimingInv, [TimingNext]_timingVars PROVE TimingInv'
  OBVIOUS
<1> USE DEF Stages
<1>1. CASE TimePasses
  <2>1. TimingTypeOK'
    BY <1>1, LeaseTimingOK DEF TimePasses, TimingInv, TimingTypeOK
  <2>2. ASSUME stage # "gone"
        PROVE  alive' /\ elapsed' <= Longest[stage] /\ age' <= AgeBefore[stage] + elapsed'
    <3>1. Longest[stage] \in Nat /\ AgeBefore[stage] \in Nat
      BY <2>2, LeaseTimingOK DEF Longest, AgeBefore, TimingInv, TimingTypeOK
    <3> QED
      BY <1>1, <2>2, <3>1 DEF TimePasses, TimingInv, TimingTypeOK
  <2>3. alive' /\ age' > LeaseTime => age' + sweepIn' <= LeaseTime + Sweep
    BY <1>1, LeaseTimingOK DEF TimePasses, TimingInv, TimingTypeOK
  <2> QED
    BY <1>1, <2>1, <2>2, <2>3 DEF TimePasses, TimingInv
<1>2. CASE Subscribed
  BY <1>2, EnterStep, LeaseTimingOK DEF Subscribed, AgeBefore, Longest
<1>3. CASE Wake
  BY <1>3, EnterStep, LeaseTimingOK DEF Wake, AgeBefore, Longest
<1>4. CASE Patch
  BY <1>4, EnterStep, LeaseTimingOK DEF Patch, AgeBefore, Longest
<1>5. CASE Answered
  BY <1>5, EnterStep, LeaseTimingOK DEF Answered, AgeBefore, Longest
<1>6. CASE Checked
  BY <1>6, EnterStep, LeaseTimingOK DEF Checked, AgeBefore, Longest
<1>7. CASE RenewLease
  <2>1. stage' = "answer" /\ elapsed' = 0 /\ age' = 0 /\ alive /\ UNCHANGED <<sweepIn, alive>>
    BY <1>7 DEF RenewLease, Enter
  <2>2. AgeBefore["answer"] = 0 /\ Longest["answer"] = AnswerMax
    BY DEF AgeBefore, Longest
  <2> QED
    BY <2>1, <2>2, LeaseTimingOK DEF TimingInv, TimingTypeOK
<1>8. CASE Vanish
  BY <1>8, EnterStep DEF Vanish, TimingInv, TimingTypeOK
<1>9. CASE SweepLeases
  <2>1. ASSUME stage # "gone" PROVE age <= LeaseTime
    <3>1. stage \in {"created", "answer", "check", "sleep", "info", "ask"}
      BY <2>1 DEF TimingInv, TimingTypeOK
    <3>2. AgeBefore[stage] + Longest[stage] <= LeaseTime
      BY <3>1, LeaseTimingOK DEF AgeBefore, Longest
    <3>3. AgeBefore[stage] \in Nat /\ Longest[stage] \in Nat
      BY <3>1, LeaseTimingOK DEF AgeBefore, Longest
    <3> QED
      BY <2>1, <3>2, <3>3, LeaseTimingOK DEF TimingInv, TimingTypeOK
  <2>2. TimingTypeOK'
    BY <1>9, LeaseTimingOK DEF SweepLeases, TimingInv, TimingTypeOK
  <2>3. stage # "gone" => alive' /\ elapsed' <= Longest[stage] /\ age' <= AgeBefore[stage] + elapsed'
    BY <1>9, <2>1 DEF SweepLeases, TimingInv
  <2>4. alive' => ~(age' > LeaseTime)
    <3>1. alive' => age <= LeaseTime
      BY <1>9, Zenon DEF SweepLeases
    <3>2. age' = age /\ age \in Int /\ LeaseTime \in Int
      BY <1>9, LeaseTimingOK DEF SweepLeases, TimingInv, TimingTypeOK
    <3> QED
      BY <3>1, <3>2
  <2> QED
    BY <1>9, <2>2, <2>3, <2>4 DEF SweepLeases, TimingInv
<1>10. CASE UNCHANGED timingVars
  BY <1>10 DEF timingVars, TimingInv, TimingTypeOK
<1> QED
  BY <1>1, <1>2, <1>3, <1>4, <1>5, <1>6, <1>7, <1>8, <1>9, <1>10 DEF TimingNext

\* The age of a lease is within the delays of the renewal so far.
THEOREM TimingInvariantHolds == TimingSpec => []TimingInv
  BY TimingInitial, TimingStep, PTL DEF TimingSpec

\* A target that works, however slow within the assumed delays, keeps the
\* subscription it renews with runActive (target.go, subscriptions.go).
THEOREM SlowTargetKeepsLease == TimingSpec => []LeaseHeld
<1>1. TimingInv => LeaseHeld
  BY DEF TimingInv, LeaseHeld
<1> QED
  BY <1>1, TimingInvariantHolds, PTL

\* The sweep ends the subscription of a target that is gone within the lease
\* and one period of the sweep (cleanup in subscriptions.go).
THEOREM OrphanLifetime == TimingSpec => []OrphanBounded
<1>1. TimingInv => OrphanBounded
  BY LeaseTimingOK DEF TimingInv, TimingTypeOK, OrphanBounded
<1> QED
  BY <1>1, TimingInvariantHolds, PTL
=============================================================================
