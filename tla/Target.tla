------------------------------- MODULE Target -------------------------------
(***************************************************************************)
(* go/pkg/target/target.go: the receiving side of one flow.  The goroutine  *)
(* run() asks the remote proxy for the flow definition, starts a worker,    *)
(* offers that worker's target info to the remote proxy in a POST and then  *)
(* renews the subscription it got with a PATCH every nine seconds.  Any     *)
(* error sends it back to the top of the loop, where cleanup() deletes the  *)
(* subscription and stops the worker before the next attempt.               *)
(*                                                                          *)
(* The worker is a WorkerLife: it may stall, hang or panic.  A request is the variable req, from the     *)
(* step that sends it to the step that takes its answer: n > 0 stands for   *)
(* status 200 with payload n, 0 for any other outcome, and the code treats  *)
(* every other outcome alike (a status, a broken connection, a timeout, its *)
(* own context being done).  Who answers is left open here: FlowLink        *)
(* composes the target with the proxy it talks to.                          *)
(***************************************************************************)
EXTENDS Integers

CONSTANTS MaxInc,     \* bound: incarnations of the worker, all attempts together
          Answers     \* what a request may be answered with

ASSUME TargetOK == MaxInc \in Nat /\ Answers \subseteq Nat

VARIABLES tpc,        \* where run() is; at a request, it waits for the answer;
                      \* "crashed": the proxy has ended by a panic
          leaving,    \* this cleanup() is the deferred one: run() is returning
          tctx,       \* the target's context is cancelled (Stop)
          made,       \* t.worker is not nil
          wstop,      \* t.wcancel was called on the current worker
          active,     \* t.activeSubscription, 0 for the empty string
          def,        \* t.flowDef, 0 for nil
          req,        \* the request under way
          lastPost,   \* history: incarnation whose info was posted last
          inc, phase, info, sup   \* the current worker, see WorkerLife

loopVars   == <<tpc, leaving, active, def, req, lastPost>>
ownerVars  == <<made, wstop>>
workerVars == <<inc, phase, info, sup>>
targetVars == <<loopVars, tctx, ownerVars, workerVars>>

Worker == INSTANCE WorkerLife WITH told <- wstop

NoInfo == [inc |-> 0, state |-> "none"]
NoReq  == [kind |-> "none", id |-> 0, info |-> NoInfo]

\* What GetTargetInfo returns now.
CurrentInfo == [inc |-> inc, state |-> info]

Send(kind, id, i) == req' = [kind |-> kind, id |-> id, info |-> i]

TargetInit ==
  /\ tpc = "wait" /\ leaving = FALSE /\ tctx = FALSE
  /\ made = FALSE /\ wstop = FALSE
  /\ active = 0 /\ def = 0 /\ req = NoReq /\ lastPost = 0
  /\ Worker!LifeInit

\* Stop(), or the end of the proxy.
StopTarget ==
  /\ ~tctx /\ tpc # "crashed"
  /\ tctx' = TRUE
  /\ UNCHANGED <<loopVars, ownerVars, workerVars>>

-----------------------------------------------------------------------------
(* The top of the loop and cleanup().                                       *)

\* cleanup() is over: run() returns, or asks for the flow definition.
AfterCleanup(leave) ==
  IF leave THEN tpc' = "stopped" /\ req' = NoReq
           ELSE tpc' = "getdef" /\ Send("GET", 0, NoInfo)

BeginCleanup(leave) ==
  /\ tpc = "wait"
  /\ leaving' = leave
  /\ \/ ~made /\ AfterCleanup(leave) /\ UNCHANGED wstop
     \/ /\ made /\ active # 0
        /\ tpc' = "delete" /\ Send("DELETE", active, NoInfo)
        /\ UNCHANGED wstop
     \/ /\ made /\ active = 0
        /\ tpc' = "halt" /\ wstop' = TRUE
        /\ UNCHANGED req
  /\ UNCHANGED <<tctx, made, active, def, lastPost, workerVars>>

\* The timer, or the context, wins the select; both may be ready.
WaitTimer == BeginCleanup(FALSE)
WaitDone  == tctx /\ BeginCleanup(TRUE)

\* An error of the DELETE is only logged.  The subscription id is kept, and
\* deleted again by the next cleanup().
DeleteAnswer(n) ==
  /\ tpc = "delete"
  /\ tpc' = "halt" /\ req' = NoReq /\ wstop' = TRUE
  /\ UNCHANGED <<leaving, active, def, lastPost, tctx, made, workerVars>>

\* Mutant: cleanup() does not wait for the worker.
HaltNoWait ==
  /\ tpc = "halt"
  /\ AfterCleanup(leaving)
  /\ UNCHANGED <<leaving, active, def, lastPost, tctx, ownerVars, workerVars>>

\* t.wwg.Wait returns.
HaltDone ==
  /\ tpc = "halt" /\ sup = "halted"
  /\ AfterCleanup(leaving)
  /\ UNCHANGED <<leaving, active, def, lastPost, tctx, ownerVars, workerVars>>

-----------------------------------------------------------------------------
(* getFlowDefinition, startWorker, createSubscription.                      *)

BackToWait == tpc' = "wait" /\ req' = NoReq


\* startWorker waits for the worker it replaces and makes a new ProxyWorker.
GetDefAnswer(n) ==
  /\ tpc = "getdef"
  /\ \/ /\ n = 0 /\ BackToWait
        /\ UNCHANGED <<def, ownerVars, workerVars>>
     \/ /\ n > 0 /\ (made => sup = "halted")
        /\ def' = n
        /\ made' = TRUE /\ wstop' = FALSE
        /\ inc' = inc /\ phase' = "new" /\ info' = "none" /\ sup' = "run"
        /\ tpc' = "info" /\ req' = NoReq
  /\ UNCHANGED <<leaving, active, lastPost, tctx>>

\* GetTargetInfo locks w.mu, which a worker that hangs never unlocks.
Readable == info # "none" /\ sup # "hung"

\* getTargetInfo tries until it can read the file, or its context is done.
PostInfo ==
  /\ tpc = "info" /\ Readable
  /\ tpc' = "post" /\ Send("POST", 0, CurrentInfo)
  /\ lastPost' = inc
  /\ UNCHANGED <<leaving, active, def, tctx, ownerVars, workerVars>>

\* Mutant: the first getTargetInfo does not look at its context.
InfoDeaf ==
  /\ tpc = "kainfo" /\ tctx
  /\ BackToWait
  /\ UNCHANGED <<leaving, active, def, lastPost, tctx, ownerVars, workerVars>>

InfoDone ==
  /\ tpc \in {"info", "kainfo"} /\ tctx
  /\ BackToWait
  /\ UNCHANGED <<leaving, active, def, lastPost, tctx, ownerVars, workerVars>>

\* Mutant: a failed POST is tried again at once.
PostRetries(n) ==
  /\ tpc = "post"
  /\ req' = NoReq
  /\ \/ n = 0 /\ tpc' = "info" /\ UNCHANGED active
     \/ n > 0 /\ active' = n /\ tpc' = "active"
  /\ UNCHANGED <<leaving, def, lastPost, tctx, ownerVars, workerVars>>

\* Mutant: after a failed POST the previous subscription is used.
PostFallsBack(n) ==
  /\ tpc = "post"
  /\ req' = NoReq
  /\ active' = IF n > 0 THEN n ELSE active
  /\ tpc' = IF active' = 0 THEN "wait" ELSE "active"
  /\ UNCHANGED <<leaving, def, lastPost, tctx, ownerVars, workerVars>>

PostAnswer(n) ==
  /\ tpc = "post"
  /\ \/ n = 0 /\ BackToWait /\ UNCHANGED active
     \/ n > 0 /\ active' = n /\ tpc' = "active" /\ req' = NoReq
  /\ UNCHANGED <<leaving, def, lastPost, tctx, ownerVars, workerVars>>

-----------------------------------------------------------------------------
(* runActive and keepAlive.                                                 *)

ActiveTimer ==
  /\ tpc = "active"
  /\ tpc' = "kainfo"
  /\ UNCHANGED <<leaving, active, def, req, lastPost, tctx, ownerVars, workerVars>>

ActiveDone ==
  /\ tpc = "active" /\ tctx
  /\ BackToWait
  /\ UNCHANGED <<leaving, active, def, lastPost, tctx, ownerVars, workerVars>>

PatchInfo ==
  /\ tpc = "kainfo" /\ Readable
  /\ tpc' = "patch" /\ Send("PATCH", active, CurrentInfo)
  /\ UNCHANGED <<leaving, active, def, lastPost, tctx, ownerVars, workerVars>>

PatchAnswer(n) ==
  /\ tpc = "patch"
  /\ IF n = 0 THEN BackToWait ELSE tpc' = "check" /\ Send("GET", 0, NoInfo)
  /\ UNCHANGED <<leaving, active, def, lastPost, tctx, ownerVars, workerVars>>

\* A definition that cannot be read is only logged; another one ends the lease.
CheckAnswer(n) ==
  /\ tpc = "check"
  /\ req' = NoReq
  /\ tpc' = IF n \in {0, def} THEN "active" ELSE "wait"
  /\ UNCHANGED <<leaving, active, def, lastPost, tctx, ownerVars, workerVars>>

Answer(n) == DeleteAnswer(n) \/ GetDefAnswer(n) \/ PostAnswer(n) \/ PatchAnswer(n)
               \/ CheckAnswer(n)

-----------------------------------------------------------------------------
(* The worker.                                                              *)

\* The steps a WorkerLife may take.  It halts only after t.wcancel, and may be
\* launched once more after it, when a timer and the context are both ready.
WorkerPrepare ==
  made /\ inc < MaxInc /\ inc' = inc + 1 /\ Worker!Prepare
WorkerRun   == made /\ (Worker!Launch \/ Worker!Publish)
WorkerGone  == made /\ Worker!Retract
WorkerDie   == made /\ (Worker!Fail \/ Worker!Die)
WorkerHalt  == made /\ Worker!Halt
WorkerStuck == made /\ (Worker!Stall \/ Worker!Hang)

WorkerStep ==
  /\ \/ WorkerPrepare \/ WorkerRun \/ WorkerGone \/ WorkerDie \/ WorkerHalt
     \/ WorkerStuck
  /\ UNCHANGED <<loopVars, tctx, ownerVars>>

\* The worker's goroutine panics, and the proxy is gone, with its requests.
Crash ==
  /\ made /\ Worker!Panic
  /\ tpc' = "crashed" /\ req' = NoReq
  /\ UNCHANGED <<leaving, active, def, lastPost, tctx, ownerVars>>

\* The steps of run() that need no answer.
LoopStep == WaitTimer \/ WaitDone \/ HaltDone \/ PostInfo \/ InfoDone
              \/ ActiveTimer \/ ActiveDone \/ PatchInfo

TargetNext ==
  StopTarget \/ LoopStep \/ WorkerStep \/ Crash \/ \E n \in Answers : Answer(n)

TargetSpec == TargetInit /\ [][TargetNext]_targetVars

-----------------------------------------------------------------------------
(* Properties.                                                              *)

Requests == {"delete", "getdef", "post", "patch", "check"}

InfoType == [inc : Nat, state : Worker!InfoStates]
ReqType  == [kind : {"none", "GET", "POST", "PATCH", "DELETE"}, id : Nat, info : InfoType]

TargetTypeOK ==
  /\ tpc \in {"wait", "halt", "info", "active", "kainfo", "stopped", "crashed"} \cup Requests
  /\ leaving \in BOOLEAN /\ tctx \in BOOLEAN /\ made \in BOOLEAN /\ wstop \in BOOLEAN
  /\ active \in Nat /\ def \in Nat /\ lastPost \in Nat
  /\ req \in ReqType
  /\ Worker!LifeTypeOK

\* Between two attempts, and after Stop() has returned, no worker process of
\* this target is left, whatever the remote proxy answered and when.
StoppedIsClean ==
  tpc \in {"getdef", "stopped"} /\ made =>
    sup = "halted" /\ phase \in {"new", "idle"} /\ info = "none"

\* The target info that is about to be offered belongs to an incarnation that
\* was never offered before: a failed POST, which the remote proxy may have
\* accepted all the same, is never repeated with the same target info.
InfoOfferedOnce == tpc = "info" /\ info # "none" => inc > lastPost
=============================================================================
