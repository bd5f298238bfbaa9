------------------------------ MODULE FlowLink ------------------------------
(***************************************************************************)
(* One flow from end to end: a Target (go/pkg/target/target.go) and the     *)
(* Subscriptions table of the remote proxy it talks to                      *)
(* (go/pkg/initiator/subscriptions.go), over HTTP.                          *)
(*                                                                          *)
(* A handler is one step of the remote proxy.  The target gives a request   *)
(* up when the connection breaks, when its http.Client times out after five *)
(* seconds or when its context is done.  A request given up may not have    *)
(* reached its handler yet, and can still do so later, when the target is   *)
(* long past it (late); an answer given up has had its effect.  Nothing is  *)
(* sent twice: net/http does not repeat these requests by itself.           *)
(***************************************************************************)
EXTENDS Target, Subscriptions

CONSTANTS MaxFaults,  \* bound: everything that goes wrong, counted together
          Timely,     \* a renewal always comes before its lease is over
          MayStop     \* the target may be stopped

\* Status 200 with an id or a version of the definition, or 0.
Replies == 0..(MaxIds + MaxFaults + 1)

ASSUME FlowLinkOK ==
  /\ MaxFaults \in Nat /\ Timely \in BOOLEAN /\ MayStop \in BOOLEAN
  /\ Replies \subseteq Answers
  /\ [inc : 1..MaxInc, state : {"partial", "full"}] \subseteq Infos

VARIABLES flow,       \* version of the remote flow's definition, 0: no flow
          reply,      \* answer under way to the target, -1: none yet
          late,       \* requests given up that may still reach their handler
          faults

netVars  == <<flow, reply, late, faults>>
linkVars == <<targetVars, subsVars, netVars>>

Init ==
  /\ TargetInit /\ SubsInit
  /\ flow \in {0, 1} /\ reply = -1 /\ late = {} /\ faults = 0

Fault == faults < MaxFaults /\ faults' = faults + 1

-----------------------------------------------------------------------------
(* The remote proxy's handlers: Handle(q, r) handles q and answers r.       *)

HandleGet(r) == r = flow /\ UNCHANGED tableVars

\* domains.Find comes first: without the flow the answer is 404.
HandlePost(q, r) ==
  \/ flow = 0 /\ r = 0 /\ UNCHANGED tableVars
  \/ flow # 0 /\ Create(q.info) /\ r = issued + 1

HandlePatch(q, r) ==
  \/ Renew(q.id, q.info) /\ r = 1
  \/ Reject(q.id, q.info) /\ r = 0
  \/ Unknown(q.id) /\ r = 0

HandleRequest(q, r) ==
  \/ q.kind = "GET" /\ HandleGet(r)
  \/ q.kind = "POST" /\ HandlePost(q, r)
  \/ q.kind = "PATCH" /\ HandlePatch(q, r)
  \/ q.kind = "DELETE" /\ Remove(q.id) /\ r = 1

\* The request under way is handled.
Deliver ==
  /\ req # NoReq /\ reply = -1
  /\ \E r \in Replies : HandleRequest(req, r) /\ reply' = r
  /\ UNCHANGED <<targetVars, exitVars, flow, late, faults>>

\* A request that was given up is handled after all; nobody reads the answer.
DeliverLate ==
  /\ \E q \in late :
       /\ \E r \in Replies : HandleRequest(q, r)
       /\ late' = late \ {q}
  /\ UNCHANGED <<targetVars, exitVars, flow, reply, faults>>

-----------------------------------------------------------------------------
(* The target's side of a request.                                          *)

Receive ==
  /\ req # NoReq /\ reply # -1
  /\ Answer(reply)
  /\ reply' = -1
  /\ UNCHANGED <<subsVars, flow, late, faults>>

\* The request is given up; its answer, if there is one, is dropped.
GiveUp ==
  /\ req # NoReq
  /\ Answer(0)
  /\ reply' = -1
  /\ UNCHANGED <<subsVars, flow>>

\* A request that no handler has seen is lost, or comes late.
LostOrLate ==
  \/ UNCHANGED late
  \/ reply = -1 /\ req.kind \in {"POST", "PATCH", "DELETE"} /\ late' = late \cup {req}

\* A broken connection or the client's timeout.
Timeout == GiveUp /\ Fault /\ LostOrLate

\* The target's context ends its requests, but not the DELETE of cleanup().
\* With a fault such a request is late as well: that is a Timeout.
Abort ==
  /\ tctx /\ req.kind # "DELETE"
  /\ GiveUp
  /\ UNCHANGED <<faults, late>>

-----------------------------------------------------------------------------
(* Everything else.                                                         *)

\* Reading the target info while the worker is still writing it is a fault.
TargetAlone ==
  /\ (MayStop /\ StopTarget) \/ LoopStep
  /\ IF tpc = "info" /\ tpc' = "post" /\ info = "partial" THEN Fault ELSE UNCHANGED faults
  /\ UNCHANGED <<subsVars, flow, reply, late>>

\* So is a worker that ends without being told to, is launched once more after
\* it was told to, fails its first launch, or hangs.
WorkerAlone ==
  /\ WorkerStep
  /\ IF \/ phase' = "down" /\ ~wstop /\ phase # "down"
        \/ phase' = "ready" /\ wstop /\ phase # "ready"
        \/ WorkerStuck
       THEN Fault ELSE UNCHANGED faults
  /\ UNCHANGED <<subsVars, flow, reply, late>>

\* A worker whose first launch failed has been told to halt: run() is about to
\* call the nil w.cancel.
Doomed == phase = "stalled" /\ wstop

\* A panic ends the target's proxy.  That of a doomed worker is no fault of its own.
CrashAlone ==
  /\ Crash
  /\ IF Doomed THEN UNCHANGED faults ELSE Fault
  /\ LostOrLate /\ reply' = -1
  /\ UNCHANGED <<subsVars, flow>>

\* The target is about to renew lease i, or has just done so.
Renewing(i) == i = active /\ tpc \in {"active", "kainfo", "patch", "check"}

\* Under Timely the answer to the POST and the target's next PATCH arrive before
\* the lease is over: LeaseTiming shows which delays guarantee that.
LinkTick ==
  /\ Timely => \A i \in Live : subs[i].age = Lease =>
                  ~Renewing(i) /\ ~(tpc = "post" /\ reply = i)
  /\ Tick
  /\ UNCHANGED <<targetVars, exitVars, netVars>>

LinkCleanup == Cleanup /\ UNCHANGED <<targetVars, exitVars, netVars>>

LinkJobDone ==
  /\ \E i \in jobs : JobDone(i)
  /\ UNCHANGED <<targetVars, exitVars, netVars>>

\* The flow appears, disappears, is replaced at the remote host or is back to an
\* earlier definition.
FlowChanges ==
  /\ Fault
  /\ flow' \in 0..(faults + 2)
  /\ flow' # flow
  /\ UNCHANGED <<targetVars, subsVars, reply, late>>

\* The remote proxy is restarted and has forgotten every subscription.
TableLost ==
  /\ subs' = [i \in {} |-> 0] /\ workers' = {} /\ jobs' = {} /\ stuck' = {}
  /\ UNCHANGED <<issued, exitVars>>

RemoteRestarts == Fault /\ TableLost /\ UNCHANGED <<targetVars, flow, reply, late>>

\* A sending worker hangs.
RemoteHangs ==
  /\ Fault
  /\ \E i \in workers : Hangs(i)
  /\ UNCHANGED <<targetVars, exitVars, flow, reply, late>>

Next ==
  \/ Deliver \/ DeliverLate \/ Receive \/ Timeout \/ Abort
  \/ TargetAlone \/ WorkerAlone \/ CrashAlone
  \/ LinkTick \/ LinkCleanup \/ LinkJobDone
  \/ FlowChanges \/ RemoteRestarts \/ RemoteHangs

Spec == Init /\ [][Next]_linkVars

\* The loop is, or soon will be, in GetTargetInfo, waiting for w.mu.
Blocked == sup = "hung" /\ tpc \in {"info", "kainfo"}

\* Requests are handled and answered, goroutines run unless they are blocked,
\* timers fire, the clock runs.  A supervisor that does not stall, hang or panic
\* launches its worker again (Relaunched of ProxyWorker), which comes up and
\* publishes its info; told to, it halts.  A select that has both a timer and the
\* context, here the one at the top of the loop and the one of runActive, does not
\* forever overlook the context.
Fairness ==
  /\ WF_linkVars(Deliver) /\ WF_linkVars(Receive) /\ WF_linkVars(Abort)
  /\ WF_linkVars(~Blocked /\ LoopStep /\ TargetAlone)
  /\ SF_linkVars(WaitDone /\ TargetAlone) /\ SF_linkVars(ActiveDone /\ TargetAlone)
  /\ WF_linkVars((WorkerPrepare \/ WorkerRun \/ WorkerGone) /\ WorkerAlone)
  /\ WF_linkVars(wstop /\ WorkerDie /\ WorkerAlone)
  /\ WF_linkVars(WorkerHalt /\ WorkerAlone)
  /\ WF_linkVars(Doomed /\ CrashAlone)
  /\ WF_linkVars(LinkTick) /\ WF_linkVars(LinkCleanup) /\ WF_linkVars(LinkJobDone)

FairSpec == Spec /\ Fairness

-----------------------------------------------------------------------------
(* Properties.                                                              *)

\* The remote proxy never runs two sending workers for one incarnation of the
\* receiving worker, even when an answer is lost, a POST is handled after the
\* target has given it up, or the target has started over in between.
OneInitiatorPerInfo ==
  \A i, j \in Live : subs[i].info.inc = subs[j].info.inc => i = j

\* The lease a target renews is the one its own latest POST created, never one
\* left over from an earlier attempt, and no DELETE of an earlier cleanup() that is
\* handled late can remove it.
RenewsOwnLease ==
  /\ \A i \in Live : Renewing(i) => subs[i].info.inc = lastPost
  /\ \A q \in late : q.kind = "DELETE" => ~Renewing(q.id)

\* The table is asked for nothing that Subscriptions does not allow for: but for
\* its restarts, what is shown of Subscriptions holds of the composition.
ImplementsTable == SubsInit /\ [][SubsNext \/ TableLost]_subsVars

\* Stop() returns, whatever happens to the requests, unless the worker hangs; that
\* of a worker that never launched takes the proxy with it.
StopCompletes == tctx ~> (tpc \in {"stopped", "crashed"} \/ sup = "hung")


\* The transfer runs: the target renews a live lease, and the sending worker was
\* given the complete info of the process that is receiving.
Serving ==
  /\ active \in Live \ stuck /\ Renewing(active)
  /\ phase = "up" /\ info = "full" /\ subs[active].info = CurrentInfo

\* One of the two supervisors does not launch its worker again, see ProxyWorker.
Lame == phase = "stalled" \/ sup = "hung" \/ tpc = "crashed" \/ active \in stuck

=============================================================================
