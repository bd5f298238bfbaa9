----------------------------- MODULE ProxyLocks -----------------------------
(***************************************************************************)
(* Who waits for whose mutex in the proxy: requests to the lease table      *)
(* (s.mu, go/pkg/initiator/subscriptions.go), lookups of flows (d.mu,       *)
(* domains.go), scrapes (m.mu, go/pkg/metrics/metrics.go, GetMetrics of     *)
(* go/pkg/worker/metrics.go), health checks (go/pkg/health) and the         *)
(* supervisors of the workers (w.mu, go/pkg/worker/exec.go).                *)
(*                                                                          *)
(* Create holds s.mu when it adds the worker to the metrics, a scrape holds *)
(* m.mu when it asks a worker, and terminate() holds w.mu until the worker  *)
(* is gone.  What a mutex guards for one statement only is one step.  The   *)
(* mutex of Targets is always of that kind and left out.                    *)
(***************************************************************************)
EXTENDS Naturals, FiniteSets

CONSTANTS Clients,       \* connections, each with one request at a time
          Workers,       \* sending workers, one per subscription
          Kinds,         \* of requests
          LateObserver,  \* the observer may wake while its worker is terminated
          MaxRequests,   \* bound: requests
          MaxExits       \* bound: unexpected ends of workers

ASSUME LocksOK ==
  /\ Kinds \subseteq {"health", "create", "remove", "scrape"}
  /\ LateObserver \in BOOLEAN /\ MaxRequests \in Nat /\ MaxExits \in Nat

VARIABLES pc,          \* what each connection is about to do
          item,        \* the worker it has started and not yet added
          owner,       \* of a worker: "none", "table", "job", "wait"
          registered,  \* m.workers
          scan,        \* the goroutines of the scrape, one per worker
          wpc,         \* run() of the worker
          opc,         \* runFlowObservation
          cancelled,   \* the context of run() is done
          requests, exits

tableVars  == <<owner, registered, cancelled>>
workerVars == <<wpc, opc, exits>>
vars       == <<pc, item, tableVars, scan, workerVars, requests>>

Init ==
  /\ pc = [c \in Clients |-> "idle"] /\ item = [c \in Clients |-> {}]
  /\ owner = [k \in Workers |-> "none"] /\ registered = {}
  /\ scan = [k \in Workers |-> "done"]
  /\ wpc = [k \in Workers |-> "none"] /\ opc = [k \in Workers |-> "quit"]
  /\ cancelled = [k \in Workers |-> FALSE]
  /\ requests = 0 /\ exits = 0

HoldsS(c) == pc[c] \in {"find", "reading", "start", "add"}
HoldsD(c) == pc[c] = "reading"
HoldsM(c) == pc[c] = "collect"

FreeS == \A c \in Clients : ~HoldsS(c)
FreeD == \A c \in Clients : ~HoldsD(c)
FreeM == \A c \in Clients : ~HoldsM(c)
FreeW(k) == wpc[k] # "join" /\ opc[k] # "observe"

-----------------------------------------------------------------------------
(* Requests.                                                                *)

Goto(c, l) == pc' = [pc EXCEPT ![c] = l]

Ask(c) ==
  /\ pc[c] = "idle" /\ requests < MaxRequests /\ requests' = requests + 1
  /\ \E kind \in Kinds : Goto(c, kind)
  /\ UNCHANGED <<item, tableVars, scan, workerVars>>

Quietly == UNCHANGED <<item, tableVars, scan, workerVars, requests>>

CountDomains(c) == pc[c] = "health" /\ FreeD /\ Goto(c, "count") /\ Quietly
CountSubs(c)    == pc[c] = "count" /\ FreeS /\ Goto(c, "idle") /\ Quietly

\* Create: the flow is read from the file system under s.mu and d.mu.
CreateLock(c) == pc[c] = "create" /\ FreeS /\ Goto(c, "find") /\ Quietly
Find(c)       == pc[c] = "find" /\ FreeD /\ Goto(c, "reading") /\ Quietly

Found(c) ==
  /\ pc[c] = "reading"
  /\ \/ (\E k \in Workers : owner[k] = "none") /\ Goto(c, "start")
     \/ Goto(c, "idle")
  /\ Quietly

\* Mutant: the table is given free before the worker is known to the metrics.
StartEarly(c) ==
  /\ pc[c] = "start"
  /\ \E k \in Workers :
       /\ owner[k] = "none"
       /\ owner' = [owner EXCEPT ![k] = "table"]
       /\ wpc' = [wpc EXCEPT ![k] = "gap"]
       /\ item' = [item EXCEPT ![c] = {k}]
  /\ Goto(c, "late")
  /\ UNCHANGED <<registered, cancelled, scan, opc, exits, requests>>

\* NewSubscription starts the worker and then adds it to the metrics.
Start(c) ==
  /\ pc[c] = "start"
  /\ \E k \in Workers :
       /\ owner[k] = "none"
       /\ owner' = [owner EXCEPT ![k] = "table"]
       /\ wpc' = [wpc EXCEPT ![k] = "gap"]
       /\ item' = [item EXCEPT ![c] = {k}]
  /\ Goto(c, "add")
  /\ UNCHANGED <<registered, cancelled, scan, opc, exits, requests>>

Add(c) ==
  /\ pc[c] \in {"add", "late"} /\ FreeM
  /\ registered' = registered \cup item[c] /\ item' = [item EXCEPT ![c] = {}]
  /\ Goto(c, "idle")
  /\ UNCHANGED <<owner, cancelled, scan, workerVars, requests>>

\* DELETE, a PATCH with another target info, the sweep.
Remove(c) ==
  /\ pc[c] = "remove" /\ FreeS
  /\ \/ \E k \in Workers : owner[k] = "table" /\ owner' = [owner EXCEPT ![k] = "job"]
     \/ UNCHANGED owner
  /\ Goto(c, "idle")
  /\ UNCHANGED <<item, registered, cancelled, scan, workerVars, requests>>

\* Metrics.ServeHTTP: m.mu, and a goroutine per worker.
Scrape(c) ==
  /\ pc[c] = "scrape" /\ FreeM
  /\ scan' = [k \in Workers |-> IF k \in registered THEN "socket" ELSE "done"]
  /\ Goto(c, "collect")
  /\ UNCHANGED <<item, tableVars, workerVars, requests>>

\* Mutant: the number of subscriptions is reported with the metrics.
CollectedCounts(c) ==
  /\ pc[c] = "collect" /\ \A k \in Workers : scan[k] = "done"
  /\ FreeS
  /\ Goto(c, "idle") /\ Quietly

Collected(c) ==
  /\ pc[c] = "collect" /\ \A k \in Workers : scan[k] = "done"
  /\ Goto(c, "idle") /\ Quietly

Client(c) == CountDomains(c) \/ CountSubs(c) \/ CreateLock(c) \/ Find(c) \/ Found(c) \/ Start(c)
               \/ Add(c) \/ Remove(c) \/ Scrape(c) \/ Collected(c)

-----------------------------------------------------------------------------
(* GetMetrics: the path of the socket and the flow state are read under     *)
(* w.mu; the connection is given three seconds, the mutex any time.         *)

Advance(k, from, to) ==
  /\ scan[k] = from /\ scan' = [scan EXCEPT ![k] = to]
  /\ UNCHANGED <<pc, item, tableVars, workerVars, requests>>

GetSocket(k) == FreeW(k) /\ Advance(k, "socket", "dial")
Dialled(k)   == Advance(k, "dial", "state") \/ Advance(k, "dial", "done")
FlowState(k) == FreeW(k) /\ Advance(k, "state", "done")

GetMetrics(k) == GetSocket(k) \/ Dialled(k) \/ FlowState(k)

-----------------------------------------------------------------------------
(* Subscription.Terminate, in a cleanup job.                                *)

\* Mutant: the worker is only taken out of the metrics.
UnregisterOnly(k) ==
  /\ owner[k] = "job" /\ FreeM
  /\ registered' = registered \ {k}
  /\ owner' = [owner EXCEPT ![k] = "wait"]
  /\ UNCHANGED <<pc, item, cancelled, scan, workerVars, requests>>

Unregister(k) ==
  /\ owner[k] = "job" /\ FreeM
  /\ registered' = registered \ {k}
  /\ cancelled' = [cancelled EXCEPT ![k] = TRUE]
  /\ owner' = [owner EXCEPT ![k] = "wait"]
  /\ UNCHANGED <<pc, item, scan, workerVars, requests>>

JobDone(k) ==
  /\ owner[k] = "wait" /\ wpc[k] = "ended"
  /\ owner' = [owner EXCEPT ![k] = "none"]
  /\ wpc' = [wpc EXCEPT ![k] = "none"]
  /\ cancelled' = [cancelled EXCEPT ![k] = FALSE]
  /\ UNCHANGED <<pc, item, registered, scan, opc, exits, requests>>

Job(k) == Unregister(k) \/ JobDone(k)

-----------------------------------------------------------------------------
(* The supervisor of a worker and its observer.                             *)

Steps(k, from, to) ==
  /\ wpc[k] = from /\ wpc' = [wpc EXCEPT ![k] = to]
  /\ UNCHANGED <<pc, item, tableVars, scan, requests>>

Restart(k) == FreeW(k) /\ Steps(k, "gap", "run") /\ opc' = [opc EXCEPT ![k] = "sleep"]
                /\ UNCHANGED exits
Leave(k)   == cancelled[k] /\ Steps(k, "gap", "ended") /\ UNCHANGED <<opc, exits>>
Cancel(k)  == cancelled[k] /\ Steps(k, "run", "down") /\ UNCHANGED <<opc, exits>>
Exit(k)    == exits < MaxExits /\ exits' = exits + 1 /\ Steps(k, "run", "down") /\ UNCHANGED opc

Terminate(k) ==
  /\ FreeW(k) /\ (LateObserver \/ opc[k] # "lock")
  /\ Steps(k, "down", "join") /\ UNCHANGED <<opc, exits>>

\* The process is gone and the observer has returned.
Joined(k) ==
  /\ opc[k] = "quit"
  /\ Steps(k, "join", IF cancelled[k] THEN "ended" ELSE "gap")
  /\ UNCHANGED <<opc, exits>>

Supervisor(k) == Restart(k) \/ Leave(k) \/ Cancel(k) \/ Terminate(k) \/ Joined(k)

Looks(k, from, to) ==
  /\ opc[k] = from /\ opc' = [opc EXCEPT ![k] = to]
  /\ UNCHANGED <<pc, item, tableVars, scan, wpc, exits, requests>>

Wake(k)     == (LateObserver \/ wpc[k] # "join") /\ Looks(k, "sleep", "lock")
Observe(k)  == FreeW(k) /\ Looks(k, "lock", "observe")
Observed(k) == Looks(k, "observe", "sleep")
Quit(k)     == wpc[k] = "join" /\ Looks(k, "sleep", "quit")

Observer(k) == Observe(k) \/ Observed(k) \/ Quit(k)

-----------------------------------------------------------------------------
Next == \/ \E c \in Clients : Ask(c) \/ Client(c)
        \/ \E k \in Workers : \/ GetMetrics(k) \/ Job(k) \/ Supervisor(k)
                              \/ Exit(k) \/ Wake(k) \/ Observer(k)

Spec == Init /\ [][Next]_vars

\* A mutex of Go starves nobody, so who waits for one that the observer takes
\* again and again gets it.  No request has to come, no worker to exit, no
\* observer to wake.
Fairness ==
  /\ \A c \in Clients : WF_vars(Client(c))
  /\ \A k \in Workers : /\ SF_vars(GetMetrics(k)) /\ SF_vars(Supervisor(k))
                        /\ WF_vars(Job(k)) /\ WF_vars(Observer(k))

FairSpec == Spec /\ Fairness

-----------------------------------------------------------------------------
(* Properties.                                                              *)

\* A worker that nobody owns any more is not scraped any more, and one in the
\* table is known to the metrics as soon as the table can be looked at.
MetricsFollowTable ==
  \A k \in Workers :
    /\ owner[k] \in {"none", "wait"} => k \notin registered
    /\ owner[k] = "table" /\ FreeS => k \in registered

\* No two requests and jobs wait for each other for ever: when the supervisors
\* get their workers down (~LateObserver), every request is answered.
RequestsEnd == \A c \in Clients : pc[c] # "idle" ~> pc[c] = "idle"

\* A subscription that is removed is gone some day, scraped or not, as long as
\* terminate() returns (~LateObserver: no observer wakes while its worker is
\* terminated).
JobsEnd == \A k \in Workers : owner[k] = "job" ~> owner[k] = "none"

\* Who can take the step it is at now, whatever the others do.
ClientGoes(c) ==
  \/ pc[c] = "health" /\ FreeD
  \/ pc[c] \in {"count", "create", "remove"} /\ FreeS
  \/ pc[c] = "find" /\ FreeD
  \/ pc[c] = "reading"
  \/ pc[c] = "start" /\ \E k \in Workers : owner[k] = "none"
  \/ pc[c] \in {"add", "scrape"} /\ FreeM
  \/ HoldsM(c) /\ \A k \in Workers : scan[k] = "done"

ScanGoes(k) == scan[k] = "dial" \/ (scan[k] \in {"socket", "state"} /\ FreeW(k))

WorkerGoes(k) ==
  \/ wpc[k] = "gap" /\ (FreeW(k) \/ cancelled[k])
  \/ wpc[k] = "run" /\ cancelled[k]
  \/ wpc[k] = "down" /\ FreeW(k) /\ (LateObserver \/ opc[k] # "lock")
  \/ wpc[k] = "join" /\ opc[k] \in {"quit", "sleep"}
  \/ opc[k] = "lock" /\ FreeW(k)
  \/ opc[k] = "observe"

\* Connection c waits for a mutex that d holds.
WaitsFor(c, d) ==
  \/ pc[c] \in {"count", "create", "remove"} /\ HoldsS(d)
  \/ pc[c] \in {"health", "find"} /\ HoldsD(d)
  \/ pc[c] \in {"add", "scrape"} /\ HoldsM(d)

Rank(c) == IF HoldsM(c) \/ HoldsD(c) THEN 1 ELSE IF HoldsS(c) THEN 2 ELSE 3

\* No circular wait: a request that cannot go on waits for one of lower rank, or
\* for a worker that can, and so does a job.  It needs the observer to return while
\* its worker is terminated.
NoCircularWait ==
  /\ \A c \in Clients : pc[c] # "idle" =>
       \/ ClientGoes(c)
       \/ \E d \in Clients : WaitsFor(c, d) /\ Rank(d) < Rank(c)
       \/ HoldsM(c) /\ \A k \in Workers : scan[k] = "done" \/ ScanGoes(k) \/ WorkerGoes(k)
  /\ \A k \in Workers : owner[k] = "wait" => wpc[k] = "ended" \/ WorkerGoes(k)

\* The types of the variables.
LocksTypeOK ==
  /\ pc \in [Clients -> {"idle", "count", "find", "reading", "start", "add", "collect"} \cup Kinds]
  /\ item \in [Clients -> SUBSET Workers] /\ registered \subseteq Workers
  /\ owner \in [Workers -> {"none", "table", "job", "wait"}]
  /\ wpc \in [Workers -> {"none", "gap", "run", "down", "join", "ended"}]
  /\ opc \in [Workers -> {"quit", "sleep", "lock", "observe"}]
  /\ cancelled \in [Workers -> BOOLEAN]

-----------------------------------------------------------------------------
(* What README.md of the repository says and the code does not keep: TLC     *)
(* finds it violated with three clients, LateObserver = TRUE and the requests *)
(* "health", "create" and "scrape".                                         *)

\* A health check is answered, whatever the workers do.
HealthAnswers == \A c \in Clients : pc[c] = "health" ~> pc[c] = "idle"
=============================================================================
