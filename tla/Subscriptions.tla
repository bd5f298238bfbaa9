--------------------------- MODULE Subscriptions ---------------------------
(***************************************************************************)
(* go/pkg/initiator/subscriptions.go: the sending side's table of leases.   *)
(* Every remote target that subscribes gets a Subscription with an id that  *)
(* was never used before (a random cookie) and a worker of its own, and     *)
(* renews it with the target info it was created with.  s.mu makes each     *)
(* handler one step; a removed subscription is terminated by a goroutine of *)
(* s.cleanupJobs after the handler has returned.                            *)
(*                                                                          *)
(* run() sweeps the table until the proxy's context is done, then shuts     *)
(* down: it removes every subscription and waits for the jobs.  The HTTP    *)
(* server is closed concurrently (go/pkg/server/server.go), and the process *)
(* exits when both are over.                                                *)
(*                                                                          *)
(* A worker is a WorkerLife: it may hang, and then the job that terminates  *)
(* it never ends, or panic, which ends the proxy.                           *)
(***************************************************************************)
EXTENDS Integers, FiniteSets

CONSTANTS Infos,      \* target infos a request may carry
          Lease,      \* ticks a lease lives without being renewed
          MaxIds      \* bound: subscriptions created in one behaviour

ASSUME SubscriptionsOK == Lease \in Nat /\ MaxIds \in Nat

VARIABLES subs,       \* the table: id -> [info, age], age = time since the renewal
          workers,    \* ids whose ProxyWorker has been started and has not ended
          jobs,       \* ids being terminated by a cleanup job
          stuck,      \* ids whose worker hangs in terminate() for ever
          issued,     \* ids given out so far: 1..issued
          ctxDone,    \* the proxy's context is cancelled
          loop,       \* goroutine run(): "run", "drain" (cleanupJobs.Wait), "done";
                      \* "crashed": the proxy has ended by a panic
          swept,      \* history: ids issued when shutdown() ran
          http        \* the HTTP server: "open", "closed", or "lingering" when some
                      \* requests that it no longer waits for are under way

tableVars == <<subs, workers, jobs, stuck, issued>>
exitVars  == <<ctxDone, loop, swept, http>>
subsVars  == <<tableVars, exitVars>>

Live == DOMAIN subs

\* The process has exited: nothing is left to act.
Exited == loop = "crashed" \/ (loop = "done" /\ http # "open")

Without(ids) == [i \in Live \ ids |-> subs[i]]

SubsInit ==
  /\ subs = [i \in {} |-> 0]
  /\ workers = {} /\ jobs = {} /\ stuck = {} /\ issued = 0
  /\ ctxDone = FALSE /\ loop = "run" /\ swept = 0 /\ http = "open"

\* removeSubscription for every id of ids: a job per id, out of the table now.
RemoveAll(ids) ==
  /\ jobs' = jobs \cup ids
  /\ subs' = Without(ids)

-----------------------------------------------------------------------------
(* The HTTP handlers.                                                       *)

\* POST, for a flow that domains.Find knows: NewSubscription starts the worker.
Create(info) ==
  /\ http # "closed" /\ issued < MaxIds
  /\ issued' = issued + 1
  /\ subs' = [i \in Live \cup {issued + 1} |->
                IF i = issued + 1 THEN [info |-> info, age |-> 0] ELSE subs[i]]
  /\ workers' = workers \cup {issued + 1}
  /\ UNCHANGED <<jobs, stuck>>

\* PATCH: the target still has the info it subscribed with.
Renews(id, info) == id \in Live /\ subs[id].info = info

Renew(id, info) ==
  /\ http # "closed" /\ Renews(id, info)
  /\ subs' = [subs EXCEPT ![id].age = 0]
  /\ UNCHANGED <<workers, jobs, stuck, issued>>

\* Mutant: the entry is deleted and its worker forgotten.
RejectForgets(id, info) ==
  /\ http # "closed" /\ id \in Live /\ ~Renews(id, info)
  /\ subs' = Without({id})
  /\ UNCHANGED <<workers, jobs, stuck, issued>>

\* PATCH with another info: the subscription is terminated, the answer is 400.
Reject(id, info) ==
  /\ http # "closed" /\ id \in Live /\ ~Renews(id, info)
  /\ RemoveAll({id})
  /\ UNCHANGED <<workers, stuck, issued>>

\* PATCH of an unknown id: 404, nothing changes.
Unknown(id) ==
  /\ http # "closed" /\ id \notin Live
  /\ UNCHANGED tableVars


\* DELETE answers ok whether or not the id is known.
Remove(id) ==
  /\ http # "closed"
  /\ RemoveAll({id} \cap Live)
  /\ UNCHANGED <<workers, stuck, issued>>

-----------------------------------------------------------------------------
(* Goroutine run(), the cleanup jobs, the clock.                            *)

\* Time passes; an age beyond the lease is not told from Lease + 1.
Tick ==
  /\ \E i \in Live : subs[i].age <= Lease
  /\ subs' = [i \in Live |->
                [subs[i] EXCEPT !.age = IF @ <= Lease THEN @ + 1 ELSE @]]
  /\ UNCHANGED <<workers, jobs, stuck, issued>>

Expired == {i \in Live : subs[i].age > Lease}


\* cleanup(), every five seconds.
Cleanup ==
  /\ loop = "run" /\ Expired # {}
  /\ RemoveAll(Expired)
  /\ UNCHANGED <<workers, stuck, issued>>

\* Mutant: the job ends without cleanupJobs.Done.
JobDoneUncounted(id) ==
  /\ id \in jobs \ stuck
  /\ workers' = workers \ {id}
  /\ UNCHANGED <<subs, jobs, stuck, issued>>

\* Terminate() of one removed subscription: its worker has ended.
JobDone(id) ==
  /\ id \in jobs \ stuck
  /\ jobs' = jobs \ {id} /\ workers' = workers \ {id}
  /\ UNCHANGED <<subs, stuck, issued>>

\* The supervisor of a worker waits for ever in terminate(), called by itself
\* or by Terminate().
Hangs(id) ==
  /\ id \in workers \ stuck
  /\ stuck' = stuck \cup {id}
  /\ UNCHANGED <<subs, workers, jobs, issued>>

\* A panic in a goroutine of one of the workers.
Panics ==
  /\ workers # {} /\ ~Exited
  /\ loop' = "crashed"
  /\ UNCHANGED <<tableVars, ctxDone, swept, http>>

Signal ==
  /\ ~ctxDone
  /\ ctxDone' = TRUE
  /\ UNCHANGED <<tableVars, loop, swept, http>>

\* The deferred shutdown() of run().
Shutdown ==
  /\ loop = "run" /\ ctxDone
  /\ loop' = "drain" /\ swept' = issued
  /\ RemoveAll(Live)
  /\ UNCHANGED <<workers, stuck, issued, ctxDone, http>>

\* Mutant: run() returns without waiting for the jobs.
DrainedEarly ==
  /\ loop = "drain"
  /\ loop' = "done"
  /\ UNCHANGED <<tableVars, ctxDone, swept, http>>

\* cleanupJobs.Wait returns.
Drained ==
  /\ loop = "drain" /\ jobs = {}
  /\ loop' = "done"
  /\ UNCHANGED <<tableVars, ctxDone, swept, http>>

\* server.Shutdown: the listener is closed, and the handlers are gone or it has
\* waited for them for five seconds.
CloseHttp ==
  /\ http = "open" /\ ctxDone /\ loop # "crashed"
  /\ http' \in {"closed", "lingering"}
  /\ UNCHANGED <<tableVars, ctxDone, loop, swept>>

Handle ==
  \/ \E info \in Infos : Create(info)
  \/ \E id \in 1..MaxIds : Remove(id) \/ Unknown(id)
  \/ \E id \in 1..MaxIds, info \in Infos : Renew(id, info) \/ Reject(id, info)

SubsNext ==
  \/ /\ ~Exited
     /\ \/ Handle \/ Tick \/ Cleanup
        \/ \E id \in 1..MaxIds : JobDone(id) \/ Hangs(id)
     /\ UNCHANGED exitVars
  \/ Signal \/ Shutdown \/ Drained \/ CloseHttp \/ Panics

\* The clock runs, the loop runs, a worker that is told to end does end unless
\* it hangs, and the server gives up waiting after five seconds.  No request
\* has to come.
SubsFairness ==
  /\ WF_subsVars(Tick /\ UNCHANGED exitVars /\ ~Exited)
  /\ WF_subsVars(Cleanup /\ UNCHANGED exitVars)
  /\ \A id \in 1..MaxIds : WF_subsVars(JobDone(id) /\ UNCHANGED exitVars /\ ~Exited)
  /\ WF_subsVars(Shutdown) /\ WF_subsVars(Drained) /\ WF_subsVars(CloseHttp)

SubsSpec == SubsInit /\ [][SubsNext]_subsVars
SubsFairSpec == SubsSpec /\ SubsFairness

-----------------------------------------------------------------------------
(* Properties.                                                              *)

SubsTypeOK ==
  /\ subs \in [Live -> [info : Infos, age : 0..(Lease + 1)]]
  /\ Live \subseteq 1..issued
  /\ workers \subseteq 1..issued /\ jobs \subseteq 1..issued /\ stuck \subseteq workers
  /\ issued \in 0..MaxIds
  /\ ctxDone \in BOOLEAN
  /\ swept \in 0..issued
  /\ loop \in {"run", "drain", "done", "crashed"}
  /\ http \in {"open", "closed", "lingering"}

\* Every worker is owned by exactly one of the table and a cleanup job, and
\* every entry of either has its worker: none is forgotten while it runs, and
\* none is stopped under a subscription that is still in the table.
WorkersOwned == workers = Live \cup jobs /\ Live \cap jobs = {}

\* run() returns with every worker it knew of at the shutdown ended: a process
\* that outlives the proxy was started by a request that slipped in between
\* shutdown() and the end of the HTTP server.
ExitLeavesOnlyLate == loop = "done" => \A i \in workers : i > swept

\* To the holder of a lease the table keeps what HeldLease promises, whatever
\* becomes of the others.
PhaseOf(id) == IF id > issued THEN "none"
               ELSE IF id \notin workers THEN "gone"
               ELSE IF id \in Live THEN "held" ELSE "ending"
EntryOf(id) == {subs[i] : i \in {id} \cap Live}

HeldBy(id) == INSTANCE HeldLease WITH phase <- PhaseOf(id), entry <- EntryOf(id)

KeepsLease(id) == HeldBy(id)!LeaseSpec


\* Once told to, the proxy exits, unless a worker hangs in terminate(): then
\* cleanupJobs.Wait may never return (see WorkerRetries of ProxyWorker).
ShutdownEnds == ctxDone ~> (Exited \/ stuck # {})
=============================================================================
