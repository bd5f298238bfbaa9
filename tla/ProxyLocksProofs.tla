-------------------------- MODULE ProxyLocksProofs --------------------------
(***************************************************************************)
(* Proofs about ProxyLocks, for any connections and workers, any number of  *)
(* requests and exits, and with or without the late observer.               *)
(***************************************************************************)
EXTENDS ProxyLocks, TLAPS

-----------------------------------------------------------------------------
(* The inductive invariant.                                                 *)

\* No mutex is held twice.  (d.mu is only taken under s.mu.)
MutexesExclude ==
  /\ \A c, d \in Clients : HoldsS(c) /\ HoldsS(d) => c = d
  /\ \A c, d \in Clients : HoldsM(c) /\ HoldsM(d) => c = d
  /\ \A k \in Workers : ~(wpc[k] = "join" /\ opc[k] = "observe")

\* What Create is about to add is in the table, and stays there as long as the
\* table is locked.
AddsItsOwn ==
  \A c \in Clients : IF pc[c] = "add" THEN \E k \in Workers : item[c] = {k} /\ owner[k] = "table"
                                      ELSE item[c] = {}

Registered ==
  \A k \in Workers :
    /\ owner[k] \in {"none", "wait"} => k \notin registered
    /\ owner[k] = "table" => k \in registered \/ \E c \in Clients : pc[c] = "add" /\ item[c] = {k}

\* A worker that nobody owns has neither a supervisor nor an observer, and is not
\* cancelled when it is started; nobody observes between two launches.
UnownedAtRest ==
  \A k \in Workers :
    /\ owner[k] = "none" <=> wpc[k] = "none"
    /\ cancelled[k] <=> owner[k] = "wait"
    /\ wpc[k] = "ended" => cancelled[k]
    /\ opc[k] = "quit" \/ wpc[k] \in {"run", "down", "join"}

LocksInv == LocksTypeOK /\ MutexesExclude /\ AddsItsOwn /\ Registered /\ UnownedAtRest

-----------------------------------------------------------------------------

\* What LocksInv speaks of.
lockVars == <<pc, item, tableVars, wpc, opc>>

LEMMA LocksInit == Init => LocksInv
<1> SUFFICES ASSUME Init PROVE LocksInv
  OBVIOUS
<1> USE DEF Init
<1>1. LocksTypeOK
  BY DEF LocksTypeOK
<1>2. MutexesExclude
  BY DEF MutexesExclude, HoldsS, HoldsM
<1>3. AddsItsOwn
  BY DEF AddsItsOwn
<1>4. Registered
  BY DEF Registered
<1>5. UnownedAtRest
  BY DEF UnownedAtRest
<1> QED
  BY <1>1, <1>2, <1>3, <1>4, <1>5 DEF LocksInv

LEMMA LocksUnchanged == LocksInv /\ UNCHANGED lockVars => LocksInv'
<1> SUFFICES ASSUME LocksInv, UNCHANGED lockVars PROVE LocksInv'
  OBVIOUS
<1> USE DEF LocksInv, lockVars, tableVars
<1>1. LocksTypeOK'
  BY DEF LocksTypeOK
<1>2. MutexesExclude'
  BY DEF MutexesExclude, HoldsS, HoldsM
<1>3. AddsItsOwn'
  BY DEF AddsItsOwn
<1>4. Registered'
  BY DEF Registered
<1>5. UnownedAtRest'
  BY DEF UnownedAtRest
<1> QED
  BY <1>1, <1>2, <1>3, <1>4, <1>5

-----------------------------------------------------------------------------
(* Requests.                                                                *)

\* A connection that goes on takes s.mu or m.mu only when it is free.
LEMMA GotoKeeps ==
  ASSUME LocksInv, NEW c \in Clients, NEW l, Goto(c, l),
         UNCHANGED <<item, tableVars, wpc, opc>>,
         l \in {"idle", "count", "find", "reading", "start", "collect"} \cup Kinds,
         pc[c] # "add",
         l \in {"find", "reading", "start"} => HoldsS(c) \/ FreeS,
         l = "collect" => FreeM
  PROVE  LocksInv'
<1> USE DEF LocksInv, tableVars
<1>1. /\ l # "add" /\ DOMAIN pc = Clients
      /\ \A d \in Clients : pc'[d] = IF d = c THEN l ELSE pc[d]
  BY LocksOK DEF LocksTypeOK, Goto
<1>2. LocksTypeOK'
  BY LocksOK DEF LocksTypeOK, Goto
<1>3. MutexesExclude'
  <2>1. \A d, e \in Clients : HoldsS(d)' /\ HoldsS(e)' => d = e
    BY <1>1 DEF MutexesExclude, HoldsS, FreeS
  <2>2. \A d, e \in Clients : HoldsM(d)' /\ HoldsM(e)' => d = e
    BY <1>1 DEF MutexesExclude, HoldsM, FreeM
  <2> QED
    BY <2>1, <2>2 DEF MutexesExclude
<1>4. AddsItsOwn'
  BY <1>1 DEF AddsItsOwn
<1>5. Registered'
  BY <1>1 DEF Registered
<1>6. UnownedAtRest'
  BY DEF UnownedAtRest
<1> QED
  BY <1>2, <1>3, <1>4, <1>5, <1>6

LEMMA StartKeeps ==
  ASSUME LocksInv, NEW c \in Clients, Start(c) PROVE LocksInv'
<1> PICK k \in Workers : /\ owner[k] = "none"
                         /\ owner' = [owner EXCEPT ![k] = "table"]
                         /\ wpc' = [wpc EXCEPT ![k] = "gap"]
                         /\ item' = [item EXCEPT ![c] = {k}]
  BY DEF Start
<1> USE DEF LocksInv
<1>1. /\ pc[c] = "start" /\ pc' = [pc EXCEPT ![c] = "add"]
      /\ UNCHANGED <<registered, cancelled, opc>>
  BY DEF Start, Goto
<1>2. /\ \A d \in Clients : /\ pc'[d] = IF d = c THEN "add" ELSE pc[d]
                            /\ item'[d] = IF d = c THEN {k} ELSE item[d]
      /\ \A j \in Workers : /\ owner'[j] = IF j = k THEN "table" ELSE owner[j]
                            /\ wpc'[j] = IF j = k THEN "gap" ELSE wpc[j]
  BY <1>1 DEF LocksTypeOK
<1>3. LocksTypeOK'
  BY <1>1 DEF LocksTypeOK
<1>4. MutexesExclude'
  <2>1. \A d, e \in Clients : HoldsS(d)' /\ HoldsS(e)' => d = e
    BY <1>1, <1>2 DEF MutexesExclude, HoldsS
  <2>2. \A d, e \in Clients : HoldsM(d)' /\ HoldsM(e)' => d = e
    BY <1>1, <1>2 DEF MutexesExclude, HoldsM
  <2>3. \A j \in Workers : ~(wpc'[j] = "join" /\ opc'[j] = "observe")
    BY <1>1, <1>2 DEF MutexesExclude
  <2> QED
    BY <2>1, <2>2, <2>3 DEF MutexesExclude
<1>5. AddsItsOwn'
  BY <1>1, <1>2 DEF AddsItsOwn
<1>6. Registered'
  BY <1>1, <1>2 DEF Registered
<1>7. UnownedAtRest'
  BY <1>1, <1>2 DEF UnownedAtRest
<1> QED
  BY <1>3, <1>4, <1>5, <1>6, <1>7

LEMMA AddKeeps ==
  ASSUME LocksInv, NEW c \in Clients, Add(c) PROVE LocksInv'
<1> USE DEF LocksInv
<1>1. /\ pc[c] = "add" /\ pc' = [pc EXCEPT ![c] = "idle"]
      /\ registered' = registered \cup item[c] /\ item' = [item EXCEPT ![c] = {}]
      /\ UNCHANGED <<owner, cancelled, wpc, opc>>
  BY LocksOK DEF Add, Goto, workerVars, LocksTypeOK
<1>2. \A d \in Clients : /\ pc'[d] = IF d = c THEN "idle" ELSE pc[d]
                         /\ item'[d] = IF d = c THEN {} ELSE item[d]
  BY <1>1 DEF LocksTypeOK
<1> PICK k \in Workers : item[c] = {k} /\ owner[k] = "table"
  BY <1>1 DEF AddsItsOwn
<1>3. LocksTypeOK'
  BY <1>1 DEF LocksTypeOK
<1>4. MutexesExclude'
  BY <1>1, <1>2 DEF MutexesExclude, HoldsS, HoldsM
<1>5. AddsItsOwn'
  BY <1>1, <1>2 DEF AddsItsOwn
<1>6. Registered'
  BY <1>1, <1>2 DEF Registered
<1>7. UnownedAtRest'
  BY <1>1 DEF UnownedAtRest
<1> QED
  BY <1>3, <1>4, <1>5, <1>6, <1>7

\* The table is locked, so nobody is about to add what is removed.
LEMMA RemoveKeeps ==
  ASSUME LocksInv, NEW c \in Clients, Remove(c) PROVE LocksInv'
<1> USE DEF LocksInv
<1>1. /\ pc[c] = "remove" /\ FreeS /\ pc' = [pc EXCEPT ![c] = "idle"]
      /\ UNCHANGED <<item, registered, cancelled, wpc, opc>>
  BY DEF Remove, Goto, workerVars
<1>2. CASE UNCHANGED owner
  <2>1. Goto(c, "idle") /\ UNCHANGED <<item, tableVars, wpc, opc>>
    BY <1>1, <1>2 DEF Goto, tableVars
  <2> QED
    BY <1>1, <2>1, GotoKeeps
<1>3. ASSUME NEW k \in Workers, owner[k] = "table", owner' = [owner EXCEPT ![k] = "job"]
      PROVE  LocksInv'
  <2>1. \A d \in Clients : /\ pc[d] # "add" /\ pc'[d] = IF d = c THEN "idle" ELSE pc[d]
    BY <1>1 DEF LocksTypeOK, FreeS, HoldsS
  <2>2. \A j \in Workers : owner'[j] = IF j = k THEN "job" ELSE owner[j]
    BY <1>3 DEF LocksTypeOK
  <2>3. LocksTypeOK'
    BY <1>1, <1>3 DEF LocksTypeOK
  <2>4. MutexesExclude'
    BY <1>1, <2>1 DEF MutexesExclude, HoldsS, HoldsM
  <2>5. AddsItsOwn'
    BY <1>1, <2>1 DEF AddsItsOwn
  <2>6. Registered'
    BY <1>1, <2>1, <2>2 DEF Registered
  <2>7. UnownedAtRest'
    BY <1>1, <1>3, <2>2 DEF UnownedAtRest
  <2> QED
    BY <2>3, <2>4, <2>5, <2>6, <2>7
<1> QED
  BY <1>2, <1>3 DEF Remove

LEMMA RequestKeeps ==
  ASSUME LocksInv, NEW c \in Clients, Ask(c) \/ Client(c) PROVE LocksInv'
<1> USE DEF workerVars, Quietly
<1>1. CASE Ask(c)
  BY <1>1, GotoKeeps, LocksOK DEF Ask
<1>2. CASE CountDomains(c)
  BY <1>2, GotoKeeps DEF CountDomains
<1>3. CASE CountSubs(c)
  BY <1>3, GotoKeeps DEF CountSubs
<1>4. CASE CreateLock(c)
  BY <1>4, GotoKeeps DEF CreateLock
<1>5. CASE Find(c)
  BY <1>5, GotoKeeps DEF Find, HoldsS
<1>6. CASE Found(c)
  <2>1. HoldsS(c) /\ pc[c] # "add" /\ UNCHANGED <<item, tableVars, wpc, opc>>
    BY <1>6 DEF Found, HoldsS
  <2>2. Goto(c, "start") \/ Goto(c, "idle")
    BY <1>6 DEF Found
  <2> QED
    BY <2>1, <2>2, GotoKeeps
<1>7. CASE Start(c)
  BY <1>7, StartKeeps
<1>8. CASE Add(c)
  BY <1>8, AddKeeps
<1>9. CASE Remove(c)
  BY <1>9, RemoveKeeps
<1>10. CASE Scrape(c)
  BY <1>10, GotoKeeps DEF Scrape
<1>11. CASE Collected(c)
  BY <1>11, GotoKeeps DEF Collected
<1> QED
  BY <1>1, <1>2, <1>3, <1>4, <1>5, <1>6, <1>7, <1>8, <1>9, <1>10, <1>11 DEF Client

-----------------------------------------------------------------------------
(* Scrapes and cleanup jobs.                                                *)

LEMMA GetMetricsKeeps ==
  ASSUME LocksInv, NEW k \in Workers, GetMetrics(k) PROVE LocksInv'
BY LocksUnchanged DEF GetMetrics, GetSocket, Dialled, FlowState, Advance, lockVars, workerVars

\* Only the table hands out workers to add, and this one has left it.
LEMMA UnregisterKeeps ==
  ASSUME LocksInv, NEW k \in Workers, Unregister(k) PROVE LocksInv'
<1> USE DEF LocksInv
<1>1. /\ owner[k] = "job" /\ registered' = registered \ {k}
      /\ cancelled' = [cancelled EXCEPT ![k] = TRUE] /\ owner' = [owner EXCEPT ![k] = "wait"]
      /\ UNCHANGED <<pc, item, wpc, opc>>
  BY DEF Unregister, workerVars
<1>2. \A j \in Workers : /\ owner'[j] = IF j = k THEN "wait" ELSE owner[j]
                         /\ cancelled'[j] = IF j = k THEN TRUE ELSE cancelled[j]
  BY <1>1 DEF LocksTypeOK
<1>3. LocksTypeOK'
  BY <1>1 DEF LocksTypeOK
<1>4. MutexesExclude'
  BY <1>1 DEF MutexesExclude, HoldsS, HoldsM
<1>5. AddsItsOwn'
  BY <1>1, <1>2 DEF AddsItsOwn
<1>6. Registered'
  BY <1>1, <1>2 DEF Registered
<1>7. UnownedAtRest'
  <2>1. ASSUME NEW j \in Workers, j # k
        PROVE  owner'[j] = owner[j] /\ cancelled'[j] = cancelled[j] /\ wpc'[j] = wpc[j] /\ opc'[j] = opc[j]
    BY <1>1, <1>2, <2>1
  <2>2. owner'[k] = "wait" /\ cancelled'[k] /\ wpc'[k] = wpc[k] /\ opc'[k] = opc[k] /\ owner[k] = "job"
    BY <1>1, <1>2
  <2> QED
    BY <2>1, <2>2 DEF UnownedAtRest
<1> QED
  BY <1>3, <1>4, <1>5, <1>6, <1>7

\* run() has returned, so the observer has.
LEMMA JobDoneKeeps ==
  ASSUME LocksInv, NEW k \in Workers, JobDone(k) PROVE LocksInv'
<1> USE DEF LocksInv
<1>1. /\ owner[k] = "wait" /\ wpc[k] = "ended"
      /\ owner' = [owner EXCEPT ![k] = "none"] /\ wpc' = [wpc EXCEPT ![k] = "none"]
      /\ cancelled' = [cancelled EXCEPT ![k] = FALSE]
      /\ UNCHANGED <<pc, item, registered, opc>>
  BY DEF JobDone
<1>2. \A j \in Workers : /\ owner'[j] = IF j = k THEN "none" ELSE owner[j]
                         /\ wpc'[j] = IF j = k THEN "none" ELSE wpc[j]
                         /\ cancelled'[j] = IF j = k THEN FALSE ELSE cancelled[j]
  BY <1>1 DEF LocksTypeOK
<1>3. LocksTypeOK'
  BY <1>1 DEF LocksTypeOK
<1>4. MutexesExclude'
  BY <1>1, <1>2 DEF MutexesExclude, HoldsS, HoldsM
<1>5. AddsItsOwn'
  BY <1>1, <1>2 DEF AddsItsOwn
<1>6. Registered'
  BY <1>1, <1>2 DEF Registered
<1>7. UnownedAtRest'
  <2>1. ASSUME NEW j \in Workers, j # k
        PROVE  owner'[j] = owner[j] /\ cancelled'[j] = cancelled[j] /\ wpc'[j] = wpc[j] /\ opc'[j] = opc[j]
    BY <1>1, <1>2, <2>1
  <2>2. owner'[k] = "none" /\ ~cancelled'[k] /\ wpc'[k] = "none" /\ opc'[k] = opc[k] /\ wpc[k] = "ended"
    BY <1>1, <1>2
  <2> QED
    BY <2>1, <2>2 DEF UnownedAtRest
<1> QED
  BY <1>3, <1>4, <1>5, <1>6, <1>7

-----------------------------------------------------------------------------
(* Supervisors and observers.                                               *)

\* One worker goes on, with its owner as it was: it is not waited for with the
\* mutex while it is observed, and not observed while it has no process.
LEMMA WorkerGoesOn ==
  ASSUME LocksInv, NEW k \in Workers, NEW w, NEW o,
         wpc' = [wpc EXCEPT ![k] = w], opc' = [opc EXCEPT ![k] = o],
         UNCHANGED <<pc, item, tableVars>>,
         wpc[k] # "none", w \in {"gap", "run", "down", "join", "ended"},
         o \in {"quit", "sleep", "lock", "observe"},
         ~(w = "join" /\ o = "observe"),
         w = "ended" => cancelled[k],
         o = "quit" \/ w \in {"run", "down", "join"}
  PROVE  LocksInv'
<1> USE DEF LocksInv, tableVars
<1>1. \A j \in Workers : /\ wpc'[j] = IF j = k THEN w ELSE wpc[j]
                         /\ opc'[j] = IF j = k THEN o ELSE opc[j]
  BY DEF LocksTypeOK
<1>2. LocksTypeOK'
  BY DEF LocksTypeOK
<1>3. MutexesExclude'
  BY <1>1 DEF MutexesExclude, HoldsS, HoldsM
<1>4. AddsItsOwn'
  BY DEF AddsItsOwn
<1>5. Registered'
  BY DEF Registered
<1>6. UnownedAtRest'
  BY <1>1 DEF UnownedAtRest
<1> QED
  BY <1>2, <1>3, <1>4, <1>5, <1>6

LEMMA SupervisorKeeps ==
  ASSUME LocksInv, NEW k \in Workers, Supervisor(k) \/ Exit(k) PROVE LocksInv'
<1>1. /\ wpc \in [Workers -> {"none", "gap", "run", "down", "join", "ended"}]
      /\ opc[k] \in {"quit", "sleep", "lock", "observe"} /\ opc = [opc EXCEPT ![k] = opc[k]]
  BY DEF LocksInv, LocksTypeOK
<1>2. opc[k] = "quit" \/ wpc[k] \in {"run", "down", "join"}
  BY DEF LocksInv, UnownedAtRest
<1> USE DEF Steps
<1>3. CASE Restart(k)
  BY <1>3, WorkerGoesOn DEF Restart
<1>4. CASE Leave(k)
  BY <1>1, <1>2, <1>4, WorkerGoesOn DEF Leave
<1>5. CASE Cancel(k)
  BY <1>1, <1>5, WorkerGoesOn DEF Cancel
<1>6. CASE Exit(k)
  BY <1>1, <1>6, WorkerGoesOn DEF Exit
<1>7. CASE Terminate(k)
  BY <1>1, <1>7, WorkerGoesOn DEF Terminate, FreeW
<1>8. CASE Joined(k)
  <2>1. wpc' = [wpc EXCEPT ![k] = IF cancelled[k] THEN "ended" ELSE "gap"]
    BY <1>8 DEF Joined
  <2>2. opc' = [opc EXCEPT ![k] = "quit"] /\ wpc[k] = "join" /\ UNCHANGED <<pc, item, tableVars>>
    BY <1>1, <1>8 DEF Joined
  <2> QED
    BY <2>1, <2>2, WorkerGoesOn
<1> QED
  BY <1>3, <1>4, <1>5, <1>6, <1>7, <1>8 DEF Supervisor

LEMMA ObserverKeeps ==
  ASSUME LocksInv, NEW k \in Workers, Observer(k) \/ Wake(k) PROVE LocksInv'
<1>1. wpc[k] \in {"none", "gap", "run", "down", "join", "ended"} /\ wpc = [wpc EXCEPT ![k] = wpc[k]]
  BY DEF LocksInv, LocksTypeOK
<1>2. opc[k] = "quit" \/ wpc[k] \in {"run", "down", "join"}
  BY DEF LocksInv, UnownedAtRest
<1> USE DEF Looks
<1>3. CASE Wake(k)
  BY <1>1, <1>2, <1>3, WorkerGoesOn DEF Wake
<1>4. CASE Observe(k)
  BY <1>1, <1>2, <1>4, WorkerGoesOn DEF Observe, FreeW
<1>5. CASE Observed(k)
  BY <1>1, <1>2, <1>5, WorkerGoesOn DEF Observed
<1>6. CASE Quit(k)
  BY <1>1, <1>2, <1>6, WorkerGoesOn DEF Quit
<1> QED
  BY <1>3, <1>4, <1>5, <1>6 DEF Observer

-----------------------------------------------------------------------------

LEMMA LocksNext == LocksInv /\ [Next]_vars => LocksInv'
<1> SUFFICES ASSUME LocksInv, [Next]_vars PROVE LocksInv'
  OBVIOUS
<1>1. ASSUME NEW c \in Clients, Ask(c) \/ Client(c) PROVE LocksInv'
  BY <1>1, RequestKeeps
<1>2. ASSUME NEW k \in Workers, GetMetrics(k) PROVE LocksInv'
  BY <1>2, GetMetricsKeeps
<1>3. ASSUME NEW k \in Workers, Job(k) PROVE LocksInv'
  BY <1>3, UnregisterKeeps, JobDoneKeeps DEF Job
<1>4. ASSUME NEW k \in Workers, Supervisor(k) \/ Exit(k) PROVE LocksInv'
  BY <1>4, SupervisorKeeps
<1>5. ASSUME NEW k \in Workers, Observer(k) \/ Wake(k) PROVE LocksInv'
  BY <1>5, ObserverKeeps
<1>6. CASE UNCHANGED vars
  BY <1>6, LocksUnchanged DEF vars, lockVars, workerVars
<1> QED
  BY <1>1, <1>2, <1>3, <1>4, <1>5, <1>6 DEF Next

\* The mutexes exclude each other's holders, and what nobody owns is at rest.
THEOREM LocksInvariant == Spec => []LocksInv
<1> QED
  BY LocksInit, LocksNext, PTL DEF Spec

\* The metrics know the workers of the table whenever the table can be looked
\* at, and ask no worker that is cancelled or gone.
THEOREM MetricsKnowTheTable == Spec => []MetricsFollowTable
<1>1. LocksInv => MetricsFollowTable
  BY DEF LocksInv, Registered, MetricsFollowTable, FreeS, HoldsS
<1> QED
  BY <1>1, LocksInvariant, PTL
-----------------------------------------------------------------------------
(* Nobody waits in a circle, as long as the observer returns while its        *)
(* worker is terminated.                                                      *)

ScansOK == scan \in [Workers -> {"done", "socket", "dial", "state"}]

\* Who is about to start a worker found one, and only it could have taken it.
FindsWorker == \A c \in Clients : pc[c] = "start" => \E k \in Workers : owner[k] = "none"

\* Whoever joins the observer has not left it waiting for the mutex.
JoinsAwake == \A k \in Workers : wpc[k] = "join" => opc[k] # "lock"

WaitInv == ScansOK /\ FindsWorker /\ JoinsAwake

LEMMA WaitInit == Init => WaitInv
BY DEF Init, WaitInv, ScansOK, FindsWorker, JoinsAwake

\* A connection that goes on, to "start" only if there is a worker.
LEMMA GotoWaits ==
  ASSUME LocksInv, WaitInv, NEW c \in Clients, NEW l, Goto(c, l),
         l = "start" => \E k \in Workers : owner[k] = "none",
         UNCHANGED <<owner, wpc, opc>>, ScansOK'
  PROVE  WaitInv'
<1>1. \A d \in Clients : pc'[d] = IF d = c THEN l ELSE pc[d]
  BY DEF LocksInv, LocksTypeOK, Goto
<1>2. FindsWorker'
  BY <1>1 DEF WaitInv, FindsWorker
<1> QED
  BY <1>2 DEF WaitInv, JoinsAwake

LEMMA StartWaits ==
  ASSUME LocksInv, WaitInv, NEW c \in Clients, Start(c) PROVE WaitInv'
<1> PICK k \in Workers : wpc' = [wpc EXCEPT ![k] = "gap"]
  BY DEF Start
<1>1. pc[c] = "start" /\ pc' = [pc EXCEPT ![c] = "add"] /\ UNCHANGED <<scan, opc>>
  BY DEF Start, Goto
<1>2. \A d \in Clients : pc'[d] # "start"
  BY <1>1 DEF LocksInv, LocksTypeOK, MutexesExclude, HoldsS
<1>3. \A j \in Workers : wpc'[j] = "join" => wpc[j] = "join"
  BY DEF LocksInv, LocksTypeOK
<1> QED
  BY <1>1, <1>2, <1>3 DEF WaitInv, ScansOK, FindsWorker, JoinsAwake

\* What is removed from the table is no worker that could be started.
LEMMA RemoveWaits ==
  ASSUME LocksInv, WaitInv, NEW c \in Clients, Remove(c) PROVE WaitInv'
<1>1. /\ FreeS /\ pc' = [pc EXCEPT ![c] = "idle"] /\ UNCHANGED <<scan, wpc, opc>>
  BY DEF Remove, Goto, workerVars
<1>2. \A d \in Clients : pc'[d] # "start"
  BY <1>1 DEF LocksInv, LocksTypeOK, FreeS, HoldsS
<1> QED
  BY <1>1, <1>2 DEF WaitInv, ScansOK, FindsWorker, JoinsAwake

LEMMA RequestWaits ==
  ASSUME LocksInv, WaitInv, NEW c \in Clients, Ask(c) \/ Client(c) PROVE WaitInv'
<1> USE DEF workerVars, tableVars, Quietly
<1>1. UNCHANGED scan => ScansOK'
  BY DEF WaitInv, ScansOK
<1>2. CASE Ask(c)
  <2>1. PICK kind \in Kinds : Goto(c, kind)
    BY <1>2 DEF Ask
  <2>2. kind # "start"
    BY LocksOK
  <2> QED
    BY <1>1, <1>2, <2>1, <2>2, GotoWaits DEF Ask
<1>3. CASE CountDomains(c) \/ CountSubs(c) \/ CreateLock(c) \/ Find(c) \/ Collected(c)
  BY <1>1, <1>3, GotoWaits DEF CountDomains, CountSubs, CreateLock, Find, Collected
<1>4. CASE Found(c)
  <2>1. CASE (\E k \in Workers : owner[k] = "none") /\ Goto(c, "start")
    BY <1>1, <1>4, <2>1, GotoWaits DEF Found
  <2>2. CASE Goto(c, "idle")
    BY <1>1, <1>4, <2>2, GotoWaits DEF Found
  <2> QED
    BY <1>4, <2>1, <2>2 DEF Found
<1>5. CASE Start(c)
  BY <1>5, StartWaits
<1>6. CASE Add(c)
  BY <1>1, <1>6, GotoWaits DEF Add
<1>7. CASE Remove(c)
  BY <1>7, RemoveWaits
<1>8. CASE Scrape(c)
  <2>1. ScansOK'
    BY <1>8 DEF Scrape, ScansOK
  <2> QED
    BY <1>8, <2>1, GotoWaits DEF Scrape
<1> QED
  BY <1>2, <1>3, <1>4, <1>5, <1>6, <1>7, <1>8 DEF Client

LEMMA WorkerWaits ==
  ASSUME LocksInv, WaitInv, ~LateObserver, NEW k \in Workers,
         GetMetrics(k) \/ Job(k) \/ Supervisor(k) \/ Exit(k) \/ Wake(k) \/ Observer(k)
  PROVE  WaitInv'
<1> USE DEF workerVars, tableVars
<1>1. CASE GetMetrics(k)
  <2>1. ScansOK'
    BY <1>1 DEF WaitInv, ScansOK, GetMetrics, GetSocket, Dialled, FlowState, Advance
  <2> QED
    BY <1>1, <2>1
       DEF GetMetrics, GetSocket, Dialled, FlowState, Advance, WaitInv, FindsWorker, JoinsAwake
<1>2. CASE Job(k)
  <2>1. UNCHANGED <<pc, scan, opc>> /\ owner[k] # "none"
    BY <1>2 DEF Job, Unregister, JobDone
  <2>2. \A j \in Workers : j # k => owner'[j] = owner[j]
    BY <1>2 DEF LocksInv, LocksTypeOK, Job, Unregister, JobDone
  <2>3. \A j \in Workers : wpc'[j] = "join" => wpc[j] = "join"
    BY <1>2 DEF LocksInv, LocksTypeOK, Job, Unregister, JobDone
  <2> QED
    BY <2>1, <2>2, <2>3 DEF WaitInv, ScansOK, FindsWorker, JoinsAwake
<1>3. ASSUME UNCHANGED <<pc, owner, scan>>, JoinsAwake' PROVE WaitInv'
  BY <1>3 DEF WaitInv, ScansOK, FindsWorker
<1>4. CASE Supervisor(k) \/ Exit(k)
  <2>1. UNCHANGED <<pc, owner, scan>>
    BY <1>4 DEF Supervisor, Restart, Leave, Cancel, Exit, Terminate, Joined, Steps
  <2>2. \A j \in Workers : j # k => wpc'[j] = wpc[j] /\ opc'[j] = opc[j]
    BY <1>4 DEF Supervisor, Restart, Leave, Cancel, Exit, Terminate, Joined, Steps,
                LocksInv, LocksTypeOK
  <2>3. wpc'[k] = "join" => opc'[k] # "lock"
    BY <1>4 DEF Supervisor, Restart, Leave, Cancel, Exit, Terminate, Joined, Steps,
                LocksInv, LocksTypeOK
  <2> QED
    BY <1>3, <2>1, <2>2, <2>3 DEF WaitInv, JoinsAwake
<1>5. CASE Wake(k) \/ Observer(k)
  <2>1. UNCHANGED <<pc, owner, scan, wpc>>
    BY <1>5 DEF Wake, Observer, Observe, Observed, Quit, Looks
  <2>2. \A j \in Workers : j # k => opc'[j] = opc[j]
    BY <1>5 DEF Wake, Observer, Observe, Observed, Quit, Looks, LocksInv, LocksTypeOK
  <2>3. wpc[k] = "join" => opc'[k] # "lock"
    BY <1>5 DEF Wake, Observer, Observe, Observed, Quit, Looks, LocksInv, LocksTypeOK
  <2> QED
    BY <1>3, <2>1, <2>2, <2>3 DEF WaitInv, JoinsAwake
<1> QED
  BY <1>1, <1>2, <1>4, <1>5

LEMMA WaitNext ==
  ASSUME ~LateObserver PROVE LocksInv /\ WaitInv /\ [Next]_vars => WaitInv'
<1> SUFFICES ASSUME LocksInv, WaitInv, [Next]_vars PROVE WaitInv'
  OBVIOUS
<1>1. CASE UNCHANGED vars
  BY <1>1 DEF vars, tableVars, workerVars, WaitInv, ScansOK, FindsWorker, JoinsAwake
<1> QED
  BY <1>1, RequestWaits, WorkerWaits DEF Next

\* A scrape that is held up waits for a worker that can go on.
LEMMA MutexComesFree ==
  ASSUME LocksInv, WaitInv, ~LateObserver, NEW k \in Workers
  PROVE  FreeW(k) \/ WorkerGoes(k)
BY DEF LocksInv, LocksTypeOK, WaitInv, JoinsAwake, FreeW, WorkerGoes

LEMMA ScansGoOn ==
  ASSUME LocksInv, WaitInv, ~LateObserver, NEW k \in Workers
  PROVE  scan[k] = "done" \/ ScanGoes(k) \/ WorkerGoes(k)
BY MutexComesFree DEF WaitInv, ScansOK, ScanGoes

\* What a cleanup job waits for goes on: the worker is cancelled.
LEMMA CancelledGoes ==
  ASSUME LocksInv, WaitInv, ~LateObserver, NEW k \in Workers, owner[k] = "wait"
  PROVE  wpc[k] = "ended" \/ WorkerGoes(k)
<1>1. cancelled[k] /\ wpc[k] \in {"gap", "run", "down", "join", "ended"}
  BY DEF LocksInv, LocksTypeOK, UnownedAtRest
<1>2. opc[k] \in {"quit", "sleep", "lock", "observe"}
  BY DEF LocksInv, LocksTypeOK
<1>3. CASE wpc[k] = "down"
  BY <1>2, <1>3 DEF WorkerGoes, FreeW
<1>4. CASE wpc[k] = "join"
  BY <1>2, <1>4 DEF WorkerGoes, WaitInv, JoinsAwake
<1> QED
  BY <1>1, <1>3, <1>4 DEF WorkerGoes

LEMMA NobodyCircles ==
  ASSUME ~LateObserver PROVE LocksInv /\ WaitInv => NoCircularWait
<1> SUFFICES ASSUME LocksInv, WaitInv PROVE NoCircularWait
  OBVIOUS
<1>1. ASSUME NEW c \in Clients, pc[c] # "idle"
      PROVE  \/ ClientGoes(c)
             \/ \E d \in Clients : WaitsFor(c, d) /\ Rank(d) < Rank(c)
             \/ HoldsM(c) /\ \A k \in Workers : scan[k] = "done" \/ ScanGoes(k) \/ WorkerGoes(k)
  <2>1. pc[c] \in {"health", "count", "create", "remove", "find", "reading", "start", "add",
                   "scrape", "collect"}
    BY <1>1, LocksOK DEF LocksInv, LocksTypeOK
  <2>2. CASE pc[c] \in {"count", "create", "remove"}
    <3>1. Rank(c) = 3
      BY <2>2 DEF Rank, HoldsS, HoldsM, HoldsD
    <3>2. \A d \in Clients : HoldsS(d) => Rank(d) < 3
      BY DEF Rank
    <3> QED
      BY <2>2, <3>1, <3>2 DEF ClientGoes, FreeS, WaitsFor
  <2>3. CASE pc[c] \in {"health", "find"}
    <3>1. Rank(c) > 1
      BY <2>3 DEF Rank, HoldsM, HoldsD
    <3>2. \A d \in Clients : HoldsD(d) => Rank(d) = 1
      BY DEF Rank
    <3> QED
      BY <2>3, <3>1, <3>2 DEF ClientGoes, FreeD, WaitsFor
  <2>4. CASE pc[c] \in {"add", "scrape"}
    <3>1. Rank(c) > 1
      BY <2>4 DEF Rank, HoldsM, HoldsD
    <3>2. \A d \in Clients : HoldsM(d) => Rank(d) = 1
      BY DEF Rank
    <3> QED
      BY <2>4, <3>1, <3>2 DEF ClientGoes, FreeM, WaitsFor
  <2>5. CASE pc[c] = "reading"
    BY <2>5 DEF ClientGoes
  <2>6. CASE pc[c] = "start"
    BY <2>6 DEF ClientGoes, WaitInv, FindsWorker
  <2>7. CASE pc[c] = "collect"
    BY <2>7, ScansGoOn DEF HoldsM
  <2> QED
    BY <2>1, <2>2, <2>3, <2>4, <2>5, <2>6, <2>7
<1> QED
  BY <1>1, CancelledGoes DEF NoCircularWait

\* No request waits in a circle, for any requests, clients and workers: there is an
\* order of the mutexes that all of them keep.
THEOREM NobodyWaitsInACircle ==
  ASSUME ~LateObserver
  PROVE  Spec => []NoCircularWait
<1>1. LocksInv /\ WaitInv /\ [Next]_vars => WaitInv'
  BY WaitNext
<1>2. Spec => []WaitInv
  BY <1>1, WaitInit, LocksInvariant, PTL DEF Spec
<1>3. LocksInv /\ WaitInv => NoCircularWait
  BY NobodyCircles
<1> QED
  BY <1>2, <1>3, LocksInvariant, PTL
=============================================================================
