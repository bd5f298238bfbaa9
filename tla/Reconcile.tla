----------------------------- MODULE Reconcile -----------------------------
(***************************************************************************)
(* What a reload of the configuration (go/pkg/config/runner.go) promises of *)
(* the running targets, whatever was configured before:                     *)
(*   - it starts a target for each wanted entry that has none, and no other,*)
(*     but may fail to;                                                     *)
(*   - it stops a target only when its entry is not wanted any more, and    *)
(*     only once all that is wanted runs or has failed;                     *)
(*   - it leaves the others alone, and is over when each wanted entry that  *)
(*     has not failed has its one target and there is no other target.      *)
(* An entry that has failed need not be tried again as long as it is wanted.*)
(* Between reloads no target comes or goes.  When a step happens is left    *)
(* open, and so is what is wanted next.                                     *)
(***************************************************************************)
VARIABLES busy,     \* a reload is under way
          wanted,   \* the entries that are to run
          failed,   \* those of them that got no target when that was tried last
          running   \* target id -> its entry, of the targets that have not ended

reconcileVars == <<busy, wanted, failed, running>>

Running == {running[i] : i \in DOMAIN running}

\* The start of the proxy is a reload of nothing.
ReconcileInit == busy = TRUE /\ failed = {} /\ running = [i \in {} |-> 0]

Ask ==
  /\ ~busy /\ busy' = TRUE
  /\ failed' = failed \cap wanted'
  /\ UNCHANGED running

Start(s) ==
  /\ busy /\ s \in wanted \ Running
  /\ \E i \in DOMAIN running' \ DOMAIN running :
       running' = [j \in DOMAIN running \cup {i} |-> IF j = i THEN s ELSE running[j]]
  /\ failed' = failed \ {s}
  /\ UNCHANGED <<busy, wanted>>

Fail(s) ==
  /\ busy /\ s \in wanted \ Running
  /\ failed' = failed \cup {s}
  /\ UNCHANGED <<busy, wanted, running>>

Stop(i) ==
  /\ busy /\ i \in DOMAIN running /\ running[i] \notin wanted
  /\ wanted \ failed \subseteq Running
  /\ running' = [j \in DOMAIN running \ {i} |-> running[j]]
  /\ UNCHANGED <<busy, wanted, failed>>

Finished ==
  /\ busy /\ Running = wanted \ failed
  /\ \A i, j \in DOMAIN running : running[i] = running[j] => i = j
  /\ busy' = FALSE
  /\ UNCHANGED <<wanted, failed, running>>

ReconcileNext ==
  \/ Ask \/ Finished
  \/ \E s \in wanted : Start(s) \/ Fail(s)
  \/ \E i \in DOMAIN running : Stop(i)

ReconcileSpec == ReconcileInit /\ [][ReconcileNext]_reconcileVars
=============================================================================
