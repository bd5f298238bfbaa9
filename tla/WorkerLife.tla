----------------------------- MODULE WorkerLife -----------------------------
(***************************************************************************)
(* What a ProxyWorker (go/pkg/worker/exec.go) promises the component that   *)
(* owns it, a Target or a Subscription.  The owner sees one worker process  *)
(* at a time, numbered by incarnation, and the target-info.json that a      *)
(* receiving worker leaves in its work directory:                           *)
(*   - an incarnation is prepared only when nothing of the previous one is  *)
(*     left, and never after the worker has halted;                         *)
(*   - the target info of an incarnation appears only while its process     *)
(*     runs, grows from absent over partially written to complete, does not *)
(*     change afterwards, and goes away before the next incarnation;        *)
(*   - a worker halts only when it was told to;                             *)
(*   - it gives up unasked in three ways: its first launch fails (then it   *)
(*     panics when it is told to halt), it hangs with its mutex locked, or  *)
(*     it panics, which ends the proxy.                                     *)
(* When a step happens is left open, so no liveness is promised here.       *)
(***************************************************************************)
EXTENDS Integers

VARIABLES inc,     \* incarnation number of the latest launch, 0 before any
          phase,   \* life of that incarnation
          info,    \* its target-info.json as GetTargetInfo would read it
          told,    \* the owner has cancelled the worker's context
          sup      \* the goroutine of run(): "run", "hung", "halted", "panic"

lifeVars == <<inc, phase, info, told, sup>>

InfoStates == {"none", "partial", "full"}

\* Each variable stays in its range; inc counts incarnations.
LifeTypeOK ==
  /\ inc \in Nat
  /\ phase \in {"new", "stalled", "ready", "up", "down", "idle"}
  /\ info \in InfoStates
  /\ told \in BOOLEAN
  /\ sup \in {"run", "hung", "halted", "panic"}

LifeInit == inc = 0 /\ phase = "new" /\ info = "none" /\ told = FALSE /\ sup = "run"

Tell == ~told /\ told' = TRUE /\ UNCHANGED <<inc, phase, info, sup>>

\* restart() succeeded: a fresh work directory, a process about to be started.
Prepare ==
  /\ phase \in {"new", "idle"} /\ sup = "run"
  /\ inc' > inc
  /\ phase' = "ready"
  /\ UNCHANGED <<info, told, sup>>

\* The first restart() failed.
Stall == phase = "new" /\ sup = "run" /\ phase' = "stalled" /\ UNCHANGED <<inc, info, told, sup>>

Launch == phase = "ready" /\ sup # "panic" /\ phase' = "up" /\ UNCHANGED <<inc, info, told, sup>>

\* The executable did not start.
Fail == phase = "ready" /\ sup # "panic" /\ phase' = "down" /\ UNCHANGED <<inc, info, told, sup>>

\* The process ended, by itself or because it was told to.
Die == phase = "up" /\ phase' = "down" /\ UNCHANGED <<inc, info, told, sup>>

\* The process creates the file, then fills it.
Publish ==
  /\ phase = "up"
  /\ \/ info = "none" /\ info' = "partial"
     \/ info = "partial" /\ info' = "full"
  /\ UNCHANGED <<inc, phase, told, sup>>

\* The work directory is removed.
Retract ==
  /\ phase = "down" /\ sup # "panic"
  /\ phase' = "idle" /\ info' = "none"
  /\ UNCHANGED <<inc, told, sup>>

\* terminate() never returns.  It runs after the process is gone, or on request.
Hang ==
  /\ sup = "run" /\ phase \notin {"new", "stalled"} /\ (told \/ phase = "idle")
  /\ sup' = "hung"
  /\ UNCHANGED <<inc, phase, info, told>>

Panic ==
  /\ sup \in {"run", "hung"} /\ phase # "new" /\ (phase = "stalled" => told)
  /\ sup' = "panic"
  /\ UNCHANGED <<inc, phase, info, told>>

Halt ==
  /\ phase \in {"new", "idle"} /\ told /\ sup = "run"
  /\ sup' = "halted"
  /\ UNCHANGED <<inc, phase, info, told>>

LifeNext == Tell \/ Prepare \/ Stall \/ Launch \/ Fail \/ Die \/ Publish \/ Retract
              \/ Hang \/ Panic \/ Halt

LifeSpec == LifeInit /\ [][LifeNext]_lifeVars
=============================================================================
