--------------------------- MODULE WorkerProcess ---------------------------
(***************************************************************************)
(* The worker process: main() (src/main.cpp) reads the configuration and    *)
(* runs an initiator or a target (src/initiator.cpp, src/target.cpp), which *)
(* opens one thing after the other, connects, transfers until a signal or   *)
(* an error, and gives everything back in the opposite order, the metrics   *)
(* with their thread (MetricsSessions) among it.                            *)
(*                                                                          *)
(* The objects of src/mxl.hpp and src/fabrics.hpp own one native handle     *)
(* each and can only be moved; the two instances are shared.  stack has the *)
(* objects, the youngest last, each as its handle: one that was moved from  *)
(* is "empty", it owns nothing, and its destructor does nothing.            *)
(***************************************************************************)
EXTENDS MetricsSessions, SequencesExt

VARIABLES todo,            \* the steps of the run that are left
          stack, native,   \* the objects; the native handles that are open
          sig              \* a signal has come

mainVars    == <<todo, stack, native, sig>>
processVars == <<mainVars, metricsVars>>

Flows     == {"reader", "writer"}
Instances == {"mxl", "fabrics"}
Native    == Instances \cup Flows \cup {"endpoint", "info"}
Objects   == Native \cup {"metrics", "rt", "empty"}

\* What an initiator and a target do; with a discrete flow whose latency is
\* measured the initiator has a writer too.
InitiatorRun(precise) ==
  IF precise THEN <<"mxl", "fabrics", "metrics", "reader", "writer", "initiator", "info",
                    "addTarget", "connect", "rt", "move", "transfer">>
  ELSE <<"mxl", "fabrics", "metrics", "reader", "initiator", "info",
         "addTarget", "connect", "rt", "move", "transfer">>

TargetRun ==
  <<"mxl", "fabrics", "metrics", "writer", "target", "writeInfo", "rt", "move", "transfer">>

Init ==
  /\ MetricsInit
  /\ todo = <<"config">> /\ stack = <<>> /\ native = {} /\ sig = FALSE

-----------------------------------------------------------------------------
(* How a step ends.                                                         *)

At(step) == over = "no" /\ todo # <<>> /\ todo[1] = step

\* An exception.  What it is decides what main() logs and returns, no more.
Failing == todo' = <<>> /\ UNCHANGED <<stack, native>>

\* The same, with a handle open that no object got.
Losing ==
  /\ todo' = <<>>
  /\ native' = native \cup {"lost"}
  /\ UNCHANGED stack

\* The step succeeds: objects with the handles hs.
Owning(hs) ==
  /\ todo' = Tail(todo)
  /\ stack' = stack \o hs
  /\ native' = native \cup (ToSet(hs) \cap Native)

-----------------------------------------------------------------------------
(* The steps.                                                               *)

\* readFile(), and Config::parse(); main() chooses.
ReadConfig ==
  /\ At("config")
  /\ \/ /\ todo' \in {InitiatorRun(TRUE), InitiatorRun(FALSE), TargetRun}
        /\ UNCHANGED <<stack, native>>
     \/ Failing
  /\ UNCHANGED metricsVars

OpenInstance ==
  At("mxl") /\ (Owning(<<"mxl">>) \/ Failing) /\ UNCHANGED metricsVars

OpenFabrics ==
  At("fabrics") /\ (Owning(<<"fabrics">>) \/ Failing) /\ UNCHANGED metricsVars

StartMetrics ==
  /\ At("metrics")
  /\ \/ Owning(<<"metrics">>) /\ Construct
     \/ Failing /\ UNCHANGED metricsVars

\* Nobody owns the reader before the format of the flow is known.
OpenReader ==
  /\ At("reader")
  /\ Owning(<<"reader">>) \/ Failing \/ Losing
  /\ UNCHANGED metricsVars

\* Of an initiator: with the definition that its reader has, which is discrete.
OpenWriter ==
  At("writer") /\ (Owning(<<"writer">>) \/ Failing) /\ UNCHANGED metricsVars

\* An endpoint whose setup fails is destroyed.
OpenInitiator ==
  At("initiator") /\ (Owning(<<"endpoint">>) \/ Failing) /\ UNCHANGED metricsVars

\* The setup answers the target's info; the constructor that reads its id frees
\* nothing when that fails.
OpenTarget ==
  /\ At("target")
  /\ Owning(<<"endpoint", "info">>) \/ Failing \/ Losing
  /\ UNCHANGED metricsVars

OpenEndpoint == OpenInitiator \/ OpenTarget

ParseInfo ==
  At("info") /\ (Owning(<<"info">>) \/ Failing) /\ UNCHANGED metricsVars

AddTarget == At("addTarget") /\ (Owning(<<>>) \/ Failing) /\ UNCHANGED metricsVars

WriteInfo == At("writeInfo") /\ (Owning(<<>>) \/ Failing) /\ UNCHANGED metricsVars

\* The peer answers, or an error; it may never do either.
Connects == At("connect") /\ (Owning(<<>>) \/ Failing) /\ UNCHANGED metricsVars

\* A signal ends the wait and not the run: the transfer sees it again.
ConnectInterrupted == At("connect") /\ sig /\ Owning(<<>>) /\ UNCHANGED metricsVars

SetRealTime ==
  At("rt") /\ (Owning(<<"rt">>) \/ Failing) /\ UNCHANGED metricsVars

\* Mutant: the object that is moved from keeps its handle.
MovedKeeps(st, hs) == st

\* The stack st when the owners of hs are moved from.
Moved(st, hs) == [i \in DOMAIN st |-> IF st[i] \in hs THEN "empty" ELSE st[i]]

\* The flows and the endpoint become parameters, in one order or the other: the
\* compiler chooses.
MoveIntoTransfer ==
  /\ At("move") /\ todo' = Tail(todo)
  /\ LET hs == ToSet(stack) \cap (Flows \cup {"endpoint"})
         Place(h) == CHOOSE i \in DOMAIN stack : stack[i] = h
     IN \E ps \in SetToSeqs(hs), inOrder \in BOOLEAN :
          /\ \A i, j \in DOMAIN ps : i < j => (Place(ps[i]) < Place(ps[j])) = inOrder
          /\ stack' = Moved(stack, hs) \o ps
  /\ UNCHANGED <<native, metricsVars>>

\* transferGrains() and transferSamples() return on a signal only.
Transferred ==
  /\ At("transfer") /\ sig
  /\ todo' = <<>>
  /\ UNCHANGED <<stack, native, metricsVars>>

TransferFails == At("transfer") /\ Failing /\ UNCHANGED metricsVars

-----------------------------------------------------------------------------
(* The way back: the youngest object first, whatever ended the run.         *)

Unwinding == over = "no" /\ todo = <<>>

\* The instance that an object refers to: a flow and the other instance to mxl,
\* an endpoint to fabrics.
Uses(h) == IF h \in Flows \cup {"fabrics"} THEN "mxl"
           ELSE IF h = "endpoint" THEN "fabrics" ELSE "nothing"

\* Destroying h: its handle, and an instance that nothing is left to refer to.
Release(h) ==
  /\ stack # <<>> /\ h = Last(stack)
  /\ stack' = Front(stack)
  /\ native' = native \ (({h} \ Instances)
                \cup {i \in Instances :
                        \A g \in ToSet(stack') : g # i /\ Uses(g) # i})
  /\ UNCHANGED todo

Unwind ==
  /\ Unwinding
  /\ \E h \in Objects \ {"metrics"} : Release(h)
  /\ UNCHANGED metricsVars

\* A destructor that throws ends the process: those of flows can.
ReleaseThrows ==
  /\ Unwinding /\ stack # <<>> /\ Last(stack) \in Flows
  /\ over' = "abort"
  /\ UNCHANGED <<todo, stack, native, metrics, serverVars, visited, threadVars, clientVars>>

UnwindMetrics ==
  /\ Unwinding /\ stack # <<>> /\ Last(stack) = "metrics"
  /\ \/ (BeginClose \/ Destruct) /\ UNCHANGED <<todo, stack, native>>
     \/ metrics = "gone" /\ Release("metrics") /\ UNCHANGED metricsVars

Return ==
  /\ Unwinding /\ stack = <<>>
  /\ over' = "exit"
  /\ UNCHANGED <<todo, stack, native, metrics, serverVars, visited, threadVars, clientVars>>

-----------------------------------------------------------------------------
\* Where the main thread touches nothing that the other thread or a client sees:
\* such steps are not interleaved with theirs.
Local ==
  /\ over = "no"
  /\ IF todo = <<>> THEN stack # <<>> /\ Last(stack) # "metrics"
                     ELSE todo[1] \notin {"metrics", "connect", "transfer"}

\* The handler runs on either thread.  Of the calls of the other one only
\* epoll_wait() is interrupted, and the thread ends with the error.
Signal ==
  /\ over = "no" /\ ~sig /\ sig' = TRUE
  /\ UNCHANGED <<todo, stack, native>>
  /\ UNCHANGED metricsVars \/ Interrupted

\* What the main thread does by itself.
Step ==
  /\ \/ ReadConfig \/ OpenInstance \/ OpenFabrics \/ StartMetrics
     \/ OpenReader \/ OpenWriter \/ OpenEndpoint \/ ParseInfo \/ AddTarget \/ WriteInfo
     \/ ConnectInterrupted \/ SetRealTime \/ MoveIntoTransfer \/ Transferred
     \/ Unwind \/ ReleaseThrows \/ UnwindMetrics \/ Return
  /\ UNCHANGED sig

\* What it does when its peer or the flow does something.
Await == (Connects \/ TransferFails) /\ UNCHANGED sig

Next ==
  \/ Step \/ Await \/ Signal
  \/ ~Local /\ (Listener \/ Client) /\ UNCHANGED mainVars

\* Both threads run; a client reads what it has been sent.
Fairness ==
  /\ WF_processVars(Step)
  /\ WF_processVars(~Local /\ Listener /\ UNCHANGED mainVars)
  /\ \A c \in Clients : WF_processVars(~Local /\ Read(c) /\ UNCHANGED mainVars)

Spec == Init /\ [][Next]_processVars /\ Fairness

-----------------------------------------------------------------------------
(* Properties.                                                              *)

\* Every native handle that is open has one owner, and every owner an open
\* handle: nothing is released twice or forgotten, along every way out of the
\* run, but for a reader or an info that no object got.  What a handle was made from
\* is open as long as it is itself.
HandlesOwned ==
  /\ \A i, j \in DOMAIN stack : stack[i] \in Native /\ stack[i] = stack[j] => i = j
  /\ ToSet(stack) \cap Native \subseteq native
  /\ native \subseteq ToSet(stack) \cup {"lost"}
  /\ \A h \in native : Uses(h) \in native \cup {"nothing"}

\* A signal ends the process, whatever the main thread waits for and whatever
\* its clients do: the thread of the metrics does not keep it.
SignalEnds == sig ~> over # "no"
=============================================================================
