--------------------------- MODULE GrainTransfer ---------------------------
(***************************************************************************)
(* The data path of a flow: transferGrains, or for an audio flow            *)
(* transferSamples, of the sending worker (src/initiator.cpp) and of the    *)
(* receiving worker (src/target.cpp), with the flow's ring buffer at the    *)
(* source and the fabric between them.                                      *)
(*                                                                          *)
(* The source publishes grains (samples) head, head + 1, ... and keeps the  *)
(* last Ring of them.  A discrete flow is sent grain by grain: getGrain     *)
(* returns a grain, or throws "too late" or, at the end of its wait, "too   *)
(* early"; the handler then reads the head index again.  A continuous one   *)
(* is sent in batches of Batch samples, named by the last of them: one that *)
(* is too late is given up for the head, one that is too early asked for    *)
(* again at once.  One transfer at a time is under way; what has arrived    *)
(* waits in queue.  Indexes count from the epoch, so 0 is always too late.  *)
(***************************************************************************)
EXTENDS Integers, Sequences

CONSTANTS Ring,       \* grains, or samples, that the source keeps
          Batch,      \* samples that are sent at a time
          Queue,      \* transfers that the receiving side has room for
          IdleMax,    \* ticks: a worker gives up after ten seconds
          MaxIndex,   \* bound: grains
          MayBreak    \* the connection may break before the receiving worker ends

ASSUME TransferOK ==
  /\ Ring \in Nat \ {0} /\ Queue \in Nat \ {0} /\ IdleMax \in Nat /\ MaxIndex \in Nat
  /\ MayBreak \in BOOLEAN /\ Batch \in 1..Ring

VARIABLES kind,                       \* of the flow: discrete, continuous
          head, publishing,           \* the source
          ipc, index, iIdle,          \* transferGrains or transferSamples of the initiator
          iFirst, iLast, iGrains, iSkipped,   \* and what it has observed
          linked, queue,              \* the fabric
          tpc, tIndex, tIdle,         \* the same of the target
          tFirst, tLast, tGrains, tSkipped,
          sig                         \* both workers are told to end

sourceVars == <<kind, head, publishing>>
iVars      == <<ipc, index, iIdle>>
iCounts    == <<iFirst, iLast, iGrains, iSkipped>>
fabricVars == <<linked, queue>>
tVars      == <<tpc, tIndex, tIdle>>
tCounts    == <<tFirst, tLast, tGrains, tSkipped>>
vars       == <<sourceVars, iVars, iCounts, fabricVars, tVars, tCounts, sig>>

Init ==
  /\ kind \in {"discrete", "continuous"}
  /\ head \in Ring..(Ring + 1) /\ publishing = TRUE
  /\ ipc = "get" /\ index = (IF kind = "discrete" THEN 0 ELSE head) /\ iIdle = 0
  /\ iFirst = 0 /\ iLast = 0 /\ iGrains = 0 /\ iSkipped = 0
  /\ linked = TRUE /\ queue = <<>>
  /\ tpc = "wait" /\ tIndex = 0 /\ tIdle = 0
  /\ tFirst = 0 /\ tLast = 0 /\ tGrains = 0 /\ tSkipped = 0
  /\ sig = FALSE

-----------------------------------------------------------------------------
(* The source, the clock, the fabric, the supervisors.                      *)

Publish ==
  /\ publishing /\ head < MaxIndex
  /\ head' = head + 1
  /\ UNCHANGED <<kind, publishing, iVars, iCounts, fabricVars, tVars, tCounts, sig>>

SourceStops ==
  /\ publishing /\ publishing' = FALSE
  /\ UNCHANGED <<kind, head, iVars, iCounts, fabricVars, tVars, tCounts, sig>>

Later(n) == IF n > IdleMax THEN n ELSE n + 1

\* transferSamples has no clock for its source.
Tick ==
  /\ iIdle <= IdleMax \/ tIdle <= IdleMax
  /\ iIdle' = (IF kind = "discrete" THEN Later(iIdle) ELSE iIdle)
  /\ tIdle' = Later(tIdle)
  /\ UNCHANGED <<sourceVars, ipc, index, iCounts, fabricVars, tpc, tIndex, tCounts, sig>>

Break ==
  /\ MayBreak \/ tpc = "exit"
  /\ linked /\ linked' = FALSE
  /\ UNCHANGED <<sourceVars, iVars, iCounts, queue, tVars, tCounts, sig>>

Signal ==
  /\ ~sig /\ sig' = TRUE
  /\ UNCHANGED <<sourceVars, iVars, iCounts, fabricVars, tVars, tCounts>>

-----------------------------------------------------------------------------
(* The sending worker.                                                      *)

\* Mutant: the wait for a transfer does not look at the signal.
InitiatorQuitsBetween ==
  /\ sig /\ ipc = "get"
  /\ ipc' = "exit"
  /\ UNCHANGED <<sourceVars, index, iIdle, iCounts, fabricVars, tVars, tCounts, sig>>

\* sig.shouldExit, at the top of the loop, in one step with the call that follows,
\* and while a transfer is under way.
InitiatorQuits ==
  /\ sig /\ ipc \in {"get", "progress"}
  /\ ipc' = "exit"
  /\ UNCHANGED <<sourceVars, index, iIdle, iCounts, fabricVars, tVars, tCounts, sig>>

\* Grains, or samples, that one transfer carries.
Width == IF kind = "discrete" THEN 1 ELSE Batch

Early(i) == i > head

\* The first of what is asked for has been overwritten.
Late(i) == i - Width < head - Ring

\* getGrain, or getSamplesNonBlocking, finds what it is asked for.
GetGrain ==
  /\ ipc = "get" /\ ~sig /\ ~Early(index) /\ ~Late(index)
  /\ ipc' = "send" /\ iIdle' = 0
  /\ UNCHANGED <<sourceVars, index, iCounts, fabricVars, tVars, tCounts, sig>>

\* Too late, or too early after 100ms without the grain.  A batch that is too
\* early changes nothing.
GetThrows ==
  /\ ipc = "get" /\ ~sig
  /\ Late(index) \/ (kind = "discrete" /\ Early(index))
  /\ ipc' = "catch"
  /\ UNCHANGED <<sourceVars, index, iIdle, iCounts, fabricVars, tVars, tCounts, sig>>

\* Mutant: after an exception the latest grain is taken, sent or not.
CatchTakesHead ==
  /\ ipc = "catch" /\ kind = "discrete"
  /\ IF iIdle > IdleMax THEN ipc' = "exit" /\ UNCHANGED index
                        ELSE ipc' = "get" /\ index' = head
  /\ UNCHANGED <<sourceVars, iIdle, iCounts, fabricVars, tVars, tCounts, sig>>

\* Mutant: the wait for a grain is not limited.
CatchWaits ==
  /\ ipc = "catch" /\ kind = "discrete"
  /\ ipc' = "get" /\ index' = head + 1
  /\ UNCHANGED <<sourceVars, iIdle, iCounts, fabricVars, tVars, tCounts, sig>>

\* The handler of the exception: the head may have moved since it was thrown.
Catch ==
  /\ ipc = "catch" /\ kind = "discrete"
  /\ IF iIdle > IdleMax THEN ipc' = "exit" /\ UNCHANGED index
                        ELSE ipc' = "get" /\ index' = head + 1
  /\ UNCHANGED <<sourceVars, iIdle, iCounts, fabricVars, tVars, tCounts, sig>>

\* The batches that are lost are not looked for: the next is the latest.
CatchSamples ==
  /\ ipc = "catch" /\ kind = "continuous"
  /\ ipc' = "get" /\ index' = head
  /\ UNCHANGED <<sourceVars, iIdle, iCounts, fabricVars, tVars, tCounts, sig>>

\* transfer() starts, or discards the grain when the initiator is not ready,
\* connected or not; any other error ends the worker.
Transfer ==
  /\ ipc = "send"
  /\ \/ ipc' \in {"progress", "count"}
     \/ ~linked /\ ipc' = "exit"
  /\ UNCHANGED <<sourceVars, index, iIdle, iCounts, fabricVars, tVars, tCounts, sig>>

\* makeProgress() returns false once the transfer is complete.
Arrive ==
  /\ ipc = "progress" /\ linked /\ tpc # "exit" /\ Len(queue) < Queue
  /\ queue' = Append(queue, index)
  /\ ipc' = "count"
  /\ UNCHANGED <<sourceVars, index, iIdle, iCounts, linked, tVars, tCounts, sig>>

\* It throws, or returns true for ever: nothing limits that loop.
ProgressFails ==
  /\ ipc = "progress" /\ ~linked
  /\ ipc' = "exit"
  /\ UNCHANGED <<sourceVars, index, iIdle, iCounts, fabricVars, tVars, tCounts, sig>>

\* The bookkeeping; the number of skipped grains goes into a second variable of
\* that name, and what is observed is zero.
InitiatorCount ==
  /\ ipc = "count" /\ kind = "discrete"
  /\ iGrains' = iGrains + 1 /\ UNCHANGED iSkipped
  /\ iLast' = IF iLast < index THEN index ELSE iLast
  /\ iFirst' = IF iFirst = 0 THEN index ELSE iFirst
  /\ index' = index + 1
  /\ ipc' = "get"
  /\ UNCHANGED <<sourceVars, iIdle, fabricVars, tVars, tCounts, sig>>

\* For samples nothing is observed at all.
SamplesSent ==
  /\ ipc = "count" /\ kind = "continuous"
  /\ index' = index + Batch
  /\ ipc' = "get"
  /\ UNCHANGED <<sourceVars, iIdle, iCounts, fabricVars, tVars, tCounts, sig>>

-----------------------------------------------------------------------------
(* The receiving worker.                                                    *)

TargetQuits ==
  /\ sig /\ tpc \in {"wait", "commit"}
  /\ tpc' = "exit"
  /\ UNCHANGED <<sourceVars, iVars, iCounts, fabricVars, tIndex, tIdle, tCounts, sig>>

\* readGrain returns an index.
ReadGrain ==
  /\ tpc = "wait" /\ ~sig /\ queue # <<>>
  /\ tIndex' = Head(queue) /\ queue' = Tail(queue)
  /\ tpc' = "commit"
  /\ UNCHANGED <<sourceVars, iVars, iCounts, linked, tIdle, tCounts, sig>>

\* Mutant: the wait is not limited.
ReadWaits == FALSE /\ UNCHANGED vars

\* readGrain returns nothing after 500ms, and the last grain is too old.
ReadTimesOut ==
  /\ tpc = "wait" /\ ~sig /\ queue = <<>> /\ tIdle > IdleMax
  /\ tpc' = "exit"
  /\ UNCHANGED <<sourceVars, iVars, iCounts, fabricVars, tIndex, tIdle, tCounts, sig>>

\* The grain is committed and observed; the wait for the next one begins.
Commit ==
  /\ tpc = "commit" /\ kind = "discrete"
  /\ tGrains' = tGrains + 1
  /\ IF tLast < tIndex
       THEN /\ tSkipped' = tSkipped + (IF tLast = 0 THEN 0 ELSE tIndex - (tLast + 1))
            /\ tLast' = tIndex
       ELSE UNCHANGED <<tSkipped, tLast>>
  /\ tFirst' = IF tFirst = 0 THEN tIndex ELSE tFirst
  /\ tpc' = "wait" /\ tIdle' = 0
  /\ UNCHANGED <<sourceVars, iVars, iCounts, fabricVars, tIndex, sig>>

\* Mutant: the next batch is expected where this one ends.
CommitSamplesAtHead ==
  /\ tpc = "commit" /\ kind = "continuous"
  /\ tGrains' = tGrains + 1
  /\ tSkipped' = tSkipped + (IF tLast # 0 /\ tIndex > tLast THEN tIndex - tLast ELSE 0)
  /\ tLast' = tIndex
  /\ tFirst' = IF tFirst = 0 THEN tIndex ELSE tFirst
  /\ tpc' = "wait" /\ tIdle' = 0
  /\ UNCHANGED <<sourceVars, iVars, iCounts, fabricVars, tIndex, sig>>

\* For samples tLast is the index that the next batch should have.
CommitSamples ==
  /\ tpc = "commit" /\ kind = "continuous"
  /\ tGrains' = tGrains + 1
  /\ tSkipped' = tSkipped + (IF tLast # 0 /\ tIndex > tLast THEN tIndex - tLast ELSE 0)
  /\ tLast' = tIndex + Batch
  /\ tFirst' = IF tFirst = 0 THEN tIndex ELSE tFirst
  /\ tpc' = "wait" /\ tIdle' = 0
  /\ UNCHANGED <<sourceVars, iVars, iCounts, fabricVars, tIndex, sig>>

-----------------------------------------------------------------------------
Initiator == InitiatorQuits \/ GetGrain \/ GetThrows \/ Catch \/ CatchSamples
               \/ Transfer \/ Arrive \/ InitiatorCount \/ SamplesSent

Target == TargetQuits \/ ReadGrain \/ ReadTimesOut \/ Commit \/ CommitSamples

Next == Publish \/ SourceStops \/ Tick \/ Break \/ Signal \/ Initiator \/ ProgressFails
          \/ Target

Spec == Init /\ [][Next]_vars

\* Both workers and the clock run, a transfer completes while the connection is
\* up.  Nothing makes the source publish or a broken connection be noticed.
Fairness == WF_vars(Initiator) /\ WF_vars(Target) /\ WF_vars(Tick)

FairSpec == Spec /\ Fairness

-----------------------------------------------------------------------------
(* Properties.                                                              *)

\* The grain, or the batch, that was committed last.
Committed == IF kind = "discrete" \/ tLast = 0 THEN tLast ELSE tLast - Batch

\* What is on its way to the target: committed last, taken, queued, being sent.
OnTheWay ==
  <<Committed>> \o (IF tpc = "commit" THEN <<tIndex>> ELSE <<>>) \o queue
                \o (IF ipc \in {"send", "progress"} THEN <<index>> ELSE <<>>)

\* Grains arrive in the order of their index and none is sent twice, however
\* often the initiator has to catch up with the source; no two batches have a
\* sample in common.
InOrder ==
  \A i, j \in DOMAIN OnTheWay : i < j => OnTheWay[j] - OnTheWay[i] >= Width

\* The target's counters account for every grain or sample from the first that
\* it had to the last: those committed and those skipped.
TargetAccounts ==
  tLast # 0 => Width * tGrains + tSkipped
                 = tLast - tFirst + (IF kind = "discrete" THEN 1 ELSE 0)

\* When the source has stopped for good the sending worker ends, or it is kept
\* for ever by one of two loops without a limit: the one around makeProgress,
\* and, sending samples, the one that asks for the next batch.
SourceGone ==
  <>~publishing => \/ <>(ipc = "exit")
                   \/ <>[](ipc = "progress")
                   \/ kind = "continuous" /\ <>[](ipc = "get" /\ Early(index))

\* When no grain comes any more, for whatever reason, the receiving worker ends.
NothingComes == <>[](queue = <<>>) => <>(tpc = "exit")

\* A signal ends both workers, whatever either of them waits for: a source that
\* does not publish, a transfer that does not end, a sender that sends nothing.
QuitOnSignal == sig ~> ipc = "exit" /\ tpc = "exit"

\* The types of the variables.
TransferTypeOK ==
  /\ kind \in {"discrete", "continuous"} /\ head \in Nat /\ index \in Nat
  /\ ipc \in {"get", "catch", "send", "progress", "count", "exit"}
  /\ tpc \in {"wait", "commit", "exit"} /\ tIndex \in Nat /\ queue \in Seq(Nat)
  /\ tFirst \in Nat /\ tLast \in Nat /\ tGrains \in Nat /\ tSkipped \in Nat

-----------------------------------------------------------------------------
(* What the code does not keep.                                             *)

\* The initiator's counters account for every index, as the target's do: the
\* calculation is there, but its result is dropped.
InitiatorAccounts ==
  iLast # 0 => iGrains + iSkipped = iLast - iFirst + 1
=============================================================================
