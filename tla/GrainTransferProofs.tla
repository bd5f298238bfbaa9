------------------------ MODULE GrainTransferProofs ------------------------
(***************************************************************************)
(* Proofs about GrainTransfer, for every size of the ring, of a batch and   *)
(* of the queue, and for any number of grains.                              *)
(***************************************************************************)
EXTENDS GrainTransfer, TLAPS

-----------------------------------------------------------------------------
(* The inductive invariant.                                                 *)

\* The initiator is never ahead of the source by more than one transfer, and not
\* ahead at all of what it sends or was too late for.
IndexBounded ==
  /\ head >= Ring
  /\ ipc \in {"get", "catch"} => index <= head + Width
  /\ ipc = "catch" /\ kind = "continuous" => index <= head
  /\ ipc \in {"send", "progress", "count"} => Width <= index /\ index <= head

\* What the target has, or will get from the queue, is behind what the initiator
\* sends now or next.
SentBehind(e) ==
  /\ ipc \in {"get", "catch", "send", "progress"} => index - e >= Width
  /\ ipc = "count" => index >= e

Arrived(i) == queue[i] >= Width /\ SentBehind(queue[i])

QueueOrdered ==
  /\ \A i \in 1..Len(queue) : Arrived(i) /\ queue[i] - Committed >= Width
  /\ \A i, j \in 1..Len(queue) : i < j => queue[j] - queue[i] >= Width

TakenOrdered ==
  tpc = "commit" =>
    /\ tIndex >= Width /\ SentBehind(tIndex) /\ tIndex - Committed >= Width
    /\ \A i \in 1..Len(queue) : queue[i] - tIndex >= Width

CommittedBehind ==
  /\ tLast # 0 => SentBehind(Committed)
  /\ Committed >= 0

NothingCounted == tLast = 0 <=> tFirst = 0
NothingYet     == tLast = 0 => tGrains = 0 /\ tSkipped = 0

TransferInv ==
  /\ TransferTypeOK /\ IndexBounded /\ QueueOrdered /\ TakenOrdered /\ CommittedBehind
  /\ NothingCounted /\ NothingYet /\ TargetAccounts

-----------------------------------------------------------------------------
(* Sums, and the first state.                                               *)

LEMMA WidthPositive ==
  ASSUME TransferTypeOK PROVE Width \in Nat \ {0} /\ Width <= Ring
BY TransferOK DEF TransferTypeOK, Width

\* What bounds an index still does when the head has moved on.
LEMMA SumGrows ==
  ASSUME NEW a \in Nat, NEW b \in Nat, NEW c \in Nat, NEW w \in Nat, a <= b
  PROVE  c <= a + w => c <= b + w
OBVIOUS

LEMMA DifferenceGrows ==
  ASSUME NEW a \in Nat, NEW b \in Nat, NEW e \in Nat, NEW w \in Nat, a <= b
  PROVE  a - e >= w => b - e >= w
OBVIOUS

LEMMA TransferInit == Init => TransferInv
<1> SUFFICES ASSUME Init PROVE TransferInv
  OBVIOUS
<1>1. TransferTypeOK
  BY TransferOK DEF Init, TransferTypeOK
<1>2. Width \in Nat \ {0} /\ Width <= Ring
  BY <1>1, WidthPositive
<1>3. IndexBounded
  BY <1>2, TransferOK DEF Init, IndexBounded, TransferTypeOK
<1>4. QueueOrdered /\ TakenOrdered /\ CommittedBehind
  BY DEF Init, QueueOrdered, TakenOrdered, CommittedBehind, Committed
<1>5. NothingCounted /\ NothingYet /\ TargetAccounts
  BY DEF Init, NothingCounted, NothingYet, TargetAccounts
<1> QED
  BY <1>1, <1>3, <1>4, <1>5 DEF TransferInv

-----------------------------------------------------------------------------
(* The steps, by what they change.                                          *)

\* The source publishes, or a step that none of this is about.
LEMMA SourceStep ==
  ASSUME TransferInv,
         UNCHANGED <<kind, ipc, index, queue, tpc, tIndex, tCounts>>,
         head' \in {head, head + 1}
  PROVE  TransferInv'
<1>1. TransferTypeOK'
  BY DEF TransferInv, TransferTypeOK, tCounts
<1>2. IndexBounded'
  <2>1. Width' = Width /\ Width \in Nat
    BY WidthPositive DEF TransferInv, Width
  <2>2. ipc' = ipc /\ kind' = kind /\ index' = index /\ index \in Nat /\ head \in Nat
    BY DEF TransferInv, TransferTypeOK
  <2>3. head' \in Nat /\ head' >= head
    BY <2>2
  <2>4. Ring \in Nat
    BY TransferOK
  <2>5. IndexBounded
    BY DEF TransferInv
  <2>6. index <= head => index <= head'
    BY <2>2, <2>3
  <2>7. index <= head + Width => index <= head' + Width
    BY <2>1, <2>2, <2>3, SumGrows
  <2>8. head >= Ring => head' >= Ring
    BY <2>2, <2>3, <2>4
  <2> QED
    BY <2>1, <2>2, <2>5, <2>6, <2>7, <2>8 DEF IndexBounded
<1>3. QueueOrdered' /\ TakenOrdered' /\ CommittedBehind'
  BY DEF TransferInv, QueueOrdered, TakenOrdered, CommittedBehind, Arrived, SentBehind,
         Committed, Width, tCounts
<1>4. NothingCounted' /\ NothingYet' /\ TargetAccounts'
  BY DEF TransferInv, NothingCounted, NothingYet, TargetAccounts, Width, tCounts
<1> QED
  BY <1>1, <1>2, <1>3, <1>4 DEF TransferInv

\* A step of the initiator that sends nothing: its index does not fall behind
\* what it has sent.
LEMMA InitiatorStep ==
  ASSUME TransferInv,
         UNCHANGED <<kind, head, queue, tpc, tIndex, tCounts>>,
         ipc' \in {"get", "catch", "send", "progress", "count", "exit"}, index' \in Nat,
         IndexBounded',
         \A e \in Nat : SentBehind(e) => SentBehind(e)'
  PROVE  TransferInv'
<1>1. TransferTypeOK'
  BY DEF TransferInv, TransferTypeOK, tCounts
<1>2. Width' = Width /\ Committed' = Committed
  BY DEF Width, Committed, tCounts
<1>3. QueueOrdered'
  <2>1. \A i \in 1..Len(queue) : queue[i] \in Nat
    BY DEF TransferInv, TransferTypeOK
  <2> QED
    BY <1>2, <2>1 DEF TransferInv, QueueOrdered, Arrived
<1>4. TakenOrdered'
  BY <1>2 DEF TransferInv, TransferTypeOK, TakenOrdered
<1>5. CommittedBehind'
  <2>1. Width \in Nat
    BY WidthPositive DEF TransferInv
  <2>2. Committed \in Nat
    BY <2>1 DEF TransferInv, TransferTypeOK, CommittedBehind, Committed, Width
  <2> QED
    BY <1>2, <2>2 DEF TransferInv, CommittedBehind, tCounts
<1>6. NothingCounted' /\ NothingYet' /\ TargetAccounts'
  BY <1>2 DEF TransferInv, NothingCounted, NothingYet, TargetAccounts, tCounts
<1> QED
  BY <1>1, <1>3, <1>4, <1>5, <1>6 DEF TransferInv

\* A transfer arrives at the end of the queue.
LEMMA ArriveStep == TransferInv /\ Arrive => TransferInv'
<1> SUFFICES ASSUME TransferInv, Arrive PROVE TransferInv'
  OBVIOUS
<1>1. /\ ipc = "progress" /\ ipc' = "count" /\ queue' = Append(queue, index)
      /\ UNCHANGED <<sourceVars, index, tVars, tCounts>>
  BY DEF Arrive
<1>2. Width' = Width /\ Committed' = Committed /\ Width \in Nat
  BY <1>1, WidthPositive DEF TransferInv, Width, Committed, sourceVars, tCounts
<1>3. TransferTypeOK'
  BY <1>1 DEF TransferInv, TransferTypeOK, sourceVars, tVars, tCounts
<1>4. IndexBounded'
  BY <1>1, <1>2 DEF TransferInv, IndexBounded, sourceVars
<1>5. \A i \in 1..Len(queue) : queue[i] \in Nat
  BY DEF TransferInv, TransferTypeOK
<1>6. /\ Len(queue') = Len(queue) + 1 /\ queue'[Len(queue) + 1] = index
      /\ \A i \in 1..Len(queue) : queue'[i] = queue[i]
  BY <1>1 DEF TransferInv, TransferTypeOK
<1>7. index \in Nat /\ index >= Width /\ Committed \in Nat /\ Len(queue) \in Nat
  BY <1>1, <1>2 DEF TransferInv, TransferTypeOK, IndexBounded, CommittedBehind, Committed, Width
<1>8. \A e \in Nat : SentBehind(e) => SentBehind(e)' /\ index - e >= Width
  BY <1>1, <1>2, <1>7 DEF SentBehind
<1>9. SentBehind(index)'
  BY <1>1, <1>7 DEF SentBehind
<1>10. index - Committed >= Width
  <2>1. CASE tLast = 0
    BY <2>1, <1>7 DEF Committed
  <2>2. CASE tLast # 0
    BY <2>2, <1>7, <1>8 DEF TransferInv, CommittedBehind
  <2> QED
    BY <2>1, <2>2
<1>11. QueueOrdered'
  <2>1. ASSUME NEW i \in 1..Len(queue')
        PROVE  queue'[i] >= Width /\ SentBehind(queue[i])' /\ queue'[i] - Committed >= Width
    <3>1. CASE i = Len(queue) + 1
      BY <3>1, <1>1, <1>6, <1>7, <1>9, <1>10
    <3>2. CASE i \in 1..Len(queue)
      BY <3>2, <1>5, <1>6, <1>8 DEF TransferInv, QueueOrdered, Arrived
    <3> QED
      BY <3>1, <3>2, <1>6, <1>7
  <2>2. ASSUME NEW i \in 1..Len(queue'), NEW j \in 1..Len(queue'), i < j
        PROVE  queue'[j] - queue'[i] >= Width
    <3>1. i \in 1..Len(queue)
      BY <2>2, <1>6, <1>7
    <3>2. CASE j = Len(queue) + 1
      BY <3>1, <3>2, <1>5, <1>6, <1>8 DEF TransferInv, QueueOrdered, Arrived
    <3>3. CASE j \in 1..Len(queue)
      BY <2>2, <3>1, <3>3, <1>6 DEF TransferInv, QueueOrdered
    <3> QED
      BY <3>2, <3>3, <1>6, <1>7
  <2> QED
    BY <1>2, <2>1, <2>2 DEF QueueOrdered, Arrived
<1>12. TakenOrdered'
  <2> SUFFICES ASSUME tpc = "commit" PROVE TakenOrdered'
    BY <1>1 DEF TakenOrdered, tVars
  <2>1. /\ tIndex \in Nat /\ tIndex >= Width /\ SentBehind(tIndex) /\ tIndex - Committed >= Width
        /\ \A i \in 1..Len(queue) : queue[i] - tIndex >= Width
    BY DEF TransferInv, TransferTypeOK, TakenOrdered
  <2>2. SentBehind(tIndex)' /\ index - tIndex >= Width
    BY <1>1, <1>8, <2>1 DEF SentBehind, tVars
  <2>3. \A i \in 1..Len(queue') : queue'[i] - tIndex >= Width
    BY <1>6, <1>7, <2>1, <2>2
  <2> QED
    BY <1>1, <1>2, <2>1, <2>2, <2>3 DEF TakenOrdered, tVars
<1>13. CommittedBehind'
  BY <1>1, <1>2, <1>7, <1>8 DEF TransferInv, CommittedBehind, SentBehind, tCounts
<1>14. NothingCounted' /\ NothingYet' /\ TargetAccounts'
  BY <1>1, <1>2 DEF TransferInv, NothingCounted, NothingYet, TargetAccounts, sourceVars, tCounts
<1> QED
  BY <1>3, <1>4, <1>11, <1>12, <1>13, <1>14 DEF TransferInv

\* The target takes the first of the queue.
LEMMA ReadStep == TransferInv /\ ReadGrain => TransferInv'
<1> SUFFICES ASSUME TransferInv, ReadGrain PROVE TransferInv'
  OBVIOUS
<1>1. /\ queue # <<>> /\ tIndex' = Head(queue) /\ queue' = Tail(queue) /\ tpc' = "commit"
      /\ UNCHANGED <<sourceVars, iVars, tCounts>>
  BY DEF ReadGrain
<1>2. Width' = Width /\ Committed' = Committed /\ Width \in Nat
  BY <1>1, WidthPositive DEF TransferInv, Width, Committed, sourceVars, tCounts
<1>3. /\ Len(queue) \in Nat \ {0} /\ Head(queue) = queue[1] /\ Tail(queue) \in Seq(Nat)
      /\ Len(queue') = Len(queue) - 1
      /\ \A i \in 1..Len(queue') : i + 1 \in 1..Len(queue) /\ queue'[i] = queue[i + 1]
  BY <1>1 DEF TransferInv, TransferTypeOK
<1>4. \A i \in 1..Len(queue) : queue[i] \in Nat
  BY DEF TransferInv, TransferTypeOK
<1>5. TransferTypeOK'
  BY <1>1, <1>3, <1>4 DEF TransferInv, TransferTypeOK, sourceVars, iVars, tCounts
<1>6. IndexBounded'
  BY <1>1, <1>2 DEF TransferInv, IndexBounded, sourceVars, iVars
<1>7. \A e \in Nat : SentBehind(e)' = SentBehind(e)
  BY <1>1, <1>2 DEF SentBehind, iVars
<1>8. QueueOrdered'
  <2>1. ASSUME NEW i \in 1..Len(queue')
        PROVE  Arrived(i)' /\ queue'[i] - Committed >= Width
    BY <1>2, <1>3, <1>4, <1>7 DEF TransferInv, QueueOrdered, Arrived
  <2>2. ASSUME NEW i \in 1..Len(queue'), NEW j \in 1..Len(queue'), i < j
        PROVE  queue'[j] - queue'[i] >= Width
    <3>1. i + 1 < j + 1
      BY <2>2, <1>3
    <3> QED
      BY <1>3, <3>1 DEF TransferInv, QueueOrdered
  <2> QED
    BY <1>2, <2>1, <2>2 DEF QueueOrdered
<1>9. TakenOrdered'
  <2>1. 1 \in 1..Len(queue) /\ tIndex' = queue[1]
    BY <1>1, <1>3
  <2>2. tIndex' \in Nat /\ tIndex' >= Width /\ SentBehind(tIndex)' /\ tIndex' - Committed >= Width
    BY <1>1, <1>4, <1>7, <2>1 DEF TransferInv, QueueOrdered, Arrived, SentBehind, iVars
  <2>3. \A i \in 1..Len(queue') : queue'[i] - tIndex' >= Width
    <3> SUFFICES ASSUME NEW i \in 1..Len(queue') PROVE queue'[i] - tIndex' >= Width
      OBVIOUS
    <3>1. 1 < i + 1
      BY <1>3
    <3> QED
      BY <1>3, <2>1, <3>1 DEF TransferInv, QueueOrdered
  <2> QED
    BY <1>2, <2>2, <2>3 DEF TakenOrdered
<1>10. CommittedBehind'
  BY <1>1, <1>2 DEF TransferInv, CommittedBehind, SentBehind, iVars, tCounts
<1>11. NothingCounted' /\ NothingYet' /\ TargetAccounts'
  BY <1>1, <1>2 DEF TransferInv, NothingCounted, NothingYet, TargetAccounts, sourceVars, tCounts
<1> QED
  BY <1>5, <1>6, <1>8, <1>9, <1>10, <1>11 DEF TransferInv

\* The initiator is done with one transfer, gives up on an index that it was too
\* late for, or goes on without any change of its index.
LEMMA InitiatorSteps ==
  TransferInv /\ (InitiatorQuits \/ GetGrain \/ GetThrows \/ Catch \/ CatchSamples \/ Transfer
                    \/ InitiatorCount \/ SamplesSent \/ ProgressFails)
    => TransferInv'
<1> SUFFICES ASSUME TransferInv,
                    \/ InitiatorQuits \/ GetGrain \/ GetThrows \/ Catch \/ CatchSamples
                    \/ Transfer \/ InitiatorCount \/ SamplesSent \/ ProgressFails
             PROVE  TransferInv'
  OBVIOUS
<1>1. /\ index \in Nat /\ head \in Nat /\ Width \in Nat \ {0} /\ Width <= Ring
      /\ Ring \in Nat /\ head >= Ring
  BY WidthPositive, TransferOK DEF TransferInv, TransferTypeOK, IndexBounded
<1>2. UNCHANGED <<kind, head, queue, tpc, tIndex, tCounts>>
  BY DEF InitiatorQuits, GetGrain, GetThrows, Catch, CatchSamples, Transfer, InitiatorCount,
         SamplesSent, ProgressFails, sourceVars, fabricVars, tVars
<1>3. Width' = Width
  BY <1>2 DEF Width
<1>4. CASE InitiatorQuits \/ ProgressFails
  <2>1. ipc' = "exit" /\ index' = index
    BY <1>4 DEF InitiatorQuits, ProgressFails
  <2> QED
    BY <1>1, <1>2, <2>1, InitiatorStep DEF TransferInv, IndexBounded, SentBehind
<1>5. CASE GetGrain
  <2>1. /\ ipc = "get" /\ ipc' = "send" /\ index' = index
        /\ ~(index > head) /\ ~(index - Width < head - Ring)
    BY <1>5 DEF GetGrain, Early, Late
  <2>2. Width <= index /\ index <= head
    BY <1>1, <2>1
  <2>3. IndexBounded'
    BY <1>1, <1>2, <1>3, <2>1, <2>2 DEF IndexBounded
  <2> QED
    BY <1>1, <1>2, <1>3, <2>1, <2>3, InitiatorStep DEF SentBehind
<1>6. CASE GetThrows
  <2>1. ipc = "get" /\ ipc' = "catch" /\ index' = index /\ (kind = "continuous" => index <= head)
    BY <1>1, <1>6 DEF GetThrows, Late
  <2>2. IndexBounded'
    BY <1>1, <1>2, <1>3, <2>1 DEF TransferInv, IndexBounded
  <2> QED
    BY <1>1, <1>2, <1>3, <2>1, <2>2, InitiatorStep DEF SentBehind
<1>7. CASE Catch \/ CatchSamples
  <2>1. CASE ipc' = "exit"
    <3>1. index' = index
      BY <1>7, <2>1 DEF Catch, CatchSamples
    <3> QED
      BY <1>1, <1>2, <2>1, <3>1, InitiatorStep DEF TransferInv, IndexBounded, SentBehind
  <2>2. CASE ipc' # "exit"
    <3>1. /\ ipc = "catch" /\ ipc' = "get"
          /\ index' = (IF kind = "discrete" THEN head + 1 ELSE head)
      BY <1>7, <2>2 DEF Catch, CatchSamples
    <3>2. index' \in Nat /\ index <= index' /\ index' <= head + Width
      BY <1>1, <3>1 DEF TransferInv, TransferTypeOK, IndexBounded, Width
    <3>3. IndexBounded'
      BY <1>1, <1>2, <1>3, <3>1, <3>2 DEF IndexBounded
    <3>4. ASSUME NEW e \in Nat, SentBehind(e) PROVE SentBehind(e)'
      <4>1. index - e >= Width
        BY <3>1, <3>4 DEF SentBehind
      <4>2. index' - e >= Width
        BY <1>1, <3>2, <4>1, DifferenceGrows
      <4> QED
        BY <1>3, <3>1, <4>2 DEF SentBehind
    <3> QED
      BY <1>2, <3>1, <3>2, <3>3, <3>4, InitiatorStep
  <2> QED
    BY <2>1, <2>2
<1>8. CASE Transfer
  <2>1. ipc = "send" /\ ipc' \in {"progress", "count", "exit"} /\ index' = index
    BY <1>8 DEF Transfer
  <2>2. IndexBounded'
    BY <1>1, <1>2, <1>3, <2>1 DEF TransferInv, IndexBounded
  <2>3. ASSUME NEW e \in Nat, SentBehind(e) PROVE SentBehind(e)'
    BY <1>1, <1>3, <2>1, <2>3 DEF SentBehind
  <2> QED
    BY <1>1, <1>2, <2>1, <2>2, <2>3, InitiatorStep
<1>9. CASE InitiatorCount \/ SamplesSent
  <2>1. ipc = "count" /\ ipc' = "get" /\ index' = index + Width
    BY <1>9 DEF InitiatorCount, SamplesSent, Width
  <2>2. index' \in Nat /\ index' <= head + Width
    BY <1>1, <2>1 DEF TransferInv, IndexBounded
  <2>3. IndexBounded'
    BY <1>1, <1>2, <1>3, <2>1, <2>2 DEF IndexBounded
  <2>4. ASSUME NEW e \in Nat, SentBehind(e) PROVE SentBehind(e)'
    <3>1. index >= e
      BY <2>1, <2>4 DEF SentBehind
    <3>2. index' - e >= Width
      BY <1>1, <2>1, <3>1
    <3> QED
      BY <1>3, <2>1, <3>2 DEF SentBehind
  <2> QED
    BY <1>2, <2>1, <2>2, <2>3, <2>4, InitiatorStep
<1> QED
  BY <1>4, <1>5, <1>6, <1>7, <1>8, <1>9

\* The target ends, with a grain that it has taken or without.
LEMMA TargetEnds == TransferInv /\ (TargetQuits \/ ReadTimesOut) => TransferInv'
<1> SUFFICES ASSUME TransferInv, TargetQuits \/ ReadTimesOut PROVE TransferInv'
  OBVIOUS
<1>1. UNCHANGED <<kind, head, ipc, index, queue, tIndex, tCounts>> /\ tpc' = "exit"
  BY DEF TargetQuits, ReadTimesOut, sourceVars, iVars, fabricVars
<1>2. Width' = Width /\ Committed' = Committed
  BY <1>1 DEF Width, Committed, tCounts
<1>3. TransferTypeOK'
  BY <1>1 DEF TransferInv, TransferTypeOK, tCounts
<1>4. IndexBounded'
  BY <1>1, <1>2 DEF TransferInv, IndexBounded
<1>5. QueueOrdered' /\ TakenOrdered' /\ CommittedBehind'
  BY <1>1, <1>2 DEF TransferInv, QueueOrdered, TakenOrdered, CommittedBehind, Arrived,
                    SentBehind, tCounts
<1>6. NothingCounted' /\ NothingYet' /\ TargetAccounts'
  BY <1>1, <1>2 DEF TransferInv, NothingCounted, NothingYet, TargetAccounts, tCounts
<1> QED
  BY <1>3, <1>4, <1>5, <1>6 DEF TransferInv

\* The grain or batch that was taken is committed, and counted.
LEMMA CommitStep == TransferInv /\ (Commit \/ CommitSamples) => TransferInv'
<1> SUFFICES ASSUME TransferInv, Commit \/ CommitSamples PROVE TransferInv'
  OBVIOUS
<1>1. /\ tpc = "commit" /\ tpc' = "wait" /\ tGrains' = tGrains + 1
      /\ tFirst' = (IF tFirst = 0 THEN tIndex ELSE tFirst)
      /\ UNCHANGED <<kind, head, ipc, index, queue, tIndex>>
  BY DEF Commit, CommitSamples, sourceVars, iVars, fabricVars
<1>2. /\ Width \in Nat \ {0} /\ Width' = Width
      /\ tIndex \in Nat /\ tLast \in Nat /\ tFirst \in Nat /\ tGrains \in Nat /\ tSkipped \in Nat
  BY <1>1, WidthPositive DEF TransferInv, TransferTypeOK, Width
<1>3. Committed \in Nat /\ (tLast = 0 => Committed = 0)
  BY <1>2 DEF TransferInv, TransferTypeOK, CommittedBehind, Committed, Width
<1>4. /\ tIndex >= Width /\ SentBehind(tIndex) /\ tIndex - Committed >= Width
      /\ \A i \in 1..Len(queue) : queue[i] - tIndex >= Width
  BY <1>1 DEF TransferInv, TakenOrdered
<1>5. \/ /\ kind = "discrete" /\ Width = 1 /\ Committed = tLast /\ tLast' = tIndex
         /\ tSkipped' = tSkipped + (IF tLast = 0 THEN 0 ELSE tIndex - (tLast + 1))
      \/ /\ kind = "continuous" /\ Width = Batch /\ tLast' = tIndex + Batch
         /\ tLast # 0 => Committed = tLast - Batch
         /\ tSkipped' = tSkipped + (IF tLast = 0 THEN 0 ELSE tIndex - tLast)
  <2>1. CASE kind = "discrete"
    <3>1. Width = 1 /\ Committed = tLast
      BY <2>1 DEF Width, Committed
    <3>2. tLast < tIndex
      BY <1>2, <1>4, <3>1
    <3> QED
      BY <2>1, <3>1, <3>2 DEF Commit, CommitSamples
  <2>2. CASE kind = "continuous"
    <3>1. Width = Batch /\ (tLast # 0 => Committed = tLast - Batch)
      BY <2>2 DEF Width, Committed
    <3>2. tLast # 0 => tIndex >= tLast
      BY <1>2, <1>3, <1>4, <3>1
    <3>3. /\ tLast' = tIndex + Batch
          /\ tSkipped' = tSkipped + (IF tLast # 0 /\ tIndex > tLast THEN tIndex - tLast ELSE 0)
      BY <2>2 DEF Commit, CommitSamples
    <3>4. (IF tLast # 0 /\ tIndex > tLast THEN tIndex - tLast ELSE 0)
             = (IF tLast = 0 THEN 0 ELSE tIndex - tLast)
      BY <1>2, <3>2
    <3> QED
      BY <2>2, <3>1, <3>3, <3>4
  <2> QED
    BY <2>1, <2>2 DEF TransferInv, TransferTypeOK
<1>6. tLast' \in Nat \ {0} /\ tSkipped' \in Nat /\ Committed' = tIndex
  <2>1. tLast' \in Nat \ {0} /\ Committed' = tIndex
    BY <1>1, <1>2, <1>4, <1>5 DEF Committed
  <2>2. tLast # 0 => IF kind = "discrete" THEN tIndex - (tLast + 1) \in Nat
                                           ELSE tIndex - tLast \in Nat
    BY <1>2, <1>4, <1>5
  <2> QED
    BY <1>2, <1>5, <2>1, <2>2
<1>7. TransferTypeOK'
  BY <1>1, <1>2, <1>6 DEF TransferInv, TransferTypeOK
<1>8. IndexBounded'
  BY <1>1, <1>2 DEF TransferInv, IndexBounded
<1>9. \A e \in Nat : SentBehind(e)' = SentBehind(e)
  BY <1>1, <1>2 DEF SentBehind
<1>10. QueueOrdered'
  BY <1>1, <1>2, <1>4, <1>6 DEF TransferInv, QueueOrdered, Arrived, SentBehind
<1>11. TakenOrdered' /\ CommittedBehind'
  BY <1>1, <1>2, <1>4, <1>6, <1>9 DEF TakenOrdered, CommittedBehind
<1>12. NothingCounted' /\ NothingYet'
  BY <1>1, <1>2, <1>4, <1>6 DEF TransferInv, NothingCounted, NothingYet
<1>13. TargetAccounts'
  <2>1. Width * (tGrains + 1) = Width * tGrains + Width /\ Width * tGrains \in Nat
    BY <1>2
  <2>2. tLast = 0 => tGrains = 0 /\ tSkipped = 0 /\ tFirst' = tIndex
    BY <1>1 DEF TransferInv, NothingCounted, NothingYet
  <2>3. tLast # 0 => /\ tFirst' = tFirst
                     /\ Width * tGrains + tSkipped
                          = tLast - tFirst + (IF kind = "discrete" THEN 1 ELSE 0)
    BY <1>1 DEF TransferInv, NothingCounted, TargetAccounts
  <2>4. Width * (tGrains + 1) + tSkipped' = tLast' - tFirst' + (IF kind = "discrete" THEN 1 ELSE 0)
    <3>1. CASE tLast = 0
      <4>1. Width * tGrains = 0
        BY <1>2, <2>2, <3>1
      <4> QED
        BY <1>2, <1>5, <2>1, <2>2, <3>1, <4>1
    <3>2. CASE tLast # 0
      <4> DEFINE w == Width * tGrains
      <4>1. w \in Nat /\ Width * (tGrains + 1) = w + Width
        BY <2>1
      <4>2. w + tSkipped = tLast - tFirst + (IF kind = "discrete" THEN 1 ELSE 0)
        BY <2>3, <3>2
      <4> HIDE DEF w
      <4>3. CASE kind = "discrete"
        BY <1>2, <1>5, <2>3, <3>2, <4>1, <4>2, <4>3
      <4>4. CASE kind = "continuous"
        <5>1. tSkipped' = tSkipped + (tIndex - tLast) /\ tLast' = tIndex + Width
          BY <1>5, <3>2, <4>4
        <5>2. w + tSkipped = tLast - tFirst /\ tFirst' = tFirst
          BY <1>2, <2>3, <3>2, <4>1, <4>2, <4>4
        <5>3. (w + Width) + (tSkipped + (tIndex - tLast)) = (tIndex + Width) - tFirst
          BY <1>2, <4>1, <5>2
        <5> QED
          BY <1>2, <4>1, <4>4, <5>1, <5>2, <5>3
      <4> QED
        BY <4>3, <4>4 DEF TransferInv, TransferTypeOK
    <3> QED
      BY <3>1, <3>2
  <2> QED
    BY <1>1, <1>2, <2>4 DEF TargetAccounts
<1> QED
  BY <1>7, <1>8, <1>10, <1>11, <1>12, <1>13 DEF TransferInv

-----------------------------------------------------------------------------
(* The theorems.                                                            *)

LEMMA TransferNext == TransferInv /\ [Next]_vars => TransferInv'
<1> SUFFICES ASSUME TransferInv, [Next]_vars PROVE TransferInv'
  OBVIOUS
<1>1. CASE UNCHANGED vars
  BY <1>1, SourceStep DEF vars, sourceVars, iVars, fabricVars, tVars
<1>2. CASE Publish \/ SourceStops \/ Tick \/ Break \/ Signal
  BY <1>2, SourceStep
     DEF Publish, SourceStops, Tick, Break, Signal, sourceVars, iVars, fabricVars, tVars
<1>3. CASE Initiator \/ ProgressFails
  BY <1>3, InitiatorSteps, ArriveStep DEF Initiator
<1>4. CASE Target
  BY <1>4, TargetEnds, ReadStep, CommitStep DEF Target
<1> QED
  BY <1>1, <1>2, <1>3, <1>4 DEF Next

LEMMA TransferInvariant == Spec => []TransferInv
  BY TransferInit, TransferNext, PTL DEF Spec

\* The target's counters account for every grain and every sample, from the first
\* that it had to the last (transferGrains, transferSamples of target.cpp).
THEOREM EveryIndexCounted == Spec => []TargetAccounts
<1>1. TransferInv => TargetAccounts
  BY DEF TransferInv
<1> QED
  BY <1>1, TransferInvariant, PTL

\* All of s is ordered and w apart, and all of t is w apart from all of s.
Spaced(s, w)   == \A i, j \in DOMAIN s : i < j => s[j] - s[i] >= w
Apart(s, t, w) == \A i \in DOMAIN s, j \in DOMAIN t : t[j] - s[i] >= w

LEMMA SpacedConcat ==
  ASSUME NEW s \in Seq(Nat), NEW t \in Seq(Nat), NEW w \in Nat,
         Spaced(s, w), Spaced(t, w), Apart(s, t, w)
  PROVE  s \o t \in Seq(Nat) /\ Spaced(s \o t, w)
<1>1. s \o t \in Seq(Nat) /\ Len(s \o t) = Len(s) + Len(t) /\ DOMAIN (s \o t) = 1..(Len(s) + Len(t))
  OBVIOUS
<1>2. /\ \A i \in 1..Len(s) : (s \o t)[i] = s[i]
      /\ \A i \in (Len(s) + 1)..(Len(s) + Len(t)) : (s \o t)[i] = t[i - Len(s)]
  OBVIOUS
<1>3. DOMAIN s = 1..Len(s) /\ DOMAIN t = 1..Len(t) /\ Len(s) \in Nat /\ Len(t) \in Nat
  OBVIOUS
<1>4. ASSUME NEW i \in DOMAIN (s \o t), NEW j \in DOMAIN (s \o t), i < j
      PROVE  (s \o t)[j] - (s \o t)[i] >= w
  <2>1. CASE j <= Len(s)
    <3>1. i \in DOMAIN s /\ j \in DOMAIN s
      BY <1>1, <1>3, <1>4, <2>1
    <3> QED
      BY <1>2, <1>3, <1>4, <3>1 DEF Spaced
  <2>2. CASE i > Len(s)
    <3>1. i - Len(s) \in DOMAIN t /\ j - Len(s) \in DOMAIN t /\ i - Len(s) < j - Len(s)
      BY <1>1, <1>3, <1>4, <2>2
    <3>2. (s \o t)[i] = t[i - Len(s)] /\ (s \o t)[j] = t[j - Len(s)]
      BY <1>1, <1>2, <1>3, <1>4, <2>2
    <3> QED
      BY <3>1, <3>2 DEF Spaced
  <2>3. CASE i <= Len(s) /\ j > Len(s)
    <3>1. i \in DOMAIN s /\ j - Len(s) \in DOMAIN t
      BY <1>1, <1>3, <2>3
    <3>2. (s \o t)[i] = s[i] /\ (s \o t)[j] = t[j - Len(s)]
      BY <1>1, <1>2, <1>3, <2>3
    <3> QED
      BY <3>1, <3>2 DEF Apart
  <2> QED
    BY <1>1, <1>3, <2>1, <2>2, <2>3
<1> QED
  BY <1>1, <1>4 DEF Spaced

\* What is apart from both of two sequences is so from the two together.
LEMMA ApartConcat ==
  ASSUME NEW s \in Seq(Nat), NEW t \in Seq(Nat), NEW u \in Seq(Nat), NEW w \in Nat,
         Apart(s, u, w), Apart(t, u, w)
  PROVE  Apart(s \o t, u, w)
<1>1. DOMAIN (s \o t) = 1..(Len(s) + Len(t)) /\ Len(s) \in Nat /\ Len(t) \in Nat
  OBVIOUS
<1>2. DOMAIN s = 1..Len(s) /\ DOMAIN t = 1..Len(t)
  OBVIOUS
<1>3. ASSUME NEW i \in DOMAIN (s \o t), NEW j \in DOMAIN u PROVE u[j] - (s \o t)[i] >= w
  <2>1. CASE i <= Len(s)
    <3>1. i \in DOMAIN s /\ (s \o t)[i] = s[i]
      BY <1>1, <1>2, <2>1
    <3> QED
      BY <3>1 DEF Apart
  <2>2. CASE i > Len(s)
    <3>1. i - Len(s) \in DOMAIN t /\ (s \o t)[i] = t[i - Len(s)]
      BY <1>1, <1>2, <2>2
    <3> QED
      BY <3>1 DEF Apart
  <2> QED
    BY <1>1, <2>1, <2>2
<1> QED
  BY <1>3 DEF Apart

\* What the target has, takes, will read and is being sent is in order, without
\* an index twice or two batches that overlap: nothing is sent a second time by
\* transferGrains or transferSamples of initiator.cpp, however far it falls behind.
THEOREM NothingSentTwice == Spec => []InOrder
<1>1. TransferInv => InOrder
  <2> SUFFICES ASSUME TransferInv PROVE InOrder
    OBVIOUS
  <2> DEFINE w  == Width
             c  == <<Committed>>
             tk == IF tpc = "commit" THEN <<tIndex>> ELSE <<>>
             sd == IF ipc \in {"send", "progress"} THEN <<index>> ELSE <<>>
  <2>1. /\ w \in Nat /\ index \in Nat /\ tIndex \in Nat /\ queue \in Seq(Nat)
        /\ \A i \in 1..Len(queue) : queue[i] \in Nat
    BY WidthPositive DEF TransferInv, TransferTypeOK
  <2>2. Committed \in Nat
    BY <2>1 DEF TransferInv, TransferTypeOK, CommittedBehind, Committed, Width
  <2>3. c \in Seq(Nat) /\ tk \in Seq(Nat) /\ sd \in Seq(Nat)
    BY <2>1, <2>2
  <2>4. Spaced(c, w) /\ Spaced(tk, w) /\ Spaced(sd, w)
    BY <2>3 DEF Spaced
  <2>5. Spaced(queue, w)
    BY <2>1 DEF TransferInv, QueueOrdered, Spaced
  <2>6. Apart(c, tk, w)
    BY DEF TransferInv, TakenOrdered, Apart
  <2>7. Apart(c, queue, w)
    BY <2>1 DEF TransferInv, QueueOrdered, Apart
  <2>8. Apart(tk, queue, w)
    BY <2>1 DEF TransferInv, TakenOrdered, Apart
  <2>9. Apart(c, sd, w)
    <3> SUFFICES ASSUME ipc \in {"send", "progress"} PROVE index - Committed >= Width
      BY DEF Apart
    <3>1. CASE tLast = 0
      <4>1. Committed = 0 /\ index >= Width
        BY <3>1 DEF TransferInv, IndexBounded, Committed
      <4> QED
        BY <2>1, <4>1
    <3>2. CASE tLast # 0
      BY <3>2 DEF TransferInv, CommittedBehind, SentBehind
    <3> QED
      BY <3>1, <3>2
  <2>10. Apart(tk, sd, w)
    BY DEF TransferInv, TakenOrdered, SentBehind, Apart
  <2>11. Apart(queue, sd, w)
    BY <2>1 DEF TransferInv, QueueOrdered, Arrived, SentBehind, Apart
  <2> HIDE DEF w, c, tk, sd
  <2>12. c \o tk \in Seq(Nat) /\ Spaced(c \o tk, w)
    BY <2>1, <2>3, <2>4, <2>6, SpacedConcat
  <2>13. Apart(c \o tk, queue, w) /\ Apart(c \o tk, sd, w)
    BY <2>1, <2>3, <2>7, <2>8, <2>9, <2>10, ApartConcat
  <2>14. c \o tk \o queue \in Seq(Nat) /\ Spaced(c \o tk \o queue, w)
    BY <2>1, <2>5, <2>12, <2>13, SpacedConcat
  <2>15. Apart(c \o tk \o queue, sd, w)
    BY <2>1, <2>3, <2>11, <2>12, <2>13, ApartConcat
  <2>16. Spaced(c \o tk \o queue \o sd, w)
    BY <2>1, <2>3, <2>4, <2>14, <2>15, SpacedConcat
  <2> QED
    BY <2>16 DEF InOrder, OnTheWay, Spaced, w, c, tk, sd
<1> QED
  BY <1>1, TransferInvariant, PTL
=============================================================================
