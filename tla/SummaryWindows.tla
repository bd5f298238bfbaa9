--------------------------- MODULE SummaryWindows ---------------------------
(***************************************************************************)
(* Summary of src/summary.cpp: several sketches, one of which is reset each *)
(* interval, so that a scrape reads one that has seen the last maxAge or    *)
(* nearly so.  Nothing runs when an interval is over: what is due is made   *)
(* up by the next observation, and by a scrape in a copy of its own.        *)
(***************************************************************************)
EXTENDS QuantileSketch

CONSTANTS Buckets,    \* number of sketches
          Interval,   \* maxAge / Buckets, in ticks
          Bursts,     \* numbers of observations between two ticks
          Streams,    \* [a, b, m]: the i-th value observed is (a * i + b) % m
          MaxTime     \* bound: ticks

ASSUME WindowsOK ==
  /\ Buckets \in Nat \ {0} /\ Interval \in Nat \ {0} /\ Bursts \subseteq Nat /\ MaxTime \in Nat
  /\ \A s \in Streams : s.a \in Int /\ s.b \in Int /\ s.m \in Nat \ {0}

VARIABLES now, due,                 \* the clock; observations still to come before it ticks
          last, current, buckets,   \* _lastRotation, _currentBucket, _buckets
          stream, seen              \* what is observed; what was, as [at, value]
envVars     == <<now, due, stream>>
summaryVars == <<last, current, buckets>>
vars        == <<envVars, summaryVars, seen>>

Init ==
  /\ now = 0 /\ due = 0 /\ stream \in Streams /\ seen = <<>>
  /\ last = 0 /\ current = 0 /\ buckets = [k \in 0..(Buckets - 1) |-> EmptyBucket]

-----------------------------------------------------------------------------
\* Mutant: one rotation at a time.
TurnsOnce == IF now - last <= Interval THEN 0 ELSE 1

\* Turns of the loop in rotate(): it ends once no more than an interval is left.
Turns == IF now - last <= Interval THEN 0 ELSE (now - last - 1) \div Interval

\* What rotate() makes of the buckets, of the current one and of the time.
Reset          == {(current + n) % Buckets : n \in 0..(Turns - 1)}
RotatedBuckets == [k \in DOMAIN buckets |-> IF k \in Reset THEN EmptyBucket ELSE buckets[k]]
RotatedCurrent == (current + Turns) % Buckets

Observe ==
  /\ due > 0
  /\ LET v == (stream.a * Len(seen) + stream.b) % stream.m
     IN /\ buckets' = [k \in DOMAIN buckets |-> ObserveBucket(RotatedBuckets[k], v)]
        /\ seen' = Append(seen, [at |-> now, value |-> v])
  /\ current' = RotatedCurrent
  /\ last' = last + Turns * Interval
  /\ due' = due - 1
  /\ UNCHANGED <<now, stream>>

Tick ==
  /\ due = 0 /\ now < MaxTime
  /\ now' = now + 1 /\ due' \in Bursts
  /\ UNCHANGED <<summaryVars, stream, seen>>

Next == Observe \/ Tick

Spec == Init /\ [][Next]_vars

-----------------------------------------------------------------------------
(* Properties of what a scrape reads now: operator<< copies the summary,    *)
(* and get() rotates and compresses the copy.                               *)

Window == RotatedBuckets[RotatedCurrent]
Held   == Window.count + Len(Window.buffer)

Later(t) == {i \in DOMAIN seen : seen[i].at > t}
Since(t) == Cardinality(Later(t))

Ascends(items) == \A i \in 1..(Len(items) - 1) : items[i].value <= items[i + 1].value

\* However long nothing was observed or scraped, a scrape reports on all
\* observations of the last Buckets - 1 intervals and on none that is older than
\* Buckets of them, and batches and compression lose and misplace none: whichever
\* quantile is read, the items ascend and their weights add up to the number of
\* observations reported.  What is reported is one of the values observed then.
WindowHeld ==
  /\ \A n \in 0..Cardinality(Percents) :
       LET items == Scraped(Window, n).items IN Weights(items) = Held /\ Ascends(items)
  /\ Since(now - (Buckets - 1) * Interval) <= Held
  /\ Held <= Since(now - Buckets * Interval)
  /\ Held > 0 => \A p \in Percents : GetQuantile(Window, p) \in
       {seen[i].value : i \in Later(now - Buckets * Interval)}

\* The distance of a value from rank r among n values: 0 if one of its places in
\* sorted order is r.
Distance(values, v, r) ==
  LET below == Cardinality({i \in DOMAIN values : values[i].value < v})
      upTo  == Cardinality({i \in DOMAIN values : values[i].value <= v})
  IN IF r <= below THEN below + 1 - r ELSE IF r > upTo THEN r - upTo ELSE 0

\* Each reported quantile is near the true one of the observations held: within a
\* twentieth of them, the error the code asks for, and three places.
RankClose ==
  LET values == SubSeq(seen, Len(seen) - Held + 1, Len(seen))
  IN Held > 0 => \A p \in Percents :
       20 * Distance(values, GetQuantile(Window, p), (p * Held) \div 100) <= Held + 60
=============================================================================
