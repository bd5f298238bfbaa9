--------------------------- MODULE QuantileSketch ---------------------------
(***************************************************************************)
(* QuantileBucket of src/summary.cpp: a sketch of a stream of observations  *)
(* from which quantiles are read.  It is a record of                        *)
(*   items   a sequence of [value, g, delta], sorted by value: g is the     *)
(*           number of observations merged into the item, delta the         *)
(*           uncertainty of its rank;                                       *)
(*   buffer  observations not yet inserted into items;                      *)
(*   count   observations inserted.                                         *)
(* Positions in items count from 0, as in the code.  The values of doubles  *)
(* are compared and never computed with, so integers stand for them; the    *)
(* error bound is a rational, given as an integer in units of 1 / Scale.    *)
(***************************************************************************)
EXTENDS Integers, Sequences, FiniteSets, SequencesExt

CONSTANTS BufferSize,   \* 512 in the code
          Percents,     \* the quantiles that are kept, in percent
          Scale         \* a denominator for 10/p and 10/(100-p), p in Percents

ASSUME SketchOK ==
  /\ BufferSize \in Nat \ {0} /\ Percents \subseteq 1..99 /\ Scale \in Nat \ {0}
  /\ \A p \in Percents : (10 * Scale) % p = 0 /\ (10 * Scale) % (100 - p) = 0

EmptyBucket == [items |-> <<>>, buffer |-> <<>>, count |-> 0]

At(items, i) == items[i + 1]

\* The weight of the first n items, for each n; of all of them.
Ranks(items) ==
  LET rank[n \in 0..Len(items)] == IF n = 0 THEN 0 ELSE rank[n - 1] + items[n].g
  IN rank
Weights(items) == Ranks(items)[Len(items)]

-----------------------------------------------------------------------------
\* u and v of a quantile p with an error of 0.05, times Scale.
U(p) == (10 * Scale) \div (100 - p)
V(p) == (10 * Scale) \div p

\* Mutant: the comparison is the wrong way round.
ErrorBoundLoosest(size, rank) ==
  Max({(size + 1) * Scale} \cup
      {IF 100 * rank <= p * size THEN U(p) * (size - rank) ELSE V(p) * rank : p \in Percents})

\* The bound that the strictest quantile sets.  It goes by the number of items.
ErrorBound(size, rank) ==
  Min({(size + 1) * Scale} \cup
      {IF 100 * rank <= p * size THEN U(p) * (size - rank) ELSE V(p) * rank : p \in Percents})

\* One pass of the loop of batch(): from the item of the pass before, on to the
\* first that is not smaller than v, and v in before or behind it.  The first
\* comparison is meant for the front of the sequence but is true of idx = 1, as
\* idx - 1 is unsigned.
Insert(into, v) ==
  LET items == into.items
      size  == Len(items)
      item  == Min({i \in into.item..(size - 1) : i = size - 1 \/ At(items, i).value >= v})
      idx   == IF At(items, item).value > v THEN item ELSE item + 1
      delta == IF idx = 1 \/ idx + 1 = size THEN 0
               ELSE ErrorBound(size, idx + 1) \div Scale + 1
  IN [items |-> InsertAt(items, idx + 1, [value |-> v, g |-> 1, delta |-> delta]), item |-> idx]

\* The loop over the sorted buffer.
Inserted(start, values) ==
  LET into[n \in 0..Len(values)] ==
        IF n = 0 THEN start ELSE Insert(into[n - 1], values[n])
  IN into[Len(values)]

\* std::sort of a part of the buffer.
Sorted(values) ==
  LET Before(i, j) == values[i] < values[j] \/ (values[i] = values[j] /\ i < j)
      positions == 1..Len(values)
      place == [j \in positions |-> Cardinality({i \in positions : Before(i, j)}) + 1]
  IN [n \in positions |-> values[CHOOSE j \in positions : place[j] = n]]

Batch(b) ==
  IF b.buffer = <<>> THEN b
  ELSE LET sorted == Sorted(b.buffer)
           first  == [value |-> sorted[1], g |-> 1, delta |-> 0]
           start  == IF b.items = <<>> THEN [items |-> <<first>>, item |-> 0]
                                       ELSE [items |-> b.items, item |-> 0]
           rest   == IF b.items = <<>> THEN Tail(sorted) ELSE sorted
       IN [items  |-> Inserted(start, rest).items,
           buffer |-> <<>>,
           count  |-> b.count + Len(sorted)]

\* One pass of the loop of compress().  When an item is erased the positions move
\* by one and next does not: the pair that follows is passed over.
Merge(items, prev) ==
  LET next   == prev + 1
      weight == At(items, prev).g + At(items, next).g
      merged == RemoveAt([items EXCEPT ![next + 1].g = weight], prev + 1)
  IN IF next < Len(items)
          /\ (weight + At(items, next).delta) * Scale <= ErrorBound(Len(items), next)
       THEN merged ELSE items

\* The loop: it has ended when the pair is beyond the items.
Merged(items) ==
  LET after[n \in 0..Len(items)] == IF n = 0 THEN items ELSE Merge(after[n - 1], n - 1)
  IN after[Len(items)]

Compress(b) == [b EXCEPT !.items = Merged(b.items)]

ObserveBucket(b, v) ==
  LET more == [b EXCEPT !.buffer = Append(b.buffer, v)]
  IN IF Len(more.buffer) = BufferSize THEN Compress(Batch(more)) ELSE more

\* The copy that a scrape makes, after n quantiles have been read from it: each
\* call of get() compresses it once more.
Scraped(b, n) ==
  LET copy[k \in 0..n] == IF k = 0 THEN Batch(b) ELSE Compress(copy[k - 1])
  IN copy[n]

\* get() of quantile p, in the order in which they are read, of a bucket that has
\* an observation.
GetQuantile(b, p) ==
  LET items   == Scraped(b, Cardinality({q \in Percents : q <= p})).items
      desired == (p * (b.count + Len(b.buffer))) \div 100
      bound   == 2 * Scale * desired + ErrorBound(Len(items), desired)
      Passes(i) == 2 * Scale * (Ranks(items)[i] + At(items, i).g + At(items, i).delta)
                     > bound
      passing == {i \in 1..(Len(items) - 1) : Passes(i)}
  IN IF passing = {} THEN Last(items).value ELSE At(items, Min(passing) - 1).value
=============================================================================
