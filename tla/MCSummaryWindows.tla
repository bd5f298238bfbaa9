-------------------------- MODULE MCSummaryWindows --------------------------
(* An instance of SummaryWindows for TLC: rising, falling, mixed, nearly     *)
(* constant and repeated values.                                             *)
EXTENDS SummaryWindows

MCStreams == {[a |-> 1, b |-> 0, m |-> 100], [a |-> -1, b |-> 99, m |-> 100],
              [a |-> 17, b |-> 5, m |-> 31], [a |-> 7, b |-> 0, m |-> 10],
              [a |-> 1, b |-> 0, m |-> 3]}
=============================================================================
