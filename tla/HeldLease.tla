----------------------------- MODULE HeldLease -----------------------------
(***************************************************************************)
(* One subscription of go/pkg/initiator/subscriptions.go as the target that *)
(* holds it sees it, whatever happens to the others of the table:           *)
(*   - it is created once, with one target info, which it keeps;            *)
(*   - it can be renewed as long as it is in the table, which it leaves     *)
(*     once and for ever: what was refused a renewal never gets one again;  *)
(*   - its worker runs from the creation on, and ends only after the        *)
(*     subscription has left the table.                                     *)
(* When a lease ends, and for what reason, is left open.                    *)
(***************************************************************************)
EXTENDS Integers

CONSTANTS Infos, Lease   \* as in Subscriptions

VARIABLES phase,   \* "none", "held", "ending": out of the table, "gone": no worker
          entry    \* its entry in the table, if any: a set of at most one

leaseVars == <<phase, entry>>

LeaseInit == phase = "none" /\ entry = {}

Grant(info) ==
  /\ phase = "none" /\ phase' = "held"
  /\ entry' = {[info |-> info, age |-> 0]}

Prolong ==
  /\ phase = "held" /\ UNCHANGED phase
  /\ \E e \in entry : entry' = {[e EXCEPT !.age = 0]}

Grow ==
  /\ phase = "held" /\ UNCHANGED phase
  /\ \E e \in entry : e.age <= Lease /\ entry' = {[e EXCEPT !.age = @ + 1]}

End ==
  /\ phase = "held" /\ phase' = "ending"
  /\ entry' = {}

Leave == phase = "ending" /\ phase' = "gone" /\ UNCHANGED entry

LeaseNext == (\E info \in Infos : Grant(info)) \/ Prolong \/ Grow \/ End \/ Leave

LeaseSpec == LeaseInit /\ [][LeaseNext]_leaseVars
=============================================================================
