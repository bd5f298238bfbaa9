---------------------------- MODULE LeaseTiming ----------------------------
(***************************************************************************)
(* The clock behind one subscription.  The target (go/pkg/target/target.go) *)
(* renews it once per turn of runActive: a timer, the wait before it reads  *)
(* the target info, the PATCH, then a GET of the flow definition whose      *)
(* failure or timeout it tolerates.  The remote proxy                       *)
(* (go/pkg/initiator/subscriptions.go) dates a lease from the moment it     *)
(* handles the PATCH, and removes it in the first of its periodic sweeps    *)
(* that finds it older than the lease.                                      *)
(*                                                                          *)
(* Nothing fails here: the module says how slow a healthy pair of proxies   *)
(* may be, which is what FlowLink assumes under Timely, and how long a      *)
(* subscription can outlive a target that is gone.                          *)
(***************************************************************************)
EXTENDS Integers

CONSTANTS KeepAlive,  \* timer of runActive: 9s
          InfoWait,   \* first wait of getTargetInfo: 0.2s
          CheckMax,   \* longest GET: the http.Client gives up after 5s
          AskMax,     \* longest way of a PATCH to its handler
          AnswerMax,  \* longest way of an answer back to the target
          LeaseTime,      \* 20s
          Sweep       \* timer of the sweep: 5s

ASSUME LeaseTimingOK ==
  /\ KeepAlive \in Nat /\ InfoWait \in Nat /\ CheckMax \in Nat
  /\ AskMax \in Nat /\ AnswerMax \in Nat /\ LeaseTime \in Nat /\ Sweep \in Nat
  /\ AnswerMax + CheckMax + KeepAlive + InfoWait + AskMax <= LeaseTime

VARIABLES stage,    \* what the target is doing
          elapsed,  \* since the stage began
          age,      \* since lastKeepAlive
          sweepIn,  \* until the next sweep
          alive     \* the subscription is in the table

timingVars == <<stage, elapsed, age, sweepIn, alive>>

Stages == {"created", "answer", "check", "sleep", "info", "ask", "gone"}

\* A timer takes its time exactly, a message at most its longest.
Longest == [created |-> AnswerMax, answer |-> AnswerMax, check |-> CheckMax,
            sleep |-> KeepAlive, info |-> InfoWait, ask |-> AskMax]
Timers == {"sleep", "info"}

TimingStarts ==
  /\ stage = "created" /\ elapsed = 0 /\ age = 0
  /\ sweepIn \in 0..Sweep /\ alive = TRUE

TimePasses ==
  /\ alive /\ sweepIn > 0
  /\ stage # "gone" => elapsed < Longest[stage]
  /\ elapsed' = IF stage = "gone" THEN 0 ELSE elapsed + 1
  /\ age' = age + 1 /\ sweepIn' = sweepIn - 1
  /\ UNCHANGED <<stage, alive>>

Enter(from, to) ==
  /\ stage = from
  /\ from \in Timers => elapsed = Longest[from]
  /\ stage' = to /\ elapsed' = 0

\* The answer to the POST; the lease began when the POST was handled.
Subscribed == Enter("created", "sleep") /\ UNCHANGED <<age, sweepIn, alive>>

\* One turn of runActive.
Wake     == Enter("sleep", "info") /\ UNCHANGED <<age, sweepIn, alive>>
Patch    == Enter("info", "ask") /\ UNCHANGED <<age, sweepIn, alive>>
Answered == Enter("answer", "check") /\ UNCHANGED <<age, sweepIn, alive>>
Checked  == Enter("check", "sleep") /\ UNCHANGED <<age, sweepIn, alive>>

\* Mutant: lastKeepAlive keeps the time of the POST.
RenewKeepsAge == Enter("ask", "answer") /\ alive /\ UNCHANGED <<age, sweepIn, alive>>

\* The handler KeepAlive: the subscription is renewed, if it is still there.
RenewLease ==
  /\ Enter("ask", "answer")
  /\ alive
  /\ age' = 0
  /\ UNCHANGED <<sweepIn, alive>>

\* The target is gone without a word: it crashed, or its DELETE was lost.
Vanish == Enter(stage, "gone") /\ stage # "gone" /\ UNCHANGED <<age, sweepIn, alive>>

\* Mutant: the lease is taken for the period of the sweep.
CleanupSeldom ==
  /\ alive /\ sweepIn = 0
  /\ sweepIn' = LeaseTime
  /\ alive' = (age <= LeaseTime)
  /\ UNCHANGED <<stage, elapsed, age>>

\* The handler cleanup.
SweepLeases ==
  /\ alive /\ sweepIn = 0
  /\ sweepIn' = Sweep
  /\ alive' = (age <= LeaseTime)
  /\ UNCHANGED <<stage, elapsed, age>>

TimingNext ==
  \/ TimePasses \/ Subscribed \/ Wake \/ Patch \/ Answered \/ Checked
  \/ RenewLease \/ Vanish \/ SweepLeases

TimingSpec == TimingStarts /\ [][TimingNext]_timingVars

-----------------------------------------------------------------------------
\* A target that is slow but works never loses its subscription to the sweep.
LeaseHeld == stage # "gone" => alive

\* A subscription outlives the last renewal by no more than the lease and one
\* period of the sweep.
OrphanBounded == alive => age <= LeaseTime + Sweep

\* The types of the variables.
TimingTypeOK ==
  /\ stage \in Stages /\ alive \in BOOLEAN
  /\ elapsed \in Nat /\ age \in Nat /\ sweepIn \in 0..Sweep
=============================================================================
