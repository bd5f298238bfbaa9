--------------------------- MODULE ReloadWatcher ---------------------------
(***************************************************************************)
(* mxl-fabrics-proxy-reloader (go/pkg/reload) and what it does to the       *)
(* proxy's running configuration (go/pkg/config/runner.go).  The watcher    *)
(* polls a fingerprint of the configuration files.  When it has seen the    *)
(* same fingerprint for the debounce time, and it is not the one applied    *)
(* last, it asks the proxy to reload, again and again with a backoff until  *)
(* the proxy says ok.                                                       *)
(*                                                                          *)
(* Both sides read the files one by one while somebody else writes them.  A *)
(* fingerprint is what it is computed from: a version per file.  The proxy  *)
(* handles one reload at a time (r.mu); a request that the watcher has      *)
(* given up is still handled.  A reload waits, with r.mu, for the targets    *)
(* that it destroys; one of them may never stop, and then no other reload    *)
(* begins.  A fingerprint takes less than one tick.                         *)
(***************************************************************************)
EXTENDS Integers, FiniteSets

CONSTANTS Files,       \* the configuration files
          Bad,         \* the contents, <<file, version>>, that the proxy rejects
          Debounce, BackoffBase, BackoffMax,   \* in ticks; the interval is one
          MaxVersion,  \* bound: versions of a file
          MaxWrites,   \* bound: writes to files
          MaxFaults    \* bound: timeouts, crashes, reloads by an operator

ASSUME WatcherOK ==
  /\ Bad \subseteq Files \X Nat /\ Debounce \in Nat /\ BackoffBase \in Nat /\ BackoffMax \in Nat
  /\ MaxVersion \in Nat /\ MaxWrites \in Nat /\ MaxFaults \in Nat

VARIABLES disk,      \* the files: version of each
          stable,    \* ticks since each was written, up to Debounce
          writes, faults,
          reverted,  \* history: a file got contents again that it had before
          wpc,       \* the watcher: "first", "read", "wait", "request"
          wread,     \* files fingerprinted so far
          seen,      \* w.seen
          applied,   \* w.applied
          quiet,     \* ticks since w.seenAt, up to Debounce
          failures, retryIn,   \* w.failures, ticks until w.nextRetry
          tick,      \* the ticker has fired
          req,       \* the watcher's request
          up,        \* the proxy takes requests
          orphans,   \* reload requests waiting for r.mu that nobody waits for
          loader,    \* on whose behalf the proxy is loading; "stuck": r.mu is held for ever
          part,      \* files loaded so far
          loaded     \* the configuration the proxy runs

diskVars  == <<disk, stable, writes, reverted>>
pollVars  == <<wpc, wread, tick>>
seenVars  == <<seen, applied, quiet, failures, retryIn>>
proxyVars == <<up, orphans, loader, part, loaded>>
vars      == <<diskVars, faults, pollVars, seenVars, req, proxyVars>>

None == [f \in {} |-> 0]
With(r, f) == [g \in DOMAIN r \cup {f} |-> IF g = f THEN disk[f] ELSE r[g]]
Complete(r) == DOMAIN r = Files

Init ==
  /\ disk = [f \in Files |-> 0] /\ stable = [f \in Files |-> 0]
  /\ writes = 0 /\ faults = 0 /\ reverted = FALSE
  /\ wpc = "first" /\ wread = None /\ tick = FALSE
  /\ seen = None /\ applied = None
  /\ quiet = 0 /\ failures = 0 /\ retryIn = 0
  /\ req = "none"
  /\ up = FALSE /\ orphans = 0 /\ loader = "idle" /\ part = None /\ loaded = None

Fault == faults < MaxFaults /\ faults' = faults + 1

-----------------------------------------------------------------------------
(* The files and the clock.                                                 *)

\* New contents, or some that the file had before.
Write(f) ==
  /\ writes < MaxWrites /\ writes' = writes + 1
  /\ \E v \in (0..MaxVersion) \ {disk[f]} :
       /\ v <= disk[f] + 1
       /\ disk' = [disk EXCEPT ![f] = v]
       /\ reverted' = (reverted \/ v < disk[f])
  /\ stable' = [stable EXCEPT ![f] = 0]
  /\ UNCHANGED <<faults, pollVars, seenVars, req, proxyVars>>

UpTo(n, max) == IF n < max THEN n ELSE max

Tick ==
  /\ wpc \in {"wait", "request"}
  /\ tick' = TRUE
  /\ quiet' = UpTo(quiet + 1, Debounce)
  /\ retryIn' = IF retryIn = 0 THEN 0 ELSE retryIn - 1
  /\ stable' = [f \in Files |-> UpTo(stable[f] + 1, Debounce)]
  /\ UNCHANGED <<disk, writes, reverted, faults, wpc, wread, seen, applied, failures, req, proxyVars>>

-----------------------------------------------------------------------------
(* The watcher.                                                             *)

\* One file of Fingerprint.
ReadFile(f) ==
  /\ wpc \in {"first", "read"} /\ f \notin DOMAIN wread
  /\ wread' = With(wread, f)
  /\ UNCHANGED <<diskVars, faults, wpc, tick, seenVars, req, proxyVars>>

\* Run takes a fingerprint before the loop, and polls at once.
FirstSeen ==
  /\ wpc = "first" /\ Complete(wread)
  /\ seen' = wread /\ quiet' = 0
  /\ wpc' = "read" /\ wread' = None
  /\ UNCHANGED <<diskVars, faults, tick, applied, failures, retryIn, req, proxyVars>>

StartPoll ==
  /\ wpc = "wait" /\ tick
  /\ tick' = FALSE
  /\ wpc' = "read" /\ wread' = None
  /\ UNCHANGED <<diskVars, faults, seenVars, req, proxyVars>>

\* What poll() decides about the fingerprint it has taken.
Due == seen' # applied /\ quiet' >= Debounce /\ retryIn' = 0

\* Mutant: the debounce time is not started again by another change.
PollKeepsQuiet ==
  /\ wpc = "read" /\ Complete(wread)
  /\ seen' = wread /\ UNCHANGED quiet
  /\ IF wread # seen THEN failures' = 0 /\ retryIn' = 0
                     ELSE UNCHANGED <<failures, retryIn>>
  /\ IF Due THEN wpc' = "request" /\ req' = "sent"
            ELSE wpc' = "wait" /\ UNCHANGED req
  /\ wread' = None
  /\ UNCHANGED <<diskVars, faults, tick, applied, proxyVars>>

Poll ==
  /\ wpc = "read" /\ Complete(wread)
  /\ seen' = wread
  /\ IF wread # seen THEN quiet' = 0 /\ failures' = 0 /\ retryIn' = 0
                     ELSE UNCHANGED <<quiet, failures, retryIn>>
  /\ IF Due THEN wpc' = "request" /\ req' = "sent"
            ELSE wpc' = "wait" /\ UNCHANGED req
  /\ wread' = None
  /\ UNCHANGED <<diskVars, faults, tick, applied, proxyVars>>

\* Mutant: what is taken for applied is what the files hold after the reload.
ReloadOKRereads ==
  /\ req = "ok"
  /\ applied' = disk /\ failures' = 0 /\ retryIn' = 0
  /\ wpc' = "wait" /\ req' = "none"
  /\ UNCHANGED <<diskVars, faults, wread, tick, seen, quiet, proxyVars>>

ReloadOK ==
  /\ req = "ok"
  /\ applied' = seen /\ failures' = 0 /\ retryIn' = 0
  /\ wpc' = "wait" /\ req' = "none"
  /\ UNCHANGED <<diskVars, faults, wread, tick, seen, quiet, proxyVars>>

\* Beyond the sixth failure the backoff does not change any more.
Backoff(n) == UpTo(BackoffBase * 2^UpTo(n - 1, 5), BackoffMax)

\* Mutant: a reload that failed is not repeated.
ReloadFailedForGood ==
  /\ req = "failed"
  /\ applied' = seen /\ failures' = 0 /\ retryIn' = 0
  /\ wpc' = "wait" /\ req' = "none"
  /\ UNCHANGED <<diskVars, faults, wread, tick, seen, quiet, proxyVars>>

ReloadFailed ==
  /\ req = "failed"
  /\ failures' = UpTo(failures + 1, 6)
  /\ retryIn' = Backoff(failures')
  /\ wpc' = "wait" /\ req' = "none"
  /\ UNCHANGED <<diskVars, faults, wread, tick, seen, applied, quiet, proxyVars>>

\* The request or its answer is lost, or takes longer than the timeout: then
\* the proxy may still handle it.
Timeout ==
  /\ req \in {"sent", "loading", "ok"} /\ Fault
  /\ req' = "failed"
  /\ \/ req = "sent" /\ up /\ orphans' = orphans + 1 /\ UNCHANGED loader
     \/ loader = "req" /\ loader' = "orphan" /\ UNCHANGED orphans
     \/ loader # "req" /\ UNCHANGED <<orphans, loader>>
  /\ UNCHANGED <<diskVars, pollVars, seenVars, up, part, loaded>>

Refused ==
  /\ req = "sent" /\ ~up
  /\ req' = "failed"
  /\ UNCHANGED <<diskVars, faults, pollVars, seenVars, proxyVars>>

\* No answer comes while r.mu is held for ever: the timeout is certain.  That the
\* request waits for r.mu as well makes no difference any more.
Expires ==
  /\ req \in {"sent", "loading"} /\ loader = "stuck"
  /\ req' = "failed"
  /\ UNCHANGED <<diskVars, faults, pollVars, seenVars, proxyVars>>

-----------------------------------------------------------------------------
(* The proxy.                                                               *)

\* NewRunner loads the configuration before the server listens.
ProxyStart ==
  /\ ~up /\ loader = "idle"
  /\ loader' = "start" /\ part' = None
  /\ UNCHANGED <<diskVars, faults, pollVars, seenVars, req, up, orphans, loaded>>

ProxyCrash ==
  /\ up /\ Fault
  /\ up' = FALSE /\ loader' = "idle" /\ orphans' = 0
  /\ req' = IF req \in {"sent", "loading"} THEN "failed" ELSE req
  /\ UNCHANGED <<diskVars, pollVars, seenVars, part, loaded>>

\* Somebody else sends POST /v1/reload.
OperatorReload ==
  /\ up /\ Fault
  /\ orphans' = orphans + 1
  /\ UNCHANGED <<diskVars, pollVars, seenVars, req, up, loader, part, loaded>>

\* A handler gets r.mu.
BeginReload ==
  /\ up /\ loader = "idle"
  /\ part' = None
  /\ \/ req = "sent" /\ req' = "loading" /\ loader' = "req" /\ UNCHANGED orphans
     \/ orphans > 0 /\ orphans' = orphans - 1 /\ loader' = "orphan" /\ UNCHANGED req
  /\ UNCHANGED <<diskVars, faults, pollVars, seenVars, up, loaded>>

Loading == loader \in {"req", "orphan", "start"}

LoadFile(f) ==
  /\ Loading /\ f \notin DOMAIN part
  /\ part' = With(part, f)
  /\ UNCHANGED <<diskVars, faults, pollVars, seenVars, req, up, orphans, loader, loaded>>

Rejected == \E f \in Files : <<f, part[f]>> \in Bad

\* Mutant: the old configuration is dropped before the new one is checked.
LoadDoneResets ==
  /\ Loading /\ Complete(part)
  /\ loader' = "idle"
  /\ loaded' = IF Rejected THEN None ELSE part
  /\ up' = (loader = "start" => ~Rejected)
  /\ req' = IF loader # "req" THEN req ELSE IF Rejected THEN "failed" ELSE "ok"
  /\ UNCHANGED <<diskVars, faults, pollVars, seenVars, orphans, part>>

\* loadFromDisk is over: its error is answered and nothing changes, or the new
\* configuration is in force.  A proxy that cannot load at its start exits.
LoadDone ==
  /\ Loading /\ Complete(part)
  /\ loader' = "idle"
  /\ loaded' = IF Rejected THEN loaded ELSE part
  /\ up' = (loader = "start" => ~Rejected)
  /\ req' = IF loader # "req" THEN req ELSE IF Rejected THEN "failed" ELSE "ok"
  /\ UNCHANGED <<diskVars, faults, pollVars, seenVars, orphans, part>>

\* The new configuration is in force, but a target that it does not have any more
\* never stops (terminate() of its worker waits for ever), so that
\* destroyJobs.Wait() does not return.
LoadHangs ==
  /\ loader \in {"req", "orphan"} /\ Complete(part) /\ ~Rejected
  /\ part # loaded /\ Fault
  /\ loader' = "stuck" /\ loaded' = part
  /\ UNCHANGED <<diskVars, pollVars, seenVars, req, up, orphans, part>>

-----------------------------------------------------------------------------
Watcher == (\E f \in Files : ReadFile(f)) \/ FirstSeen \/ StartPoll \/ Poll
             \/ ReloadOK \/ ReloadFailed

Proxy == ProxyStart \/ BeginReload \/ (\E f \in Files : LoadFile(f)) \/ LoadDone

Next == (\E f \in Files : Write(f)) \/ Tick \/ Watcher \/ Timeout \/ Refused
          \/ Expires \/ Proxy \/ LoadHangs \/ ProxyCrash \/ OperatorReload

Spec == Init /\ [][Next]_vars

\* The clock and both processes run, a proxy that is down is started again.
\* Nobody has to write a file or to reload.
Fairness == /\ WF_vars(Tick) /\ WF_vars(Watcher) /\ WF_vars(Proxy)
            /\ WF_vars(Refused) /\ WF_vars(Expires)

FairSpec == Spec /\ Fairness

-----------------------------------------------------------------------------
(* Properties.                                                              *)

NotOlder(r, s) == \A f \in DOMAIN s : f \in DOMAIN r /\ r[f] >= s[f]

\* What the watcher believes to be applied is applied: the configuration that
\* the proxy runs has every file in the version of w.applied or a later one, in
\* spite of timeouts, restarts of the proxy and files written while it reads.
\* Once a file has got earlier contents back, versions say nothing of that.
AppliedIsLoaded == ~reverted /\ up => NotOlder(loaded, applied)

\* A reload that comes late, or that somebody else asked for, never puts an
\* older version of a file in force, as long as no file gets one back.
NoRollback == [][~reverted => NotOlder(loaded', loaded)]_vars

\* The proxy is asked to reload only when every file that the watcher saw has
\* not been written for the debounce time (a file written after it was read is
\* found at the next poll), as long as no file gets earlier contents back: what
\* went away and came back between two polls is not seen.
DebounceHeld ==
  [][~reverted /\ req = "none" /\ req' = "sent" =>
       \A f \in Files : disk[f] = seen'[f] => stable[f] >= Debounce]_vars

\* When the files are left alone and are good, the proxy ends up with them, unless
\* a reload hangs for ever, or files were given contents again that were applied:
\* poll() does not reload then (watcher.go:136), though the proxy may have loaded
\* what the files held in between (a late reload, a restart, an operator).
Converges ==
  \/ <>[](\E f \in Files : <<f, disk[f]>> \in Bad)
  \/ <>[](loader = "stuck")
  \/ <>[](up /\ loaded = disk)
  \/ <>[](reverted /\ applied = disk)

\* The types of the variables.
ReloadTypeOK ==
  /\ disk \in [Files -> Nat] /\ stable \in [Files -> Nat] /\ quiet \in 0..Debounce
  /\ wpc \in {"first", "read", "wait", "request"}
  /\ req \in {"none", "sent", "loading", "ok", "failed"}
  /\ loader \in {"idle", "req", "orphan", "start", "stuck"}
  /\ up \in BOOLEAN /\ reverted \in BOOLEAN
=============================================================================
