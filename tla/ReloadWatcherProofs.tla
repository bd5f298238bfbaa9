------------------------ MODULE ReloadWatcherProofs ------------------------
(***************************************************************************)
(* Proofs about ReloadWatcher, for any files, any number of writes, faults  *)
(* and reloads by an operator, until a file gets earlier contents back.     *)
(***************************************************************************)
EXTENDS ReloadWatcher, TLAPS

-----------------------------------------------------------------------------
(* The inductive invariant, as long as no contents came back.               *)

\* Versions that the files have or had.
Past(r) == DOMAIN r \subseteq Files /\ \A f \in DOMAIN r : r[f] \in Nat /\ r[f] <= disk[f]

AllPast == Past(wread) /\ Past(seen) /\ Past(applied) /\ Past(part) /\ Past(loaded)

\* So far r is not older than s.
Ahead(r, s) == \A f \in DOMAIN r \cap DOMAIN s : r[f] >= s[f]

\* Only one handler loads, and on whose behalf.
OneLoads ==
  /\ req # "none" <=> wpc = "request"
  /\ loader = "req" => req = "loading"
  /\ req = "loading" => loader \in {"req", "stuck"}
  /\ loader \in {"req", "orphan", "stuck"} => up
  /\ loader = "start" => ~up

\* What is being loaded is newer than what it will replace, and than what the
\* watcher will take for applied when it hears of it.
LoadsNewer ==
  /\ Loading => Ahead(part, loaded)
  /\ loader = "start" => Ahead(part, applied)
  /\ loader = "req" => Ahead(part, seen)

OkIsLoaded ==
  req = "ok" => /\ up => NotOlder(loaded, seen)
                /\ loader = "start" => Ahead(part, seen)

\* A file that has not changed since it was seen was written before that.
QuietIsStable == \A f \in DOMAIN seen : disk[f] = seen[f] => stable[f] >= quiet

ReloadInv ==
  /\ ReloadTypeOK /\ AllPast /\ OneLoads /\ LoadsNewer /\ OkIsLoaded
  /\ AppliedIsLoaded /\ QuietIsStable

-----------------------------------------------------------------------------

\* Reading one more file leaves what was read as it is, and adds what the file
\* holds now.
LEMMA WithFile ==
  ASSUME NEW r, NEW f \in Files
  PROVE  /\ DOMAIN With(r, f) = DOMAIN r \cup {f}
         /\ With(r, f)[f] = disk[f]
         /\ \A g \in DOMAIN r \ {f} : With(r, f)[g] = r[g]
BY DEF With

LEMMA WithPast ==
  ASSUME disk \in [Files -> Nat], NEW r, Past(r), NEW f \in Files
  PROVE  Past(With(r, f))
<1> DEFINE w == With(r, f)
<1>1. DOMAIN w = DOMAIN r \cup {f} /\ w[f] = disk[f] /\ \A g \in DOMAIN r \ {f} : w[g] = r[g]
  BY WithFile
<1>2. disk[f] \in Nat
  OBVIOUS
<1> HIDE DEF w
<1>3. Past(w)
  BY <1>1, <1>2 DEF Past
<1> QED
  BY <1>3 DEF w

\* What a file holds now is not older than anything it held.
LEMMA WithAhead ==
  ASSUME disk \in [Files -> Nat], NEW r, NEW s, Past(s), Ahead(r, s), NEW f \in Files
  PROVE  Ahead(With(r, f), s)
<1> DEFINE w == With(r, f)
<1>1. DOMAIN w = DOMAIN r \cup {f} /\ w[f] = disk[f] /\ \A g \in DOMAIN r \ {f} : w[g] = r[g]
  BY WithFile
<1> HIDE DEF w
<1>2. ASSUME NEW g \in DOMAIN w \cap DOMAIN s PROVE w[g] >= s[g]
  <2>1. CASE g = f
    BY <1>1, <1>2, <2>1 DEF Past
  <2>2. CASE g # f
    BY <1>1, <1>2, <2>2 DEF Ahead
  <2> QED
    BY <2>1, <2>2
<1>3. Ahead(w, s)
  BY <1>2 DEF Ahead
<1> QED
  BY <1>3 DEF w

LEMMA NotOlderTransitive ==
  ASSUME NEW r, NEW s, NEW t, Past(r), Past(s), Past(t), NotOlder(r, s), NotOlder(s, t)
  PROVE  NotOlder(r, t)
<1> SUFFICES ASSUME NEW f \in DOMAIN t PROVE f \in DOMAIN r /\ r[f] >= t[f]
  BY DEF NotOlder
<1>1. f \in DOMAIN s /\ f \in DOMAIN r /\ r[f] >= s[f] /\ s[f] >= t[f]
  BY DEF NotOlder
<1> QED
  BY <1>1 DEF Past

\* All of a complete configuration is not older, as soon as its parts are not.
LEMMA CompleteAhead ==
  ASSUME NEW r, NEW s, Complete(r), Past(s), Ahead(r, s)
  PROVE  NotOlder(r, s)
BY DEF Complete, Past, Ahead, NotOlder

LEMMA ReloadInit == Init => ReloadInv
<1> SUFFICES ASSUME Init PROVE ReloadInv
  OBVIOUS
<1>1. ReloadTypeOK
  <2>1. disk \in [Files -> Nat] /\ stable \in [Files -> Nat]
    BY DEF Init
  <2>2. quiet \in 0..Debounce
    BY WatcherOK DEF Init
  <2> QED
    BY <2>1, <2>2 DEF Init, ReloadTypeOK
<1>2. AllPast
  BY DEF Init, AllPast, Past, None
<1>3. OneLoads /\ LoadsNewer /\ OkIsLoaded
  BY DEF Init, OneLoads, LoadsNewer, OkIsLoaded, Loading
<1>4. AppliedIsLoaded /\ QuietIsStable
  BY DEF Init, AppliedIsLoaded, QuietIsStable, None
<1> QED
  BY <1>1, <1>2, <1>3, <1>4 DEF ReloadInv

-----------------------------------------------------------------------------
(* The steps.                                                               *)

\* A file is written, with contents it never had.
LEMMA WriteStep ==
  ASSUME ReloadInv, ~reverted', NEW f \in Files, Write(f)
  PROVE  ReloadInv'
<1>0. ~reverted
  BY Zenon DEF Write
<1>1. PICK v \in 0..MaxVersion : v = disk[f] + 1 /\ disk' = [disk EXCEPT ![f] = v]
  <2>1. PICK v \in (0..MaxVersion) \ {disk[f]} :
          v <= disk[f] + 1 /\ disk' = [disk EXCEPT ![f] = v] /\ ~(v < disk[f])
    BY DEF Write
  <2>2. disk[f] \in Nat /\ v \in Nat
    BY <2>1, WatcherOK DEF ReloadInv, ReloadTypeOK
  <2>3. v = disk[f] + 1
    BY <2>1, <2>2
  <2> QED
    BY <2>1, <2>3
<1>2. /\ stable' = [stable EXCEPT ![f] = 0]
      /\ UNCHANGED <<pollVars, seenVars, req, proxyVars>>
  BY DEF Write
<1>3. ReloadTypeOK'
  <2>1. reverted' \in BOOLEAN
    BY DEF Write
  <2> QED
    BY <1>1, <1>2, <2>1 DEF ReloadInv, ReloadTypeOK, pollVars, seenVars, proxyVars
<1>4. \A g \in Files : disk[g] \in Nat /\ disk'[g] \in Nat /\ disk'[g] >= disk[g]
  BY <1>1 DEF ReloadInv, ReloadTypeOK
<1>5. ASSUME NEW r, Past(r) PROVE Past(r)'
  BY <1>4, <1>5 DEF Past
<1>6. AllPast'
  BY <1>2, <1>5 DEF ReloadInv, AllPast, Past, pollVars, seenVars, proxyVars
<1>7. OneLoads' /\ LoadsNewer' /\ OkIsLoaded' /\ AppliedIsLoaded'
  BY <1>0, <1>2 DEF ReloadInv, OneLoads, LoadsNewer, OkIsLoaded, AppliedIsLoaded, Ahead, NotOlder,
              Loading, pollVars, seenVars, proxyVars
<1>8. QuietIsStable'
  <2> SUFFICES ASSUME NEW g \in DOMAIN seen, disk'[g] = seen[g] PROVE stable'[g] >= quiet
    BY <1>2 DEF QuietIsStable, seenVars
  <2>1. g \in Files /\ seen[g] \in Nat /\ seen[g] <= disk[g]
    BY DEF ReloadInv, AllPast, Past
  <2>2. g # f
    BY <1>1, <2>1 DEF ReloadInv, ReloadTypeOK
  <2>3. disk'[g] = disk[g] /\ stable'[g] = stable[g]
    BY <1>1, <1>2, <2>1, <2>2 DEF ReloadInv, ReloadTypeOK
  <2> QED
    BY <2>3 DEF ReloadInv, QuietIsStable
<1> QED
  BY <1>3, <1>6, <1>7, <1>8 DEF ReloadInv

\* The clock.
LEMMA TickStep == ReloadInv /\ Tick => ReloadInv'
<1> SUFFICES ASSUME ReloadInv, Tick PROVE ReloadInv'
  OBVIOUS
<1>1. /\ quiet' = UpTo(quiet + 1, Debounce)
      /\ stable' = [f \in Files |-> UpTo(stable[f] + 1, Debounce)]
      /\ UNCHANGED <<disk, reverted, wpc, wread, seen, applied, req, proxyVars>>
  BY DEF Tick
<1>2. ReloadTypeOK'
  <2>1. quiet' \in 0..Debounce
    BY <1>1, WatcherOK DEF ReloadInv, ReloadTypeOK, UpTo
  <2>2. stable' \in [Files -> Nat]
    BY <1>1, WatcherOK DEF ReloadInv, ReloadTypeOK, UpTo
  <2> QED
    BY <1>1, <2>1, <2>2 DEF ReloadInv, ReloadTypeOK, proxyVars
<1>3. AllPast' /\ OneLoads' /\ LoadsNewer' /\ OkIsLoaded' /\ AppliedIsLoaded'
  BY <1>1 DEF ReloadInv, AllPast, Past, OneLoads, LoadsNewer, OkIsLoaded, AppliedIsLoaded,
              Ahead, NotOlder, Loading, proxyVars
<1>4. QuietIsStable'
  <2> SUFFICES ASSUME NEW f \in DOMAIN seen, disk[f] = seen[f] PROVE stable'[f] >= quiet'
    BY <1>1 DEF QuietIsStable
  <2>1. f \in Files /\ stable[f] >= quiet /\ stable[f] \in Nat /\ quiet \in Nat
    BY WatcherOK DEF ReloadInv, ReloadTypeOK, AllPast, Past, QuietIsStable
  <2> QED
    BY <1>1, <2>1, WatcherOK DEF UpTo
<1> QED
  BY <1>2, <1>3, <1>4 DEF ReloadInv

\* The watcher reads: nothing that the proxy does is about what it has seen.
LEMMA ReadStep == ReloadInv /\ ((\E f \in Files : ReadFile(f)) \/ StartPoll) => ReloadInv'
<1> SUFFICES ASSUME ReloadInv, (\E f \in Files : ReadFile(f)) \/ StartPoll PROVE ReloadInv'
  OBVIOUS
<1>1. /\ UNCHANGED <<disk, stable, reverted, seenVars, req, proxyVars>>
      /\ wpc' = wpc \/ (wpc = "wait" /\ wpc' = "read")
  BY DEF ReadFile, StartPoll, diskVars
<1>2. Past(wread')
  <2>1. CASE \E f \in Files : ReadFile(f)
    BY <2>1, WithPast DEF ReadFile, ReloadInv, ReloadTypeOK, AllPast
  <2>2. CASE StartPoll
    BY <2>2 DEF StartPoll, Past, None
  <2> QED
    BY <2>1, <2>2
<1>3. ReloadTypeOK'
  BY <1>1 DEF ReloadInv, ReloadTypeOK, seenVars, proxyVars
<1>4. AllPast'
  BY <1>1, <1>2 DEF ReloadInv, AllPast, Past, seenVars, proxyVars
<1>5. OneLoads' /\ LoadsNewer' /\ OkIsLoaded' /\ AppliedIsLoaded' /\ QuietIsStable'
  BY <1>1 DEF ReloadInv, OneLoads, LoadsNewer, OkIsLoaded, AppliedIsLoaded, QuietIsStable,
              Ahead, NotOlder, Loading, seenVars, proxyVars
<1> QED
  BY <1>3, <1>4, <1>5 DEF ReloadInv

\* A fingerprint is complete; it may lead to a request.
LEMMA PollStep == ReloadInv /\ (FirstSeen \/ Poll) => ReloadInv'
<1> SUFFICES ASSUME ReloadInv, FirstSeen \/ Poll PROVE ReloadInv'
  OBVIOUS
<1>1. /\ wpc \in {"first", "read"} /\ seen' = wread /\ wread' = None
      /\ quiet' = 0 \/ (quiet' = quiet /\ seen' = seen)
      /\ \/ wpc' \in {"read", "wait"} /\ req' = req
         \/ wpc' = "request" /\ req' = "sent"
      /\ UNCHANGED <<disk, stable, reverted, applied, proxyVars>>
  BY DEF FirstSeen, Poll, diskVars
<1>2. req = "none" /\ loader # "req"
  BY <1>1 DEF ReloadInv, ReloadTypeOK, OneLoads
<1>3. ReloadTypeOK'
  BY <1>1, <1>2, WatcherOK DEF ReloadInv, ReloadTypeOK, proxyVars
<1>4. AllPast'
  BY <1>1 DEF ReloadInv, AllPast, Past, None, proxyVars
<1>5. OneLoads'
  BY <1>1, <1>2 DEF ReloadInv, OneLoads, proxyVars
<1>6. LoadsNewer' /\ OkIsLoaded' /\ AppliedIsLoaded'
  BY <1>1, <1>2 DEF ReloadInv, LoadsNewer, OkIsLoaded, AppliedIsLoaded, Ahead, NotOlder,
                    Loading, proxyVars
<1>7. QuietIsStable'
  <2>1. CASE quiet' = 0
    BY <1>1, <1>3, <1>4, <2>1 DEF QuietIsStable, ReloadTypeOK, AllPast, Past
  <2>2. CASE quiet' = quiet /\ seen' = seen
    BY <1>1, <2>2 DEF ReloadInv, QuietIsStable
  <2> QED
    BY <1>1, <2>1, <2>2
<1> QED
  BY <1>3, <1>4, <1>5, <1>6, <1>7 DEF ReloadInv

\* The watcher hears of its request, or gives it up.
LEMMA AnswerStep ==
  ReloadInv /\ (ReloadOK \/ ReloadFailed \/ Timeout \/ Refused \/ Expires) => ReloadInv'
<1> SUFFICES ASSUME ReloadInv, ReloadOK \/ ReloadFailed \/ Timeout \/ Refused \/ Expires
             PROVE  ReloadInv'
  OBVIOUS
<1>1. UNCHANGED <<disk, stable, reverted, wread, seen, quiet, up, part, loaded>>
  BY DEF ReloadOK, ReloadFailed, Timeout, Refused, Expires, diskVars, pollVars, seenVars, proxyVars
<1>2. \/ /\ req = "ok" /\ req' = "none" /\ wpc' = "wait" /\ applied' = seen /\ loader' = loader
      \/ /\ req = "failed" /\ req' = "none" /\ wpc' = "wait" /\ applied' = applied
         /\ loader' = loader
      \/ /\ req \in {"sent", "loading", "ok"} /\ req' = "failed" /\ wpc' = wpc
         /\ applied' = applied /\ loader # "req" /\ loader' = loader
      \/ /\ loader = "req" /\ req' = "failed" /\ loader' = "orphan" /\ wpc' = wpc
         /\ applied' = applied
  BY DEF ReloadOK, ReloadFailed, Timeout, Refused, Expires, ReloadInv, OneLoads, pollVars,
         seenVars, proxyVars
<1>3. ReloadTypeOK'
  BY <1>1, <1>2 DEF ReloadInv, ReloadTypeOK
<1>4. AllPast' /\ QuietIsStable'
  BY <1>1, <1>2 DEF ReloadInv, AllPast, Past, QuietIsStable
<1>5. OneLoads'
  BY <1>1, <1>2 DEF ReloadInv, OneLoads
<1>6. LoadsNewer' /\ OkIsLoaded' /\ AppliedIsLoaded'
  BY <1>1, <1>2 DEF ReloadInv, OneLoads, LoadsNewer, OkIsLoaded, AppliedIsLoaded, Ahead, NotOlder,
                    Loading
<1> QED
  BY <1>3, <1>4, <1>5, <1>6 DEF ReloadInv

\* The proxy comes and goes, and starts to load.
LEMMA ProxyStep ==
  ReloadInv /\ (ProxyStart \/ ProxyCrash \/ OperatorReload \/ BeginReload) => ReloadInv'
<1> SUFFICES ASSUME ReloadInv, ProxyStart \/ ProxyCrash \/ OperatorReload \/ BeginReload
             PROVE  ReloadInv'
  OBVIOUS
<1>1. UNCHANGED <<disk, stable, reverted, wpc, wread, seen, applied, quiet, loaded>>
  BY DEF ProxyStart, ProxyCrash, OperatorReload, BeginReload, diskVars, pollVars, seenVars,
         proxyVars
<1>2. \/ /\ ~up /\ up' = up /\ loader = "idle" /\ loader' = "start" /\ part' = None /\ req' = req
      \/ /\ up' = FALSE /\ loader' = "idle" /\ part' = part
         /\ req' = IF req \in {"sent", "loading"} THEN "failed" ELSE req
      \/ /\ up' = up /\ loader' = loader /\ part' = part /\ req' = req
      \/ /\ up /\ up' = up /\ loader = "idle" /\ part' = None
         /\ \/ req = "sent" /\ req' = "loading" /\ loader' = "req"
            \/ loader' = "orphan" /\ req' = req
  BY DEF ProxyStart, ProxyCrash, OperatorReload, BeginReload, proxyVars
<1>3. ReloadTypeOK'
  BY <1>1, <1>2 DEF ReloadInv, ReloadTypeOK
<1>4. AllPast' /\ QuietIsStable'
  BY <1>1, <1>2 DEF ReloadInv, AllPast, Past, QuietIsStable, None
<1>5. OneLoads'
  BY <1>1, <1>2 DEF ReloadInv, ReloadTypeOK, OneLoads
<1>6. LoadsNewer'
  BY <1>1, <1>2 DEF ReloadInv, LoadsNewer, Ahead, Loading, None
<1>7. OkIsLoaded' /\ AppliedIsLoaded'
  BY <1>1, <1>2 DEF ReloadInv, OkIsLoaded, AppliedIsLoaded, Ahead, NotOlder, None
<1> QED
  BY <1>3, <1>4, <1>5, <1>6, <1>7 DEF ReloadInv

\* One more file is loaded.
LEMMA LoadFileStep ==
  ASSUME ReloadInv, NEW f \in Files, LoadFile(f)
  PROVE  ReloadInv'
<1>1. /\ Loading /\ part' = With(part, f)
      /\ UNCHANGED <<diskVars, pollVars, seenVars, req, up, loader, loaded>>
  BY DEF LoadFile
<1>2. ReloadTypeOK'
  BY <1>1 DEF ReloadInv, ReloadTypeOK, diskVars, pollVars, seenVars
<1>3. disk \in [Files -> Nat] /\ AllPast
  BY DEF ReloadInv, ReloadTypeOK
<1>4. Past(part')
  BY <1>1, <1>3, WithPast DEF AllPast
<1>5. AllPast'
  BY <1>1, <1>3, <1>4 DEF AllPast, Past, diskVars, pollVars, seenVars
<1>6. /\ Ahead(part, loaded) => Ahead(part', loaded)
      /\ Ahead(part, applied) => Ahead(part', applied)
      /\ Ahead(part, seen) => Ahead(part', seen)
  BY <1>1, <1>3, WithAhead DEF AllPast
<1>7. LoadsNewer' /\ OkIsLoaded'
  BY <1>1, <1>6 DEF ReloadInv, LoadsNewer, OkIsLoaded, Ahead, NotOlder, Loading, seenVars
<1>8. OneLoads' /\ AppliedIsLoaded' /\ QuietIsStable'
  BY <1>1 DEF ReloadInv, OneLoads, AppliedIsLoaded, QuietIsStable, NotOlder, diskVars, pollVars,
              seenVars
<1> QED
  BY <1>2, <1>5, <1>7, <1>8 DEF ReloadInv

\* What is in force after a load is not older than before.
LEMMA LoadDoneAhead == ReloadInv /\ (LoadDone \/ LoadHangs) => NotOlder(loaded', loaded)
<1> SUFFICES ASSUME ReloadInv, LoadDone \/ LoadHangs PROVE NotOlder(loaded', loaded)
  OBVIOUS
<1>1. NotOlder(part, loaded)
  BY CompleteAhead DEF LoadDone, LoadHangs, Loading, ReloadInv, LoadsNewer, AllPast
<1>2. NotOlder(loaded, loaded)
  BY DEF ReloadInv, AllPast, Past, NotOlder
<1> QED
  BY <1>1, <1>2 DEF LoadDone, LoadHangs

\* The configuration is complete: it is rejected, or in force from now on.
LEMMA LoadDoneStep == ReloadInv /\ LoadDone => ReloadInv'
<1> SUFFICES ASSUME ReloadInv, LoadDone PROVE ReloadInv'
  OBVIOUS
<1>1. /\ Loading /\ loader' = "idle" /\ Complete(part)
      /\ UNCHANGED <<diskVars, pollVars, seenVars, part>>
      /\ req' = IF loader # "req" THEN req ELSE IF Rejected THEN "failed" ELSE "ok"
  BY DEF LoadDone
<1>2. loaded' = (IF Rejected THEN loaded ELSE part) /\ up' = (loader = "start" => ~Rejected)
  BY DEF LoadDone
<1>3. /\ loader = "start" /\ Rejected => ~up'
      /\ loader = "start" /\ ~Rejected => up'
      /\ loader # "start" => up' /\ up
      /\ up' \in BOOLEAN
  <2>1. loader # "start" => up
    BY <1>1 DEF ReloadInv, Loading, OneLoads
  <2> QED
    BY <1>2, <2>1, Zenon
<1>4. ReloadTypeOK'
  BY <1>1, <1>3 DEF ReloadInv, ReloadTypeOK, diskVars, pollVars, seenVars
<1>5. AllPast' /\ QuietIsStable'
  BY <1>1, <1>2 DEF ReloadInv, AllPast, Past, QuietIsStable, diskVars, pollVars, seenVars
<1>6. OneLoads' /\ LoadsNewer'
  BY <1>1 DEF ReloadInv, OneLoads, LoadsNewer, Loading, pollVars
<1>7. /\ loader = "start" => NotOlder(part, applied)
      /\ loader = "req" => NotOlder(part, seen)
      /\ loader = "start" /\ req = "ok" => NotOlder(part, seen)
  BY <1>1, CompleteAhead DEF ReloadInv, AllPast, LoadsNewer, OkIsLoaded
<1>8. NotOlder(loaded', loaded) /\ Past(loaded') /\ Past(loaded) /\ Past(applied) /\ Past(seen)
  BY <1>2, LoadDoneAhead DEF ReloadInv, AllPast
<1>9. OkIsLoaded'
  <2> SUFFICES ASSUME req' = "ok", up' PROVE NotOlder(loaded', seen)
    BY <1>1 DEF OkIsLoaded, seenVars
  <2>1. CASE loader = "req" \/ loader = "start"
    BY <1>1, <1>2, <1>3, <1>7, <2>1
  <2>2. CASE loader = "orphan"
    <3>1. NotOlder(loaded, seen)
      BY <1>1, <1>3, <2>2 DEF ReloadInv, OkIsLoaded
    <3> QED
      BY <1>8, <3>1, NotOlderTransitive
  <2> QED
    BY <1>1, <2>1, <2>2 DEF Loading
<1>10. AppliedIsLoaded'
  <2> SUFFICES ASSUME ~reverted, up' PROVE NotOlder(loaded', applied)
    BY <1>1 DEF AppliedIsLoaded, diskVars, seenVars
  <2>1. CASE loader = "start"
    BY <1>2, <1>3, <1>7, <2>1
  <2>2. CASE loader # "start"
    <3>1. NotOlder(loaded, applied)
      BY <1>3, <2>2 DEF ReloadInv, AppliedIsLoaded
    <3> QED
      BY <1>8, <3>1, NotOlderTransitive
  <2> QED
    BY <2>1, <2>2
<1> QED
  BY <1>4, <1>5, <1>6, <1>9, <1>10 DEF ReloadInv

\* The configuration is in force, but the reload never ends.
LEMMA LoadHangsStep == ReloadInv /\ LoadHangs => ReloadInv'
<1> SUFFICES ASSUME ReloadInv, LoadHangs PROVE ReloadInv'
  OBVIOUS
<1>1. /\ loader \in {"req", "orphan"} /\ loader' = "stuck" /\ loaded' = part
      /\ UNCHANGED <<diskVars, pollVars, seenVars, req, up, part>>
  BY DEF LoadHangs
<1>2. up
  BY <1>1 DEF ReloadInv, OneLoads
<1>3. ReloadTypeOK'
  BY <1>1 DEF ReloadInv, ReloadTypeOK, diskVars, pollVars, seenVars
<1>4. AllPast' /\ QuietIsStable'
  BY <1>1 DEF ReloadInv, AllPast, Past, QuietIsStable, diskVars, pollVars, seenVars
<1>5. OneLoads' /\ LoadsNewer'
  BY <1>1 DEF ReloadInv, OneLoads, LoadsNewer, Loading, pollVars
<1>6. NotOlder(loaded', loaded) /\ Past(loaded') /\ Past(loaded) /\ Past(applied) /\ Past(seen)
  BY <1>1, LoadDoneAhead DEF ReloadInv, AllPast
<1>7. OkIsLoaded'
  <2> SUFFICES ASSUME req = "ok" PROVE NotOlder(loaded', seen)
    BY <1>1 DEF OkIsLoaded, seenVars
  <2>1. NotOlder(loaded, seen)
    BY <1>2 DEF ReloadInv, OkIsLoaded
  <2> QED
    BY <1>6, <2>1, NotOlderTransitive
<1>8. AppliedIsLoaded'
  <2> SUFFICES ASSUME ~reverted PROVE NotOlder(loaded', applied)
    BY <1>1 DEF AppliedIsLoaded, diskVars, seenVars
  <2>1. NotOlder(loaded, applied)
    BY <1>2 DEF ReloadInv, AppliedIsLoaded
  <2> QED
    BY <1>6, <2>1, NotOlderTransitive
<1> QED
  BY <1>3, <1>4, <1>5, <1>7, <1>8 DEF ReloadInv

-----------------------------------------------------------------------------
(* The theorems.                                                            *)

LEMMA ReloadNext == ~reverted' /\ ReloadInv /\ [Next]_vars => ReloadInv'
<1> SUFFICES ASSUME ~reverted', ReloadInv, [Next]_vars PROVE ReloadInv'
  OBVIOUS
<1>1. CASE UNCHANGED vars
  <2>1. UNCHANGED <<disk, stable, reverted, wpc, wread, seen, applied, quiet, req, up, loader, part,
                  loaded>>
    BY <1>1 DEF vars, diskVars, pollVars, seenVars, proxyVars
  <2>2. ReloadTypeOK' /\ AllPast' /\ OneLoads'
    BY <2>1 DEF ReloadInv, ReloadTypeOK, AllPast, Past, OneLoads
  <2>3. LoadsNewer' /\ OkIsLoaded' /\ AppliedIsLoaded' /\ QuietIsStable'
    BY <2>1 DEF ReloadInv, LoadsNewer, OkIsLoaded, AppliedIsLoaded, QuietIsStable, Ahead, NotOlder,
              Loading
  <2> QED
    BY <2>2, <2>3 DEF ReloadInv
<1>2. CASE \E f \in Files : Write(f)
  BY <1>2, WriteStep
<1>3. CASE Tick \/ Watcher
  BY <1>3, TickStep, ReadStep, PollStep, AnswerStep DEF Watcher
<1>4. CASE Timeout \/ Refused \/ Expires
  BY <1>4, AnswerStep
<1>5. CASE Proxy \/ LoadHangs \/ ProxyCrash \/ OperatorReload
  BY <1>5, ProxyStep, LoadFileStep, LoadDoneStep, LoadHangsStep DEF Proxy
<1> QED
  BY <1>1, <1>2, <1>3, <1>4, <1>5 DEF Next

\* Once a file got earlier contents back, that is never forgotten.
LEMMA RevertedForEver == [Next]_vars /\ ~reverted' => ~reverted
BY DEF Next, Write, Tick, Watcher, ReadFile, FirstSeen, StartPoll, Poll, ReloadOK, ReloadFailed,
   Timeout, Refused, Expires, Proxy, ProxyStart, BeginReload, LoadFile, LoadDone, LoadHangs,
   ProxyCrash, OperatorReload, vars, diskVars

LEMMA ReloadInvariant == Spec => [](~reverted => ReloadInv)
<1>1. Init => (~reverted => ReloadInv)
  BY ReloadInit
<1>2. (~reverted => ReloadInv) /\ [Next]_vars => (~reverted => ReloadInv)'
  BY ReloadNext, RevertedForEver
<1> QED
  BY <1>1, <1>2, PTL DEF Spec

\* What poll() records in w.applied is in force, or something newer is: through
\* timeouts, restarts of the proxy and files written while either side reads them.
THEOREM AppliedIsInForce == Spec => []AppliedIsLoaded
<1>1. (~reverted => ReloadInv) => AppliedIsLoaded
  BY DEF ReloadInv, AppliedIsLoaded
<1> QED
  BY <1>1, ReloadInvariant, PTL

\* No reload, however late or on whose behalf, puts an older version of a file
\* in force (Reload and loadFromDisk of runner.go).
THEOREM NeverRolledBack == Spec => NoRollback
<1>1. (~reverted => ReloadInv) /\ [Next]_vars => [~reverted => NotOlder(loaded', loaded)]_vars
  <2> SUFFICES ASSUME ~reverted, ReloadInv, [Next]_vars PROVE NotOlder(loaded', loaded)
    OBVIOUS
  <2>1. CASE LoadDone \/ LoadHangs
    BY <2>1, LoadDoneAhead
  <2>2. CASE ~(LoadDone \/ LoadHangs)
    <3>1. loaded' = loaded
      BY <2>2 DEF Next, Write, Tick, Watcher, ReadFile, FirstSeen, StartPoll, Poll, ReloadOK,
         ReloadFailed, Timeout, Refused, Expires, Proxy, ProxyStart, BeginReload, LoadFile,
         ProxyCrash, OperatorReload, vars, proxyVars
    <3> QED
      BY <3>1 DEF ReloadInv, AllPast, Past, NotOlder
  <2> QED
    BY <2>1, <2>2
<1> QED
  BY <1>1, ReloadInvariant, PTL DEF Spec, NoRollback

\* poll() asks for a reload only when no file that it saw was written within the
\* debounce time.
THEOREM DebouncedAlways == Spec => DebounceHeld
<1>1. (~reverted => ReloadInv) /\ [Next]_vars =>
        [~reverted /\ req = "none" /\ req' = "sent" =>
           \A f \in Files : disk[f] = seen'[f] => stable[f] >= Debounce]_vars
  <2> SUFFICES ASSUME ~reverted, ReloadInv, [Next]_vars, req = "none", req' = "sent",
                      NEW f \in Files, disk[f] = seen'[f]
               PROVE  stable[f] >= Debounce
    OBVIOUS
  <2>1. Poll
    BY DEF Next, Write, Tick, Watcher, ReadFile, FirstSeen, StartPoll, ReloadOK, ReloadFailed,
       Timeout, Refused, Expires, Proxy, ProxyStart, BeginReload, LoadFile, LoadDone, LoadHangs,
       ProxyCrash, OperatorReload, vars
  <2>2. quiet' >= Debounce /\ f \in DOMAIN seen' /\ stable[f] \in Nat
        /\ (quiet' = 0 \/ (quiet' = quiet /\ seen' = seen))
    BY <2>1 DEF Poll, Due, Complete, ReloadInv, ReloadTypeOK
  <2>3. CASE quiet' = 0
    BY <2>2, <2>3, WatcherOK
  <2>4. CASE quiet' = quiet /\ seen' = seen
    BY <2>2, <2>4, WatcherOK DEF ReloadInv, ReloadTypeOK, QuietIsStable
  <2> QED
    BY <2>2, <2>3, <2>4
<1> QED
  BY <1>1, ReloadInvariant, PTL DEF Spec, DebounceHeld
=============================================================================
