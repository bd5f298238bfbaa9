------------------------ MODULE ConfigReloadProofs ------------------------
(***************************************************************************)
(* Proofs about ConfigReload, for any configurations, with any entries and  *)
(* mappings, and any number of reloads, each with any choice of what an     *)
(* entry inherits.                                                          *)
(***************************************************************************)
EXTENDS ConfigReload, TLAPS

-----------------------------------------------------------------------------
(* The inductive invariant.                                                 *)

\* It can be looked up, or its Add failed.
Serves(url) == url \in unserved \/ \E d \in Values(domains) : d.url = url

\* Every id was given out, and so the next one is new.
IdsGivenOut ==
  /\ issued \in Nat
  /\ DOMAIN targets \subseteq 1..issued /\ DOMAIN dstate \subseteq 1..issued

\* r.state.subs has the targets that no job is stopping, one for each entry.
StateRuns ==
  /\ targets = [i \in DOMAIN targets |-> targets[i]] /\ state = Drop(targets, jobs)
  /\ jobs \subseteq DOMAIN targets
  /\ DOMAIN state \subseteq table /\ table \subseteq DOMAIN targets
  /\ \A i, j \in DOMAIN state : state[i] = state[j] => i = j

\* How far the loop over uniqueSubscriptions and the sweep have come.
EntriesRun ==
  /\ rpc \in {"idle", "create", "add", "remove"}
  /\ next \in Configs /\ wanted \in Normalized(next)
  /\ rpc = "create" => todo \subseteq wanted /\ wanted \ todo \subseteq Values(state) \cup failed
  /\ rpc = "add" => wanted \subseteq Values(state) \cup failed
  /\ rpc \in {"remove", "idle"} => Values(state) = wanted \ failed
  /\ rpc # "remove" => jobs = {}

\* An entry that has failed has no target; the one under the empty id has failed.
FailedHaveNone ==
  /\ failed \subseteq wanted /\ failed \cap Values(state) = {}
  /\ nameless \cap wanted \subseteq failed
  /\ rpc \in {"remove", "idle"} => nameless \subseteq failed

\* Why entries and mappings fail as long as ids can be made.
FailedByUrl ==
  /\ fails \in Nat
  /\ fails = 0 => (\A s \in failed : s.url \in Unparsable) /\ unserved \subseteq Unparsable \cup Foreign

\* Domains of the old configuration are served until those of the new one are.
DomainsServed ==
  /\ domains = dstate
  /\ rpc \in {"create", "add"} => \A m \in DOMAIN current.domains : Serves(current.domains[m].url)
  /\ rpc = "add" => \A n \in DOMAIN next.domains :
                      Mapping(next, n) \in todo \/ Serves(next.domains[n].url)
  /\ rpc \in {"remove", "idle"} => \A n \in DOMAIN next.domains : Serves(next.domains[n].url)

ConfigInv ==
  IdsGivenOut /\ StateRuns /\ EntriesRun /\ FailedHaveNone /\ FailedByUrl /\ DomainsServed

\* What is stopped is not wanted.
OnlyWanted == \A i \in jobs : targets[i] \notin wanted

\* Two names for one domain do not differ in what an entry inherits.
MappingsAgree ==
  \A c \in Configs : \A m, n \in DOMAIN c.domains :
    c.domains[m].url = c.domains[n].url => c.domains[m].node = c.domains[n].node

-----------------------------------------------------------------------------
(* The maps of the code.                                                    *)

LEMMA PutIsMap ==
  ASSUME NEW r, NEW i, NEW v
  PROVE  Put(r, i, v) = [j \in DOMAIN Put(r, i, v) |-> Put(r, i, v)[j]]
BY DEF Put

LEMMA DropIsMap ==
  ASSUME NEW r, NEW ids
  PROVE  Drop(r, ids) = [j \in DOMAIN Drop(r, ids) |-> Drop(r, ids)[j]]
BY DEF Drop

\* A new id adds its value, and takes none away.
LEMMA PutValues ==
  ASSUME NEW r, NEW i, NEW v, i \notin DOMAIN r
  PROVE  Values(Put(r, i, v)) = Values(r) \cup {v}
<1>1. DOMAIN Put(r, i, v) = DOMAIN r \cup {i} /\ Put(r, i, v)[i] = v
      /\ \A j \in DOMAIN r : Put(r, i, v)[j] = r[j]
  BY DEF Put
<1> QED
  BY <1>1 DEF Values

\* Two maps with the same domain and values are one.
LEMMA SameFunction ==
  ASSUME NEW r, NEW s, r = [i \in DOMAIN r |-> r[i]], s = [i \in DOMAIN s |-> s[i]],
         DOMAIN r = DOMAIN s, \A i \in DOMAIN r : r[i] = s[i]
  PROVE  r = s
OBVIOUS

-----------------------------------------------------------------------------
(* ConfigInv is inductive.                                                  *)

LEMMA ConfigInit == Init => ConfigInv
<1> SUFFICES ASSUME Init PROVE ConfigInv
  OBVIOUS
<1> USE DEF Init, Empty
<1>1. IdsGivenOut
  BY DEF IdsGivenOut
<1>2. StateRuns
  BY DEF StateRuns, Drop
<1>3. EntriesRun
  BY ConfigReloadOK DEF EntriesRun
<1>4. DomainsServed
  BY DEF DomainsServed
<1>5. FailedHaveNone /\ FailedByUrl
  BY DEF FailedHaveNone, FailedByUrl, Values
<1> QED
  BY <1>1, <1>2, <1>3, <1>4, <1>5 DEF ConfigInv

LEMMA ReloadKeeps ==
  ASSUME ConfigInv, Reload PROVE ConfigInv'
<1> USE DEF ConfigInv, Reload, targetVars, domainVars, idVars
<1>1. IdsGivenOut' /\ StateRuns'
  BY DEF IdsGivenOut, StateRuns
<1>2. EntriesRun'
  BY DEF EntriesRun
<1>3. FailedHaveNone' /\ FailedByUrl'
  <2>1. state' = state /\ nameless' = nameless /\ failed' = failed \cap wanted' /\ rpc' = "create"
    OBVIOUS
  <2>2. Values(state') = Values(state)
    BY <2>1
  <2> QED
    BY <2>1, <2>2 DEF FailedHaveNone, FailedByUrl
<1>4. DomainsServed'
  BY DEF DomainsServed, Serves
<1> QED
  BY <1>1, <1>2, <1>3, <1>4

\* The entry gets a target with a new id.
LEMMA NewTarget ==
  ASSUME ConfigInv, jobs = {}, jobs' = jobs, dstate' = dstate, NEW s, s \notin Values(state), Create(s)
  PROVE  IdsGivenOut' /\ StateRuns' /\ Values(state') = Values(state) \cup {s}
<1> DEFINE n == issued + 1
<1>1. issued' = n /\ state' = Put(state, n, s) /\ targets' = Put(targets, n, s) /\ table' = table \cup {n}
  BY DEF Create, NewId
<1>2. issued \in Nat /\ n \notin DOMAIN targets /\ n \notin DOMAIN dstate
  BY DEF ConfigInv, IdsGivenOut
<1>3. state = targets /\ DOMAIN state = DOMAIN targets
  <2>1. Drop(targets, {}) = [i \in DOMAIN targets |-> targets[i]]
    BY DEF Drop
  <2> QED
    BY <2>1 DEF ConfigInv, StateRuns
<1>4. /\ DOMAIN targets' = DOMAIN targets \cup {n} /\ targets'[n] = s
      /\ \A j \in DOMAIN targets : targets'[j] = targets[j]
  BY <1>1, <1>2 DEF Put
<1>5. targets' = [j \in DOMAIN targets' |-> targets'[j]]
  BY <1>1, PutIsMap
<1>6. state' = targets' /\ Values(state') = Values(state) \cup {s}
  BY <1>1, <1>2, <1>3, PutValues
<1>7. IdsGivenOut'
  BY <1>1, <1>2, <1>4 DEF ConfigInv, IdsGivenOut
<1>8. StateRuns'
  <2>1. targets' = Drop(targets', jobs')
    <3>1. Drop(targets', {}) = [i \in DOMAIN targets' |-> targets'[i]]
      BY DEF Drop
    <3> QED
      BY <1>5, <3>1
  <2>2. \A i, j \in DOMAIN targets' : targets'[i] = targets'[j] => i = j
    BY <1>3, <1>4 DEF ConfigInv, StateRuns, Values
  <2> QED
    BY <1>1, <1>3, <1>4, <1>5, <1>6, <2>1, <2>2 DEF ConfigInv, StateRuns
<1> QED
  BY <1>6, <1>7, <1>8

\* An entry that does not run gets a target, or has failed.
LEMMA CreateTargetKeeps ==
  ASSUME ConfigInv, NEW s, CreateTarget(s) PROVE ConfigInv'
<1>1. /\ rpc = "create" /\ s \in todo /\ todo' = todo \ {s} /\ rpc' = rpc /\ jobs = {}
      /\ s \in wanted
      /\ UNCHANGED <<jobs, dstate, domains, unserved, next, current, wanted>>
  BY DEF CreateTarget, domainVars, loopVars, ConfigInv, EntriesRun
<1>2. DomainsServed'
  BY <1>1 DEF ConfigInv, DomainsServed, Serves
<1>3. CASE Known(s) /\ UNCHANGED <<entryVars, targets, table, idVars>>
  <2>1. s \in Values(state) \cup failed
    BY <1>1, <1>3 DEF Known, SameSub, ConfigInv, FailedHaveNone
  <2>2. IdsGivenOut' /\ StateRuns'
    BY <1>1, <1>3 DEF ConfigInv, IdsGivenOut, StateRuns, entryVars, idVars
  <2>3. EntriesRun' /\ FailedHaveNone' /\ FailedByUrl'
    BY <1>1, <1>3, <2>1 DEF ConfigInv, EntriesRun, FailedHaveNone, FailedByUrl, entryVars, idVars
  <2> QED
    BY <1>2, <2>2, <2>3 DEF ConfigInv
<1>4. CASE /\ ~Known(s) /\ failed' = failed \cup {s} /\ nameless' \in {nameless, {s}}
           /\ \/ s.url \in Unparsable /\ fails' = fails
              \/ fails' = fails + 1
           /\ UNCHANGED <<state, targets, table, issued>>
  <2>1. s \notin Values(state)
    BY <1>4 DEF Known, SameSub
  <2>2. IdsGivenOut' /\ StateRuns'
    BY <1>1, <1>4 DEF ConfigInv, IdsGivenOut, StateRuns
  <2>3. EntriesRun'
    BY <1>1, <1>4 DEF ConfigInv, EntriesRun
  <2>4. FailedHaveNone'
    BY <1>1, <1>4, <2>1 DEF ConfigInv, FailedHaveNone
  <2>5. FailedByUrl'
    BY <1>1, <1>4 DEF ConfigInv, FailedByUrl
  <2> QED
    BY <1>2, <2>2, <2>3, <2>4, <2>5 DEF ConfigInv
<1>5. CASE ~Known(s) /\ Create(s)
  <2>1. s \notin Values(state)
    BY <1>5 DEF Known, SameSub
  <2>2. IdsGivenOut' /\ StateRuns' /\ Values(state') = Values(state) \cup {s}
    BY <1>1, <1>5, <2>1, NewTarget
  <2>3. failed' = failed \ {s} /\ nameless' = nameless /\ fails' = fails /\ s \notin nameless
    BY <1>5 DEF Create, NewId, Known, SameSub
  <2>4. EntriesRun'
    BY <1>1, <2>2, <2>3 DEF ConfigInv, EntriesRun
  <2>5. FailedHaveNone'
    BY <1>1, <2>2, <2>3 DEF ConfigInv, FailedHaveNone
  <2>6. FailedByUrl'
    BY <1>1, <2>3 DEF ConfigInv, FailedByUrl
  <2> QED
    BY <1>2, <2>2, <2>4, <2>5, <2>6 DEF ConfigInv
<1> QED
  BY <1>3, <1>4, <1>5 DEF CreateTarget, NoCookie, idVars

LEMMA CreatedKeeps ==
  ASSUME ConfigInv, Created PROVE ConfigInv'
<1> USE DEF ConfigInv, Created, targetVars, entryVars, domainVars, loopVars, idVars
<1>1. IdsGivenOut' /\ StateRuns'
  BY DEF IdsGivenOut, StateRuns
<1>2. EntriesRun' /\ FailedHaveNone' /\ FailedByUrl'
  BY DEF EntriesRun, FailedHaveNone, FailedByUrl
<1>3. DomainsServed'
  BY DEF DomainsServed, Serves, Mapping
<1> QED
  BY <1>1, <1>2, <1>3

\* A mapping is served under its url when the loop has come past it, or has failed.
LEMMA AddDomainKeeps ==
  ASSUME ConfigInv, NEW d, AddDomain(d) PROVE ConfigInv'
<1>1. /\ rpc = "add" /\ d \in todo /\ todo' = todo \ {d} /\ rpc' = rpc
      /\ UNCHANGED <<state, nameless, failed, targets, table, jobs, next, current, wanted>>
  BY DEF AddDomain, targetVars, entryVars, loopVars
<1>2. StateRuns' /\ EntriesRun' /\ FailedHaveNone'
  BY <1>1 DEF ConfigInv, StateRuns, EntriesRun, FailedHaveNone
<1>3. CASE (\E e \in Values(dstate) : e.url = d.url)
           /\ UNCHANGED <<dstate, domains, unserved, issued, fails>>
  <2>1. IdsGivenOut' /\ FailedByUrl'
    BY <1>1, <1>3 DEF ConfigInv, IdsGivenOut, FailedByUrl
  <2>2. DomainsServed'
    BY <1>1, <1>3 DEF ConfigInv, DomainsServed, Serves, Mapping
  <2> QED
    BY <1>2, <2>1, <2>2 DEF ConfigInv
<1>4. CASE /\ issued' = issued + 1 /\ fails' = fails /\ unserved' = unserved \ {d.url}
           /\ dstate' = Put(dstate, issued', d) /\ domains' = Put(domains, issued', d)
  <2>1. issued \in Nat /\ issued' \notin DOMAIN dstate
    BY <1>4 DEF ConfigInv, IdsGivenOut
  <2>2. domains' = dstate' /\ Values(domains') = Values(domains) \cup {d}
    BY <1>4, <2>1, PutValues DEF ConfigInv, DomainsServed
  <2>3. IdsGivenOut'
    BY <1>1, <1>4, <2>1 DEF ConfigInv, IdsGivenOut, Put
  <2>4. ASSUME NEW u, Serves(u) PROVE Serves(u)'
    BY <1>4, <2>2, <2>4 DEF Serves
  <2>5. DomainsServed'
    <3>1. Serves(d.url)'
      BY <2>2 DEF Serves
    <3> QED
      BY <1>1, <2>2, <2>4, <3>1 DEF ConfigInv, DomainsServed, Mapping
  <2>6. FailedByUrl'
    BY <1>1, <1>4 DEF ConfigInv, FailedByUrl
  <2> QED
    BY <1>2, <2>3, <2>5, <2>6 DEF ConfigInv
<1>5. CASE /\ unserved' = unserved \cup {d.url}
           /\ \/ d.url \in Unparsable \cup Foreign /\ fails' = fails
              \/ fails' = fails + 1
           /\ UNCHANGED <<dstate, domains, issued>>
  <2>1. IdsGivenOut' /\ FailedByUrl'
    BY <1>1, <1>5 DEF ConfigInv, IdsGivenOut, FailedByUrl
  <2>2. ASSUME NEW u, Serves(u) PROVE Serves(u)'
    BY <1>5, <2>2 DEF Serves
  <2>3. DomainsServed'
    <3>1. Serves(d.url)'
      BY <1>5 DEF Serves
    <3> QED
      BY <1>1, <1>5, <2>2, <3>1 DEF ConfigInv, DomainsServed, Mapping
  <2> QED
    BY <1>2, <2>1, <2>3 DEF ConfigInv
<1> QED
  BY <1>3, <1>4, <1>5 DEF AddDomain, SameDomain, NewId, NoCookie, domainVars, idVars

\* The sweep leaves the entries that are wanted, all of which run.
LEMMA SweepKeeps ==
  ASSUME ConfigInv, Sweep PROVE ConfigInv'
<1> DEFINE gone == {i \in DOMAIN state : state[i] \notin wanted}
<1>1. /\ rpc = "add" /\ todo = {} /\ rpc' = "remove" /\ jobs = {}
      /\ state' = Drop(state, gone) /\ jobs' = gone
      /\ nameless' = nameless \cap wanted
      /\ UNCHANGED <<failed, targets, table, dstate, domains, unserved, next, current, wanted,
                     issued, fails>>
  BY DEF Sweep, SameSub, domainVars, loopVars, idVars, ConfigInv, EntriesRun
<1>2. IdsGivenOut' /\ DomainsServed' /\ FailedByUrl'
  BY <1>1 DEF ConfigInv, IdsGivenOut, DomainsServed, Serves, FailedByUrl
<1>3. /\ DOMAIN state' = DOMAIN state \ gone
      /\ \A i \in DOMAIN state' : state'[i] = state[i]
  BY <1>1 DEF Drop
<1>4. StateRuns'
  <2>1. state = targets
    <3>1. Drop(targets, {}) = [i \in DOMAIN targets |-> targets[i]]
      BY DEF Drop
    <3> QED
      BY <1>1, <3>1 DEF ConfigInv, StateRuns
  <2>2. state' = Drop(targets', jobs')
    BY <1>1, <2>1
  <2>3. jobs' \subseteq DOMAIN targets' /\ DOMAIN state' \subseteq table' /\ table' \subseteq DOMAIN targets'
    BY <1>1, <1>3, <2>1 DEF ConfigInv, StateRuns
  <2>4. \A i, j \in DOMAIN state' : state'[i] = state'[j] => i = j
    BY <1>3 DEF ConfigInv, StateRuns
  <2>5. targets' = [i \in DOMAIN targets' |-> targets'[i]]
    BY <1>1 DEF ConfigInv, StateRuns
  <2> QED
    BY <2>2, <2>3, <2>4, <2>5 DEF StateRuns
<1>5. Values(state') = wanted \ failed
  <2>1. Values(state') = Values(state) \cap wanted
    BY <1>1, <1>3 DEF Values
  <2> QED
    BY <1>1, <2>1 DEF ConfigInv, EntriesRun, FailedHaveNone
<1>6. EntriesRun' /\ FailedHaveNone'
  BY <1>1, <1>5 DEF ConfigInv, EntriesRun, FailedHaveNone
<1> QED
  BY <1>2, <1>4, <1>6 DEF ConfigInv

\* Only domains with a url that the new configuration does not have go.
LEMMA RemoveDomainKeeps ==
  ASSUME ConfigInv, NEW i, RemoveDomain(i) PROVE ConfigInv'
<1>1. /\ rpc = "remove" /\ rpc' = rpc
      /\ UNCHANGED <<state, nameless, failed, targets, table, jobs, next, current, wanted,
                     unserved, issued, fails>>
  BY DEF RemoveDomain, targetVars, entryVars, domainVars, loopVars, idVars
<1>2. StateRuns' /\ EntriesRun' /\ FailedHaveNone' /\ FailedByUrl'
  BY <1>1 DEF ConfigInv, StateRuns, EntriesRun, FailedHaveNone, FailedByUrl
<1>3. CASE UNCHANGED <<dstate, domains>>
  BY <1>1, <1>2, <1>3 DEF ConfigInv, IdsGivenOut, DomainsServed, Serves
<1>4. CASE /\ \A n \in DOMAIN next.domains : dstate[i].url # next.domains[n].url
           /\ dstate' = Drop(dstate, {i}) /\ domains' = Drop(domains, {i})
  <2>1. DOMAIN domains' = DOMAIN domains \ {i} /\ \A j \in DOMAIN domains' : domains'[j] = domains[j]
    BY <1>4 DEF Drop
  <2>2. domains' = dstate' /\ domains = dstate
    BY <1>4 DEF ConfigInv, DomainsServed
  <2>3. IdsGivenOut'
    BY <1>1, <2>1, <2>2 DEF ConfigInv, IdsGivenOut
  <2>4. ASSUME NEW n \in DOMAIN next.domains, next.domains[n].url \notin unserved
        PROVE  \E d \in Values(domains') : d.url = next.domains[n].url
    <3>1. PICK j \in DOMAIN domains : domains[j].url = next.domains[n].url
      BY <1>1, <2>4 DEF ConfigInv, DomainsServed, Serves, Values
    <3>2. j # i
      BY <1>4, <2>2, <3>1
    <3> QED
      BY <2>1, <3>1, <3>2 DEF Values
  <2>5. DomainsServed'
    BY <1>1, <2>2, <2>4 DEF ConfigInv, DomainsServed, Serves
  <2> QED
    BY <1>2, <2>3, <2>5 DEF ConfigInv
<1> QED
  BY <1>3, <1>4 DEF RemoveDomain, SameDomain

LEMMA FinishKeeps ==
  ASSUME ConfigInv, Finish PROVE ConfigInv'
<1> USE DEF ConfigInv, Finish, targetVars, entryVars, domainVars, loopVars, idVars
<1>1. IdsGivenOut' /\ StateRuns'
  BY DEF IdsGivenOut, StateRuns
<1>2. EntriesRun' /\ FailedHaveNone' /\ FailedByUrl'
  BY DEF EntriesRun, FailedHaveNone, FailedByUrl
<1>3. DomainsServed'
  BY DEF DomainsServed, Serves
<1> QED
  BY <1>1, <1>2, <1>3

\* A destroy job touches only its own target, which is no entry's any more.
LEMMA DestroyKeeps ==
  ASSUME ConfigInv, NEW i, TakeOut(i) \/ Stops(i) PROVE ConfigInv'
<1>1. /\ i \in jobs /\ rpc = "remove"
      /\ UNCHANGED <<rpc, todo, state, nameless, failed, dstate, domains, unserved, next, current,
                     wanted, issued, fails>>
  BY DEF TakeOut, Stops, entryVars, domainVars, loopVars, idVars, ConfigInv, EntriesRun
<1>2. DomainsServed'
  BY <1>1 DEF ConfigInv, DomainsServed, Serves
<1>3. EntriesRun' /\ FailedHaveNone' /\ FailedByUrl'
  BY <1>1 DEF ConfigInv, EntriesRun, FailedHaveNone, FailedByUrl
<1>4. DOMAIN state = DOMAIN targets \ jobs /\ \A j \in DOMAIN state : state[j] = targets[j]
  BY DEF ConfigInv, StateRuns, Drop
<1>5. CASE TakeOut(i)
  <2>1. table' = table \ {i} /\ UNCHANGED <<targets, jobs>>
    BY <1>5 DEF TakeOut
  <2>2. IdsGivenOut'
    BY <1>1, <2>1 DEF ConfigInv, IdsGivenOut
  <2>3. DOMAIN state' \subseteq table'
    BY <1>1, <1>4, <2>1 DEF ConfigInv, StateRuns
  <2>4. StateRuns'
    BY <1>1, <2>1, <2>3 DEF ConfigInv, StateRuns
  <2> QED
    BY <1>2, <1>3, <2>2, <2>4 DEF ConfigInv
<1>6. CASE Stops(i)
  <2>1. targets' = Drop(targets, {i}) /\ jobs' = jobs \ {i} /\ i \notin table /\ table' = table
    BY <1>6 DEF Stops
  <2>2. /\ DOMAIN targets' = DOMAIN targets \ {i}
        /\ \A j \in DOMAIN targets' : targets'[j] = targets[j]
    BY <2>1 DEF Drop
  <2>6. targets' = [j \in DOMAIN targets' |-> targets'[j]]
    BY <2>1, DropIsMap
  <2>3. IdsGivenOut'
    BY <1>1, <2>2 DEF ConfigInv, IdsGivenOut
  <2>4. state' = Drop(targets', jobs')
    <3> DEFINE t == Drop(targets', jobs')
               s == Drop(targets, jobs)
    <3>1. DOMAIN t = DOMAIN targets' \ jobs' /\ \A j \in DOMAIN t : t[j] = targets'[j]
      BY DEF Drop
    <3>2. s = state
      BY DEF ConfigInv, StateRuns
    <3>5. t = [j \in DOMAIN t |-> t[j]] /\ s = [j \in DOMAIN s |-> s[j]]
      BY DropIsMap
    <3> HIDE DEF t, s
    <3>3. DOMAIN t = DOMAIN s /\ \A j \in DOMAIN t : t[j] = s[j]
      BY <1>1, <1>4, <2>1, <2>2, <3>1, <3>2
    <3>4. t = s
      BY <3>3, <3>5, SameFunction
    <3> QED
      BY <1>1, <3>2, <3>4 DEF t
  <2>5. StateRuns'
    BY <1>1, <1>4, <2>1, <2>2, <2>4, <2>6 DEF ConfigInv, StateRuns
  <2> QED
    BY <1>2, <1>3, <2>3, <2>5 DEF ConfigInv
<1> QED
  BY <1>5, <1>6

LEMMA ConfigNext == ConfigInv /\ [Next]_vars => ConfigInv'
<1> SUFFICES ASSUME ConfigInv, [Next]_vars PROVE ConfigInv'
  OBVIOUS
<1>1. CASE BeginLookup \/ EndLookup \/ UNCHANGED vars
  <2>1. UNCHANGED <<rpc, todo, targetVars, domainVars, loopVars, idVars>>
    BY <1>1 DEF BeginLookup, EndLookup, vars
  <2> QED
    BY <2>1 DEF targetVars, entryVars, domainVars, loopVars, idVars, ConfigInv, IdsGivenOut,
       StateRuns, EntriesRun, FailedHaveNone, FailedByUrl, DomainsServed, Serves
<1>2. CASE ReloadStep
  BY <1>2, CreateTargetKeeps, CreatedKeeps, AddDomainKeeps, SweepKeeps, RemoveDomainKeeps,
     FinishKeeps DEF ReloadStep
<1>3. CASE Destroy
  BY <1>3, DestroyKeeps DEF Destroy
<1> QED
  BY <1>1, <1>2, <1>3, ReloadKeeps DEF Next

THEOREM ConfigInvariant == Spec => []ConfigInv
BY ConfigInit, ConfigNext, PTL DEF Spec

-----------------------------------------------------------------------------
(* What follows.                                                            *)

\* When Reload() has returned, and before the next one, the proxy runs one target
\* for each entry of the configuration applied last that did not fail, and no other;
\* as long as ids can be made an entry fails for its url alone (reloadWith).
THEOREM RunsTheConfiguration == Spec => []RunsConfigured
<1>1. ConfigInv => RunsConfigured
  <2> SUFFICES ASSUME ConfigInv, rpc = "idle"
               PROVE  /\ Values(targets) = wanted \ failed
                      /\ \A i, j \in DOMAIN targets : targets[i] = targets[j] => i = j
                      /\ table = DOMAIN targets /\ state = targets
    BY DEF RunsConfigured, ConfigInv, FailedByUrl
  <2>1. Drop(targets, {}) = [i \in DOMAIN targets |-> targets[i]]
    BY DEF Drop
  <2>2. state = targets
    BY <2>1 DEF ConfigInv, StateRuns, EntriesRun
  <2> QED
    BY <2>2 DEF ConfigInv, StateRuns, EntriesRun
<1> QED
  BY <1>1, ConfigInvariant, PTL

\* A domain of both configurations can be looked up throughout the reload, unless
\* Domains.Add failed for it; as long as ids can be made it does for a url alone.
THEOREM ServesThroughout == Spec => []KeepsServing
<1>1. ConfigInv => KeepsServing
  BY DEF ConfigInv, EntriesRun, FailedByUrl, DomainsServed, Serves, KeepsServing
<1> QED
  BY <1>1, ConfigInvariant, PTL

\* When the mappings of one domain agree, an entry has one outcome.
LEMMA OneOutcome ==
  ASSUME MappingsAgree, NEW c \in Configs, NEW s, NEW v \in Possible(c, s), NEW w \in Possible(c, s)
  PROVE  v = w
<1>1. ASSUME NEW a \in Resolved(c, s.url), NEW b \in Resolved(c, s.url) PROVE a = b
  <2> DEFINE names == {m \in DOMAIN c.domains : c.domains[m].url = s.url}
             nodes == {c.domains[m].node : m \in names}
  <2>1. \A x, y \in nodes : x = y
    BY DEF MappingsAgree
  <2>2. Resolved(c, s.url) = {IF x = Unset THEN Default ELSE x : x \in IF nodes = {} THEN {Unset} ELSE nodes}
    BY DEF Resolved
  <2> HIDE DEF nodes
  <2> QED
    BY <2>1, <2>2
<1> QED
  BY <1>1 DEF Possible

\* Normalize takes every entry to one of its outcomes.
LEMMA OutcomeWanted ==
  ASSUME NEW c, NEW w \in Normalized(c), NEW s \in c.subs
  PROVE  \E v \in Possible(c, s) : v \in w
<1>1. PICK pick : w = {pick[t] : t \in c.subs} /\ \A t \in c.subs : pick[t] \in Possible(c, t)
  BY DEF Normalized
<1> QED
  BY <1>1

\* A target is given to a destroy job only when its entry, or what that entry
\* inherits, has changed, as long as two names for one domain do not disagree on
\* what is inherited (Subscription.Equal, Normalize).
THEOREM UnchangedKeepRunning ==
  ASSUME MappingsAgree
  PROVE  Spec => KeepsUnchanged
<1>1. ConfigInv /\ [Next]_vars =>
        [\A i \in jobs' \ jobs : \A s \in current.subs \cap next.subs :
           Possible(current, s) = Possible(next, s) => targets[i] \notin Possible(next, s)]_vars
  <2> SUFFICES ASSUME ConfigInv, [Next]_vars, NEW i \in jobs' \ jobs,
                      NEW s \in next.subs, targets[i] \in Possible(next, s)
               PROVE  FALSE
    OBVIOUS
  <2>1. Sweep
    BY DEF Next, Reload, ReloadStep, CreateTarget, AddDomain, RemoveDomain, Created, Finish,
       Destroy, TakeOut, Stops, BeginLookup, EndLookup, vars, targetVars
  <2>2. i \in DOMAIN state /\ state[i] \notin wanted
    BY <2>1 DEF Sweep, SameSub
  <2>3. targets[i] = state[i]
    BY <2>2 DEF ConfigInv, StateRuns, Drop
  <2>4. next \in Configs /\ wanted \in Normalized(next)
    BY DEF ConfigInv, EntriesRun
  <2>5. targets[i] \in wanted
    BY <2>4, MappingsAgree, OneOutcome, OutcomeWanted
  <2> QED
    BY <2>2, <2>3, <2>5
<1> QED
  BY <1>1, ConfigInvariant, PTL DEF Spec, KeepsUnchanged

-----------------------------------------------------------------------------
(* ConfigReload implements Reconcile.                                        *)

LEMMA OnlyWantedNext ==
  ASSUME ConfigInv, OnlyWanted, [Next]_vars PROVE OnlyWanted'
<1>1. rpc \in {"idle", "create", "add"} => jobs = {}
  BY DEF ConfigInv, EntriesRun
<1>2. CASE Reload
  BY <1>1, <1>2 DEF Reload, targetVars, OnlyWanted
<1>3. ASSUME NEW s, CreateTarget(s) PROVE OnlyWanted'
  BY <1>1, <1>3 DEF CreateTarget, domainVars, loopVars, OnlyWanted
<1>4. ASSUME NEW x, AddDomain(x) \/ RemoveDomain(x) PROVE OnlyWanted'
  BY <1>4 DEF AddDomain, RemoveDomain, targetVars, loopVars, OnlyWanted
<1>5. CASE Created \/ Finish
  BY <1>5 DEF Created, Finish, targetVars, loopVars, OnlyWanted
<1>6. CASE Sweep
  BY <1>1, <1>6 DEF Sweep, SameSub, loopVars, OnlyWanted, ConfigInv, StateRuns, Drop
<1>7. ASSUME NEW i, TakeOut(i) PROVE OnlyWanted'
  BY <1>7 DEF TakeOut, loopVars, OnlyWanted
<1>8. ASSUME NEW i, Stops(i) PROVE OnlyWanted'
  <2>1. /\ jobs' = jobs \ {i} /\ jobs \subseteq DOMAIN targets
        /\ UNCHANGED <<rpc, todo, wanted>>
    BY <1>8 DEF Stops, loopVars, ConfigInv, StateRuns
  <2>2. \A j \in jobs' : targets'[j] = targets[j]
    BY <1>8, <2>1 DEF Stops, Drop
  <2> QED
    BY <2>1, <2>2 DEF OnlyWanted
<1>9. CASE BeginLookup \/ EndLookup \/ UNCHANGED vars
  BY <1>9 DEF BeginLookup, EndLookup, vars, targetVars, loopVars, OnlyWanted
<1> QED
  BY <1>2, <1>3, <1>4, <1>5, <1>6, <1>7, <1>8, <1>9 DEF Next, ReloadStep, Destroy

\* The state is the running targets as long as no job is stopping one.
LEMMA StateIsTargets == ConfigInv /\ jobs = {} => state = targets
BY DEF ConfigInv, StateRuns, Drop

\* A new target is for an entry that is wanted and has none, and so is a failure.
LEMMA CreateStarts ==
  ASSUME ConfigInv, NEW s, CreateTarget(s)
  PROVE  Goal!Start(s) \/ Goal!Fail(s) \/ UNCHANGED <<rpc, wanted, failed, targets>>
<1>1. rpc = "create" /\ s \in wanted /\ state = targets /\ UNCHANGED <<rpc, wanted>>
  BY StateIsTargets DEF CreateTarget, loopVars, ConfigInv, EntriesRun
<1>2. ASSUME ~Known(s)
      PROVE  s \notin Goal!Running
  BY <1>1, <1>2 DEF Known, SameSub, Goal!Running, Values
<1>3. CASE ~Known(s) /\ Create(s)
  <2>1. issued' = issued + 1 /\ targets' = Put(targets, issued + 1, s) /\ failed' = failed \ {s}
    BY <1>3 DEF Create, NewId
  <2>2. issued + 1 \notin DOMAIN targets
    BY DEF ConfigInv, IdsGivenOut
  <2>3. issued + 1 \in DOMAIN targets'
    BY <2>1 DEF Put
  <2> QED
    BY <1>1, <1>2, <1>3, <2>1, <2>2, <2>3 DEF Goal!Start, Put
<1>4. CASE ~Known(s) /\ failed' = failed \cup {s} /\ targets' = targets
  BY <1>1, <1>2, <1>4 DEF Goal!Fail
<1>5. CASE UNCHANGED <<failed, targets>>
  BY <1>1, <1>5
<1> QED
  BY <1>3, <1>4, <1>5 DEF CreateTarget, entryVars

\* A target is gone only when it is not wanted and all that is wanted runs or failed.
LEMMA StopsStop ==
  ASSUME ConfigInv, OnlyWanted, NEW i, Stops(i)
  PROVE  Goal!Stop(i)
<1>1. i \in jobs /\ i \in DOMAIN targets /\ targets[i] \notin wanted /\ rpc = "remove"
  BY DEF Stops, OnlyWanted, ConfigInv, StateRuns, EntriesRun
<1>2. wanted \ failed \subseteq Goal!Running
  BY <1>1 DEF ConfigInv, StateRuns, EntriesRun, Values, Drop, Goal!Running
<1> QED
  BY <1>1, <1>2 DEF Stops, Drop, entryVars, loopVars, Goal!Stop

\* At the end of a reload each wanted entry that did not fail has its one target.
LEMMA FinishFinishes ==
  ASSUME ConfigInv, Finish
  PROVE  Goal!Finished
<1>1. state = targets /\ Values(state) = wanted \ failed
  BY StateIsTargets DEF Finish, ConfigInv, EntriesRun
<1>2. Goal!Running = wanted \ failed
  BY <1>1 DEF Goal!Running, Values
<1>3. \A i, j \in DOMAIN targets : targets[i] = targets[j] => i = j
  BY <1>1 DEF ConfigInv, StateRuns
<1> QED
  BY <1>2, <1>3 DEF Finish, Goal!Finished, targetVars, entryVars, loopVars

LEMMA ReloadReconciles ==
  ASSUME ConfigInv, OnlyWanted, [Next]_vars
  PROVE  [Goal!ReconcileNext]_(Goal!reconcileVars)
<1>1. ASSUME UNCHANGED <<rpc, wanted, failed, targets>>
      PROVE  UNCHANGED Goal!reconcileVars
  BY <1>1 DEF Goal!reconcileVars
<1>2. CASE Reload
  BY <1>2 DEF Reload, Goal!ReconcileNext, Goal!Ask
<1>3. ASSUME NEW s, CreateTarget(s)
      PROVE  Goal!ReconcileNext \/ UNCHANGED Goal!reconcileVars
  <2>1. CASE Goal!Start(s) \/ Goal!Fail(s)
    BY <2>1 DEF Goal!ReconcileNext, Goal!Start, Goal!Fail
  <2> QED
    BY <1>1, <1>3, <2>1, CreateStarts
<1>4. ASSUME NEW i, Stops(i)
      PROVE  Goal!ReconcileNext
  <2>1. Goal!Stop(i)
    BY <1>4, StopsStop
  <2> QED
    BY <2>1 DEF Goal!ReconcileNext, Goal!Stop
<1>5. CASE Finish
  BY <1>5, FinishFinishes DEF Goal!ReconcileNext
<1>6. CASE Created \/ Sweep
  <2>1. UNCHANGED <<wanted, failed, targets>> /\ rpc # "idle" /\ rpc' # "idle"
    BY <1>6 DEF Created, Sweep, targetVars, entryVars, loopVars
  <2> QED
    BY <2>1 DEF Goal!reconcileVars
<1>7. ASSUME NEW x, AddDomain(x) \/ RemoveDomain(x) \/ TakeOut(x)
      PROVE  UNCHANGED <<rpc, wanted, failed, targets>>
  BY <1>7 DEF AddDomain, RemoveDomain, TakeOut, targetVars, entryVars, loopVars
<1>8. CASE BeginLookup \/ EndLookup \/ UNCHANGED vars
  BY <1>1, <1>8 DEF BeginLookup, EndLookup, vars, targetVars, entryVars, loopVars
<1> QED
  BY <1>1, <1>2, <1>3, <1>4, <1>5, <1>6, <1>7, <1>8 DEF Next, ReloadStep, Destroy

\* A reload does what Reconcile promises: what is new runs, or has failed, before
\* what is old is stopped, all else is left alone, and it ends with one target for
\* each entry that has not failed (reloadWith, Targets.Create, Destroy).
THEOREM ReloadImplementsReconcile == Spec => ImplementsReconcile
<1>1. Init => Goal!ReconcileInit /\ OnlyWanted
  BY DEF Init, Empty, Goal!ReconcileInit, OnlyWanted
<1>2. ConfigInv /\ OnlyWanted /\ [Next]_vars => OnlyWanted'
  BY OnlyWantedNext
<1>3. ConfigInv /\ OnlyWanted /\ [Next]_vars => [Goal!ReconcileNext]_(Goal!reconcileVars)
  BY ReloadReconciles
<1> QED
  BY <1>1, <1>2, <1>3, ConfigInvariant, PTL DEF Spec, ImplementsReconcile, Goal!ReconcileSpec
=============================================================================
