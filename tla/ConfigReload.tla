---------------------------- MODULE ConfigReload ----------------------------
(***************************************************************************)
(* POST /v1/reload: what Runner (go/pkg/config/runner.go) does to the       *)
(* running Targets (go/pkg/target/target.go) and to the served Domains      *)
(* (go/pkg/initiator/domains.go).  Reload holds r.mu from beginning to end; *)
(* its visits to the two tables are single steps under t.mu and d.mu,       *)
(* between which other requests look domains up.  The targets it drops are  *)
(* stopped by goroutines that it waits for.                                 *)
(*                                                                          *)
(* A configuration is what the files say: subscriptions [url, flow, node],  *)
(* url being the local domain, and domain mappings name -> [url, node].     *)
(* node stands for all that an entry may leave open and inherit (node,      *)
(* provider, labels): Unset is resolved by Normalize.  A configuration that *)
(* is rejected changes nothing and is left out.                             *)
(*                                                                          *)
(* One entry may fail, by its url or since no id can be made for it: that is *)
(* logged, and the reload goes on and answers ok.                           *)
(***************************************************************************)
EXTENDS Integers, FiniteSets

CONSTANTS Configs,    \* the configurations that a reload may find
          First,      \* the one at the start of the proxy
          Unset, Default,
          Unparsable, \* urls that url.Parse rejects (for a subscription: that of
                      \* the local or of the remote domain)
          Foreign,    \* urls with another scheme than mxl
          MaxReloads, \* bound: reloads
          MaxFails    \* bound: calls of NewCookie that fail

ASSUME ConfigReloadOK == First \in Configs /\ MaxReloads \in Nat /\ MaxFails \in Nat

VARIABLES rpc,        \* Reload: "idle", or the loop of reloadWith it is in
          next,       \* the configuration being applied, or applied last
          current,    \* history: the configuration applied before
          wanted,     \* uniqueSubscriptions
          todo,       \* what the loop has not visited
          state,      \* r.state.subs: target id -> subscription, but for the next
          nameless,   \* r.state.subs[""]: no or one subscription
          failed,     \* history: the wanted subscriptions that got no target when
                      \* that was tried last
          dstate,     \* r.state.domains: domain id -> [name, url, node]
          targets,    \* targets that have not ended: id -> subscription
          table,      \* ids in t.targets
          domains,    \* d.domains: id -> [name, url, node]
          unserved,   \* history: the urls whose last Add failed
          jobs,       \* ids that a destroy job has not finished with
          reader,     \* a Domains.ServeHTTP is going through d.domains
          fatal,      \* the runtime has found a concurrent map access
          issued,     \* ids given out
          fails,      \* ids that could not be made
          reloads

entryVars  == <<state, nameless, failed>>
targetVars == <<entryVars, targets, table, jobs>>
domainVars == <<dstate, domains, unserved, fatal>>
idVars     == <<issued, fails>>
loopVars   == <<next, current, wanted, reloads>>
vars       == <<rpc, todo, targetVars, domainVars, loopVars, reader, idVars>>

Empty == [i \in {} |-> 0]
Put(r, i, v) == [j \in DOMAIN r \cup {i} |-> IF j = i THEN v ELSE r[j]]
Drop(r, ids) == [j \in DOMAIN r \ ids |-> r[j]]
Values(r) == {r[i] : i \in DOMAIN r}

-----------------------------------------------------------------------------
(* Normalize.                                                               *)

\* resolveNode and its like: of the mappings with this url the range over the
\* map meets one first, and that one decides.
Resolved(c, url) ==
  LET nodes == {c.domains[n].node : n \in {m \in DOMAIN c.domains : c.domains[m].url = url}}
  IN  {IF v = Unset THEN Default ELSE v : v \in IF nodes = {} THEN {Unset} ELSE nodes}

\* What an entry may become.
Possible(c, s) ==
  IF s.node # Unset THEN {s} ELSE {[s EXCEPT !.node = v] : v \in Resolved(c, s.url)}

\* One outcome for every entry; equal outcomes are one.
Normalized(c) ==
  {{pick[s] : s \in c.subs} :
     pick \in {p \in [c.subs -> UNION {Possible(c, s) : s \in c.subs}] :
                 \A s \in c.subs : p[s] \in Possible(c, s)}}

\* normalizeDomains.
Mapping(c, n) ==
  [name |-> n, url |-> c.domains[n].url,
   node |-> IF c.domains[n].node = Unset THEN Default ELSE c.domains[n].node]

Init ==
  /\ rpc = "create" /\ next = First /\ current = [subs |-> {}, domains |-> Empty]
  /\ wanted \in Normalized(First) /\ todo = wanted
  /\ state = Empty /\ nameless = {} /\ failed = {} /\ dstate = Empty
  /\ targets = Empty /\ table = {} /\ domains = Empty /\ unserved = {}
  /\ jobs = {}
  /\ reader = FALSE /\ fatal = FALSE
  /\ issued = 0 /\ fails = 0 /\ reloads = 0

-----------------------------------------------------------------------------
(* Reload and reloadWith.                                                   *)

Reload ==
  /\ rpc = "idle" /\ reloads < MaxReloads /\ reloads' = reloads + 1
  /\ \E c \in Configs :
       /\ next' = c /\ current' = next
       /\ wanted' \in Normalized(c) /\ todo' = wanted'
  /\ rpc' = "create"
  /\ failed' = failed \cap wanted'
  /\ UNCHANGED <<state, nameless, targets, table, jobs, domainVars, reader, idVars>>

\* Mutant: the pointers to sched_prio are compared.
SameSubPointers(s, t) == FALSE

\* Subscription.Equal, of normalized subscriptions.
SameSub(s, t) == s = t

\* DomainMapping.Equal looks at nothing but the url.
SameDomain(d, e) == d.url = e.url

\* The entry has a target, or is the one that is stored under the empty id.
Known(s) == \E t \in Values(state) \cup nameless : SameSub(s, t)

\* NewCookie gives out an id, or fails.
NewId    == issued' = issued + 1 /\ UNCHANGED fails
NoCookie == fails < MaxFails /\ fails' = fails + 1 /\ UNCHANGED issued

\* Targets.Create.
Create(s) ==
  /\ NewId
  /\ state' = Put(state, issued', s) /\ targets' = Put(targets, issued', s)
  /\ table' = table \cup {issued'}
  /\ failed' = failed \ {s} /\ UNCHANGED nameless

\* Mutant: a subscription that runs already is started again.
CreateTargetAlways(s) ==
  /\ rpc = "create" /\ s \in todo
  /\ todo' = todo \ {s}
  /\ Create(s)
  /\ UNCHANGED <<rpc, jobs, domainVars, loopVars, reader>>

\* An entry that has no target gets one, unless ToTargetConfig fails, or Create:
\* then it is stored under the empty id, in place of another one.
CreateTarget(s) ==
  /\ rpc = "create" /\ s \in todo
  /\ todo' = todo \ {s}
  /\ \/ Known(s) /\ UNCHANGED <<entryVars, targets, table, idVars>>
     \/ /\ ~Known(s) /\ s.url \in Unparsable
        /\ failed' = failed \cup {s}
        /\ UNCHANGED <<state, nameless, targets, table, idVars>>
     \/ /\ ~Known(s) /\ s.url \notin Unparsable
        /\ NoCookie
        /\ nameless' = {s} /\ failed' = failed \cup {s}
        /\ UNCHANGED <<state, targets, table>>
     \/ ~Known(s) /\ s.url \notin Unparsable /\ Create(s)
  /\ UNCHANGED <<rpc, jobs, domainVars, loopVars, reader>>

Created ==
  /\ rpc = "create" /\ todo = {}
  /\ rpc' = "add" /\ todo' = {Mapping(next, n) : n \in DOMAIN next.domains}
  /\ UNCHANGED <<targetVars, domainVars, loopVars, reader, idVars>>

\* A write to d.domains while ServeHTTP ranges over it without d.mu: the
\* runtime may end the process.
Race == fatal' \in (IF reader THEN BOOLEAN ELSE {FALSE})

\* A mapping with a new url is added, unless Domains.Add fails: it is skipped then.
AddDomain(d) ==
  /\ rpc = "add" /\ d \in todo
  /\ todo' = todo \ {d}
  /\ LET known  == \E e \in Values(dstate) : SameDomain(e, d)
         parsed == d.url \notin Unparsable \cup Foreign
     IN  \/ known /\ UNCHANGED <<domainVars, idVars>>
         \/ /\ ~known /\ (IF parsed THEN NoCookie ELSE UNCHANGED idVars)
            /\ unserved' = unserved \cup {d.url}
            /\ UNCHANGED <<dstate, domains, fatal>>
         \/ /\ ~known /\ parsed /\ NewId
            /\ dstate' = Put(dstate, issued', d) /\ domains' = Put(domains, issued', d)
            /\ unserved' = unserved \ {d.url}
            /\ Race
  /\ UNCHANGED <<rpc, targetVars, loopVars, reader>>

\* Every target whose subscription is not wanted any more gets a destroy job;
\* Destroy("") finds no target.
Sweep ==
  /\ rpc = "add" /\ todo = {}
  /\ LET gone == {i \in DOMAIN state : ~\E s \in wanted : SameSub(s, state[i])}
     IN  state' = Drop(state, gone) /\ jobs' = jobs \cup gone
  /\ nameless' = {t \in nameless : \E s \in wanted : SameSub(s, t)}
  /\ rpc' = "remove" /\ todo' = DOMAIN dstate
  /\ UNCHANGED <<failed, targets, table, domainVars, loopVars, reader, idVars>>

\* Mutant: a mapping whose node has changed is taken for a removed one.
RemoveDomainChanged(i) ==
  /\ rpc = "remove" /\ i \in todo
  /\ todo' = todo \ {i}
  /\ IF \E n \in DOMAIN next.domains : dstate[i] = Mapping(next, n)
       THEN UNCHANGED <<dstate, domains, fatal>>
       ELSE dstate' = Drop(dstate, {i}) /\ domains' = Drop(domains, {i}) /\ Race
  /\ UNCHANGED <<rpc, unserved, targetVars, loopVars, reader, idVars>>

RemoveDomain(i) ==
  /\ rpc = "remove" /\ i \in todo
  /\ todo' = todo \ {i}
  /\ IF \E n \in DOMAIN next.domains : SameDomain(dstate[i], next.domains[n])
       THEN UNCHANGED <<dstate, domains, fatal>>
       ELSE dstate' = Drop(dstate, {i}) /\ domains' = Drop(domains, {i}) /\ Race
  /\ UNCHANGED <<rpc, unserved, targetVars, loopVars, reader, idVars>>

\* destroyJobs.Wait, and r.mu is released.
Finish ==
  /\ rpc = "remove" /\ todo = {} /\ jobs = {}
  /\ rpc' = "idle"
  /\ UNCHANGED <<todo, targetVars, domainVars, loopVars, reader, idVars>>

-----------------------------------------------------------------------------
(* Targets.Destroy, and lookups by remote targets.                          *)

TakeOut(i) ==
  /\ i \in jobs \cap table
  /\ table' = table \ {i}
  /\ UNCHANGED <<rpc, todo, entryVars, targets, jobs, domainVars, loopVars, reader, idVars>>

\* Stop returns: the target has ended (see Target).  It need not ever return.
Stops(i) ==
  /\ i \in jobs \ table
  /\ targets' = Drop(targets, {i}) /\ jobs' = jobs \ {i}
  /\ UNCHANGED <<rpc, todo, entryVars, table, domainVars, loopVars, reader, idVars>>

\* GET /v1/flows ranges over d.domains without d.mu.
BeginLookup ==
  /\ ~reader /\ reader' = TRUE
  /\ UNCHANGED <<rpc, todo, targetVars, domainVars, loopVars, idVars>>

EndLookup ==
  /\ reader /\ reader' = FALSE
  /\ UNCHANGED <<rpc, todo, targetVars, domainVars, loopVars, idVars>>

Destroy == \E i \in jobs : TakeOut(i) \/ Stops(i)

ReloadStep == (\E x \in todo : CreateTarget(x) \/ AddDomain(x) \/ RemoveDomain(x))
                \/ Created \/ Sweep \/ Finish

Next == ~fatal /\ (Reload \/ ReloadStep \/ Destroy \/ BeginLookup \/ EndLookup)

Spec == Init /\ [][Next]_vars

-----------------------------------------------------------------------------
(* Properties.                                                              *)

\* When no reload is under way the proxy runs one target for every subscription
\* of the configuration applied last and no other target, not even one that is
\* still stopping.  An entry may be without a target only when making it failed,
\* and as long as ids can be made that is for the sake of its url alone.
RunsConfigured ==
  rpc = "idle" =>
    /\ Values(targets) = wanted \ failed
    /\ \A i, j \in DOMAIN targets : targets[i] = targets[j] => i = j
    /\ table = DOMAIN targets /\ state = targets
    /\ fails = 0 => \A s \in failed : s.url \in Unparsable

\* A domain that both the old and the new configuration map can be looked up by
\* its url at every moment of the reload, unless Domains.Add failed for it.
KeepsServing ==
  /\ \A n \in DOMAIN next.domains, m \in DOMAIN current.domains :
       next.domains[n].url = current.domains[m].url =>
         \/ next.domains[n].url \in unserved
         \/ \E d \in Values(domains) : d.url = next.domains[n].url
  /\ fails = 0 => unserved \subseteq Unparsable \cup Foreign

\* A running target is stopped only when its entry in the configuration, or what
\* that entry inherits, has changed.
KeepsUnchanged ==
  [][\A i \in jobs' \ jobs : \A s \in current.subs \cap next.subs :
       Possible(current, s) = Possible(next, s) => targets[i] \notin Possible(next, s)]_vars

\* A reload does to the running targets what it promises (Reconcile) and no more:
\* what is new is started, or has failed, before what is old is stopped, and nothing
\* else is touched.
Goal == INSTANCE Reconcile WITH busy <- rpc # "idle", running <- targets
ImplementsReconcile == Goal!ReconcileSpec

-----------------------------------------------------------------------------
(* What README.md of the repository says and the code does not keep.  TLC   *)
(* finds each violated when it is added to the configuration of the module. *)

\* Two targets never write the same flow of the same local domain.
OneTargetPerFlow ==
  \A i, j \in DOMAIN targets :
    targets[i].url = targets[j].url /\ targets[i].flow = targets[j].flow => i = j

\* After a reload that is answered with ok every configured entry has a target.
AllRun == rpc = "idle" => wanted \subseteq Values(targets)

\* After a reload the proxy serves every mapping of the configuration, under its
\* name and with its node.
DomainsApplied ==
  rpc = "idle" => \A n \in DOMAIN next.domains : Mapping(next, n) \in Values(domains)

\* A reload does not end the process.
NoFatal == ~fatal
=============================================================================
