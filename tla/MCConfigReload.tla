-------------------------- MODULE MCConfigReload --------------------------
(* Instances of ConfigReload for TLC: configurations of up to three         *)
(* subscriptions in three local domains, one of which has a url that is none.*)
EXTENDS ConfigReload

CONSTANTS n1, n2, dA, dB, dBad, dHttp, f1, f2, none, default, x, y

Sub(url, flow, node)  == [url |-> url, flow |-> flow, node |-> node]
To(url, node)         == [url |-> url, node |-> node]
Two(first, second)    == [n \in {n1, n2} |-> IF n = n1 THEN first ELSE second]

Start == [subs    |-> {Sub(dA, f1, none), Sub(dB, f1, x)},
          domains |-> Two(To(dA, x), To(dB, none))]

\* An added, a removed and a changed subscription; an inherited node that
\* changes; a domain that is removed, renamed or comes back; urls that are
\* rejected, of a subscription and of a mapping.
MCConfigs ==
  {Start,
   [subs    |-> {Sub(dA, f1, none), Sub(dA, f2, none)},
    domains |-> Two(To(dA, x), To(dB, none))],
   [subs    |-> {Sub(dA, f1, none), Sub(dB, f1, y)},
    domains |-> Two(To(dA, y), To(dB, x))],
   [subs    |-> {Sub(dB, f1, x), Sub(dBad, f1, x)},
    domains |-> Two(To(dB, none), To(dHttp, none))],
   [subs    |-> {},
    domains |-> Two(To(dBad, x), To(dA, x))]}

\* Two names for one domain, with a node each.
MCShared == {[subs |-> {Sub(dA, f1, none)},
              domains |-> Two(To(dA, x), To(dA, y))]}

MCUnparsable  == {dBad}
MCForeign     == {dHttp}
MCFirst       == Start
MCSharedFirst == CHOOSE c \in MCShared : TRUE
=============================================================================
