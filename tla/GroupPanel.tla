----------------------------- MODULE GroupPanel -------------------------------
(***************************************************************************)
(* The panel that shows a group (Group of routes/Groups.js, host "panel")  *)
(* and the page of one group (routes/Group.js, host "page"): the same      *)
(* fetchGroup, after which the page asks for the chain head.               *)
(*                                                                         *)
(* The effect on [groupKey] makes one closure of fetchGroup at a time      *)
(* live: its own `refreshing`, and the `group` it was rendered with.  A    *)
(* change of the key makes a new closure, but calls of the old one that    *)
(* are on their way still end in setGroup.  A version of a group stands    *)
(* for its row and its deals; ages are times since lastRefresh, counted up *)
(* to the largest threshold.  Fetch bounds the fetches on their way.       *)
(***************************************************************************)
EXTENDS Integers

CONSTANTS GroupKey, Fetch, MaxVersion,
          StateOf,      \* GroupState of each version of a group
          WritableAge, OtherAge, OffloadedAge  \* 500 ms, 10 s and 120 s

ASSUME KeyAssumption == GroupKey \subseteq Nat \ {0}
ASSUME VersionAssumption == MaxVersion \in Nat /\ StateOf \in [0..MaxVersion -> 0..5]
ASSUME AgeAssumption == /\ WritableAge \in Nat /\ OtherAge \in Nat /\ OffloadedAge \in Nat
                        /\ WritableAge <= OtherAge /\ OtherAge <= OffloadedAge

VARIABLES
  host,       \* what shows the group, or "none"
  key,        \* its groupKey, 0 when there is none
  shownKey, shownMeta, shownDeals, shownAge,  \* the state `group`; shownKey = 0: initial
  captured, capMeta, capAge,  \* `group` as the live closure sees it
  refreshing, \* of the live closure
  sole,       \* "yes": the live closure is the first since the mount
  failed,     \* "yes": a call of the live closure failed or hangs (history)
  stage, own, fkey, fmeta, fdeals,  \* of a fetch
  node        \* the version of each group at the node

shownVars == <<shownKey, shownMeta, shownDeals, shownAge>>
closureVars == <<captured, capMeta, capAge, refreshing, sole, failed>>
fetchVars == <<stage, own, fkey, fmeta, fdeals>>
panelVars == <<host, key, shownVars, closureVars, fetchVars, node>>

GroupStateWritable == 0
GroupStateOffloaded == 4

Init ==
  /\ host = "none" /\ key = 0
  /\ shownKey = 0 /\ shownMeta = 0 /\ shownDeals = 0 /\ shownAge = 0
  /\ captured = "no" /\ capMeta = 0 /\ capAge = 0
  /\ refreshing = "no" /\ sole = "yes" /\ failed = "no"
  /\ stage = [f \in Fetch |-> "free"] /\ own = [f \in Fetch |-> "old"]
  /\ fkey = [f \in Fetch |-> 0] /\ fmeta = [f \in Fetch |-> 0] /\ fdeals = [f \in Fetch |-> 0]
  /\ node \in [GroupKey -> {0, MaxVersion}]

-------------------------------------------------------------------------------
(* The early returns of fetchGroup on the captured group, and its calls:   *)
(* an early return leaves refreshing set.                                  *)
Throttled(has, v, age) ==
  /\ has = "yes"
  /\ \/ StateOf[v] = GroupStateWritable /\ age < WritableAge
     \/ StateOf[v] = GroupStateOffloaded /\ age < OffloadedAge
     \/ StateOf[v] # GroupStateWritable /\ age < OtherAge

StartFetch(f, k, owner) ==
  /\ stage[f] = "free"
  /\ stage' = [stage EXCEPT ![f] = "meta"]
  /\ own' = [owner EXCEPT ![f] = "live"]
  /\ fkey' = [fkey EXCEPT ![f] = k]
  /\ UNCHANGED <<fmeta, fdeals>>

(* The effect of a new closure for key k, which sees group version v of    *)
(* that age if has = "yes": the first call of its fetchGroup.              *)
RunEffect(k, has, v, age) ==
  /\ key' = k /\ failed' = "no"
  /\ captured' = has /\ capMeta' = v /\ capAge' = age
  /\ refreshing' = "yes"
  /\ LET old == [f \in Fetch |-> "old"] IN
     \/ /\ Throttled(has, v, age)
        /\ own' = old
        /\ UNCHANGED <<stage, fkey, fmeta, fdeals>>
     \/ /\ ~Throttled(has, v, age)
        /\ \E f \in Fetch : StartFetch(f, k, old)

(* A new component, in place of another or of none: it has no group yet,   *)
(* and the calls of the other one end without an effect.                   *)
FreshState ==
  /\ shownKey' = 0 /\ shownMeta' = 0 /\ shownDeals' = 0 /\ shownAge' = 0
  /\ captured' = "no" /\ capMeta' = 0 /\ capAge' = 0 /\ sole' = "yes" /\ failed' = "no"
  /\ fmeta' = [f \in Fetch |-> 0] /\ fdeals' = [f \in Fetch |-> 0]
  /\ node' = node

Mount(h, k) ==
  /\ host' = h /\ key' = k /\ refreshing' = "yes"
  /\ FreshState
  /\ \E f \in Fetch :
       /\ stage' = [g \in Fetch |-> IF g = f THEN "meta" ELSE "free"]
       /\ own' = [g \in Fetch |-> IF g = f THEN "live" ELSE "old"]
       /\ fkey' = [g \in Fetch |-> IF g = f THEN k ELSE 0]

(* The same component is rendered with another key.                        *)
KeyChange(k) ==
  /\ host # "none" /\ k # key
  /\ sole' = "no"
  /\ RunEffect(k, IF shownKey # 0 THEN "yes" ELSE "no", shownMeta, shownAge)
  /\ UNCHANGED <<host, shownVars, node>>

\* Mutant: the calls of a component that is gone still end in it.
UnmountKeeps ==
  /\ host # "none"
  /\ host' = "none" /\ key' = 0 /\ refreshing' = "no"
  /\ FreshState
  /\ UNCHANGED <<stage, own, fkey>>

Unmount ==
  /\ host # "none"
  /\ host' = "none" /\ key' = 0 /\ refreshing' = "no"
  /\ FreshState
  /\ stage' = [f \in Fetch |-> "free"] /\ own' = [f \in Fetch |-> "old"]
  /\ fkey' = [f \in Fetch |-> 0]

(* The interval of the live closure fires.                                 *)
\* Mutant: fetchGroup does not look at refreshing.
IntervalUnguarded ==
  /\ host # "none"
  /\ refreshing' = "yes"
  /\ \/ Throttled(captured, capMeta, capAge) /\ UNCHANGED fetchVars
     \/ /\ ~Throttled(captured, capMeta, capAge)
        /\ \E f \in Fetch : StartFetch(f, key, own)
  /\ UNCHANGED <<host, key, shownVars, captured, capMeta, capAge, sole, failed, node>>

\* Mutant: the interval is not set again for a new closure.
IntervalOnce ==
  /\ host # "none" /\ refreshing = "no" /\ sole = "yes"
  /\ refreshing' = "yes"
  /\ \/ Throttled(captured, capMeta, capAge) /\ UNCHANGED fetchVars
     \/ /\ ~Throttled(captured, capMeta, capAge)
        /\ \E f \in Fetch : StartFetch(f, key, own)
  /\ UNCHANGED <<host, key, shownVars, captured, capMeta, capAge, sole, failed, node>>

Interval ==
  /\ host # "none" /\ refreshing = "no"
  /\ refreshing' = "yes"
  /\ \/ Throttled(captured, capMeta, capAge) /\ UNCHANGED fetchVars
     \/ /\ ~Throttled(captured, capMeta, capAge)
        /\ \E f \in Fetch : StartFetch(f, key, own)
  /\ UNCHANGED <<host, key, shownVars, captured, capMeta, capAge, sole, failed, node>>

(* The node reads the row, then the deals; then both are shown.            *)
GroupMeta(f) ==
  /\ stage[f] = "meta"
  /\ stage' = [stage EXCEPT ![f] = "deals"]
  /\ fmeta' = [fmeta EXCEPT ![f] = node[fkey[f]]]
  /\ UNCHANGED <<host, key, shownVars, closureVars, own, fkey, fdeals, node>>

GroupDeals(f) ==
  /\ stage[f] = "deals"
  /\ stage' = [stage EXCEPT ![f] = "answer"]
  /\ fdeals' = [fdeals EXCEPT ![f] = node[fkey[f]]]
  /\ UNCHANGED <<host, key, shownVars, closureVars, own, fkey, fmeta, node>>

(* A fetch is over, or at its last call; nothing depends on its data then. *)
Ends(f, st) ==
  /\ stage' = [stage EXCEPT ![f] = st]
  /\ own' = [own EXCEPT ![f] = "old"]
  /\ fkey' = [fkey EXCEPT ![f] = 0]
  /\ fmeta' = [fmeta EXCEPT ![f] = 0] /\ fdeals' = [fdeals EXCEPT ![f] = 0]

\* Mutant: the answer is shown under the key of the panel.
SetGroupUnderKey(f) ==
  /\ stage[f] = "answer"
  /\ shownKey' = key /\ shownMeta' = fmeta[f] /\ shownDeals' = fdeals[f] /\ shownAge' = 0
  /\ refreshing' = IF own[f] = "live" THEN "no" ELSE refreshing
  /\ Ends(f, IF host = "page" THEN "head" ELSE "free")
  /\ UNCHANGED <<host, key, captured, capMeta, capAge, sole, failed, node>>

\* Mutant: refreshing is not reset.
SetGroupStays(f) ==
  /\ stage[f] = "answer"
  /\ shownKey' = fkey[f] /\ shownMeta' = fmeta[f] /\ shownDeals' = fdeals[f] /\ shownAge' = 0
  /\ refreshing' = refreshing
  /\ Ends(f, IF host = "page" THEN "head" ELSE "free")
  /\ UNCHANGED <<host, key, captured, capMeta, capAge, sole, failed, node>>

SetGroup(f) ==
  /\ stage[f] = "answer"
  /\ shownKey' = fkey[f] /\ shownMeta' = fmeta[f] /\ shownDeals' = fdeals[f] /\ shownAge' = 0
  /\ refreshing' = IF own[f] = "live" THEN "no" ELSE refreshing
  /\ Ends(f, IF host = "page" THEN "head" ELSE "free")
  /\ UNCHANGED <<host, key, captured, capMeta, capAge, sole, failed, node>>

(* The page's ChainHead ends, with an answer or an error.                  *)
ChainHead(f) ==
  /\ stage[f] = "head"
  /\ Ends(f, "free")
  /\ UNCHANGED <<host, key, shownVars, closureVars, node>>

(* A call fails, or its connection is lost and it never settles: the       *)
(* closure's refreshing stays set.                                         *)
FetchFails(f) ==
  /\ stage[f] \in {"meta", "deals"}
  /\ Ends(f, "free")
  /\ failed' = IF own[f] = "live" THEN "yes" ELSE failed
  /\ UNCHANGED <<host, key, shownVars, captured, capMeta, capAge, refreshing, sole, node>>

(* Time passes.                                                            *)
Older(age) == IF age < OffloadedAge THEN age + 1 ELSE age
Pass ==
  /\ shownAge' = Older(shownAge) /\ capAge' = Older(capAge)
  /\ UNCHANGED <<host, key, shownKey, shownMeta, shownDeals, captured, capMeta, refreshing,
                 sole, failed, fetchVars, node>>

(* The node writes to, seals, finalizes, offloads or reloads group k.      *)
NodeAdvances(k) ==
  /\ node[k] < MaxVersion
  /\ node' = [node EXCEPT ![k] = @ + 1]
  /\ UNCHANGED <<host, key, shownVars, closureVars, fetchVars>>

PanelStep ==
  \/ Interval \/ Pass
  \/ \E f \in Fetch : GroupMeta(f) \/ GroupDeals(f) \/ SetGroup(f) \/ ChainHead(f) \/ FetchFails(f)
  \/ \E k \in GroupKey : NodeAdvances(k)

Next ==
  \/ PanelStep \/ Unmount
  \/ \E k \in GroupKey : KeyChange(k) \/ \E h \in {"panel", "page"} : Mount(h, k)

Spec == Init /\ [][Next]_panelVars

(* The browser fires intervals, and the node answers or its call fails.    *)
PanelFairness ==
  /\ WF_panelVars(Interval)
  /\ \A f \in Fetch :
       WF_panelVars(GroupMeta(f) \/ GroupDeals(f) \/ SetGroup(f) \/ ChainHead(f) \/ FetchFails(f))

-------------------------------------------------------------------------------
Version == 0..MaxVersion
Busy == {"meta", "deals", "answer"}
PanelTypeOK ==
  /\ host \in {"none", "panel", "page"} /\ key \in GroupKey \cup {0}
  /\ shownKey \in GroupKey \cup {0} /\ shownMeta \in Version /\ shownDeals \in Version
  /\ shownAge \in 0..OffloadedAge /\ capAge \in 0..OffloadedAge
  /\ captured \in {"no", "yes"} /\ capMeta \in Version
  /\ refreshing \in {"no", "yes"} /\ sole \in {"no", "yes"} /\ failed \in {"no", "yes"}
  /\ stage \in [Fetch -> Busy \cup {"free", "head"}] /\ own \in [Fetch -> {"live", "old"}]
  /\ fkey \in [Fetch -> GroupKey \cup {0}]
  /\ fmeta \in [Fetch -> Version] /\ fdeals \in [Fetch -> Version]
  /\ node \in [GroupKey -> Version]

Live(f) == own[f] = "live" /\ stage[f] \in Busy
Stuck == host # "none" /\ refreshing = "yes" /\ \A f \in Fetch : ~Live(f)

(***************************************************************************)
(* What is shown belongs together: it is the group it is labelled with, at *)
(* a version the node has had, and its deals are not older than its row,   *)
(* so an offloaded group is shown with the deals it was offloaded for      *)
(* (fetchGroup: GroupMeta before GroupDeals, one setGroup for both).       *)
(***************************************************************************)
ShownTogether ==
  shownKey # 0 => shownMeta <= shownDeals /\ shownDeals <= node[shownKey]

(***************************************************************************)
(* A closure has at most one fetch on its way, whatever the interval, the  *)
(* answers and changes of the key do (refreshing, one per closure).        *)
(***************************************************************************)
OneFetch == \A f, g \in Fetch : Live(f) /\ Live(g) => f = g

(***************************************************************************)
(* A panel that never changed its key stops refreshing only after a call   *)
(* of its own failed; the early returns cannot stop it, which leave        *)
(* refreshing set too (fetchGroup).                                        *)
(***************************************************************************)
StuckAfterFailure == Stuck /\ sole = "yes" => failed = "yes"

(***************************************************************************)
(* While a panel keeps its key what it shows never goes back in time:      *)
(* there is no second fetch whose older answer could come later.           *)
(***************************************************************************)
NeverBack ==
  [][sole = "yes" /\ host' = host /\ shownKey' = shownKey
       => shownMeta' >= shownMeta /\ shownDeals' >= shownDeals]_panelVars

(* The inductive invariant behind these: refreshing covers the live fetch, *)
(* which is for the panel's key and, under a sole closure, is the only one *)
(* and saw nothing older than what is shown.                               *)
PanelInv ==
  /\ host = "none" => shownKey = 0 /\ \A f \in Fetch : stage[f] = "free"
  /\ host # "none" => key # 0
  /\ OneFetch
  /\ \A f \in Fetch :
       /\ stage[f] \in Busy => fkey[f] \in GroupKey
       /\ Live(f) => refreshing = "yes" /\ fkey[f] = key
       /\ stage[f] \in {"deals", "answer"} => fmeta[f] <= node[fkey[f]]
       /\ stage[f] = "answer" => fmeta[f] <= fdeals[f] /\ fdeals[f] <= node[fkey[f]]
       /\ sole = "yes" /\ stage[f] \in Busy =>
            /\ own[f] = "live"
            /\ stage[f] \in {"deals", "answer"} /\ shownKey # 0 =>
                 /\ shownMeta <= fmeta[f]
                 /\ stage[f] = "answer" => shownDeals <= fdeals[f]
  /\ sole = "yes" => captured = "no" /\ (shownKey # 0 => shownKey = key)
  /\ shownKey = 0 => shownMeta = 0 /\ shownDeals = 0
  /\ ShownTogether
  /\ StuckAfterFailure

(***************************************************************************)
(* A comment of fetchGroup: offloaded groups are fetched at most every     *)
(* 120 s.  The closure that fetches still sees the group it was rendered   *)
(* with, so this is not what happens.                                      *)
(***************************************************************************)
OffloadedThrottled ==
  [][\A f \in Fetch :
       stage[f] = "free" /\ stage'[f] = "meta" /\ shownKey = fkey'[f]
         /\ StateOf[shownMeta] = GroupStateOffloaded
       => shownAge >= OffloadedAge]_panelVars

(***************************************************************************)
(* A panel that stays mounted, whose key no longer changes and that is not *)
(* stuck comes to show its group as the node has it and keeps showing it,  *)
(* also when calls made for an earlier key are answered late (useEffect on *)
(* [groupKey]).                                                            *)
(***************************************************************************)
Remounts == \E h \in {"panel", "page"}, k \in GroupKey : Mount(h, k)
Freshens ==
  \A k \in GroupKey :
    <>[](key = k /\ ~Stuck) /\ <>[][~Remounts]_panelVars
      => <>[](shownKey = k /\ shownMeta = node[k] /\ shownDeals = node[k])
===============================================================================
