--------------------------- MODULE GroupPanelProofs ---------------------------
(***************************************************************************)
(* What holds of GroupPanel for any groups, versions, thresholds and any   *)
(* number of fetches on their way: the inductive invariant PanelInv, and   *)
(* with it what the panel shows and when it stops refreshing.              *)
(***************************************************************************)
EXTENDS GroupPanel, TLAPS

USE KeyAssumption, VersionAssumption, AgeAssumption
  DEF KeyAssumption, VersionAssumption, AgeAssumption

(* PanelInv in parts: of one fetch, of the panel, and of both.             *)
FetchOK(f) ==
  /\ stage[f] \in Busy => fkey[f] \in GroupKey
  /\ Live(f) => refreshing = "yes" /\ fkey[f] = key
  /\ stage[f] \in {"deals", "answer"} => fmeta[f] <= node[fkey[f]]
  /\ stage[f] = "answer" => fmeta[f] <= fdeals[f] /\ fdeals[f] <= node[fkey[f]]
  /\ sole = "yes" /\ stage[f] \in Busy => own[f] = "live"
  /\ sole = "yes" /\ stage[f] \in {"deals", "answer"} /\ shownKey # 0 => shownMeta <= fmeta[f]
  /\ sole = "yes" /\ stage[f] = "answer" /\ shownKey # 0 => shownDeals <= fdeals[f]

Shown ==
  /\ host = "none" => shownKey = 0
  /\ host # "none" => key # 0
  /\ sole = "yes" => captured = "no" /\ (shownKey # 0 => shownKey = key)
  /\ shownKey = 0 => shownMeta = 0 /\ shownDeals = 0
  /\ ShownTogether

Fetches ==
  /\ \A f \in Fetch : FetchOK(f)
  /\ host = "none" => \A f \in Fetch : stage[f] = "free"
  /\ OneFetch
  /\ StuckAfterFailure

Inv == PanelTypeOK /\ Shown /\ Fetches

LEMMA InvParts == Inv <=> PanelTypeOK /\ PanelInv
<1>1. Shown /\ Fetches => PanelInv
  BY DEF Shown, Fetches, FetchOK, PanelInv, Busy
<1>2. PanelInv => Shown /\ Fetches
  <2> SUFFICES ASSUME PanelInv PROVE Shown /\ Fetches
    OBVIOUS
  <2>1. Shown
    BY DEF Shown, PanelInv
  <2>2. ASSUME NEW f \in Fetch PROVE FetchOK(f)
    BY DEF FetchOK, PanelInv, Busy
  <2> QED BY <2>1, <2>2 DEF Fetches, PanelInv
<1> QED BY <1>1, <1>2 DEF Inv

LEMMA InitInv == Init => Inv
<1> SUFFICES ASSUME Init PROVE Inv
  OBVIOUS
<1>1. PanelTypeOK
  BY DEF Init, PanelTypeOK, Version, Busy
<1>2. Shown
  BY DEF Init, Shown, ShownTogether
<1>3. \A f \in Fetch : stage[f] = "free"
  BY DEF Init
<1>4. Fetches
  BY <1>3 DEF Init, Fetches, FetchOK, OneFetch, Live, Busy, StuckAfterFailure, Stuck
<1> QED BY <1>1, <1>2, <1>4 DEF Inv

(* What a fetch that is over, or at its last call, needs.                  *)
LEMMA IdleOK ==
  ASSUME NEW f \in Fetch, stage[f] \notin Busy
  PROVE  FetchOK(f) /\ ~Live(f)
BY DEF FetchOK, Live, Busy

LEMMA IdleNextOK ==
  ASSUME NEW f \in Fetch, stage'[f] \notin Busy
  PROVE  FetchOK(f)' /\ ~Live(f)'
BY DEF FetchOK, Live, Busy

(* A step that leaves a fetch alone, and what its panel shows.             *)
LEMMA OtherOK ==
  ASSUME Inv, NEW g \in Fetch, FetchOK(g),
         stage'[g] = stage[g], own'[g] = own[g], fkey'[g] = fkey[g], fmeta'[g] = fmeta[g],
         fdeals'[g] = fdeals[g], UNCHANGED <<key, shownKey, shownMeta, shownDeals, sole>>,
         Live(g) => refreshing' = "yes",
         \A k \in GroupKey : node[k] <= node'[k] /\ node'[k] \in Nat
  PROVE  FetchOK(g)' /\ (Live(g)' <=> Live(g))
<1>1. \A k \in GroupKey : node[k] \in Nat
  BY DEF Inv, PanelTypeOK, Version
<1>2. fmeta[g] \in Nat /\ fdeals[g] \in Nat
  BY DEF Inv, PanelTypeOK, Version
<1>3. Live(g)' <=> Live(g)
  BY DEF Live
<1>4. ASSUME stage[g] \in {"deals", "answer"}
      PROVE  fmeta[g] <= node'[fkey[g]] /\ (fdeals[g] <= node[fkey[g]] => fdeals[g] <= node'[fkey[g]])
  <2>1. fkey[g] \in GroupKey /\ fmeta[g] <= node[fkey[g]]
    BY <1>4 DEF FetchOK, Busy
  <2>2. node[fkey[g]] <= node'[fkey[g]] /\ node'[fkey[g]] \in Nat /\ node[fkey[g]] \in Nat
    BY <1>1, <2>1
  <2> QED BY <1>2, <2>1, <2>2
<1>5. stage[g] = "answer" => fdeals[g] <= node'[fkey[g]]
  BY <1>4 DEF FetchOK
<1> QED BY <1>3, <1>4, <1>5 DEF FetchOK

-------------------------------------------------------------------------------
(* The component comes and goes.                                           *)
LEMMA FreshKeeps ==
  ASSUME Inv, FreshState, host' = "none" <=> \A f \in Fetch : stage'[f] = "free",
         host' # "none" => key' # 0
  PROVE  Shown'
BY DEF FreshState, Shown, ShownTogether

LEMMA MountKeeps ==
  ASSUME Inv, NEW h \in {"panel", "page"}, NEW k \in GroupKey, Mount(h, k)
  PROVE  Inv'
<1>1. PICK f \in Fetch :
        /\ stage' = [g \in Fetch |-> IF g = f THEN "meta" ELSE "free"]
        /\ own' = [g \in Fetch |-> IF g = f THEN "live" ELSE "old"]
        /\ fkey' = [g \in Fetch |-> IF g = f THEN k ELSE 0]
  BY DEF Mount
<1>2. /\ host' = h /\ key' = k /\ refreshing' = "yes" /\ k # 0 /\ h # "none"
      /\ sole' = "yes" /\ failed' = "no" /\ shownKey' = 0
  BY DEF Mount, FreshState
<1>3. PanelTypeOK'
  <2>1. stage' \in [Fetch -> Busy \cup {"free", "head"}] /\ own' \in [Fetch -> {"live", "old"}]
        /\ fkey' \in [Fetch -> GroupKey \cup {0}]
    BY <1>1 DEF Busy
  <2>2. fmeta' \in [Fetch -> Version] /\ fdeals' \in [Fetch -> Version] /\ node' \in [GroupKey -> Version]
    BY DEF Mount, FreshState, Version, Inv, PanelTypeOK
  <2> QED BY <1>2, <2>1, <2>2 DEF Mount, FreshState, PanelTypeOK, Version
<1>4. Shown'
  BY <1>2 DEF Mount, FreshState, Shown, ShownTogether
<1>5. ASSUME NEW g \in Fetch PROVE FetchOK(g)' /\ (Live(g)' <=> g = f)
  <2>1. CASE g = f
    BY <1>1, <1>2, <2>1 DEF FetchOK, Live, Busy
  <2>2. CASE g # f
    BY <1>1, <2>2, IdleNextOK DEF Busy
  <2> QED BY <2>1, <2>2
<1>6. Fetches'
  BY <1>2, <1>5 DEF Fetches, OneFetch, StuckAfterFailure, Stuck
<1> QED BY <1>3, <1>4, <1>6 DEF Inv

LEMMA UnmountKeeps_ ==
  ASSUME Inv, Unmount
  PROVE  Inv'
<1>1. stage' = [f \in Fetch |-> "free"] /\ own' = [f \in Fetch |-> "old"]
      /\ fkey' = [f \in Fetch |-> 0] /\ host' = "none" /\ key' = 0 /\ refreshing' = "no"
  BY DEF Unmount
<1>2. PanelTypeOK'
  <2>1. stage' \in [Fetch -> Busy \cup {"free", "head"}] /\ own' \in [Fetch -> {"live", "old"}]
        /\ fkey' \in [Fetch -> GroupKey \cup {0}]
    BY <1>1
  <2>2. fmeta' \in [Fetch -> Version] /\ fdeals' \in [Fetch -> Version] /\ node' \in [GroupKey -> Version]
    BY DEF Unmount, FreshState, Version, Inv, PanelTypeOK
  <2> QED BY <1>1, <2>1, <2>2 DEF Unmount, FreshState, PanelTypeOK, Version
<1>3. Shown'
  BY <1>1 DEF Unmount, FreshState, Shown, ShownTogether
<1>4. ASSUME NEW g \in Fetch PROVE FetchOK(g)' /\ ~Live(g)' /\ stage'[g] = "free"
  BY <1>1, IdleNextOK DEF Busy
<1>5. Fetches'
  BY <1>1, <1>4 DEF Fetches, OneFetch, StuckAfterFailure, Stuck
<1> QED BY <1>2, <1>3, <1>5 DEF Inv

LEMMA KeyChangeKeeps ==
  ASSUME Inv, NEW k \in GroupKey, KeyChange(k)
  PROVE  Inv'
<1>1. /\ UNCHANGED <<host, shownKey, shownMeta, shownDeals, shownAge, node>> /\ host # "none"
      /\ key' = k /\ k # 0 /\ sole' = "no" /\ failed' = "no" /\ refreshing' = "yes"
      /\ captured' \in {"no", "yes"} /\ capMeta' = shownMeta /\ capAge' = shownAge
      /\ UNCHANGED <<fmeta, fdeals>>
  BY DEF KeyChange, RunEffect, shownVars, StartFetch
<1> DEFINE old == [f \in Fetch |-> "old"]
<1>a. \/ stage' = stage /\ own' = old /\ fkey' = fkey
      \/ \E f \in Fetch : /\ stage' = [stage EXCEPT ![f] = "meta"]
                          /\ own' = [old EXCEPT ![f] = "live"]
                          /\ fkey' = [fkey EXCEPT ![f] = k]
  BY DEF KeyChange, RunEffect, StartFetch
<1>b. /\ stage \in [Fetch -> Busy \cup {"free", "head"}] /\ fkey \in [Fetch -> GroupKey \cup {0}]
      /\ "meta" \in Busy
  BY DEF Inv, PanelTypeOK, Busy
<1>2. ASSUME NEW g \in Fetch
      PROVE  \/ stage'[g] = stage[g] /\ own'[g] = "old" /\ fkey'[g] = fkey[g]
             \/ stage'[g] = "meta" /\ own'[g] = "live" /\ fkey'[g] = k
  BY <1>a, <1>b
<1>3. /\ stage' \in [Fetch -> Busy \cup {"free", "head"}] /\ own' \in [Fetch -> {"live", "old"}]
      /\ fkey' \in [Fetch -> GroupKey \cup {0}]
  BY <1>a, <1>b
<1>4. PanelTypeOK'
  BY <1>1, <1>3 DEF Inv, PanelTypeOK
<1>5. Shown'
  BY <1>1 DEF Inv, Shown, ShownTogether
<1>6. ASSUME NEW g \in Fetch PROVE FetchOK(g)'
  <2>1. CASE stage'[g] = stage[g] /\ own'[g] = "old" /\ fkey'[g] = fkey[g]
    BY <1>1, <2>1 DEF Inv, Fetches, FetchOK, Live
  <2>2. CASE stage'[g] = "meta" /\ own'[g] = "live" /\ fkey'[g] = k
    BY <1>1, <2>2 DEF FetchOK, Busy
  <2> QED BY <1>2, <2>1, <2>2
<1>7. OneFetch'
  BY <1>a, <1>b DEF OneFetch, Live
<1>8. Fetches'
  BY <1>1, <1>6, <1>7 DEF Fetches, StuckAfterFailure
<1> QED BY <1>4, <1>5, <1>8 DEF Inv

-------------------------------------------------------------------------------
(* The interval and time.                                                  *)
LEMMA IntervalKeeps ==
  ASSUME Inv, Interval
  PROVE  Inv'
<1>1. /\ UNCHANGED <<host, key, shownKey, shownMeta, shownDeals, shownAge, captured, capMeta,
                     capAge, sole, failed, node>>
      /\ host # "none" /\ refreshing = "no" /\ refreshing' = "yes"
  BY DEF Interval, shownVars
<1>2. key \in GroupKey
  BY <1>1 DEF Inv, Shown, PanelTypeOK
<1>3. \A k \in GroupKey : node[k] <= node'[k] /\ node'[k] \in Nat
  BY <1>1 DEF Inv, PanelTypeOK, Version
<1>4. Shown'
  BY <1>1 DEF Inv, Shown, ShownTogether
<1>5. \A g \in Fetch : FetchOK(g) /\ ~Live(g)
  BY <1>1 DEF Inv, Fetches, FetchOK
<1>6. CASE Throttled(captured, capMeta, capAge) /\ UNCHANGED fetchVars
  <2>1. UNCHANGED <<stage, own, fkey, fmeta, fdeals>>
    BY <1>6 DEF fetchVars
  <2>2. PanelTypeOK'
    BY <1>1, <2>1 DEF Inv, PanelTypeOK
  <2>3. \A g \in Fetch : FetchOK(g)' /\ ~Live(g)'
    BY <1>1, <1>3, <1>5, <2>1, OtherOK
  <2>4. sole # "yes"
    BY <1>6 DEF Throttled, Inv, Shown
  <2>5. Fetches'
    BY <1>1, <2>3, <2>4 DEF Fetches, OneFetch, StuckAfterFailure
  <2> QED BY <1>4, <2>2, <2>5 DEF Inv
<1>7. CASE \E f \in Fetch : StartFetch(f, key, own)
  <2>1. PICK f \in Fetch : StartFetch(f, key, own)
    BY <1>7
  <2>2. /\ stage' = [stage EXCEPT ![f] = "meta"] /\ own' = [own EXCEPT ![f] = "live"]
        /\ fkey' = [fkey EXCEPT ![f] = key] /\ UNCHANGED <<fmeta, fdeals>>
    BY <2>1 DEF StartFetch
  <2>3. PanelTypeOK'
    <3>1. /\ stage' \in [Fetch -> Busy \cup {"free", "head"}] /\ own' \in [Fetch -> {"live", "old"}]
          /\ fkey' \in [Fetch -> GroupKey \cup {0}]
      BY <1>2, <2>2 DEF Inv, PanelTypeOK, Busy
    <3> QED BY <1>1, <2>2, <3>1 DEF Inv, PanelTypeOK
  <2>4. ASSUME NEW g \in Fetch PROVE FetchOK(g)' /\ (Live(g)' <=> g = f)
    <3>1. CASE g = f
      <4>1. stage'[g] = "meta" /\ own'[g] = "live" /\ fkey'[g] = key
        BY <2>2, <3>1 DEF Inv, PanelTypeOK
      <4> QED BY <1>1, <1>2, <3>1, <4>1 DEF FetchOK, Live, Busy
    <3>2. CASE g # f
      <4>1. stage'[g] = stage[g] /\ own'[g] = own[g] /\ fkey'[g] = fkey[g] /\ fmeta'[g] = fmeta[g]
            /\ fdeals'[g] = fdeals[g]
        BY <2>2, <3>2 DEF Inv, PanelTypeOK
      <4> QED BY <1>1, <1>3, <1>5, <3>2, <4>1, OtherOK
    <3> QED BY <3>1, <3>2
  <2>5. Fetches'
    BY <1>1, <2>4 DEF Fetches, OneFetch, StuckAfterFailure, Stuck
  <2> QED BY <1>4, <2>3, <2>5 DEF Inv
<1> QED BY <1>6, <1>7 DEF Interval

LEMMA PassKeeps ==
  ASSUME Inv, Pass
  PROVE  Inv'
<1>1. UNCHANGED <<host, key, shownKey, shownMeta, shownDeals, captured, capMeta, refreshing,
                  sole, failed, stage, own, fkey, fmeta, fdeals, node>>
  BY DEF Pass, fetchVars
<1>2. PanelTypeOK'
  BY <1>1 DEF Pass, Older, Inv, PanelTypeOK
<1>3. Shown'
  BY <1>1 DEF Inv, Shown, ShownTogether
<1>4. \A f \in Fetch : FetchOK(f)' /\ (Live(f)' <=> Live(f))
  BY <1>1 DEF Inv, Fetches, FetchOK, Live
<1>5. Fetches'
  BY <1>1, <1>4 DEF Inv, Fetches, OneFetch, StuckAfterFailure, Stuck
<1> QED BY <1>2, <1>3, <1>5 DEF Inv

LEMMA NodeKeeps ==
  ASSUME Inv, NEW k \in GroupKey, NodeAdvances(k)
  PROVE  Inv'
<1>1. /\ UNCHANGED <<host, key, shownKey, shownMeta, shownDeals, shownAge, captured, capMeta, capAge,
                     refreshing, sole, failed, stage, own, fkey, fmeta, fdeals>>
      /\ node' = [node EXCEPT ![k] = node[k] + 1] /\ node[k] < MaxVersion
  BY DEF NodeAdvances, shownVars, closureVars, fetchVars
<1>2. node' \in [GroupKey -> Version]
  BY <1>1 DEF Inv, PanelTypeOK, Version
<1>3. \A j \in GroupKey : node[j] <= node'[j] /\ node'[j] \in Nat /\ node[j] \in Nat
  BY <1>1 DEF Inv, PanelTypeOK, Version
<1>4. PanelTypeOK'
  BY <1>1, <1>2 DEF Inv, PanelTypeOK
<1>5. Shown'
  <2>1. shownKey # 0 => shownKey \in GroupKey /\ shownDeals \in Nat
    BY DEF Inv, PanelTypeOK, Version
  <2>2. ShownTogether'
    BY <1>1, <1>3, <2>1 DEF Inv, Shown, ShownTogether
  <2> QED BY <1>1, <2>2 DEF Inv, Shown
<1>6. \A f \in Fetch : FetchOK(f)' /\ (Live(f)' <=> Live(f))
  <2>1. ASSUME NEW f \in Fetch PROVE FetchOK(f) /\ (Live(f) => refreshing' = "yes")
    BY <1>1 DEF Inv, Fetches, FetchOK
  <2> QED BY <1>1, <1>3, <2>1, OtherOK
<1>7. Fetches'
  BY <1>1, <1>6 DEF Inv, Fetches, OneFetch, StuckAfterFailure, Stuck
<1> QED BY <1>4, <1>5, <1>7 DEF Inv

-------------------------------------------------------------------------------
(* The calls of a fetch.                                                   *)
LEMMA CallKeeps ==
  ASSUME Inv, NEW f \in Fetch, GroupMeta(f) \/ GroupDeals(f)
  PROVE  Inv'
<1>1. /\ UNCHANGED <<host, key, shownKey, shownMeta, shownDeals, shownAge, captured, capMeta, capAge,
                     refreshing, sole, failed, own, fkey, node>>
      /\ stage[f] \in Busy /\ stage'[f] \in Busy
  BY DEF GroupMeta, GroupDeals, shownVars, closureVars, Busy, Inv, PanelTypeOK
<1>2. fkey[f] \in GroupKey /\ node[fkey[f]] \in Version
  BY <1>1 DEF Inv, Fetches, FetchOK, PanelTypeOK
<1>3. /\ stage' \in [Fetch -> Busy \cup {"free", "head"}]
      /\ fmeta' \in [Fetch -> Version] /\ fdeals' \in [Fetch -> Version]
  <2>1. CASE GroupMeta(f)
    BY <1>2, <2>1 DEF GroupMeta, Inv, PanelTypeOK, Busy
  <2>2. CASE GroupDeals(f)
    BY <1>2, <2>2 DEF GroupDeals, Inv, PanelTypeOK, Busy
  <2> QED BY <2>1, <2>2
<1>4. PanelTypeOK'
  BY <1>1, <1>3 DEF Inv, PanelTypeOK
<1>5. Shown'
  BY <1>1 DEF Inv, Shown, ShownTogether
<1>6. ASSUME NEW g \in Fetch, g # f PROVE FetchOK(g)' /\ (Live(g)' <=> Live(g))
  <2>1. stage'[g] = stage[g] /\ fmeta'[g] = fmeta[g] /\ fdeals'[g] = fdeals[g]
    BY <1>6 DEF GroupMeta, GroupDeals, Inv, PanelTypeOK
  <2>2. FetchOK(g) /\ (Live(g) => refreshing' = "yes")
    BY <1>1 DEF Inv, Fetches, FetchOK
  <2>3. \A k \in GroupKey : node[k] <= node'[k] /\ node'[k] \in Nat
    BY <1>1 DEF Inv, PanelTypeOK, Version
  <2> QED BY <1>1, <2>1, <2>2, <2>3, OtherOK
<1>7. Live(f)' <=> Live(f)
  BY <1>1 DEF Live
<1>8. FetchOK(f)
  BY DEF Inv, Fetches
<1>9. sole = "yes" /\ shownKey # 0 => /\ shownMeta <= shownDeals /\ shownDeals <= node[fkey[f]]
                                      /\ own[f] = "live"
  BY <1>1, <1>8 DEF Inv, Shown, ShownTogether, FetchOK, Live
<1>10. FetchOK(f)'
  <2>1. CASE GroupMeta(f)
    <3>1. stage'[f] = "deals" /\ fmeta'[f] = node[fkey[f]]
      BY <2>1 DEF GroupMeta, Inv, PanelTypeOK
    <3>2. sole = "yes" /\ shownKey # 0 => shownMeta <= node[fkey[f]]
      BY <1>2, <1>9 DEF Inv, PanelTypeOK, Version
    <3> QED BY <1>1, <1>2, <1>7, <1>8, <3>1, <3>2 DEF FetchOK, Busy, Version
  <2>2. CASE GroupDeals(f)
    <3>1. stage[f] = "deals" /\ stage'[f] = "answer" /\ fdeals'[f] = node[fkey[f]] /\ fmeta' = fmeta
      BY <2>2 DEF GroupDeals, Inv, PanelTypeOK
    <3> QED BY <1>1, <1>2, <1>7, <1>8, <1>9, <3>1 DEF FetchOK, Busy, Version
  <2> QED BY <2>1, <2>2
<1>11. \A g \in Fetch : FetchOK(g)' /\ (Live(g)' <=> Live(g))
  BY <1>6, <1>7, <1>10
<1>12. host # "none"
  BY <1>1 DEF Inv, Fetches, Busy
<1>13. Fetches'
  BY <1>1, <1>11, <1>12 DEF Inv, Fetches, OneFetch, StuckAfterFailure, Stuck
<1> QED BY <1>4, <1>5, <1>13 DEF Inv

(* A fetch that ends is not live, and nothing is asked of it.              *)
LEMMA EndsKeeps ==
  ASSUME Inv, NEW f \in Fetch, NEW st \in {"free", "head"}, Ends(f, st), host # "none",
         UNCHANGED <<host, node>>
  PROVE  /\ stage' \in [Fetch -> Busy \cup {"free", "head"}] /\ own' \in [Fetch -> {"live", "old"}]
         /\ fkey' \in [Fetch -> GroupKey \cup {0}]
         /\ fmeta' \in [Fetch -> Version] /\ fdeals' \in [Fetch -> Version]
         /\ FetchOK(f)' /\ ~Live(f)'
         /\ \A g \in Fetch : g # f => /\ stage'[g] = stage[g] /\ own'[g] = own[g] /\ fkey'[g] = fkey[g]
                                      /\ fmeta'[g] = fmeta[g] /\ fdeals'[g] = fdeals[g]
                                      /\ (Live(g)' <=> Live(g))
         /\ \A k \in GroupKey : node[k] <= node'[k] /\ node'[k] \in Nat
<1>1. /\ stage' \in [Fetch -> Busy \cup {"free", "head"}] /\ own' \in [Fetch -> {"live", "old"}]
      /\ fkey' \in [Fetch -> GroupKey \cup {0}]
  BY DEF Ends, Inv, PanelTypeOK
<1>2. fmeta' \in [Fetch -> Version] /\ fdeals' \in [Fetch -> Version]
  BY DEF Ends, Inv, PanelTypeOK, Version
<1>3. stage'[f] \notin Busy
  BY DEF Ends, Inv, PanelTypeOK, Busy
<1>4. \A g \in Fetch : g # f => /\ stage'[g] = stage[g] /\ own'[g] = own[g] /\ fkey'[g] = fkey[g]
                                /\ fmeta'[g] = fmeta[g] /\ fdeals'[g] = fdeals[g]
  BY DEF Ends, Inv, PanelTypeOK
<1>5. \A k \in GroupKey : node[k] <= node'[k] /\ node'[k] \in Nat
  BY DEF Inv, PanelTypeOK, Version
<1> QED BY <1>1, <1>2, <1>3, <1>4, <1>5, IdleNextOK DEF Live

LEMMA SetGroupKeeps ==
  ASSUME Inv, NEW f \in Fetch, SetGroup(f)
  PROVE  /\ Inv'
         /\ sole = "yes" /\ shownKey' = shownKey => shownMeta' >= shownMeta /\ shownDeals' >= shownDeals
<1>1. /\ UNCHANGED <<host, key, captured, capMeta, capAge, sole, failed, node>>
      /\ shownKey' = fkey[f] /\ shownMeta' = fmeta[f] /\ shownDeals' = fdeals[f] /\ shownAge' = 0
      /\ refreshing' = IF own[f] = "live" THEN "no" ELSE refreshing
      /\ stage[f] = "answer" /\ stage[f] \in Busy
  BY DEF SetGroup, Busy
<1>2. PICK st \in {"free", "head"} : Ends(f, st)
  BY DEF SetGroup
<1>3. host # "none"
  BY <1>1 DEF Inv, Fetches
<1>4. FetchOK(f)
  BY DEF Inv, Fetches
<1>5. fkey[f] \in GroupKey /\ fmeta[f] <= fdeals[f] /\ fdeals[f] <= node[fkey[f]]
  BY <1>1, <1>4 DEF FetchOK
<1>6. PanelTypeOK'
  BY <1>1, <1>2, <1>3, <1>5, EndsKeeps DEF Inv, PanelTypeOK, Version
<1>7. sole = "yes" => fkey[f] = key /\ Live(f)
  BY <1>1, <1>4 DEF FetchOK, Live
<1>8. Shown'
  BY <1>1, <1>3, <1>5, <1>7 DEF Inv, Shown, ShownTogether
<1>9. ASSUME NEW g \in Fetch, g # f PROVE FetchOK(g)' /\ (Live(g) => refreshing' = "yes")
  <2>1. /\ stage'[g] = stage[g] /\ own'[g] = own[g] /\ fkey'[g] = fkey[g]
        /\ fmeta'[g] = fmeta[g] /\ fdeals'[g] = fdeals[g] /\ (Live(g)' <=> Live(g))
    BY <1>1, <1>2, <1>3, <1>9, EndsKeeps
  <2>2. FetchOK(g)
    BY DEF Inv, Fetches
  <2>3. Live(g) => ~Live(f)
    BY <1>9 DEF Inv, Fetches, OneFetch
  <2>4. Live(g) => refreshing' = "yes"
    BY <1>1, <2>2, <2>3 DEF FetchOK, Live
  <2>5. sole = "yes" => stage[g] \notin Busy
    BY <1>7, <2>2, <2>3 DEF FetchOK, Live
  <2>6. CASE sole = "yes"
    BY <2>1, <2>4, <2>5, <2>6, IdleNextOK
  <2>7. CASE sole # "yes"
    BY <1>1, <2>1, <2>2, <2>4, <2>7 DEF FetchOK
  <2> QED BY <2>4, <2>6, <2>7
<1>10. \A g \in Fetch : FetchOK(g)' /\ (Live(g)' => Live(g)) /\ (g # f => (Live(g)' <=> Live(g)))
  BY <1>1, <1>2, <1>3, <1>9, EndsKeeps
<1>11. sole = "yes" => refreshing' = "no"
  BY <1>1, <1>7 DEF Live
<1>12. Fetches'
  BY <1>1, <1>3, <1>10, <1>11 DEF Inv, Fetches, OneFetch, StuckAfterFailure, Stuck
<1>13. ASSUME sole = "yes", shownKey' = shownKey
       PROVE  shownMeta' >= shownMeta /\ shownDeals' >= shownDeals
  <2>1. shownKey # 0
    BY <1>1, <1>5, <1>13
  <2> QED BY <1>1, <1>4, <1>13, <2>1 DEF FetchOK, Inv, PanelTypeOK, Version
<1> QED BY <1>6, <1>8, <1>12, <1>13 DEF Inv

LEMMA EndKeeps ==
  ASSUME Inv, NEW f \in Fetch, ChainHead(f) \/ FetchFails(f)
  PROVE  Inv'
<1>1. /\ UNCHANGED <<host, key, shownKey, shownMeta, shownDeals, shownAge, captured, capMeta, capAge,
                     refreshing, sole, node>>
      /\ Ends(f, "free") /\ stage[f] # "free"
  BY DEF ChainHead, FetchFails, shownVars, closureVars
<1>2. host # "none"
  BY <1>1 DEF Inv, Fetches
<1>3. failed' \in {"no", "yes"} /\ (failed = "yes" => failed' = "yes") /\ (Live(f) => failed' = "yes")
  BY DEF ChainHead, FetchFails, closureVars, Inv, PanelTypeOK, Live, Busy
<1>4. PanelTypeOK'
  BY <1>1, <1>2, <1>3, EndsKeeps DEF Inv, PanelTypeOK
<1>5. Shown'
  BY <1>1 DEF Inv, Shown, ShownTogether
<1>6. ASSUME NEW g \in Fetch, g # f PROVE FetchOK(g)' /\ (Live(g)' <=> Live(g))
  <2>1. FetchOK(g) /\ (Live(g) => refreshing' = "yes")
    BY <1>1 DEF Inv, Fetches, FetchOK
  <2> QED BY <1>1, <1>2, <1>6, <2>1, EndsKeeps, OtherOK
<1>7. \A g \in Fetch : FetchOK(g)' /\ (Live(g)' => Live(g)) /\ (g # f => (Live(g)' <=> Live(g)))
  BY <1>1, <1>2, <1>6, EndsKeeps
<1>8. StuckAfterFailure'
  <2>1. CASE Live(f)
    BY <1>3, <2>1 DEF StuckAfterFailure
  <2>2. CASE ~Live(f)
    BY <1>1, <1>3, <1>7, <2>2 DEF Inv, Fetches, StuckAfterFailure, Stuck
  <2> QED BY <2>1, <2>2
<1>9. Fetches'
  BY <1>1, <1>2, <1>7, <1>8 DEF Inv, Fetches, OneFetch
<1> QED BY <1>4, <1>5, <1>9 DEF Inv

-------------------------------------------------------------------------------
LEMMA NextInv == Inv /\ [Next]_panelVars => Inv'
<1> SUFFICES ASSUME Inv, [Next]_panelVars PROVE Inv'
  OBVIOUS
<1>1. CASE PanelStep
  BY <1>1, IntervalKeeps, PassKeeps, NodeKeeps, CallKeeps, SetGroupKeeps, EndKeeps DEF PanelStep
<1>2. CASE Unmount
  BY <1>2, UnmountKeeps_
<1>3. CASE \E k \in GroupKey : KeyChange(k) \/ \E h \in {"panel", "page"} : Mount(h, k)
  BY <1>3, KeyChangeKeeps, MountKeeps
<1>4. CASE UNCHANGED panelVars
  <2>1. UNCHANGED <<host, key, shownKey, shownMeta, shownDeals, shownAge, captured, capMeta, capAge,
                    refreshing, sole, failed, stage, own, fkey, fmeta, fdeals, node>>
    BY <1>4 DEF panelVars, shownVars, closureVars, fetchVars
  <2>2. PanelTypeOK' /\ Shown'
    BY <2>1 DEF Inv, PanelTypeOK, Shown, ShownTogether
  <2>3. \A f \in Fetch : FetchOK(f)' /\ (Live(f)' <=> Live(f))
    BY <2>1 DEF Inv, Fetches, FetchOK, Live
  <2>4. Fetches'
    BY <2>1, <2>3 DEF Inv, Fetches, OneFetch, StuckAfterFailure, Stuck
  <2> QED BY <2>2, <2>4 DEF Inv
<1> QED BY <1>1, <1>2, <1>3, <1>4 DEF Next

(* A step of a sole closure shows nothing older than before.               *)
LEMMA NeverBackStep ==
  ASSUME Inv, [Next]_panelVars, sole = "yes", host' = host, shownKey' = shownKey
  PROVE  shownMeta' >= shownMeta /\ shownDeals' >= shownDeals
<1>1. shownMeta \in Nat /\ shownDeals \in Nat
  BY DEF Inv, PanelTypeOK, Version
<1>2. CASE UNCHANGED <<shownMeta, shownDeals>>
  BY <1>1, <1>2
<1>3. CASE \E f \in Fetch : SetGroup(f)
  BY <1>3, SetGroupKeeps
<1>4. CASE \E k \in GroupKey, h \in {"panel", "page"} : Mount(h, k)
  <2>1. shownKey' = 0 /\ shownMeta' = 0 /\ shownDeals' = 0
    BY <1>4 DEF Mount, FreshState
  <2> QED BY <2>1 DEF Inv, Shown
<1>5. ~Unmount
  BY DEF Unmount
<1> QED
  BY <1>2, <1>3, <1>4, <1>5
  DEF Next, PanelStep, Interval, Pass, GroupMeta, GroupDeals, ChainHead, FetchFails, NodeAdvances,
      KeyChange, panelVars, shownVars

-------------------------------------------------------------------------------
(***************************************************************************)
(* The inductive invariant of the panel, with its types.                   *)
(***************************************************************************)
THEOREM Invariance == Spec => [](PanelTypeOK /\ PanelInv)
<1>1. Init => Inv
  BY InitInv
<1>2. Inv /\ [Next]_panelVars => Inv'
  BY NextInv
<1>3. Inv => PanelTypeOK /\ PanelInv
  BY InvParts
<1> QED BY <1>1, <1>2, <1>3, PTL DEF Spec

(***************************************************************************)
(* A closure has at most one fetch on its way (refreshing): OneFetch.      *)
(***************************************************************************)
THEOREM OneFetchAlways == Spec => []OneFetch
<1>1. PanelInv => OneFetch
  BY DEF PanelInv
<1> QED BY <1>1, Invariance, PTL

(***************************************************************************)
(* What is shown is one group's row and deals that are not older than it   *)
(* (fetchGroup, setGroup), whatever is answered late: ShownTogether.       *)
(***************************************************************************)
THEOREM ShownTogetherAlways == Spec => []ShownTogether
<1>1. PanelInv => ShownTogether
  BY DEF PanelInv
<1> QED BY <1>1, Invariance, PTL

(***************************************************************************)
(* A panel with one key stops refreshing only after a call failed (the     *)
(* early returns of fetchGroup do not stop it): StuckAfterFailure.         *)
(***************************************************************************)
THEOREM StuckAfterFailureAlways == Spec => []StuckAfterFailure
<1>1. PanelInv => StuckAfterFailure
  BY DEF PanelInv
<1> QED BY <1>1, Invariance, PTL

(***************************************************************************)
(* A panel with one key never goes back in time (fetchGroup): NeverBack.   *)
(***************************************************************************)
THEOREM NeverBackAlways == Spec => NeverBack
<1>1. Init => Inv
  BY InitInv
<1>2. Inv /\ [Next]_panelVars => Inv'
  BY NextInv
<1>3. Inv /\ [Next]_panelVars
        => [sole = "yes" /\ host' = host /\ shownKey' = shownKey
              => shownMeta' >= shownMeta /\ shownDeals' >= shownDeals]_panelVars
  BY NeverBackStep
<1> QED BY <1>1, <1>2, <1>3, PTL DEF Spec, NeverBack
===============================================================================
