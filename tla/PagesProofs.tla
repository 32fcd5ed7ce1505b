----------------------------- MODULE PagesProofs ------------------------------
(***************************************************************************)
(* For any results and any number of searches, answered in any order, the  *)
(* panel shown is always that of the expanded entry.  The steps of Pages   *)
(* are written with those of GroupPanel, so what is proved of GroupPanel   *)
(* holds of the pages as well.                                             *)
(***************************************************************************)
EXTENDS Pages, GroupPanelProofs

USE CidAssumption, ResultAssumption DEF CidAssumption, ResultAssumption

(* What ties the routes, the searches and the panel together: a page that  *)
(* is left leaves nothing behind, and only the content page has searches.  *)
PagesInv ==
  /\ groupIds \in Seq(GroupKey) /\ expanded \in Nat
  /\ host = "none" => key = 0
  /\ error = "some" => groupIds = <<>> /\ route = "content"
  /\ route # "content" => groupIds = <<>> /\ \A s \in Find : find[s] = NoCid
  /\ route \notin {"content", "group"} => host = "none"
  /\ PanelOfEntry

LEMMA PagesInitInv == PagesInit => PagesInv
BY DEF PagesInit, ContentInit, Init, PagesInv, PanelOfEntry

(* A render leaves the panel for the key at the expanded place.            *)
LEMMA RenderKeeps ==
  ASSUME NEW ids \in Seq(GroupKey), NEW n \in Nat, RenderPanel(ids, n),
         host = "none" => key = 0
  PROVE  /\ [Next]_panelVars
         /\ key' = IF n \in 1..Len(ids) THEN ids[n] ELSE 0
         /\ host' = "none" => key' = 0
<1> DEFINE k == IF n \in 1..Len(ids) THEN ids[n] ELSE 0
<1>1. k # 0 => k \in GroupKey
  OBVIOUS
<1>2. CASE k = key /\ UNCHANGED panelVars
  BY <1>2 DEF panelVars
<1>3. CASE k = 0 /\ Unmount
  BY <1>3 DEF Next, Unmount
<1>4. CASE k # 0 /\ Mount("panel", k)
  <2>1. k \in GroupKey /\ "panel" \in {"panel", "page"}
    BY <1>1, <1>4
  <2>2. key' = k /\ host' = "panel"
    BY <1>4 DEF Mount
  <2> QED BY <1>4, <2>1, <2>2 DEF Next
<1>5. CASE k # 0 /\ KeyChange(k)
  <2>1. key' = k /\ host' = host /\ host # "none"
    BY <1>5 DEF KeyChange, RunEffect
  <2> QED BY <1>1, <1>5, <2>1 DEF Next
<1> QED BY <1>2, <1>3, <1>4, <1>5 DEF RenderPanel

LEMMA PanelStepKeeps ==
  ASSUME PanelStep
  PROVE  UNCHANGED <<host, key>>
BY DEF PanelStep, Interval, Pass, GroupMeta, GroupDeals, SetGroup, ChainHead, FetchFails, NodeAdvances

LEMMA LeaveKeeps ==
  ASSUME Leave, host = "none" => key = 0
  PROVE  [Next]_panelVars /\ host' = "none" /\ key' = 0
<1>1. CASE host = "none"
  BY <1>1 DEF Leave, panelVars
<1>2. CASE host # "none"
  BY <1>2 DEF Leave, Unmount, Next
<1> QED BY <1>1, <1>2

(***************************************************************************)
(* Every step of the pages is one of the panel or leaves it alone.         *)
(***************************************************************************)
LEMMA PagesStep ==
  ASSUME PagesInv, [PagesNext]_vars
  PROVE  [Next]_panelVars /\ PagesInv'
<1> USE DEF PagesInv
<1>1. CASE PanelStep /\ UNCHANGED <<route, contentVars>>
  <2>1. UNCHANGED <<host, key, route, cid, find, groupIds, expanded, error>>
    BY <1>1, PanelStepKeeps DEF contentVars
  <2> QED BY <1>1, <2>1 DEF Next, PanelOfEntry
<1>2. ASSUME NEW c \in Cid \cup {NoCid}, setCid(c) PROVE [Next]_panelVars /\ PagesInv'
  BY <1>2 DEF setCid, panelVars, PanelOfEntry
<1>3. ASSUME NEW s \in Find, findCid(s) PROVE [Next]_panelVars /\ PagesInv'
  BY <1>3 DEF findCid, panelVars, PanelOfEntry
<1>4. ASSUME NEW s \in Find, Found(s) PROVE [Next]_panelVars /\ PagesInv'
  <2>1. groupIds' \in Result /\ RenderPanel(groupIds', 1)
    BY <1>4 DEF Found
  <2>2. route = "content" /\ route' = "content"
    BY <1>4 DEF Found
  <2>3. groupIds' \in Seq(GroupKey)
    BY <2>1
  <2>4. /\ [Next]_panelVars
        /\ key' = IF 1 \in 1..Len(groupIds') THEN groupIds'[1] ELSE 0
        /\ host' = "none" => key' = 0
    BY <2>1, <2>3, RenderKeeps
  <2>5. expanded' = 1 /\ error' = "none"
    BY <1>4 DEF Found
  <2>6. PanelOfEntry'
    BY <2>2, <2>3, <2>4, <2>5 DEF PanelOfEntry
  <2> QED BY <2>2, <2>3, <2>4, <2>5, <2>6
<1>5. ASSUME NEW s \in Find, FindFails(s) PROVE [Next]_panelVars /\ PagesInv'
  <2>1. route = "content" /\ route' = "content" /\ expanded' = expanded
        /\ groupIds' = <<>>
    BY <1>5 DEF FindFails
  <2>2. /\ [Next]_panelVars
        /\ key' = 0
        /\ host' = "none" => key' = 0
    <3>1. RenderPanel(<<>>, expanded)
      BY <1>5 DEF FindFails
    <3>2. /\ <<>> \in Seq(GroupKey) /\ expanded \in Nat
          /\ expanded \notin 1..Len(<<>>)
      OBVIOUS
    <3> QED BY <3>1, <3>2, RenderKeeps
  <2> QED BY <2>1, <2>2 DEF PanelOfEntry
<1>6. ASSUME NEW n \in 1..Len(groupIds), handleGroupClick(n) PROVE [Next]_panelVars /\ PagesInv'
  <2>1. expanded' \in 0..Len(groupIds) /\ RenderPanel(groupIds, expanded')
        /\ UNCHANGED <<route, cid, find, groupIds, error>>
    BY <1>6 DEF handleGroupClick
  <2>2. /\ [Next]_panelVars
        /\ key' = IF expanded' \in 1..Len(groupIds) THEN groupIds[expanded'] ELSE 0
        /\ host' = "none" => key' = 0
    BY <2>1, RenderKeeps
  <2>3. route = "content"
    BY <1>6
  <2> QED BY <2>1, <2>2, <2>3 DEF PanelOfEntry
<1>7. ASSUME NEW r \in {"content", "other"}, Navigate(r) PROVE [Next]_panelVars /\ PagesInv'
  <2>1. [Next]_panelVars /\ host' = "none" /\ key' = 0
    BY <1>7, LeaveKeeps DEF Navigate
  <2>2. ContentReset
    BY <1>7 DEF Navigate
  <2> QED BY <2>1, <2>2 DEF ContentReset, PanelOfEntry
<1>8. ASSUME NEW k \in GroupKey, NavigateGroup(k) PROVE [Next]_panelVars /\ PagesInv'
  <2>1. KeyChange(k) \/ Mount("page", k)
    BY <1>8 DEF NavigateGroup
  <2>2. [Next]_panelVars
    BY <2>1 DEF Next
  <2>3. host' # "none"
    BY <2>1 DEF KeyChange, Mount
  <2>4. ContentReset /\ route' = "group"
    BY <1>8 DEF NavigateGroup
  <2> QED BY <2>2, <2>3, <2>4 DEF ContentReset, PanelOfEntry
<1>9. CASE UNCHANGED vars
  <2>1. UNCHANGED <<host, key, route, cid, find, groupIds, expanded, error, panelVars>>
    BY <1>9 DEF vars, contentVars, panelVars
  <2> QED BY <2>1 DEF PanelOfEntry
<1> QED BY <1>1, <1>2, <1>3, <1>4, <1>5, <1>6, <1>7, <1>8, <1>9 DEF PagesNext

(***************************************************************************)
(* The panel shown is that of the expanded entry of the list shown, with   *)
(* searches answered in any order (findCid): PanelOfEntry.                 *)
(***************************************************************************)
THEOREM PanelOfEntryAlways == PagesSpec => []PanelOfEntry
<1>1. PagesInit => PagesInv
  BY PagesInitInv
<1>2. PagesInv /\ [PagesNext]_vars => PagesInv'
  BY PagesStep
<1>3. PagesInv => PanelOfEntry
  BY DEF PagesInv
<1> QED BY <1>1, <1>2, <1>3, PTL DEF PagesSpec

(***************************************************************************)
(* An error is never shown beside a list or a panel (findCid): ErrorOrList. *)
(***************************************************************************)
THEOREM ErrorOrListAlways == PagesSpec => []ErrorOrList
<1>1. PagesInit => PagesInv
  BY PagesInitInv
<1>2. PagesInv /\ [PagesNext]_vars => PagesInv'
  BY PagesStep
<1>3. PagesInv => ErrorOrList
  BY DEF PagesInv, PanelOfEntry, ErrorOrList
<1> QED BY <1>1, <1>2, <1>3, PTL DEF PagesSpec

-------------------------------------------------------------------------------
(***************************************************************************)
(* A behaviour of the pages is one of GroupPanel, by the form of their     *)
(* steps: GroupPanel's theorems hold for them.                             *)
(***************************************************************************)
LEMMA PagesImplement == PagesSpec => Spec
<1>1. PagesInit => Init /\ PagesInv
  BY PagesInitInv DEF PagesInit
<1>2. PagesInv /\ [PagesNext]_vars => PagesInv' /\ [Next]_panelVars
  BY PagesStep
<1> QED BY <1>1, <1>2, PTL DEF PagesSpec, Spec

(***************************************************************************)
(* So what a page shows is one group's row and deals (ShownTogether), and  *)
(* it never goes back while the page keeps its key (NeverBack).            *)
(***************************************************************************)
THEOREM PagesShowTogether == PagesSpec => []ShownTogether /\ NeverBack
BY PagesImplement, ShownTogetherAlways, NeverBackAlways, PTL
===============================================================================
