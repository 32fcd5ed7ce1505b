-------------------------------- MODULE Pages ---------------------------------
(***************************************************************************)
(* The routes of the web application (index.js) with the pages that show   *)
(* groups: the content page (routes/Content.js), which finds the groups of *)
(* a CID and shows one of them in a GroupPanel, and the page of a group.   *)
(*                                                                         *)
(* The content page gives its panel no React key: the panel stays mounted, *)
(* with another groupKey, when a new result shows a group at the same      *)
(* place, and is a new one when another place is expanded.  Find bounds    *)
(* the searches on their way.                                              *)
(***************************************************************************)
EXTENDS GroupPanel, Sequences

CONSTANTS Cid, Find,
          NoCid,      \* the empty input field
          Result      \* what FindCid may answer: sequences of group keys, <<>> for null

ASSUME CidAssumption == NoCid \notin Cid
ASSUME ResultAssumption == \A r \in Result : r \in Seq(GroupKey)

VARIABLES
  route,     \* "content", "group" (groups/:groupKey) or "other"
  cid,       \* the input field
  find,      \* the CID a search on its way is for, NoCid for no search
  groupIds,  \* the list shown, <<>> for null
  expanded,  \* expandedGroupId + 1, 0 for null
  error

contentVars == <<cid, find, groupIds, expanded, error>>
vars == <<panelVars, route, contentVars>>

ContentInit ==
  /\ cid = NoCid /\ find = [s \in Find |-> NoCid] /\ groupIds = <<>>
  /\ expanded = 0 /\ error = "none"
PagesInit == Init /\ route = "other" /\ ContentInit

(* The panel after a render with list ids and place n: a panel at another  *)
(* place is another panel.                                                 *)
RenderPanel(ids, n) ==
  LET k == IF n \in 1..Len(ids) THEN ids[n] ELSE 0 IN
  \/ k = key /\ (k = 0 \/ n = expanded) /\ UNCHANGED panelVars
  \/ k = 0 /\ Unmount
  \/ k # 0 /\ (key = 0 \/ n # expanded) /\ Mount("panel", k)
  \/ k # 0 /\ n = expanded /\ KeyChange(k)

setCid(c) ==
  /\ route = "content" /\ c # cid
  /\ cid' = c
  /\ UNCHANGED <<panelVars, route, find, groupIds, expanded, error>>

(* findCid: several searches may be on their way at a time.                *)
findCid(s) ==
  /\ route = "content" /\ cid # NoCid /\ find[s] = NoCid
  /\ find' = [find EXCEPT ![s] = cid]
  /\ UNCHANGED <<panelVars, route, cid, groupIds, expanded, error>>

\* Mutant: the expanded entry is not reset.
FoundKeeps(s) ==
  /\ find[s] # NoCid
  /\ find' = [find EXCEPT ![s] = NoCid]
  /\ \E r \in Result : groupIds' = r /\ RenderPanel(r, expanded)
  /\ error' = "none" /\ expanded' = expanded
  /\ UNCHANGED <<route, cid>>

Found(s) ==
  /\ find[s] # NoCid
  /\ find' = [find EXCEPT ![s] = NoCid]
  /\ \E r \in Result : groupIds' = r /\ RenderPanel(r, 1)
  /\ error' = "none" /\ expanded' = 1
  /\ UNCHANGED <<route, cid>>

FindFails(s) ==
  /\ find[s] # NoCid
  /\ find' = [find EXCEPT ![s] = NoCid]
  /\ error' = "some" /\ groupIds' = <<>>
  /\ RenderPanel(<<>>, expanded)
  /\ UNCHANGED <<route, cid, expanded>>

handleGroupClick(n) ==
  /\ n \in 1..Len(groupIds)
  /\ expanded' = IF n = expanded THEN 0 ELSE n
  /\ RenderPanel(groupIds, expanded')
  /\ UNCHANGED <<route, cid, find, groupIds, error>>

(* A link or the browser's history: the page is unmounted with all it has, *)
(* but from the page of a group to that of another only the key changes.   *)
Leave == IF host = "none" THEN UNCHANGED panelVars ELSE Unmount
ContentReset ==
  /\ cid' = NoCid /\ find' = [s \in Find |-> NoCid] /\ groupIds' = <<>>
  /\ expanded' = 0 /\ error' = "none"
Navigate(r) ==
  /\ r # route
  /\ route' = r
  /\ Leave /\ ContentReset
NavigateGroup(k) ==
  /\ route' = "group"
  /\ IF route = "group" THEN KeyChange(k) ELSE Mount("page", k)
  /\ ContentReset

PagesNext ==
  \/ PanelStep /\ UNCHANGED <<route, contentVars>>
  \/ \E c \in Cid \cup {NoCid} : setCid(c)
  \/ \E s \in Find : findCid(s) \/ Found(s) \/ FindFails(s)
  \/ \E n \in 1..Len(groupIds) : handleGroupClick(n)
  \/ \E r \in {"content", "other"} : Navigate(r)
  \/ \E k \in GroupKey : NavigateGroup(k)

PagesSpec == PagesInit /\ [][PagesNext]_vars
FairSpec == PagesSpec /\ PanelFairness

-------------------------------------------------------------------------------
(***************************************************************************)
(* The panel is the one of the expanded entry: a list that has entries is  *)
(* shown with one of them expanded or none, never with an entry that the   *)
(* last list had and this one has not, and the panel is for the key at     *)
(* that place (findCid, handleGroupClick; answers in any order).           *)
(***************************************************************************)
PanelOfEntry ==
  route = "content" =>
    /\ groupIds # <<>> => expanded \in 0..Len(groupIds)
    /\ key = IF expanded \in 1..Len(groupIds) THEN groupIds[expanded] ELSE 0

(***************************************************************************)
(* An error is shown instead of a list, not beside one, also when searches *)
(* are answered in another order than they were made (findCid).            *)
(***************************************************************************)
ErrorOrList == error = "some" => groupIds = <<>> /\ key = 0
===============================================================================
