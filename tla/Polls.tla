-------------------------------- MODULE Polls ---------------------------------
(***************************************************************************)
(* The pages and tiles that poll the node: fetchX calls the node, once or  *)
(* several times one after the other, and sets what is shown; useEffect    *)
(* runs it at once and then on an interval, whether or not the last one is *)
(* over.  So several fetches can be on their way, with answers in any      *)
(* order; a call that fails ends its fetch and changes nothing.            *)
(*                                                                         *)
(* A poll is the sequence of its calls, each given by the call after whose *)
(* answer its result is set.  The node's data are one version that grows;  *)
(* the counter that a rate is made of starts again at 0 with the node, and *)
(* Repair's FetchProgress with every job and source of a worker as well.   *)
(* Fetch bounds the fetches on their way, MaxFaults the failures; a call   *)
(* whose connection is lost never settles, which is a failure here.        *)
(***************************************************************************)
EXTENDS Integers, Sequences

CONSTANTS Fetch, MaxFaults,
          MaxResets,   \* bound on how often the counter starts again
          Page,        \* the polls of an instance
          MaxVersion,  \* bound on the versions, for each of them
          MaxElapsed   \* bound on the milliseconds between two answers

ASSUME VersionAssumption == MaxVersion \in [Page -> Nat]
ASSUME FaultsAssumption == MaxFaults \in Nat /\ MaxResets \in Nat
ASSUME ElapsedAssumption == MaxElapsed \in Nat

(* One call, set when answered.                                            *)
GroupsTile == <<1>>
TopIndexTile == <<1>>
IoStats == <<1>>
StagingStats == <<1>>
P2PNodes == <<1>>
GoRuntimeStats == <<1>>
Providers == <<1>>
ContentHead == <<1>>
(* Status hands results on to two tiles, which see the same stream of      *)
(* answers as a poll of their own.                                         *)
WorkerStats == <<1>>
CarUploadStatsTile == <<1>>
(* Two calls, the first result set without waiting for the second.         *)
Provider == <<1, 2>>
Repair == <<1, 2>>
Groups == <<1, 2>>
(* Two calls, merged into one chart.                                       *)
DealCountsChart == <<2, 2>>
(* Nine calls: the wallet is set at once, the other eight when all are     *)
(* there.                                                                  *)
Status == <<1, 9, 9, 9, 9, 9, 9, 9, 9>>

SetAfter(p) ==
  CASE p = "GroupsTile" -> GroupsTile [] p = "TopIndexTile" -> TopIndexTile
    [] p = "IoStats" -> IoStats [] p = "StagingStats" -> StagingStats
    [] p = "P2PNodes" -> P2PNodes [] p = "GoRuntimeStats" -> GoRuntimeStats
    [] p = "Providers" -> Providers [] p = "ContentHead" -> ContentHead
    [] p = "WorkerStats" -> WorkerStats [] p = "CarUploadStatsTile" -> CarUploadStatsTile
    [] p = "Provider" -> Provider [] p = "Repair" -> Repair [] p = "Groups" -> Groups
    [] p = "DealCountsChart" -> DealCountsChart [] p = "Status" -> Status
    [] OTHER -> <<1>>

(* The rates: a difference per answer, or per time since the last answer.  *)
PerAnswer == {"TopIndexTile", "IoStats", "StagingStats"}
PerTime == {"GoRuntimeStats", "WorkerStats", "Repair"}
Rated == PerAnswer \cup PerTime

VARIABLES
  page,
  node,     \* version of the data at the node
  counter,  \* the counter at the node, -1: none (a worker without a job yet)
  resets,   \* how often it started again
  at,       \* the call a fetch waits for, 0: no fetch
  ready,    \* "yes": the node has answered it
  sample,   \* the results a fetch has
  count,    \* and the counter in its first one, until that is set
  shown,    \* the results shown
  faults,
  overlap,  \* "yes": two fetches were on their way at a time (history)
  prev,     \* the counter at the last answer, -1: undefined
  first, total,  \* its first value, and the sum of the differences (history)
  ema, emaKind,  \* the average in tenths: "num", or "inf", "nan"
  burst     \* "yes": two answers came within a millisecond (history)

nodeVars == <<node, counter, resets>>
pollVars == <<nodeVars, at, ready, sample, count, shown, faults, overlap>>
rateVars == <<prev, first, total, ema, emaKind, burst>>
vars == <<page, pollVars, rateVars>>

Calls(p) == 1..Len(SetAfter(p))
Scale == 10

Init ==
  /\ page \in Page /\ node = 0 /\ resets = 0
  /\ counter \in (IF page = "Repair" THEN {-1, 0} ELSE {0})
  /\ at = [f \in Fetch |-> 0] /\ ready = [f \in Fetch |-> "no"]
  /\ sample = [f \in Fetch |-> [j \in Calls(page) |-> 0]] /\ count = [f \in Fetch |-> 0]
  /\ shown = [j \in Calls(page) |-> 0]
  /\ faults = 0 /\ overlap = "no"
  /\ prev = -1 /\ first = -1 /\ total = 0 /\ ema = 0 /\ emaKind = "num" /\ burst = "no"

-------------------------------------------------------------------------------
(* The rate of a counter at an answer: the difference to the last answer   *)
(* into an exponential average; none at the first answer.                  *)
calcEMA(currentValue, prevEMA) == (currentValue + 9 * prevEMA) \div 10

\* Mutant: the last answer is not remembered once there is a rate.
RatePerAnswerKeepsPrev(v) ==
  /\ prev' = IF prev = -1 THEN v ELSE prev
  /\ first' = IF prev = -1 THEN v ELSE first
  /\ IF prev = -1 THEN UNCHANGED <<total, ema>>
     ELSE total' = total + (v - prev) /\ ema' = calcEMA(Scale * (v - prev), ema)
  /\ UNCHANGED <<emaKind, burst>>

\* Mutant: the difference is taken the wrong way round.
RatePerAnswerSwapped(v) ==
  /\ prev' = v
  /\ first' = IF prev = -1 THEN v ELSE first
  /\ IF prev = -1 THEN UNCHANGED <<total, ema>>
     ELSE total' = total + (prev - v) /\ ema' = calcEMA(Scale * (prev - v), ema)
  /\ UNCHANGED <<emaKind, burst>>

RatePerAnswer(v) ==
  /\ prev' = v
  /\ first' = IF prev = -1 THEN v ELSE first
  /\ IF prev = -1 THEN UNCHANGED <<total, ema>>
     ELSE total' = total + (v - prev) /\ ema' = calcEMA(Scale * (v - prev), ema)
  /\ UNCHANGED <<emaKind, burst>>

(* Divided by the time since the last answer, which may be 0: 0/0 is NaN,  *)
(* d/0 infinite, and the average keeps it; Repair takes 0 for a NaN.       *)
\* Mutant: the time of the last answer is overwritten before it is used.
QuotientSelf(d, elapsed) == IF d = 0 THEN <<"nan", 0>> ELSE <<"inf", 0>>

Quotient(d, elapsed) ==
  IF elapsed > 0 THEN <<"num", (Scale * d) \div elapsed>>
  ELSE IF d = 0 THEN <<"nan", 0>> ELSE IF d > 0 THEN <<"inf", 0>> ELSE <<"-inf", 0>>

Healed(kind) == IF page = "Repair" /\ kind = "nan" THEN "num" ELSE kind

RatePerTime(v) ==
  \E elapsed \in 0..MaxElapsed :
    LET d == v - prev
        q == Quotient(d, elapsed)
        old == Healed(emaKind)
    IN /\ prev' = v
       /\ first' = IF prev = -1 THEN v ELSE first
       /\ IF prev = -1 THEN UNCHANGED <<total, ema, emaKind, burst>>
          ELSE /\ total' = total + d
               /\ burst' = IF elapsed = 0 THEN "yes" ELSE burst
               /\ emaKind' = IF q[1] = "num" THEN old
                             ELSE IF old = "num" \/ q[1] = old THEN q[1] ELSE "nan"
               /\ ema' = IF emaKind' = "num" THEN calcEMA(q[2], IF emaKind = "num" THEN ema ELSE 0)
                         ELSE 0

(* A worker that is not in the answer is one not seen before afterwards.   *)
Absent ==
  /\ prev' = -1 /\ first' = -1 /\ total' = 0
  /\ UNCHANGED <<ema, emaKind, burst>>

Rate(v) ==
  IF page \notin Rated THEN UNCHANGED rateVars
  ELSE IF v = -1 THEN Absent
  ELSE IF page \in PerAnswer THEN RatePerAnswer(v) ELSE RatePerTime(v)

(* The effect and its interval call fetchX.                                *)
\* Mutant: a fetch waits for the last one to be over, and a failed one never is.
IntervalOnce(f) ==
  /\ at[f] = 0 /\ \A g \in Fetch : at[g] = 0
  /\ faults = 0
  /\ at' = [at EXCEPT ![f] = 1]
  /\ ready' = [ready EXCEPT ![f] = "no"]
  /\ overlap' = overlap
  /\ UNCHANGED <<page, nodeVars, sample, count, shown, faults, rateVars>>

Interval(f) ==
  /\ at[f] = 0
  /\ at' = [at EXCEPT ![f] = 1]
  /\ ready' = [ready EXCEPT ![f] = "no"]
  /\ overlap' = IF \E g \in Fetch : at[g] # 0 THEN "yes" ELSE overlap
  /\ UNCHANGED <<page, nodeVars, sample, count, shown, faults, rateVars>>

(* The node runs the call the fetch waits for.                             *)
NodeAnswers(f) ==
  /\ at[f] # 0 /\ ready[f] = "no"
  /\ ready' = [ready EXCEPT ![f] = "yes"]
  /\ sample' = [sample EXCEPT ![f][at[f]] = node]
  /\ count' = [count EXCEPT ![f] = IF at[f] = 1 THEN counter ELSE @]
  /\ UNCHANGED <<page, nodeVars, at, shown, faults, overlap, rateVars>>

(* Its answer arrives: the results due now are set, and the next call is   *)
(* made, or the fetch is over.                                             *)
\* Mutant: a result is set as soon as it is there.
DueEach(n) == {n}

Due(n) == {j \in Calls(page) : SetAfter(page)[j] = n}

Arrives(f) ==
  LET n == at[f] IN
  /\ n # 0 /\ ready[f] = "yes"
  /\ shown' = [j \in Calls(page) |-> IF j \in Due(n) THEN sample[f][j] ELSE shown[j]]
  /\ at' = [at EXCEPT ![f] = IF n = Len(SetAfter(page)) THEN 0 ELSE n + 1]
  /\ ready' = [ready EXCEPT ![f] = "no"]
  /\ sample' = [sample EXCEPT ![f] = IF n = Len(SetAfter(page)) THEN [j \in Calls(page) |-> 0] ELSE @]
  /\ count' = [count EXCEPT ![f] = 0]
  /\ IF n = 1 THEN Rate(count[f]) ELSE UNCHANGED rateVars
  /\ UNCHANGED <<page, nodeVars, faults, overlap>>

CallFails(f) ==
  /\ at[f] # 0 /\ faults < MaxFaults
  /\ at' = [at EXCEPT ![f] = 0] /\ ready' = [ready EXCEPT ![f] = "no"]
  /\ sample' = [sample EXCEPT ![f] = [j \in Calls(page) |-> 0]]
  /\ count' = [count EXCEPT ![f] = 0]
  /\ faults' = faults + 1
  /\ UNCHANGED <<page, nodeVars, shown, overlap, rateVars>>

NodeAdvances ==
  /\ node < MaxVersion[page]
  /\ node' = node + 1 /\ counter' = IF page \in Rated THEN counter + 1 ELSE counter
  /\ UNCHANGED <<page, resets, at, ready, sample, count, shown, faults, overlap, rateVars>>

(* The node stops and starts, or a repair worker begins another job or     *)
(* asks another source; after a stop it has no job.                        *)
NodeResets ==
  /\ page \in Rated
  /\ node < MaxVersion[page] /\ resets < MaxResets
  /\ node' = node + 1 /\ resets' = resets + 1
  /\ counter' \in (IF page = "Repair" THEN {-1, 0} ELSE {0})
  /\ UNCHANGED <<page, at, ready, sample, count, shown, faults, overlap, rateVars>>

Next ==
  \/ NodeAdvances
  \/ NodeResets
  \/ \E f \in Fetch : Interval(f) \/ NodeAnswers(f) \/ Arrives(f) \/ CallFails(f)

Spec == Init /\ [][Next]_vars

-------------------------------------------------------------------------------
Version == 0..MaxVersion[page]
TypeOK ==
  /\ page \in Page /\ node \in Version /\ counter \in Version \cup {-1} /\ resets \in 0..MaxResets
  /\ count \in [Fetch -> Version \cup {-1}]
  /\ at \in [Fetch -> Calls(page) \cup {0}] /\ ready \in [Fetch -> {"no", "yes"}]
  /\ sample \in [Fetch -> [Calls(page) -> Version]] /\ shown \in [Calls(page) -> Version]
  /\ faults \in 0..MaxFaults /\ overlap \in {"no", "yes"}
  /\ prev \in Version \cup {-1} /\ first \in Version \cup {-1}
  /\ total \in Int /\ ema \in Int /\ emaKind \in {"num", "inf", "-inf", "nan"} /\ burst \in {"no", "yes"}

(***************************************************************************)
(* What is set together was asked for in one fetch: of two such results    *)
(* the one asked for later is not the older one, although fetches overlap  *)
(* and their answers come in any order (Status.fetchStatus: eight results  *)
(* after the last call; DealCountsChart: both counts of one fetch).        *)
(***************************************************************************)
SetTogether ==
  \A j, k \in Calls(page) :
    j <= k /\ SetAfter(page)[j] = SetAfter(page)[k] => shown[j] <= shown[k]

(***************************************************************************)
(* The differences that make up a rate add up to what the counter grew by  *)
(* from the first answer to the last, also when it started again between:  *)
(* nothing is counted twice or lost, in whatever order the answers of      *)
(* overlapping fetches come.                                               *)
(***************************************************************************)
RatesAddUp == prev # -1 => total = prev - first

(***************************************************************************)
(* A page whose fetches never overlapped shows no data going back, and no  *)
(* negative rate until the counter starts again (the 1 s intervals assume  *)
(* answers within a second; Repair.js:37 subtracts a FetchProgress that    *)
(* deal_repair.go sets back to 0).                                         *)
(***************************************************************************)
ForwardUnlessOverlap ==
  [][overlap = "no" => /\ \A j \in Calls(page) : shown'[j] >= shown[j]
                       /\ resets = 0 => ema' >= 0]_vars

(***************************************************************************)
(* A rate is a number as long as no two answers came within a millisecond; *)
(* formatNum does not end for an infinite one (GoRuntimeStats).            *)
(***************************************************************************)
RateFinite == burst = "no" => emaKind = "num"

(***************************************************************************)
(* What the tiles make of a counter, whatever the order of the answers:    *)
(* the differences add up, and the average of the rates is a number.       *)
(***************************************************************************)
RatesSound == RatesAddUp /\ RateFinite

(***************************************************************************)
(* When the node's data no longer change, every result shown comes to be   *)
(* the node's, after calls that failed as well (setInterval).              *)
(***************************************************************************)
BecomesCurrent == <>[](\A j \in Calls(page) : shown[j] = node)
===============================================================================
