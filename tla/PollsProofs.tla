----------------------------- MODULE PollsProofs ------------------------------
(***************************************************************************)
(* What holds of Polls for any number of overlapping fetches, failures,    *)
(* versions and restarts of a counter: results set together are of one     *)
(* time, the differences a rate is made of add up, and without overlap     *)
(* nothing shown goes back, nor is a rate negative until the restart.      *)
(***************************************************************************)
EXTENDS Polls, TLAPS

USE VersionAssumption, FaultsAssumption, ElapsedAssumption
  DEF VersionAssumption, FaultsAssumption, ElapsedAssumption

(* A result is set after its call, at a call of the poll.                  *)
LEMMA SetAfterIs ==
  ASSUME NEW p \in Page
  PROVE  /\ Len(SetAfter(p)) \in Nat \ {0}
         /\ \A j \in Calls(p) : SetAfter(p)[j] \in Calls(p) /\ j <= SetAfter(p)[j]
<1>1. SetAfter(p) \in {<<1>>, <<1, 2>>, <<2, 2>>, Status}
  BY DEF SetAfter, GroupsTile, TopIndexTile, IoStats, StagingStats, P2PNodes, GoRuntimeStats,
         Providers, ContentHead, WorkerStats, CarUploadStatsTile, Provider, Repair, Groups,
         DealCountsChart
<1>2. CASE SetAfter(p) = <<1>>
  BY <1>2 DEF Calls
<1>3. CASE SetAfter(p) = <<1, 2>>
  BY <1>3 DEF Calls
<1>4. CASE SetAfter(p) = <<2, 2>>
  BY <1>4 DEF Calls
<1>5. CASE SetAfter(p) = Status
  <2>1. Len(Status) = 9
    BY DEF Status
  <2>2. \A j \in 1..9 : Status[j] = IF j = 1 THEN 1 ELSE 9
    BY DEF Status
  <2> QED BY <1>5, <2>1, <2>2 DEF Calls
<1> QED BY <1>1, <1>2, <1>3, <1>4, <1>5

(* What a fetch has: the results of the calls answered so far, none newer  *)
(* than the node's data, in the order of the calls.                        *)
Got(f, j) == at[f] # 0 /\ (j < at[f] \/ (j = at[f] /\ ready[f] = "yes"))
Samples ==
  /\ \A f \in Fetch, j \in Calls(page) : sample[f][j] <= node
  /\ \A f \in Fetch, j, k \in Calls(page) : j <= k /\ Got(f, k) => sample[f][j] <= sample[f][k]

(* What is known of the rates: the sum of the differences, and when the    *)
(* average is a number.                                                    *)
Rates ==
  /\ RatesAddUp
  /\ prev = -1 => total = 0
  /\ RateFinite

(* TypeOK in three parts.                                                  *)
PollTypes ==
  /\ page \in Page /\ node \in Version
  /\ at \in [Fetch -> Calls(page) \cup {0}] /\ ready \in [Fetch -> {"no", "yes"}]
  /\ sample \in [Fetch -> [Calls(page) -> Version]] /\ shown \in [Calls(page) -> Version]
  /\ faults \in 0..MaxFaults /\ overlap \in {"no", "yes"}
CountTypes ==
  /\ counter \in Version \cup {-1} /\ resets \in 0..MaxResets
  /\ count \in [Fetch -> Version \cup {-1}]
RateTypes ==
  /\ prev \in Version \cup {-1} /\ first \in Version \cup {-1}
  /\ total \in Int /\ ema \in Int /\ emaKind \in {"num", "inf", "-inf", "nan"} /\ burst \in {"no", "yes"}

PollInv == PollTypes /\ Samples /\ SetTogether
CountInv == CountTypes /\ counter <= node
RateInv == RateTypes /\ Rates
Inv == PollInv /\ CountInv /\ RateInv

LEMMA TypeParts == TypeOK <=> PollTypes /\ CountTypes /\ RateTypes
BY DEF TypeOK, PollTypes, CountTypes, RateTypes

LEMMA VersionIs ==
  ASSUME page \in Page
  PROVE  MaxVersion[page] \in Nat /\ Version = 0..MaxVersion[page]
BY DEF Version

LEMMA InitInv == Init => Inv
<1> SUFFICES ASSUME Init PROVE Inv
  OBVIOUS
<1>1. page \in Page /\ 0 \in Version
  BY DEF Init, Version
<1>2. /\ sample = [f \in Fetch |-> [j \in Calls(page) |-> 0]]
      /\ shown = [j \in Calls(page) |-> 0] /\ node = 0
  BY DEF Init
<1>3. PollTypes
  BY <1>1, <1>2 DEF Init, PollTypes
<1>4. RateTypes /\ Rates
  BY <1>1 DEF Init, RateTypes, Rates, RatesAddUp, RateFinite
<1>5. Samples /\ SetTogether
  BY <1>2 DEF Samples, SetTogether
<1>6. CountInv
  BY <1>1 DEF Init, CountInv, CountTypes
<1> QED BY <1>3, <1>4, <1>5, <1>6 DEF Inv, PollInv, RateInv

LEMMA RateFrame ==
  ASSUME RateInv, UNCHANGED <<page, rateVars>>
  PROVE  RateInv'
BY DEF RateInv, RateTypes, Rates, RatesAddUp, RateFinite, rateVars, Version

-------------------------------------------------------------------------------
(* The fetches.                                                            *)
LEMMA IntervalKeeps ==
  ASSUME PollInv, NEW f \in Fetch, Interval(f)
  PROVE  PollInv'
<1>1. UNCHANGED <<page, node, sample, shown, faults>>
  BY DEF Interval, nodeVars
<1>2. 1 \in Calls(page)
  BY SetAfterIs DEF PollInv, PollTypes, Calls
<1>3. /\ at' = [at EXCEPT ![f] = 1] /\ ready' = [ready EXCEPT ![f] = "no"]
      /\ overlap' \in {"no", "yes"}
  BY DEF Interval, PollInv, PollTypes
<1>4. PollTypes'
  BY <1>1, <1>2, <1>3 DEF PollInv, PollTypes, Version, Calls
<1>5. ASSUME NEW g \in Fetch, NEW k \in Calls(page), Got(g, k)' PROVE Got(g, k)
  <2>1. CASE g = f
    BY <1>3, <1>5, <2>1 DEF Got, PollInv, PollTypes, Calls
  <2>2. CASE g # f
    BY <1>3, <1>5, <2>2 DEF Got, PollInv, PollTypes
  <2> QED BY <2>1, <2>2
<1>6. Samples' /\ SetTogether'
  BY <1>1, <1>5 DEF PollInv, Samples, SetTogether, Calls
<1> QED BY <1>4, <1>6 DEF PollInv

LEMMA AnswersKeeps ==
  ASSUME PollInv, NEW f \in Fetch, NodeAnswers(f)
  PROVE  PollInv'
<1> DEFINE n == at[f]
<1>1. /\ UNCHANGED <<page, node, at, shown, faults, overlap>>
      /\ n \in Calls(page) /\ ready[f] = "no"
      /\ ready' = [ready EXCEPT ![f] = "yes"]
  BY DEF NodeAnswers, nodeVars, PollInv, PollTypes
<1>2. ASSUME NEW g \in Fetch, NEW j \in Calls(page)
      PROVE  sample'[g][j] = IF g = f /\ j = n THEN node ELSE sample[g][j]
  BY DEF NodeAnswers, PollInv, PollTypes
<1>3. sample' \in [Fetch -> [Calls(page) -> Version]]
  BY <1>1 DEF NodeAnswers, PollInv, PollTypes
<1>4. PollTypes'
  BY <1>1, <1>3 DEF PollInv, PollTypes, Version, Calls
<1>5. \A g \in Fetch, j \in Calls(page) : sample[g][j] \in Nat /\ node \in Nat /\ j \in Nat
  <2>1. \A j \in Calls(page) : j \in Nat
    BY SetAfterIs DEF PollInv, PollTypes, Calls
  <2>2. \A g \in Fetch, j \in Calls(page) : sample[g][j] \in Nat /\ node \in Nat
    BY VersionIs DEF PollInv, PollTypes
  <2> QED BY <2>1, <2>2
<1>6. ASSUME NEW g \in Fetch, NEW j \in Calls(page) PROVE sample'[g][j] <= node'
  BY <1>1, <1>2, <1>5 DEF PollInv, Samples
<1>7. ASSUME NEW g \in Fetch, NEW j \in Calls(page), NEW k \in Calls(page), j <= k, Got(g, k)'
      PROVE  sample'[g][j] <= sample'[g][k]
  <2>1. CASE g = f /\ k = n
    BY <1>1, <1>2, <1>5, <1>6, <2>1
  <2>2. CASE ~(g = f /\ k = n)
    <3>1. Got(g, k)
      BY <1>1, <1>7, <2>2 DEF Got, PollInv, PollTypes
    <3>2. ~(g = f /\ j = n)
      BY <1>1, <1>5, <1>7, <3>1 DEF Got
    <3>3. sample'[g][j] = sample[g][j] /\ sample'[g][k] = sample[g][k]
      BY <1>2, <2>2, <3>2
    <3> QED BY <1>7, <3>1, <3>3 DEF PollInv, Samples
  <2> QED BY <2>1, <2>2
<1>8. Samples' /\ SetTogether'
  BY <1>1, <1>6, <1>7 DEF PollInv, Samples, SetTogether, Calls
<1> QED BY <1>4, <1>8 DEF PollInv

LEMMA ArrivesKeeps ==
  ASSUME PollInv, NEW f \in Fetch, Arrives(f)
  PROVE  PollInv'
<1> DEFINE n == at[f]
           last == Len(SetAfter(page))
<1>1. /\ UNCHANGED <<page, node, faults, overlap>>
      /\ n \in Calls(page) /\ ready[f] = "yes"
      /\ shown' = [j \in Calls(page) |-> IF j \in Due(n) THEN sample[f][j] ELSE shown[j]]
      /\ at' = [at EXCEPT ![f] = IF n = last THEN 0 ELSE n + 1]
      /\ ready' = [ready EXCEPT ![f] = "no"]
      /\ sample' = [sample EXCEPT ![f] = IF n = last THEN [j \in Calls(page) |-> 0] ELSE sample[f]]
  BY DEF Arrives, nodeVars, PollInv, PollTypes
<1>2. last \in Nat \ {0} /\ Calls(page) = 1..last /\ page \in Page
  BY SetAfterIs DEF PollInv, PollTypes, Calls
<1>3. 0 \in Version /\ \A g \in Fetch, j \in Calls(page) : sample[g][j] \in Nat /\ node \in Nat
  BY VersionIs DEF PollInv, PollTypes
<1>4. at' \in [Fetch -> Calls(page) \cup {0}]
  BY <1>1, <1>2 DEF PollInv, PollTypes
<1>5. sample' \in [Fetch -> [Calls(page) -> Version]]
  BY <1>1, <1>3 DEF PollInv, PollTypes
<1>6. shown' \in [Calls(page) -> Version]
  BY <1>1 DEF PollInv, PollTypes
<1>7. ready' \in [Fetch -> {"no", "yes"}]
  BY <1>1 DEF PollInv, PollTypes
<1>8. PollTypes'
  BY <1>1, <1>4, <1>5, <1>6, <1>7 DEF PollInv, PollTypes, Version, Calls
<1>9. ASSUME NEW g \in Fetch, NEW j \in Calls(page)
      PROVE  sample'[g][j] = IF g = f /\ n = last THEN 0 ELSE sample[g][j]
  BY <1>1 DEF PollInv, PollTypes
<1>10. ASSUME NEW g \in Fetch, NEW k \in Calls(page), Got(g, k)'
       PROVE  Got(g, k) /\ ~(g = f /\ n = last)
  <2>1. CASE g = f
    BY <1>1, <1>2, <1>10, <2>1 DEF Got, PollInv, PollTypes
  <2>2. CASE g # f
    BY <1>1, <1>10, <2>2 DEF Got, PollInv, PollTypes
  <2> QED BY <2>1, <2>2
<1>11. Samples'
  <2>1. ASSUME NEW g \in Fetch, NEW j \in Calls(page) PROVE sample'[g][j] <= node'
    BY <1>1, <1>3, <1>9 DEF PollInv, Samples
  <2>2. ASSUME NEW g \in Fetch, NEW j \in Calls(page), NEW k \in Calls(page), j <= k, Got(g, k)'
        PROVE  sample'[g][j] <= sample'[g][k]
    BY <1>9, <1>10, <2>2 DEF PollInv, Samples
  <2> QED BY <1>1, <2>1, <2>2 DEF Samples, Calls
<1>12. ASSUME NEW j \in Calls(page), NEW k \in Calls(page), j <= k,
              SetAfter(page)[j] = SetAfter(page)[k]
       PROVE  shown'[j] <= shown'[k]
  <2>1. CASE SetAfter(page)[j] = n
    <3>1. j \in Due(n) /\ k \in Due(n)
      BY <1>12, <2>1 DEF Due
    <3>2. k <= n
      BY <1>2, <1>12, <2>1, SetAfterIs
    <3>3. Got(f, k)
      BY <1>1, <1>2, <3>2 DEF Got
    <3> QED BY <1>1, <1>12, <3>1, <3>3 DEF PollInv, Samples
  <2>2. CASE SetAfter(page)[j] # n
    <3>1. j \notin Due(n) /\ k \notin Due(n)
      BY <1>12, <2>2 DEF Due
    <3> QED BY <1>1, <1>12, <3>1 DEF PollInv, SetTogether
  <2> QED BY <2>1, <2>2
<1>13. SetTogether'
  BY <1>1, <1>12 DEF SetTogether, Calls
<1> QED BY <1>8, <1>11, <1>13 DEF PollInv

LEMMA FailsKeeps ==
  ASSUME PollInv, NEW f \in Fetch, CallFails(f)
  PROVE  PollInv'
<1>1. /\ UNCHANGED <<page, node, shown, overlap>>
      /\ at' = [at EXCEPT ![f] = 0] /\ ready' = [ready EXCEPT ![f] = "no"]
      /\ sample' = [sample EXCEPT ![f] = [j \in Calls(page) |-> 0]]
      /\ faults' \in 0..MaxFaults
  BY DEF CallFails, nodeVars, PollInv, PollTypes
<1>2. 0 \in Version /\ \A g \in Fetch, j \in Calls(page) : sample[g][j] \in Nat /\ node \in Nat
  BY VersionIs DEF PollInv, PollTypes
<1>3. sample' \in [Fetch -> [Calls(page) -> Version]]
  BY <1>1, <1>2 DEF PollInv, PollTypes
<1>4. PollTypes'
  BY <1>1, <1>3 DEF PollInv, PollTypes, Version, Calls
<1>5. ASSUME NEW g \in Fetch, NEW j \in Calls(page)
      PROVE  sample'[g][j] = IF g = f THEN 0 ELSE sample[g][j]
  BY <1>1 DEF PollInv, PollTypes
<1>6. ASSUME NEW g \in Fetch, NEW k \in Calls(page), Got(g, k)'
      PROVE  Got(g, k) /\ g # f
  BY <1>1, <1>6 DEF Got, PollInv, PollTypes
<1>7. Samples'
  <2>1. ASSUME NEW g \in Fetch, NEW j \in Calls(page) PROVE sample'[g][j] <= node'
    BY <1>1, <1>2, <1>5 DEF PollInv, Samples
  <2>2. ASSUME NEW g \in Fetch, NEW j \in Calls(page), NEW k \in Calls(page), j <= k, Got(g, k)'
        PROVE  sample'[g][j] <= sample'[g][k]
    BY <1>5, <1>6, <2>2 DEF PollInv, Samples
  <2> QED BY <1>1, <2>1, <2>2 DEF Samples, Calls
<1>8. SetTogether'
  BY <1>1 DEF PollInv, SetTogether, Calls
<1> QED BY <1>4, <1>7, <1>8 DEF PollInv

LEMMA NodeKeeps ==
  ASSUME PollInv, NodeAdvances \/ NodeResets
  PROVE  PollInv'
<1>1. /\ UNCHANGED <<page, at, ready, sample, shown, faults, overlap>>
      /\ node' = node + 1 /\ node < MaxVersion[page]
  BY DEF NodeAdvances, NodeResets
<1>2. PollTypes'
  BY <1>1, VersionIs DEF PollInv, PollTypes, Version, Calls
<1>3. \A g \in Fetch, j \in Calls(page) : sample[g][j] \in Nat /\ node \in Nat
  BY VersionIs DEF PollInv, PollTypes
<1>4. Samples' /\ SetTogether'
  BY <1>1, <1>3 DEF PollInv, Samples, SetTogether, Calls, Got
<1> QED BY <1>2, <1>4 DEF PollInv

-------------------------------------------------------------------------------
(* The counter, which has grown by one a version at most.                  *)
LEMMA CountKeeps ==
  ASSUME PollInv, CountInv, [Next]_vars
  PROVE  CountInv'
<1>1. /\ page \in Page /\ node \in 0..MaxVersion[page] /\ MaxVersion[page] \in Nat
      /\ Version = 0..MaxVersion[page]
  BY VersionIs DEF PollInv, PollTypes
<1>2. /\ counter \in (0..MaxVersion[page]) \cup {-1} /\ resets \in 0..MaxResets
      /\ count \in [Fetch -> (0..MaxVersion[page]) \cup {-1}] /\ counter <= node
  BY <1>1 DEF CountInv, CountTypes
<1> DEFINE Kept == /\ counter' \in (0..MaxVersion[page]) \cup {-1} /\ resets' \in 0..MaxResets
                   /\ count' \in [Fetch -> (0..MaxVersion[page]) \cup {-1}] /\ counter' <= node'
                   /\ page' = page
<1>3. ASSUME NodeAdvances PROVE Kept
  <2>1. counter' \in {counter, counter + 1} /\ node' = node + 1 /\ node < MaxVersion[page]
        /\ UNCHANGED <<page, resets, count>>
    BY <1>3 DEF NodeAdvances
  <2> QED BY <1>1, <1>2, <2>1
<1>4. ASSUME NodeResets PROVE Kept
  <2>1. counter' \in {-1, 0} /\ node' = node + 1 /\ resets < MaxResets /\ resets' = resets + 1
        /\ UNCHANGED <<page, count>>
    BY <1>4 DEF NodeResets
  <2> QED BY <1>1, <1>2, <2>1
<1>5. ASSUME NEW f \in Fetch, Interval(f) \/ NodeAnswers(f) \/ Arrives(f) \/ CallFails(f)
      PROVE  Kept
  <2>1. /\ UNCHANGED <<page, node, counter, resets>>
        /\ \/ count' = count
           \/ \E v \in {0, counter, count[f]} : count' = [count EXCEPT ![f] = v]
    BY <1>5 DEF Interval, NodeAnswers, Arrives, CallFails, nodeVars
  <2> QED BY <1>1, <1>2, <2>1
<1>6. ASSUME UNCHANGED vars PROVE Kept
  BY <1>2, <1>6 DEF vars, pollVars, nodeVars
<1>7. Kept
  BY <1>3, <1>4, <1>5, <1>6 DEF Next
<1>8. Version' = 0..MaxVersion[page]
  BY <1>7 DEF Version
<1> QED BY <1>7, <1>8 DEF CountInv, CountTypes

-------------------------------------------------------------------------------
(* The rates.                                                              *)
LEMMA QuotientIs ==
  ASSUME NEW d \in Int, NEW elapsed \in Nat
  PROVE  /\ Quotient(d, elapsed)[1] \in {"num", "inf", "-inf", "nan"}
         /\ Quotient(d, elapsed)[2] \in Int
         /\ elapsed > 0 => Quotient(d, elapsed)[1] = "num"
BY DEF Quotient, Scale

LEMMA PerAnswerKeeps ==
  ASSUME RateInv, page \in Page, page' = page, NEW v \in Version, RatePerAnswer(v)
  PROVE  RateInv'
<1>1. v \in Nat /\ v # -1 /\ prev \in Int /\ first \in Int /\ total \in Int /\ ema \in Int
  BY VersionIs DEF RateInv, RateTypes
<1>2. CASE prev = -1
  BY <1>1, <1>2 DEF RatePerAnswer, RateInv, RateTypes, Rates, RatesAddUp, RateFinite, Version
<1>3. CASE prev # -1
  <2>1. /\ prev' = v /\ first' = first /\ total' = total + (v - prev) /\ total = prev - first
        /\ ema' = calcEMA(Scale * (v - prev), ema) /\ UNCHANGED <<emaKind, burst>>
    BY <1>3 DEF RatePerAnswer, RateInv, Rates, RatesAddUp
  <2>2. ema' \in Int
    BY <1>1, <2>1 DEF calcEMA, Scale
  <2>3. total' = prev' - first'
    BY <1>1, <2>1
  <2> QED BY <1>1, <2>1, <2>2, <2>3 DEF RateInv, RateTypes, Rates, RatesAddUp, RateFinite, Version
<1> QED BY <1>2, <1>3

LEMMA PerTimeKeeps ==
  ASSUME RateInv, page \in Page, page' = page, NEW v \in Version, RatePerTime(v)
  PROVE  RateInv'
<1>1. v \in Nat /\ v # -1 /\ prev \in Int /\ first \in Int /\ total \in Int /\ ema \in Int
  BY VersionIs DEF RateInv, RateTypes
<1>2. CASE prev = -1
  BY <1>1, <1>2 DEF RatePerTime, RateInv, RateTypes, Rates, RatesAddUp, RateFinite, Version
<1>3. CASE prev # -1
  <2>1. PICK elapsed \in 0..MaxElapsed :
          LET q == Quotient(v - prev, elapsed)
              old == Healed(emaKind)
          IN /\ prev' = v /\ first' = first /\ total' = total + (v - prev)
             /\ burst' = IF elapsed = 0 THEN "yes" ELSE burst
             /\ emaKind' = IF q[1] = "num" THEN old
                           ELSE IF old = "num" \/ q[1] = old THEN q[1] ELSE "nan"
             /\ ema' = IF emaKind' = "num" THEN calcEMA(q[2], IF emaKind = "num" THEN ema ELSE 0)
                       ELSE 0
    BY <1>3 DEF RatePerTime
  <2> DEFINE q == Quotient(v - prev, elapsed)
  <2>2. /\ q[1] \in {"num", "inf", "-inf", "nan"} /\ q[2] \in Int
        /\ elapsed > 0 => q[1] = "num"
    BY <1>1, QuotientIs
  <2>3. Healed(emaKind) \in {"num", "inf", "-inf", "nan"} /\ (emaKind = "num" => Healed(emaKind) = "num")
    BY DEF Healed, RateInv, RateTypes
  <2> HIDE DEF q
  <2>4. emaKind' \in {"num", "inf", "-inf", "nan"} /\ burst' \in {"no", "yes"}
    BY <2>1, <2>2, <2>3 DEF q, RateInv, RateTypes
  <2>5. burst' = "no" => burst = "no" /\ q[1] = "num" /\ emaKind' = Healed(emaKind)
    BY <2>1, <2>2 DEF q
  <2>6. RateFinite'
    BY <2>3, <2>5 DEF RateInv, Rates, RateFinite
  <2>7. ema' \in Int
    BY <1>1, <2>1, <2>2 DEF q, calcEMA
  <2>8. total' = prev' - first' /\ total' \in Int
    BY <1>1, <1>3, <2>1 DEF RateInv, Rates, RatesAddUp
  <2>9. prev' \in Version' \cup {-1} /\ first' \in Version' \cup {-1} /\ prev' # -1
    BY <1>1, <2>1 DEF RateInv, RateTypes, Version
  <2> QED BY <2>4, <2>6, <2>7, <2>8, <2>9 DEF RateInv, RateTypes, Rates, RatesAddUp
<1> QED BY <1>2, <1>3

LEMMA RateKeeps ==
  ASSUME Inv, NEW f \in Fetch, Arrives(f)
  PROVE  RateInv'
<1>1. page \in Page /\ page' = page
  BY DEF Inv, PollInv, PollTypes, Arrives
<1>2. count[f] \in Version \cup {-1}
  BY DEF Inv, CountInv, CountTypes
<1>3. CASE at[f] = 1 /\ Rate(count[f])
  <2>1. CASE UNCHANGED rateVars
    BY <1>1, <2>1, RateFrame DEF Inv
  <2>2. CASE Absent
    BY <1>1, <2>2 DEF Absent, Inv, RateInv, RateTypes, Rates, RatesAddUp, RateFinite, Version
  <2>3. CASE count[f] # -1 /\ (RatePerAnswer(count[f]) \/ RatePerTime(count[f]))
    BY <1>1, <1>2, <2>3, PerAnswerKeeps, PerTimeKeeps DEF Inv
  <2> QED BY <1>3, <2>1, <2>2, <2>3 DEF Rate
<1>4. CASE UNCHANGED rateVars
  BY <1>1, <1>4, RateFrame DEF Inv
<1> QED BY <1>3, <1>4 DEF Arrives

-------------------------------------------------------------------------------
LEMMA NextInv == Inv /\ [Next]_vars => Inv'
<1> SUFFICES ASSUME Inv, [Next]_vars PROVE Inv'
  OBVIOUS
<1>0. CountInv'
  BY CountKeeps DEF Inv
<1>1. CASE NodeAdvances \/ NodeResets
  BY <1>0, <1>1, NodeKeeps, RateFrame DEF Inv, NodeAdvances, NodeResets
<1>2. ASSUME NEW f \in Fetch, Interval(f) PROVE Inv'
  BY <1>0, <1>2, IntervalKeeps, RateFrame DEF Inv, Interval
<1>3. ASSUME NEW f \in Fetch, NodeAnswers(f) PROVE Inv'
  BY <1>0, <1>3, AnswersKeeps, RateFrame DEF Inv, NodeAnswers
<1>4. ASSUME NEW f \in Fetch, Arrives(f) PROVE Inv'
  BY <1>0, <1>4, ArrivesKeeps, RateKeeps DEF Inv
<1>5. ASSUME NEW f \in Fetch, CallFails(f) PROVE Inv'
  BY <1>0, <1>5, FailsKeeps, RateFrame DEF Inv, CallFails
<1>6. CASE UNCHANGED vars
  <2>1. UNCHANGED <<page, node, at, ready, sample, shown, faults, overlap>> /\ UNCHANGED rateVars
    BY <1>6 DEF vars, pollVars, nodeVars
  <2>2. PollInv'
    BY <2>1 DEF Inv, PollInv, PollTypes, Samples, SetTogether, Version, Calls, Got
  <2> QED BY <1>0, <2>1, <2>2, RateFrame DEF Inv
<1> QED BY <1>1, <1>2, <1>3, <1>4, <1>5, <1>6 DEF Next

(***************************************************************************)
(* Every variable keeps its type: TypeOK.                                  *)
(***************************************************************************)
THEOREM TypeCorrect == Spec => []TypeOK
<1>1. Init => Inv
  BY InitInv
<1>2. Inv /\ [Next]_vars => Inv'
  BY NextInv
<1>3. Inv => TypeOK
  BY TypeParts DEF Inv, PollInv, CountInv, RateInv
<1> QED BY <1>1, <1>2, <1>3, PTL DEF Spec

(***************************************************************************)
(* Results set together are those of one fetch, asked for in order, for    *)
(* any number of overlapping fetches (fetchStatus): SetTogether.           *)
(***************************************************************************)
THEOREM SetTogetherAlways == Spec => []SetTogether
<1>1. Init => Inv
  BY InitInv
<1>2. Inv /\ [Next]_vars => Inv'
  BY NextInv
<1>3. Inv => SetTogether
  BY DEF Inv, PollInv
<1> QED BY <1>1, <1>2, <1>3, PTL DEF Spec

(***************************************************************************)
(* The differences a rate is made of add up to the growth of its counter,  *)
(* whatever the order of the answers, and a rate is a number as long as    *)
(* answers are a millisecond apart (calcEMA's callers): RatesSound.        *)
(***************************************************************************)
THEOREM RatesSoundAlways == Spec => []RatesSound
<1>1. Init => Inv
  BY InitInv
<1>2. Inv /\ [Next]_vars => Inv'
  BY NextInv
<1>3. Inv => RatesSound
  BY DEF Inv, RateInv, Rates, RatesSound
<1> QED BY <1>1, <1>2, <1>3, PTL DEF Spec
-------------------------------------------------------------------------------
(***************************************************************************)
(* Without overlap.  As long as no two fetches were on their way at a      *)
(* time, what the one fetch has is no older than what is shown; and as     *)
(* long as the counter did not start again, the fetch's is not smaller     *)
(* than the last one, and the average is not negative.                     *)
(***************************************************************************)
NotOlder ==
  /\ \A j \in Calls(page) : shown[j] <= node
  /\ \A f \in Fetch, j \in Calls(page) : Got(f, j) => shown[j] <= sample[f][j]
OneFetch == \A f, g \in Fetch : at[f] # 0 /\ at[g] # 0 => f = g
NotLess ==
  /\ prev <= counter
  /\ \A f \in Fetch : at[f] = 1 /\ ready[f] = "yes" => prev <= count[f] /\ count[f] <= counter
  /\ ema >= 0
Grown == resets = 0 => NotLess
ForwardInv == overlap = "no" => OneFetch /\ NotOlder /\ Grown

(* What a step without overlap keeps: ForwardUnlessOverlap's action.       *)
Forward == overlap = "no" => /\ \A j \in Calls(page) : shown'[j] >= shown[j]
                             /\ resets = 0 => ema' >= 0

(* Numbers: an average of rates that are not negative is not negative.     *)
LEMMA AverageIs ==
  ASSUME NEW rate \in Nat, NEW avg \in Nat
  PROVE  calcEMA(rate, avg) \in Nat
BY DEF calcEMA

(* Nor is a quotient of two numbers that are not.                          *)
LEMMA DivIs ==
  ASSUME NEW a \in Nat, NEW b \in Nat \ {0}
  PROVE  a \div b \in Nat
OBVIOUS

(* A step that leaves the fetches alone, and what is shown, goes forward.  *)
LEMMA SameForward ==
  ASSUME Inv, ForwardInv, UNCHANGED <<page, at, ready, sample, count, shown, overlap, prev, ema>>,
         node' \in Nat, node' >= node, counter' \in Int,
         resets' = 0 => resets = 0 /\ counter' >= counter
  PROVE  ForwardInv' /\ Forward
<1>1. node \in Nat /\ \A j \in Calls(page) : shown[j] \in Nat
  BY VersionIs DEF Inv, PollInv, PollTypes
<1>2. prev \in Int /\ ema \in Int /\ counter \in Int /\ \A f \in Fetch : count[f] \in Int
  BY VersionIs DEF Inv, RateInv, RateTypes, CountInv, CountTypes, PollInv, PollTypes
<1>3. ASSUME overlap = "no" PROVE OneFetch' /\ NotOlder' /\ Grown'
  <2>1. OneFetch /\ NotOlder /\ Grown
    BY <1>3 DEF ForwardInv
  <2>2. OneFetch'
    BY <2>1 DEF OneFetch
  <2>3. NotOlder'
    BY <1>1, <2>1 DEF NotOlder, Got, Calls
  <2>4. Grown'
    BY <1>1, <1>2, <2>1 DEF Grown, NotLess
  <2> QED BY <2>2, <2>3, <2>4
<1>4. Forward
  BY <1>1, <1>2 DEF Forward, ForwardInv, Grown, NotLess
<1> QED BY <1>3, <1>4 DEF ForwardInv

(* A rate of a counter that did not shrink is not negative.                *)
LEMMA RateForward ==
  ASSUME RateInv, page \in Page, NEW v \in Version \cup {-1}, prev <= v, ema >= 0, Rate(v)
  PROVE  ema' >= 0 /\ prev' \in {prev, v}
<1>1. v \in Int /\ prev \in Int /\ ema \in Nat /\ (prev # -1 => prev \in Nat)
  BY VersionIs DEF RateInv, RateTypes
<1>2. CASE UNCHANGED rateVars
  BY <1>1, <1>2 DEF rateVars
<1>3. CASE RatePerAnswer(v)
  <2>1. CASE prev = -1
    BY <1>1, <1>3, <2>1 DEF RatePerAnswer
  <2>2. CASE prev # -1
    <3>1. prev' = v /\ ema' = calcEMA(Scale * (v - prev), ema)
      BY <1>3, <2>2 DEF RatePerAnswer
    <3>2. Scale * (v - prev) \in Nat
      BY <1>1, <2>2 DEF Scale
    <3> QED BY <1>1, <3>1, <3>2, AverageIs
  <2> QED BY <2>1, <2>2
<1>4. CASE RatePerTime(v)
  <2>1. CASE prev = -1
    BY <1>1, <1>4, <2>1 DEF RatePerTime
  <2>2. CASE prev # -1
    <3>1. PICK elapsed \in 0..MaxElapsed :
            /\ prev' = v
            /\ ema' = IF emaKind' = "num"
                      THEN calcEMA(Quotient(v - prev, elapsed)[2], IF emaKind = "num" THEN ema ELSE 0)
                      ELSE 0
      BY <1>4, <2>2 DEF RatePerTime
    <3>2. Quotient(v - prev, elapsed)[2] \in Nat
      <4>1. CASE elapsed > 0
        <5>1. Scale * (v - prev) \in Nat /\ elapsed \in Nat \ {0}
          BY <1>1, <2>2, <4>1 DEF Scale
        <5>2. (Scale * (v - prev)) \div elapsed \in Nat
          BY <5>1, DivIs
        <5> QED BY <4>1, <5>2 DEF Quotient
      <4>2. CASE ~(elapsed > 0)
        BY <4>2 DEF Quotient
      <4> QED BY <4>1, <4>2
    <3>3. (IF emaKind = "num" THEN ema ELSE 0) \in Nat
      BY <1>1
    <3>4. calcEMA(Quotient(v - prev, elapsed)[2], IF emaKind = "num" THEN ema ELSE 0) \in Nat
      BY <3>2, <3>3, AverageIs
    <3> QED BY <3>1, <3>4
  <2> QED BY <2>1, <2>2
<1>5. CASE v = -1 /\ Absent
  BY <1>1, <1>5 DEF Absent
<1> QED BY <1>2, <1>3, <1>4, <1>5 DEF Rate

(* The interval: a fetch that begins alone has nothing yet.                *)
LEMMA IntervalForward ==
  ASSUME Inv, ForwardInv, NEW f \in Fetch, Interval(f)
  PROVE  ForwardInv' /\ Forward
<1>1. /\ UNCHANGED <<page, node, counter, resets, sample, count, shown, rateVars>>
      /\ at' = [at EXCEPT ![f] = 1] /\ ready' = [ready EXCEPT ![f] = "no"]
      /\ overlap' = "no" => overlap = "no" /\ \A g \in Fetch : at[g] = 0
  BY DEF Interval, nodeVars
<1>2. at \in [Fetch -> Calls(page) \cup {0}] /\ ready \in [Fetch -> {"no", "yes"}]
  BY DEF Inv, PollInv, PollTypes
<1>3. ASSUME NEW g \in Fetch, NEW k \in Calls(page), Got(g, k)' PROVE Got(g, k)
  <2>1. CASE g = f
    BY <1>1, <1>2, <1>3, <2>1 DEF Got, Calls
  <2>2. CASE g # f
    BY <1>1, <1>2, <1>3, <2>2 DEF Got
  <2> QED BY <2>1, <2>2
<1>4. ASSUME overlap' = "no" PROVE OneFetch' /\ NotOlder' /\ Grown'
  <2>1. OneFetch'
    BY <1>1, <1>2, <1>4 DEF OneFetch
  <2>2. NotOlder'
    BY <1>1, <1>3, <1>4 DEF ForwardInv, NotOlder, Calls
  <2>3. Grown'
    BY <1>1, <1>2, <1>4 DEF ForwardInv, Grown, NotLess, rateVars
  <2> QED BY <2>1, <2>2, <2>3
<1>5. Forward
  <2>1. \A j \in Calls(page) : shown[j] \in Nat
    BY VersionIs DEF Inv, PollInv, PollTypes
  <2> QED BY <1>1, <2>1 DEF Forward, ForwardInv, Grown, NotLess, rateVars
<1> QED BY <1>4, <1>5 DEF ForwardInv

(* The node answers: what the fetch gets is what the node has now.         *)
LEMMA AnswersForward ==
  ASSUME Inv, ForwardInv, NEW f \in Fetch, NodeAnswers(f)
  PROVE  ForwardInv' /\ Forward
<1>1. /\ UNCHANGED <<page, node, counter, resets, at, shown, overlap, rateVars>>
      /\ ready' = [ready EXCEPT ![f] = "yes"] /\ at[f] \in Calls(page) /\ ready[f] = "no"
      /\ \A g \in Fetch, j \in Calls(page) :
           sample'[g][j] = IF g = f /\ j = at[f] THEN node ELSE sample[g][j]
      /\ \A g \in Fetch : count'[g] = IF g = f /\ at[f] = 1 THEN counter ELSE count[g]
      /\ counter \in Int
  BY VersionIs DEF NodeAnswers, nodeVars, Inv, PollInv, PollTypes, CountInv, CountTypes
<1>2. ready \in [Fetch -> {"no", "yes"}] /\ 1 \in Calls(page)
  BY SetAfterIs DEF Inv, PollInv, PollTypes, Calls
<1>3. ASSUME NEW g \in Fetch, NEW j \in Calls(page), Got(g, j)', ~(g = f /\ j = at[f])
      PROVE  Got(g, j)
  BY <1>1, <1>2, <1>3 DEF Got
<1>4. ASSUME overlap = "no" PROVE NotOlder' /\ Grown'
  <2>1. ASSUME NEW g \in Fetch, NEW j \in Calls(page), Got(g, j)' PROVE shown[j] <= sample'[g][j]
    BY <1>1, <1>3, <1>4, <2>1 DEF ForwardInv, NotOlder
  <2>2. ASSUME NEW g \in Fetch, at[g] = 1, ready'[g] = "yes", resets = 0
        PROVE  prev <= count'[g] /\ count'[g] <= counter
    BY <1>1, <1>2, <1>4, <2>2 DEF ForwardInv, Grown, NotLess
  <2>3. NotOlder'
    BY <1>1, <1>4, <2>1 DEF ForwardInv, NotOlder, Calls
  <2>4. Grown'
    BY <1>1, <1>4, <2>2 DEF ForwardInv, Grown, NotLess, rateVars
  <2> QED BY <2>3, <2>4
<1>5. Forward
  <2>1. \A j \in Calls(page) : shown[j] \in Nat
    BY VersionIs DEF Inv, PollInv, PollTypes
  <2> QED BY <1>1, <2>1 DEF Forward, ForwardInv, Grown, NotLess, rateVars
<1> QED BY <1>1, <1>4, <1>5 DEF ForwardInv, OneFetch

(* An answer arrives: what is set was in the fetch, the only one.          *)
LEMMA ArrivesForward ==
  ASSUME Inv, ForwardInv, NEW f \in Fetch, Arrives(f)
  PROVE  ForwardInv' /\ Forward
<1> DEFINE n == at[f]
           last == Len(SetAfter(page))
<1>1. /\ UNCHANGED <<page, node, counter, resets, overlap>>
      /\ n \in Calls(page) /\ ready[f] = "yes"
      /\ shown' = [j \in Calls(page) |-> IF j \in Due(n) THEN sample[f][j] ELSE shown[j]]
      /\ at' = [at EXCEPT ![f] = IF n = last THEN 0 ELSE n + 1]
      /\ ready' = [ready EXCEPT ![f] = "no"]
      /\ sample' = [sample EXCEPT ![f] = IF n = last THEN [j \in Calls(page) |-> 0] ELSE sample[f]]
      /\ count' = [count EXCEPT ![f] = 0]
      /\ IF n = 1 THEN Rate(count[f]) ELSE UNCHANGED rateVars
  BY DEF Arrives, nodeVars, Inv, PollInv, PollTypes
<1>2. last \in Nat \ {0} /\ Calls(page) = 1..last /\ page \in Page /\ 1 \in Calls(page)
  BY SetAfterIs DEF Inv, PollInv, PollTypes, Calls
<1>3. /\ at \in [Fetch -> Calls(page) \cup {0}] /\ ready \in [Fetch -> {"no", "yes"}]
      /\ sample \in [Fetch -> [Calls(page) -> Version]]
      /\ node \in Nat /\ \A j \in Calls(page) : shown[j] \in Nat
      /\ \A g \in Fetch, j \in Calls(page) : sample[g][j] \in Nat
  BY VersionIs DEF Inv, PollInv, PollTypes
<1>4. ASSUME NEW j \in Calls(page), j \in Due(n) PROVE Got(f, j)
  <2>1. j <= n
    BY <1>2, <1>4, SetAfterIs DEF Due
  <2> QED BY <1>1, <1>2, <2>1 DEF Got
<1>5. ASSUME NEW g \in Fetch, NEW j \in Calls(page), Got(g, j)'
      PROVE  Got(g, j) /\ sample'[g][j] = sample[g][j]
  <2>1. CASE g = f
    BY <1>1, <1>2, <1>3, <1>5, <2>1 DEF Got
  <2>2. CASE g # f
    BY <1>1, <1>3, <1>5, <2>2 DEF Got
  <2> QED BY <2>1, <2>2
<1>6. ASSUME overlap = "no"
      PROVE  /\ OneFetch' /\ NotOlder' /\ Grown'
             /\ \A j \in Calls(page) : shown'[j] >= shown[j]
  <2>1. OneFetch /\ NotOlder /\ Grown
    BY <1>6 DEF ForwardInv
  <2>2. OneFetch'
    <3>1. ASSUME NEW g \in Fetch, at'[g] # 0 PROVE at[g] # 0
      <4>1. CASE g = f
        BY <1>1, <1>2, <4>1
      <4>2. CASE g # f
        BY <1>1, <1>3, <3>1, <4>2
      <4> QED BY <4>1, <4>2
    <3> QED BY <2>1, <3>1 DEF OneFetch
  <2>3. \A j \in Calls(page) : shown'[j] >= shown[j] /\ shown'[j] <= node
    <3>1. \A j \in Calls(page) : sample[f][j] <= node
      BY DEF Inv, PollInv, Samples
    <3> QED BY <1>1, <1>3, <1>4, <2>1, <3>1 DEF NotOlder
  <2>4. ASSUME NEW g \in Fetch, NEW j \in Calls(page), Got(g, j)' PROVE shown'[j] <= sample'[g][j]
    <3>1. Got(g, j) /\ sample'[g][j] = sample[g][j]
      BY <1>5, <2>4
    <3>2. g = f
      BY <1>1, <1>2, <2>1, <3>1 DEF Got, OneFetch
    <3>3. shown'[j] = IF j \in Due(n) THEN sample[f][j] ELSE shown[j]
      BY <1>1
    <3> QED BY <1>3, <2>1, <3>1, <3>2, <3>3 DEF NotOlder
  <2>5. NotOlder'
    BY <1>1, <2>3, <2>4 DEF NotOlder, Calls
  <2>6. ASSUME resets = 0 PROVE ema' >= 0 /\ prev' <= counter
    <3>1. NotLess
      BY <2>1, <2>6 DEF Grown
    <3>2. CASE n = 1
      <4>1. prev <= count[f] /\ count[f] \in Version \cup {-1} /\ count[f] <= counter /\ ema >= 0
        BY <1>1, <3>1, <3>2 DEF NotLess, Inv, CountInv, CountTypes
      <4>2. Rate(count[f]) /\ RateInv
        BY <1>1, <3>2 DEF Inv
      <4>3. ema' >= 0 /\ prev' \in {prev, count[f]}
        BY <1>2, <4>1, <4>2, RateForward
      <4> QED BY <3>1, <4>1, <4>3 DEF NotLess
    <3>3. CASE n # 1
      BY <1>1, <3>1, <3>3 DEF NotLess, rateVars
    <3> QED BY <3>2, <3>3
  <2>7. ASSUME NEW g \in Fetch PROVE ~(at'[g] = 1 /\ ready'[g] = "yes")
    <3>1. CASE g = f
      BY <1>1, <1>3, <3>1
    <3>2. CASE g # f
      <4>1. at[g] = 0 /\ at'[g] = at[g]
        BY <1>1, <1>2, <1>3, <2>1, <3>2 DEF OneFetch
      <4> QED BY <4>1
    <3> QED BY <3>1, <3>2
  <2>8. Grown'
    BY <1>1, <2>6, <2>7 DEF Grown, NotLess
  <2> QED BY <2>2, <2>3, <2>5, <2>8
<1>7. overlap = "no" /\ resets = 0 => ema' >= 0
  BY <1>1, <1>6 DEF Grown, NotLess
<1> QED BY <1>1, <1>6, <1>7 DEF ForwardInv, Forward

(* A call fails: its fetch is gone with all it had.                        *)
LEMMA FailsForward ==
  ASSUME Inv, ForwardInv, NEW f \in Fetch, CallFails(f)
  PROVE  ForwardInv' /\ Forward
<1>1. /\ UNCHANGED <<page, node, counter, resets, shown, overlap, rateVars>>
      /\ at' = [at EXCEPT ![f] = 0] /\ ready' = [ready EXCEPT ![f] = "no"]
      /\ sample' = [sample EXCEPT ![f] = [j \in Calls(page) |-> 0]]
      /\ \A g \in Fetch : g # f => count'[g] = count[g]
  BY DEF CallFails, nodeVars, Inv, CountInv, CountTypes
<1>2. /\ at \in [Fetch -> Calls(page) \cup {0}] /\ ready \in [Fetch -> {"no", "yes"}]
      /\ sample \in [Fetch -> [Calls(page) -> Version]]
      /\ \A j \in Calls(page) : shown[j] \in Nat
  BY VersionIs DEF Inv, PollInv, PollTypes
<1>3. ASSUME NEW g \in Fetch, NEW j \in Calls(page), Got(g, j)'
      PROVE  Got(g, j) /\ sample'[g][j] = sample[g][j]
  BY <1>1, <1>2, <1>3 DEF Got
<1>4. ASSUME overlap = "no" PROVE OneFetch' /\ NotOlder' /\ Grown'
  <2>1. OneFetch /\ NotOlder /\ Grown
    BY <1>4 DEF ForwardInv
  <2>2. OneFetch'
    BY <1>1, <1>2, <2>1 DEF OneFetch
  <2>3. NotOlder'
    BY <1>1, <1>3, <2>1 DEF NotOlder, Calls
  <2>4. Grown'
    BY <1>1, <1>2, <2>1 DEF Grown, NotLess, rateVars
  <2> QED BY <2>2, <2>3, <2>4
<1>5. Forward
  BY <1>1, <1>2 DEF Forward, ForwardInv, Grown, NotLess, rateVars
<1> QED BY <1>1, <1>4, <1>5 DEF ForwardInv

(***************************************************************************)
(* A page whose fetches never overlapped never shows older data than it    *)
(* did, nor a negative rate until its counter starts again, for any page,  *)
(* any number of versions, calls that fail and times between answers       *)
(* (setInterval of 1 s).                                                   *)
(***************************************************************************)
THEOREM ForwardAlways == Spec => ForwardUnlessOverlap
<1>1. Init => Inv /\ ForwardInv
  <2>1. Init => OneFetch /\ NotOlder /\ Grown
    BY DEF Init, OneFetch, NotOlder, Grown, NotLess, Got
  <2> QED BY <2>1, InitInv DEF ForwardInv
<1>2. Inv /\ ForwardInv /\ [Next]_vars => Inv' /\ ForwardInv' /\ Forward
  <2> SUFFICES ASSUME Inv, ForwardInv, [Next]_vars PROVE ForwardInv' /\ Forward
    BY NextInv
  <2>1. CASE NodeAdvances \/ NodeResets
    <3>1. /\ node' \in Nat /\ node' >= node /\ counter' \in Int
          /\ resets' = 0 => resets = 0 /\ counter' >= counter
      BY <2>1, VersionIs DEF NodeAdvances, NodeResets, Inv, PollInv, PollTypes, CountInv, CountTypes
    <3> QED BY <2>1, <3>1, SameForward DEF NodeAdvances, NodeResets, rateVars
  <2>2. ASSUME NEW f \in Fetch, Interval(f) \/ NodeAnswers(f) \/ Arrives(f) \/ CallFails(f)
        PROVE  ForwardInv' /\ Forward
    BY <2>2, IntervalForward, AnswersForward, ArrivesForward, FailsForward
  <2>3. CASE UNCHANGED vars
    <3>1. /\ node' \in Nat /\ node' >= node /\ counter' \in Int
          /\ resets' = 0 => resets = 0 /\ counter' >= counter
      BY <2>3, VersionIs DEF vars, pollVars, nodeVars, Inv, PollInv, PollTypes, CountInv, CountTypes
    <3> QED BY <2>3, <3>1, SameForward DEF vars, pollVars, nodeVars, rateVars
  <2> QED BY <2>1, <2>2, <2>3 DEF Next
<1>3. [Next]_vars /\ Forward
      => [overlap = "no" => /\ \A j \in Calls(page) : shown'[j] >= shown[j]
                            /\ resets = 0 => ema' >= 0]_vars
  BY DEF Forward
<1> QED BY <1>1, <1>2, <1>3, PTL DEF Spec, ForwardUnlessOverlap
===============================================================================
