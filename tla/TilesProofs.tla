----------------------------- MODULE TilesProofs ------------------------------
(***************************************************************************)
(* The tiles run the polls and nothing else as far as these go, so what is *)
(* proved of Polls holds of them; the global upload rate counts an answer  *)
(* once and gets over its NaN; and what the pages format, count, filter    *)
(* and divide into pages can be read back, for every input.                *)
(***************************************************************************)
EXTENDS Tiles, PollsProofs, FiniteSetTheorems, SequenceTheorems, WellFoundedInduction

USE BytesAssumption, InputAssumption DEF BytesAssumption, InputAssumption

-------------------------------------------------------------------------------
(* Tiles implements Polls.                                                 *)

(* The tiles start with the polls in their initial state.                  *)
LEMMA InitRefines == TilesInit => Init
BY DEF TilesInit

(* A step of the tiles is one of the polls, or leaves them as they are.    *)
LEMMA NextRefines == [TilesNext]_tileVars => [Next]_vars
<1> SUFFICES ASSUME [TilesNext]_tileVars PROVE [Next]_vars
  OBVIOUS
<1>1. CASE CarInterval
  BY <1>1 DEF CarInterval
<1>2. CASE \E f \in Fetch : CarArrives(f)
  BY <1>2 DEF CarArrives, Next
<1>3. CASE UNCHANGED tileVars
  BY <1>3 DEF tileVars
<1>4. CASE /\ page # "Views"
           /\ \/ NodeAdvances \/ NodeResets
              \/ \E f \in Fetch : Interval(f) \/ NodeAnswers(f) \/ CallFails(f)
              \/ page # "CarUploadStatsTile" /\ \E f \in Fetch : Arrives(f)
           /\ UNCHANGED <<carVars, input>>
  BY <1>4 DEF Next
<1> QED BY <1>1, <1>2, <1>3, <1>4 DEF TilesNext

(***************************************************************************)
(* With the tile whose interval computes its rates, and with the views,    *)
(* the polls are still those of Polls (the effects of Status.js set no     *)
(* state of a fetch).                                                      *)
(***************************************************************************)
THEOREM Refines == TilesSpec => Spec
BY InitRefines, NextRefines, PTL DEF TilesSpec, Spec

(***************************************************************************)
(* So the tiles keep what the polls promise: SetTogether, RatesSound and   *)
(* ForwardUnlessOverlap.                                                   *)
(***************************************************************************)
THEOREM TilesKeepPromises ==
  TilesSpec => []SetTogether /\ []RatesSound /\ ForwardUnlessOverlap
BY Refines, SetTogetherAlways, RatesSoundAlways, ForwardAlways, PTL

-------------------------------------------------------------------------------
(***************************************************************************)
(* The global rate.  The states of the tile are what calcRates makes of    *)
(* the stats and of the states its closure has: running it again changes   *)
(* nothing.  From the second answer on the closure has a total.            *)
(***************************************************************************)
IsRate(r) == r = NaN \/ \E n \in Int : r = Num(n)
TotalOf(v) == IF v = -1 THEN -1 ELSE TotalAt[v]

ClosureInv ==
  /\ stats \in Version \cup {-1}
  /\ lastGlobalBytes = TotalOf(stats)
  /\ globalRate = GlobalRate(stats, capLast, capRate)
  /\ capLast \in Nat \cup {-1} /\ IsRate(capRate)
AnswersInv ==
  /\ answers \in 0..2
  /\ answers > 0 => stats # -1
  /\ answers = 2 => capLast \in Nat
CarInv == page = "CarUploadStatsTile" => ClosureInv /\ AnswersInv
IdleInv == page # "CarUploadStatsTile" => answers = 0
TilesInv == Inv /\ CarInv /\ IdleInv

(* A rate is a number or NaN, and never NaN from two known totals.         *)
LEMMA GlobalRateIs ==
  ASSUME page = "CarUploadStatsTile", page \in Page, NEW v \in Version \cup {-1},
         NEW last \in Nat \cup {-1}, NEW rate, IsRate(rate)
  PROVE  /\ IsRate(GlobalRate(v, last, rate))
         /\ v # -1 /\ last # -1 => GlobalRate(v, last, rate) # NaN
<1>1. CASE v = -1 \/ last = -1
  BY <1>1 DEF GlobalRate, IsRate
<1>2. CASE v # -1 /\ last # -1
  <2> DEFINE change == IF last = 0 THEN 0 ELSE TotalAt[v] - last
  <2>1. TotalAt[v] \in Nat
    BY <1>2 DEF Version, CarVersion
  <2>2. change \in Int
    BY <1>2, <2>1
  <2>3. PICK n \in Int : OrZero(rate) = Num(n)
    BY DEF IsRate, OrZero
  <2>4. OrZero(rate) # NaN /\ OrZero(rate)[2] = n
    BY <2>3 DEF Num, NaN
  <2>5. GlobalRate(v, last, rate) = Num((change + 99 * n + 50) \div 100)
    BY <1>2, <2>4 DEF GlobalRate
  <2>6. (change + 99 * n + 50) \div 100 \in Int
    BY <2>2
  <2> QED BY <2>5, <2>6 DEF IsRate, Num, NaN
<1> QED BY <1>1, <1>2

(* The first render: its NaN is what calcRates makes of no stats.          *)
LEMMA TilesInitInv == TilesInit => TilesInv
<1> SUFFICES ASSUME TilesInit PROVE TilesInv
  OBVIOUS
<1>1. Inv
  BY InitRefines, InitInv
<1>2. CarInv /\ IdleInv
  BY DEF TilesInit, CarInit, CarInv, IdleInv, ClosureInv, AnswersInv, TotalOf, GlobalRate, IsRate
<1> QED BY <1>1, <1>2 DEF TilesInv

(* An answer: the closure of the new effect has the states of this render. *)
LEMMA ArrivesCar ==
  ASSUME TilesInv, NEW f \in Fetch, CarArrives(f)
  PROVE  CarInv' /\ IdleInv'
<1> DEFINE v == sample[f][1]
<1>1. /\ page = "CarUploadStatsTile" /\ page' = page /\ page \in Page
      /\ ClosureInv /\ AnswersInv
  BY DEF CarArrives, Arrives, TilesInv, CarInv, Inv, PollInv, PollTypes
<1>2. v \in Version /\ v # -1
  <2>1. 1 \in Calls(page)
    BY <1>1, SetAfterIs DEF Calls
  <2> QED BY <1>1, <2>1, VersionIs DEF TilesInv, Inv, PollInv, PollTypes
<1>3. /\ stats' = v /\ capLast' = lastGlobalBytes /\ capRate' = globalRate
      /\ answers' = IF answers < 2 THEN answers + 1 ELSE answers
      /\ globalRate' = GlobalRate(v, lastGlobalBytes, globalRate)
      /\ lastGlobalBytes' = TotalOf(v)
  BY DEF CarArrives, NewStats, calcRates, TotalOf
<1>4. lastGlobalBytes \in Nat \cup {-1} /\ (answers > 0 => lastGlobalBytes \in Nat)
  BY <1>1 DEF ClosureInv, AnswersInv, TotalOf, Version, CarVersion
<1>5. IsRate(globalRate)
  BY <1>1, GlobalRateIs DEF ClosureInv
<1>6. ClosureInv'
  BY <1>1, <1>2, <1>3, <1>4, <1>5 DEF ClosureInv, Version, IsRate, TotalOf, GlobalRate
<1>7. AnswersInv'
  BY <1>1, <1>2, <1>3, <1>4 DEF AnswersInv
<1> QED BY <1>1, <1>6, <1>7 DEF CarInv, IdleInv

(* The interval: the same stats and closure give the same states.          *)
LEMMA IntervalCar ==
  ASSUME TilesInv, CarInterval
  PROVE  /\ CarInv' /\ IdleInv'
         /\ globalRate' = globalRate /\ lastGlobalBytes' = lastGlobalBytes
<1>1. /\ page = "CarUploadStatsTile" /\ UNCHANGED <<page, answers, stats, capLast, capRate>>
      /\ ClosureInv /\ AnswersInv
  BY DEF CarInterval, TilesInv, CarInv, vars
<1>2. /\ globalRate' = GlobalRate(stats, capLast, capRate)
      /\ lastGlobalBytes' = TotalOf(stats)
  BY DEF CarInterval, calcRates, TotalOf
<1>3. globalRate' = globalRate /\ lastGlobalBytes' = lastGlobalBytes
  BY <1>1, <1>2 DEF ClosureInv
<1>4. ClosureInv' /\ AnswersInv'
  BY <1>1, <1>3 DEF ClosureInv, AnswersInv, Version, TotalOf, GlobalRate, IsRate
<1> QED BY <1>1, <1>3, <1>4 DEF CarInv, IdleInv

(* A step of the polls leaves the states of the tile alone, and the tile   *)
(* no answer: that one is CarArrives.                                      *)
LEMMA PollsCar ==
  ASSUME TilesInv, UNCHANGED <<page, carVars>>
  PROVE  CarInv' /\ IdleInv'
BY DEF TilesInv, CarInv, IdleInv, carVars, ClosureInv, AnswersInv, Version, TotalOf, GlobalRate, IsRate

(* Only an answer and the interval run calcRates.                          *)
LEMMA TilesNextInv == TilesInv /\ [TilesNext]_tileVars => TilesInv'
<1> SUFFICES ASSUME TilesInv, [TilesNext]_tileVars PROVE TilesInv'
  OBVIOUS
<1>1. Inv'
  BY NextRefines, NextInv DEF TilesInv
<1>2. CASE CarInterval
  BY <1>1, <1>2, IntervalCar DEF TilesInv
<1>3. CASE \E f \in Fetch : CarArrives(f)
  BY <1>1, <1>3, ArrivesCar DEF TilesInv
<1>4. CASE UNCHANGED tileVars
  BY <1>1, <1>4, PollsCar DEF TilesInv, tileVars, vars
<1>5. CASE /\ \/ NodeAdvances \/ NodeResets
              \/ \E f \in Fetch : Interval(f) \/ NodeAnswers(f) \/ CallFails(f) \/ Arrives(f)
           /\ UNCHANGED <<carVars, input>>
  <2>1. page' = page
    BY <1>5 DEF NodeAdvances, NodeResets, Interval, NodeAnswers, CallFails, Arrives
  <2> QED BY <1>1, <1>5, <2>1, PollsCar DEF TilesInv
<1> QED BY <1>2, <1>3, <1>4, <1>5 DEF TilesNext

(***************************************************************************)
(* The NaN of the first renders is gone after two answers, for any byte    *)
(* counts and any order of the answers (calcRates): GlobalRateHeals.       *)
(***************************************************************************)
THEOREM GlobalRateHealsAlways == TilesSpec => []GlobalRateHeals
<1>1. TilesInv => GlobalRateHeals
  <2> SUFFICES ASSUME TilesInv, answers = 2 PROVE globalRate # NaN
    BY DEF GlobalRateHeals
  <2>1. page = "CarUploadStatsTile" /\ page \in Page /\ ClosureInv /\ AnswersInv
    BY DEF TilesInv, CarInv, IdleInv, Inv, PollInv, PollTypes
  <2>2. stats # -1 /\ capLast # -1
    BY <2>1 DEF AnswersInv
  <2> QED BY <2>1, <2>2, GlobalRateIs DEF ClosureInv
<1> QED BY <1>1, TilesInitInv, TilesNextInv, PTL DEF TilesSpec

(***************************************************************************)
(* The interval counts no growth twice: between two answers the global     *)
(* rate and the total it is taken from stay (the closure of the effect):   *)
(* GlobalOncePerAnswer.                                                    *)
(***************************************************************************)
THEOREM GlobalOncePerAnswerAlways == TilesSpec => GlobalOncePerAnswer
<1> DEFINE Once == page = "CarUploadStatsTile" /\ shown' = shown /\ at' = at
                     => globalRate' = globalRate /\ lastGlobalBytes' = lastGlobalBytes
<1>1. TilesInv /\ [TilesNext]_tileVars => Once
  <2> SUFFICES ASSUME TilesInv, [TilesNext]_tileVars, at' = at
               PROVE  globalRate' = globalRate /\ lastGlobalBytes' = lastGlobalBytes
    OBVIOUS
  <2>1. CASE CarInterval
    BY <2>1, IntervalCar
  <2>2. ASSUME NEW f \in Fetch, CarArrives(f) PROVE FALSE
    <3>1. at[f] \in Nat /\ at[f] # 0 /\ Len(SetAfter(page)) \in Nat
      BY <2>2, SetAfterIs DEF CarArrives, Arrives, TilesInv, Inv, PollInv, PollTypes, Calls
    <3>2. at'[f] # at[f]
      BY <2>2, <3>1 DEF CarArrives, Arrives, TilesInv, Inv, PollInv, PollTypes
    <3> QED BY <3>2
  <2>3. CASE UNCHANGED carVars
    BY <2>3 DEF carVars
  <2>4. CASE UNCHANGED tileVars
    BY <2>4 DEF tileVars, carVars
  <2> QED BY <2>1, <2>2, <2>3, <2>4 DEF TilesNext
<1>2. TilesInv /\ [TilesNext]_tileVars => [Once]_tileVars
  BY <1>1
<1> QED BY <1>2, TilesInitInv, TilesNextInv, PTL DEF TilesSpec, GlobalOncePerAnswer

-------------------------------------------------------------------------------
(* Durations.                                                              *)

(* Seconds taken apart into days, hours and minutes add up to the minute.  *)
LEMMA DayParts ==
  ASSUME NEW s \in Nat
  PROVE  (((s \div 86400) * 24 + (s % 86400) \div 3600) * 60 + (s % 3600) \div 60) = s \div 60
OBVIOUS

(* epochToDuration: months of 30 days, half minutes.                       *)
LEMMA EpochParts ==
  ASSUME NEW n \in Nat
  PROVE  /\ Minutes(epochToDuration(n), 30) = n \div 2
         /\ Minutes(epochToDuration(-n), 30) = n \div 2
<1> DEFINE s == 30 * n
<1>1. epochToDuration(n) = epochToDuration(-n)
  BY DEF epochToDuration
<1>2. Minutes(epochToDuration(n), 30)
      = ((((s \div 2592000) * 30 + (s % 2592000) \div 86400) * 24 + (s % 86400) \div 3600) * 60
         + (s % 3600) \div 60)
  BY DEF epochToDuration, Minutes
<1>3. (s \div 2592000) * 30 + (s % 2592000) \div 86400 = s \div 86400
  OBVIOUS
<1>4. s \div 60 = n \div 2
  OBVIOUS
<1> QED BY <1>1, <1>2, <1>3, <1>4, DayParts

(* formatTimestamp: what is left of a month, taken off by multiplication.  *)
LEMMA TimestampIs ==
  ASSUME NEW n \in Nat, NEW days \in {28, 29, 30, 31}
  PROVE  /\ formatTimestamp(n, days).months * days + formatTimestamp(n, days).days = n \div 86400
         /\ formatTimestamp(n, days).hours = (n % 86400) \div 3600
         /\ formatTimestamp(n, days).minutes = (n % 3600) \div 60
<1>1. CASE days = 28
  BY <1>1 DEF formatTimestamp
<1>2. CASE days = 29
  BY <1>2 DEF formatTimestamp
<1>3. CASE days = 30
  BY <1>3 DEF formatTimestamp
<1>4. CASE days = 31
  BY <1>4 DEF formatTimestamp
<1> QED BY <1>1, <1>2, <1>3, <1>4

-------------------------------------------------------------------------------
(***************************************************************************)
(* Induction, with sets in place of predicates: what the library has of it *)
(* takes an operator, WFMin does not.  And recursion: a function defined   *)
(* by it exists, built from its first values.                              *)
(***************************************************************************)
(* A set of numbers has a least one.                                       *)
LEMMA LeastNumber ==
  ASSUME NEW S, S \subseteq Nat, S # {}
  PROVE  \E x \in S : \A y \in S : x <= y
<1>1. PICK x \in S : \A y \in S : ~(<<y, x>> \in OpToRel(<, Nat))
  BY NatLessThanWellFounded, WFMin
<1>2. ASSUME NEW y \in S PROVE x <= y
  <2>1. x \in Nat /\ y \in Nat /\ ~(<<y, x>> \in OpToRel(<, Nat))
    BY <1>1
  <2>2. ~(y < x)
    BY <2>1 DEF OpToRel
  <2> QED
    <3>1. x \in Nat /\ y \in Nat
      BY <2>1
    <3> QED BY <2>2, <3>1
<1> QED BY <1>2

(* Induction.                                                              *)
LEMMA SetInduction ==
  ASSUME NEW S, 0 \in S, \A n \in Nat : n \in S => n + 1 \in S
  PROVE  Nat \subseteq S
<1> SUFFICES ASSUME Nat \ S # {} PROVE FALSE
  OBVIOUS
<1>1. PICK x \in Nat \ S : \A y \in Nat \ S : x <= y
  BY LeastNumber
<1>2. x - 1 \in Nat /\ x - 1 \in S
  BY <1>1
<1> QED BY <1>1, <1>2

(* Induction over all smaller numbers.                                     *)
LEMMA StrongInduction ==
  ASSUME NEW S, \A n \in Nat : (\A m \in 0..(n - 1) : m \in S) => n \in S
  PROVE  Nat \subseteq S
<1> SUFFICES ASSUME Nat \ S # {} PROVE FALSE
  OBVIOUS
<1>1. PICK x \in Nat \ S : \A y \in Nat \ S : x <= y
  BY LeastNumber
<1>2. \A m \in 0..(x - 1) : m \in S
  BY <1>1
<1> QED BY <1>1, <1>2

(* What a recursion on the naturals needs, and what it then has.           *)
Descends(V, B, c, d, h) ==
  /\ B \subseteq Nat /\ c \in V /\ d \in [Nat -> Nat] /\ h \in [Nat -> [V -> V]]
  /\ \A m \in Nat \ B : d[m] < m
Solves(f, V, B, c, d, h) ==
  /\ f \in [Nat -> V]
  /\ \A m \in Nat : f[m] = IF m \in B THEN c ELSE h[m][f[d[m]]]

(* There is a function that solves a recursion that descends.              *)
LEMMA RecursionHolds ==
  ASSUME NEW V, NEW B, NEW c, NEW d, NEW h, Descends(V, B, c, d, h)
  PROVE  \E f : Solves(f, V, B, c, d, h)
<1> USE DEF Descends
<1> DEFINE Good(k, g) ==
      /\ g \in [0..k -> V]
      /\ \A m \in 0..k : g[m] = IF m \in B THEN c ELSE h[m][g[d[m]]]
<1>1. ASSUME NEW k \in Nat PROVE \E g : Good(k, g)
  <2> DEFINE S == {i \in Nat : \E g : Good(i, g)}
  <2>1. 0 \in S
    <3>1. 0 \in B
      OBVIOUS
    <3>2. Good(0, [m \in 0..0 |-> c])
      BY <3>1
    <3> QED BY <3>2
  <2>2. ASSUME NEW i \in Nat, i \in S PROVE i + 1 \in S
    <3>1. PICK g : Good(i, g)
      BY <2>2
    <3> DEFINE new == IF i + 1 \in B THEN c ELSE h[i + 1][g[d[i + 1]]]
               gg == [m \in 0..(i + 1) |-> IF m = i + 1 THEN new ELSE g[m]]
    <3>2. new \in V
      <4>1. CASE i + 1 \notin B
        <5>1. d[i + 1] \in 0..i
          BY <4>1
        <5>2. g[d[i + 1]] \in V
          BY <3>1, <5>1
        <5> QED BY <4>1, <5>2
      <4> QED BY <4>1
    <3>3. gg \in [0..(i + 1) -> V]
      BY <3>1, <3>2
    <3>4. ASSUME NEW m \in 0..(i + 1)
          PROVE  gg[m] = IF m \in B THEN c ELSE h[m][gg[d[m]]]
      <4>1. CASE m \in B
        BY <3>1, <4>1
      <4>2. CASE m \notin B
        <5>1. d[m] \in 0..(m - 1) /\ m \in Nat
          BY <4>2
        <5>2. d[m] \in 0..i /\ d[m] # i + 1
          BY <5>1
        <5>3. gg[d[m]] = g[d[m]]
          BY <5>2
        <5>4. CASE m = i + 1
          BY <4>2, <5>3, <5>4
        <5>5. CASE m \in 0..i
          <6>1. gg[m] = g[m]
            BY <5>5
          <6>2. g[m] = h[m][g[d[m]]]
            BY <3>1, <4>2, <5>5
          <6> QED BY <4>2, <5>3, <6>1, <6>2
        <5> QED BY <5>4, <5>5
      <4> QED BY <4>1, <4>2
    <3>5. Good(i + 1, gg)
      BY <3>3, <3>4
    <3> HIDE DEF gg, Good
    <3> QED BY <3>5
  <2> HIDE DEF S
  <2>3. Nat \subseteq S
    BY <2>1, <2>2, SetInduction
  <2> QED BY <2>3 DEF S
<1>2. ASSUME NEW j \in Nat, NEW k \in Nat, j <= k, NEW g, NEW gg, Good(j, g), Good(k, gg)
      PROVE  \A m \in 0..j : g[m] = gg[m]
  <2> DEFINE T == {m \in 0..j : g[m] # gg[m]}
  <2> SUFFICES ASSUME T # {} PROVE FALSE
    OBVIOUS
  <2>1. T \subseteq Nat
    OBVIOUS
  <2> HIDE DEF T
  <2>2. PICK m \in T : \A y \in T : m <= y
    BY <2>1, LeastNumber
  <2>3. m \in 0..j /\ m \in 0..k /\ g[m] # gg[m] /\ m \in Nat
    BY <1>2, <2>2 DEF T
  <2>4. m \notin B
    BY <1>2, <2>3
  <2>5. d[m] \in 0..j /\ d[m] < m
    BY <2>3, <2>4
  <2>6. d[m] \notin T
    <3>1. d[m] \in Nat
      BY <2>3
    <3> QED BY <2>2, <2>3, <2>5, <3>1
  <2>7. g[d[m]] = gg[d[m]]
    BY <2>5, <2>6 DEF T
  <2> QED BY <1>2, <2>3, <2>4, <2>7
<1> DEFINE G(k) == CHOOSE g : Good(k, g)
           f == [m \in Nat |-> G(m)[m]]
<1>3. ASSUME NEW k \in Nat PROVE Good(k, G(k))
  BY <1>1
<1> HIDE DEF G
<1>4. f \in [Nat -> V]
  <2>1. ASSUME NEW m \in Nat PROVE G(m)[m] \in V
    BY <1>3
  <2> QED BY <2>1
<1>5. ASSUME NEW m \in Nat PROVE f[m] = IF m \in B THEN c ELSE h[m][f[d[m]]]
  <2>1. f[m] = IF m \in B THEN c ELSE h[m][G(m)[d[m]]]
    BY <1>3
  <2>2. CASE m \notin B
    <3>1. d[m] \in Nat /\ d[m] <= m /\ d[m] \in 0..d[m]
      BY <2>2
    <3>2. G(d[m])[d[m]] = G(m)[d[m]]
      <4>1. Good(d[m], G(d[m])) /\ Good(m, G(m))
        BY <1>3, <3>1
      <4> HIDE DEF Good
      <4>2. \A i \in 0..d[m] : G(d[m])[i] = G(m)[i]
        BY <1>2, <3>1, <4>1
      <4> QED BY <3>1, <4>2
    <3> QED BY <2>1, <3>1, <3>2
  <2> QED BY <2>1, <2>2
<1> HIDE DEF f
<1> QED BY <1>4, <1>5 DEF Solves

-------------------------------------------------------------------------------
(* The formatting functions.                                               *)

(* The powers that the loops divide by.                                    *)
LEMMA PowIs ==
  ASSUME NEW base \in Nat \ {0}
  PROVE  \A k \in Nat : /\ Pow(base, k) \in Nat \ {0}
                        /\ Pow(base, k) = IF k = 0 THEN 1 ELSE base * Pow(base, k - 1)
<1> DEFINE Body(f) == [k \in Nat |-> IF k = 0 THEN 1 ELSE base * f[k - 1]]
           p == CHOOSE f : f = Body(f)
<1>1. p = Body(p)
  <2> DEFINE B == {0}
             d == [m \in Nat |-> IF m = 0 THEN 0 ELSE m - 1]
             h == [m \in Nat |-> [v \in Nat |-> base * v]]
  <2>1. Descends(Nat, B, 1, d, h)
    BY DEF Descends
  <2>2. \A m \in Nat : 0 \in B /\ (m # 0 => m \notin B /\ d[m] = m - 1)
    OBVIOUS
  <2>3. \A m, v \in Nat : h[m][v] = base * v
    OBVIOUS
  <2> HIDE DEF B, d, h
  <2>4. PICK f : Solves(f, Nat, B, 1, d, h)
    BY <2>1, RecursionHolds
  <2>5. ASSUME NEW m \in Nat PROVE f[m] = IF m = 0 THEN 1 ELSE base * f[m - 1]
    <3>1. CASE m # 0
      <4>1. f[m - 1] \in Nat /\ h[m][f[m - 1]] = base * f[m - 1]
        BY <2>3, <2>4, <3>1 DEF Solves
      <4> QED BY <2>2, <2>4, <3>1, <4>1 DEF Solves
    <3> QED BY <2>2, <2>4, <3>1 DEF Solves
  <2>6. f = Body(f)
    BY <2>4, <2>5 DEF Solves
  <2> QED BY <2>6
<1>2. ASSUME NEW k \in Nat PROVE Pow(base, k) = p[k]
  BY DEF Pow
<1> HIDE DEF p
<1>3. ASSUME NEW k \in Nat PROVE p[k] = IF k = 0 THEN 1 ELSE base * p[k - 1]
  BY <1>1
<1> DEFINE S == {k \in Nat : p[k] \in Nat \ {0}}
<1>4. 0 \in S
  BY <1>3
<1>5. ASSUME NEW k \in Nat, k \in S PROVE k + 1 \in S
  <2>1. p[k + 1] = base * p[k]
    BY <1>3
  <2>2. base * p[k] \in Nat \ {0}
    BY <1>5
  <2> QED BY <2>1, <2>2
<1> HIDE DEF S
<1>6. Nat \subseteq S
  BY <1>4, <1>5, SetInduction
<1> QED BY <1>2, <1>3, <1>6 DEF S

(* What Level finds: the power below the number, and the next above it.    *)
LEMMA LevelIs ==
  ASSUME NEW base \in Nat, base > 1
  PROVE  \A n \in Nat : Level(base, n) = IF n < base THEN 0 ELSE 1 + Level(base, n \div base)
<1> DEFINE Body(f) == [m \in Nat |-> IF m < base THEN 0 ELSE 1 + f[m \div base]]
           p == CHOOSE f : f = Body(f)
<1>1. p = Body(p)
  <2> DEFINE B == 0..(base - 1)
             d == [m \in Nat |-> m \div base]
             h == [m \in Nat |-> [v \in Nat |-> 1 + v]]
  <2>1. Descends(Nat, B, 0, d, h)
    <3>1. ASSUME NEW m \in Nat \ B PROVE m \div base < m /\ m \div base \in Nat
      <4>1. m \div base \in Nat /\ base * (m \div base) <= m
        OBVIOUS
      <4>2. 2 * (m \div base) <= base * (m \div base)
        BY <4>1
      <4> QED BY <4>1, <4>2
    <3>2. ASSUME NEW m \in Nat PROVE m \div base \in Nat
      OBVIOUS
    <3>3. d \in [Nat -> Nat] /\ h \in [Nat -> [Nat -> Nat]] /\ B \subseteq Nat
      BY <3>2
    <3> QED BY <3>1, <3>3 DEF Descends
  <2>2. \A m \in Nat : (m \in B <=> m < base) /\ d[m] = m \div base
    OBVIOUS
  <2>3. \A m, v \in Nat : h[m][v] = 1 + v
    OBVIOUS
  <2> HIDE DEF B, d, h
  <2>4. PICK f : Solves(f, Nat, B, 0, d, h)
    BY <2>1, RecursionHolds
  <2>5. ASSUME NEW m \in Nat PROVE f[m] = IF m < base THEN 0 ELSE 1 + f[m \div base]
    <3>1. m \div base \in Nat
      OBVIOUS
    <3>2. f[m \div base] \in Nat
      BY <2>4, <3>1 DEF Solves
    <3>3. f[m] = IF m < base THEN 0 ELSE h[m][f[d[m]]]
      BY <2>2, <2>4 DEF Solves
    <3>4. h[m][f[m \div base]] = 1 + f[m \div base] /\ d[m] = m \div base
      BY <2>2, <2>3, <3>2
    <3> QED BY <3>3, <3>4
  <2>6. f = Body(f)
    BY <2>4, <2>5 DEF Solves
  <2> QED BY <2>6
<1>2. ASSUME NEW k \in Nat PROVE Level(base, k) = p[k]
  BY DEF Level
<1> HIDE DEF p
<1>3. ASSUME NEW k \in Nat PROVE p[k] = IF k < base THEN 0 ELSE 1 + p[k \div base]
  BY <1>1
<1>4. ASSUME NEW k \in Nat PROVE k \div base \in Nat
  OBVIOUS
<1> QED BY <1>2, <1>3, <1>4

(* The level of a number is that of its leading digit.                     *)
LEMMA LevelBounds ==
  ASSUME NEW base \in Nat, base > 1
  PROVE  \A n \in Nat : /\ Level(base, n) \in Nat
                        /\ Level(base, n) = 0 \/ Pow(base, Level(base, n)) <= n
                        /\ n < Pow(base, Level(base, n) + 1)
<1> DEFINE Bounds(n, l) == /\ l \in Nat
                           /\ l = 0 \/ Pow(base, l) <= n
                           /\ n < Pow(base, l + 1)
           S == {n \in Nat : Bounds(n, Level(base, n))}
<1>1. Pow(base, 0) = 1 /\ Pow(base, 1) = base
  <2>1. Pow(base, 0) = 1 /\ Pow(base, 1) = base * Pow(base, 1 - 1)
    BY PowIs
  <2> QED BY <2>1
<1>2. ASSUME NEW n \in Nat, \A m \in 0..(n - 1) : m \in S
      PROVE  n \in S
  <2>1. CASE n < base
    <3>1. Level(base, n) = 0
      BY <2>1, LevelIs
    <3> QED BY <1>1, <2>1, <3>1
  <2>2. CASE n >= base
    <3> DEFINE q == n \div base
               l == Level(base, q)
    <3>1. q \in Nat /\ base * q <= n /\ n < base * q + base
      OBVIOUS
    <3>2. q < n /\ q > 0
      <4>1. q > 0
        BY <2>2, <3>1
      <4>2. 2 * q <= base * q
        BY <3>1
      <4> QED BY <3>1, <4>1, <4>2
    <3>3. Level(base, n) = 1 + l
      BY <2>2, LevelIs
    <3> HIDE DEF q
    <3>4. q \in S
      BY <1>2, <3>1, <3>2
    <3> HIDE DEF l
    <3>5. Bounds(q, l)
      BY <3>4 DEF l
    <3>6. /\ Pow(base, l) \in Nat \ {0} /\ Pow(base, l + 1) \in Nat
          /\ Pow(base, l + 1) = base * Pow(base, l)
          /\ Pow(base, l + 2) = base * Pow(base, l + 1)
      <4>1. l + 1 \in Nat /\ l + 2 \in Nat /\ l + 1 - 1 = l /\ l + 2 - 1 = l + 1
        BY <3>5
      <4> QED BY <3>5, <4>1, PowIs
    <3>7. Pow(base, l + 1) <= n
      <4>1. Pow(base, l) <= q
        <5>1. CASE l = 0
          BY <1>1, <3>1, <3>2, <5>1
        <5> QED BY <3>5, <5>1
      <4> DEFINE w == Pow(base, l)
      <4>2. w \in Nat /\ w <= q /\ Pow(base, l + 1) = base * w
        BY <3>6, <4>1
      <4> HIDE DEF w
      <4>3. base * w <= base * q
        BY <3>1, <4>2
      <4> QED BY <3>1, <3>6, <4>2, <4>3
    <3>8. n < Pow(base, l + 2)
      <4> DEFINE w == Pow(base, l + 1)
      <4>1. w \in Nat /\ q + 1 <= w /\ Pow(base, l + 2) = base * w
        BY <3>1, <3>5, <3>6
      <4> HIDE DEF w
      <4>2. base * (q + 1) <= base * w /\ base * (q + 1) = base * q + base
        BY <3>1, <4>1
      <4> QED BY <3>1, <4>1, <4>2
    <3>9. Bounds(n, 1 + l)
      <4>1. 1 + l = l + 1 /\ 1 + l + 1 = l + 2 /\ l \in Nat
        BY <3>5
      <4> QED BY <3>7, <3>8, <4>1
    <3> QED BY <3>3, <3>9
  <2> QED BY <2>1, <2>2
<1> HIDE DEF S
<1>3. Nat \subseteq S
  BY <1>2, StrongInduction
<1> QED BY <1>3 DEF S

(* A higher power is no smaller.                                           *)
LEMMA PowGrows ==
  ASSUME NEW base \in Nat \ {0}, NEW k \in Nat, NEW l \in Nat, k <= l
  PROVE  Pow(base, k) <= Pow(base, l)
<1> DEFINE S == {i \in Nat : Pow(base, k) <= Pow(base, k + i)}
<1>1. 0 \in S
  <2>1. Pow(base, k) \in Nat
    BY PowIs
  <2> QED BY <2>1
<1>2. ASSUME NEW i \in Nat, i \in S PROVE i + 1 \in S
  <2> DEFINE w == Pow(base, k + i)
  <2>1. w \in Nat /\ Pow(base, k) \in Nat /\ Pow(base, k) <= w
    BY <1>2, PowIs
  <2>2. Pow(base, k + (i + 1)) = base * w
    <3>1. k + (i + 1) \in Nat /\ k + (i + 1) - 1 = k + i /\ k + (i + 1) # 0
      OBVIOUS
    <3> QED BY <3>1, PowIs
  <2> HIDE DEF w
  <2>3. w <= base * w
    BY <2>1
  <2> QED BY <2>1, <2>2, <2>3
<1> HIDE DEF S
<1>3. Nat \subseteq S
  BY <1>1, <1>2, SetInduction
<1>4. l - k \in S /\ k + (l - k) = l
  BY <1>3
<1> QED BY <1>4 DEF S

(* The powers of a thousand.                                               *)
LEMMA ThousandIs ==
  ASSUME NEW k \in Nat
  PROVE  /\ Pow(1000, k) \in Nat \ {0}
         /\ Pow(1000, k) = IF k = 0 THEN 1 ELSE 1000 * Pow(1000, k - 1)
<1>1. PICK base \in Nat \ {0} : base = 1000
  OBVIOUS
<1>2. /\ Pow(base, k) \in Nat \ {0}
      /\ Pow(base, k) = IF k = 0 THEN 1 ELSE base * Pow(base, k - 1)
  BY PowIs
<1> QED BY <1>1, <1>2

(* Rounding moves an amount by half at most.                               *)
LEMMA RoundNear ==
  ASSUME NEW a \in Nat, NEW b \in Nat \ {0}, NEW low \in {0, 1}
  PROVE  /\ RoundDiv(a, b, low) \in Nat
         /\ 2 * (RoundDiv(a, b, low) * b - a) <= b
         /\ 2 * (a - RoundDiv(a, b, low) * b) <= b
<1> DEFINE x == 2 * a + b - low
           y == 2 * b
           q == x \div y
<1>1. x \in Nat /\ y \in Nat \ {0} /\ x <= 2 * a + b /\ 2 * a + b <= x + 1
  OBVIOUS
<1> HIDE DEF x, y
<1>2. q \in Nat /\ y * q <= x /\ x < y * q + y
  BY <1>1
<1> HIDE DEF q
<1>3. RoundDiv(a, b, low) = q
  BY DEF RoundDiv, q, x, y
<1>4. y * q = 2 * (q * b)
  BY <1>2 DEF y
<1> DEFINE w == q * b
<1>5. w \in Nat
  BY <1>2
<1> HIDE DEF w
<1>6. 2 * w <= 2 * a + b /\ 2 * a + b < 2 * w + 2 * b + 1
  BY <1>1, <1>2, <1>4, <1>5 DEF w, y
<1>7. 2 * (w - a) <= b /\ 2 * (a - w) <= b
  BY <1>5, <1>6
<1> QED BY <1>2, <1>3, <1>7 DEF w

(* A number with its digits cut to a power of its base reads back.         *)
LEMMA FixedReadsBack ==
  ASSUME NEW base \in Nat \ {0}, NEW n \in Nat, NEW l \in Nat, NEW frac \in {0, 1, 2},
         NEW low \in {0, 1}
  PROVE  ReadsBack(Fixed(n, base, l, frac, low), n, base)
<1> DEFINE one == Pow(base, l)
           a == n * 10^frac
           r == Fixed(n, base, l, frac, low)
<1>1. one \in Nat \ {0}
  BY PowIs
<1>2. a \in Nat
  <2>1. ASSUME frac = 0 PROVE a = n
    BY <2>1
  <2>2. ASSUME frac = 1 PROVE a = n * 10
    BY <2>2
  <2>3. ASSUME frac = 2 PROVE a = n * 100
    BY <2>3
  <2> HIDE DEF a
  <2> QED BY <2>1, <2>2, <2>3
<1>3. r.digits = RoundDiv(a, one, low) /\ r.unit = l /\ r.frac = frac
  BY DEF Fixed
<1> HIDE DEF one, a, r
<1> DEFINE digits == RoundDiv(a, one, low)
           w == digits * one
<1>4. digits \in Nat /\ 2 * (w - a) <= one /\ 2 * (a - w) <= one
  BY <1>1, <1>2, RoundNear
<1> HIDE DEF digits
<1>5. w \in Int
  BY <1>1, <1>4
<1>6. ReadsBack(r, n, base) = (2 * (IF w - a < 0 THEN -(w - a) ELSE w - a) <= one)
  BY <1>3 DEF ReadsBack, one, a, digits
<1> HIDE DEF w
<1>7. 2 * (IF w - a < 0 THEN -(w - a) ELSE w - a) <= one
  BY <1>1, <1>2, <1>4, <1>5
<1>8. ReadsBack(r, n, base)
  BY <1>6, <1>7
<1> QED BY <1>8 DEF r

(* Whatever the base and the decimals, in the largest unit there is one of.*)
LEMMA WithUnitReadsBack ==
  ASSUME NEW base \in Nat, base > 1, NEW n \in Nat, NEW frac \in {0, 1, 2}, NEW low \in {0, 1}
  PROVE  /\ ReadsBack(WithUnit(n, base, frac, low), n, base)
         /\ InUnit(WithUnit(n, base, frac, low), n, base)
<1> DEFINE l == Level(base, n)
           digits == IF l > 0 THEN frac ELSE 0
<1>1. /\ l \in Nat
      /\ l = 0 \/ Pow(base, l) <= n
      /\ n < Pow(base, l + 1)
      /\ Pow(base, l) \in Nat
  BY LevelBounds, PowIs
<1>2. WithUnit(n, base, frac, low) = Fixed(n, base, l, digits, low)
  BY DEF WithUnit
<1> HIDE DEF l
<1>3. digits \in {0, 1, 2}
  OBVIOUS
<1> HIDE DEF digits
<1>4. ReadsBack(Fixed(n, base, l, digits, low), n, base)
  BY <1>1, <1>3, FixedReadsBack
<1>5. Fixed(n, base, l, digits, low).unit = l
  BY DEF Fixed
<1> QED BY <1>1, <1>2, <1>4, <1>5 DEF InUnit

(* formatFil stops at its last unit, however many of it there are.         *)
LEMMA FilReadsBack ==
  ASSUME NEW n \in Nat, NEW low \in {0, 1}
  PROVE  /\ ReadsBack(formatFil(n, low), n, 1000)
         /\ \/ InUnit(formatFil(n, low), n, 1000)
            \/ formatFil(n, low).unit = 6 /\ n >= Pow(1000, 6)
<1> DEFINE top == Level(1000, n)
           l == IF top > 6 THEN 6 ELSE top
           frac == IF l > 0 /\ n < 10 * Pow(1000, l) THEN 1 ELSE 0
<1>0. 1000 \in Nat \ {0} /\ 1000 > 1 /\ 6 \in Nat
  OBVIOUS
<1>1. /\ top \in Nat
      /\ top = 0 \/ Pow(1000, top) <= n
      /\ n < Pow(1000, top + 1)
  BY LevelBounds
<1>2. formatFil(n, low) = Fixed(n, 1000, l, frac, low)
  BY DEF formatFil
<1> HIDE DEF top
<1>3. l \in Nat /\ (top <= 6 => l = top) /\ (top > 6 => l = 6)
  BY <1>1
<1> HIDE DEF l
<1>4. frac \in {0, 1, 2}
  OBVIOUS
<1> HIDE DEF frac
<1>5. ReadsBack(formatFil(n, low), n, 1000) /\ formatFil(n, low).unit = l
  <2>1. ReadsBack(Fixed(n, 1000, l, frac, low), n, 1000)
    BY <1>0, <1>3, <1>4, FixedReadsBack
  <2> QED BY <1>2, <2>1 DEF Fixed
<1>6. CASE top <= 6
  <2>1. Pow(1000, l) \in Nat
    BY <1>3, ThousandIs
  <2> QED BY <1>1, <1>3, <1>5, <1>6, <2>1 DEF InUnit
<1>7. CASE top > 6
  <2>1. Pow(1000, 6) <= Pow(1000, top)
    BY <1>0, <1>1, <1>7, PowGrows
  <2>2. Pow(1000, 6) \in Nat /\ Pow(1000, top) \in Nat
    BY <1>0, <1>1, ThousandIs
  <2> QED BY <1>1, <1>3, <1>5, <1>7, <2>1, <2>2
<1> QED BY <1>1, <1>6, <1>7

(* A division and its rest.                                                *)
LEMMA QuotientAndRest ==
  ASSUME NEW n \in Nat, NEW one \in Nat \ {0}
  PROVE  n \div one \in Nat /\ n % one \in 0..(one - 1) /\ n = one * (n \div one) + (n % one)
OBVIOUS

(* The integer part and the thousandths cut the number apart.              *)
CutApart(n, one) ==
  LET last == one \div 1000
      int == n \div one
      dec == ((n % one) * 1000) \div one
  IN  /\ int \in Nat /\ dec \in Nat /\ last \in Nat
      /\ n - (1000 * int + dec) * last \in 0..(last - 1)
      /\ ((n % one) * 1000) % one = 0 => n - (1000 * int + dec) * last = 0
LEMMA Num6Parts ==
  ASSUME NEW n \in Nat, NEW one \in Nat \ {0}
  PROVE  one % 1000 = 0 => CutApart(n, one)
<1> DEFINE last == one \div 1000
           int == n \div one
           rest == n % one
           dec == (rest * 1000) \div one
<1>1. one \in Nat \ {0} /\ last \in Nat /\ (one % 1000 = 0 => one = 1000 * last)
  OBVIOUS
<1>2. int \in Nat /\ rest \in 0..(one - 1) /\ n = one * int + rest
  BY QuotientAndRest
<1> HIDE DEF int, rest
<1>3. /\ dec \in Nat /\ one * dec <= rest * 1000 /\ rest * 1000 < one * dec + one
      /\ (rest * 1000) % one = 0 => rest * 1000 = one * dec
  <2> DEFINE x == rest * 1000
  <2>1. x \in Nat
    BY <1>2
  <2> HIDE DEF x
  <2>2. /\ x \div one \in Nat /\ one * (x \div one) <= x /\ x < one * (x \div one) + one
        /\ x % one = 0 => x = one * (x \div one)
    BY <1>1, <2>1
  <2> QED BY <2>2 DEF x
<1> HIDE DEF dec, last
<1>4. ASSUME one = 1000 * last
      PROVE  /\ n - (1000 * int + dec) * last \in 0..(last - 1)
             /\ (rest * 1000) % one = 0 => n - (1000 * int + dec) * last = 0
  <2> DEFINE w == last * dec
             v == last * int
  <2>1. w \in Nat /\ v \in Nat
    BY <1>1, <1>2, <1>3
  <2>2. one * dec = 1000 * w /\ one * int = 1000 * v /\ (1000 * int + dec) * last = 1000 * v + w
    BY <1>1, <1>2, <1>3, <1>4
  <2> HIDE DEF w, v
  <2>3. rest - w \in 0..(last - 1)
    BY <1>1, <1>2, <1>3, <1>4, <2>1, <2>2
  <2>4. (rest * 1000) % one = 0 => rest = w
    BY <1>2, <1>3, <2>1, <2>2
  <2> QED BY <1>1, <1>2, <2>1, <2>2, <2>3, <2>4
<1> QED BY <1>1, <1>2, <1>3, <1>4 DEF last, int, rest, dec, CutApart

(* One thousandth less, of an amount of whole thousandths.                 *)
LEMMA OneLess ==
  ASSUME NEW n \in Nat, NEW int \in Nat, NEW dec \in Nat, NEW last \in Nat,
         n - (1000 * int + dec) * last = 0
  PROVE  n - (1000 * int + (dec - 1)) * last = last
<1>1. (1000 * int + (dec - 1)) * last = (1000 * int + dec) * last - last
  OBVIOUS
<1> QED BY <1>1

(* formatNum6, in the largest unit, cut at its thousandths.                *)
LEMMA Num6Cuts ==
  ASSUME NEW n \in Nat, NEW low \in {0, 1}
  PROVE  LET r == formatNum6(n, low)
             last == Pow(1000, r.unit) \div 1000
             read == 1000 * r.int + r.dec
         IN /\ InUnit(r, n, 1000)
            /\ r.unit = 0 => r.int = n /\ r.dec = 0
            /\ r.unit > 0 /\ (r.dec = 0 \/ r.dec >= 100)
                 => n - read * last \in 0..last
<1> DEFINE r == formatNum6(n, low)
           l == Level(1000, n)
           one == Pow(1000, l)
           last == one \div 1000
           loses == low = 1 /\ n % one # 0 /\ ((n % one) * 1000) % one = 0
<1>1. l \in Nat /\ (l = 0 \/ one <= n) /\ n < Pow(1000, l + 1)
  BY LevelBounds
<1>2. /\ r.unit = l /\ r.int = n \div one
      /\ r.dec = (((n % one) * 1000) \div one) - (IF loses THEN 1 ELSE 0)
  BY DEF formatNum6
<1> HIDE DEF l, r
<1>3. InUnit(r, n, 1000)
  <2>1. one \in Nat
    BY <1>1, ThousandIs
  <2> QED BY <1>1, <1>2, <2>1 DEF InUnit
<1>4. ASSUME l = 0 PROVE r.int = n /\ r.dec = 0
  <2>1. one = 1
    BY <1>4, ThousandIs
  <2> HIDE DEF one
  <2>2. n % one = 0 /\ n \div one = n /\ ((n % one) * 1000) \div one = 0
    BY <2>1
  <2> QED BY <1>2, <2>2
<1>5. ASSUME l > 0, r.dec = 0 \/ r.dec >= 100
      PROVE  n - (1000 * r.int + r.dec) * last \in 0..last
  <2>1. one \in Nat \ {0} /\ one % 1000 = 0
    <3>1. l \in Nat /\ l # 0 /\ l - 1 \in Nat
      BY <1>1, <1>5
    <3>2. one \in Nat \ {0} /\ Pow(1000, l - 1) \in Nat /\ one = 1000 * Pow(1000, l - 1)
      BY <3>1, ThousandIs
    <3> QED BY <3>2
  <2> HIDE DEF one
  <2> DEFINE int == n \div one
             dec == ((n % one) * 1000) \div one
             whole == ((n % one) * 1000) % one = 0
  <2>2. /\ int \in Nat /\ dec \in Nat /\ last \in Nat
        /\ n - (1000 * int + dec) * last \in 0..(last - 1)
        /\ whole => n - (1000 * int + dec) * last = 0
    <3>1. CutApart(n, one)
      BY <2>1, Num6Parts
    <3> QED BY <3>1 DEF CutApart
  <2>3. r.int = int /\ (loses => whole) /\ r.dec = IF loses THEN dec - 1 ELSE dec
    <3>1. dec \in Nat
      BY <2>2
    <3> QED BY <1>2, <3>1
  <2> HIDE DEF int, dec, whole, loses, last
  <2>4. CASE loses
    <3>1. n - (1000 * int + (dec - 1)) * last = last
      BY <2>2, <2>3, <2>4, OneLess
    <3> QED BY <2>2, <2>3, <2>4, <3>1
  <2>5. CASE ~loses
    BY <2>2, <2>3, <2>5
  <2> QED BY <2>4, <2>5
<1> QED BY <1>2, <1>3, <1>4, <1>5 DEF r

(* The input is a number when the page is the views'.                      *)
LEMMA InputIs == TilesSpec => [](page = "Views" => input \in Nat)
<1> DEFINE InputInv == page = "Views" => input \in Nat
<1>1. TilesInit => InputInv
  BY DEF TilesInit
<1>2. InputInv /\ [TilesNext]_tileVars => InputInv'
  BY DEF TilesNext, CarArrives, CarInterval, NodeAdvances, NodeResets, Interval, NodeAnswers, CallFails,
         Arrives, tileVars, vars
<1> QED BY <1>1, <1>2, PTL DEF TilesSpec

(***************************************************************************)
(* Whatever number is formatted, its text is within half of its last digit *)
(* of it and in the right unit, whichever side of a border a float ends    *)
(* on; formatNum6's cut takes at most a thousandth; and the parts of a     *)
(* duration add up to it (helpers/fmt.js): FormatsReadBack.                *)
(***************************************************************************)
THEOREM FormatsReadBackAlways == TilesSpec => []FormatsReadBack
<1>1. (page = "Views" => input \in Nat) => FormatsReadBack
  <2> SUFFICES ASSUME page = "Views", input \in Nat PROVE FormatsReadBack
    BY DEF FormatsReadBack, NumbersReadBack, Num6ReadsBack, DurationsReadBack
  <2>1. NumbersReadBack
    <3>1. ASSUME NEW base \in {1000, 1024}, NEW n \in Nat, NEW frac \in {0, 2},
                 NEW low \in {0, 1}
          PROVE  /\ ReadsBack(WithUnit(n, base, frac, low), n, base)
                 /\ InUnit(WithUnit(n, base, frac, low), n, base)
      <4>1. base \in Nat /\ base > 1 /\ frac \in {0, 1, 2} /\ low \in {0, 1}
        OBVIOUS
      <4> QED BY <4>1, WithUnitReadsBack
    <3>2. 8 * (input \div 8) \in Nat /\ (input \div 8) * 8 = 8 * (input \div 8)
      OBVIOUS
    <3>3. ASSUME NEW frac \in {0, 2}, NEW low \in {0, 1}
          PROVE  /\ ReadsBack(formatNum(input, frac, low), input, 1000)
                 /\ InUnit(formatNum(input, frac, low), input, 1000)
      BY <3>1 DEF formatNum
    <3>4. ASSUME NEW n \in Nat
          PROVE  /\ ReadsBack(WithUnit(n, 1024, 2, 0), n, 1024)
                 /\ InUnit(WithUnit(n, 1024, 2, 0), n, 1024)
      <4>1. 1024 \in {1000, 1024} /\ 2 \in {0, 2} /\ 0 \in {0, 1}
        OBVIOUS
      <4> QED BY <3>1, <4>1
    <3>5. LET bytes == input \div 8
          IN /\ ReadsBack(formatBitsBinary(bytes), 8 * bytes, 1024)
             /\ InUnit(formatBitsBinary(bytes), 8 * bytes, 1024)
      BY <3>2, <3>4 DEF formatBitsBinary
    <3>6. /\ ReadsBack(formatBytesBinary(input), input, 1024)
          /\ InUnit(formatBytesBinary(input), input, 1024)
      BY <3>4 DEF formatBytesBinary
    <3> QED BY <3>3, <3>5, <3>6, FilReadsBack DEF NumbersReadBack
  <2>2. Num6ReadsBack
    BY Num6Cuts DEF Num6ReadsBack
  <2>3. DurationsReadBack
    <3>1. ASSUME NEW days \in {28, 29, 30, 31}
          PROVE  Minutes(formatTimestamp(input, days), days) = input \div 60
      BY TimestampIs, DayParts DEF Minutes
    <3> QED BY <3>1, EpochParts DEF DurationsReadBack
  <2> QED BY <2>1, <2>2, <2>3 DEF FormatsReadBack
<1> QED BY <1>1, InputIs, PTL

-------------------------------------------------------------------------------
(* The views, for lists of any length.                                     *)

(***************************************************************************)
(* Every deal of a list of any length is counted once, as an error, sealed *)
(* or started (the deal counts of Group.js): the first conjunct of         *)
(* DealsAccounted, for every list.                                         *)
(***************************************************************************)
THEOREM DealsCountedOnce ==
  ASSUME NEW Flag, NEW deals \in Seq(SUBSET Flag)
  PROVE  LET n == dealCounts(deals)
         IN /\ n.errors \in Nat /\ n.sealed \in Nat /\ n.started \in Nat
            /\ n.errors + n.sealed + n.started = Len(deals)
<1> DEFINE D == 1..Len(deals)
           E == {i \in DOMAIN deals : "Failed" \in deals[i]}
           S == {i \in DOMAIN deals \ E : "Sealed" \in deals[i]}
<1>1. IsFiniteSet(D) /\ Cardinality(D) = Len(deals) /\ D = DOMAIN deals
  <2>1. Len(deals) \in Nat /\ DOMAIN deals = 1..Len(deals)
    OBVIOUS
  <2>2. ASSUME NEW k \in Nat PROVE IsFiniteSet(1..k) /\ Cardinality(1..k) = k
    <3>1. IsFiniteSet(1..k) /\ Cardinality(1..k) = IF 1 > k THEN 0 ELSE k - 1 + 1
      BY FS_Interval
    <3> QED BY <3>1
  <2> QED BY <2>1, <2>2
<1>2. E \subseteq D /\ S \subseteq D /\ E \cap S = {}
  OBVIOUS
<1>3. IsFiniteSet(E) /\ IsFiniteSet(S) /\ IsFiniteSet(E \cup S)
  BY <1>1, <1>2, FS_Subset, FS_Union
<1>4. /\ Cardinality(E) \in Nat /\ Cardinality(S) \in Nat
      /\ Cardinality(E \cup S) = Cardinality(E) + Cardinality(S)
  <2>1. Cardinality(E \cap S) = 0
    BY <1>2, FS_EmptySet
  <2>2. Cardinality(E) \in Nat /\ Cardinality(S) \in Nat
    BY <1>3, FS_CardinalityType
  <2>3. Cardinality(E \cup S) = Cardinality(E) + Cardinality(S) - Cardinality(E \cap S)
    BY <1>3, FS_Union
  <2> QED BY <2>1, <2>2, <2>3
<1>5. Cardinality(E \cup S) <= Len(deals)
  BY <1>1, <1>2, FS_Subset
<1> HIDE DEF E, S
<1>6. dealCounts(deals) = [errors |-> Cardinality(E), sealed |-> Cardinality(S),
                           started |-> Len(deals) - Cardinality(E \cup S)]
  BY DEF dealCounts, E, S
<1>7. Len(deals) \in Nat
  OBVIOUS
<1> QED BY <1>4, <1>5, <1>6, <1>7

(* A page that exists begins within the list.                              *)
LEMMA PageBegins ==
  ASSUME NEW S, NEW keys \in Seq(S), NEW p \in 0..(totalPages(keys) - 1)
  PROVE  /\ p \in Nat /\ p * itemsPerPage + 1 \in 1..Len(keys)
         /\ Least(Len(keys), (p + 1) * itemsPerPage) \in (p * itemsPerPage + 1)..Len(keys)
BY DEF totalPages, itemsPerPage, Least

(* What is on a page: the keys from its first to its last.                 *)
LEMMA PageIs ==
  ASSUME NEW S, NEW keys \in Seq(S), NEW p \in 0..(totalPages(keys) - 1)
  PROVE  /\ PageOf(keys, p) \in Seq(S)
         /\ Len(PageOf(keys, p)) = Least(Len(keys), (p + 1) * itemsPerPage) - p * itemsPerPage
         /\ \A i \in 1..Len(PageOf(keys, p)) : PageOf(keys, p)[i] = keys[p * itemsPerPage + i]
<1> DEFINE from == p * itemsPerPage + 1
           to == Least(Len(keys), (p + 1) * itemsPerPage)
<1>1. from \in 1..Len(keys) /\ to \in from..Len(keys) /\ p \in Nat /\ p * itemsPerPage \in Nat
  BY PageBegins DEF itemsPerPage
<1>2. PageOf(keys, p) = SubSeq(keys, from, to)
  BY DEF PageOf
<1> HIDE DEF from, to
<1>3. from = p * itemsPerPage + 1 /\ to = Least(Len(keys), (p + 1) * itemsPerPage)
  BY DEF from, to
<1>4. /\ SubSeq(keys, from, to) \in Seq(S) /\ Len(SubSeq(keys, from, to)) = to - from + 1
      /\ \A i \in 1..(to - from + 1) : SubSeq(keys, from, to)[i] = keys[from + i - 1]
  BY <1>1, SubSeqProperties
<1>5. to - from + 1 = to - p * itemsPerPage /\ p * itemsPerPage \in Nat
  BY <1>1, <1>3
<1>6. ASSUME NEW i \in 1..(to - p * itemsPerPage)
      PROVE  PageOf(keys, p)[i] = keys[p * itemsPerPage + i]
  <2>1. i \in Nat /\ i \in 1..(to - from + 1) /\ from + i - 1 = p * itemsPerPage + i
    <3>1. from \in Int /\ to \in Int /\ i \in Int
      BY <1>1
    <3> QED BY <1>3, <1>5, <3>1
  <2> QED BY <1>2, <1>4, <2>1
<1> QED BY <1>1, <1>2, <1>3, <1>4, <1>5, <1>6

(***************************************************************************)
(* A list of any length is on its pages: the i-th key is on page           *)
(* (i - 1) / 30 at its place there, and the button of a page names the     *)
(* first and the last key of that page (Groups: slice, and the labels).    *)
(***************************************************************************)
THEOREM PagesHoldTheList ==
  ASSUME NEW S, NEW keys \in Seq(S)
  PROVE  /\ \A i \in 1..Len(keys) :
              LET p == (i - 1) \div itemsPerPage
              IN /\ p \in 0..(totalPages(keys) - 1)
                 /\ i - p * itemsPerPage \in 1..Len(PageOf(keys, p))
                 /\ PageOf(keys, p)[i - p * itemsPerPage] = keys[i]
         /\ \A index \in 0..(totalPages(keys) - 1) :
              LET b == Button(keys, index)
                  shownPage == PageOf(keys, b.page)
              IN shownPage # <<>> /\ b.from = Head(shownPage) /\ b.to = Last(shownPage)
<1>1. ASSUME NEW i \in 1..Len(keys)
      PROVE  LET p == (i - 1) \div itemsPerPage
             IN /\ p \in 0..(totalPages(keys) - 1)
                /\ i - p * itemsPerPage \in 1..Len(PageOf(keys, p))
                /\ PageOf(keys, p)[i - p * itemsPerPage] = keys[i]
  <2> DEFINE p == (i - 1) \div itemsPerPage
  <2>1. p \in 0..(totalPages(keys) - 1)
    BY DEF totalPages, itemsPerPage
  <2>2. /\ i - p * itemsPerPage \in Nat \ {0}
        /\ i - p * itemsPerPage <= Least(Len(keys), (p + 1) * itemsPerPage) - p * itemsPerPage
    BY DEF itemsPerPage, Least
  <2>3. Len(PageOf(keys, p)) = Least(Len(keys), (p + 1) * itemsPerPage) - p * itemsPerPage
    BY <2>1, PageIs
  <2>4. i - p * itemsPerPage \in 1..Len(PageOf(keys, p))
    <3>1. Len(PageOf(keys, p)) \in Nat
      BY <2>1, PageIs
    <3> HIDE DEF p
    <3> QED BY <2>2, <2>3, <3>1
  <2>5. PageOf(keys, p)[i - p * itemsPerPage] = keys[p * itemsPerPage + (i - p * itemsPerPage)]
    BY <2>1, <2>4, PageIs
  <2>6. p * itemsPerPage + (i - p * itemsPerPage) = i
    BY DEF itemsPerPage
  <2> QED BY <2>1, <2>4, <2>5, <2>6
<1>2. ASSUME NEW index \in 0..(totalPages(keys) - 1)
      PROVE  LET b == Button(keys, index)
                 shownPage == PageOf(keys, b.page)
             IN shownPage # <<>> /\ b.from = Head(shownPage) /\ b.to = Last(shownPage)
  <2> DEFINE p == totalPages(keys) - index - 1
             shownPage == PageOf(keys, p)
             to == Least(Len(keys), (p + 1) * itemsPerPage)
  <2>1. p \in 0..(totalPages(keys) - 1)
    BY DEF totalPages, itemsPerPage
  <2>2. Button(keys, index) = [page |-> p, from |-> keys[p * itemsPerPage + 1], to |-> keys[to]]
    BY DEF Button
  <2> HIDE DEF p
  <2>3. p \in Nat /\ p * itemsPerPage \in Nat /\ to \in (p * itemsPerPage + 1)..Len(keys)
    BY <2>1, PageBegins DEF itemsPerPage
  <2> HIDE DEF to
  <2>4. /\ shownPage \in Seq(S) /\ Len(shownPage) = to - p * itemsPerPage
        /\ \A i \in 1..Len(shownPage) : shownPage[i] = keys[p * itemsPerPage + i]
    BY <2>1, PageIs DEF to
  <2> HIDE DEF shownPage
  <2>5. Len(shownPage) \in Nat \ {0} /\ p * itemsPerPage + Len(shownPage) = to
    BY <2>3, <2>4
  <2>6. shownPage # <<>> /\ Head(shownPage) = shownPage[1] /\ Last(shownPage) = shownPage[Len(shownPage)]
    BY <2>4, <2>5 DEF Last
  <2>7. shownPage[1] = keys[p * itemsPerPage + 1] /\ shownPage[Len(shownPage)] = keys[to]
    BY <2>4, <2>5
  <2> QED BY <2>2, <2>6, <2>7 DEF shownPage
<1> QED BY <1>1, <1>2

(* The list without its errors is a list of deals, one for each that is    *)
(* none, and has as many sealed ones.                                      *)
Shown(deals, i) == {j \in 1..i : "Failed" \notin deals[j]}
ShownSealed(deals, i) == {j \in 1..i : "Failed" \notin deals[j] /\ "Sealed" \in deals[j]}
SealedOf(list) == {j \in DOMAIN list : "Sealed" \in list[j]}
FilteredTo(Flag, list, deals, i) ==
  /\ list \in Seq(SUBSET Flag)
  /\ Len(list) = Cardinality(Shown(deals, i))
  /\ Cardinality(SealedOf(list)) = Cardinality(ShownSealed(deals, i))

(* One more element of a finite set of naturals.                           *)
LEMMA OneMore ==
  ASSUME NEW i \in Nat, NEW S, S \subseteq 1..i
  PROVE  /\ IsFiniteSet(S) /\ Cardinality(S) \in Nat
         /\ Cardinality(S \cup {i + 1}) = Cardinality(S) + 1
<1>1. IsFiniteSet(1..i)
  BY FS_Interval
<1>2. IsFiniteSet(S)
  BY <1>1, FS_Subset
<1>3. i + 1 \notin S
  OBVIOUS
<1> QED BY <1>2, <1>3, FS_CardinalityType, FS_AddElement

LEMMA FilterStep ==
  ASSUME NEW Flag, NEW deals \in Seq(SUBSET Flag), NEW i \in Nat, i < Len(deals),
         NEW list, FilteredTo(Flag, list, deals, i)
  PROVE  FilteredTo(Flag, IF "Failed" \in deals[i + 1] THEN list ELSE Append(list, deals[i + 1]),
                    deals, i + 1)
<1> DEFINE deal == deals[i + 1]
<1>1. deal \in SUBSET Flag
  OBVIOUS
<1>2. 1..(i + 1) = (1..i) \cup {i + 1}
  OBVIOUS
<1>3. CASE "Failed" \in deal
  <2>1. Shown(deals, i + 1) = Shown(deals, i) /\ ShownSealed(deals, i + 1) = ShownSealed(deals, i)
    BY <1>2, <1>3 DEF Shown, ShownSealed
  <2> QED BY <1>3, <2>1 DEF FilteredTo
<1>4. CASE "Failed" \notin deal
  <2> DEFINE new == Append(list, deal)
             k == Len(list)
  <2>1. /\ list \in Seq(SUBSET Flag) /\ k \in Nat /\ DOMAIN list = 1..k
        /\ new \in Seq(SUBSET Flag) /\ Len(new) = k + 1 /\ DOMAIN new = 1..(k + 1)
        /\ new[k + 1] = deal /\ \A j \in 1..k : new[j] = list[j]
    BY <1>1 DEF FilteredTo
  <2> HIDE DEF new, k
  <2>2. Len(new) = Cardinality(Shown(deals, i + 1))
    <3>1. Shown(deals, i + 1) = Shown(deals, i) \cup {i + 1}
      BY <1>2, <1>4 DEF Shown
    <3>2. Shown(deals, i) \subseteq 1..i
      BY DEF Shown
    <3> QED BY <2>1, <3>1, <3>2, OneMore DEF FilteredTo, k
  <2>3. Cardinality(SealedOf(new)) = Cardinality(ShownSealed(deals, i + 1))
    <3>1. SealedOf(list) \subseteq 1..k /\ ShownSealed(deals, i) \subseteq 1..i
      BY <2>1 DEF SealedOf, ShownSealed
    <3>2. 1..(k + 1) = (1..k) \cup {k + 1}
      BY <2>1
    <3>3. CASE "Sealed" \in deal
      <4>1. SealedOf(new) = SealedOf(list) \cup {k + 1}
        BY <2>1, <3>2, <3>3 DEF SealedOf
      <4>2. ShownSealed(deals, i + 1) = ShownSealed(deals, i) \cup {i + 1}
        BY <1>2, <1>4, <3>3 DEF ShownSealed
      <4>3. /\ Cardinality(SealedOf(new)) = Cardinality(SealedOf(list)) + 1
            /\ Cardinality(ShownSealed(deals, i + 1)) = Cardinality(ShownSealed(deals, i)) + 1
        BY <2>1, <3>1, <4>1, <4>2, OneMore
      <4> QED BY <4>3 DEF FilteredTo
    <3>4. CASE "Sealed" \notin deal
      <4>1. SealedOf(new) = SealedOf(list)
        BY <2>1, <3>2, <3>4 DEF SealedOf
      <4>2. ShownSealed(deals, i + 1) = ShownSealed(deals, i)
        BY <1>2, <3>4 DEF ShownSealed
      <4> QED BY <4>1, <4>2 DEF FilteredTo
    <3> QED BY <3>3, <3>4
  <2> QED BY <1>4, <2>1, <2>2, <2>3 DEF FilteredTo, new
<1> QED BY <1>3, <1>4

(* The recursion of dealsToDisplay, one deal at a time.                    *)
LEMMA FilterIs ==
  ASSUME NEW Flag, NEW deals \in Seq(SUBSET Flag)
  PROVE  FilteredTo(Flag, dealsToDisplay(deals, FALSE), deals, Len(deals))
<1> DEFINE n == Len(deals)
           D == SUBSET Flag
           Body(f) == [i \in 0..n |->
             IF i = 0 THEN <<>>
             ELSE IF "Failed" \in deals[i] THEN f[i - 1] ELSE Append(f[i - 1], deals[i])]
           p == CHOOSE f : f = Body(f)
<1>1. n \in Nat /\ \A i \in 1..n : deals[i] \in D
  OBVIOUS
<1>2. p = Body(p)
  <2> DEFINE B == {0}
             d == [m \in Nat |-> IF m = 0 THEN 0 ELSE m - 1]
             h == [m \in Nat |-> [v \in Seq(D) |->
                     IF m \in 1..n /\ "Failed" \notin deals[m] THEN Append(v, deals[m]) ELSE v]]
  <2>1. Descends(Seq(D), B, <<>>, d, h)
    <3>1. ASSUME NEW m \in Nat, NEW v \in Seq(D)
          PROVE  (IF m \in 1..n /\ "Failed" \notin deals[m] THEN Append(v, deals[m]) ELSE v) \in Seq(D)
      BY <1>1
    <3>2. h \in [Nat -> [Seq(D) -> Seq(D)]]
      BY <3>1
    <3>3. <<>> \in Seq(D) /\ B \subseteq Nat /\ d \in [Nat -> Nat] /\ \A m \in Nat \ B : d[m] < m
      OBVIOUS
    <3> QED BY <3>2, <3>3 DEF Descends
  <2>2. \A m \in Nat : 0 \in B /\ (m # 0 => m \notin B /\ d[m] = m - 1)
    OBVIOUS
  <2>3. \A m \in Nat, v \in Seq(D) :
          h[m][v] = IF m \in 1..n /\ "Failed" \notin deals[m] THEN Append(v, deals[m]) ELSE v
    OBVIOUS
  <2> HIDE DEF B, d, h
  <2>4. PICK f : Solves(f, Seq(D), B, <<>>, d, h)
    BY <2>1, RecursionHolds
  <2> DEFINE g == [i \in 0..n |-> f[i]]
  <2>5. ASSUME NEW i \in 0..n
        PROVE  g[i] = IF i = 0 THEN <<>>
                      ELSE IF "Failed" \in deals[i] THEN g[i - 1] ELSE Append(g[i - 1], deals[i])
    <3>1. CASE i = 0
      BY <1>1, <2>2, <2>4, <3>1 DEF Solves
    <3>2. CASE i # 0
      <4>1. i \in 1..n /\ i - 1 \in 0..n /\ i \in Nat /\ i - 1 \in Nat
        BY <1>1, <3>2
      <4>2. f[i] = h[i][f[i - 1]] /\ f[i - 1] \in Seq(D)
        BY <2>2, <2>4, <3>2, <4>1 DEF Solves
      <4>3. f[i] = IF "Failed" \notin deals[i] THEN Append(f[i - 1], deals[i]) ELSE f[i - 1]
        BY <2>3, <4>1, <4>2
      <4> QED BY <3>2, <4>1, <4>3
    <3> QED BY <3>1, <3>2
  <2>6. g = Body(g)
    BY <2>5
  <2> HIDE DEF g
  <2> QED BY <2>6
<1>3. dealsToDisplay(deals, FALSE) = p[n]
  BY DEF dealsToDisplay
<1> HIDE DEF p
<1>4. ASSUME NEW i \in 0..n
      PROVE  p[i] = IF i = 0 THEN <<>>
                    ELSE IF "Failed" \in deals[i] THEN p[i - 1] ELSE Append(p[i - 1], deals[i])
  BY <1>2
<1> HIDE DEF Body, n
<1> DEFINE S == {i \in Nat : i <= n => FilteredTo(Flag, p[i], deals, i)}
<1>5. 0 \in S
  <2>1. Shown(deals, 0) = {} /\ ShownSealed(deals, 0) = {} /\ SealedOf(<<>>) = {}
    BY DEF Shown, ShownSealed, SealedOf
  <2>2. Cardinality({}) = 0
    BY FS_EmptySet
  <2>3. p[0] = <<>> /\ <<>> \in Seq(SUBSET Flag) /\ Len(<<>>) = 0
    BY <1>1, <1>4
  <2> QED BY <2>1, <2>2, <2>3 DEF FilteredTo
<1>6. ASSUME NEW i \in Nat, i \in S PROVE i + 1 \in S
  <2> SUFFICES ASSUME i + 1 <= n PROVE FilteredTo(Flag, p[i + 1], deals, i + 1)
    OBVIOUS
  <2>1. FilteredTo(Flag, p[i], deals, i) /\ i < Len(deals)
    BY <1>1, <1>6 DEF n
  <2>2. p[i + 1] = IF "Failed" \in deals[i + 1] THEN p[i] ELSE Append(p[i], deals[i + 1])
    BY <1>1, <1>4
  <2> QED BY <2>1, <2>2, FilterStep
<1> HIDE DEF S
<1>7. Nat \subseteq S
  BY <1>5, <1>6, SetInduction
<1>8. FilteredTo(Flag, p[n], deals, n)
  BY <1>1, <1>7 DEF S
<1> QED BY <1>3, <1>8 DEF n

(***************************************************************************)
(* The counts above a list of deals of any length agree with the list:     *)
(* each deal is counted once, the hidden ones are the errors, and as many  *)
(* are shown sealed as are counted (Group.js): DealsAccounted, for every   *)
(* list.                                                                   *)
(***************************************************************************)
THEOREM DealsAgree ==
  ASSUME NEW Flag, NEW deals \in Seq(SUBSET Flag), NEW failed \in BOOLEAN
  PROVE  LET n == dealCounts(deals)
             list == dealsToDisplay(deals, failed)
             shownDeals == dealsToDisplay(deals, FALSE)
         IN /\ n.errors + n.sealed + n.started = Len(deals)
            /\ Len(list) = Len(deals) - (IF failed THEN 0 ELSE n.errors)
            /\ n.sealed = Cardinality({i \in DOMAIN shownDeals : Headline(shownDeals[i]) # "pending"})
<1> DEFINE k == Len(deals)
           n == dealCounts(deals)
           E == {i \in 1..k : "Failed" \in deals[i]}
           shownDeals == dealsToDisplay(deals, FALSE)
<1>1. k \in Nat /\ DOMAIN deals = 1..k
  OBVIOUS
<1>2. n.errors = Cardinality(E) /\ n.sealed = Cardinality(ShownSealed(deals, k))
  <2>1. {i \in DOMAIN deals : "Failed" \in deals[i]} = E
    BY <1>1
  <2>2. {i \in DOMAIN deals \ E : "Sealed" \in deals[i]} = ShownSealed(deals, k)
    BY <1>1 DEF ShownSealed
  <2> QED BY <2>1, <2>2 DEF dealCounts
<1>3. n.errors + n.sealed + n.started = k
  BY DealsCountedOnce
<1>4. FilteredTo(Flag, shownDeals, deals, k)
  BY FilterIs
<1> HIDE DEF k, n, shownDeals
<1>5. Len(shownDeals) = k - n.errors
  <2>1. Shown(deals, k) \cup E = 1..k /\ Shown(deals, k) \cap E = {}
    BY <1>1 DEF Shown
  <2>2. IsFiniteSet(Shown(deals, k)) /\ IsFiniteSet(E)
    <3>1. Shown(deals, k) \subseteq 1..k /\ E \subseteq 1..k
      BY DEF Shown
    <3> QED BY <1>1, <3>1, OneMore
  <2> HIDE DEF E
  <2>3. /\ Cardinality(Shown(deals, k)) \in Nat /\ Cardinality(E) \in Nat
        /\ Cardinality(1..k) = Cardinality(Shown(deals, k)) + Cardinality(E) - Cardinality({})
    BY <2>1, <2>2, FS_Union, FS_CardinalityType
  <2>4. Cardinality({}) = 0 /\ Cardinality(1..k) = k
    <3>1. Cardinality(1..k) = IF 1 > k THEN 0 ELSE k - 1 + 1
      BY <1>1, FS_Interval
    <3> QED BY <1>1, <3>1, FS_EmptySet
  <2> QED BY <1>1, <1>2, <1>4, <2>3, <2>4 DEF FilteredTo
<1>6. n.sealed = Cardinality({i \in DOMAIN shownDeals : Headline(shownDeals[i]) # "pending"})
  <2>1. {i \in DOMAIN shownDeals : Headline(shownDeals[i]) # "pending"} = SealedOf(shownDeals)
    BY DEF SealedOf, Headline
  <2> QED BY <1>2, <1>4, <2>1 DEF FilteredTo
<1>7. failed => dealsToDisplay(deals, failed) = deals
  BY DEF dealsToDisplay
<1>8. ~failed => dealsToDisplay(deals, failed) = shownDeals
  BY DEF shownDeals
<1>9. n.errors \in Nat
  BY DealsCountedOnce DEF n
<1>10. Len(dealsToDisplay(deals, failed)) = k - (IF failed THEN 0 ELSE n.errors)
  <2>1. CASE failed
    <3>1. Len(dealsToDisplay(deals, failed)) = k
      BY <1>7, <2>1 DEF k
    <3>2. (IF failed THEN 0 ELSE n.errors) = 0
      BY <2>1
    <3>3. k - 0 = k
      BY <1>1
    <3> QED BY <3>1, <3>2, <3>3
  <2>2. CASE ~failed
    BY <1>5, <1>8, <2>2
  <2> QED BY <2>1, <2>2
<1> QED BY <1>3, <1>6, <1>10 DEF k, n, shownDeals

(* The pages one after the other are the keys up to the end of the last.   *)
LEMMA PagesFlatten ==
  ASSUME NEW S, NEW keys \in Seq(S)
  PROVE  FlattenSeq([p \in 1..totalPages(keys) |-> PageOf(keys, p - 1)]) = keys
<1> DEFINE t == totalPages(keys)
           k == Len(keys)
           pages == [p \in 1..t |-> PageOf(keys, p - 1)]
           end(p) == Least(k, p * itemsPerPage)
           Body(f) == [i \in 1..Len(pages) |-> IF i = 1 THEN pages[i] ELSE f[i - 1] \o pages[i]]
           flat == CHOOSE f : f = Body(f)
<1>1. t \in Nat /\ k \in Nat /\ (t = 0 <=> k = 0) /\ (t > 0 => end(t) = k)
  BY DEF totalPages, itemsPerPage, Least
<1>2. Len(pages) = t
  BY <1>1
<1>3. ASSUME NEW p \in 1..t
      PROVE  pages[p] = SubSeq(keys, end(p - 1) + 1, end(p)) /\ pages[p] \in Seq(S)
  <2>1. p - 1 \in 0..(t - 1) /\ p - 1 + 1 = p
    BY <1>1
  <2>2. end(p - 1) = (p - 1) * itemsPerPage
    BY <1>1 DEF totalPages, itemsPerPage, Least
  <2> QED BY <2>1, <2>2, PageIs DEF PageOf
<1>4. ASSUME NEW p \in 1..t PROVE end(p - 1) \in 0..k /\ end(p) \in 0..k /\ end(p - 1) <= end(p)
  BY <1>1 DEF totalPages, itemsPerPage, Least
<1>5. FlattenSeq(pages) = IF Len(pages) = 0 THEN pages ELSE flat[Len(pages)]
  BY DEF FlattenSeq
<1>6. end(0) = 0 /\ (t > 0 => end(1 - 1) = 0)
  BY <1>1 DEF itemsPerPage, Least
<1> HIDE DEF pages, t, k, end
<1>7. flat = Body(flat)
  <2> DEFINE B == {0, 1}
             c == IF t > 0 THEN pages[1] ELSE <<>>
             d == [m \in Nat |-> IF m = 0 THEN 0 ELSE m - 1]
             h == [m \in Nat |-> [v \in Seq(S) |-> IF m \in 1..t THEN v \o pages[m] ELSE v]]
  <2>1. Descends(Seq(S), B, c, d, h)
    <3>1. ASSUME NEW m \in Nat, NEW v \in Seq(S)
          PROVE  (IF m \in 1..t THEN v \o pages[m] ELSE v) \in Seq(S)
      BY <1>3
    <3>2. h \in [Nat -> [Seq(S) -> Seq(S)]]
      BY <3>1
    <3>3. c \in Seq(S)
      BY <1>1, <1>3
    <3>4. B \subseteq Nat /\ d \in [Nat -> Nat] /\ \A m \in Nat \ B : d[m] < m
      OBVIOUS
    <3> QED BY <3>2, <3>3, <3>4 DEF Descends
  <2>2. \A m \in Nat : (m \in B <=> m = 0 \/ m = 1) /\ (m # 0 => d[m] = m - 1)
    OBVIOUS
  <2>3. \A m \in Nat, v \in Seq(S) : h[m][v] = IF m \in 1..t THEN v \o pages[m] ELSE v
    OBVIOUS
  <2>4. t > 0 => c = pages[1]
    OBVIOUS
  <2> HIDE DEF B, c, d, h
  <2>5. PICK f : Solves(f, Seq(S), B, c, d, h)
    BY <2>1, RecursionHolds
  <2> DEFINE g == [i \in 1..t |-> f[i]]
  <2>6. ASSUME NEW i \in 1..t
        PROVE  g[i] = IF i = 1 THEN pages[i] ELSE g[i - 1] \o pages[i]
    <3>1. CASE i = 1
      <4>1. 1 \in Nat /\ 1 \in B /\ t > 0
        BY <1>1, <2>2, <3>1
      <4>2. f[1] = c
        BY <2>5, <4>1 DEF Solves
      <4> QED BY <2>4, <3>1, <4>1, <4>2
    <3>2. CASE i # 1
      <4>1. i - 1 \in 1..t /\ i \in Nat /\ i - 1 \in Nat
        BY <1>1, <3>2
      <4>2. f[i] = h[i][f[i - 1]] /\ f[i - 1] \in Seq(S)
        <5>1. i \notin B /\ d[i] = i - 1
          BY <2>2, <3>2, <4>1
        <5> QED BY <2>5, <4>1, <5>1 DEF Solves
      <4>3. f[i] = f[i - 1] \o pages[i]
        BY <2>3, <4>1, <4>2
      <4> QED BY <3>2, <4>1, <4>3
    <3> QED BY <3>1, <3>2
  <2>7. g = Body(g)
    BY <1>2, <2>6
  <2> HIDE DEF g
  <2> QED BY <2>7
<1> HIDE DEF flat
<1>8. ASSUME NEW i \in 1..t
      PROVE  flat[i] = IF i = 1 THEN pages[i] ELSE flat[i - 1] \o pages[i]
  BY <1>2, <1>7
<1> HIDE DEF Body
<1> DEFINE I == {i \in Nat : i \in 1..t => flat[i] = SubSeq(keys, 1, end(i))}
<1>9. ASSUME NEW i \in Nat, i \in I PROVE i + 1 \in I
  <2> SUFFICES ASSUME i + 1 \in 1..t PROVE flat[i + 1] = SubSeq(keys, 1, end(i + 1))
    OBVIOUS
  <2>1. i + 1 - 1 = i
    OBVIOUS
  <2>2. pages[i + 1] = SubSeq(keys, end(i) + 1, end(i + 1))
    BY <1>3, <2>1
  <2>3. CASE i = 0
    BY <1>6, <1>8, <2>2, <2>3
  <2>4. CASE i # 0
    <3>1. i \in 1..t /\ i + 1 # 1
      BY <1>1, <2>4
    <3>2. flat[i + 1] = SubSeq(keys, 1, end(i)) \o SubSeq(keys, end(i) + 1, end(i + 1))
      <4>1. flat[i + 1] = flat[i] \o pages[i + 1]
        <5>1. flat[i + 1] = IF i + 1 = 1 THEN pages[i + 1] ELSE flat[i + 1 - 1] \o pages[i + 1]
          BY <1>8
        <5> QED BY <2>1, <3>1, <5>1
      <4>2. flat[i] = SubSeq(keys, 1, end(i))
        BY <1>9, <3>1
      <4> QED BY <2>2, <4>1, <4>2
    <3>3. end(i) \in 0..Len(keys) /\ end(i + 1) \in end(i)..Len(keys)
      BY <1>1, <1>4, <2>1 DEF k
    <3> HIDE DEF end
    <3>4. SubSeq(keys, 1, end(i)) \o SubSeq(keys, end(i) + 1, end(i + 1)) = SubSeq(keys, 1, end(i + 1))
      <4>1. 1 \in 1..(Len(keys) + 1) /\ end(i) \in (1 - 1)..Len(keys)
        BY <1>1, <3>3 DEF k
      <4> QED BY <3>3, <4>1, ConcatAdjacentSubSeq
    <3> QED BY <3>2, <3>4
  <2> QED BY <2>3, <2>4
<1>10. 0 \in I
  OBVIOUS
<1> HIDE DEF I
<1>11. Nat \subseteq I
  BY <1>9, <1>10, SetInduction
<1>12. CASE t = 0
  <2>1. keys = <<>> /\ pages = <<>>
    BY <1>1, <1>12 DEF k, pages
  <2> QED BY <1>2, <1>5, <1>12, <2>1 DEF pages, t
<1>13. CASE t # 0
  <2>1. flat[t] = SubSeq(keys, 1, end(t)) /\ end(t) = Len(keys)
    BY <1>1, <1>11, <1>13 DEF I, k
  <2>2. SubSeq(keys, 1, Len(keys)) = keys
    BY SubSeqFull
  <2> QED BY <1>2, <1>5, <1>13, <2>1, <2>2 DEF pages, t
<1> QED BY <1>12, <1>13

(***************************************************************************)
(* The views leave nothing out: the deals of a group and its counts, and   *)
(* the pages of a list (Group.js, Groups.js): ViewsComplete.               *)
(***************************************************************************)
THEOREM ViewsCompleteAlways == TilesSpec => []ViewsComplete
<1>1. DealsAccounted
  <2> SUFFICES ASSUME NEW a \in DealFlags, NEW b \in DealFlags, NEW failed \in BOOLEAN
               PROVE  LET deals == <<a, b>>
                          n == dealCounts(deals)
                          list == dealsToDisplay(deals, failed)
                          shownDeals == dealsToDisplay(deals, FALSE)
                      IN /\ n.errors + n.sealed + n.started = Len(deals)
                         /\ Len(list) = Len(deals) - (IF failed THEN 0 ELSE n.errors)
                         /\ n.sealed = Cardinality({i \in DOMAIN shownDeals :
                                                      Headline(shownDeals[i]) # "pending"})
    BY DEF DealsAccounted
  <2> DEFINE deals == <<a, b>>
  <2>1. deals \in Seq(DealFlags)
    OBVIOUS
  <2> HIDE DEF deals
  <2> QED BY <2>1, DealsAgree DEF deals, DealFlags
<1>2. (page = "Views" => input \in Nat) => PagesComplete
  <2> SUFFICES ASSUME input \in Nat PROVE PagesComplete
    BY DEF PagesComplete
  <2> DEFINE keys == [i \in 1..input |-> i + 7]
  <2>1. keys \in Seq(Nat)
    OBVIOUS
  <2> HIDE DEF keys
  <2>2. FlattenSeq([p \in 1..totalPages(keys) |-> PageOf(keys, p - 1)]) = keys
    BY <2>1, PagesFlatten
  <2>3. \A index \in 0..(totalPages(keys) - 1) :
          LET b == Button(keys, index)
              shownPage == PageOf(keys, b.page)
          IN b.from = Head(shownPage) /\ b.to = Last(shownPage)
    BY <2>1, PagesHoldTheList
  <2> QED BY <2>2, <2>3 DEF PagesComplete, keys
<1>3. (page = "Views" => input \in Nat) => ViewsComplete
  BY <1>1, <1>2 DEF ViewsComplete
<1> QED BY <1>3, InputIs, PTL
===============================================================================
