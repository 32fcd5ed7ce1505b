-------------------------------- MODULE Tiles ---------------------------------
(***************************************************************************)
(* The polls of the pages together with the tile whose rates are not those *)
(* of a counter (CarUploadStatsTile) and with what the views compute.      *)
(*                                                                         *)
(* The car upload tile is given a new carUploadStats by Status after every *)
(* fetch; like WorkerStats it sees them as a poll of its own.  Its effect  *)
(* runs calcRates and sets a 1 s interval for it, whose closure keeps the  *)
(* lastGlobalBytes and globalRate of that render; what a group uploaded,   *)
(* and its average, are refs.  One group stands for each.                  *)
(***************************************************************************)
EXTENDS Polls, Fmt

CONSTANTS BytesAt,  \* UploadBytes of the group at each version; -1: not in ByGroup
          TotalAt,  \* LastTotalBytes at each version
          Input     \* numbers to format

(* Byte counts of the node, for the versions of the tile's data.           *)
CarVersion == 0..MaxVersion["CarUploadStatsTile"]
ASSUME BytesAssumption ==
  "CarUploadStatsTile" \in Page =>
    /\ BytesAt \in [CarVersion -> Nat \cup {-1}]
    /\ TotalAt \in [CarVersion -> Nat]
ASSUME InputAssumption == Input \subseteq Nat

VARIABLES
  answers,                  \* carUploadStats that came, counted up to 2 (history)
  prevBytes, rateEMA,       \* of the group; -1: no previous stats
  lastGlobalBytes, globalRate,  \* states of the tile; -1 for undefined, a number or NaN
  stats, capLast, capRate,  \* carUploadStats, and the two states, of the live closure
  input

carVars == <<answers, prevBytes, rateEMA, lastGlobalBytes, globalRate, stats, capLast, capRate>>
tileVars == <<vars, carVars, input>>

Num(n) == <<"num", n>>
NaN == <<"nan", 0>>
(* The first effect has run, on the initial carUploadStats {}.             *)
CarInit ==
  /\ answers = 0 /\ prevBytes = -1 /\ rateEMA = 0 /\ lastGlobalBytes = -1 /\ globalRate = NaN
  /\ stats = -1 /\ capLast = 0 /\ capRate = Num(0)

TilesInit == Init /\ CarInit /\ input \in (IF page = "Views" THEN Input ELSE {0})

-------------------------------------------------------------------------------
(* calcRates of the closure with version v of the stats, last and rate.    *)
\* Mutant: a NaN is not replaced by 0.
OrZeroNot(rate) == rate

OrZero(rate) == IF rate = NaN THEN Num(0) ELSE rate

GlobalRate(v, last, rate) ==
  IF v = -1 \/ last = -1 THEN NaN
  ELSE LET change == IF last = 0 THEN 0 ELSE TotalAt[v] - last
       IN IF OrZero(rate) = NaN THEN NaN ELSE Num((change + 99 * OrZero(rate)[2] + 50) \div 100)

calcRates(v, last, rate) ==
  /\ IF v = -1 \/ BytesAt[v] = -1 THEN UNCHANGED <<prevBytes, rateEMA>>
     ELSE /\ prevBytes' = BytesAt[v]
          /\ rateEMA' = IF prevBytes = -1 THEN rateEMA
                        ELSE calcEMA(Scale * (BytesAt[v] - prevBytes), rateEMA)
  /\ globalRate' = GlobalRate(v, last, rate)
  /\ lastGlobalBytes' = IF v = -1 THEN -1 ELSE TotalAt[v]

(* New stats: the closure of the effect has the states of this render.     *)
NewStats(v) ==
  /\ stats' = v /\ capLast' = lastGlobalBytes /\ capRate' = globalRate
  /\ answers' = IF answers < 2 THEN answers + 1 ELSE answers
  /\ calcRates(v, lastGlobalBytes, globalRate)

\* Mutant: the interval sees the current states.
CarIntervalCurrent ==
  /\ page = "CarUploadStatsTile"
  /\ calcRates(stats, lastGlobalBytes, globalRate)
  /\ UNCHANGED <<vars, answers, stats, capLast, capRate, input>>

CarInterval ==
  /\ page = "CarUploadStatsTile"
  /\ calcRates(stats, capLast, capRate)
  /\ UNCHANGED <<vars, answers, stats, capLast, capRate, input>>

CarArrives(f) ==
  /\ page = "CarUploadStatsTile"
  /\ Arrives(f) /\ NewStats(sample[f][1])
  /\ input' = input

TilesNext ==
  \/ /\ page # "Views"
     /\ \/ NodeAdvances \/ NodeResets
        \/ \E f \in Fetch : Interval(f) \/ NodeAnswers(f) \/ CallFails(f)
        \/ page # "CarUploadStatsTile" /\ \E f \in Fetch : Arrives(f)
     /\ UNCHANGED <<carVars, input>>
  \/ \E f \in Fetch : CarArrives(f)
  \/ CarInterval

(* The browser fires the interval; a call that does not fail is answered.  *)
TilesSpec == TilesInit /\ [][TilesNext]_tileVars
FairSpec == TilesSpec /\ \A f \in Fetch :
  WF_vars(page # "Views" /\ Interval(f)) /\ WF_vars(NodeAnswers(f)) /\ WF_vars(Arrives(f))

-------------------------------------------------------------------------------
(***************************************************************************)
(* The global upload rate takes each answer into account once: the         *)
(* interval, which runs calcRates again until the next answer, leaves it   *)
(* as it is (the closure's lastGlobalBytes and globalRate).                *)
(***************************************************************************)
GlobalOncePerAnswer ==
  [][page = "CarUploadStatsTile" /\ shown' = shown /\ at' = at
       => globalRate' = globalRate /\ lastGlobalBytes' = lastGlobalBytes]_tileVars

(***************************************************************************)
(* The NaN that the first renders make of a missing LastTotalBytes is gone *)
(* after two answers and does not come back (`globalRate || 0`).           *)
(***************************************************************************)
GlobalRateHeals == answers = 2 => globalRate # NaN

(***************************************************************************)
(* A number can be read back from its formatted text to within half of the *)
(* last digit shown, in the largest unit it has one of: the loops of       *)
(* fmt.js, of which formatFil's ends at FIL, its unit 6.                   *)
(***************************************************************************)
ReadsBack(r, n, base) ==
  LET one == Pow(base, r.unit)
      err == r.digits * one - n * 10^r.frac
  IN 2 * (IF err < 0 THEN -err ELSE err) <= one
InUnit(r, n, base) ==
  (r.unit = 0 \/ n >= Pow(base, r.unit)) /\ n < Pow(base, r.unit + 1)
NumbersReadBack ==
  page = "Views" =>
    /\ \A frac \in {0, 2}, low \in {0, 1} :
         /\ ReadsBack(formatNum(input, frac, low), input, 1000)
         /\ InUnit(formatNum(input, frac, low), input, 1000)
    /\ ReadsBack(formatBytesBinary(input), input, 1024)
    /\ InUnit(formatBytesBinary(input), input, 1024)
    /\ LET bytes == input \div 8
       IN /\ ReadsBack(formatBitsBinary(bytes), 8 * bytes, 1024)
          /\ InUnit(formatBitsBinary(bytes), 8 * bytes, 1024)
    /\ \A low \in {0, 1} :
         /\ ReadsBack(formatFil(input, low), input, 1000)
         /\ \/ InUnit(formatFil(input, low), input, 1000)
            \/ formatFil(input, low).unit = 6 /\ input >= Pow(1000, 6)

(***************************************************************************)
(* formatNum6 cuts a number to thousandths of its unit, and a float that   *)
(* ended below a whole thousandth cuts that one off as well: what is read  *)
(* is less than the number by no more than a thousandth.  They are written *)
(* without leading zeros, so it can be read only when there are none:      *)
(* 1004 and 1005 are both "1.4 k", which is read as 1400.                  *)
(***************************************************************************)
Num6ReadsBack ==
  page = "Views" =>
    \A low \in {0, 1} :
      LET r == formatNum6(input, low)
          last == Pow(1000, r.unit) \div 1000
          read == 1000 * r.int + r.dec
      IN /\ InUnit(r, input, 1000)
         /\ r.unit = 0 => r.int = input /\ r.dec = 0
         /\ r.unit > 0 /\ (r.dec = 0 \/ r.dec >= 100)
              => input - read * last \in 0..last

(***************************************************************************)
(* A duration's parts add up to it, to the minute (epochToDuration with    *)
(* months of 30 days, formatTimestamp with those of the date's month).     *)
(***************************************************************************)
Minutes(r, monthDays) == ((r.months * monthDays + r.days) * 24 + r.hours) * 60 + r.minutes
DurationsReadBack ==
  page = "Views" =>
    /\ Minutes(epochToDuration(input), 30) = input \div 2
    /\ Minutes(epochToDuration(-input), 30) = input \div 2
    /\ \A days \in {28, 29, 30, 31} : Minutes(formatTimestamp(input, days), days) = input \div 60

(***************************************************************************)
(* What the display shows of an amount or a time can be read back: the     *)
(* formatting functions of fmt.js at every change of unit.                 *)
(***************************************************************************)
FormatsReadBack == NumbersReadBack /\ Num6ReadsBack /\ DurationsReadBack

(***************************************************************************)
(* The counts above the deals of a group agree with the list: every deal   *)
(* is counted once, the hidden ones are the errors, and a deal shown as    *)
(* retrievable or not is one counted as sealed or as an error.             *)
(***************************************************************************)
DealFlags == SUBSET {"Failed", "Sealed", "RetrSuccess", "RetrFail"}
DealsAccounted ==
  page = "Views" /\ input = 0 =>
    \A a, b \in DealFlags, failed \in BOOLEAN :
      LET deals == <<a, b>>
          n == dealCounts(deals)
          list == dealsToDisplay(deals, failed)
          shownDeals == dealsToDisplay(deals, FALSE)
      IN /\ n.errors + n.sealed + n.started = Len(deals)
         /\ Len(list) = Len(deals) - (IF failed THEN 0 ELSE n.errors)
         /\ n.sealed = Cardinality({i \in DOMAIN shownDeals : Headline(shownDeals[i]) # "pending"})

(***************************************************************************)
(* Every group is on one page of the list, and the button of a page names  *)
(* its first and its last group (Groups: slice, and the labels).           *)
(***************************************************************************)
PagesComplete ==
  page = "Views" /\ input <= 100 =>
    LET keys == [i \in 1..input |-> i + 7]
        pages == [p \in 1..totalPages(keys) |-> PageOf(keys, p - 1)]
    IN /\ FlattenSeq(pages) = keys
       /\ \A index \in 0..(totalPages(keys) - 1) :
            LET b == Button(keys, index)
                shownPage == PageOf(keys, b.page)
            IN b.from = Head(shownPage) /\ b.to = Last(shownPage)

(***************************************************************************)
(* The views leave nothing out and count nothing twice: the deals of a     *)
(* group and the pages of groups.                                          *)
(***************************************************************************)
ViewsComplete == DealsAccounted /\ PagesComplete
===============================================================================
