--------------------------------- MODULE Fmt ----------------------------------
(***************************************************************************)
(* What the pages compute for display: the formatting helpers              *)
(* (helpers/fmt.js), the counts and pages of the views.                    *)
(* A formatted number is its digits as an integer, how many of them are    *)
(* decimals, and the index of its unit; a duration is its parts.           *)
(*                                                                         *)
(* Numbers are floats there.  A division by 1000 may end just below or     *)
(* above the quotient: where the quotient lies on the border of two        *)
(* results, `low` is 1 when the lower one comes out, 0 when the upper one  *)
(* does.  Away from a border the result is that of the quotient for        *)
(* numbers below 10^15, since two quotients are further apart than the     *)
(* error.  A division by 1024 is exact, and toFixed takes the upper of two *)
(* halves.                                                                 *)
(***************************************************************************)
EXTENDS Integers, Sequences, FiniteSets, SequencesExt

RoundDiv(a, b, low) == (2 * a + b - low) \div (2 * b)

(* What l divisions by base divide by.                                     *)
Pow(base, l) == LET f[k \in Nat] == IF k = 0 THEN 1 ELSE base * f[k - 1] IN f[l]

(* The loop `while (n >= base && ++l) n = n / base`.                       *)
\* Mutant: the unit changes one too late.
LevelLate(base, n) ==
  LET f[m \in Nat] == IF m <= base THEN 0 ELSE 1 + f[m \div base] IN f[n]

Level(base, n) ==
  LET f[m \in Nat] == IF m < base THEN 0 ELSE 1 + f[m \div base] IN f[n]

Fixed(n, base, l, frac, low) ==
  [digits |-> RoundDiv(n * 10^frac, Pow(base, l), low), frac |-> frac, unit |-> l]
WithUnit(n, base, frac, low) ==
  LET l == Level(base, n) IN Fixed(n, base, l, IF l > 0 THEN frac ELSE 0, low)

formatBytesBinary(bytes) == WithUnit(bytes, 1024, 2, 0)
formatBitsBinary(bytes) == WithUnit(bytes * 8, 1024, 2, 0)
formatNum(nm, fracDigits, low) == WithUnit(nm, 1000, fracDigits, low)

(* Two decimals make sense only below ten; FIL is the last unit.           *)
formatFil(n, low) ==
  LET l == IF Level(1000, n) > 6 THEN 6 ELSE Level(1000, n)
  IN Fixed(n, 1000, l, IF l > 0 /\ n < 10 * Pow(1000, l) THEN 1 ELSE 0, low)

(* The integer part and the thousandths, written without leading zeros.    *)
(* A whole number of thousandths may lose one: (1.001 - 1) * 1000 is just  *)
(* below 1, and 1001 becomes "1 k".                                        *)
formatNum6(bytes, low) ==
  LET l == Level(1000, bytes)
      one == Pow(1000, l)
      thousandths == (bytes % one) * 1000
      loses == low = 1 /\ bytes % one # 0 /\ thousandths % one = 0
  IN [int |-> bytes \div one, dec |-> (thousandths \div one) - (IF loses THEN 1 ELSE 0),
      unit |-> l]

epochToDuration(epochs) ==
  LET totalSeconds == 30 * (IF epochs < 0 THEN -epochs ELSE epochs)
      day == 24 * 60 * 60
  IN [months |-> totalSeconds \div (30 * day), days |-> (totalSeconds % (30 * day)) \div day,
      hours |-> (totalSeconds % day) \div (60 * 60), minutes |-> (totalSeconds % (60 * 60)) \div 60]

(* The distance of a time to now, in seconds, with months as long as that  *)
(* of the date.                                                            *)
formatTimestamp(diff, monthDays) ==
  LET d == IF diff < 0 THEN -diff ELSE diff
      month == monthDays * 24 * 60 * 60
      days == (d % month) \div (24 * 60 * 60)
      rest == (d - ((d \div month) * month)) - (days * 24 * 60 * 60)
  IN [months |-> d \div month, days |-> days, hours |-> rest \div (60 * 60),
      minutes |-> (rest % (60 * 60)) \div 60]

-------------------------------------------------------------------------------
(* Deals of a group and of a provider: flags as strings in a set.          *)
dealCounts(deals) ==
  LET errors == {i \in DOMAIN deals : "Failed" \in deals[i]}
      sealed == {i \in DOMAIN deals \ errors : "Sealed" \in deals[i]}
  IN [errors |-> Cardinality(errors), sealed |-> Cardinality(sealed),
      started |-> Len(deals) - Cardinality(errors \cup sealed)]

dealsToDisplay(deals, showFailedDeals) ==
  LET filtered[i \in 0..Len(deals)] ==
        IF i = 0 THEN <<>>
        ELSE IF "Failed" \in deals[i] THEN filtered[i - 1] ELSE Append(filtered[i - 1], deals[i])
  IN IF showFailedDeals THEN deals ELSE filtered[Len(deals)]

(* What a Deal says of itself: its classes and its headline.               *)
Retrievable(deal) == "RetrSuccess" \in deal /\ "NoRecentSuccess" \notin deal
Headline(deal) ==
  IF "Sealed" \notin deal THEN "pending"
  ELSE IF deal \cap {"RetrSuccess", "RetrFail"} = {} THEN "sealed"
  ELSE IF Retrievable(deal) THEN "retrievable" ELSE "unretrievable"

-------------------------------------------------------------------------------
(* The pages of the list of groups, and the button of each page.           *)
itemsPerPage == 30
Least(a, b) == IF a < b THEN a ELSE b
totalPages(groupKeys) == (Len(groupKeys) + itemsPerPage - 1) \div itemsPerPage

PageOf(groupKeys, currentPage) ==
  SubSeq(groupKeys, currentPage * itemsPerPage + 1,
         Least(Len(groupKeys), (currentPage + 1) * itemsPerPage))

\* Mutant: the label of the last page runs past the list.
ButtonLong(groupKeys, index) ==
  LET page == totalPages(groupKeys) - index - 1
  IN [page |-> page, from |-> groupKeys[page * itemsPerPage + 1],
      to |-> groupKeys[Least(Len(groupKeys), (page + 1) * itemsPerPage + 1)]]

Button(groupKeys, index) ==
  LET page == totalPages(groupKeys) - index - 1
  IN [page |-> page, from |-> groupKeys[page * itemsPerPage + 1],
      to |-> groupKeys[Least(Len(groupKeys), (page + 1) * itemsPerPage)]]
===============================================================================
