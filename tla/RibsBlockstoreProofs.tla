------------------------- MODULE RibsBlockstoreProofs -------------------------
(***************************************************************************)
(* Proofs about RibsBlockstore, for every set of blocks and of callers and *)
(* every bound: the inductive invariant IInv, one lemma per action, the    *)
(* guarantees of Flush, Put and Close that follow from it, and the types,  *)
(* with the bounds of the channels and of the batch.                       *)
(***************************************************************************)
EXTENDS RibsBlockstore, FiniteSetTheorems, TLAPS

(***************************************************************************)
(* A step that leaves the channel puts, the requests the loop holds and    *)
(* the callers of Put alone keeps what IInv says of them.                  *)
(***************************************************************************)
LEMMA PutsKept ==
  ASSUME RequestInv, NoPutForgotten, UNCHANGED <<puts, taken, ppc>>
  PROVE  RequestInv' /\ NoPutForgotten'
BY DEF RequestInv, NoPutForgotten, Queued

(***************************************************************************)
(* Receiving a request moves it from the channel into the loop's hands.    *)
(***************************************************************************)
LEMMA ReceiveMoves ==
  ASSUME TypeInv, RequestInv, NoPutForgotten, Receive
  PROVE  /\ puts' \in Seq(Putter) /\ taken' \subseteq Putter
         /\ RequestInv' /\ NoPutForgotten'
<1>1. /\ Len(puts) \in Nat /\ Len(puts) > 0 /\ DOMAIN puts = 1 .. Len(puts)
      /\ puts' \in Seq(Putter) /\ DOMAIN puts' = 1 .. Len(puts) - 1
      /\ \A i \in DOMAIN puts' : puts'[i] = puts[i + 1]
  BY DEF TypeInv, Receive
<1>2. 1 \in DOMAIN puts /\ Head(puts) = puts[1] /\ puts[1] \in Putter
  BY <1>1 DEF TypeInv
<1>3. taken' = taken \cup {puts[1]} /\ ppc' = ppc
  BY <1>2 DEF Receive, putterVars
<1>4. Queued = Queued' \cup {puts[1]}
  <2>1. ASSUME NEW p \in Queued, p # puts[1] PROVE p \in Queued'
    <3>1. PICK i \in 1 .. Len(puts) : puts[i] = p
      BY <2>1, <1>1 DEF Queued
    <3>2. i # 1 /\ i - 1 \in DOMAIN puts'
      BY <3>1, <2>1, <1>1
    <3>3. puts'[i - 1] = p
      BY <3>1, <3>2, <1>1
    <3> QED BY <3>2, <3>3 DEF Queued
  <2>2. ASSUME NEW p \in Queued' PROVE p \in Queued
    <3>1. PICK i \in DOMAIN puts' : puts'[i] = p
      BY <2>2 DEF Queued
    <3>2. i + 1 \in DOMAIN puts /\ puts[i + 1] = p
      BY <3>1, <1>1
    <3> QED BY <3>2 DEF Queued
  <2>3. puts[1] \in Queued
    BY <1>2 DEF Queued
  <2> QED BY <2>1, <2>2, <2>3
<1>5. puts[1] \notin Queued'
  <2>1. SUFFICES ASSUME NEW i \in DOMAIN puts', puts'[i] = puts[1] PROVE FALSE
    BY DEF Queued
  <2>2. i + 1 \in DOMAIN puts /\ puts[i + 1] = puts[1] /\ i + 1 # 1
    BY <2>1, <1>1
  <2> QED BY <2>2, <1>2 DEF NoPutForgotten
<1>6. \A i, j \in DOMAIN puts' : puts'[i] = puts'[j] => i = j
  <2>1. SUFFICES ASSUME NEW i \in DOMAIN puts', NEW j \in DOMAIN puts', puts'[i] = puts'[j]
                 PROVE  i = j
    OBVIOUS
  <2>2. /\ i + 1 \in DOMAIN puts /\ j + 1 \in DOMAIN puts
        /\ puts[i + 1] = puts[j + 1] /\ i \in Nat /\ j \in Nat
    BY <2>1, <1>1
  <2>3. i + 1 = j + 1
    BY <2>2 DEF NoPutForgotten
  <2> QED BY <2>2, <2>3
<1>7. taken' \subseteq Putter
  BY <1>2, <1>3 DEF TypeInv
<1>8. RequestInv'
  BY <1>3, <1>4 DEF RequestInv
<1>9. NoPutForgotten'
  BY <1>3, <1>4, <1>5, <1>6 DEF NoPutForgotten
<1> QED BY <1>1, <1>7, <1>8, <1>9

-------------------------------------------------------------------------------
(***************************************************************************)
(* IInv holds of the blockstore New returns.                               *)
(***************************************************************************)
LEMMA InitIInv == Init => IInv
<1> SUFFICES ASSUME Init PROVE IInv
  OBVIOUS
<1>1. Queued = {} /\ puts \in Seq(Putter) /\ DOMAIN puts = {}
  BY DEF Init, Queued
<1>2. TypeInv
  BY <1>1 DEF Init, TypeInv
<1>3. PositionInv /\ AnsweredInv /\ NoFlushForgotten
  BY DEF Init, PositionInv, AnsweredInv, NoFlushForgotten
<1>4. RequestInv /\ NoPutForgotten
  BY <1>1 DEF Init, RequestInv, NoPutForgotten
<1>5. StoredInv
  BY DEF Init, StoredInv
<1> QED BY <1>2, <1>3, <1>4, <1>5 DEF IInv

-------------------------------------------------------------------------------
(***************************************************************************)
(* One lemma per action of a caller.                                       *)
(***************************************************************************)
LEMMA PutCallKeeps ==
  ASSUME IInv, NEW p \in Putter, NEW blks \in SUBSET Block, PutCall(p, blks)
  PROVE  IInv'
<1> USE DEF chanVars, loopVars, flushVars, diskVars
<1>1. p \notin Queued \cup taken
  BY DEF IInv, RequestInv, PutCall
<1>2. TypeInv'
  BY DEF IInv, TypeInv, PutCall
<1>3. PositionInv' /\ AnsweredInv' /\ NoFlushForgotten'
  BY DEF IInv, PositionInv, AnsweredInv, NoFlushForgotten, FlushComing, PutCall
<1>4. \A q \in Putter \ {p} : ppc'[q] = ppc[q] /\ want'[q] = want[q]
  BY DEF IInv, TypeInv, PutCall
<1>5. RequestInv' /\ NoPutForgotten'
  BY <1>1, <1>4 DEF IInv, TypeInv, RequestInv, NoPutForgotten, Queued, PutCall
<1>6. Blocks(taken)' = Blocks(taken)
  BY <1>1, <1>4 DEF IInv, TypeInv, Blocks, PutCall
<1>7. StoredInv'
  BY <1>6 DEF IInv, StoredInv, PutCall
<1> QED BY <1>2, <1>3, <1>5, <1>7 DEF IInv

\* The request enters the channel, where it was not before.
LEMMA PutSendKeeps ==
  ASSUME IInv, NEW p \in Putter, PutSend(p)
  PROVE  IInv'
<1> USE DEF loopVars, flushVars, diskVars
<1>1. /\ Len(puts) \in Nat /\ DOMAIN puts = 1 .. Len(puts)
      /\ puts' \in Seq(Putter) /\ DOMAIN puts' = 1 .. Len(puts) + 1
      /\ \A i \in DOMAIN puts : puts'[i] = puts[i]
      /\ puts'[Len(puts) + 1] = p
  BY DEF IInv, TypeInv, PutSend
<1>2. Queued' = Queued \cup {p} /\ p \notin Queued \cup taken
  <2>1. Queued' = Queued \cup {p}
    BY <1>1 DEF Queued
  <2>2. p \notin Queued \cup taken
    BY DEF IInv, RequestInv, PutSend
  <2> QED BY <2>1, <2>2
<1>3. TypeInv'
  BY <1>1 DEF IInv, TypeInv, PutSend
<1>4. PositionInv' /\ AnsweredInv' /\ NoFlushForgotten'
  BY DEF IInv, PositionInv, AnsweredInv, NoFlushForgotten, FlushComing, PutSend
<1>5. RequestInv'
  BY <1>2 DEF IInv, TypeInv, RequestInv, PutSend
<1>6. NoPutForgotten'
  <2>1. \A i, j \in DOMAIN puts' : puts'[i] = puts'[j] => i = j
    <3>1. \A i \in DOMAIN puts : puts[i] # p
      BY <1>2 DEF Queued
    <3> QED BY <1>1, <3>1 DEF IInv, NoPutForgotten
  <2> QED BY <2>1, <1>2 DEF IInv, TypeInv, NoPutForgotten, PutSend
<1>7. StoredInv'
  BY DEF IInv, StoredInv, Blocks, PutSend
<1> QED BY <1>3, <1>4, <1>5, <1>6, <1>7 DEF IInv

\* A caller that leaves keeps its request's blocks as they were.
LEMMA PutGiveUpKeeps ==
  ASSUME IInv, NEW p \in Putter, PutGiveUp(p)
  PROVE  IInv'
<1> USE DEF chanVars, loopVars, flushVars, diskVars
<1>1. TypeInv'
  BY DEF IInv, TypeInv, PutGiveUp
<1>2. PositionInv' /\ AnsweredInv' /\ NoFlushForgotten'
  BY DEF IInv, PositionInv, AnsweredInv, NoFlushForgotten, FlushComing, PutGiveUp
<1>3. RequestInv' /\ NoPutForgotten'
  BY DEF IInv, TypeInv, RequestInv, NoPutForgotten, Queued, PutGiveUp
<1>4. StoredInv'
  BY DEF IInv, StoredInv, Blocks, PutGiveUp
<1> QED BY <1>1, <1>2, <1>3, <1>4 DEF IInv

\* The number of a new call is past every position stored or noted.
LEMMA FlushCallKeeps ==
  ASSUME IInv, NEW f \in Flusher, FlushCall(f)
  PROVE  IInv'
<1> USE DEF loopVars, putterVars, diskVars
<1>1. TypeInv'
  BY DEF IInv, TypeInv, FlushCall
<1>2. PositionInv'
  BY DEF IInv, TypeInv, PositionInv, FlushCall
<1>3. \A g \in Flusher \ {f} : /\ now'[g] = now[g] /\ before'[g] = before[g]
                               /\ failsAt'[g] = failsAt[g] /\ fpc'[g] = fpc[g]
  BY DEF IInv, TypeInv, FlushCall
<1>4. now'[f] = flushReq + 1 /\ fpc'[f] = "tell" /\ before'[f] = acked
  BY DEF IInv, TypeInv, FlushCall
<1>5. AnsweredInv'
  <2>1. ~(now'[f] =< flushPos') /\ ~(now'[f] =< newPos')
    BY <1>4 DEF IInv, TypeInv, PositionInv, FlushCall
  <2> QED BY <1>3, <1>4, <2>1 DEF IInv, AnsweredInv, FlushCall
<1>6. NoFlushForgotten'
  BY <1>3, <1>4 DEF IInv, NoFlushForgotten, FlushComing, FlushCall
<1>7. RequestInv' /\ NoPutForgotten'
  BY PutsKept DEF IInv, FlushCall
<1>8. StoredInv'
  BY <1>3, <1>4 DEF IInv, StoredInv, Blocks, FlushCall
<1> QED BY <1>1, <1>2, <1>5, <1>6, <1>7, <1>8 DEF IInv

\* The token a caller leaves answers all who poll.
LEMMA FlushTellKeeps ==
  ASSUME IInv, NEW f \in Flusher, FlushTell(f)
  PROVE  IInv'
<1> USE DEF loopVars, putterVars, diskVars
<1>1. TypeInv'
  BY DEF IInv, TypeInv, FlushTell
<1>2. PositionInv'
  BY DEF IInv, PositionInv, FlushTell
<1>3. AnsweredInv'
  BY DEF IInv, TypeInv, AnsweredInv, FlushTell
<1>4. NoFlushForgotten'
  BY DEF IInv, NoFlushForgotten, FlushComing, FlushTell
<1>5. RequestInv' /\ NoPutForgotten'
  BY PutsKept DEF IInv, FlushTell
<1>6. StoredInv'
  BY DEF IInv, StoredInv, Blocks, FlushTell
<1> QED BY <1>1, <1>2, <1>3, <1>4, <1>5, <1>6 DEF IInv

\* A call that returns had its position stored.
LEMMA FlushDoneKeeps ==
  ASSUME IInv, NEW f \in Flusher, FlushDone(f)
  PROVE  IInv'
<1> USE DEF chanVars, loopVars, putterVars, diskVars
<1>1. TypeInv'
  BY DEF IInv, TypeInv, FlushDone
<1>2. PositionInv'
  BY DEF IInv, PositionInv, FlushDone
<1>3. AnsweredInv'
  BY DEF IInv, TypeInv, AnsweredInv, FlushDone
<1>4. NoFlushForgotten'
  BY DEF IInv, TypeInv, NoFlushForgotten, FlushComing, FlushDone
<1>5. RequestInv' /\ NoPutForgotten'
  BY PutsKept DEF IInv, FlushDone
<1>6. StoredInv'
  BY DEF IInv, StoredInv, Blocks, FlushDone
<1> QED BY <1>1, <1>2, <1>3, <1>4, <1>5, <1>6 DEF IInv

\* A caller that is no longer there needs no answer.
LEMMA FlushEndsKeeps ==
  ASSUME IInv, NEW f \in Flusher, fpc[f] # "tell", FlushEnds(f)
  PROVE  IInv'
<1> USE DEF chanVars, loopVars, putterVars, diskVars
<1>1. TypeInv'
  BY DEF IInv, TypeInv, FlushEnds
<1>2. PositionInv'
  BY DEF IInv, TypeInv, PositionInv, FlushEnds
<1>3. AnsweredInv'
  BY DEF IInv, TypeInv, AnsweredInv, FlushEnds
<1>4. NoFlushForgotten'
  BY DEF IInv, TypeInv, NoFlushForgotten, FlushComing, FlushEnds
<1>5. RequestInv' /\ NoPutForgotten'
  BY PutsKept DEF IInv, FlushEnds
<1>6. StoredInv'
  BY DEF IInv, TypeInv, StoredInv, Blocks, FlushEnds
<1> QED BY <1>1, <1>2, <1>3, <1>4, <1>5, <1>6 DEF IInv

-------------------------------------------------------------------------------
(***************************************************************************)
(* One lemma per step of the loop.                                         *)
(***************************************************************************)
LEMMA ReceiveKeeps ==
  ASSUME IInv, Receive, lpc \in {"select", "merge"}, lpc' \in {"merge", "put"}
  PROVE  IInv'
<1> USE DEF putterVars, flushVars, diskVars
<1>1. TypeInv' /\ RequestInv' /\ NoPutForgotten'
  BY ReceiveMoves DEF IInv, TypeInv, Receive
<1>2. PositionInv' /\ AnsweredInv' /\ NoFlushForgotten'
  BY DEF IInv, PositionInv, AnsweredInv, NoFlushForgotten, FlushComing, Receive
<1>3. StoredInv'
  BY DEF IInv, StoredInv, Receive
<1> QED BY <1>1, <1>2, <1>3 DEF IInv

\* The loop takes another request, or finds none.
LEMMA MergeKeeps ==
  ASSUME IInv, Merge
  PROVE  IInv'
<1>1. CASE Receive
  BY <1>1, ReceiveKeeps DEF Merge
<1>2. CASE ~Receive
  <2> USE <1>2 DEF chanVars, putterVars, flushVars, diskVars
  <2>1. TypeInv' /\ PositionInv' /\ StoredInv'
    BY DEF IInv, TypeInv, PositionInv, StoredInv, Merge
  <2>2. AnsweredInv' /\ NoFlushForgotten'
    BY DEF IInv, AnsweredInv, NoFlushForgotten, FlushComing, Merge
  <2>3. RequestInv' /\ NoPutForgotten'
    BY PutsKept DEF IInv, Merge
  <2> QED BY <2>1, <2>2, <2>3 DEF IInv
<1> QED BY <1>1, <1>2

\* The blocks written are in the batch when they can be acknowledged.
LEMMA BatchPutKeeps ==
  ASSUME IInv, BatchPut
  PROVE  IInv'
<1> USE DEF chanVars, putterVars, flushVars, diskVars
<1>1. TypeInv' /\ PositionInv'
  BY DEF IInv, TypeInv, PositionInv, BatchPut
<1>2. AnsweredInv' /\ NoFlushForgotten'
  BY DEF IInv, AnsweredInv, NoFlushForgotten, FlushComing, BatchPut
<1>3. RequestInv' /\ NoPutForgotten'
  BY PutsKept DEF IInv, BatchPut
<1>4. StoredInv'
  <2>1. Blocks(taken)' = Blocks(taken) /\ committed' = committed /\ batch \subseteq batch'
    BY DEF Blocks, BatchPut
  <2>2. ~failed' => Blocks(taken) \subseteq batch'
    BY DEF BatchPut
  <2>3. lpc' \in {"drain", "respond"} /\ (lpc' = "drain" => ~failed')
    BY DEF BatchPut
  <2> QED BY <2>1, <2>2, <2>3 DEF IInv, StoredInv, BatchPut
<1> QED BY <1>1, <1>2, <1>3, <1>4 DEF IInv

\* The blocks acknowledged are in the batch or committed.
LEMMA RespondKeeps ==
  ASSUME IInv, Respond
  PROVE  IInv'
<1> USE DEF chanVars, flushVars, diskVars
<1> DEFINE waiting == {p \in taken : ppc[p] = "wait"}
<1>1. /\ ppc' = [p \in Putter |-> IF p \in waiting THEN "idle" ELSE ppc[p]]
      /\ acked' = IF failed THEN acked ELSE acked \cup Blocks(waiting)
  BY DEF Respond
<1>2. TypeInv' /\ PositionInv'
  <2>1. Blocks(waiting) \subseteq Block
    BY DEF IInv, TypeInv, Blocks
  <2> QED BY <1>1, <2>1 DEF IInv, TypeInv, PositionInv, Respond, RespondEnd
<1>3. AnsweredInv' /\ NoFlushForgotten'
  BY DEF IInv, AnsweredInv, NoFlushForgotten, FlushComing, Respond, RespondEnd
<1>4. Queued' = Queued /\ taken' = {} /\ puts' = puts
  BY DEF Queued, Respond, RespondEnd
<1>5. Queued \subseteq Putter
  BY DEF IInv, TypeInv, Queued
<1>6. RequestInv'
  BY <1>1, <1>4, <1>5 DEF IInv, RequestInv, NoPutForgotten
<1>7. NoPutForgotten'
  BY <1>1, <1>4 DEF IInv, NoPutForgotten
<1>8. StoredInv'
  <2>1. Blocks(waiting) \subseteq Blocks(taken)
    BY DEF Blocks
  <2>2. acked' \subseteq committed \cup batch
    BY <1>1, <2>1 DEF IInv, StoredInv, Respond
  <2> QED BY <2>2 DEF IInv, StoredInv, Respond, RespondEnd
<1> QED BY <1>2, <1>3, <1>6, <1>7, <1>8 DEF IInv

\* A token that is taken leaves the loop ahead of noting its position.
LEMMA TakeFlushKeeps ==
  ASSUME IInv, TakeFlush \/ Drain
  PROVE  IInv'
<1> USE DEF putterVars, flushVars, diskVars
<1>1. TypeInv' /\ PositionInv'
  BY DEF IInv, TypeInv, PositionInv, TakeFlush, Drain
<1>2. AnsweredInv' /\ NoFlushForgotten'
  BY DEF IInv, AnsweredInv, NoFlushForgotten, FlushComing, TakeFlush, Drain
<1>3. RequestInv' /\ NoPutForgotten'
  BY PutsKept DEF IInv, TakeFlush, Drain
<1>4. StoredInv'
  BY DEF IInv, StoredInv, Blocks, TakeFlush, Drain
<1> QED BY <1>1, <1>2, <1>3, <1>4 DEF IInv

\* The position noted answers every call so far.
LEMMA LoadKeeps ==
  ASSUME IInv, Load
  PROVE  IInv'
<1> USE DEF chanVars, putterVars, flushVars, diskVars
<1>1. TypeInv' /\ PositionInv'
  BY DEF IInv, TypeInv, PositionInv, Load
<1>2. AnsweredInv'
  BY DEF IInv, AnsweredInv, Load
<1>3. NoFlushForgotten'
  BY DEF IInv, PositionInv, NoFlushForgotten, FlushComing, Load
<1>4. RequestInv' /\ NoPutForgotten'
  BY PutsKept DEF IInv, Load
<1>5. StoredInv'
  BY DEF IInv, StoredInv, Blocks, Load
<1> QED BY <1>1, <1>2, <1>3, <1>4, <1>5 DEF IInv

\* A flush moves the batch to the committed blocks, or counts as failed.
LEMMA CommitKeeps ==
  ASSUME IInv, FlushBatch \/ Closing
  PROVE  IInv'
<1> USE DEF chanVars, putterVars, flushVars
<1>1. TypeInv' /\ PositionInv'
  BY DEF IInv, TypeInv, PositionInv, FlushBatch, Closing, CommitBatch
<1>2. NoFlushForgotten'
  BY DEF IInv, NoFlushForgotten, FlushComing, FlushBatch, Closing
<1>3. RequestInv' /\ NoPutForgotten'
  BY PutsKept DEF IInv, FlushBatch, Closing
<1>4. /\ committed' \cup batch' = committed \cup batch /\ committed \subseteq committed'
      /\ failed' => fails' = fails + 1
      /\ ~failed' => committed' = committed \cup batch /\ batch' = {} /\ fails' = fails
  <2>1. CommitBatch
    BY DEF FlushBatch, Closing
  <2>2. CASE fails' = fails /\ ~failed'
    BY <2>1, <2>2 DEF CommitBatch, IInv, TypeInv
  <2>3. CASE fails' = fails + 1 /\ failed'
    BY <2>1, <2>3 DEF CommitBatch, IInv, TypeInv
  <2> QED BY <2>1, <2>2, <2>3 DEF CommitBatch
<1>5. AnsweredInv'
  <2> SUFFICES ASSUME NEW f \in Flusher, fails' = failsAt[f]
               PROVE  /\ fpc[f] \in {"tell", "poll"} /\ now[f] =< flushPos => before[f] \subseteq committed'
                      /\ fpc[f] \in {"tell", "poll"} => lpc' # "store" \/ before[f] \subseteq committed'
                      /\ fpc[f] = "done" => before[f] \subseteq committed'
    BY DEF AnsweredInv, FlushBatch, Closing
  <2>1. ~failed' /\ fails' = fails
    BY <1>4 DEF IInv, TypeInv, PositionInv
  <2> QED BY <2>1, <1>4 DEF IInv, StoredInv
<1>6. StoredInv'
  BY <1>4 DEF IInv, StoredInv, Blocks, FlushBatch, Closing
<1> QED BY <1>1, <1>2, <1>3, <1>5, <1>6 DEF IInv

\* The calls answered had their blocks committed, or a flush failed since.
LEMMA StoreKeeps ==
  ASSUME IInv, Store
  PROVE  IInv'
<1> USE DEF putterVars, flushVars, diskVars
<1>1. TypeInv' /\ PositionInv'
  BY DEF IInv, TypeInv, PositionInv, Store
<1>2. AnsweredInv'
  BY DEF IInv, TypeInv, AnsweredInv, Store
<1>3. NoFlushForgotten'
  BY DEF IInv, TypeInv, PositionInv, NoFlushForgotten, FlushComing, Store
<1>4. RequestInv' /\ NoPutForgotten'
  BY PutsKept DEF IInv, Store
<1>5. StoredInv'
  BY DEF IInv, TypeInv, StoredInv, Blocks, Store
<1> QED BY <1>1, <1>2, <1>3, <1>4, <1>5 DEF IInv

\* Close and the end of the loop move no block.
LEMMA StopKeeps ==
  ASSUME IInv, TakeStop \/ Close
  PROVE  IInv'
<1> USE DEF chanVars, loopVars, putterVars, flushVars, diskVars
<1>1. TypeInv' /\ PositionInv'
  BY DEF IInv, TypeInv, PositionInv, TakeStop, Close
<1>2. AnsweredInv' /\ NoFlushForgotten'
  BY DEF IInv, AnsweredInv, NoFlushForgotten, FlushComing, TakeStop, Close
<1>3. RequestInv' /\ NoPutForgotten'
  BY PutsKept DEF IInv, TakeStop, Close
<1>4. StoredInv'
  BY DEF IInv, StoredInv, Blocks, TakeStop, Close
<1> QED BY <1>1, <1>2, <1>3, <1>4 DEF IInv

-------------------------------------------------------------------------------
(***************************************************************************)
(* Every step keeps IInv.                                                  *)
(***************************************************************************)
LEMMA NextIInv == IInv /\ [Next]_vars => IInv'
<1> SUFFICES ASSUME IInv, [Next]_vars PROVE IInv'
  OBVIOUS
<1>1. CASE UNCHANGED vars
  <2> USE <1>1 DEF vars, chanVars, loopVars, putterVars, flushVars, diskVars
  <2>1. TypeInv' /\ PositionInv' /\ AnsweredInv' /\ NoFlushForgotten'
    BY DEF IInv, TypeInv, PositionInv, AnsweredInv, NoFlushForgotten, FlushComing
  <2>2. RequestInv' /\ NoPutForgotten'
    BY PutsKept DEF IInv
  <2>3. StoredInv'
    BY DEF IInv, StoredInv, Blocks
  <2> QED BY <2>1, <2>2, <2>3 DEF IInv
<1>2. ASSUME NEW p \in Putter, NEW blks \in SUBSET Block, PutCall(p, blks) PROVE IInv'
  BY <1>2, PutCallKeeps
<1>3. ASSUME NEW p \in Putter, PutSend(p) \/ PutGiveUp(p) PROVE IInv'
  BY <1>3, PutSendKeeps, PutGiveUpKeeps
<1>4. ASSUME NEW f \in Flusher, FlushCall(f) \/ FlushTell(f) \/ FlushDone(f) PROVE IInv'
  BY <1>4, FlushCallKeeps, FlushTellKeeps, FlushDoneKeeps
<1>5. ASSUME NEW f \in Flusher, FlushGiveUp(f) \/ FlushReturn(f) PROVE IInv'
  BY <1>5, FlushEndsKeeps DEF FlushGiveUp, FlushReturn
<1>6. CASE TakePut
  BY <1>6, ReceiveKeeps DEF TakePut
<1>7. CASE Merge \/ BatchPut \/ Respond
  BY <1>7, MergeKeeps, BatchPutKeeps, RespondKeeps
<1>8. CASE TakeFlush \/ Prepare
  BY <1>8, TakeFlushKeeps, LoadKeeps DEF Prepare
<1>9. CASE FlushBatch \/ Closing \/ Store \/ TakeStop \/ Close
  BY <1>9, CommitKeeps, StoreKeeps, StopKeeps
<1> QED BY <1>1, <1>2, <1>3, <1>4, <1>5, <1>6, <1>7, <1>8, <1>9 DEF Next, LoopStep

(***************************************************************************)
(* The inductive invariant of the loop, its channels and its callers.      *)
(***************************************************************************)
THEOREM Invariance == Spec => []IInv
<1>1. Init => IInv
  BY InitIInv
<1>2. IInv /\ [Next]_vars => IInv'
  BY NextIInv
<1> QED BY <1>1, <1>2, PTL DEF Spec

(***************************************************************************)
(* A Flush that returns without error, and during which no flush of a      *)
(* batch failed, has committed every block acknowledged before the call.   *)
(***************************************************************************)
THEOREM FlushDurableAlways == Spec => []FlushDurable
<1>1. IInv => FlushDurable
  BY DEF IInv, AnsweredInv, FlushDurable
<1> QED BY <1>1, Invariance, PTL

(***************************************************************************)
(* Once the loop has ended and its last flush succeeded, every block whose *)
(* Put returned without error is committed.                                *)
(***************************************************************************)
THEOREM CloseCommitsAlways == Spec => []CloseCommits
<1>1. IInv => CloseCommits
  BY DEF IInv, StoredInv, CloseCommits
<1> QED BY <1>1, Invariance, PTL

(***************************************************************************)
(* While the loop runs, a Flush that polls has its answer under way.       *)
(***************************************************************************)
THEOREM NoFlushForgottenAlways == Spec => []NoFlushForgotten
<1>1. IInv => NoFlushForgotten
  BY DEF IInv
<1> QED BY <1>1, Invariance, PTL

(***************************************************************************)
(* The request of a waiting Put is in exactly one place.                   *)
(***************************************************************************)
THEOREM NoPutForgottenAlways == Spec => []NoPutForgotten
<1>1. IInv => NoPutForgotten
  BY DEF IInv
<1> QED BY <1>1, Invariance, PTL

-------------------------------------------------------------------------------
(***************************************************************************)
(* The bounds of the types.  A request is taken while no more than         *)
(* MaxQueued blocks are, and a batch of more than MaxUnflushed blocks is   *)
(* flushed before the next put: it grows past that by one merge of         *)
(* requests for each flush that fails.                                     *)
(***************************************************************************)
Merged == MaxQueued + 2 * Cardinality(Block)

LoopPC == {"select", "merge", "put", "drain", "load", "flush", "store", "respond",
           "closing", "stopped"}

LimitInv ==
  /\ Len(puts) =< QueueCap /\ flushReq =< MaxFlushes /\ fails =< MaxFails
  /\ lpc \in LoopPC
  /\ batch \subseteq Block /\ committed \subseteq Block

FlagInv == token \in BOOLEAN /\ closed \in BOOLEAN /\ bt \in BOOLEAN /\ failed \in BOOLEAN

MergeInv ==
  /\ lpc = "merge" => Count(taken) =< MaxQueued + Cardinality(Block)
  /\ lpc = "put" => Count(taken) =< Merged
  /\ lpc = "select" \/ (lpc \in {"drain", "load", "flush", "store"} /\ ret = "select")
       => taken = {}

\* A batch that was found too large is on its way to be flushed.
TooLarge == lpc \in {"drain", "load", "flush"} /\ ret = "respond"

\* How many blocks may be unflushed after n flushes that failed.
Allowed(n) == MaxUnflushed + n * Merged

UnflushedInv ==
  /\ unflushed \in Nat
  /\ ~TooLarge => unflushed =< Allowed(fails)
  /\ TooLarge  => unflushed =< Allowed(fails) + Merged

BoundInv == LimitInv /\ FlagInv /\ MergeInv /\ UnflushedInv

(***************************************************************************)
(* How many blocks the requests that were taken hold is a number.          *)
(***************************************************************************)
Wants(reqs) == {r \in reqs \X Block : r[2] \in want[r[1]]}

LEMMA CountFacts ==
  ASSUME TypeInv, NEW reqs \in SUBSET Putter
  PROVE  IsFiniteSet(Wants(reqs)) /\ Count(reqs) = Cardinality(Wants(reqs)) /\ Count(reqs) \in Nat
<1>1. IsFiniteSet(reqs) /\ IsFiniteSet(Block)
  BY BlockstoreAssumption, FS_Subset
<1>2. IsFiniteSet(reqs \X Block)
  BY <1>1, FS_Product
<1>3. Wants(reqs) \in SUBSET (reqs \X Block)
  BY DEF Wants
<1>. QED BY <1>2, <1>3, FS_Subset, FS_CardinalityType DEF Count, Wants

(***************************************************************************)
(* A request more adds at most every block once (the merge of puts in the  *)
(* loop).                                                                  *)
(***************************************************************************)
LEMMA CountGrows ==
  ASSUME TypeInv, NEW reqs \in SUBSET Putter, NEW p \in Putter
  PROVE  Count(reqs \cup {p}) =< Count(reqs) + Cardinality(Block)
<1>. DEFINE more == {p} \X Block
<1>1. IsFiniteSet({p}) /\ IsFiniteSet(Block) /\ Cardinality({p}) = 1 /\ Cardinality(Block) \in Nat
  BY BlockstoreAssumption, FS_Singleton, FS_CardinalityType
<1>2. IsFiniteSet(more) /\ Cardinality(more) = 1 * Cardinality(Block)
  BY <1>1, FS_Product
<1>3. Wants(reqs \cup {p}) \in SUBSET (Wants(reqs) \cup more)
  BY DEF Wants
<1>4. IsFiniteSet(Wants(reqs))
  BY CountFacts
<1>5. /\ IsFiniteSet(Wants(reqs) \cup more)
      /\ Cardinality(Wants(reqs) \cup more)
         = Cardinality(Wants(reqs)) + Cardinality(more) - Cardinality(Wants(reqs) \cap more)
  BY <1>2, <1>4, FS_Union
<1>6. IsFiniteSet(Wants(reqs) \cap more)
  BY <1>4, FS_Subset
<1>7. Cardinality(Wants(reqs)) \in Nat /\ Cardinality(Wants(reqs) \cap more) \in Nat
  BY <1>4, <1>6, FS_CardinalityType
<1>8. Cardinality(Wants(reqs \cup {p})) =< Cardinality(Wants(reqs) \cup more)
  BY <1>3, <1>5, FS_Subset
<1>9. reqs \cup {p} \in SUBSET Putter
  OBVIOUS
<1>10. /\ Count(reqs \cup {p}) = Cardinality(Wants(reqs \cup {p}))
       /\ Cardinality(Wants(reqs \cup {p})) \in Nat /\ Count(reqs) = Cardinality(Wants(reqs))
  BY <1>9, CountFacts
<1>11. Cardinality(more) = Cardinality(Block)
  BY <1>1, <1>2
<1>. HIDE DEF more
<1>. QED BY <1>1, <1>5, <1>7, <1>8, <1>10, <1>11

(***************************************************************************)
(* What a caller asks for does not change while its request is taken.      *)
(***************************************************************************)
LEMMA CountStays ==
  ASSUME NEW reqs, reqs = taken, reqs = taken', \A p \in reqs : want'[p] = want[p]
  PROVE  Count(taken)' = Count(taken)
<1>1. Wants(reqs)' = Wants(reqs)
  BY DEF Wants
<1>. QED BY <1>1 DEF Wants, Count

(***************************************************************************)
(* The largest merge of requests is a number of blocks.                    *)
(***************************************************************************)
LEMMA MergedIsNat == Merged \in Nat /\ Cardinality(Block) \in Nat
  BY BlockstoreAssumption, FS_CardinalityType DEF Merged

(***************************************************************************)
(* Each flush that fails lets one merge of requests more be unflushed.     *)
(***************************************************************************)
LEMMA AllowedFacts ==
  ASSUME NEW n \in Nat
  PROVE  /\ Allowed(n) \in Nat /\ Allowed(n) >= MaxUnflushed
         /\ Allowed(n + 1) = Allowed(n) + Merged
         /\ \A m \in 0 .. n : Allowed(m) =< Allowed(n)
<1>1. Merged \in Nat /\ MaxUnflushed \in Nat
  BY MergedIsNat, BlockstoreAssumption
<1>2. n * Merged \in Nat /\ (n + 1) * Merged = n * Merged + Merged
  BY <1>1
<1>3. \A m \in 0 .. n : m * Merged =< n * Merged /\ m * Merged \in Nat
  BY <1>1
<1>. QED BY <1>1, <1>2, <1>3 DEF Allowed

(***************************************************************************)
(* A step of the loop or of a caller keeps the bounds: Put waits for room  *)
(* in the channel, and a batch that is too large is flushed before the     *)
(* next put is taken.                                                      *)
(***************************************************************************)
LEMMA LimitStep ==
  ASSUME IInv, BoundInv, Next PROVE LimitInv'
<1>. USE BlockstoreAssumption
         DEF IInv, TypeInv, BoundInv, LimitInv, LoopPC, chanVars, loopVars, putterVars, flushVars,
             diskVars
<1>1. CASE LoopStep
  <2>1. CASE Merge
    BY <2>1 DEF Merge, Receive
  <2>2. CASE BatchPut
    <3>1. Blocks(taken) \subseteq Block
      BY DEF Blocks
    <3>. QED BY <2>2, <3>1 DEF BatchPut
  <2>3. CASE Respond
    BY <2>3 DEF Respond, RespondEnd
  <2>4. CASE Prepare
    BY <2>4 DEF Prepare, Drain, Load
  <2>5. CASE FlushBatch \/ Closing
    <3>1. batch' \subseteq Block /\ committed' \subseteq Block
      BY <2>5 DEF FlushBatch, Closing, CommitBatch
    <3>2. fails' =< MaxFails
      BY <2>5 DEF FlushBatch, Closing, CommitBatch
    <3>. QED BY <2>5, <3>1, <3>2 DEF FlushBatch, Closing
  <2>6. CASE Store
    BY <2>6 DEF Store
  <2>. QED BY <1>1, <2>1, <2>2, <2>3, <2>4, <2>5, <2>6 DEF LoopStep
<1>2. CASE TakePut
  BY <1>2 DEF TakePut, Receive
<1>3. CASE TakeFlush \/ TakeStop \/ Close
  BY <1>3 DEF TakeFlush, TakeStop, Close
<1>4. ASSUME NEW p \in Putter, PutSend(p) PROVE LimitInv'
  BY <1>4 DEF PutSend
<1>5. ASSUME NEW p \in Putter,
             PutGiveUp(p) \/ \E blks \in SUBSET Block \ {{}} : PutCall(p, blks)
      PROVE  LimitInv'
  BY <1>5 DEF PutGiveUp, PutCall
<1>6. ASSUME NEW f \in Flusher, FlushCall(f) \/ FlushTell(f) \/ FlushDone(f) PROVE LimitInv'
  BY <1>6 DEF FlushCall, FlushTell, FlushDone
<1>7. ASSUME NEW f \in Flusher, FlushGiveUp(f) \/ FlushReturn(f) PROVE LimitInv'
  BY <1>7 DEF FlushGiveUp, FlushReturn, FlushEnds
<1>. QED BY <1>1, <1>2, <1>3, <1>4, <1>5, <1>6, <1>7 DEF Next

(***************************************************************************)
(* The flags of the channels and of the loop stay flags.                   *)
(***************************************************************************)
LEMMA FlagStep ==
  ASSUME BoundInv, Next PROVE FlagInv'
<1>. USE DEF BoundInv, FlagInv, chanVars, loopVars
<1>1. CASE LoopStep
  BY <1>1 DEF LoopStep, Merge, Receive, BatchPut, Respond, RespondEnd, Prepare, Drain, Load,
     FlushBatch, CommitBatch, Store, Closing
<1>2. CASE TakePut \/ TakeFlush \/ TakeStop \/ Close
  BY <1>2 DEF TakePut, Receive, TakeFlush, TakeStop, Close
<1>3. ASSUME NEW p \in Putter,
             \/ PutSend(p) \/ PutGiveUp(p)
             \/ \E blks \in SUBSET Block \ {{}} : PutCall(p, blks)
      PROVE  FlagInv'
  BY <1>3 DEF PutSend, PutGiveUp, PutCall
<1>4. ASSUME NEW f \in Flusher, \/ FlushCall(f) \/ FlushTell(f) \/ FlushDone(f)
                               \/ FlushGiveUp(f) \/ FlushReturn(f)
      PROVE  FlagInv'
  BY <1>4 DEF FlushCall, FlushTell, FlushDone, FlushGiveUp, FlushReturn, FlushEnds
<1>. QED BY <1>1, <1>2, <1>3, <1>4 DEF Next

(***************************************************************************)
(* A step that leaves the loop where it is and what it took as it was      *)
(* keeps the bounds on both.                                               *)
(***************************************************************************)
LEMMA LoopKept ==
  ASSUME BoundInv, UNCHANGED loopVars, UNCHANGED fails, \A p \in taken : want'[p] = want[p]
  PROVE  MergeInv' /\ UnflushedInv'
<1>1. Count(taken)' = Count(taken)
  BY CountStays DEF loopVars
<1>. QED BY <1>1 DEF BoundInv, MergeInv, UnflushedInv, TooLarge, Allowed, Merged, loopVars

(***************************************************************************)
(* A step keeps the bound on what is merged and on what is unflushed: the  *)
(* loop stops taking requests over MaxQueued, and with more than           *)
(* MaxUnflushed blocks it flushes before it takes the next.                *)
(***************************************************************************)
LEMMA MergeStep ==
  ASSUME IInv, BoundInv, Next PROVE MergeInv' /\ UnflushedInv'
<1>. DEFINE Goal == MergeInv' /\ UnflushedInv'
<1>. USE DEF chanVars, putterVars, flushVars, diskVars
<1>0. TypeInv /\ MergeInv /\ UnflushedInv /\ LimitInv /\ taken \in SUBSET Putter
  BY DEF IInv, TypeInv, BoundInv
<1>a. /\ fails \in Nat /\ Merged \in Nat /\ Cardinality(Block) \in Nat /\ MaxQueued \in Nat
      /\ Allowed(fails) \in Nat /\ Allowed(fails + 1) = Allowed(fails) + Merged
      /\ MaxUnflushed \in Nat /\ Allowed(fails) >= MaxUnflushed
      /\ Merged = MaxQueued + 2 * Cardinality(Block)
  BY <1>0, MergedIsNat, AllowedFacts, BlockstoreAssumption DEF TypeInv, Merged
<1>b. Merged' = Merged /\ (fails' = fails => Allowed(fails)' = Allowed(fails))
      /\ (fails' = fails + 1 => Allowed(fails)' = Allowed(fails + 1))
  BY DEF Merged, Allowed
<1>1. ASSUME Receive
      PROVE  /\ Count(taken)' =< Count(taken) + Cardinality(Block)
             /\ Count(taken) \in Nat /\ Count(taken)' \in Nat
             /\ UNCHANGED <<unflushed, fails, ret>>
  <2>1. /\ taken' = taken \cup {Head(puts)} /\ Head(puts) \in Putter /\ UNCHANGED want
        /\ taken' \in SUBSET Putter
    BY <1>0, <1>1 DEF Receive, TypeInv
  <2>2. Count(taken)' = Count(taken \cup {Head(puts)})
    BY <2>1 DEF Count
  <2>3. Count(taken) \in Nat /\ Count(taken \cup {Head(puts)}) \in Nat
    BY <1>0, <2>1, CountFacts
  <2>4. Count(taken \cup {Head(puts)}) =< Count(taken) + Cardinality(Block)
    BY <1>0, <2>1, CountGrows
  <2>. QED BY <1>1, <2>2, <2>3, <2>4 DEF Receive
<1>2. CASE TakePut
  <2>1. Count(taken) = 0
    <3>1. Wants({}) = {}
      BY DEF Wants
    <3>. QED BY <1>0, <1>2, <3>1, CountFacts, FS_EmptySet DEF TakePut, MergeInv
  <2>2. MergeInv'
    BY <1>a, <1>1, <1>2, <2>1 DEF TakePut, MergeInv
  <2>3. UnflushedInv'
    BY <1>0, <1>b, <1>1, <1>2 DEF TakePut, UnflushedInv, TooLarge
  <2>. QED BY <2>2, <2>3
<1>3. CASE Merge
  <2>1. UnflushedInv'
    BY <1>0, <1>b, <1>1, <1>3 DEF Merge, UnflushedInv, TooLarge
  <2>2. CASE Receive /\ lpc' = IF Count(taken') > MaxQueued THEN "put" ELSE "merge"
    <3>1. Count(taken') = Count(taken)'
      BY <2>2 DEF Receive, Count
    <3>2. Count(taken)' =< Merged /\ (lpc' = "merge" => Count(taken)' =< MaxQueued)
      BY <1>0, <1>a, <1>1, <1>3, <2>2, <3>1 DEF MergeInv, Merge
    <3>3. lpc' \in {"put", "merge"} /\ Count(taken)' \in Nat
      BY <1>1, <2>2
    <3>. QED BY <1>a, <1>b, <2>1, <3>2, <3>3 DEF MergeInv
  <2>3. CASE lpc' = "put" /\ UNCHANGED <<taken, want>>
    <3>1. Count(taken)' = Count(taken) /\ Count(taken) \in Nat
      BY <1>0, <2>3, CountFacts DEF Count
    <3>. QED BY <1>0, <1>a, <1>b, <1>3, <2>1, <2>3, <3>1 DEF MergeInv, Merge
  <2>. QED BY <1>3, <2>2, <2>3 DEF Merge
<1>4. CASE BatchPut
  <2>1. Count(taken) \in Nat /\ Count(taken) =< Merged
    BY <1>0, <1>4, CountFacts DEF BatchPut, MergeInv
  <2>2. lpc = "put" /\ lpc' \in {"drain", "respond"} /\ UNCHANGED fails
        /\ (lpc' = "drain" => ret' = "respond")
    BY <1>4 DEF BatchPut
  <2>3. \/ /\ unflushed' = unflushed + Count(taken) /\ ret' = "respond"
           /\ lpc' = IF unflushed' > MaxUnflushed THEN "drain" ELSE "respond"
        \/ unflushed' = unflushed /\ lpc' = "respond"
    BY <1>4 DEF BatchPut
  <2>4. unflushed \in Nat /\ unflushed =< Allowed(fails)
    BY <1>0, <2>2 DEF UnflushedInv, TooLarge
  <2>5. unflushed' \in Nat
    BY <2>1, <2>3, <2>4
  <2>6. CASE lpc' = "drain"
    <3>1. TooLarge' /\ unflushed' =< Allowed(fails) + Merged
      BY <1>a, <2>1, <2>2, <2>3, <2>4, <2>6 DEF TooLarge
    <3>2. MergeInv'
      BY <2>2, <2>6 DEF MergeInv
    <3>. QED BY <1>b, <2>2, <2>5, <3>1, <3>2 DEF UnflushedInv
  <2>7. CASE lpc' = "respond"
    <3>1. ~TooLarge' /\ unflushed' =< Allowed(fails)
      BY <1>a, <2>1, <2>3, <2>4, <2>7 DEF TooLarge
    <3>2. MergeInv'
      BY <2>7 DEF MergeInv
    <3>. QED BY <1>b, <2>2, <2>5, <3>1, <3>2 DEF UnflushedInv
  <2>. QED BY <2>2, <2>6, <2>7
<1>5. CASE Respond
  BY <1>0, <1>b, <1>5 DEF Respond, RespondEnd, MergeInv, UnflushedInv, TooLarge
<1>6. CASE Prepare
  BY <1>0, <1>b, <1>6 DEF Prepare, Drain, Load, MergeInv, UnflushedInv, TooLarge
<1>7. CASE FlushBatch \/ Closing
  <2>1. lpc' \in {"store", "stopped"} /\ ~TooLarge' /\ ret' = ret /\ taken' = taken
    BY <1>7 DEF FlushBatch, Closing, TooLarge
  <2>2. MergeInv'
    BY <1>0, <1>7, <2>1 DEF MergeInv, FlushBatch, Closing
  <2>3. CASE unflushed' = 0 /\ UNCHANGED fails
    BY <1>a, <1>b, <2>1, <2>2, <2>3 DEF UnflushedInv
  <2>4. CASE unflushed' = unflushed /\ fails' = fails + 1
    <3>1. unflushed =< Allowed(fails) + Merged /\ unflushed \in Nat
      BY <1>0, <1>a DEF UnflushedInv
    <3>. QED BY <1>a, <1>b, <2>1, <2>2, <2>4, <3>1 DEF UnflushedInv
  <2>. QED BY <1>7, <2>3, <2>4 DEF FlushBatch, Closing, CommitBatch
<1>8. CASE Store
  BY <1>0, <1>b, <1>8 DEF Store, MergeInv, UnflushedInv, TooLarge, TypeInv
<1>9. CASE TakeFlush \/ TakeStop
  <2>1. ret = "select" /\ taken = {} /\ lpc' \in {"drain", "closing"}
        /\ UNCHANGED <<taken, ret, unflushed, fails>>
    BY <1>0, <1>9 DEF TakeFlush, TakeStop, IInv, StoredInv, MergeInv
  <2>2. ~TooLarge /\ ~TooLarge'
    BY <1>9, <2>1 DEF TooLarge
  <2>. QED BY <1>0, <1>b, <2>1, <2>2 DEF MergeInv, UnflushedInv
<1>10. CASE Close
  BY <1>10, LoopKept DEF Close
<1>11. ASSUME NEW p \in Putter, NEW blks \in SUBSET Block \ {{}}, PutCall(p, blks) PROVE Goal
  <2>1. p \notin taken
    BY <1>11 DEF PutCall, IInv, RequestInv
  <2>. QED BY <1>0, <1>11, <2>1, LoopKept DEF PutCall, BoundInv, TypeInv
<1>12. ASSUME NEW p \in Putter, PutSend(p) \/ PutGiveUp(p) PROVE Goal
  BY <1>12, LoopKept DEF PutSend, PutGiveUp
<1>13. ASSUME NEW f \in Flusher, FlushCall(f) \/ FlushTell(f) \/ FlushDone(f) PROVE Goal
  BY <1>13, LoopKept DEF FlushCall, FlushTell, FlushDone
<1>14. ASSUME NEW f \in Flusher, FlushGiveUp(f) \/ FlushReturn(f) PROVE Goal
  BY <1>14, LoopKept DEF FlushGiveUp, FlushReturn, FlushEnds
<1>15. LoopStep => Goal
  BY <1>3, <1>4, <1>5, <1>6, <1>7, <1>8 DEF LoopStep
<1>. QED BY <1>2, <1>9, <1>10, <1>11, <1>12, <1>13, <1>14, <1>15 DEF Next, Goal

(***************************************************************************)
(* The types and bounds: the channel holds no more than its capacity, no   *)
(* position is past the requests, and the count of unflushed blocks stays  *)
(* within MaxUnflushed and one merge of puts for each flush that may fail, *)
(* and one more.                                                           *)
(***************************************************************************)
THEOREM TypeCorrect == Spec => []TypeOK
<1>1. Init => BoundInv
  <2>. SUFFICES ASSUME Init PROVE BoundInv
    OBVIOUS
  <2>1. LimitInv
    BY BlockstoreAssumption DEF Init, LimitInv, LoopPC
  <2>2. FlagInv /\ MergeInv
    BY DEF Init, FlagInv, MergeInv
  <2>3. UnflushedInv
    <3>1. unflushed = 0 /\ fails = 0 /\ ~TooLarge
      BY DEF Init, TooLarge
    <3>2. Allowed(0) \in Nat
      BY AllowedFacts
    <3>. QED BY <3>1, <3>2 DEF UnflushedInv
  <2>. QED BY <2>1, <2>2, <2>3 DEF BoundInv
<1>2. IInv /\ BoundInv /\ [Next]_vars => BoundInv'
  <2>. SUFFICES ASSUME IInv, BoundInv, [Next]_vars PROVE BoundInv'
    OBVIOUS
  <2>1. CASE Next
    BY <2>1, LimitStep, FlagStep, MergeStep DEF BoundInv
  <2>2. CASE UNCHANGED vars
    BY <2>2, LoopKept
       DEF BoundInv, LimitInv, FlagInv, vars, chanVars, loopVars, putterVars, flushVars, diskVars
  <2>. QED BY <2>1, <2>2
<1>3. IInv /\ BoundInv => TypeOK
  <2>. SUFFICES ASSUME IInv, BoundInv PROVE TypeOK
    OBVIOUS
  <2>1. unflushed \in 0 .. MaxUnflushed + (MaxFails + 1) * Merged
    <3>1. fails \in 0 .. MaxFails /\ fails \in Nat /\ MaxFails \in Nat /\ unflushed \in Nat
      BY BlockstoreAssumption DEF IInv, TypeInv, BoundInv, LimitInv, UnflushedInv
    <3>2. /\ Allowed(fails) \in Nat /\ Allowed(fails) =< Allowed(MaxFails) /\ Merged \in Nat
          /\ Allowed(MaxFails) \in Nat /\ Allowed(MaxFails + 1) = Allowed(MaxFails) + Merged
      BY <3>1, AllowedFacts, MergedIsNat
    <3>3. unflushed =< Allowed(fails) + Merged
      BY <3>1, <3>2 DEF BoundInv, UnflushedInv
    <3>4. unflushed \in 0 .. Allowed(MaxFails + 1)
      BY <3>1, <3>2, <3>3
    <3>. QED BY <3>4 DEF Allowed
  <2>2. /\ puts \in Seq(Putter) /\ Len(puts) =< QueueCap
        /\ flushReq \in 0 .. MaxFlushes /\ flushPos \in 0 .. flushReq /\ newPos \in 0 .. flushReq
        /\ fails \in 0 .. MaxFails
        /\ now \in [Flusher -> 0 .. flushReq] /\ failsAt \in [Flusher -> 0 .. fails]
    BY BlockstoreAssumption DEF IInv, TypeInv, PositionInv, BoundInv, LimitInv
  <2>. QED BY <2>1, <2>2 DEF TypeOK, IInv, TypeInv, BoundInv, LimitInv, FlagInv, LoopPC, Merged
<1>. QED BY <1>1, <1>2, <1>3, Invariance, PTL DEF Spec
===============================================================================
