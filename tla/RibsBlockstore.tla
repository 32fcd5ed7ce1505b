---------------------------- MODULE RibsBlockstore ----------------------------
(***************************************************************************)
(* The blockstore of the IPFS node (integrations/blockstore/ribsbs.go): one *)
(* goroutine, the loop, takes puts from a channel, writes them in a batch   *)
(* and flushes the batch when asked to or when it grew too large.  Callers  *)
(* of Flush take a number, leave at most one token in the flush channel and *)
(* poll the number of the last flush.  A batch (module Manager) is the set  *)
(* of the blocks it wrote that are not committed yet.                       *)
(***************************************************************************)
EXTENDS Integers, Sequences, FiniteSets

CONSTANTS
  Block,
  Putter,        \* callers of Put and PutMany
  Flusher,       \* callers of Flush
  QueueCap,      \* capacity of the channel puts
  MaxQueued,     \* BlockstoreMaxQueuedBlocks
  MaxUnflushed,  \* BlockstoreMaxUnflushedBlocks
  MaxFlushes,    \* bound on the calls of Flush
  MaxFails       \* bound on the flushes of a batch that fail

ASSUME BlockstoreAssumption ==
  /\ IsFiniteSet(Block) /\ IsFiniteSet(Putter)
  /\ QueueCap \in Nat \ {0} /\ MaxQueued \in Nat /\ MaxUnflushed \in Nat
  /\ MaxFlushes \in Nat /\ MaxFails \in Nat

VARIABLES
  puts,      \* the channel puts
  token,     \* the channel flush holds a token
  flushReq, flushPos,
  closed,    \* stop is closed
  \* the loop
  lpc, ret, taken, bt, batch, unflushed, newPos, failed,
  \* callers of Put: where each is and its blocks
  ppc, want,
  \* callers of Flush: where each is and its number
  fpc, now,
  committed, \* blocks a flush of a batch committed
  fails,     \* flushes of a batch that failed
  \* observers
  acked,     \* blocks of puts that returned without error
  before,    \* per caller of Flush: acked when it called
  failsAt    \* per caller of Flush: fails when it called

chanVars   == <<puts, token, flushReq, flushPos, closed>>
loopVars   == <<lpc, ret, taken, bt, batch, unflushed, newPos, failed>>
putterVars == <<ppc, want, acked>>
flushVars  == <<fpc, now, before, failsAt>>
diskVars   == <<committed, fails>>
vars == <<chanVars, loopVars, putterVars, flushVars, diskVars>>

\* The blocks of a set of requests, and how many there are with repetitions.
Blocks(reqs) == UNION {want[p] : p \in reqs}
Count(reqs)  == Cardinality({r \in reqs \X Block : r[2] \in want[r[1]]})

TypeOK ==
  /\ puts \in Seq(Putter) /\ Len(puts) =< QueueCap
  /\ token \in BOOLEAN /\ closed \in BOOLEAN
  /\ flushReq \in 0 .. MaxFlushes /\ flushPos \in 0 .. flushReq
  /\ lpc \in {"select", "merge", "put", "drain", "load", "flush", "store", "respond",
              "closing", "stopped"}
  /\ ret \in {"select", "respond"}
  /\ taken \subseteq Putter
  /\ bt \in BOOLEAN /\ batch \subseteq Block
  /\ unflushed \in 0 .. MaxUnflushed + (MaxFails + 1) * (MaxQueued + 2 * Cardinality(Block))
  /\ newPos \in 0 .. flushReq
  /\ failed \in BOOLEAN
  /\ ppc \in [Putter -> {"idle", "send", "wait", "gone"}]
  /\ want \in [Putter -> SUBSET Block]
  /\ fpc \in [Flusher -> {"idle", "tell", "poll", "done"}]
  /\ now \in [Flusher -> 0 .. flushReq]
  /\ committed \subseteq Block /\ acked \subseteq Block
  /\ before \in [Flusher -> SUBSET Block] /\ failsAt \in [Flusher -> 0 .. fails]
  /\ fails \in 0 .. MaxFails

Init ==
  /\ puts = << >> /\ token = FALSE /\ flushReq = 0 /\ flushPos = 0 /\ closed = FALSE
  /\ lpc = "select" /\ ret = "select" /\ taken = {}
  /\ bt = FALSE /\ batch = {} /\ unflushed = 0 /\ newPos = 0 /\ failed = FALSE
  /\ ppc = [p \in Putter |-> "idle"] /\ want = [p \in Putter |-> {}]
  /\ fpc = [f \in Flusher |-> "idle"] /\ now = [f \in Flusher |-> 0]
  /\ committed = {} /\ acked = {} /\ before = [f \in Flusher |-> {}]
  /\ fails = 0 /\ failsAt = [f \in Flusher |-> 0]

-------------------------------------------------------------------------------
(***************************************************************************)
(* Put and PutMany: send the request, wait for its answer.  A caller whose *)
(* context ends leaves; its request stays where it is.                     *)
(***************************************************************************)
PutCall(p, blks) ==
  /\ ppc[p] = "idle"
  /\ ppc' = [ppc EXCEPT ![p] = "send"]
  /\ want' = [want EXCEPT ![p] = blks]
  /\ UNCHANGED <<chanVars, loopVars, acked, flushVars, diskVars>>

PutSend(p) ==
  /\ ppc[p] = "send" /\ Len(puts) < QueueCap
  /\ puts' = Append(puts, p)
  /\ ppc' = [ppc EXCEPT ![p] = "wait"]
  /\ UNCHANGED <<token, flushReq, flushPos, closed, loopVars, want, acked, flushVars,
                 diskVars>>

PutGiveUp(p) ==
  /\ ppc[p] \in {"send", "wait"}
  /\ ppc' = [ppc EXCEPT ![p] = "gone"]
  /\ UNCHANGED <<chanVars, loopVars, want, acked, flushVars, diskVars>>

(***************************************************************************)
(* Flush: take a number, leave a token unless there is one, and poll.      *)
(***************************************************************************)
FlushCall(f) ==
  /\ fpc[f] = "idle" /\ flushReq < MaxFlushes
  /\ flushReq' = flushReq + 1
  /\ now' = [now EXCEPT ![f] = flushReq + 1]
  /\ before' = [before EXCEPT ![f] = acked]
  /\ failsAt' = [failsAt EXCEPT ![f] = fails]
  /\ fpc' = [fpc EXCEPT ![f] = "tell"]
  /\ UNCHANGED <<puts, token, flushPos, closed, loopVars, putterVars, diskVars>>

FlushTell(f) ==
  /\ fpc[f] = "tell"
  /\ token' = TRUE
  /\ fpc' = [fpc EXCEPT ![f] = "poll"]
  /\ UNCHANGED <<puts, flushReq, flushPos, closed, loopVars, putterVars, now, before,
                 failsAt, diskVars>>

FlushDone(f) ==
  /\ fpc[f] = "poll" /\ flushPos >= now[f]
  /\ fpc' = [fpc EXCEPT ![f] = "done"]
  /\ UNCHANGED <<chanVars, loopVars, putterVars, now, before, failsAt, diskVars>>

FlushEnds(f) ==
  /\ fpc' = [fpc EXCEPT ![f] = "idle"]
  /\ now' = [now EXCEPT ![f] = 0]
  /\ before' = [before EXCEPT ![f] = {}]
  /\ failsAt' = [failsAt EXCEPT ![f] = 0]
  /\ UNCHANGED <<chanVars, loopVars, putterVars, diskVars>>

\* "flush interrupted", or the caller's context ended.
FlushGiveUp(f) ==
  /\ fpc[f] = "poll" /\ flushPos < now[f]
  /\ FlushEnds(f)

FlushReturn(f) ==
  /\ fpc[f] = "done"
  /\ FlushEnds(f)

Close ==
  /\ ~closed
  /\ closed' = TRUE
  /\ UNCHANGED <<puts, token, flushReq, flushPos, loopVars, putterVars, flushVars,
                 diskVars>>

-------------------------------------------------------------------------------
(***************************************************************************)
(* The loop.  It takes one of the channels that are ready; after a put it  *)
(* takes more of them, as long as there are any and they are not too many. *)
(***************************************************************************)
Receive ==
  /\ puts # << >>
  /\ puts' = Tail(puts)
  /\ taken' = taken \cup {Head(puts)}
  /\ UNCHANGED <<token, flushReq, flushPos, closed, ret, bt, batch, unflushed, newPos,
                 failed, putterVars, flushVars, diskVars>>

TakePut == lpc = "select" /\ Receive /\ lpc' = "merge"

Merge ==
  /\ lpc = "merge"
  /\ \/ Receive /\ lpc' = IF Count(taken') > MaxQueued THEN "put" ELSE "merge"
     \/ /\ puts = << >>
        /\ lpc' = "put"
        /\ UNCHANGED <<chanVars, ret, taken, bt, batch, unflushed, newPos, failed,
                       putterVars, flushVars, diskVars>>

\* Batch.Put: on an error it may have written some of the blocks.
BatchPut ==
  /\ lpc = "put"
  /\ bt' = TRUE
  /\ \/ /\ batch' = batch \cup Blocks(taken)
        /\ unflushed' = unflushed + Count(taken)
        /\ failed' = FALSE
        /\ ret' = "respond"
        /\ lpc' = IF unflushed' > MaxUnflushed THEN "drain" ELSE "respond"
     \/ /\ \E some \in SUBSET Blocks(taken) : batch' = batch \cup some
        /\ failed' = TRUE
        /\ lpc' = "respond"
        /\ UNCHANGED <<unflushed, ret>>
  /\ UNCHANGED <<chanVars, taken, newPos, putterVars, flushVars, diskVars>>

RespondEnd ==
  /\ want' = [p \in Putter |-> IF p \in taken THEN {} ELSE want[p]]
  /\ taken' = {} /\ failed' = FALSE
  /\ ret' = "select" /\ lpc' = "select"
  /\ UNCHANGED <<chanVars, bt, batch, unflushed, newPos, flushVars, diskVars>>

\* Mutant: nobody is answered when there was an error.
RespondOK ==
  /\ lpc = "respond"
  /\ LET waiting == {p \in taken : ppc[p] = "wait" /\ ~failed}
     IN  /\ ppc' = [p \in Putter |-> IF p \in waiting THEN "idle" ELSE ppc[p]]
         /\ acked' = acked \cup Blocks(waiting)
  /\ RespondEnd

\* respondAll
Respond ==
  /\ lpc = "respond"
  /\ LET waiting == {p \in taken : ppc[p] = "wait"}
     IN  /\ ppc' = [p \in Putter |-> IF p \in waiting THEN "idle" ELSE ppc[p]]
         /\ acked' = IF failed THEN acked ELSE acked \cup Blocks(waiting)
  /\ RespondEnd

TakeFlush ==
  /\ lpc = "select" /\ token
  /\ token' = FALSE
  /\ lpc' = "drain"
  /\ UNCHANGED <<puts, flushReq, flushPos, closed, ret, taken, bt, batch, unflushed, newPos,
                 failed, putterVars, flushVars, diskVars>>

(***************************************************************************)
(* flushBatch: drop the token, note which requests this flush answers,     *)
(* flush, and store the position, whether the flush failed or not.         *)
(***************************************************************************)
Drain ==
  /\ lpc = "drain"
  /\ token' = FALSE
  /\ lpc' = "load"
  /\ UNCHANGED <<puts, flushReq, flushPos, closed, ret, taken, bt, batch, unflushed,
                 newPos, failed, putterVars, flushVars, diskVars>>

\* Mutant: the position is stored before the batch is flushed.
LoadStore ==
  /\ lpc = "load"
  /\ newPos' = flushReq /\ flushPos' = flushReq
  /\ lpc' = "flush"
  /\ UNCHANGED <<puts, token, flushReq, closed, ret, taken, bt, batch, unflushed, failed,
                 putterVars, flushVars, diskVars>>

Load ==
  /\ lpc = "load"
  /\ newPos' = flushReq
  /\ lpc' = "flush"
  /\ UNCHANGED <<chanVars, ret, taken, bt, batch, unflushed, failed, putterVars, flushVars,
                 diskVars>>

\* Mutant: the position is noted first and the token dropped afterwards.
LoadFirst ==
  /\ lpc = "drain"
  /\ newPos' = flushReq
  /\ lpc' = "load"
  /\ UNCHANGED <<chanVars, ret, taken, bt, batch, unflushed, failed, putterVars, flushVars,
                 diskVars>>

DrainLast ==
  /\ lpc = "load"
  /\ token' = FALSE
  /\ lpc' = "flush"
  /\ UNCHANGED <<puts, flushReq, flushPos, closed, ret, taken, bt, batch, unflushed,
                 newPos, failed, putterVars, flushVars, diskVars>>

PrepareSwapped == LoadFirst \/ DrainLast

Prepare == Drain \/ Load

\* Mutant: the count goes on after a flush.
CommitBatchKeepCount ==
  /\ committed' = committed \cup batch
  /\ bt' = FALSE /\ batch' = {} /\ failed' = FALSE
  /\ UNCHANGED <<unflushed, fails>>

\* Batch.Flush: on an error it may have committed some of the blocks.
CommitBatch ==
  \/ /\ committed' = committed \cup batch
     /\ bt' = FALSE /\ batch' = {} /\ unflushed' = 0
     /\ failed' = FALSE
     /\ UNCHANGED fails
  \/ /\ bt /\ fails < MaxFails
     /\ \E some \in SUBSET batch : committed' = committed \cup some
     /\ failed' = TRUE
     /\ fails' = fails + 1
     /\ UNCHANGED <<bt, batch, unflushed>>

FlushBatch ==
  /\ lpc = "flush"
  /\ CommitBatch
  /\ lpc' = "store"
  /\ UNCHANGED <<chanVars, ret, taken, newPos, putterVars, flushVars>>

Store ==
  /\ lpc = "store"
  /\ flushPos' = newPos
  /\ newPos' = 0
  /\ lpc' = IF ret = "select" /\ failed THEN "closing" ELSE ret
  /\ UNCHANGED <<puts, token, flushReq, closed, ret, taken, bt, batch, unflushed, failed,
                 putterVars, flushVars, diskVars>>

TakeStop ==
  /\ lpc = "select" /\ closed
  /\ lpc' = "closing"
  /\ UNCHANGED <<chanVars, ret, taken, bt, batch, unflushed, newPos, failed, putterVars,
                 flushVars, diskVars>>

\* Mutant: the loop ends and leaves its batch.
ClosingNoFlush ==
  /\ lpc = "closing"
  /\ lpc' = "stopped"
  /\ UNCHANGED <<chanVars, ret, taken, bt, batch, unflushed, newPos, failed, putterVars,
                 flushVars, diskVars>>

\* The deferred part of the loop.
Closing ==
  /\ lpc = "closing"
  /\ CommitBatch
  /\ lpc' = "stopped"
  /\ UNCHANGED <<chanVars, ret, taken, newPos, putterVars, flushVars>>

-------------------------------------------------------------------------------
LoopStep == Merge \/ BatchPut \/ Respond \/ Prepare \/ FlushBatch \/ Store \/ Closing

Next ==
  \/ LoopStep \/ TakePut \/ TakeFlush \/ TakeStop \/ Close
  \/ \E p \in Putter : \/ \E blks \in SUBSET Block \ {{}} : PutCall(p, blks)
                       \/ PutSend(p) \/ PutGiveUp(p)
  \/ \E f \in Flusher : \/ FlushCall(f) \/ FlushTell(f) \/ FlushDone(f)
                        \/ FlushGiveUp(f) \/ FlushReturn(f)

Spec == Init /\ [][Next]_vars

-------------------------------------------------------------------------------
(***************************************************************************)
(* When Flush returns without error, and no flush of a batch failed since  *)
(* the call, every block whose Put had returned before the call is         *)
(* committed: although one flush of the loop answers several calls, a call *)
(* may come while a flush is at work, and an earlier flush may have failed *)
(* and left its blocks to the next.                                        *)
(***************************************************************************)
FlushDurable ==
  \A f \in Flusher : fpc[f] = "done" /\ fails = failsAt[f] => before[f] \subseteq committed

(***************************************************************************)
(* What the callers of Flush rely on: the same whatever fails.             *)
(* (kuboribs.go, which flushes at the end of an add: "still guarantees     *)
(* that the data is durable after the adder returns")                      *)
(***************************************************************************)
FlushGuarantee == \A f \in Flusher : fpc[f] = "done" => before[f] \subseteq committed

(***************************************************************************)
(* When the loop has ended, and with it Close, no block whose Put returned *)
(* without error is left in an uncommitted batch.                          *)
(***************************************************************************)
CloseCommits == lpc = "stopped" /\ ~failed => acked \subseteq committed

\* What will answer the call of Flush f.
FlushComing(f) ==
  \/ token \/ \E g \in Flusher : fpc[g] = "tell"
  \/ lpc \in {"drain", "load"}
  \/ lpc \in {"flush", "store"} /\ now[f] =< newPos
  \/ now[f] =< flushPos

(***************************************************************************)
(* No Flush that waits is forgotten: there is a token, or another caller   *)
(* about to leave one, or the loop is before the point where it notes the  *)
(* number, or it noted a number that answers the call.  Merging tokens in  *)
(* a channel of one never loses the last call.                             *)
(***************************************************************************)
NoFlushForgotten ==
  lpc \notin {"closing", "stopped"} => \A f \in Flusher : fpc[f] = "poll" => FlushComing(f)

\* The requests in the channel.
Queued == {puts[i] : i \in DOMAIN puts}

(***************************************************************************)
(* No waiting Put is lost on the way to its answer: its request is in the  *)
(* channel or with the loop, once, so that nothing answers it twice.  When *)
(* the loop has ended (after a failed flush, or Close) what is left in the *)
(* channel is not answered any more.                                       *)
(***************************************************************************)
NoPutForgotten ==
  /\ \A p \in Putter : ppc[p] = "wait" => p \in Queued \cup taken
  /\ Queued \cap taken = {}
  /\ \A i, j \in DOMAIN puts : puts[i] = puts[j] => i = j

-------------------------------------------------------------------------------
(***************************************************************************)
(* The inductive invariant: the types the argument needs, and its parts.   *)
(***************************************************************************)
TypeInv ==
  /\ puts \in Seq(Putter) /\ taken \subseteq Putter
  /\ flushReq \in Nat /\ flushPos \in Nat /\ newPos \in Nat /\ fails \in Nat
  /\ ppc \in [Putter -> {"idle", "send", "wait", "gone"}]
  /\ want \in [Putter -> SUBSET Block]
  /\ fpc \in [Flusher -> {"idle", "tell", "poll", "done"}]
  /\ now \in [Flusher -> Nat] /\ before \in [Flusher -> SUBSET Block]
  /\ failsAt \in [Flusher -> Nat] /\ acked \subseteq Block
  /\ ret \in {"select", "respond"}

\* A position never passes the requests, and is noted after the last one.
PositionInv ==
  /\ flushPos =< flushReq /\ newPos =< flushReq
  /\ lpc \in {"flush", "store"} => flushPos =< newPos
  /\ \A f \in Flusher : now[f] =< flushReq /\ failsAt[f] =< fails

\* A request that was sent keeps its caller's blocks until it is answered.
RequestInv == \A p \in Queued \cup taken : ppc[p] \in {"wait", "gone"}

\* A block that is to be acknowledged, or was, is committed or in the batch.
StoredInv ==
  LET stored == committed \cup batch
  IN  /\ acked \subseteq stored
      /\ lpc \in {"drain", "load", "flush", "store"} /\ ret = "respond" => Blocks(taken) \subseteq stored
      /\ lpc \in {"select", "merge", "put"} => ret = "select"
      /\ lpc = "respond" /\ ~failed => Blocks(taken) \subseteq stored
      /\ \A f \in Flusher : before[f] \subseteq stored
      /\ lpc = "stopped" /\ ~failed => batch = {}

\* A call that a position answers has its blocks committed.
AnsweredInv ==
  \A f \in Flusher : fails = failsAt[f] =>
    /\ fpc[f] \in {"tell", "poll"} /\ now[f] =< flushPos => before[f] \subseteq committed
    /\ fpc[f] \in {"tell", "poll"} /\ lpc = "store" /\ now[f] =< newPos => before[f] \subseteq committed
    /\ fpc[f] = "done" => before[f] \subseteq committed

(***************************************************************************)
(* The parts together.  A flush that answers a call noted its position     *)
(* after the call took its number, and the loop alone moves blocks, so     *)
(* what was acknowledged before the call was in the batch it flushed.      *)
(***************************************************************************)
IInv ==
  /\ TypeInv /\ PositionInv /\ RequestInv /\ StoredInv /\ AnsweredInv
  /\ NoFlushForgotten /\ NoPutForgotten
===============================================================================
