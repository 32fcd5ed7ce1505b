-------------------------------- MODULE Group ---------------------------------
(***************************************************************************)
(* One group from its first write to its car being ready for deals         *)
(* (rbstor/group.go, rbstor/group_finalize.go): the in-memory counters and *)
(* state, the row of the groups table, the entries the group has in the    *)
(* top-level index, and the block log underneath (CarLog).  Put, Sync and  *)
(* Finalize hold dataLk from start to end, so at most one of them is at    *)
(* work and pc is where it is; the process can die between any two steps.  *)
(*                                                                         *)
(* A block is one unit of size, so the group's byte counters and its block *)
(* counters have the same value and are kept once.                         *)
(***************************************************************************)
EXTENDS CarLog

CONSTANTS
  MaxGroupSize,    \* maxGroupSize, in blocks
  MaxGroupBlocks,  \* maxGroupBlocks
  MaxBatch,        \* bound on the blocks of one Put
  MaxStops,        \* bound on crashes, power losses and shutdowns
  PowerLoss        \* TRUE: the machine may lose power, not only the process

ASSUME GroupAssumption ==
  /\ MaxGroupSize \in Nat \ {0}
  /\ MaxGroupBlocks \in Nat \ {0}
  /\ MaxBatch \in Nat \ {0}
  /\ MaxStops \in Nat
  /\ PowerLoss \in BOOLEAN

VARIABLES
  db,        \* the row in the groups table
  topIdx,    \* the blocks the top-level index lists for this group
  state,     \* Group.state
  committed, \* Group.committedBlocks (and committedSize)
  inflight,  \* Group.inflightBlocks (and inflightSize)
  pc,        \* where the operation that holds dataLk, or Open, is
  putFrom,   \* Put: the log's length when it began
  putBlks,   \* Put: the blocks it writes
  addDone,   \* Put: the goroutine that writes the top-level index is done
  thenRO,    \* Put: the group became full, mark the log read-only at the end
  stops,     \* crashes and shutdowns so far
  \* observers: no action's guard reads them
  written,   \* blocks whose Put returned since the process started
  acked,     \* blocks whose Put returned before a Commit did
  attempted, \* blocks that were ever handed to Put
  unaccounted \* how many blocks were in flight when the process stopped

groupVars == <<db, topIdx, state, committed, inflight, pc, putFrom, putBlks,
               addDone, thenRO, stops, written, acked, attempted, unaccounted>>
vars      == <<logVars, groupVars>>
opVars    == <<putFrom, putBlks, addDone, thenRO>>
observers == <<written, acked, attempted, unaccounted>>

GroupState == {"Writable", "Full", "VRCARDone", "LocalReady"}

OpenPC     == {"o_cut", "o_cuthead", "o_drop", "o_del", "o_trunc"}
PutPC      == {"put_jb", "put_join"}
SyncPC     == {"c_flush", "c_head", "c_db", "c_ro"}
FinalizePC == {"f_start", "f_bsst", "f_mark", "t_begin", "t_write", "t_flush",
               "t_end", "f_canon", "f_upload", "f_external", "f_state"}

Calls == UNION {[1 .. n -> Block] : n \in 0 .. MaxBatch}

TypeOK ==
  /\ LogTypeOK
  /\ db \in [state : GroupState, blocks : Nat, head : 0 .. MaxLen]
  /\ topIdx \in SUBSET Block
  /\ state \in GroupState
  /\ committed \in Nat /\ inflight \in Nat
  /\ pc \in {"down", "idle"} \cup OpenPC \cup PutPC \cup SyncPC \cup FinalizePC
  /\ putFrom \in 0 .. MaxLen
  /\ putBlks \in Calls
  /\ addDone \in BOOLEAN /\ thenRO \in BOOLEAN
  /\ stops \in 0 .. MaxStops
  /\ written \in SUBSET Block /\ acked \in SUBSET Block /\ attempted \in SUBSET Block
  /\ unaccounted \in Nat

Goto(l) == pc' = l
Elems(call) == {call[i] : i \in DOMAIN call}

\* createGroup: a new row and an empty log.
Init ==
  /\ Create
  /\ db = [state |-> "Writable", blocks |-> 0, head |-> 0]
  /\ topIdx = {}
  /\ state = "Writable"
  /\ committed = 0 /\ inflight = 0
  /\ pc = "idle"
  /\ putFrom = 0 /\ putBlks = << >> /\ addDone = FALSE /\ thenRO = FALSE
  /\ stops = 0
  /\ written = {} /\ acked = {} /\ attempted = {} /\ unaccounted = 0

-------------------------------------------------------------------------------
(***************************************************************************)
(* Put.  It takes as many leading blocks as it finds room for; when some   *)
(* are left over the group is full.  The check of the block count leaves   *)
(* out the blocks that are written and not yet committed.                  *)
(***************************************************************************)
\* Mutant: blocks that are written and not committed take no room.
FitsCommitted(i) ==
  /\ i =< MaxGroupSize - committed
  /\ committed + i - 1 < MaxGroupBlocks

Fits(i) ==
  /\ i =< MaxGroupSize - committed - inflight
  /\ committed + i - 1 < MaxGroupBlocks

Taken(b) == SubSeq(b, 1, Cardinality({i \in DOMAIN b : \A k \in 1 .. i : Fits(k)}))

\* `new' lists, in order, the blocks of `call' that the log's index lacks.
Selects(new, call) ==
  \E at \in [DOMAIN new -> DOMAIN call] :
    /\ \A j, k \in DOMAIN new : j < k => at[j] < at[k]
    /\ \A k \in DOMAIN new : new[k] = call[at[k]]
    /\ \A i \in DOMAIN call : Absent(call[i]) <=> \E k \in DOMAIN new : at[k] = i

PutBegin(b) ==
  /\ pc = "idle"
  /\ jb.open
  /\ state = "Writable"
  /\ b # << >>
  /\ \E taken \in Calls :
       /\ taken = Taken(b)
       /\ \E new \in Calls : /\ Selects(new, taken)
                            /\ jb.dataLen + Len(new) < MaxLen
                            /\ LogPutAppend(new)
       /\ state' = IF Len(taken) < Len(b) THEN "Full" ELSE state
       /\ thenRO' = (Len(taken) < Len(b))
       /\ inflight' = inflight + Len(taken)
       /\ putBlks' = taken
       /\ attempted' = attempted \cup Elems(taken)
  /\ putFrom' = jb.dataLen
  /\ addDone' = FALSE
  /\ Goto("put_jb")
  /\ UNCHANGED <<db, topIdx, committed, stops, written, acked, unaccounted>>

\* The two goroutines of Put: the log's index and the top-level index.
PutIndex ==
  /\ pc = "put_jb"
  /\ LogPutIndex(putFrom)
  /\ Goto("put_join")
  /\ UNCHANGED <<db, topIdx, state, committed, inflight, opVars, stops, observers>>

PutAddGroup ==
  /\ pc \in {"put_jb", "put_join"}
  /\ ~addDone
  /\ topIdx' = topIdx \cup Elems(putBlks)
  /\ addDone' = TRUE
  /\ UNCHANGED <<logVars, db, state, committed, inflight, pc, putFrom, putBlks,
                 thenRO, stops, observers>>

\* Mutant: Put returns without waiting for the top-level index.
PutJoinEarly ==
  /\ pc = "put_join"
  /\ written' = written \cup Elems(putBlks)
  /\ Goto(IF thenRO THEN "c_flush" ELSE "idle")
  /\ UNCHANGED <<logVars, db, topIdx, state, committed, inflight, opVars, stops,
                 acked, attempted, unaccounted>>

PutJoin ==
  /\ pc = "put_join"
  /\ addDone
  /\ written' = written \cup Elems(putBlks)
  /\ Goto(IF thenRO THEN "c_flush" ELSE "idle")
  /\ UNCHANGED <<logVars, db, topIdx, state, committed, inflight, opVars, stops,
                 acked, attempted, unaccounted>>

(***************************************************************************)
(* Sync: commit the log, then move the in-flight counters into the         *)
(* committed ones and write them, the state and the log's head into the    *)
(* row.  On a read-only log Commit does nothing and returns offset 0.      *)
(***************************************************************************)
SyncBegin ==
  /\ pc = "idle"
  /\ jb.open
  /\ thenRO' = FALSE
  /\ Goto(IF jb.wIdx THEN "c_flush" ELSE "c_db")
  /\ UNCHANGED <<logVars, db, topIdx, state, committed, inflight, putFrom, putBlks,
                 addDone, stops, observers>>

CommitFlush ==
  /\ pc = "c_flush"
  /\ LogCommitFlush
  /\ Goto("c_head")
  /\ UNCHANGED <<db, topIdx, state, committed, inflight, opVars, stops, observers>>

CommitHead ==
  /\ pc = "c_head"
  /\ LogCommitHead
  /\ acked' = acked \cup written
  /\ Goto("c_db")
  /\ UNCHANGED <<db, topIdx, state, committed, inflight, opVars, stops, written,
                 attempted, unaccounted>>

SetGroupHead ==
  /\ pc = "c_db"
  /\ committed' = committed + inflight
  /\ inflight' = 0
  /\ db' = [state |-> state, blocks |-> committed + inflight,
            head |-> IF jb.wIdx THEN jb.dataLen ELSE 0]
  /\ Goto(IF thenRO THEN "c_ro" ELSE "idle")
  /\ UNCHANGED <<logVars, topIdx, state, opVars, stops, observers>>

PutMarkReadOnly ==
  /\ pc = "c_ro"
  /\ LogMarkReadOnly
  /\ Goto("idle")
  /\ UNCHANGED <<db, topIdx, state, committed, inflight, opVars, stops, observers>>

-------------------------------------------------------------------------------
\* Mutant: a log that is read-only already is refused.
FinalizeBeginWritable ==
  /\ pc = "idle"
  /\ jb.open
  /\ state = "Full"
  /\ ~jb.finalizing /\ ~head.ReadOnly
  /\ head' = [head EXCEPT !.ReadOnly = TRUE]
  /\ jb' = [jb EXCEPT !.wIdx = FALSE, !.finalizing = TRUE]
  /\ Goto("f_start")
  /\ UNCHANGED <<log, flushed, torn, level, levelSynced, bsst, canon, staged>>
  /\ UNCHANGED <<db, topIdx, state, committed, inflight, opVars, stops, observers>>

(***************************************************************************)
(* Finalize, run by a group worker: the log is marked read-only if it is   *)
(* not yet, then CarLog.Finalize.  The flag `finalizing' is never reset,   *)
(* so an attempt that failed is not repeated while the log stays open.     *)
(***************************************************************************)
FinalizeBegin ==
  /\ pc = "idle"
  /\ jb.open
  /\ state = "Full"
  /\ ~jb.finalizing
  /\ head' = [head EXCEPT !.ReadOnly = TRUE]
  /\ jb' = [jb EXCEPT !.wIdx = FALSE, !.finalizing = TRUE]
  /\ Goto("f_start")
  /\ UNCHANGED <<log, flushed, torn, level, levelSynced, bsst, canon, staged>>
  /\ UNCHANGED <<db, topIdx, state, committed, inflight, opVars, stops, observers>>

\* Mutant: a top tree that was begun is taken for done.
FinalizeStartBegun ==
  /\ pc = "f_start"
  /\ Goto(IF head.Finalized THEN "f_state"
          ELSE IF ~Staged THEN "f_bsst"
          ELSE IF jb.dataEnd # 0 THEN "f_canon" ELSE "t_begin")
  /\ UNCHANGED <<logVars, db, topIdx, state, committed, inflight, opVars, stops,
                 observers>>

\* A log that is already marked finalized has nothing left to do here.
FinalizeStart ==
  /\ pc = "f_start"
  /\ Goto(IF head.Finalized THEN "f_state"
          ELSE IF ~Staged THEN "f_bsst"
          ELSE IF head.Layers THEN "f_canon" ELSE "t_begin")
  /\ UNCHANGED <<logVars, db, topIdx, state, committed, inflight, opVars, stops,
                 observers>>

FinalizeStep(from, op, to) ==
  /\ pc = from
  /\ op
  /\ Goto(to)
  /\ UNCHANGED <<db, topIdx, state, committed, inflight, opVars, stops, observers>>

CreateBsst    == FinalizeStep("f_bsst", LogCreateBsst, "f_mark")
MarkFinalized == FinalizeStep("f_mark", LogMarkFinalized,
                              IF head.Layers THEN "f_state" ELSE "t_begin")

TopBegin      == FinalizeStep("t_begin", LogTopBegin, "t_write")
TopWrite      == FinalizeStep("t_write", LogTopWrite, "t_flush")
TopFlush      == FinalizeStep("t_flush", FlushBuffered, "t_end")
TopEnd        == FinalizeStep("t_end", LogTopEnd,
                              IF Staged THEN "f_canon" ELSE "f_state")

CreateCanon   == FinalizeStep("f_canon", LogCreateCanon, "f_upload")
Upload        == FinalizeStep("f_upload", LogUpload, "f_external")
MarkExternal  == FinalizeStep("f_external", LogMarkExternal, "f_state")

\* genTopCar or the upload returned an error: Finalize gives up, the group
\* stays Full.  A part of the car that the storage got does not count.
FinalizeFails ==
  /\ \/ pc = "t_begin" /\ ~CanGenTop
     \/ pc = "t_write" /\ (~IterateOK(jb.dataEnd) \/ jb.dataEnd = 0)
     \/ pc = "f_upload"
  /\ Goto("idle")
  /\ UNCHANGED <<logVars, db, topIdx, state, committed, inflight, opVars, stops,
                 observers>>

\* Mutant: the row is moved on, the group in memory is not.
AdvanceStateRow(to) ==
  /\ db' = [db EXCEPT !.state = to]
  /\ UNCHANGED state

AdvanceState(to) ==
  /\ state' = to
  /\ db' = [db EXCEPT !.state = to]

FinalizeEnd ==
  /\ pc = "f_state"
  /\ AdvanceState("VRCARDone")
  /\ Goto("idle")
  /\ UNCHANGED <<logVars, topIdx, committed, inflight, opVars, stops, observers>>

\* GenCommP reads the car (WriteCar needs the layers) and takes no lock.
GenCommP ==
  /\ jb.open
  /\ state = "VRCARDone"
  /\ jb.layers
  /\ AdvanceState("LocalReady")
  /\ UNCHANGED <<logVars, topIdx, committed, inflight, pc, opVars, stops, observers>>

-------------------------------------------------------------------------------
(***************************************************************************)
(* The process or the machine stops at any point.  An orderly Close is a   *)
(* Sync followed by a stop: CarLog.Close forgets the write index first, so *)
(* the Commit it makes does nothing.                                       *)
(***************************************************************************)
Stop(powerLoss) ==
  /\ pc # "down"
  /\ stops < MaxStops
  /\ stops' = stops + 1
  /\ LogCrash(powerLoss)
  /\ Goto("down")
  /\ putBlks' = << >>
  /\ putFrom' = 0
  /\ addDone' = FALSE
  /\ thenRO' = FALSE
  /\ written' = {}
  /\ state' = "Writable" /\ committed' = 0 /\ inflight' = 0
  /\ unaccounted' = unaccounted + inflight
  /\ UNCHANGED <<db, topIdx, acked, attempted>>

\* OpenGroup: the counters and the state come from the row.
OpenGroup ==
  /\ pc = "down"
  /\ LogOpenRead
  /\ state' = db.state
  /\ committed' = db.blocks
  /\ inflight' = 0
  /\ Goto(IF UnfinishedTop THEN "o_cut"
          ELSE IF OpenedLog.wIdx /\ ToTruncate # {} THEN "o_drop" ELSE "idle")
  /\ UNCHANGED <<db, topIdx, opVars, stops, observers>>

OpenCut ==
  /\ pc = "o_cut"
  /\ LogOpenCut
  /\ Goto("o_cuthead")
  /\ UNCHANGED <<db, topIdx, state, committed, inflight, opVars, stops, observers>>

OpenCutHead ==
  /\ pc = "o_cuthead"
  /\ LogOpenCutHead
  /\ Goto(IF jb.wIdx /\ ToTruncate # {} THEN "o_drop" ELSE "idle")
  /\ UNCHANGED <<db, topIdx, state, committed, inflight, opVars, stops, observers>>

\* The callback of truncate: refuse to go behind the recorded head, then
\* drop the group from the top-level index for the blocks that go.
TruncRefused == head.RetiredAt < db.head

OpenDropGroup ==
  /\ pc = "o_drop"
  /\ ~TruncRefused
  /\ topIdx' = topIdx \ ToTruncate
  /\ Goto("o_del")
  /\ UNCHANGED <<logVars, db, state, committed, inflight, opVars, stops, observers>>

OpenTruncIndex ==
  /\ pc = "o_del"
  /\ LogTruncIndex
  /\ Goto("o_trunc")
  /\ UNCHANGED <<db, topIdx, state, committed, inflight, opVars, stops, observers>>

OpenTruncData ==
  /\ pc = "o_trunc"
  /\ LogTruncData
  /\ Goto("idle")
  /\ UNCHANGED <<db, topIdx, state, committed, inflight, opVars, stops, observers>>

\* A read of a block whose entry is still buffered, concurrent with anything.
ViewFlush(b) ==
  /\ pc \notin OpenPC \cup {"down"}
  /\ LogViewFlush(b)
  /\ UNCHANGED groupVars

-------------------------------------------------------------------------------
Put ==
  \/ \E b \in Calls : PutBegin(b)
  \/ PutIndex \/ PutAddGroup \/ PutJoin

Sync == SyncBegin \/ CommitFlush \/ CommitHead \/ SetGroupHead \/ PutMarkReadOnly

Finalize ==
  \/ FinalizeBegin \/ FinalizeStart \/ CreateBsst \/ MarkFinalized
  \/ TopBegin \/ TopWrite \/ TopFlush \/ TopEnd
  \/ CreateCanon \/ Upload \/ MarkExternal \/ FinalizeFails \/ FinalizeEnd

Open == OpenGroup \/ OpenCut \/ OpenCutHead \/ OpenDropGroup \/ OpenTruncIndex
        \/ OpenTruncData

Next ==
  \/ Put \/ Sync \/ Finalize \/ GenCommP \/ Open
  \/ \E b \in Block : ViewFlush(b)
  \/ \E p \in {FALSE, PowerLoss} : Stop(p)

Spec == Init /\ [][Next]_vars

-------------------------------------------------------------------------------
Serving == pc \notin OpenPC \cup {"down"}

(***************************************************************************)
(* A block whose Put returned before a Commit did is found by every View,  *)
(* through crashes, reopenings, truncation, the swap of the index at       *)
(* finalization and the move of the data to staging storage.  (CarLog:     *)
(* "Not considered written until committed".)                              *)
(***************************************************************************)
CommittedReadable == Serving => \A b \in acked : Readable(b)

(***************************************************************************)
(* View never returns another block's data: whatever a served LevelDB or   *)
(* BSST index lists is at the listed offset, even after a crash left index *)
(* entries for data that was lost with the write buffer.                   *)
(***************************************************************************)
IndexSound ==
  Serving => /\ jb.rIdx = "level" => \A b \in Block : level[b] # NoPos => ReadsBack(level, b)
             /\ jb.rIdx = "bsst"  => \A b \in Block : bsst[b] # NoPos => ReadsBack(bsst, b)

(***************************************************************************)
(* Open succeeds after every crash: the file is never shorter than the     *)
(* head says, a read-only log never has data past its head, and truncate   *)
(* never has to go behind the head recorded in the database.               *)
(***************************************************************************)
OpenSucceeds ==
  /\ pc = "down" => ~OpenFails
  /\ pc = "o_drop" => ~TruncRefused

(***************************************************************************)
(* Every committed block is listed for this group in the top-level index,  *)
(* so a session that looks it up gets here: AddGroup is awaited before the *)
(* commit, and DropGroup at Open names only uncommitted blocks.            *)
(***************************************************************************)
CommittedListed == acked \subseteq topIdx

(***************************************************************************)
(* The blocks accounted to a group never exceed the size a sector has room *)
(* for, whatever mixture of syncs and restarts the group goes through, and *)
(* the log holds none that is not accounted, but for those in flight when  *)
(* the process stopped: Commit may have retired them, or the file kept     *)
(* them past the head, with the row not counting them yet.  No more than   *)
(* these can take a log past its size.  The block limit is no such bound:  *)
(* Put compares it with the committed blocks only.                         *)
(***************************************************************************)
Accounted == db.blocks + inflight + unaccounted

GroupFits ==
  /\ committed + inflight =< MaxGroupSize /\ db.blocks =< MaxGroupSize
  /\ \A p \in Pos : log[p] \in Block => p < Accounted

(***************************************************************************)
(* A group past state VRCARDone has its car: the layers WriteCar needs are *)
(* recorded in the head, and with staging storage the car was uploaded     *)
(* before the head said so.  Without staging storage it is not so: the log *)
(* is marked Finalized before its top tree is written, and a crash in      *)
(* between is taken for done.                                              *)
(***************************************************************************)
VRCARHasLayers ==
  db.state \in {"VRCARDone", "LocalReady"} => head.Layers /\ (Staged => staged)

(***************************************************************************)
(* The blocks a restart would find: those whose index entry points below   *)
(* the retired offset, then those of the index that replaces LevelDB.      *)
(***************************************************************************)
Durable ==
  IF head.External THEN IF staged THEN canon ELSE {}
  ELSE LET idx == IF head.Finalized THEN bsst ELSE level
       IN  {b \in Block : idx[b] # NoPos /\ idx[b] < head.RetiredAt /\ log[idx[b]] = b}

Store == INSTANCE BlockStore WITH offered <- attempted, durable <- Durable

(***************************************************************************)
(* The group implements BlockStore: no step, crash or recovery ever takes  *)
(* back a durable block, and only blocks handed to Put become durable.     *)
(***************************************************************************)
ImplementsBlockStore == Store!StoreSpec

Life == INSTANCE GroupLife WITH life <- db.state

(***************************************************************************)
(* The row's state goes through the group's life and never back: a Sync    *)
(* writes the state it finds, which GenCommP may have just changed without *)
(* dataLk, and a restart takes up the state of the row (dblk in sync and   *)
(* advanceState).                                                          *)
(***************************************************************************)
FollowsGroupLife == Life!LifeSpec

-------------------------------------------------------------------------------
(***************************************************************************)
(* The inductive invariant, in named parts.                                *)
(***************************************************************************)
TopPC    == {"t_write", "t_flush", "t_end"}
TruncPC  == {"o_drop", "o_del", "o_trunc"}
Indexed  == {b \in Block : level[b] # NoPos}
\* No index entry is past the retired part of the log.
Sealed   == \A b \in Block : level[b] < head.RetiredAt
\* The group will take no more blocks.
Filled   == head.ReadOnly \/ db.state # "Writable"

\* The open object says what the head says.
ObjectInv ==
  /\ jb.open <=> pc # "down"
  /\ ~jb.open => jb = Closed /\ ~torn
  /\ jb.open => /\ (jb.wIdx <=> ~head.ReadOnly)
                /\ (jb.eIdx <=> head.External)
                /\ jb.rIdx = IF head.External THEN "nil"
                             ELSE IF head.Finalized THEN "bsst" ELSE "level"
                /\ (jb.layers <=> head.Layers)
                /\ flushed =< jb.dataLen
                /\ torn => flushed < jb.dataLen
  /\ torn => Serving

\* What each flag of the head presupposes.
HeadInv ==
  /\ head.RetiredAt =< flushed
  /\ db.head =< head.RetiredAt
  /\ head.Finalized => head.ReadOnly
  /\ head.External => head.Finalized /\ Staged /\ staged
  /\ Staged /\ head.Finalized => head.External /\ head.Layers
  /\ head.Layers => head.DataEnd > 0
  /\ head.DataEnd > 0 => head.ReadOnly
  /\ UnfinishedTop => head.DataEnd = head.RetiredAt

\* Where the operation at work can be, given the head and the row.
ControlInv ==
  /\ pc = "idle" => state = db.state
  /\ pc \in PutPC \cup {"c_flush", "c_head", "c_ro"} \cup TruncPC => ~head.ReadOnly
  /\ pc \in PutPC => db.state = "Writable"
  /\ pc \in SyncPC => state = db.state \/ (thenRO /\ state = "Full" /\ ~head.ReadOnly
                                           /\ db.state = "Writable")
  /\ pc \in SyncPC /\ thenRO => state = "Full" /\ ~head.ReadOnly
  /\ pc = "c_ro" => state = db.state /\ thenRO
  /\ pc \in PutPC => state = IF thenRO THEN "Full" ELSE "Writable"
  /\ pc \in OpenPC => state = db.state
  /\ pc \in FinalizePC => head.ReadOnly /\ state = "Full" /\ db.state = "Full"
  /\ pc \in FinalizePC => jb.finalizing
  /\ pc \in {"f_bsst", "f_mark"} => ~Staged /\ ~head.Finalized
  /\ pc \in {"t_begin"} \cup TopPC => ~head.Layers /\ (Staged <=> ~head.Finalized)
  /\ pc \in {"f_canon", "f_upload", "f_external"} => Staged /\ ~head.Finalized /\ head.Layers
  /\ pc = "f_external" => staged
  /\ pc = "f_state" => head.Finalized
  /\ Serving /\ UnfinishedTop => jb.finalizing /\ pc \in TopPC \cup {"idle", "c_db"}
  /\ pc = "o_cut" => UnfinishedTop
  /\ pc = "o_cuthead" => UnfinishedTop /\ flushed = head.DataEnd
  /\ state \in {"VRCARDone", "LocalReady"} => db.state = state
  /\ db.state \in {"VRCARDone", "LocalReady"} => head.Finalized

\* How long the file and the log are, at the steps that rely on it.
LengthInv ==
  /\ pc \in {"c_head", "t_end"} => flushed = jb.dataLen /\ ~torn
  /\ pc \in {"c_db", "c_ro"} /\ jb.wIdx =>
       flushed = jb.dataLen /\ ~torn /\ head.RetiredAt = jb.dataLen
  /\ Filled /\ ~UnfinishedTop => flushed = head.RetiredAt /\ ~torn
  /\ Filled /\ jb.wIdx => jb.dataLen = flushed
  /\ jb.open /\ ~head.ReadOnly => jb.dataEnd = 0
  /\ pc \in {"t_flush", "t_end"} => jb.dataEnd > 0
  /\ jb.open /\ head.ReadOnly /\ jb.dataEnd = 0 => jb.dataLen = flushed
  /\ jb.open /\ jb.dataEnd # 0 /\ ~jb.layers => jb.dataEnd = head.RetiredAt
  /\ pc \in TopPC => jb.dataEnd = head.RetiredAt /\ head.DataEnd = head.RetiredAt
  /\ jb.open /\ jb.layers => jb.dataEnd = head.DataEnd
  /\ pc = "o_cut" => jb.dataEnd = head.DataEnd

\* What the offsets in the index point at.
RetiredInv ==
  \A b \in Block : level[b] # NoPos /\ level[b] < head.RetiredAt => log[level[b]] = b

ServedInv ==
  Serving => \A b \in Block : level[b] # NoPos => level[b] < jb.dataLen /\ log[level[b]] = b

\* When nothing is indexed past the retired part, and past the bottom layer.
SealedInv ==
  /\ Filled \/ pc \in {"c_db", "c_ro", "o_trunc"} => Sealed
  /\ head.Layers => \A b \in Block : level[b] < head.DataEnd

\* The indexes made by Finalize have what LevelDB has.
FinalInv ==
  /\ pc = "f_mark" \/ (head.Finalized /\ ~head.External) => bsst = level
  /\ pc \in {"f_upload", "f_external"} \/ head.External => Indexed \subseteq canon

\* A block is retired before it is acknowledged.
AckedInv ==
  /\ \A b \in acked : level[b] # NoPos /\ level[b] < head.RetiredAt
  /\ acked \subseteq topIdx

\* A Put that returned has written both indexes.
WrittenInv ==
  /\ written \subseteq Indexed
  /\ written \subseteq topIdx
  /\ pc = "down" => written = {}
  /\ pc \in OpenPC => written = {}

\* The Put at work.
PutInv ==
  /\ pc = "put_jb" => \A b \in Elems(putBlks) : b \in Indexed \/ Copies(putFrom, b) # {}
  /\ pc = "put_jb" => \A b \in Block : Copies(putFrom, b) # {} => Absent(b)
  /\ pc = "put_join" => Elems(putBlks) \subseteq Indexed
  /\ pc \in PutPC /\ addDone => Elems(putBlks) \subseteq topIdx
  /\ pc = "put_jb" => head.RetiredAt =< putFrom /\ putFrom =< jb.dataLen

\* Nothing is stored that was not handed to Put.
OfferedInv ==
  /\ \A p \in Pos : log[p] \in Block => log[p] \in attempted
  /\ Indexed \subseteq attempted
  /\ canon \subseteq attempted

(***************************************************************************)
(* The parts together: every crash point leaves the file at least as long  *)
(* as the head says, the index correct below the head, and a full group    *)
(* with nothing past it.  CommittedReadable, IndexSound, OpenSucceeds,     *)
(* CommittedListed and the refinement of BlockStore follow.                *)
(***************************************************************************)
IInv ==
  /\ TypeOK /\ ObjectInv /\ HeadInv /\ ControlInv /\ LengthInv
  /\ RetiredInv /\ ServedInv /\ SealedInv /\ FinalInv
  /\ AckedInv /\ WrittenInv /\ PutInv /\ OfferedInv

(***************************************************************************)
(* Fairness: an operation that has begun goes on (its goroutine runs), a   *)
(* worker picks up a full group, and a process that went down is started.  *)
(***************************************************************************)
PutSteps == PutIndex \/ PutAddGroup \/ PutJoin
SyncSteps == CommitFlush \/ CommitHead \/ SetGroupHead \/ PutMarkReadOnly

Fairness ==
  /\ WF_vars(PutSteps) /\ WF_vars(SyncSteps)
  /\ WF_vars(Finalize) /\ SF_vars(FinalizeBegin)
  /\ WF_vars(GenCommP) /\ WF_vars(Open)

FairSpec == Spec /\ Fairness

(***************************************************************************)
(* Why Finalize gives a full group up until the next start.                *)
(***************************************************************************)
GivenUp ==
  /\ db.state = "Full" /\ pc = "idle" /\ jb.finalizing
  /\ \/ ~CanGenTop                    \* Open cut a top tree and kept its lengths
     \/ ~IterateOK(jb.dataEnd)        \* a torn entry is in the layer
     \/ head.Layers /\ ~head.External \* the upload failed

(***************************************************************************)
(* A full group gets its car and its CommP, also when the process stops on *)
(* the way as often as it may: no step of the chain from the last Put to   *)
(* deals waits forever, and every start takes up what the last one left,   *)
(* unless an attempt of Finalize failed for one of the reasons of GivenUp. *)
(***************************************************************************)
FullGetsReady == (db.state = "Full") ~> (db.state = "LocalReady" \/ GivenUp)
===============================================================================
