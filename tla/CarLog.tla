-------------------------------- MODULE CarLog --------------------------------
(***************************************************************************)
(* The block log of one group (carlog/carlog.go): an append-only CAR file, *)
(* an index from multihash to offset, and a small synced head file that    *)
(* says how much of the log is retired.  This module has the state of one  *)
(* log, split into what is on disk and what only the process knows, and    *)
(* one action per operation of the log.  The module Group drives them the  *)
(* way rbstor/group.go does.                                               *)
(*                                                                         *)
(* Abstraction.  Every entry of the log is one unit long, so offsets count *)
(* entries after the CAR header (DataStart is 0).  log[p] is the entry at  *)
(* offset p, whether it is already in the file or still in the             *)
(* bufio.Writer; the first `flushed' entries are in the file, and `torn'   *)
(* says that a part of the next one is there too.  Few blocks make a top   *)
(* tree of exactly one link block (the arity is 2048).                     *)
(***************************************************************************)
EXTENDS Integers, Sequences, FiniteSets

CONSTANTS
  Block,       \* the multihashes that can be written
  None,        \* no entry at this offset
  Torn,        \* a partly written entry left by an unclean shutdown
  Top,         \* the link block of the top tree
  MaxLen,      \* bound on the length of the log, the top tree included
  Staged       \* TRUE: a staging storage (S3) is configured

ASSUME CarLogAssumption ==
  /\ IsFiniteSet(Block)
  /\ None \notin Block /\ Torn \notin Block /\ Top \notin Block
  /\ None # Torn /\ None # Top /\ Torn # Top
  /\ MaxLen \in Nat \ {0}
  /\ Staged \in BOOLEAN

VARIABLES
  \* on disk
  head,        \* the head file
  log,         \* the entries of the data file and of its write buffer
  flushed,     \* how many whole entries are in the data file
  torn,        \* a part of entry number `flushed' is in the data file
  level,       \* the LevelDB index: offset of a block, NoPos when absent
  levelSynced, \* what a power loss leaves of it
  bsst,        \* the BSST index of the layered file, once created
  canon,       \* the blocks of the canonical (depth-first) BSST index
  staged,      \* the canonical CAR is in staging storage
  \* in memory
  jb           \* the open CarLog object

diskVars == <<head, log, flushed, torn, level, levelSynced, bsst, canon, staged>>
logVars  == <<diskVars, jb>>

Pos      == 0 .. MaxLen - 1
NoPos    == -1
NoIndex  == [b \in Block |-> NoPos]

HeadFile == [RetiredAt : 0 .. MaxLen, DataEnd : 0 .. MaxLen, ReadOnly : BOOLEAN,
             Finalized : BOOLEAN, External : BOOLEAN, Layers : BOOLEAN]

(***************************************************************************)
(* The fields of the CarLog object that decide what an operation does.     *)
(* wIdx, eIdx: the index pointer is not nil; rIdx says which index it is.  *)
(***************************************************************************)
CarLogObject == [open : BOOLEAN, wIdx : BOOLEAN, rIdx : {"nil", "level", "bsst"},
                 eIdx : BOOLEAN, finalizing : BOOLEAN, layers : BOOLEAN,
                 dataLen : 0 .. MaxLen, dataEnd : 0 .. MaxLen]

Closed == [open |-> FALSE, wIdx |-> FALSE, rIdx |-> "nil", eIdx |-> FALSE,
           finalizing |-> FALSE, layers |-> FALSE, dataLen |-> 0, dataEnd |-> 0]

LogTypeOK ==
  /\ head \in HeadFile
  /\ log \in [Pos -> Block \cup {None, Torn, Top}]
  /\ flushed \in 0 .. MaxLen
  /\ torn \in BOOLEAN
  /\ level \in [Block -> Pos \cup {NoPos}]
  /\ levelSynced \in [Block -> Pos \cup {NoPos}]
  /\ bsst \in [Block -> Pos \cup {NoPos}]
  /\ canon \in SUBSET Block
  /\ staged \in BOOLEAN
  /\ jb \in CarLogObject

(***************************************************************************)
(* Create: an empty data file, a head, and a new LevelDB index.            *)
(***************************************************************************)
Create ==
  /\ head = [RetiredAt |-> 0, DataEnd |-> 0, ReadOnly |-> FALSE,
             Finalized |-> FALSE, External |-> FALSE, Layers |-> FALSE]
  /\ log = [p \in Pos |-> None]
  /\ flushed = 0
  /\ torn = FALSE
  /\ level = NoIndex
  /\ levelSynced = NoIndex
  /\ bsst = NoIndex
  /\ canon = {}
  /\ staged = FALSE
  /\ jb = [Closed EXCEPT !.open = TRUE, !.wIdx = TRUE, !.rIdx = "level"]

-------------------------------------------------------------------------------
(***************************************************************************)
(* Put, first half: the blocks that the index does not have are appended   *)
(* to the log through the write buffer.  Has is read once, before the      *)
(* loop, so a block that occurs twice in one call is appended twice.  The  *)
(* buffer spills into the file whenever it is full, up to any byte.        *)
(* Nobody sees the loop half done but a crash, and a crash keeps only what *)
(* was spilled, so the loop is one step.                                   *)
(***************************************************************************)
Absent(b) == level[b] = NoPos

\* What the buffer may have spilled once the log is len entries long.
Spill(len) ==
  \E f \in flushed .. len, t \in BOOLEAN :
    /\ t => f < len
    /\ (torn /\ f = flushed) => t
    /\ flushed' = f
    /\ torn' = t

LogPutAppend(new) ==
  LET newLen == jb.dataLen + Len(new)
  IN  /\ jb.wIdx
      /\ newLen =< MaxLen
      /\ log' = [p \in Pos |-> IF jb.dataLen =< p /\ p < newLen
                               THEN new[p - jb.dataLen + 1] ELSE log[p]]
      /\ jb' = [jb EXCEPT !.dataLen = newLen]
      /\ Spill(newLen)
      /\ UNCHANGED <<head, level, levelSynced, bsst, canon, staged>>

(***************************************************************************)
(* The offsets Put hands to the index, for the call whose blocks start at  *)
(* offset `from'.  Of two copies of a block in one call the later wins.    *)
(***************************************************************************)
Copies(from, b) == {p \in Pos : from =< p /\ p < jb.dataLen /\ log[p] = b}

PutOffsets(from) ==
  {o \in [Block -> Pos \cup {NoPos}] : \A b \in Block :
     \/ Copies(from, b) = {} /\ o[b] = NoPos
     \/ o[b] \in Copies(from, b) /\ \A q \in Copies(from, b) : q =< o[b]}

(***************************************************************************)
(* Put, second half: one LevelDB batch, written without Sync.              *)
(***************************************************************************)
LogPutIndex(from) ==
  \E offsets \in PutOffsets(from) :
    /\ level' = [b \in Block |-> IF offsets[b] = NoPos THEN level[b] ELSE offsets[b]]
    /\ UNCHANGED <<head, log, flushed, torn, levelSynced, bsst, canon, staged, jb>>

(***************************************************************************)
(* flushBuffered: everything in the write buffer goes to the file.  A View *)
(* of an entry that is still in the buffer does it too.                    *)
(***************************************************************************)
FlushBuffered ==
  /\ flushed' = jb.dataLen
  /\ torn' = FALSE
  /\ UNCHANGED <<head, log, level, levelSynced, bsst, canon, staged, jb>>

LogViewFlush(b) ==
  /\ jb.open /\ jb.rIdx = "level" /\ ~jb.eIdx
  /\ level[b] >= flushed
  /\ FlushBuffered

(***************************************************************************)
(* Commit: flush and sync the data file, then retire the log up to its     *)
(* length.  On a read-only log Commit returns at once with offset 0.       *)
(***************************************************************************)
\* Mutant: Commit does not wait for the write buffer.
LogCommitNoFlush == jb.wIdx /\ UNCHANGED logVars

LogCommitFlush == jb.wIdx /\ FlushBuffered

LogCommitHead ==
  /\ head' = [head EXCEPT !.RetiredAt = jb.dataLen]
  /\ UNCHANGED <<log, flushed, torn, level, levelSynced, bsst, canon, staged, jb>>

(***************************************************************************)
(* MarkReadOnly.                                                           *)
(***************************************************************************)
LogMarkReadOnly ==
  /\ jb.wIdx
  /\ head' = [head EXCEPT !.ReadOnly = TRUE]
  /\ jb' = [jb EXCEPT !.wIdx = FALSE]
  /\ UNCHANGED <<log, flushed, torn, level, levelSynced, bsst, canon, staged>>

-------------------------------------------------------------------------------
(***************************************************************************)
(* genTopCar.  It refuses a log whose length is not where the layer ends,  *)
(* marks the end of the bottom layer in the head, walks the layer to       *)
(* collect the links, appends the top tree and records the layers.         *)
(***************************************************************************)
CanGenTop ==
  jb.dataEnd # 0 => ~jb.layers /\ jb.dataLen = jb.dataEnd

LogTopBegin ==
  /\ CanGenTop
  /\ jb' = [jb EXCEPT !.dataEnd = jb.dataLen]
  /\ head' = [head EXCEPT !.DataEnd = jb.dataLen]
  /\ flushed' = jb.dataLen
  /\ torn' = FALSE
  /\ UNCHANGED <<log, level, levelSynced, bsst, canon, staged>>

\* iterate reads the layer entry by entry: a torn entry swallows what follows.
IterateOK(dataEnd) == \A p \in Pos : p < dataEnd => log[p] # Torn

LogTopWrite ==
  /\ IterateOK(jb.dataEnd)
  /\ jb.dataEnd > 0
  /\ jb.dataLen < MaxLen
  /\ log' = [log EXCEPT ![jb.dataLen] = Top]
  /\ jb' = [jb EXCEPT !.dataLen = @ + 1]
  /\ Spill(jb.dataLen + 1)
  /\ UNCHANGED <<head, level, levelSynced, bsst, canon, staged>>

LogTopEnd ==
  /\ head' = [head EXCEPT !.Layers = TRUE, !.DataEnd = jb.dataEnd,
                          !.RetiredAt = jb.dataLen]
  /\ jb' = [jb EXCEPT !.layers = TRUE]
  /\ UNCHANGED <<log, flushed, torn, level, levelSynced, bsst, canon, staged>>

(***************************************************************************)
(* The other steps of Finalize.  Locally: the BSST index is made from the  *)
(* LevelDB index, the head is marked and the index pointer swapped.  With  *)
(* staging: the canonical index is made from the CAR stream WriteCar       *)
(* produces, the stream is uploaded, then the head is marked.              *)
(***************************************************************************)
\* Mutant: the new index has the offset of the next entry.
LogCreateBsstOffByOne ==
  /\ bsst' = [b \in Block |-> IF Absent(b) THEN NoPos ELSE (level[b] + 1) % MaxLen]
  /\ UNCHANGED <<head, log, flushed, torn, level, levelSynced, canon, staged, jb>>

LogCreateBsst ==
  /\ bsst' = level
  /\ UNCHANGED <<head, log, flushed, torn, level, levelSynced, canon, staged, jb>>

\* Mutant: the old index stays in use.
LogMarkFinalizedNoSwap ==
  /\ head' = [head EXCEPT !.Finalized = TRUE]
  /\ UNCHANGED <<log, flushed, torn, level, levelSynced, bsst, canon, staged, jb>>

LogMarkFinalized ==
  /\ head' = [head EXCEPT !.Finalized = TRUE]
  /\ jb' = [jb EXCEPT !.rIdx = "bsst"]
  /\ UNCHANGED <<log, flushed, torn, level, levelSynced, bsst, canon, staged>>

CarBlocks == {log[p] : p \in {q \in Pos : q < jb.dataEnd}} \cap Block

LogCreateCanon ==
  /\ canon' = CarBlocks
  /\ UNCHANGED <<head, log, flushed, torn, level, levelSynced, bsst, staged, jb>>

LogUpload ==
  /\ staged' = TRUE
  /\ UNCHANGED <<head, log, flushed, torn, level, levelSynced, bsst, canon, jb>>

LogMarkExternal ==
  /\ head' = [head EXCEPT !.Finalized = TRUE, !.External = TRUE]
  /\ jb' = [jb EXCEPT !.rIdx = "nil", !.eIdx = TRUE]
  /\ UNCHANGED <<log, flushed, torn, level, levelSynced, bsst, canon, staged>>

-------------------------------------------------------------------------------
(***************************************************************************)
(* The process dies.  The file keeps what was written to it; a partly      *)
(* written entry stays as garbage at its end.  A power loss also takes the *)
(* LevelDB writes that were never synced.                                  *)
(***************************************************************************)
LogCrash(powerLoss) ==
  /\ jb' = Closed
  /\ log' = [p \in Pos |-> IF p < flushed THEN log[p]
                           ELSE IF p = flushed /\ torn THEN Torn ELSE None]
  /\ flushed' = IF torn THEN flushed + 1 ELSE flushed
  /\ torn' = FALSE
  /\ level' = IF powerLoss THEN levelSynced ELSE level
  /\ UNCHANGED <<head, levelSynced, bsst, canon, staged>>

(***************************************************************************)
(* Open.  It reads the head, opens the index that goes with it (LevelDB    *)
(* replays its journal into a synced table when it opens), cuts an         *)
(* unfinished top tree, and truncates a writable log to its head.          *)
(***************************************************************************)
OpenedLog ==
  [open |-> TRUE,
   wIdx |-> ~head.External /\ ~head.Finalized /\ ~head.ReadOnly,
   rIdx |-> IF head.External THEN "nil"
            ELSE IF head.Finalized THEN "bsst" ELSE "level",
   eIdx |-> head.External,
   finalizing |-> FALSE,
   layers |-> head.Layers,
   dataLen |-> flushed,
   dataEnd |-> head.DataEnd]

UnfinishedTop == head.DataEnd > 0 /\ ~head.Layers

\* The length Open compares with the head, once an unfinished top is cut.
LenAtOpen == IF UnfinishedTop THEN head.DataEnd ELSE flushed

OpenFails ==
  \/ flushed < head.RetiredAt
  \/ head.External /\ ~Staged
  \/ LenAtOpen > head.RetiredAt /\ head.ReadOnly

LogOpenRead ==
  /\ ~jb.open
  /\ ~OpenFails
  /\ jb' = OpenedLog
  /\ levelSynced' = IF OpenedLog.rIdx = "level" THEN level ELSE levelSynced
  /\ UNCHANGED <<head, log, flushed, torn, level, bsst, canon, staged>>

CutAt(len) ==
  /\ log' = [p \in Pos |-> IF p < len THEN log[p] ELSE None]
  /\ flushed' = len

\* jb.dataLen and jb.dataEnd keep the values read before the cut.
LogOpenCut ==
  /\ CutAt(head.DataEnd)
  /\ UNCHANGED <<head, torn, level, levelSynced, bsst, canon, staged, jb>>

LogOpenCutHead ==
  /\ head' = [head EXCEPT !.DataEnd = 0]
  /\ UNCHANGED <<log, flushed, torn, level, levelSynced, bsst, canon, staged, jb>>

\* Mutant: the last retired entry is truncated too.
ToTruncateOneMore == {b \in Block : level[b] >= head.RetiredAt - 1}

ToTruncate == {b \in Block : level[b] >= head.RetiredAt}

\* Del is a synced batch: it takes every earlier LevelDB write with it.
LogTruncIndex ==
  /\ level' = [b \in Block |-> IF b \in ToTruncate THEN NoPos ELSE level[b]]
  /\ levelSynced' = level'
  /\ UNCHANGED <<head, log, flushed, torn, bsst, canon, staged, jb>>

LogTruncData ==
  /\ CutAt(head.RetiredAt)
  /\ jb' = [jb EXCEPT !.dataLen = head.RetiredAt]
  /\ UNCHANGED <<head, torn, level, levelSynced, bsst, canon, staged>>

-------------------------------------------------------------------------------
(***************************************************************************)
(* What View finds for a block: the entry its index points at, in the file *)
(* (or the buffer it flushes) or in the staged CAR.                        *)
(***************************************************************************)
ReadsBack(idx, b) == idx[b] # NoPos /\ idx[b] < jb.dataLen /\ log[idx[b]] = b

Readable(b) ==
  \/ jb.eIdx /\ staged /\ b \in canon
  \/ ~jb.eIdx /\ jb.rIdx = "level" /\ ReadsBack(level, b)
  \/ ~jb.eIdx /\ jb.rIdx = "bsst"  /\ ReadsBack(bsst, b)
===============================================================================
