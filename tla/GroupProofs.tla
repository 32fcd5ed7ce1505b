----------------------------- MODULE GroupProofs ------------------------------
(***************************************************************************)
(* Proofs about Group, for any set of blocks, any bounds, with and without *)
(* staging storage, as long as only processes crash (PowerLoss is FALSE).  *)
(* That the row follows the life of a group holds of power losses too.     *)
(***************************************************************************)
EXTENDS Group, FiniteSetTheorems, SequenceTheorems, TLAPS

USE CarLogAssumption, GroupAssumption DEF CarLogAssumption, GroupAssumption

LEMMA CallFacts ==
  ASSUME NEW c \in Calls
  PROVE  /\ c \in Seq(Block)
         /\ Len(c) \in Nat
         /\ DOMAIN c = 1 .. Len(c)
         /\ Elems(c) \subseteq Block
<1>1. PICK n \in 0 .. MaxBatch : c \in [1 .. n -> Block]
  BY DEF Calls
<1>2. c \in Seq(Block) /\ Len(c) = n /\ DOMAIN c = 1 .. n
  BY <1>1
<1>. QED  BY <1>1, <1>2 DEF Elems

LEMMA SelectsFacts ==
  ASSUME NEW new \in Calls, NEW call \in Calls, Selects(new, call)
  PROVE  /\ Elems(new) \subseteq Elems(call)
         /\ \A b \in Elems(new) : Absent(b)
         /\ \A b \in Elems(call) : Absent(b) => b \in Elems(new)
<1>1. PICK at \in [DOMAIN new -> DOMAIN call] :
        /\ \A k \in DOMAIN new : new[k] = call[at[k]]
        /\ \A i \in DOMAIN call : Absent(call[i]) <=> \E k \in DOMAIN new : at[k] = i
  BY DEF Selects
<1>2. \A k \in DOMAIN new : /\ at[k] \in DOMAIN call
                             /\ new[k] = call[at[k]]
                             /\ Absent(call[at[k]])
  BY <1>1
<1>3. \A i \in DOMAIN call : Absent(call[i]) => \E k \in DOMAIN new : new[k] = call[i]
  BY <1>1
<1>. QED  BY <1>2, <1>3 DEF Elems

LEMMA EmptyCall == << >> \in Calls
<1>1. << >> \in [1 .. 0 -> Block]
  OBVIOUS
<1>. QED  BY <1>1 DEF Calls

LEMMA InitInv == Init => IInv
<1> SUFFICES ASSUME Init PROVE IInv
  OBVIOUS
<1> USE DEF Init, Create
<1>1. LogTypeOK
  <2>1. jb \in CarLogObject
    <3>1. jb = [open |-> TRUE, wIdx |-> TRUE, rIdx |-> "level", eIdx |-> FALSE,
                finalizing |-> FALSE, layers |-> FALSE, dataLen |-> 0, dataEnd |-> 0]
      BY DEF Closed
    <3> HIDE DEF Init, Create
    <3>. QED  BY <3>1 DEF CarLogObject
  <2>2. head \in HeadFile
    BY DEF HeadFile
  <2>3. /\ level \in [Block -> Pos \cup {NoPos}]
        /\ levelSynced \in [Block -> Pos \cup {NoPos}]
        /\ bsst \in [Block -> Pos \cup {NoPos}]
    BY DEF NoIndex
  <2>4. log \in [Pos -> Block \cup {None, Torn, Top}] /\ flushed \in 0 .. MaxLen
    OBVIOUS
  <2>. QED  BY <2>1, <2>2, <2>3, <2>4 DEF LogTypeOK
<1>2. << >> \in Calls
  BY EmptyCall
<1>3. TypeOK
  <2>1. db \in [state : GroupState, blocks : Nat, head : 0 .. MaxLen]
    BY DEF GroupState
  <2>2. /\ topIdx \in SUBSET Block /\ written \in SUBSET Block
        /\ acked \in SUBSET Block /\ attempted \in SUBSET Block
    OBVIOUS
  <2>3. /\ committed \in Nat /\ inflight \in Nat /\ putFrom \in 0 .. MaxLen
        /\ stops \in 0 .. MaxStops /\ unaccounted \in Nat
    OBVIOUS
  <2>4. /\ pc = "idle" /\ state = "Writable" /\ putBlks \in Calls
        /\ addDone \in BOOLEAN /\ thenRO \in BOOLEAN
    BY <1>2
  <2> HIDE DEF Init, Create
  <2>. QED  BY <1>1, <2>1, <2>2, <2>3, <2>4 DEF TypeOK, GroupState
<1>4. ObjectInv /\ HeadInv
  BY DEF ObjectInv, HeadInv, UnfinishedTop, Serving, OpenPC, Closed
<1>5. ControlInv
  BY DEF ControlInv, UnfinishedTop, PutPC, TruncPC, SyncPC, OpenPC, FinalizePC, TopPC
<1>6. LengthInv
  BY DEF LengthInv, Filled, UnfinishedTop, TopPC, Closed
<1>7. RetiredInv /\ ServedInv /\ SealedInv /\ FinalInv
  BY DEF RetiredInv, ServedInv, SealedInv, FinalInv, Filled, Sealed, Indexed, NoIndex, NoPos
<1>8. AckedInv /\ WrittenInv /\ PutInv
  BY DEF AckedInv, WrittenInv, PutInv, PutPC
<1>9. OfferedInv
  BY DEF OfferedInv, Indexed, NoIndex
<1>. QED  BY <1>3, <1>4, <1>5, <1>6, <1>7, <1>8, <1>9 DEF IInv

-------------------------------------------------------------------------------
(* Every action preserves IInv.  In each lemma the parts of IInv that the
   action disturbs have a step of their own; the parts it leaves alone come
   last, in one step.                                                      *)
USE DEF Serving, UnfinishedTop, Filled, Sealed, Indexed, OpenPC, PutPC,
    SyncPC, FinalizePC, TopPC, TruncPC, NoPos, Pos, Goto, opVars, observers

LEMMA PutBeginInv ==
  ASSUME NEW b \in Calls, IInv, PutBegin(b) PROVE IInv'
<1>1. PICK taken \in Calls :
        /\ \E new \in Calls : /\ Selects(new, taken)
                             /\ jb.dataLen + Len(new) < MaxLen
                             /\ LogPutAppend(new)
        /\ state' = IF Len(taken) < Len(b) THEN "Full" ELSE state
        /\ thenRO' = (Len(taken) < Len(b))
        /\ inflight' = inflight + Len(taken)
        /\ putBlks' = taken
        /\ attempted' = attempted \cup Elems(taken)
  BY DEF PutBegin
<1>2. PICK new \in Calls : /\ Selects(new, taken)
                           /\ jb.dataLen + Len(new) < MaxLen
                           /\ LogPutAppend(new)
  BY <1>1
<1> DEFINE newLen == jb.dataLen + Len(new)
<1>3. /\ Len(new) \in Nat /\ Len(taken) \in Nat
      /\ jb.dataLen \in Nat /\ newLen \in Nat /\ newLen < MaxLen
      /\ new \in [1 .. Len(new) -> Block]
      /\ Elems(new) = {new[i] : i \in 1 .. Len(new)}
      /\ Elems(taken) \subseteq Block
  <2>1. /\ Len(new) \in Nat /\ Len(taken) \in Nat /\ Elems(taken) \subseteq Block
        /\ new \in [1 .. Len(new) -> Block] /\ DOMAIN new = 1 .. Len(new)
    BY CallFacts
  <2>2. jb.dataLen \in Nat
    BY DEF IInv, TypeOK, LogTypeOK, CarLogObject
  <2>3. newLen < MaxLen /\ newLen \in Nat
    BY <1>2, <2>1, <2>2
  <2> HIDE DEF newLen
  <2>. QED  BY <2>1, <2>2, <2>3 DEF Elems
<1>a. /\ pc = "idle" /\ pc' = "put_jb" /\ jb.open /\ jb.wIdx /\ state = "Writable"
      /\ UNCHANGED <<head, level, levelSynced, bsst, canon, staged>>
      /\ UNCHANGED <<db, topIdx, committed, stops, written, acked, unaccounted>>
      /\ putFrom' = jb.dataLen /\ addDone' = FALSE /\ putBlks' = taken
      /\ state' = (IF Len(taken) < Len(b) THEN "Full" ELSE "Writable")
      /\ thenRO' = (Len(taken) < Len(b))
      /\ inflight' = inflight + Len(taken)
      /\ attempted' = attempted \cup Elems(taken)
  BY <1>1, <1>2 DEF PutBegin, LogPutAppend, Goto
<1>i. state' = (IF thenRO' THEN "Full" ELSE "Writable") /\ thenRO' \in BOOLEAN
  <2>1. CASE Len(taken) < Len(b)
    BY <1>a, <2>1
  <2>2. CASE ~(Len(taken) < Len(b))
    <3>1. (Len(taken) < Len(b)) = FALSE
      BY <2>2
    <3>2. thenRO' = FALSE
      BY <1>a, <3>1
    <3>. QED  BY <1>a, <2>2, <3>2
  <2>. QED  BY <2>1, <2>2
<1>b. /\ jb' = [jb EXCEPT !.dataLen = newLen]
      /\ log' = [p \in Pos |-> IF jb.dataLen =< p /\ p < newLen
                               THEN new[p - jb.dataLen + 1] ELSE log[p]]
      /\ flushed' \in flushed .. newLen /\ torn' \in BOOLEAN /\ (torn' => flushed' < newLen)
  BY <1>2 DEF LogPutAppend, Spill
<1>c. /\ Elems(new) \subseteq Elems(taken)
      /\ \A c \in Elems(new) : level[c] = NoPos
      /\ \A c \in Elems(taken) : level[c] = NoPos => c \in Elems(new)
  BY <1>2, SelectsFacts DEF Absent
<1>d. \A p \in Pos : /\ jb.dataLen =< p /\ p < newLen => log'[p] \in Elems(new)
                     /\ ~(jb.dataLen =< p /\ p < newLen) => log'[p] = log[p]
  <2> USE <1>3
  <2> SUFFICES ASSUME NEW p \in Pos
               PROVE  /\ jb.dataLen =< p /\ p < newLen => log'[p] \in Elems(new)
                      /\ ~(jb.dataLen =< p /\ p < newLen) => log'[p] = log[p]
    OBVIOUS
  <2>1. CASE jb.dataLen =< p /\ p < newLen
    <3>1. p - jb.dataLen + 1 \in 1 .. Len(new)
      <4> HIDE <1>3
      <4>1. jb.dataLen \in Nat /\ Len(new) \in Nat /\ p \in Nat
        BY <1>3
      <4>. QED  BY <2>1, <4>1
    <3>2. log'[p] = new[p - jb.dataLen + 1]
      BY <2>1, <1>b
    <3>. QED  BY <2>1, <3>1, <3>2, <1>3
  <2>2. CASE ~(jb.dataLen =< p /\ p < newLen)
    BY <2>2, <1>b
  <2>. QED  BY <2>1, <2>2
<1>e. \A c \in Elems(new) : \E p \in Pos : jb.dataLen =< p /\ p < newLen /\ log'[p] = c
  <2> SUFFICES ASSUME NEW k \in 1 .. Len(new)
               PROVE  \E p \in Pos : jb.dataLen =< p /\ p < newLen /\ log'[p] = new[k]
    BY <1>3
  <2> DEFINE p == jb.dataLen + k - 1
  <2>0. /\ jb.dataLen \in Nat /\ Len(new) \in Nat /\ k \in Nat /\ 1 =< k /\ k =< Len(new)
        /\ jb.dataLen + Len(new) < MaxLen
    BY <1>3
  <2>1. p \in Pos /\ jb.dataLen =< p /\ p < newLen /\ p - jb.dataLen + 1 = k
    BY <2>0
  <2>2. log'[p] = new[k]
    BY <2>1, <1>b
  <2> HIDE DEF p
  <2>. QED  BY <2>1, <2>2
<1>f. /\ jb' \in CarLogObject /\ jb'.dataLen = newLen /\ flushed' \in 0 .. MaxLen
      /\ jb'.open = jb.open /\ jb'.wIdx = jb.wIdx /\ jb'.rIdx = jb.rIdx /\ jb'.eIdx = jb.eIdx
      /\ jb'.finalizing = jb.finalizing /\ jb'.layers = jb.layers /\ jb'.dataEnd = jb.dataEnd
  <2>1. jb \in CarLogObject /\ flushed \in 0 .. MaxLen
    BY DEF IInv, TypeOK, LogTypeOK
  <2>2. newLen \in 0 .. MaxLen
    BY <1>3
  <2>3. flushed' \in 0 .. MaxLen
    BY <1>b, <1>3, <2>1
  <2> HIDE DEF newLen
  <2>. QED  BY <2>1, <2>2, <2>3, <1>b DEF CarLogObject
<1>g. log' \in [Pos -> Block \cup {None, Torn, Top}]
  <2>1. Elems(new) \subseteq Block
    BY <1>3, <1>c
  <2>2. log' \in [Pos -> Block \cup {None, Torn, Top}] <=>
          \A p \in Pos : log'[p] \in Block \cup {None, Torn, Top}
    BY <1>b
  <2>. QED  BY <2>1, <2>2, <1>d DEF IInv, TypeOK, LogTypeOK
<1>h. flushed =< flushed' /\ flushed' =< newLen /\ (torn' => flushed' < newLen)
      /\ torn' \in BOOLEAN
  BY <1>b DEF IInv, TypeOK, LogTypeOK
<1> HIDE DEF newLen
<1>11. TypeOK'
  <2>1. LogTypeOK'
    BY <1>a, <1>f, <1>g, <1>h DEF IInv, TypeOK, LogTypeOK
  <2>2. inflight' \in Nat /\ putFrom' \in 0 .. MaxLen
    BY <1>a, <1>3, <1>f DEF IInv, TypeOK, LogTypeOK, CarLogObject
  <2>3. attempted' \in SUBSET Block /\ state' \in GroupState /\ addDone' \in BOOLEAN
    BY <1>a, <1>3 DEF IInv, TypeOK, GroupState
  <2>. QED  BY <1>a, <1>i, <2>1, <2>2, <2>3 DEF IInv, TypeOK
<1>12. HeadInv'
  BY <1>3, <1>a, <1>c, <1>d, <1>e, <1>f, <1>g, <1>h, <1>i DEF IInv, TypeOK,
      LogTypeOK, HeadFile, HeadInv
<1>13. ControlInv'
  BY <1>3, <1>a, <1>c, <1>d, <1>e, <1>f, <1>g, <1>h, <1>i DEF IInv, TypeOK,
      LogTypeOK, ObjectInv, HeadInv, ControlInv
<1>14. LengthInv'
  BY <1>3, <1>a, <1>c, <1>d, <1>e, <1>f, <1>g, <1>h, <1>i DEF IInv, TypeOK,
      LogTypeOK, ObjectInv, ControlInv, LengthInv
<1>15. ServedInv'
  <2> SUFFICES ASSUME NEW c \in Block, level[c] # NoPos
               PROVE  level[c] < newLen /\ log'[level[c]] = c
    BY <1>a, <1>f DEF ServedInv
  <2>1. level[c] \in Pos /\ level[c] < jb.dataLen /\ log[level[c]] = c
    BY <1>a DEF IInv, TypeOK, LogTypeOK, ServedInv
  <2>2. jb.dataLen =< newLen
    BY <1>3 DEF newLen
  <2>. QED  BY <2>1, <2>2, <1>3, <1>d
<1>16. RetiredInv'
  <2>1. level' = level /\ head' = head /\ Serving'
    BY <1>a
  <2>. QED  BY <1>15, <2>1 DEF RetiredInv, ServedInv
<1>17. PutInv'
  <2>1. \A c \in Elems(taken) : level[c] # NoPos \/
          \E p \in Pos : jb.dataLen =< p /\ p < newLen /\ log'[p] = c
    BY <1>c, <1>e
  <2>2. \A c \in Block : (\E p \in Pos : jb.dataLen =< p /\ p < newLen /\ log'[p] = c)
                          => level[c] = NoPos
    BY <1>c, <1>d
  <2>3. head.RetiredAt =< jb.dataLen /\ jb.dataLen =< newLen
    <3>1. head.RetiredAt \in Nat /\ flushed \in Nat
      BY DEF IInv, TypeOK, LogTypeOK, HeadFile
    <3>2. head.RetiredAt =< flushed /\ flushed =< jb.dataLen
      BY <1>a DEF IInv, ObjectInv, HeadInv
    <3>. QED  BY <1>3, <3>1, <3>2 DEF newLen
  <2>4. \A c \in Block :
          Copies(putFrom, c)' = {p \in Pos : jb.dataLen =< p /\ p < newLen /\ log'[p] = c}
    BY <1>a, <1>f DEF Copies
  <2>5. \A c \in Elems(taken) : c \in Block /\ (level'[c] # NoPos \/ Copies(putFrom, c)' # {})
    <3>1. Elems(taken) \subseteq Block /\ level' = level
      BY <1>3, <1>a
    <3>. QED  BY <3>1, <2>1, <2>4
  <2>6. \A c \in Block : Copies(putFrom, c)' # {} => level'[c] = NoPos
    BY <1>a, <2>2, <2>4
  <2>7. pc' = "put_jb" /\ putBlks' = taken /\ addDone' = FALSE
        /\ head'.RetiredAt =< putFrom' /\ putFrom' =< jb'.dataLen
    BY <1>a, <1>f, <2>3
  <2>. QED  BY <2>5, <2>6, <2>7 DEF PutInv, Absent
<1>18. ObjectInv' /\ SealedInv' /\ FinalInv' /\ AckedInv' /\ WrittenInv' /\
     OfferedInv'
  BY <1>3, <1>a, <1>c, <1>d, <1>e, <1>f, <1>g, <1>h, <1>i DEF IInv, TypeOK,
      LogTypeOK, ObjectInv, SealedInv, FinalInv, AckedInv, WrittenInv,
      OfferedInv
<1>. QED  BY <1>11, <1>12, <1>13, <1>14, <1>15, <1>16, <1>17, <1>18 DEF IInv

LEMMA PutIndexInv == IInv /\ PutIndex => IInv'
<1> SUFFICES ASSUME IInv, PutIndex PROVE IInv'
  OBVIOUS
<1> USE DEF PutIndex, LogPutIndex, PutOffsets, Copies
<1>0. PICK offsets \in PutOffsets(putFrom) :
        level' = [b \in Block |-> IF offsets[b] = NoPos THEN level[b] ELSE offsets[b]]
  OBVIOUS
<1>a. \A b \in Block :
        /\ \/ level'[b] = level[b]
           \/ level'[b] \in Copies(putFrom, b)
        /\ level[b] # NoPos \/ Copies(putFrom, b) # {} => level'[b] # NoPos
  BY <1>0 DEF Copies, IInv, TypeOK, LogTypeOK
<1>b. /\ pc = "put_jb" /\ pc' = "put_join"
      /\ UNCHANGED <<head, log, flushed, torn, levelSynced, bsst, canon, staged, jb>>
      /\ UNCHANGED <<db, topIdx, state, committed, inflight, opVars, stops, observers>>
  OBVIOUS
<1>c. level' \in [Block -> Pos \cup {NoPos}]
  BY <1>0 DEF IInv, TypeOK, LogTypeOK
<1> HIDE DEF PutIndex, LogPutIndex, PutOffsets
<1>1. TypeOK'
  <2>1. LogTypeOK'
    BY <1>a, <1>b, <1>c DEF IInv, TypeOK, LogTypeOK
  <2>. QED  BY <2>1, <1>a, <1>b, <1>c, CallFacts DEF IInv, TypeOK, GroupState
<1>2. SealedInv'
  BY <1>a, <1>b, <1>c DEF IInv, TypeOK, LogTypeOK, HeadInv, ControlInv,
      SealedInv
<1>3. FinalInv'
  BY <1>a, <1>b, <1>c DEF IInv, TypeOK, LogTypeOK, HeadInv, ControlInv,
      FinalInv
<1>4. AckedInv'
  BY <1>a, <1>b, <1>c DEF IInv, TypeOK, LogTypeOK, GroupState, AckedInv,
      PutInv, Copies, Absent
<1>5. PutInv'
  <2>1. Elems(putBlks) \subseteq Block
    BY CallFacts DEF IInv, TypeOK
  <2>2. putBlks' = putBlks /\ addDone' = addDone
    BY <1>b
  <2>3. \A b \in Elems(putBlks) : level'[b] # NoPos
    BY <1>a, <1>b, <2>1 DEF IInv, PutInv
  <2>4. addDone => Elems(putBlks) \subseteq topIdx
    BY <1>b DEF IInv, PutInv
  <2>. QED  BY <1>b, <2>1, <2>2, <2>3, <2>4 DEF PutInv
<1>6. ObjectInv' /\ HeadInv' /\ ControlInv' /\ LengthInv' /\ RetiredInv' /\
     ServedInv' /\ WrittenInv' /\ OfferedInv'
  BY <1>a, <1>b, <1>c DEF IInv, TypeOK, LogTypeOK, ObjectInv, HeadInv,
      ControlInv, LengthInv, RetiredInv, ServedInv, WrittenInv, OfferedInv
<1>. QED  BY <1>1, <1>2, <1>3, <1>4, <1>5, <1>6 DEF IInv

LEMMA PutAddGroupInv == IInv /\ PutAddGroup => IInv'
<1> SUFFICES ASSUME IInv, PutAddGroup PROVE IInv'
  OBVIOUS
<1> USE DEF PutAddGroup, logVars, diskVars
<1>1. TypeOK'
  <2>1. LogTypeOK'
    BY DEF IInv, TypeOK, LogTypeOK
  <2>. QED  BY <2>1, CallFacts DEF IInv, TypeOK, GroupState
<1>2. PutInv'
  BY DEF IInv, TypeOK, LogTypeOK, PutInv, Copies, Absent
<1>3. ObjectInv' /\ HeadInv' /\ ControlInv' /\ LengthInv' /\ RetiredInv' /\
     ServedInv' /\ SealedInv' /\ FinalInv' /\ AckedInv' /\ WrittenInv' /\
     OfferedInv'
  BY DEF IInv, TypeOK, LogTypeOK, ObjectInv, HeadInv, ControlInv, LengthInv,
      RetiredInv, ServedInv, SealedInv, FinalInv, AckedInv, WrittenInv,
      OfferedInv
<1>. QED  BY <1>1, <1>2, <1>3 DEF IInv

LEMMA PutJoinInv == IInv /\ PutJoin => IInv'
<1> SUFFICES ASSUME IInv, PutJoin PROVE IInv'
  OBVIOUS
<1> USE DEF PutJoin, logVars, diskVars
<1>1. TypeOK'
  <2>1. LogTypeOK'
    BY DEF IInv, TypeOK, LogTypeOK
  <2>. QED  BY <2>1, CallFacts DEF IInv, TypeOK, GroupState
<1>2. WrittenInv'
  BY DEF IInv, TypeOK, LogTypeOK, WrittenInv, PutInv
<1>3. ObjectInv' /\ HeadInv' /\ ControlInv' /\ LengthInv' /\ RetiredInv' /\
     ServedInv' /\ SealedInv' /\ FinalInv' /\ AckedInv' /\ PutInv' /\
     OfferedInv'
  BY DEF IInv, TypeOK, LogTypeOK, ObjectInv, HeadInv, ControlInv, LengthInv,
      RetiredInv, ServedInv, SealedInv, FinalInv, AckedInv, PutInv, OfferedInv
<1>. QED  BY <1>1, <1>2, <1>3 DEF IInv

LEMMA SyncBeginInv == IInv /\ SyncBegin => IInv'
<1> SUFFICES ASSUME IInv, SyncBegin PROVE IInv'
  OBVIOUS
<1> USE DEF SyncBegin, logVars, diskVars
<1>1. TypeOK'
  <2>1. LogTypeOK'
    BY DEF IInv, TypeOK, LogTypeOK
  <2>. QED  BY <2>1, CallFacts DEF IInv, TypeOK, GroupState
<1>2. ControlInv'
  BY DEF IInv, TypeOK, LogTypeOK, ObjectInv, HeadInv, ControlInv
<1>3. SealedInv'
  BY DEF IInv, TypeOK, LogTypeOK, ObjectInv, SealedInv
<1>4. ObjectInv' /\ HeadInv' /\ LengthInv' /\ RetiredInv' /\ ServedInv' /\ FinalInv'
     /\ AckedInv' /\ WrittenInv' /\ PutInv' /\ OfferedInv'
  BY DEF IInv, TypeOK, LogTypeOK, ObjectInv, HeadInv, LengthInv, RetiredInv,
      ServedInv, FinalInv, AckedInv, WrittenInv, PutInv, OfferedInv
<1>. QED  BY <1>1, <1>2, <1>3, <1>4 DEF IInv

LEMMA CommitFlushInv == IInv /\ CommitFlush => IInv'
<1> SUFFICES ASSUME IInv, CommitFlush PROVE IInv'
  OBVIOUS
<1> USE DEF CommitFlush, LogCommitFlush, FlushBuffered
<1>1. TypeOK'
  <2>1. LogTypeOK'
    BY DEF IInv, TypeOK, LogTypeOK, CarLogObject
  <2>. QED  BY <2>1, CallFacts DEF IInv, TypeOK, GroupState
<1>2. ObjectInv'
  BY DEF IInv, TypeOK, LogTypeOK, CarLogObject, ObjectInv
<1>3. HeadInv'
  BY DEF IInv, TypeOK, LogTypeOK, HeadFile, CarLogObject, ObjectInv, HeadInv
<1>4. ControlInv' /\ LengthInv' /\ RetiredInv' /\ ServedInv' /\ SealedInv' /\
     FinalInv' /\ AckedInv' /\ WrittenInv' /\ PutInv' /\ OfferedInv'
  BY DEF IInv, TypeOK, LogTypeOK, ControlInv, LengthInv, RetiredInv,
      ServedInv, SealedInv, FinalInv, AckedInv, WrittenInv, PutInv, OfferedInv
<1>. QED  BY <1>1, <1>2, <1>3, <1>4 DEF IInv

LEMMA CommitHeadInv == IInv /\ CommitHead => IInv'
<1> SUFFICES ASSUME IInv, CommitHead PROVE IInv'
  OBVIOUS
<1> USE DEF CommitHead, LogCommitHead
<1>1. TypeOK'
  <2>1. LogTypeOK'
    BY DEF IInv, TypeOK, LogTypeOK, HeadFile, CarLogObject
  <2>. QED  BY <2>1, CallFacts DEF IInv, TypeOK, GroupState
<1>2. HeadInv'
  BY DEF IInv, TypeOK, LogTypeOK, HeadFile, HeadInv, ControlInv, LengthInv
<1>3. LengthInv'
  BY DEF IInv, TypeOK, LogTypeOK, ControlInv, LengthInv
<1>4. RetiredInv'
  BY DEF IInv, TypeOK, LogTypeOK, RetiredInv, ServedInv
<1>5. SealedInv'
  BY DEF IInv, TypeOK, LogTypeOK, LengthInv, SealedInv, ServedInv
<1>6. AckedInv'
  <2>1. Serving /\ level' = level /\ head'.RetiredAt = jb.dataLen /\ topIdx' = topIdx
        /\ acked' \subseteq acked \cup written
    BY DEF IInv, TypeOK, LogTypeOK, HeadFile
  <2>2. acked \cup written \subseteq Indexed \cap topIdx
    BY DEF IInv, AckedInv, WrittenInv
  <2> HIDE DEF CommitHead, LogCommitHead
  <2>. QED  BY <2>1, <2>2 DEF IInv, ServedInv, AckedInv
<1>7. ObjectInv' /\ ControlInv'
  BY DEF IInv, TypeOK, LogTypeOK, ObjectInv, ControlInv
<1>8. ServedInv' /\ FinalInv'
  BY DEF IInv, TypeOK, LogTypeOK, ServedInv, FinalInv
<1>9. WrittenInv' /\ PutInv' /\ OfferedInv'
  BY DEF IInv, TypeOK, LogTypeOK, WrittenInv, PutInv, OfferedInv
<1>. QED  BY <1>1, <1>2, <1>3, <1>4, <1>5, <1>6, <1>7, <1>8, <1>9 DEF IInv

LEMMA SetGroupHeadInv == IInv /\ SetGroupHead => IInv'
<1> SUFFICES ASSUME IInv, SetGroupHead PROVE IInv'
  OBVIOUS
<1> USE DEF SetGroupHead, logVars, diskVars
<1>1. TypeOK'
  <2>1. LogTypeOK'
    BY DEF IInv, TypeOK, LogTypeOK
  <2>2. db' \in [state : GroupState, blocks : Nat, head : 0 .. MaxLen]
    BY DEF IInv, TypeOK, LogTypeOK, CarLogObject
  <2>3. committed' \in Nat /\ inflight' \in Nat
    BY DEF IInv, TypeOK
  <2>. QED  BY <2>1, <2>2, <2>3 DEF IInv, TypeOK
<1>2. HeadInv'
  BY DEF IInv, TypeOK, LogTypeOK, HeadFile, HeadInv, LengthInv
<1>3. ControlInv'
  BY DEF IInv, TypeOK, LogTypeOK, HeadInv, ControlInv
<1>4. LengthInv'
  BY DEF IInv, TypeOK, LogTypeOK, ObjectInv, LengthInv
<1>5. ObjectInv' /\ RetiredInv' /\ ServedInv' /\ SealedInv' /\ FinalInv' /\
     AckedInv' /\ WrittenInv' /\ PutInv' /\ OfferedInv'
  BY DEF IInv, TypeOK, LogTypeOK, ObjectInv, RetiredInv, ServedInv, SealedInv,
      FinalInv, AckedInv, WrittenInv, PutInv, OfferedInv
<1>. QED  BY <1>1, <1>2, <1>3, <1>4, <1>5 DEF IInv

LEMMA PutMarkReadOnlyInv == IInv /\ PutMarkReadOnly => IInv'
<1> SUFFICES ASSUME IInv, PutMarkReadOnly PROVE IInv'
  OBVIOUS
<1> USE DEF PutMarkReadOnly, LogMarkReadOnly
<1>1. TypeOK'
  <2>1. LogTypeOK'
    BY DEF IInv, TypeOK, LogTypeOK, HeadFile, CarLogObject
  <2>. QED  BY <2>1, CallFacts DEF IInv, TypeOK, GroupState
<1>2. RetiredInv'
  BY DEF IInv, TypeOK, LogTypeOK, RetiredInv, ServedInv
<1>3. ServedInv'
  BY DEF IInv, TypeOK, LogTypeOK, ObjectInv, ControlInv, SealedInv, ServedInv
<1>4. ObjectInv' /\ HeadInv' /\ ControlInv' /\ LengthInv' /\ SealedInv' /\ FinalInv'
     /\ AckedInv' /\ WrittenInv' /\ PutInv' /\ OfferedInv'
  BY DEF IInv, TypeOK, LogTypeOK, ObjectInv, HeadInv, ControlInv, LengthInv,
      SealedInv, FinalInv, AckedInv, WrittenInv, PutInv, OfferedInv
<1>. QED  BY <1>1, <1>2, <1>3, <1>4 DEF IInv

LEMMA FinalizeBeginInv == IInv /\ FinalizeBegin => IInv'
<1> SUFFICES ASSUME IInv, FinalizeBegin PROVE IInv'
  OBVIOUS
<1> USE DEF FinalizeBegin
<1>1. TypeOK'
  <2>1. LogTypeOK'
    BY DEF IInv, TypeOK, LogTypeOK, HeadFile, CarLogObject
  <2>. QED  BY <2>1, CallFacts DEF IInv, TypeOK, GroupState
<1>2. LengthInv'
  BY DEF IInv, TypeOK, LogTypeOK, ObjectInv, ControlInv, LengthInv
<1>3. RetiredInv'
  BY DEF IInv, TypeOK, LogTypeOK, RetiredInv, ServedInv
<1>4. ServedInv'
  BY DEF IInv, TypeOK, LogTypeOK, CarLogObject, ServedInv
<1>5. SealedInv'
  BY DEF IInv, TypeOK, LogTypeOK, ControlInv, SealedInv
<1>6. ObjectInv' /\ HeadInv' /\ ControlInv' /\ FinalInv' /\ AckedInv' /\ WrittenInv'
     /\ PutInv' /\ OfferedInv'
  BY DEF IInv, TypeOK, LogTypeOK, ObjectInv, HeadInv, ControlInv, FinalInv,
      AckedInv, WrittenInv, PutInv, OfferedInv
<1>. QED  BY <1>1, <1>2, <1>3, <1>4, <1>5, <1>6 DEF IInv

LEMMA FinalizeStartInv == IInv /\ FinalizeStart => IInv'
<1> SUFFICES ASSUME IInv, FinalizeStart PROVE IInv'
  OBVIOUS
<1> USE DEF FinalizeStart, logVars, diskVars
<1>1. TypeOK'
  <2>1. LogTypeOK'
    BY DEF IInv, TypeOK, LogTypeOK
  <2>. QED  BY <2>1, CallFacts DEF IInv, TypeOK, GroupState
<1>2. ObjectInv' /\ HeadInv' /\ ControlInv' /\ LengthInv' /\ RetiredInv' /\
     ServedInv' /\ SealedInv' /\ FinalInv' /\ AckedInv' /\ WrittenInv' /\
     PutInv' /\ OfferedInv'
  BY DEF IInv, TypeOK, LogTypeOK, ObjectInv, HeadInv, ControlInv, LengthInv,
      RetiredInv, ServedInv, SealedInv, FinalInv, AckedInv, WrittenInv,
      PutInv, OfferedInv
<1>. QED  BY <1>1, <1>2 DEF IInv

LEMMA CreateBsstInv == IInv /\ CreateBsst => IInv'
<1> SUFFICES ASSUME IInv, CreateBsst PROVE IInv'
  OBVIOUS
<1> USE DEF CreateBsst, FinalizeStep, LogCreateBsst
<1>1. TypeOK'
  <2>1. LogTypeOK'
    BY DEF IInv, TypeOK, LogTypeOK
  <2>. QED  BY <2>1, CallFacts DEF IInv, TypeOK, GroupState
<1>2. ObjectInv' /\ HeadInv' /\ ControlInv' /\ LengthInv' /\ RetiredInv' /\
     ServedInv' /\ SealedInv' /\ FinalInv' /\ AckedInv' /\ WrittenInv' /\
     PutInv' /\ OfferedInv'
  BY DEF IInv, TypeOK, LogTypeOK, ObjectInv, HeadInv, ControlInv, LengthInv,
      RetiredInv, ServedInv, SealedInv, FinalInv, AckedInv, WrittenInv,
      PutInv, OfferedInv
<1>. QED  BY <1>1, <1>2 DEF IInv

LEMMA MarkFinalizedInv == IInv /\ MarkFinalized => IInv'
<1> SUFFICES ASSUME IInv, MarkFinalized PROVE IInv'
  OBVIOUS
<1> USE DEF MarkFinalized, FinalizeStep, LogMarkFinalized
<1>1. TypeOK'
  <2>1. LogTypeOK'
    BY DEF IInv, TypeOK, LogTypeOK, HeadFile, CarLogObject
  <2>. QED  BY <2>1, CallFacts DEF IInv, TypeOK, GroupState
<1>2. ObjectInv'
  BY DEF IInv, TypeOK, LogTypeOK, ObjectInv, HeadInv, ControlInv
<1>3. HeadInv'
  BY DEF IInv, TypeOK, LogTypeOK, HeadInv, ControlInv
<1>4. RetiredInv'
  BY DEF IInv, TypeOK, LogTypeOK, RetiredInv, ServedInv
<1>5. ServedInv'
  BY DEF IInv, TypeOK, LogTypeOK, ObjectInv, HeadInv, ControlInv, SealedInv,
      ServedInv
<1>6. ControlInv' /\ LengthInv'
  BY DEF IInv, TypeOK, LogTypeOK, ControlInv, LengthInv
<1>7. SealedInv' /\ FinalInv'
  BY DEF IInv, TypeOK, LogTypeOK, SealedInv, FinalInv
<1>8. AckedInv' /\ WrittenInv'
  BY DEF IInv, TypeOK, LogTypeOK, HeadFile, AckedInv, WrittenInv
<1>9. PutInv' /\ OfferedInv'
  BY DEF IInv, PutInv, OfferedInv
<1>. QED  BY <1>1, <1>2, <1>3, <1>4, <1>5, <1>6, <1>7, <1>8, <1>9 DEF IInv

LEMMA TopBeginInv == IInv /\ TopBegin => IInv'
<1> SUFFICES ASSUME IInv, TopBegin PROVE IInv'
  OBVIOUS
<1> USE DEF TopBegin, FinalizeStep, LogTopBegin, CanGenTop
<1>1. TypeOK'
  <2>1. LogTypeOK'
    BY DEF IInv, TypeOK, LogTypeOK, HeadFile, CarLogObject
  <2>. QED  BY <2>1, CallFacts DEF IInv, TypeOK, GroupState
<1>2. ObjectInv'
  BY DEF IInv, TypeOK, LogTypeOK, CarLogObject, ObjectInv
<1>3. HeadInv'
  BY DEF IInv, TypeOK, LogTypeOK, ObjectInv, HeadInv, ControlInv, LengthInv
<1>4. LengthInv'
  BY DEF IInv, TypeOK, LogTypeOK, ObjectInv, ControlInv, LengthInv
<1>5. ServedInv'
  BY DEF IInv, TypeOK, LogTypeOK, HeadInv, SealedInv, ServedInv
<1>6. SealedInv'
  BY DEF IInv, TypeOK, LogTypeOK, ControlInv, SealedInv
<1>7. ControlInv'
  BY DEF IInv, TypeOK, LogTypeOK, ControlInv
<1>8. RetiredInv' /\ FinalInv'
  BY DEF IInv, TypeOK, LogTypeOK, RetiredInv, FinalInv
<1>9. AckedInv' /\ WrittenInv'
  BY DEF IInv, TypeOK, LogTypeOK, HeadFile, AckedInv, WrittenInv
<1>10. PutInv' /\ OfferedInv'
  BY DEF IInv, PutInv, OfferedInv
<1>. QED  BY <1>1, <1>2, <1>3, <1>4, <1>5, <1>6, <1>7, <1>8, <1>9, <1>10 DEF IInv

LEMMA TopWriteInv == IInv /\ TopWrite => IInv'
<1> SUFFICES ASSUME IInv, TopWrite PROVE IInv'
  OBVIOUS
<1> USE DEF TopWrite, FinalizeStep, LogTopWrite, Spill, IterateOK
<1>1. TypeOK'
  <2>a. jb \in CarLogObject /\ jb.dataLen < MaxLen /\ flushed \in 0 .. MaxLen
        /\ flushed' \in flushed .. jb.dataLen + 1 /\ torn' \in BOOLEAN
    BY DEF IInv, TypeOK, LogTypeOK
  <2>0. jb.dataLen \in Nat /\ jb.dataLen + 1 \in 0 .. MaxLen /\ jb \in CarLogObject
    <3> HIDE DEF TopWrite, FinalizeStep, LogTopWrite, Spill, IterateOK
    <3>. QED  BY <2>a DEF CarLogObject
  <2>1. log' \in [Pos -> Block \cup {None, Torn, Top}]
    BY DEF IInv, TypeOK, LogTypeOK, CarLogObject
  <2>2. jb' \in CarLogObject
    <3>1. jb' = [jb EXCEPT !.dataLen = jb.dataLen + 1]
      OBVIOUS
    <3> HIDE DEF TopWrite, FinalizeStep, LogTopWrite
    <3>. QED  BY <2>0, <3>1 DEF CarLogObject
  <2>3. flushed' \in 0 .. MaxLen /\ torn' \in BOOLEAN
    <3> HIDE DEF TopWrite, FinalizeStep, LogTopWrite, Spill, IterateOK
    <3>. QED  BY <2>a, <2>0
  <2>4. LogTypeOK'
    BY <2>1, <2>2, <2>3 DEF IInv, TypeOK, LogTypeOK
  <2>. QED  BY <2>4 DEF IInv, TypeOK
<1>2. HeadInv'
  BY DEF IInv, TypeOK, LogTypeOK, HeadFile, ObjectInv, HeadInv, LengthInv
<1>3. LengthInv'
  BY DEF IInv, TypeOK, LogTypeOK, HeadFile, ObjectInv, ControlInv, LengthInv
<1>4. ServedInv'
  <2>0. Serving /\ level \in [Block -> Pos \cup {NoPos}]
    BY DEF IInv, TypeOK, LogTypeOK
  <2>1. \A b \in Block : level[b] # NoPos =>
          level[b] \in Pos /\ level[b] < jb.dataLen /\ log[level[b]] = b
    <3> HIDE DEF TopWrite, FinalizeStep, LogTopWrite, Spill, IterateOK
    <3>. QED  BY <2>0 DEF IInv, ServedInv
  <2>2. jb.dataLen \in Nat /\ jb'.dataLen = jb.dataLen + 1 /\ level' = level
    BY DEF IInv, TypeOK, LogTypeOK, CarLogObject
  <2>3. \A p \in Pos : p # jb.dataLen => log'[p] = log[p]
    BY DEF IInv, TypeOK, LogTypeOK
  <2> HIDE DEF TopWrite, FinalizeStep, LogTopWrite, Spill, IterateOK
  <2>. QED  BY <2>1, <2>2, <2>3 DEF ServedInv
<1>5. RetiredInv'
  <2>1. level' = level /\ head' = head
    OBVIOUS
  <2>2. Serving'
    BY DEF IInv, ObjectInv, ControlInv
  <2> HIDE DEF TopWrite, FinalizeStep, LogTopWrite, Spill, IterateOK
  <2>. QED  BY <1>4, <2>1, <2>2 DEF RetiredInv, ServedInv
<1>6. ObjectInv' /\ ControlInv'
  BY DEF IInv, TypeOK, LogTypeOK, ObjectInv, ControlInv
<1>7. SealedInv' /\ FinalInv'
  BY DEF IInv, TypeOK, LogTypeOK, SealedInv, FinalInv
<1>8. AckedInv' /\ WrittenInv' /\ PutInv' /\ OfferedInv'
  BY DEF IInv, TypeOK, LogTypeOK, AckedInv, WrittenInv, PutInv, OfferedInv
<1>. QED  BY <1>1, <1>2, <1>3, <1>4, <1>5, <1>6, <1>7, <1>8 DEF IInv

LEMMA TopFlushInv == IInv /\ TopFlush => IInv'
<1> SUFFICES ASSUME IInv, TopFlush PROVE IInv'
  OBVIOUS
<1> USE DEF TopFlush, FinalizeStep, FlushBuffered
<1>1. TypeOK'
  <2>1. LogTypeOK'
    BY DEF IInv, TypeOK, LogTypeOK, CarLogObject
  <2>. QED  BY <2>1, CallFacts DEF IInv, TypeOK, GroupState
<1>2. ObjectInv'
  BY DEF IInv, TypeOK, LogTypeOK, CarLogObject, ObjectInv
<1>3. HeadInv'
  BY DEF IInv, TypeOK, LogTypeOK, CarLogObject, ObjectInv, HeadInv, LengthInv
<1>4. LengthInv'
  BY DEF IInv, TypeOK, LogTypeOK, ControlInv, LengthInv
<1>5. ControlInv' /\ RetiredInv' /\ ServedInv' /\ SealedInv' /\ FinalInv' /\
     AckedInv' /\ WrittenInv' /\ PutInv' /\ OfferedInv'
  BY DEF IInv, TypeOK, LogTypeOK, ControlInv, RetiredInv, ServedInv,
      SealedInv, FinalInv, AckedInv, WrittenInv, PutInv, OfferedInv
<1>. QED  BY <1>1, <1>2, <1>3, <1>4, <1>5 DEF IInv

LEMMA TopEndInv == IInv /\ TopEnd => IInv'
<1> SUFFICES ASSUME IInv, TopEnd PROVE IInv'
  OBVIOUS
<1> USE DEF TopEnd, FinalizeStep, LogTopEnd
<1>1. TypeOK'
  <2>1. LogTypeOK'
    BY DEF IInv, TypeOK, LogTypeOK, HeadFile, CarLogObject
  <2>. QED  BY <2>1, CallFacts DEF IInv, TypeOK, GroupState
<1>2. HeadInv'
  BY DEF IInv, TypeOK, LogTypeOK, CarLogObject, HeadInv, LengthInv
<1>3. RetiredInv'
  BY DEF IInv, TypeOK, LogTypeOK, RetiredInv, ServedInv
<1>4. ServedInv'
  BY DEF IInv, TypeOK, LogTypeOK, HeadInv, ControlInv, SealedInv, ServedInv
<1>5. SealedInv'
  BY DEF IInv, TypeOK, LogTypeOK, ControlInv, LengthInv, SealedInv, ServedInv
<1>6. AckedInv'
  BY DEF IInv, TypeOK, LogTypeOK, HeadFile, ServedInv, AckedInv
<1>7. ObjectInv' /\ ControlInv' /\ LengthInv'
  BY DEF IInv, TypeOK, LogTypeOK, ObjectInv, ControlInv, LengthInv
<1>8. FinalInv'
  BY DEF IInv, TypeOK, LogTypeOK, FinalInv
<1>9. WrittenInv' /\ PutInv' /\ OfferedInv'
  BY DEF IInv, TypeOK, LogTypeOK, WrittenInv, PutInv, OfferedInv
<1>. QED  BY <1>1, <1>2, <1>3, <1>4, <1>5, <1>6, <1>7, <1>8, <1>9 DEF IInv

LEMMA CreateCanonInv == IInv /\ CreateCanon => IInv'
<1> SUFFICES ASSUME IInv, CreateCanon PROVE IInv'
  OBVIOUS
<1> USE DEF CreateCanon, FinalizeStep, LogCreateCanon, CarBlocks
<1>1. TypeOK'
  <2>1. LogTypeOK'
    BY DEF IInv, TypeOK, LogTypeOK
  <2>. QED  BY <2>1, CallFacts DEF IInv, TypeOK, GroupState
<1>2. ObjectInv' /\ HeadInv' /\ ControlInv' /\ LengthInv'
  BY DEF IInv, TypeOK, LogTypeOK, ObjectInv, HeadInv, ControlInv, LengthInv
<1>3. RetiredInv' /\ ServedInv' /\ SealedInv' /\ FinalInv'
  BY DEF IInv, TypeOK, LogTypeOK, RetiredInv, ServedInv, SealedInv, FinalInv
<1>4. AckedInv' /\ WrittenInv' /\ PutInv' /\ OfferedInv'
  BY DEF IInv, TypeOK, LogTypeOK, AckedInv, WrittenInv, PutInv, OfferedInv
<1>. QED  BY <1>1, <1>2, <1>3, <1>4 DEF IInv

LEMMA UploadInv == IInv /\ Upload => IInv'
<1> SUFFICES ASSUME IInv, Upload PROVE IInv'
  OBVIOUS
<1> USE DEF Upload, FinalizeStep, LogUpload
<1>1. TypeOK'
  <2>1. LogTypeOK'
    BY DEF IInv, TypeOK, LogTypeOK
  <2>. QED  BY <2>1, CallFacts DEF IInv, TypeOK, GroupState
<1>2. ObjectInv' /\ HeadInv' /\ ControlInv' /\ LengthInv' /\ RetiredInv' /\
     ServedInv' /\ SealedInv' /\ FinalInv' /\ AckedInv' /\ WrittenInv' /\
     PutInv' /\ OfferedInv'
  BY DEF IInv, TypeOK, LogTypeOK, ObjectInv, HeadInv, ControlInv, LengthInv,
      RetiredInv, ServedInv, SealedInv, FinalInv, AckedInv, WrittenInv,
      PutInv, OfferedInv
<1>. QED  BY <1>1, <1>2 DEF IInv

LEMMA MarkExternalInv == IInv /\ MarkExternal => IInv'
<1> SUFFICES ASSUME IInv, MarkExternal PROVE IInv'
  OBVIOUS
<1> USE DEF MarkExternal, FinalizeStep, LogMarkExternal
<1>1. TypeOK'
  <2>1. LogTypeOK'
    BY DEF IInv, TypeOK, LogTypeOK, HeadFile, CarLogObject
  <2>. QED  BY <2>1, CallFacts DEF IInv, TypeOK, GroupState
<1>2. HeadInv'
  BY DEF IInv, TypeOK, LogTypeOK, HeadInv, ControlInv
<1>3. ServedInv'
  BY DEF IInv, TypeOK, LogTypeOK, GroupState, ControlInv, SealedInv, ServedInv
<1>4. ObjectInv' /\ ControlInv' /\ LengthInv'
  BY DEF IInv, TypeOK, LogTypeOK, ObjectInv, ControlInv, LengthInv
<1>5. RetiredInv' /\ SealedInv' /\ FinalInv'
  BY DEF IInv, TypeOK, LogTypeOK, RetiredInv, SealedInv, FinalInv
<1>6. AckedInv' /\ WrittenInv' /\ PutInv' /\ OfferedInv'
  BY DEF IInv, TypeOK, LogTypeOK, AckedInv, WrittenInv, PutInv, OfferedInv
<1>. QED  BY <1>1, <1>2, <1>3, <1>4, <1>5, <1>6 DEF IInv

LEMMA FinalizeFailsInv == IInv /\ FinalizeFails => IInv'
<1> SUFFICES ASSUME IInv, FinalizeFails PROVE IInv'
  OBVIOUS
<1> USE DEF FinalizeFails, logVars, diskVars
<1>1. TypeOK'
  <2>1. LogTypeOK'
    BY DEF IInv, TypeOK, LogTypeOK
  <2>. QED  BY <2>1, CallFacts DEF IInv, TypeOK, GroupState
<1>2. ObjectInv' /\ HeadInv' /\ ControlInv' /\ LengthInv' /\ RetiredInv' /\
     ServedInv' /\ SealedInv' /\ FinalInv' /\ AckedInv' /\ WrittenInv' /\
     PutInv' /\ OfferedInv'
  BY DEF IInv, TypeOK, LogTypeOK, ObjectInv, HeadInv, ControlInv, LengthInv,
      RetiredInv, ServedInv, SealedInv, FinalInv, AckedInv, WrittenInv,
      PutInv, OfferedInv
<1>. QED  BY <1>1, <1>2 DEF IInv

LEMMA FinalizeEndInv == IInv /\ FinalizeEnd => IInv'
<1> SUFFICES ASSUME IInv, FinalizeEnd PROVE IInv'
  OBVIOUS
<1> USE DEF FinalizeEnd, AdvanceState, logVars, diskVars
<1>1. TypeOK'
  <2>1. LogTypeOK'
    BY DEF IInv, TypeOK, LogTypeOK
  <2>. QED  BY <2>1, CallFacts DEF IInv, TypeOK, GroupState
<1>2. LengthInv'
  BY DEF IInv, TypeOK, LogTypeOK, ControlInv, LengthInv
<1>3. SealedInv'
  BY DEF IInv, TypeOK, LogTypeOK, ControlInv, SealedInv
<1>4. ObjectInv' /\ HeadInv' /\ ControlInv' /\ RetiredInv' /\ ServedInv' /\
     FinalInv' /\ AckedInv' /\ WrittenInv' /\ PutInv' /\ OfferedInv'
  BY DEF IInv, TypeOK, LogTypeOK, ObjectInv, HeadInv, ControlInv, RetiredInv,
      ServedInv, FinalInv, AckedInv, WrittenInv, PutInv, OfferedInv
<1>. QED  BY <1>1, <1>2, <1>3, <1>4 DEF IInv

LEMMA GenCommPInv == IInv /\ GenCommP => IInv'
<1> SUFFICES ASSUME IInv, GenCommP PROVE IInv'
  OBVIOUS
<1> USE DEF GenCommP, AdvanceState, logVars, diskVars
<1>1. TypeOK'
  <2>1. LogTypeOK'
    BY DEF IInv, TypeOK, LogTypeOK
  <2>. QED  BY <2>1, CallFacts DEF IInv, TypeOK, GroupState
<1>2. LengthInv'
  BY DEF IInv, TypeOK, LogTypeOK, ControlInv, LengthInv
<1>3. SealedInv'
  BY DEF IInv, TypeOK, LogTypeOK, ControlInv, SealedInv
<1>4. PutInv'
  BY DEF IInv, TypeOK, LogTypeOK, ControlInv, PutInv
<1>5. ObjectInv' /\ HeadInv' /\ ControlInv' /\ RetiredInv' /\ ServedInv' /\
     FinalInv' /\ AckedInv' /\ WrittenInv' /\ OfferedInv'
  BY DEF IInv, TypeOK, LogTypeOK, ObjectInv, HeadInv, ControlInv, RetiredInv,
      ServedInv, FinalInv, AckedInv, WrittenInv, OfferedInv
<1>. QED  BY <1>1, <1>2, <1>3, <1>4, <1>5 DEF IInv

LEMMA OpenGroupInv == IInv /\ OpenGroup => IInv'
<1> SUFFICES ASSUME IInv, OpenGroup PROVE IInv'
  OBVIOUS
<1> USE DEF OpenGroup, LogOpenRead, OpenedLog, OpenFails, LenAtOpen,
    ToTruncate
<1>a. /\ jb'.open
      /\ jb'.wIdx <=> ~head.External /\ ~head.Finalized /\ ~head.ReadOnly
      /\ jb'.rIdx = IF head.External THEN "nil"
                    ELSE IF head.Finalized THEN "bsst" ELSE "level"
      /\ jb'.eIdx <=> head.External
      /\ jb'.layers <=> head.Layers
      /\ ~jb'.finalizing
      /\ jb'.dataLen = flushed
      /\ jb'.dataEnd = head.DataEnd
  BY DEF IInv, TypeOK, LogTypeOK, HeadFile
<1>b. /\ pc = "down" /\ ~jb.open
      /\ UNCHANGED <<head, log, flushed, torn, level, bsst, canon, staged>>
      /\ UNCHANGED <<db, topIdx, opVars, stops, observers>>
      /\ state' = db.state
      /\ flushed >= head.RetiredAt
      /\ ~(LenAtOpen > head.RetiredAt /\ head.ReadOnly)
  BY DEF IInv, TypeOK, LogTypeOK, HeadFile
<1>c. pc' = IF UnfinishedTop THEN "o_cut"
            ELSE IF jb'.wIdx /\ ToTruncate # {} THEN "o_drop" ELSE "idle"
  OBVIOUS
<1>d. jb' \in CarLogObject /\ levelSynced' \in [Block -> Pos \cup {NoPos}]
      /\ committed' \in Nat /\ inflight' = 0
  <2> DEFINE w == ~head.External /\ ~head.Finalized /\ ~head.ReadOnly
             r == IF head.External THEN "nil"
                  ELSE IF head.Finalized THEN "bsst" ELSE "level"
  <2>1. jb' = [open |-> TRUE, wIdx |-> w, rIdx |-> r, eIdx |-> head.External,
               finalizing |-> FALSE, layers |-> head.Layers, dataLen |-> flushed,
               dataEnd |-> head.DataEnd]
    OBVIOUS
  <2>2. /\ w \in BOOLEAN /\ head.External \in BOOLEAN /\ head.Layers \in BOOLEAN
        /\ r \in {"nil", "level", "bsst"}
    BY DEF IInv, TypeOK, LogTypeOK, HeadFile
  <2>3. flushed \in 0 .. MaxLen /\ head.DataEnd \in 0 .. MaxLen
    BY DEF IInv, TypeOK, LogTypeOK, HeadFile
  <2>4. /\ levelSynced' \in [Block -> Pos \cup {NoPos}]
        /\ committed' \in Nat /\ inflight' = 0
    BY DEF IInv, TypeOK, LogTypeOK
  <2> HIDE DEF OpenGroup, LogOpenRead, OpenedLog, OpenFails, w, r
  <2>5. jb' \in CarLogObject
    BY <2>1, <2>2, <2>3 DEF CarLogObject
  <2>. QED  BY <2>4, <2>5
<1> HIDE DEF OpenGroup, LogOpenRead, OpenedLog, OpenFails
<1>1. TypeOK'
  <2>1. LogTypeOK'
    BY <1>a, <1>b, <1>c, <1>d DEF IInv, TypeOK, LogTypeOK
  <2>. QED  BY <2>1, <1>a, <1>b, <1>c, <1>d, CallFacts DEF IInv, TypeOK, GroupState
<1>2. ObjectInv'
  BY <1>a, <1>b, <1>c, <1>d DEF IInv, TypeOK, LogTypeOK, ObjectInv, HeadInv
<1>3. LengthInv'
  BY <1>a, <1>b, <1>c, <1>d DEF IInv, TypeOK, LogTypeOK, CarLogObject,
      HeadInv, LengthInv
<1>4. ServedInv'
  BY <1>a, <1>b, <1>c, <1>d DEF IInv, TypeOK, LogTypeOK, HeadFile, HeadInv,
      SealedInv, RetiredInv, ServedInv
<1>5. HeadInv' /\ ControlInv' /\ RetiredInv' /\ SealedInv' /\ FinalInv' /\ AckedInv'
     /\ WrittenInv' /\ PutInv' /\ OfferedInv'
  BY <1>a, <1>b, <1>c, <1>d DEF IInv, TypeOK, LogTypeOK, HeadInv, ControlInv,
      RetiredInv, SealedInv, FinalInv, AckedInv, WrittenInv, PutInv,
      OfferedInv
<1>. QED  BY <1>1, <1>2, <1>3, <1>4, <1>5 DEF IInv

LEMMA OpenCutInv == IInv /\ OpenCut => IInv'
<1> SUFFICES ASSUME IInv, OpenCut PROVE IInv'
  OBVIOUS
<1> USE DEF OpenCut, LogOpenCut, CutAt
<1>1. TypeOK'
  <2>1. LogTypeOK'
    BY DEF IInv, TypeOK, LogTypeOK, HeadFile
  <2>. QED  BY <2>1, CallFacts DEF IInv, TypeOK, GroupState
<1>2. ObjectInv'
  BY DEF IInv, TypeOK, LogTypeOK, HeadFile, CarLogObject, ObjectInv, HeadInv,
      ControlInv
<1>3. HeadInv'
  BY DEF IInv, TypeOK, LogTypeOK, CarLogObject, HeadInv, ControlInv, LengthInv
<1>4. LengthInv'
  BY DEF IInv, TypeOK, LogTypeOK, ObjectInv, ControlInv, LengthInv
<1>5. RetiredInv'
  BY DEF IInv, TypeOK, LogTypeOK, HeadInv, ControlInv, RetiredInv
<1>6. ControlInv' /\ ServedInv' /\ SealedInv' /\ FinalInv' /\ AckedInv' /\
     WrittenInv' /\ PutInv' /\ OfferedInv'
  BY DEF IInv, TypeOK, LogTypeOK, ControlInv, ServedInv, SealedInv, FinalInv,
      AckedInv, WrittenInv, PutInv, OfferedInv
<1>. QED  BY <1>1, <1>2, <1>3, <1>4, <1>5, <1>6 DEF IInv

LEMMA OpenCutHeadInv == IInv /\ OpenCutHead => IInv'
<1> SUFFICES ASSUME IInv, OpenCutHead PROVE IInv'
  OBVIOUS
<1> USE DEF OpenCutHead, LogOpenCutHead, ToTruncate
<1>1. TypeOK'
  <2>1. head' = [head EXCEPT !.DataEnd = 0] /\ head \in HeadFile
    BY DEF IInv, TypeOK, LogTypeOK
  <2>2. head' \in HeadFile
    <3> HIDE DEF OpenCutHead, LogOpenCutHead
    <3>. QED  BY <2>1 DEF HeadFile
  <2>3. LogTypeOK'
    BY <2>2 DEF IInv, TypeOK, LogTypeOK
  <2>. QED  BY <2>3 DEF IInv, TypeOK
<1>2. HeadInv'
  BY DEF IInv, TypeOK, LogTypeOK, HeadFile, HeadInv, ControlInv
<1>3. ControlInv'
  BY DEF IInv, TypeOK, LogTypeOK, ObjectInv, ControlInv
<1>4. LengthInv'
  BY DEF IInv, TypeOK, LogTypeOK, ObjectInv, HeadInv, ControlInv, LengthInv
<1>5. RetiredInv'
  BY DEF IInv, TypeOK, LogTypeOK, HeadFile, RetiredInv
<1>6. ServedInv'
  <2>1. level' = level /\ log' = log /\ jb' = jb
    OBVIOUS
  <2>2. Serving' => \A b \in Block : level[b] # NoPos => level[b] < head.RetiredAt
    BY DEF IInv, TypeOK, LogTypeOK, HeadFile, HeadInv, ControlInv, ObjectInv, SealedInv
  <2>3. head.RetiredAt =< jb.dataLen /\ head.RetiredAt \in Nat /\ jb.dataLen \in Nat
    <3>1. head \in HeadFile /\ jb \in CarLogObject /\ pc = "o_cuthead"
      BY DEF IInv, TypeOK, LogTypeOK
    <3>2. head.RetiredAt =< flushed /\ flushed =< jb.dataLen /\ flushed \in Nat
      BY DEF IInv, TypeOK, LogTypeOK, ObjectInv, HeadInv, LengthInv
    <3> HIDE DEF OpenCutHead, LogOpenCutHead, ToTruncate
    <3>. QED  BY <3>1, <3>2 DEF HeadFile, CarLogObject
  <2>4. \A b \in Block : level[b] # NoPos => level[b] \in Nat
    BY DEF IInv, TypeOK, LogTypeOK
  <2> HIDE DEF OpenCutHead, LogOpenCutHead, ToTruncate
  <2>. QED  BY <2>1, <2>2, <2>3, <2>4 DEF IInv, RetiredInv, ServedInv
<1>7. SealedInv'
  BY DEF IInv, TypeOK, LogTypeOK, ControlInv, SealedInv
<1>8. ObjectInv' /\ FinalInv' /\ AckedInv' /\ WrittenInv' /\ PutInv' /\ OfferedInv'
  BY DEF IInv, TypeOK, LogTypeOK, ObjectInv, FinalInv, AckedInv, WrittenInv,
      PutInv, OfferedInv
<1>. QED  BY <1>1, <1>2, <1>3, <1>4, <1>5, <1>6, <1>7, <1>8 DEF IInv

LEMMA OpenDropGroupInv == IInv /\ OpenDropGroup => IInv'
<1> SUFFICES ASSUME IInv, OpenDropGroup PROVE IInv'
  OBVIOUS
<1> USE DEF OpenDropGroup, ToTruncate, logVars, diskVars
<1>1. TypeOK'
  <2>1. LogTypeOK'
    BY DEF IInv, TypeOK, LogTypeOK
  <2>. QED  BY <2>1, CallFacts DEF IInv, TypeOK, GroupState
<1>2. AckedInv'
  BY DEF IInv, TypeOK, LogTypeOK, HeadFile, AckedInv
<1>3. ObjectInv' /\ HeadInv' /\ ControlInv' /\ LengthInv' /\ RetiredInv' /\
     ServedInv' /\ SealedInv' /\ FinalInv' /\ WrittenInv' /\ PutInv' /\
     OfferedInv'
  BY DEF IInv, TypeOK, LogTypeOK, ObjectInv, HeadInv, ControlInv, LengthInv,
      RetiredInv, ServedInv, SealedInv, FinalInv, WrittenInv, PutInv,
      OfferedInv
<1>. QED  BY <1>1, <1>2, <1>3 DEF IInv

LEMMA OpenTruncIndexInv == IInv /\ OpenTruncIndex => IInv'
<1> SUFFICES ASSUME IInv, OpenTruncIndex PROVE IInv'
  OBVIOUS
<1> USE DEF OpenTruncIndex, LogTruncIndex, ToTruncate
<1>1. TypeOK'
  <2>1. LogTypeOK'
    BY DEF IInv, TypeOK, LogTypeOK
  <2>. QED  BY <2>1, CallFacts DEF IInv, TypeOK, GroupState
<1>2. SealedInv'
  BY DEF IInv, TypeOK, LogTypeOK, HeadFile, ObjectInv, ControlInv, SealedInv
<1>3. FinalInv'
  BY DEF IInv, TypeOK, LogTypeOK, HeadInv, ControlInv, FinalInv
<1>4. AckedInv'
  BY DEF IInv, TypeOK, LogTypeOK, HeadFile, AckedInv
<1>5. ObjectInv' /\ HeadInv' /\ ControlInv' /\ LengthInv' /\ RetiredInv' /\
     ServedInv' /\ WrittenInv' /\ PutInv' /\ OfferedInv'
  BY DEF IInv, TypeOK, LogTypeOK, ObjectInv, HeadInv, ControlInv, LengthInv,
      RetiredInv, ServedInv, WrittenInv, PutInv, OfferedInv
<1>. QED  BY <1>1, <1>2, <1>3, <1>4, <1>5 DEF IInv

LEMMA OpenTruncDataInv == IInv /\ OpenTruncData => IInv'
<1> SUFFICES ASSUME IInv, OpenTruncData PROVE IInv'
  OBVIOUS
<1> USE DEF OpenTruncData, LogTruncData, CutAt
<1>1. TypeOK'
  <2>1. LogTypeOK'
    BY DEF IInv, TypeOK, LogTypeOK, HeadFile, CarLogObject
  <2>. QED  BY <2>1, CallFacts DEF IInv, TypeOK, GroupState
<1>2. ObjectInv'
  BY DEF IInv, TypeOK, LogTypeOK, HeadFile, ObjectInv
<1>3. HeadInv'
  BY DEF IInv, TypeOK, LogTypeOK, HeadFile, HeadInv
<1>4. ControlInv'
  BY DEF IInv, TypeOK, LogTypeOK, HeadInv, ControlInv
<1>5. RetiredInv'
  BY DEF IInv, TypeOK, LogTypeOK, HeadFile, RetiredInv
<1>6. ServedInv'
  BY DEF IInv, TypeOK, LogTypeOK, HeadFile, SealedInv, RetiredInv, ServedInv
<1>7. LengthInv' /\ SealedInv' /\ FinalInv' /\ AckedInv' /\ WrittenInv' /\ PutInv'
     /\ OfferedInv'
  BY DEF IInv, TypeOK, LogTypeOK, LengthInv, SealedInv, FinalInv, AckedInv,
      WrittenInv, PutInv, OfferedInv
<1>. QED  BY <1>1, <1>2, <1>3, <1>4, <1>5, <1>6, <1>7 DEF IInv

LEMMA ViewFlushInv ==
  ASSUME NEW b \in Block, IInv, ViewFlush(b) PROVE IInv'
<1> USE DEF ViewFlush, LogViewFlush, FlushBuffered, groupVars
<1>1. TypeOK'
  <2>1. LogTypeOK'
    BY DEF IInv, TypeOK, LogTypeOK, CarLogObject
  <2>. QED  BY <2>1, CallFacts DEF IInv, TypeOK, GroupState
<1>2. ObjectInv'
  BY DEF IInv, TypeOK, LogTypeOK, CarLogObject, ObjectInv
<1>3. HeadInv'
  BY DEF IInv, TypeOK, LogTypeOK, HeadFile, CarLogObject, ObjectInv, HeadInv
<1>4. LengthInv'
  BY DEF IInv, TypeOK, LogTypeOK, LengthInv, SealedInv
<1>5. PutInv'
  BY DEF IInv, TypeOK, LogTypeOK, PutInv, Copies, Absent
<1>6. ControlInv' /\ RetiredInv' /\ ServedInv' /\ SealedInv' /\ FinalInv' /\
     AckedInv' /\ WrittenInv' /\ OfferedInv'
  BY DEF IInv, TypeOK, LogTypeOK, ControlInv, RetiredInv, ServedInv,
      SealedInv, FinalInv, AckedInv, WrittenInv, OfferedInv
<1>. QED  BY <1>1, <1>2, <1>3, <1>4, <1>5, <1>6 DEF IInv

LEMMA StopInv == IInv /\ Stop(FALSE) => IInv'
<1> SUFFICES ASSUME IInv, Stop(FALSE) PROVE IInv'
  OBVIOUS
<1> USE DEF Stop, LogCrash
<1>a. \A p \in Pos : /\ p < flushed => log'[p] = log[p]
                     /\ log'[p] \in Block => log'[p] = log[p]
  BY DEF IInv, TypeOK, LogTypeOK
<1>b. /\ jb' = Closed /\ pc' = "down" /\ torn' = FALSE /\ level' = level
      /\ flushed' = IF torn THEN flushed + 1 ELSE flushed
      /\ UNCHANGED <<head, levelSynced, bsst, canon, staged, db, topIdx, acked, attempted>>
      /\ stops' = stops + 1 /\ stops < MaxStops
      /\ putFrom' = 0 /\ putBlks' = << >> /\ addDone' = FALSE /\ thenRO' = FALSE
      /\ written' = {} /\ state' = "Writable" /\ committed' = 0 /\ inflight' = 0
      /\ unaccounted' = unaccounted + inflight
  OBVIOUS
<1>c. ~jb'.open /\ ~jb'.wIdx /\ ~jb'.layers /\ jb' \in CarLogObject
  <2> HIDE DEF Stop, LogCrash
  <2>. QED  BY <1>b DEF Closed, CarLogObject
<1>d. log' \in [Pos -> Block \cup {None, Torn, Top}]
  BY DEF IInv, TypeOK, LogTypeOK
<1>e. << >> \in Calls
  BY EmptyCall
<1> HIDE DEF Stop, LogCrash
<1>1. TypeOK'
  <2>1. flushed' \in 0 .. MaxLen
    BY <1>b DEF IInv, TypeOK, LogTypeOK, CarLogObject, ObjectInv
  <2>2. LogTypeOK'
    BY <1>b, <1>c, <1>d, <2>1 DEF IInv, TypeOK, LogTypeOK
  <2>3. stops' \in 0 .. MaxStops
    BY <1>b DEF IInv, TypeOK
  <2>4. putBlks' \in Calls /\ written' \in SUBSET Block /\ state' \in GroupState
    BY <1>b, <1>e DEF GroupState
  <2>5. /\ committed' \in Nat /\ inflight' \in Nat /\ putFrom' \in 0 .. MaxLen
        /\ pc' = "down" /\ addDone' \in BOOLEAN /\ thenRO' \in BOOLEAN
    <3>1. 0 \in 0 .. MaxLen
      OBVIOUS
    <3>. QED  BY <1>b, <3>1
  <2>6. UNCHANGED <<db, topIdx, acked, attempted>> /\ unaccounted' \in Nat
    BY <1>b DEF IInv, TypeOK
  <2>. QED  BY <2>2, <2>3, <2>4, <2>5, <2>6 DEF IInv, TypeOK
<1>2. HeadInv'
  BY <1>a, <1>b, <1>c, <1>d, <1>e DEF IInv, TypeOK, LogTypeOK, HeadFile,
      HeadInv
<1>3. RetiredInv'
  BY <1>a, <1>b, <1>c, <1>d, <1>e DEF IInv, TypeOK, LogTypeOK, HeadFile,
      HeadInv, RetiredInv
<1>4. ObjectInv' /\ ControlInv' /\ LengthInv' /\ ServedInv' /\ SealedInv' /\
     FinalInv' /\ AckedInv' /\ WrittenInv' /\ PutInv' /\ OfferedInv'
  BY <1>a, <1>b, <1>c, <1>d, <1>e DEF IInv, TypeOK, LogTypeOK, ObjectInv,
      ControlInv, LengthInv, ServedInv, SealedInv, FinalInv, AckedInv,
      WrittenInv, PutInv, OfferedInv
<1>. QED  BY <1>1, <1>2, <1>3, <1>4 DEF IInv

LEMMA StutterInv == IInv /\ UNCHANGED vars => IInv'
<1> SUFFICES ASSUME IInv, UNCHANGED vars PROVE IInv'
  OBVIOUS
<1> USE DEF vars, logVars, diskVars, groupVars
<1>1. TypeOK'
  <2>1. LogTypeOK'
    BY DEF IInv, TypeOK, LogTypeOK
  <2>. QED  BY <2>1 DEF IInv, TypeOK
<1>2. ObjectInv' /\ HeadInv' /\ ControlInv' /\ LengthInv'
  BY DEF IInv, ObjectInv, HeadInv, ControlInv, LengthInv
<1>3. RetiredInv' /\ ServedInv' /\ SealedInv' /\ FinalInv'
  BY DEF IInv, RetiredInv, ServedInv, SealedInv, FinalInv
<1>4. AckedInv' /\ WrittenInv' /\ PutInv' /\ OfferedInv'
  BY DEF IInv, AckedInv, WrittenInv, PutInv, OfferedInv, Copies, Absent
<1>. QED  BY <1>1, <1>2, <1>3, <1>4 DEF IInv

LEMMA NextInv ==
  ASSUME PowerLoss = FALSE, IInv, [Next]_vars
  PROVE  IInv'
<1>1. ASSUME Put PROVE IInv'
  BY <1>1, PutBeginInv, PutIndexInv, PutAddGroupInv, PutJoinInv DEF Put
<1>2. ASSUME Sync PROVE IInv'
  BY <1>2, SyncBeginInv, CommitFlushInv, CommitHeadInv, SetGroupHeadInv,
     PutMarkReadOnlyInv DEF Sync
<1>3. ASSUME Finalize PROVE IInv'
  BY <1>3, FinalizeBeginInv, FinalizeStartInv, CreateBsstInv, MarkFinalizedInv,
     TopBeginInv, TopWriteInv, TopFlushInv, TopEndInv, CreateCanonInv, UploadInv,
     MarkExternalInv, FinalizeFailsInv, FinalizeEndInv DEF Finalize
<1>4. ASSUME Open PROVE IInv'
  BY <1>4, OpenGroupInv, OpenCutInv, OpenCutHeadInv, OpenDropGroupInv,
     OpenTruncIndexInv, OpenTruncDataInv DEF Open
<1>5. ASSUME NEW p \in {FALSE, PowerLoss}, Stop(p) PROVE IInv'
  BY <1>5, StopInv
<1>. QED  BY <1>1, <1>2, <1>3, <1>4, <1>5, GenCommPInv, ViewFlushInv, StutterInv DEF Next

(***************************************************************************)
(* IInv is an invariant: no interleaving of Put, Sync, Finalize, View and  *)
(* process crashes leaves the head, the log, the indexes and the row in a  *)
(* combination the recovery code does not expect.                          *)
(***************************************************************************)
THEOREM Invariance ==
  ASSUME PowerLoss = FALSE
  PROVE  Spec => []IInv
<1>1. IInv /\ [Next]_vars => IInv'
  BY NextInv
<1>. QED  BY <1>1, InitInv, PTL DEF Spec

(***************************************************************************)
(* Every variable of the group keeps its type.                             *)
(***************************************************************************)
THEOREM TypeCorrect ==
  ASSUME PowerLoss = FALSE
  PROVE  Spec => []TypeOK
<1>1. IInv => TypeOK
  BY DEF IInv
<1>. QED  BY <1>1, Invariance, PTL

(***************************************************************************)
(* What was committed is found by View for ever (Commit, Open, truncate,   *)
(* Finalize and Readable's View): CommittedReadable.                       *)
(***************************************************************************)
THEOREM CommittedReadableAlways ==
  ASSUME PowerLoss = FALSE
  PROVE  Spec => []CommittedReadable
<1>1. IInv => CommittedReadable
  <2> SUFFICES ASSUME IInv, Serving, NEW b \in acked PROVE Readable(b)
    BY DEF CommittedReadable
  <2>1. b \in Block /\ level[b] # NoPos /\ level[b] < jb.dataLen /\ log[level[b]] = b
    BY DEF IInv, TypeOK, AckedInv, ServedInv
  <2>2. CASE head.External
    BY <2>1, <2>2 DEF IInv, ObjectInv, HeadInv, FinalInv, Readable
  <2>3. CASE ~head.External /\ head.Finalized
    BY <2>1, <2>3 DEF IInv, ObjectInv, FinalInv, Readable, ReadsBack
  <2>4. CASE ~head.External /\ ~head.Finalized
    BY <2>1, <2>4 DEF IInv, ObjectInv, Readable, ReadsBack
  <2>. QED  BY <2>2, <2>3, <2>4
<1>. QED  BY <1>1, Invariance, PTL

(***************************************************************************)
(* No index that View uses points at another block's data: IndexSound.     *)
(***************************************************************************)
THEOREM IndexSoundAlways ==
  ASSUME PowerLoss = FALSE
  PROVE  Spec => []IndexSound
<1>1. IInv => IndexSound
  <2> SUFFICES ASSUME IInv, Serving PROVE IndexSound
    BY DEF IndexSound
  <2>1. \A b \in Block : level[b] # NoPos => ReadsBack(level, b)
    BY DEF IInv, ServedInv, ReadsBack
  <2>2. jb.rIdx = "bsst" => bsst = level
    BY DEF IInv, ObjectInv, FinalInv
  <2>. QED  BY <2>1, <2>2 DEF IndexSound
<1>. QED  BY <1>1, Invariance, PTL

(***************************************************************************)
(* The checks Open makes never refuse a group a crash left: OpenSucceeds.  *)
(***************************************************************************)
THEOREM OpenSucceedsAlways ==
  ASSUME PowerLoss = FALSE
  PROVE  Spec => []OpenSucceeds
<1>1. IInv => OpenSucceeds
  <2> SUFFICES ASSUME IInv PROVE OpenSucceeds
    OBVIOUS
  <2>1. head.RetiredAt \in Nat /\ flushed \in Nat /\ db.head \in Nat
    BY DEF IInv, TypeOK, LogTypeOK, HeadFile
  <2>2. head.RetiredAt =< flushed /\ db.head =< head.RetiredAt
    BY DEF IInv, HeadInv
  <2>3. head.ReadOnly => LenAtOpen = head.RetiredAt
    BY DEF IInv, HeadInv, LengthInv, LenAtOpen
  <2>4. head.External => Staged
    BY DEF IInv, HeadInv
  <2>. QED  BY <2>1, <2>2, <2>3, <2>4 DEF OpenSucceeds, OpenFails, TruncRefused
<1>. QED  BY <1>1, Invariance, PTL

(***************************************************************************)
(* Committed blocks stay listed in the top-level index: CommittedListed.   *)
(***************************************************************************)
THEOREM CommittedListedAlways ==
  ASSUME PowerLoss = FALSE
  PROVE  Spec => []CommittedListed
<1>1. IInv => CommittedListed
  BY DEF IInv, AckedInv, CommittedListed
<1>. QED  BY <1>1, Invariance, PTL

(***************************************************************************)
(* With staging storage a group is past VRCARDone only when its car is     *)
(* there: VRCARHasLayers.  (Without, it is not so.)                        *)
(***************************************************************************)
THEOREM VRCARHasLayersAlways ==
  ASSUME PowerLoss = FALSE, Staged
  PROVE  Spec => []VRCARHasLayers
<1>1. IInv => VRCARHasLayers
  BY DEF IInv, ControlInv, HeadInv, VRCARHasLayers
<1>. QED  BY <1>1, Invariance, PTL

-------------------------------------------------------------------------------
(***************************************************************************)
(* What the size of a group rests on.  The process counts what the row     *)
(* counts; a writable log and its file are no longer than what is          *)
(* accounted, in flight or was in flight at a stop, so that what a Put     *)
(* appends comes after all that.                                           *)
(***************************************************************************)
FitInv ==
  /\ pc = "down" => inflight = 0
  /\ pc # "down" => committed = db.blocks
  /\ ~head.ReadOnly => flushed =< Accounted /\ (jb.open => jb.dataLen =< Accounted)
  /\ GroupFits

(***************************************************************************)
(* Part of the numbers from 1 to n is at most n numbers: those of the      *)
(* blocks that Put takes.                                                  *)
(***************************************************************************)
LEMMA PartOfInterval ==
  ASSUME NEW n \in Nat, NEW S \in SUBSET (1 .. n)
  PROVE  Cardinality(S) \in Nat /\ Cardinality(S) =< n
<1>1. IsFiniteSet(1 .. n) /\ Cardinality(1 .. n) = n
  BY FS_Interval
<1>. QED BY <1>1, FS_Subset, FS_CardinalityType

(* A prefix has the length it was cut to (the leading blocks Put takes).   *)
LEMMA PrefixLength ==
  ASSUME NEW s \in Seq(Block), NEW n \in 0 .. Len(s)
  PROVE  Len(SubSeq(s, 1, n)) = n
<1>1. \A i \in 1 .. n : s[i] \in Block
  OBVIOUS
<1>. QED BY <1>1, SubSeqProperties

(***************************************************************************)
(* Put takes no more blocks than the group has room for: each block it     *)
(* takes was checked against the room that was left.                       *)
(***************************************************************************)
LEMMA TakenFits ==
  ASSUME TypeOK, GroupFits, NEW b \in Calls
  PROVE  Len(Taken(b)) =< MaxGroupSize - committed - inflight
<1>. DEFINE S == {i \in DOMAIN b : \A k \in 1 .. i : Fits(k)}
            room == MaxGroupSize - committed - inflight
<1>1. room \in Nat
  BY DEF TypeOK, GroupFits
<1>2. S \subseteq 1 .. room
  <2>1. ASSUME NEW i \in S PROVE i \in 1 .. room
    <3>1. i \in Nat /\ i >= 1
      BY CallFacts
    <3>2. Fits(i)
      BY <3>1
    <3>. QED BY <3>1, <3>2, <1>1 DEF Fits
  <2>. QED BY <2>1
<1>3. Cardinality(S) \in Nat /\ Cardinality(S) =< room
  BY <1>1, <1>2, PartOfInterval
<1>4. b \in Seq(Block) /\ Len(b) \in Nat /\ S \subseteq 1 .. Len(b)
  BY CallFacts
<1>5. Cardinality(S) \in 0 .. Len(b)
  BY <1>4, PartOfInterval
<1>6. Len(SubSeq(b, 1, Cardinality(S))) = Cardinality(S)
  BY <1>4, <1>5, PrefixLength
<1>. QED BY <1>3, <1>6 DEF Taken

(***************************************************************************)
(* Put appends no more entries than it accounts blocks: those it appends   *)
(* are among those it takes, each at most once.                            *)
(***************************************************************************)
LEMMA SelectsFewer ==
  ASSUME NEW new \in Calls, NEW call \in Calls, Selects(new, call)
  PROVE  Len(new) =< Len(call)
<1>1. PICK at \in [DOMAIN new -> DOMAIN call] :
        \A j, k \in DOMAIN new : j < k => at[j] < at[k]
  BY DEF Selects
<1>2. /\ DOMAIN new = 1 .. Len(new) /\ Len(new) \in Nat
      /\ DOMAIN call = 1 .. Len(call) /\ Len(call) \in Nat
  BY CallFacts
<1>3. \A j, k \in 1 .. Len(new) : at[j] = at[k] => j = k
  <2>1. ASSUME NEW j \in 1 .. Len(new), NEW k \in 1 .. Len(new), at[j] = at[k] PROVE j = k
    <3>1. at[j] \in Int /\ at[k] \in Int
      BY <1>1, <1>2
    <3>. QED BY <1>1, <1>2, <2>1, <3>1
  <2>. QED BY <2>1
<1>4. at \in Injection(1 .. Len(new), 1 .. Len(call))
  BY <1>2, <1>3 DEF Injection, IsInjective
<1>5. \A n \in Nat : IsFiniteSet(1 .. n) /\ Cardinality(1 .. n) = n
  BY FS_Interval
<1>. QED BY <1>2, <1>4, <1>5, FS_Injection

(***************************************************************************)
(* A step that leaves the counters and the row alone keeps FitInv when it  *)
(* puts no block into the log and lets a writable log and its file grow no *)
(* longer than the log was.                                                *)
(***************************************************************************)
LEMMA FitFrame ==
  ASSUME IInv, IInv', FitInv, UNCHANGED <<committed, inflight, unaccounted, db.blocks>>,
         pc # "down", pc' # "down",
         \/ head'.ReadOnly
         \/ ~head.ReadOnly /\ flushed' =< jb.dataLen /\ jb'.dataLen =< jb.dataLen,
         \A p \in Pos : log'[p] \in Block => log[p] \in Block
  PROVE  FitInv'
<1>1. jb.open
  BY DEF IInv, ObjectInv
<1>2. /\ jb.dataLen \in Nat /\ jb'.dataLen \in Nat /\ flushed' \in Nat
      /\ Accounted \in Nat /\ Accounted' = Accounted
  BY DEF IInv, TypeOK, LogTypeOK, CarLogObject, Accounted
<1>. QED BY <1>1, <1>2 DEF FitInv, GroupFits

(***************************************************************************)
(* A step keeps FitInv.  A Put accounts what it appends, a Sync only moves *)
(* blocks from one count to another, and a stop remembers what the row     *)
(* does not count yet; everything else leaves the counts alone.            *)
(***************************************************************************)
LEMMA FitStep ==
  ASSUME IInv, IInv', FitInv, Next
  PROVE  FitInv'
<1>. USE DEF Goto, Pos
<1>1. /\ committed \in Nat /\ inflight \in Nat /\ unaccounted \in Nat /\ db.blocks \in Nat
      /\ jb.dataLen \in Nat /\ flushed \in Nat /\ head.RetiredAt \in Nat
      /\ db \in [state : GroupState, blocks : Nat, head : 0 .. MaxLen]
      /\ head \in HeadFile /\ jb \in CarLogObject /\ log \in [Pos -> Block \cup {None, Torn, Top}]
      /\ Accounted \in Nat
  <2>1. /\ db \in [state : GroupState, blocks : Nat, head : 0 .. MaxLen]
        /\ committed \in Nat /\ inflight \in Nat /\ unaccounted \in Nat
    BY DEF IInv, TypeOK
  <2>2. /\ head \in HeadFile /\ jb \in CarLogObject /\ flushed \in Nat
        /\ log \in [Pos -> Block \cup {None, Torn, Top}]
    BY DEF IInv, TypeOK, LogTypeOK
  <2>3. jb.dataLen \in Nat
    BY <2>2 DEF CarLogObject
  <2>4. head.RetiredAt \in Nat
    BY <2>2 DEF HeadFile
  <2>. QED BY <2>1, <2>2, <2>3, <2>4 DEF Accounted
<1>2. /\ jb.open <=> pc # "down"
      /\ jb.open => flushed =< jb.dataLen
      /\ torn => jb.open /\ flushed < jb.dataLen
      /\ jb.wIdx => jb.open /\ ~head.ReadOnly
      /\ head.RetiredAt =< flushed
      /\ UnfinishedTop => head.ReadOnly
      /\ pc \in FinalizePC => head.ReadOnly
      /\ pc \in {"o_cut", "o_cuthead"} => head.ReadOnly
  BY DEF IInv, ObjectInv, HeadInv, ControlInv, UnfinishedTop, Closed
<1>3. ASSUME NEW b \in Calls, PutBegin(b) PROVE FitInv'
  <2>1. PICK new \in Calls : Selects(new, Taken(b)) /\ LogPutAppend(new)
    BY <1>3 DEF PutBegin
  <2>2. /\ Taken(b) \in Calls /\ UNCHANGED <<committed, db, unaccounted, head>>
        /\ inflight' = inflight + Len(Taken(b)) /\ pc # "down" /\ pc' # "down"
    BY <1>3 DEF PutBegin, LogPutAppend
  <2>3. Len(new) \in Nat /\ Len(Taken(b)) \in Nat /\ Len(new) =< Len(Taken(b))
    BY <2>1, <2>2, CallFacts, SelectsFewer
  <2>4. Accounted' = Accounted + Len(Taken(b))
    BY <1>1, <2>2, <2>3 DEF Accounted
  <2>5. /\ jb'.dataLen = jb.dataLen + Len(new) /\ flushed' =< jb.dataLen + Len(new)
        /\ flushed' \in Nat
        /\ \A p \in Pos : log'[p] = log[p] \/ p < jb.dataLen + Len(new)
    BY <1>1, <1>2, <2>1, <2>3 DEF LogPutAppend, Spill, CarLogObject
  <2>6. jb.dataLen =< Accounted /\ ~head.ReadOnly
    BY <1>2, <2>1 DEF LogPutAppend, FitInv
  <2>7. jb.dataLen + Len(new) =< Accounted'
    BY <1>1, <2>3, <2>4, <2>6
  <2>8. \A p \in Pos : log'[p] \in Block => p < Accounted'
    <3>1. ASSUME NEW p \in Pos, log'[p] = log[p], log'[p] \in Block PROVE p < Accounted'
      BY <1>1, <2>3, <2>4, <3>1 DEF FitInv, GroupFits
    <3>2. ASSUME NEW p \in Pos, p < jb.dataLen + Len(new) PROVE p < Accounted'
      BY <1>1, <2>3, <2>4, <2>7, <3>2
    <3>. QED BY <2>5, <3>1, <3>2
  <2>9. committed' + inflight' =< MaxGroupSize
    BY <1>1, <2>2, <2>3, TakenFits DEF FitInv, IInv
  <2>10. flushed' =< Accounted' /\ jb'.dataLen =< Accounted'
    BY <1>1, <2>3, <2>4, <2>5, <2>7
  <2>. QED BY <2>2, <2>8, <2>9, <2>10 DEF FitInv, GroupFits
<1>4. CASE SetGroupHead
  <2>1. /\ pc # "down" /\ pc' # "down" /\ committed = db.blocks
        /\ committed' = committed + inflight /\ inflight' = 0 /\ db'.blocks = committed + inflight
        /\ UNCHANGED <<unaccounted, logVars>>
    BY <1>4 DEF SetGroupHead, observers, FitInv
  <2>2. Accounted' = Accounted
    BY <1>1, <2>1 DEF Accounted
  <2>. QED BY <1>1, <2>1, <2>2 DEF FitInv, GroupFits, logVars, diskVars
<1>5. CASE OpenGroup
  <2>1. /\ pc = "down" /\ pc' # "down" /\ committed' = db.blocks /\ inflight' = 0 /\ inflight = 0
        /\ UNCHANGED <<unaccounted, db, log, head, flushed>> /\ jb'.dataLen = flushed
    BY <1>5 DEF OpenGroup, LogOpenRead, OpenedLog, observers, FitInv
  <2>2. Accounted' = Accounted
    BY <1>1, <2>1 DEF Accounted
  <2>. QED BY <1>1, <2>1, <2>2 DEF FitInv, GroupFits
<1>6. ASSUME NEW p \in {FALSE, PowerLoss}, Stop(p) PROVE FitInv'
  <2>1. /\ pc # "down" /\ pc' = "down" /\ inflight' = 0 /\ committed' = 0
        /\ unaccounted' = unaccounted + inflight /\ UNCHANGED <<db, head>> /\ jb' = Closed
        /\ flushed' = IF torn THEN flushed + 1 ELSE flushed
        /\ \A q \in Pos : log'[q] \in Block => log'[q] = log[q]
    BY <1>6 DEF Stop, LogCrash
  <2>2. Accounted' = Accounted
    BY <1>1, <2>1 DEF Accounted
  <2>3. ~head.ReadOnly => flushed' =< Accounted
    BY <1>1, <1>2, <2>1 DEF FitInv
  <2>4. MaxGroupSize >= 0 /\ ~jb'.open
    BY <2>1 DEF Closed
  <2>. QED BY <1>1, <2>1, <2>2, <2>3, <2>4 DEF FitInv, GroupFits
<1>7. ASSUME UNCHANGED <<committed, inflight, unaccounted, db.blocks>>, pc # "down", pc' # "down",
             \/ head'.ReadOnly
             \/ ~head.ReadOnly /\ flushed' =< jb.dataLen /\ jb'.dataLen =< jb.dataLen,
             \A p \in Pos : log'[p] \in Block => log[p] \in Block
      PROVE  FitInv'
  BY <1>7, FitFrame
<1>8. CASE PutIndex \/ PutAddGroup \/ PutJoin
  BY <1>1, <1>2, <1>7, <1>8
     DEF PutIndex, LogPutIndex, PutAddGroup, PutJoin, PutPC, observers, logVars, diskVars
<1>9. CASE SyncBegin \/ CommitFlush \/ CommitHead \/ PutMarkReadOnly
  <2>1. CASE SyncBegin
    BY <1>1, <1>2, <1>7, <2>1 DEF SyncBegin, observers, logVars, diskVars
  <2>2. CASE CommitFlush
    BY <1>1, <1>2, <1>7, <2>2 DEF CommitFlush, LogCommitFlush, FlushBuffered, observers
  <2>3. CASE CommitHead
    BY <1>1, <1>2, <1>7, <2>3 DEF CommitHead, LogCommitHead, HeadFile
  <2>4. CASE PutMarkReadOnly
    BY <1>1, <1>2, <1>7, <2>4 DEF PutMarkReadOnly, LogMarkReadOnly, HeadFile, observers
  <2>. QED BY <1>9, <2>1, <2>2, <2>3, <2>4
<1>10. CASE FinalizeBegin \/ FinalizeStart \/ FinalizeFails \/ FinalizeEnd
  BY <1>1, <1>2, <1>7, <1>10
     DEF FinalizeBegin, FinalizeStart, FinalizeFails, FinalizeEnd, AdvanceState, FinalizePC,
         HeadFile, observers, logVars, diskVars
<1>11. CASE CreateBsst \/ MarkFinalized \/ CreateCanon \/ Upload \/ MarkExternal
  BY <1>1, <1>2, <1>7, <1>11
     DEF CreateBsst, MarkFinalized, CreateCanon, Upload, MarkExternal, FinalizeStep, LogCreateBsst,
         LogMarkFinalized, LogCreateCanon, LogUpload, LogMarkExternal, FinalizePC, HeadFile,
         observers
<1>12. CASE TopBegin \/ TopWrite \/ TopFlush \/ TopEnd
  BY <1>1, <1>2, <1>7, <1>12
     DEF TopBegin, TopWrite, TopFlush, TopEnd, FinalizeStep, LogTopBegin, LogTopWrite,
         FlushBuffered, LogTopEnd, FinalizePC, HeadFile, observers
<1>13. CASE GenCommP
  BY <1>1, <1>2, <1>7, <1>13 DEF GenCommP, AdvanceState, observers, logVars, diskVars
<1>14. CASE OpenCut \/ OpenCutHead
  BY <1>1, <1>2, <1>7, <1>14
     DEF OpenCut, OpenCutHead, LogOpenCut, LogOpenCutHead, CutAt, HeadFile, observers
<1>15. CASE OpenDropGroup \/ OpenTruncIndex \/ OpenTruncData
  <2>1. CASE OpenDropGroup
    BY <1>1, <1>2, <1>7, <2>1 DEF OpenDropGroup, observers, logVars, diskVars
  <2>2. CASE OpenTruncIndex
    BY <1>1, <1>2, <1>7, <2>2 DEF OpenTruncIndex, LogTruncIndex, observers
  <2>3. CASE OpenTruncData
    <3>1. flushed' = head.RetiredAt /\ jb'.dataLen = head.RetiredAt /\ pc # "down" /\ pc' # "down"
      BY <1>1, <2>3 DEF OpenTruncData, LogTruncData, CutAt, CarLogObject
    <3>2. /\ \A p \in Pos : log'[p] \in Block => log[p] \in Block
          /\ UNCHANGED <<committed, inflight, unaccounted, db, head>>
      BY <1>1, <2>3 DEF OpenTruncData, LogTruncData, CutAt, observers
    <3>3. flushed' =< jb.dataLen /\ jb'.dataLen =< jb.dataLen
      BY <1>1, <1>2, <3>1
    <3>. QED BY <1>7, <3>1, <3>2, <3>3
  <2>. QED BY <1>15, <2>1, <2>2, <2>3
<1>16. ASSUME NEW b \in Block, ViewFlush(b) PROVE FitInv'
  BY <1>1, <1>2, <1>7, <1>16 DEF ViewFlush, LogViewFlush, FlushBuffered, groupVars
<1>. QED
  BY <1>3, <1>4, <1>5, <1>6, <1>8, <1>9, <1>10, <1>11, <1>12, <1>13, <1>14, <1>15, <1>16
     DEF Next, Put, Sync, Finalize, Open

(***************************************************************************)
(* The blocks accounted to a group never exceed maxGroupSize, and its log  *)
(* holds no others than these and those that were in flight at a stop: not *)
(* after a crash between the head and the row of one Commit, and not when  *)
(* Open leaves in the file what was never indexed.                         *)
(***************************************************************************)
THEOREM GroupFitsAlways ==
  ASSUME PowerLoss = FALSE
  PROVE  Spec => []GroupFits
<1>1. Init => FitInv
  BY DEF Init, Create, Closed, FitInv, GroupFits, Accounted
<1>2. IInv /\ IInv' /\ FitInv /\ [Next]_vars => FitInv'
  <2>1. ASSUME FitInv, UNCHANGED vars PROVE FitInv'
    BY <2>1 DEF FitInv, GroupFits, Accounted, vars, logVars, diskVars, groupVars
  <2>. QED BY <2>1, FitStep
<1>3. FitInv => GroupFits
  BY DEF FitInv
<1>. QED BY <1>1, <1>2, <1>3, Invariance, PTL DEF Spec

-------------------------------------------------------------------------------
(***************************************************************************)
(* The refinement.  Under the invariant a durable block is one whose       *)
(* LevelDB entry is below the head, until the staged car takes over.       *)
(***************************************************************************)
Retired == {b \in Block : level[b] # NoPos /\ level[b] < head.RetiredAt}

LEMMA DurableIs == IInv => Durable = IF head.External THEN canon ELSE Retired
<1> SUFFICES ASSUME IInv PROVE Durable = IF head.External THEN canon ELSE Retired
  OBVIOUS
<1>1. CASE head.External
  BY <1>1 DEF IInv, HeadInv, Durable
<1>2. CASE ~head.External
  <2>1. ~head.External /\ head.Finalized => bsst = level
    BY DEF IInv, FinalInv
  <2>2. \A b \in Retired : log[level[b]] = b
    BY DEF IInv, RetiredInv, Retired
  <2>. QED  BY <1>2, <2>1, <2>2 DEF Durable, Retired
<1>. QED  BY <1>1, <1>2

LEMMA DurableIsNext == IInv' => Durable' = IF head'.External THEN canon' ELSE Retired'
<1>1. (IInv => Durable = IF head.External THEN canon ELSE Retired)'
  BY DurableIs, PTL
<1>. QED  BY <1>1

LEMMA DurableOffered == IInv => Durable \subseteq attempted
<1> SUFFICES ASSUME IInv PROVE Durable \subseteq attempted
  OBVIOUS
<1>1. Retired \subseteq Indexed
  BY DEF Retired
<1>2. Indexed \subseteq attempted /\ canon \subseteq attempted
  BY DEF IInv, OfferedInv
<1>. QED  BY <1>1, <1>2, DurableIs

\* Most steps leave alone everything that decides what is durable.
LEMMA SameDurable ==
  ASSUME IInv, IInv', level' = level, head'.RetiredAt = head.RetiredAt,
         head'.External = head.External, canon' = canon \/ ~head.External
  PROVE  Durable' = Durable
<1>1. Retired' = Retired
  BY DEF Retired
<1>2. Durable = IF head.External THEN canon ELSE Retired
  BY DurableIs
<1>3. Durable' = IF head'.External THEN canon' ELSE Retired'
  BY DurableIsNext
<1>. QED  BY <1>1, <1>2, <1>3

\* A step that only adds to the retired part takes nothing back.
LEMMA MoreDurable ==
  ASSUME IInv, IInv', Retired \subseteq Retired', head'.External = head.External,
         canon' = canon
  PROVE  Durable \subseteq Durable'
<1>1. Durable = IF head.External THEN canon ELSE Retired
  BY DurableIs
<1>2. Durable' = IF head'.External THEN canon' ELSE Retired'
  BY DurableIsNext
<1>. QED  BY <1>1, <1>2

LEMMA StepKeepsDurable ==
  ASSUME PowerLoss = FALSE, IInv, IInv', Next
  PROVE  \/ attempted' = attempted /\ Durable \subseteq Durable'
         \/ attempted \subseteq attempted' /\ Durable' = Durable
<1> DEFINE G == \/ attempted' = attempted /\ Durable \subseteq Durable'
                \/ attempted \subseteq attempted' /\ Durable' = Durable
<1> SUFFICES G
  OBVIOUS
<1>t. head \in HeadFile /\ jb \in CarLogObject
  BY DEF IInv, TypeOK, LogTypeOK
<1>1. ASSUME NEW b \in Calls, PutBegin(b) PROVE G
  <2>1. level' = level /\ head' = head /\ canon' = canon /\ attempted \subseteq attempted'
    BY <1>1 DEF PutBegin, LogPutAppend
  <2>. QED  BY <2>1, SameDurable
<1>2. ASSUME PutIndex PROVE G
  <2>1. head' = head /\ canon' = canon /\ attempted' = attempted
    BY <1>2 DEF PutIndex, LogPutIndex
  <2>2. PICK offsets \in PutOffsets(putFrom) :
          level' = [b \in Block |-> IF offsets[b] = NoPos THEN level[b] ELSE offsets[b]]
    BY <1>2 DEF PutIndex, LogPutIndex
  <2>3. \A b \in Block : level[b] # NoPos => Copies(putFrom, b) = {}
    BY <1>2 DEF IInv, PutInv, Absent, PutIndex
  <2>4. \A b \in Block : level[b] # NoPos => level'[b] = level[b]
    BY <2>2, <2>3 DEF PutOffsets
  <2>5. Retired \subseteq Retired'
    BY <2>1, <2>4 DEF Retired
  <2>. QED  BY <2>1, <2>5, MoreDurable
<1>3. ASSUME PutAddGroup \/ PutJoin \/ SyncBegin \/ SetGroupHead \/ FinalizeStart
             \/ FinalizeFails \/ FinalizeEnd \/ GenCommP \/ OpenDropGroup
      PROVE  G
  <2>1. level' = level /\ head' = head /\ canon' = canon /\ attempted' = attempted
    BY <1>3 DEF PutAddGroup, PutJoin, SyncBegin, SetGroupHead, FinalizeStart,
       FinalizeFails, FinalizeEnd, GenCommP, OpenDropGroup, logVars, diskVars
  <2>. QED  BY <2>1, SameDurable
<1>4. ASSUME CommitFlush \/ CreateBsst \/ TopWrite \/ TopFlush \/ Upload \/ OpenCut
             \/ OpenTruncData \/ OpenGroup
      PROVE  G
  <2>1. level' = level /\ head' = head /\ canon' = canon /\ attempted' = attempted
    BY <1>4 DEF CommitFlush, LogCommitFlush, FlushBuffered, CreateBsst, LogCreateBsst,
       TopWrite, LogTopWrite, TopFlush, Upload, LogUpload, OpenCut, LogOpenCut,
       OpenTruncData, LogTruncData, OpenGroup, LogOpenRead, FinalizeStep
  <2>. QED  BY <2>1, SameDurable
<1>5. ASSUME PutMarkReadOnly \/ FinalizeBegin \/ MarkFinalized \/ TopBegin \/ OpenCutHead
      PROVE  G
  <2>1. /\ level' = level /\ canon' = canon /\ attempted' = attempted
        /\ head'.RetiredAt = head.RetiredAt /\ head'.External = head.External
    BY <1>5, <1>t DEF PutMarkReadOnly, LogMarkReadOnly, FinalizeBegin, MarkFinalized,
       LogMarkFinalized, TopBegin, LogTopBegin, OpenCutHead, LogOpenCutHead,
       FinalizeStep, HeadFile
  <2>. QED  BY <2>1, SameDurable
<1>6. ASSUME CommitHead \/ TopEnd PROVE G
  <2>1. /\ level' = level /\ canon' = canon /\ attempted' = attempted
        /\ head'.RetiredAt = jb.dataLen /\ head'.External = head.External
    BY <1>6, <1>t DEF CommitHead, LogCommitHead, TopEnd, LogTopEnd, FinalizeStep, HeadFile
  <2>2. jb.open
    BY <1>6 DEF IInv, ObjectInv, CommitHead, TopEnd, FinalizeStep
  <2>3. head.RetiredAt =< flushed /\ flushed =< jb.dataLen
    BY <2>2 DEF IInv, ObjectInv, HeadInv
  <2>4. level \in [Block -> Pos \cup {NoPos}] /\ flushed \in Nat
    BY DEF IInv, TypeOK, LogTypeOK
  <2>5. Retired \subseteq Retired'
    BY <1>t, <2>1, <2>3, <2>4 DEF Retired, HeadFile, CarLogObject
  <2>. QED  BY <2>1, <2>5, MoreDurable
<1>7. ASSUME CreateCanon PROVE G
  <2>1. level' = level /\ head' = head /\ attempted' = attempted /\ ~head.External
    BY <1>7 DEF CreateCanon, LogCreateCanon, FinalizeStep, IInv, ControlInv, HeadInv
  <2>. QED  BY <2>1, SameDurable
<1>8. ASSUME MarkExternal PROVE G
  <2>1. /\ level' = level /\ attempted' = attempted /\ canon' = canon
        /\ head'.External /\ ~head.External /\ Indexed \subseteq canon
    BY <1>8, <1>t DEF MarkExternal, LogMarkExternal, FinalizeStep, IInv, ControlInv,
       HeadInv, FinalInv, HeadFile
  <2>2. Retired \subseteq Indexed
    BY DEF Retired
  <2>3. Durable = Retired
    BY <2>1, DurableIs
  <2>4. Durable' = IF head'.External THEN canon' ELSE Retired'
    BY DurableIsNext
  <2>. QED  BY <2>1, <2>2, <2>3, <2>4
<1>9. ASSUME OpenTruncIndex PROVE G
  <2>1. /\ head' = head /\ canon' = canon /\ attempted' = attempted
        /\ level' = [b \in Block |-> IF b \in ToTruncate THEN NoPos ELSE level[b]]
    BY <1>9 DEF OpenTruncIndex, LogTruncIndex
  <2>2. level \in [Block -> Pos \cup {NoPos}]
    BY DEF IInv, TypeOK, LogTypeOK
  <2>3. \A b \in Retired : b \notin ToTruncate
    BY <1>t, <2>2 DEF Retired, ToTruncate, HeadFile
  <2>4. Retired \subseteq Retired'
    BY <2>1, <2>3 DEF Retired
  <2>. QED  BY <2>1, <2>4, MoreDurable
<1>10. ASSUME NEW b \in Block, ViewFlush(b) PROVE G
  <2>1. level' = level /\ head' = head /\ canon' = canon /\ attempted' = attempted
    BY <1>10 DEF ViewFlush, LogViewFlush, FlushBuffered, groupVars
  <2>. QED  BY <2>1, SameDurable
<1>11. ASSUME Stop(FALSE) PROVE G
  <2>1. level' = level /\ head' = head /\ canon' = canon /\ attempted' = attempted
    BY <1>11 DEF Stop, LogCrash
  <2>. QED  BY <2>1, SameDurable
<1> HIDE DEF G
<1>. QED  BY <1>1, <1>2, <1>3, <1>4, <1>5, <1>6, <1>7, <1>8, <1>9, <1>10, <1>11
          DEF Next, Put, Sync, Finalize, Open

(***************************************************************************)
(* The group implements BlockStore (ImplementsBlockStore): a durable block *)
(* is never lost to a crash, a truncation or a change of index, and only   *)
(* blocks that were handed to Put become durable.                          *)
(***************************************************************************)
THEOREM Refinement ==
  ASSUME PowerLoss = FALSE
  PROVE  Spec => ImplementsBlockStore
<1>1. Init => Store!StoreInit
  <2> SUFFICES ASSUME Init PROVE Store!StoreInit
    OBVIOUS
  <2>1. Durable = {} /\ attempted = {}
    BY DEF Init, Create, Durable, NoIndex
  <2>. QED  BY <2>1 DEF Store!StoreInit
<1>2. IInv /\ IInv' /\ [Next]_vars => [Store!StoreNext]_(Store!storeVars)
  <2> SUFFICES ASSUME IInv, IInv', [Next]_vars PROVE [Store!StoreNext]_(Store!storeVars)
    OBVIOUS
  <2>1. CASE UNCHANGED vars
    <3>1. UNCHANGED <<attempted, Durable>>
      BY <2>1 DEF vars, logVars, diskVars, groupVars, Durable
    <3>. QED  BY <3>1 DEF Store!storeVars
  <2>2. CASE Next
    <3>1. Durable' \subseteq attempted' /\ attempted' \subseteq Block
      <4>1. (IInv => Durable \subseteq attempted)'
        BY DurableOffered, PTL
      <4>. QED  BY <4>1 DEF IInv, TypeOK
    <3>2. CASE attempted' = attempted /\ Durable \subseteq Durable'
      BY <3>1, <3>2 DEF Store!StoreNext, Store!Persist
    <3>3. CASE attempted \subseteq attempted' /\ Durable' = Durable
      BY <3>1, <3>3 DEF Store!StoreNext, Store!Offer
    <3>. QED  BY <2>2, <3>2, <3>3, StepKeepsDurable
  <2>. QED  BY <2>1, <2>2
<1>. QED  BY <1>1, <1>2, Invariance, PTL DEF Spec, ImplementsBlockStore, Store!StoreSpec

-------------------------------------------------------------------------------
(***************************************************************************)
(* The life of the row.  The state in memory is the row's, but while a Put *)
(* that filled the group has yet to sync it; a group that is being         *)
(* finalized is full, and one that is down has no open log.                *)
(***************************************************************************)
Filling == thenRO /\ state = "Full" /\ db.state = "Writable"
           /\ pc \in PutPC \cup {"c_flush", "c_head", "c_db"}

LifeInv ==
  /\ "state" \in DOMAIN db
  /\ pc = "down" => ~jb.open
  /\ pc # "down" => state = db.state \/ Filling
  /\ pc \in FinalizePC => state = "Full"

(* The row moves on only as its life does, or not at all (sync,            *)
(* advanceState).                                                          *)
LEMMA LifeStep ==
  ASSUME LifeInv, [Next]_vars
  PROVE  LifeInv' /\ (Life!LifeNext \/ UNCHANGED db.state)
<1>. DEFINE G == LifeInv' /\ (Life!LifeNext \/ UNCHANGED db.state)
<1>. USE DEF LifeInv, Filling, PutPC, FinalizePC, Goto
<1>1. ASSUME NEW b \in Calls, PutBegin(b) PROVE G
  BY <1>1 DEF PutBegin, LogPutAppend
<1>2. CASE SetGroupHead
  BY <1>2 DEF SetGroupHead, logVars, diskVars, opVars, Life!LifeNext, Life!Fill, Life!Moves
<1>3. CASE FinalizeEnd
  BY <1>3 DEF FinalizeEnd, AdvanceState, logVars, diskVars, opVars, Life!LifeNext, Life!Finalize, Life!Moves
<1>4. CASE GenCommP
  BY <1>4 DEF GenCommP, AdvanceState, logVars, diskVars, opVars, Life!LifeNext, Life!GenCommP, Life!Moves
<1>5. CASE OpenGroup
  BY <1>5 DEF OpenGroup, LogOpenRead, opVars
<1>6. ASSUME NEW p \in {FALSE, PowerLoss}, Stop(p) PROVE G
  BY <1>6 DEF Stop, LogCrash, Closed
<1>7. CASE PutIndex \/ PutAddGroup \/ PutJoin
  BY <1>7 DEF PutIndex, LogPutIndex, PutAddGroup, PutJoin, logVars, diskVars, opVars
<1>8. CASE SyncBegin \/ CommitFlush \/ CommitHead \/ PutMarkReadOnly
  BY <1>8 DEF SyncBegin, CommitFlush, CommitHead, PutMarkReadOnly, LogCommitFlush, LogCommitHead,
              LogMarkReadOnly, logVars, diskVars, opVars
<1>9. CASE FinalizeBegin \/ FinalizeStart \/ FinalizeFails
  BY <1>9 DEF FinalizeBegin, FinalizeStart, FinalizeFails, logVars, diskVars, opVars
<1>10. CASE CreateBsst \/ MarkFinalized
  BY <1>10 DEF CreateBsst, MarkFinalized, FinalizeStep, opVars
<1>11. CASE TopBegin \/ TopWrite \/ TopFlush \/ TopEnd
  BY <1>11 DEF TopBegin, TopWrite, TopFlush, TopEnd, FinalizeStep, opVars
<1>12. CASE CreateCanon \/ Upload \/ MarkExternal
  BY <1>12 DEF CreateCanon, Upload, MarkExternal, FinalizeStep, opVars
<1>13. CASE OpenCut \/ OpenCutHead \/ OpenDropGroup \/ OpenTruncIndex \/ OpenTruncData
  BY <1>13 DEF OpenCut, OpenCutHead, OpenDropGroup, OpenTruncIndex, OpenTruncData, opVars
<1>14. ASSUME NEW b \in Block, ViewFlush(b) PROVE G
  BY <1>14 DEF ViewFlush, groupVars, FlushBuffered
<1>15. CASE UNCHANGED vars
  BY <1>15 DEF vars, logVars, diskVars, groupVars
<1>. HIDE DEF LifeInv, Filling, PutPC, FinalizePC, Goto
<1>. QED
  BY <1>1, <1>2, <1>3, <1>4, <1>5, <1>6, <1>7, <1>8, <1>9, <1>10, <1>11, <1>12, <1>13, <1>14,
     <1>15 DEF Next, Put, Sync, Finalize, Open

(***************************************************************************)
(* The group's row goes through its life and never back (FollowsGroupLife),*)
(* although GenCommP sets the state without dataLk and a Sync writes the   *)
(* state it finds; with power losses, too.                                 *)
(***************************************************************************)
THEOREM LifeRefinement == Spec => FollowsGroupLife
<1>1. Init => LifeInv /\ Life!LifeInit
  BY DEF Init, LifeInv, Life!LifeInit, Filling, FinalizePC
<1>2. LifeInv /\ [Next]_vars => LifeInv' /\ [Life!LifeNext]_(db.state)
  BY LifeStep
<1>. QED BY <1>1, <1>2, PTL DEF Spec, FollowsGroupLife, Life!LifeSpec
===============================================================================
