---------------------------- MODULE ManagerProofs -----------------------------
(***************************************************************************)
(* Proofs about Manager, for any groups, batches, workers, limit of local  *)
(* groups and number of crashes.                                           *)
(***************************************************************************)
EXTENDS Manager, FiniteSetTheorems, TLAPS

(* Who holds a mutex is where a batch is: between the steps at which lk    *)
(* and writeLk are taken and released (withWritableGroup, Flush).          *)
LkPC == {"writeLk", "select", "space", "candidate", "row", "files", "put", "done", "f_loop"}
WriteLkPC == {"select", "space", "candidate", "wait", "open", "offload", "relock",
              "relock_err", "row", "files", "put", "done"}

LockInv ==
  \A w \in Writer : /\ lk = w <=> wpc[w] \in LkPC
                    /\ writeLk = w <=> wpc[w] \in WriteLkPC

(* The open groups have their log and are in the state of their row; the   *)
(* writable ones are listed as such, and only they, until the batch that   *)
(* filled one is done with it.                                             *)
GroupInv ==
  /\ openGroups \subseteq files /\ offloading \subseteq openGroups
  /\ \A g \in files : row[g] # "none"
  /\ \A g \in openGroups : /\ gstate[g] = row[g]
                           /\ row[g] = "Writable" => g \in writableGroups
  /\ \A g \in writableGroups :
       row[g] = "Writable" \/ \E w \in Writer : wpc[w] = "done" /\ wgrp[w] = g
  /\ \A g, h \in GroupKey : row[g] = "Writable" /\ row[h] = "Writable" => g = h

(* What a batch knows of its group; none is writable while one is made.    *)
Creating == {"space", "candidate", "wait", "open", "offload", "relock", "row"}
Offloads == {"open", "offload"}

BatchInv ==
  \A w \in Writer :
    /\ wpc[w] \in Creating => \A g \in GroupKey : row[g] # "Writable"
    /\ wpc[w] \in Offloads => wgrp[w] \in GroupKey /\ row[wgrp[w]] # "none"
    /\ wpc[w] = "files" => wgrp[w] \in GroupKey /\ row[wgrp[w]] = "Writable"
    /\ wpc[w] = "put" => wgrp[w] \in openGroups /\ row[wgrp[w]] = "Writable"
    /\ wpc[w] \in {"done", "f_sync"} => wgrp[w] \in openGroups

(* There is room for a group from the check, or from the end of an         *)
(* offload, until its row is made.                                         *)
SpaceInv ==
  /\ LocalBounded
  /\ \A w \in Writer :
       wpc[w] \in {"relock", "row"} \/ (wpc[w] \in Offloads /\ wgrp[w] \in offloads)
         => Cardinality(Local) < MaxLocal

(* Blocks that were not synced are in a writable group their batch is to   *)
(* flush; those of the groups it has been through are synced.              *)
SyncInv ==
  /\ \A w \in Writer, g \in GroupKey :
       w \in unsynced[g] => /\ g \in openGroups /\ row[g] = "Writable" /\ g \in toFlush[w]
                            /\ g \in synced[w] => wpc[w] = "f_sync" /\ wgrp[w] = g
  /\ \A w \in Writer : /\ wpc[w] \notin {"f_loop", "f_sync", "f_relock"} => synced[w] = {}
                       /\ wpc[w] = "f_done" => toFlush[w] = {}

(* The group of a task is open; a Finalize task is for a group that was    *)
(* filled, and past its first half has taken it to its car.                *)
Tasked(t) == t[2] \in openGroups /\ (t[1] = "Finalize" => row[t[2]] # "Writable")

(* A group on its way to CommP is closed and to be resumed, or open and    *)
(* somebody is at it, or it was given up.                                  *)
Attended(g) ==
  /\ row[g] = "Full" => \/ WorkedOn(g, "Finalize")
                       \/ \E w \in Writer : wpc[w] = "done" /\ wgrp[w] = g
  /\ row[g] = "VRCARDone" => WorkedOn(g, "GenCommP") \/ WorkedOn(g, "Finalize")

PendingInv == \A t \in pending : Tasked(t)

WorkerInv ==
  \A k \in Worker :
    kpc[k] # "idle" =>
      /\ ktask[k] \in Task /\ Tasked(ktask[k])
      /\ kpc[k] = "commp" => /\ ktask[k][1] = "Finalize"
                             /\ row[ktask[k][2]] # "Full" \/ ktask[k][2] \in dropped

Kept(g) ==
  \/ g \in dropped
  \/ g \in openGroups /\ Attended(g)
  \/ g \notin openGroups /\ (row[g] \in {"Full", "VRCARDone"} => g \in toResume)

TaskInv == PendingInv /\ WorkerInv /\ \A g \in GroupKey : Kept(g)

IInv == TypeOK /\ LockInv /\ GroupInv /\ BatchInv /\ SpaceInv /\ SyncInv /\ TaskInv

USE ManagerAssumption

-------------------------------------------------------------------------------
(***************************************************************************)
(* The steps that only move a batch: they take or release a mutex, decide  *)
(* or wait, and leave the groups, the tables, the tasks and the workers as *)
(* they are.  None of them begins or ends at the deferred part of a Put.   *)
(***************************************************************************)
Moving(w) ==
  \/ WriteLock(w) \/ FlushLock(w) \/ WriteLock2(w) \/ SelectOpen(w) \/ SelectFails(w)
  \/ SelectNone(w) \/ Space(w) \/ Candidate(w) \/ WaitedMinute(w) \/ Relock(w)
  \/ RelockErr(w) \/ OpenCandidateFails(w) \/ FlushNext(w) \/ FlushRelock(w) \/ FlushEnd(w)
  \/ FlushReturn(w)

(***************************************************************************)
(* What a step that only moves a batch leaves alone: everything but the    *)
(* two mutexes and the batch's own place (withWritableGroup, Flush).       *)
(***************************************************************************)
LEMMA MovingFrame ==
  ASSUME TypeOK, NEW w \in Writer, Moving(w)
  PROVE  /\ UNCHANGED <<dbVars, groupVars, taskVars, workerVars, crashes>>
         /\ \A v \in Writer \ {w} : /\ wpc'[v] = wpc[v] /\ wgrp'[v] = wgrp[v]
                                    /\ toFlush'[v] = toFlush[v] /\ synced'[v] = synced[v]
         /\ wpc[w] # "done" /\ wpc'[w] # "done"
  BY DEF TypeOK, Moving, WriteLock, FlushLock, WriteLock2, SelectOpen, SelectFails, SelectNone,
         Space, Candidate, WaitedMinute, Relock, RelockErr, OpenCandidateFails, FlushNext,
         FlushRelock, FlushEnd, FlushReturn, UnlockBoth, WGoto, dbVars, lockVars, groupVars, taskVars, workerVars

(***************************************************************************)
(* Whoever works on a group still does when the workers do not move and no *)
(* task is taken from the queue (groupWorker).                             *)
(***************************************************************************)
LEMMA WorkedOnStays ==
  ASSUME NEW g, NEW tt, WorkedOn(g, tt), UNCHANGED workerVars, pending \subseteq pending'
  PROVE  WorkedOn(g, tt)'
  BY DEF WorkedOn, workerVars

(***************************************************************************)
(* A step keeps the types.                                                 *)
(***************************************************************************)
LEMMA TypeStep ==
  ASSUME TypeOK, GroupInv, BatchInv, TaskInv, Next
  PROVE  TypeOK'
<1>. USE DEF TypeOK, dbVars, lockVars, groupVars, taskVars, writerVars, workerVars
<1>1. ASSUME NEW w \in Writer, Moving(w) PROVE TypeOK'
  <2>1. CASE Candidate(w)
    BY <1>1, <2>1 DEF Candidate, Candidates, Local, Existing, WGoto, WriterPC
  <2>2. CASE ~Candidate(w)
    <3>1. lk' \in Writer \cup {NoOne} /\ writeLk' \in Writer \cup {NoOne}
      BY <1>1, <2>2 DEF Moving, WriteLock, FlushLock, WriteLock2, SelectOpen, SelectFails,
           SelectNone, Space, WaitedMinute, Relock, RelockErr, OpenCandidateFails, FlushNext,
           FlushRelock, FlushEnd, FlushReturn, UnlockBoth, WGoto
    <3>2. wpc' \in [Writer -> WriterPC]
      BY <1>1, <2>2 DEF Moving, WriteLock, FlushLock, WriteLock2, SelectOpen, SelectFails,
           SelectNone, Space, WaitedMinute, Relock, RelockErr, OpenCandidateFails, FlushNext,
           FlushRelock, FlushEnd, FlushReturn, UnlockBoth, WGoto, WriterPC
    <3>3. /\ wgrp' \in [Writer -> GroupKey \cup {NoOne}]
          /\ toFlush' \in [Writer -> SUBSET GroupKey]
          /\ synced' \in [Writer -> SUBSET GroupKey]
      BY <1>1, <2>2 DEF Moving, WriteLock, FlushLock, WriteLock2, SelectOpen, SelectFails,
           SelectNone, Space, WaitedMinute, Relock, RelockErr, OpenCandidateFails, FlushNext,
           FlushRelock, FlushEnd, FlushReturn, UnlockBoth, WGoto
    <3>. QED BY <1>1, <3>1, <3>2, <3>3, MovingFrame
  <2>. QED BY <2>1, <2>2
<1>2. ASSUME NEW w \in Writer, SelectRow(w) PROVE TypeOK'
  BY <1>2 DEF SelectRow, OpenGroup, WGoto, ResumeTask, State, Task, WriterPC,
     GroupInv
<1>3. ASSUME NEW w \in Writer, OpenCandidate(w) PROVE TypeOK'
  BY <1>3 DEF OpenCandidate, WithReadable, OpenGroup, WGoto, ResumeTask, State, Task,
     WriterPC, GroupInv, BatchInv, Offloads
<1>4. ASSUME NEW w \in Writer, OffloadStaging(w) PROVE TypeOK'
  BY <1>4 DEF OffloadStaging, CanOffload, WGoto, State, WriterPC, BatchInv, Offloads,
     GroupInv
<1>5. ASSUME NEW w \in Writer, CreateRow(w) PROVE TypeOK'
  BY <1>5 DEF CreateRow, WGoto, State, WriterPC, BatchInv, Offloads, GroupInv
<1>6. ASSUME NEW w \in Writer, CreateFiles(w) PROVE TypeOK'
  BY <1>6 DEF CreateFiles, WGoto, State, WriterPC, BatchInv, Offloads, GroupInv
<1>7. ASSUME NEW w \in Writer, Put(w) PROVE TypeOK'
  <2>1. wgrp[w] \in GroupKey
    BY <1>7 DEF Put, BatchInv
  <2>2. /\ row' \in [GroupKey -> State \cup {"none"}] /\ gstate' \in [GroupKey -> State]
        /\ unsynced' \in [GroupKey -> SUBSET Writer]
    BY <1>7, <2>1 DEF Put, State
  <2>3. wpc' \in [Writer -> WriterPC] /\ toFlush' \in [Writer -> SUBSET GroupKey]
    BY <1>7, <2>1 DEF Put, WGoto, WriterPC
  <2>. QED BY <1>7, <2>2, <2>3 DEF Put
<1>8. ASSUME NEW w \in Writer, WriteDone(w) PROVE TypeOK'
  BY <1>8 DEF WriteDone, UnlockBoth, WGoto, State, Task, WriterPC, BatchInv
<1>9. ASSUME NEW w \in Writer, FlushSync(w) PROVE TypeOK'
  BY <1>9 DEF FlushSync, WGoto, State, WriterPC, BatchInv, Offloads, GroupInv
<1>10. ASSUME NEW k \in Worker, NEW t \in Task, TakeTask(k, t) PROVE TypeOK'
  BY <1>10 DEF TakeTask, KGoto
<1>11. ASSUME NEW k \in Worker, Lookup(k) PROVE TypeOK'
  BY <1>11 DEF Lookup, TaskDone, KGoto, NoTask
<1>12. ASSUME NEW k \in Worker, ExecTask(k) PROVE TypeOK'
  <2>1. ktask[k][2] \in GroupKey
    BY <1>12 DEF ExecTask, TaskInv, WorkerInv, Task
  <2>2. row' \in [GroupKey -> State \cup {"none"}] /\ gstate' \in [GroupKey -> State]
    BY <1>12, <2>1 DEF ExecTask, Advances, AdvanceState, State
  <2>3. /\ kpc' \in [Worker -> {"idle", "lookup", "exec", "commp"}]
        /\ ktask' \in [Worker -> Task \cup {NoTask}]
    BY <1>12 DEF ExecTask, TaskDone, KGoto
  <2>4. dropped' \subseteq GroupKey
    BY <1>12, <2>1 DEF ExecTask, Advances
  <2>. QED BY <1>12, <2>2, <2>3, <2>4 DEF ExecTask
<1>13. ASSUME NEW k \in Worker, ExecCommP(k) PROVE TypeOK'
  <2>1. ktask[k][2] \in GroupKey
    BY <1>13 DEF ExecCommP, TaskInv, WorkerInv, Task
  <2>2. row' \in [GroupKey -> State \cup {"none"}] /\ gstate' \in [GroupKey -> State]
    BY <1>13, <2>1 DEF ExecCommP, Advances, AdvanceState, State
  <2>3. /\ kpc' \in [Worker -> {"idle", "lookup", "exec", "commp"}]
        /\ ktask' \in [Worker -> Task \cup {NoTask}]
    BY <1>13 DEF ExecCommP, TaskDone, KGoto
  <2>4. dropped' \subseteq GroupKey
    BY <1>13, <2>1 DEF ExecCommP, Advances
  <2>. QED BY <1>13, <2>2, <2>3, <2>4 DEF ExecCommP
<1>14. ASSUME NEW g \in GroupKey, OffloadBegin(g) PROVE TypeOK'
  BY <1>14 DEF OffloadBegin, CanOffload, AdvanceState, State, Task
<1>15. ASSUME NEW g \in GroupKey, OffloadEnd(g) PROVE TypeOK'
  BY <1>15 DEF OffloadEnd, State, Task
<1>16. ASSUME NEW g \in GroupKey, LoadFilCar(g) PROVE TypeOK'
  BY <1>16 DEF LoadFilCar, AdvanceState, State, Task
<1>17. ASSUME NEW g \in GroupKey, ViewGroup(g) PROVE TypeOK'
  BY <1>17 DEF ViewGroup, WithReadable, OpenGroup, ResumeTask, State, Task, WriterPC,
     GroupInv
<1>18. ASSUME NEW g \in GroupKey, ResumeGroup(g) PROVE TypeOK'
  BY <1>18 DEF ResumeGroup, WithReadable, OpenGroup, ResumeTask, State, Task,
     WriterPC, GroupInv
<1>19. ASSUME Crash PROVE TypeOK'
  BY <1>19 DEF Crash, WriterPC, NoTask, State
<1>20. ASSUME ResumeFails PROVE TypeOK'
  BY <1>20 DEF ResumeFails
<1>. QED BY <1>1, <1>2, <1>3, <1>4, <1>5, <1>6, <1>7, <1>8, <1>9, <1>10, <1>11, <1>12,
            <1>13, <1>14, <1>15, <1>16, <1>17, <1>18, <1>19, <1>20 DEF Next, WriteStep,
            FlushStep, WorkerStep, Moving

(***************************************************************************)
(* A step keeps who holds lk and writeLk in line with where the batches    *)
(* are.                                                                    *)
(***************************************************************************)
LEMMA LockStep ==
  ASSUME TypeOK, LockInv, Next
  PROVE  LockInv'
<1>. USE DEF LockInv, TypeOK, LkPC, WriteLkPC, dbVars, lockVars, groupVars, taskVars,
             writerVars, workerVars
<1>1. ASSUME NEW w \in Writer, WriteLock(w) PROVE LockInv'
  BY <1>1 DEF WriteLock, WGoto
<1>2. ASSUME NEW w \in Writer, FlushLock(w) PROVE LockInv'
  BY <1>2 DEF FlushLock, WGoto
<1>3. ASSUME NEW w \in Writer, WriteLock2(w) PROVE LockInv'
  BY <1>3 DEF WriteLock2, WGoto
<1>4. ASSUME NEW w \in Writer, SelectOpen(w) PROVE LockInv'
  BY <1>4 DEF SelectOpen, WGoto
<1>5. ASSUME NEW w \in Writer, SelectFails(w) PROVE LockInv'
  BY <1>5 DEF SelectFails, UnlockBoth, WGoto
<1>6. ASSUME NEW w \in Writer, SelectNone(w) PROVE LockInv'
  BY <1>6 DEF SelectNone, WGoto
<1>7. ASSUME NEW w \in Writer, Space(w) PROVE LockInv'
  BY <1>7 DEF Space, WGoto
<1>8. ASSUME NEW w \in Writer, Candidate(w) PROVE LockInv'
  BY <1>8 DEF Candidate, WGoto
<1>9. ASSUME NEW w \in Writer, WaitedMinute(w) PROVE LockInv'
  BY <1>9 DEF WaitedMinute, WGoto
<1>10. ASSUME NEW w \in Writer, Relock(w) PROVE LockInv'
  BY <1>10 DEF Relock, WGoto
<1>11. ASSUME NEW w \in Writer, RelockErr(w) PROVE LockInv'
  BY <1>11 DEF RelockErr, WGoto
<1>12. ASSUME NEW w \in Writer, FlushNext(w) PROVE LockInv'
  BY <1>12 DEF FlushNext, WGoto
<1>13. ASSUME NEW w \in Writer, FlushRelock(w) PROVE LockInv'
  BY <1>13 DEF FlushRelock, WGoto
<1>14. ASSUME NEW w \in Writer, FlushEnd(w) PROVE LockInv'
  BY <1>14 DEF FlushEnd, WGoto
<1>15. ASSUME NEW w \in Writer, FlushReturn(w) PROVE LockInv'
  BY <1>15 DEF FlushReturn, WGoto
<1>16. ASSUME NEW w \in Writer, SelectRow(w) PROVE LockInv'
  BY <1>16 DEF SelectRow, OpenGroup, WGoto
<1>17. ASSUME NEW w \in Writer, OpenCandidate(w) PROVE LockInv'
  BY <1>17 DEF OpenCandidate, WithReadable, OpenGroup, WGoto
<1>18. ASSUME NEW w \in Writer, OffloadStaging(w) PROVE LockInv'
  BY <1>18 DEF OffloadStaging, CanOffload, WGoto
<1>19. ASSUME NEW w \in Writer, CreateRow(w) PROVE LockInv'
  BY <1>19 DEF CreateRow, WGoto
<1>20. ASSUME NEW w \in Writer, CreateFiles(w) PROVE LockInv'
  BY <1>20 DEF CreateFiles, WGoto
<1>21. ASSUME NEW w \in Writer, Put(w) PROVE LockInv'
  BY <1>21 DEF Put, WGoto
<1>22. ASSUME NEW w \in Writer, WriteDone(w) PROVE LockInv'
  BY <1>22 DEF WriteDone, UnlockBoth, WGoto
<1>23. ASSUME NEW w \in Writer, FlushSync(w) PROVE LockInv'
  BY <1>23 DEF FlushSync, WGoto
<1>24. ASSUME NEW k \in Worker, NEW t \in Task, TakeTask(k, t) PROVE LockInv'
  BY <1>24 DEF TakeTask, KGoto
<1>25. ASSUME NEW k \in Worker, Lookup(k) PROVE LockInv'
  BY <1>25 DEF Lookup, TaskDone, KGoto
<1>26. ASSUME NEW k \in Worker, ExecTask(k) PROVE LockInv'
  BY <1>26 DEF ExecTask, TaskDone, Advances, AdvanceState, KGoto
<1>27. ASSUME NEW k \in Worker, ExecCommP(k) PROVE LockInv'
  BY <1>27 DEF ExecCommP, TaskDone, Advances, AdvanceState, KGoto
<1>28. ASSUME NEW g \in GroupKey, OffloadBegin(g) PROVE LockInv'
  BY <1>28 DEF OffloadBegin, CanOffload, AdvanceState
<1>29. ASSUME NEW g \in GroupKey, OffloadEnd(g) PROVE LockInv'
  BY <1>29 DEF OffloadEnd
<1>30. ASSUME NEW g \in GroupKey, LoadFilCar(g) PROVE LockInv'
  BY <1>30 DEF LoadFilCar, AdvanceState
<1>31. ASSUME NEW g \in GroupKey, ViewGroup(g) PROVE LockInv'
  BY <1>31 DEF ViewGroup, WithReadable, OpenGroup
<1>32. ASSUME NEW g \in GroupKey, ResumeGroup(g) PROVE LockInv'
  BY <1>32 DEF ResumeGroup, WithReadable, OpenGroup
<1>33. ASSUME Crash PROVE LockInv'
  BY <1>33 DEF Crash
<1>34. ASSUME NEW w \in Writer, OpenCandidateFails(w) PROVE LockInv'
  BY <1>34 DEF OpenCandidateFails, WGoto
<1>35. ASSUME ResumeFails PROVE LockInv'
  BY <1>35 DEF ResumeFails
<1>. QED BY <1>1, <1>2, <1>3, <1>4, <1>5, <1>6, <1>7, <1>8, <1>9, <1>10, <1>11, <1>12,
            <1>13, <1>14, <1>15, <1>16, <1>17, <1>18, <1>19, <1>20, <1>21, <1>22,
            <1>23, <1>24, <1>25, <1>26, <1>27, <1>28, <1>29, <1>30, <1>31, <1>32, <1>33,
            <1>34, <1>35 DEF Next, WriteStep, FlushStep, WorkerStep

(***************************************************************************)
(* A step keeps the open groups in the state of their rows, the writable   *)
(* ones listed, and no second one writable: a row is made only under       *)
(* writeLk, where none was found.                                          *)
(***************************************************************************)
LEMMA GroupStep ==
  ASSUME TypeOK, LockInv, GroupInv, BatchInv, TaskInv, Next
  PROVE  GroupInv'
<1>. USE DEF TypeOK, LockInv, GroupInv, BatchInv, TaskInv, WorkerInv, Tasked, LkPC,
             WriteLkPC, Creating, State, dbVars, lockVars, groupVars, taskVars,
             writerVars, workerVars
<1>1. ASSUME NEW w \in Writer, Moving(w) PROVE GroupInv'
  BY <1>1, MovingFrame
<1>2. ASSUME NEW w \in Writer, SelectRow(w) PROVE GroupInv'
  BY <1>2 DEF SelectRow, OpenGroup, WGoto
<1>3. ASSUME NEW w \in Writer, OpenCandidate(w) PROVE GroupInv'
  BY <1>3 DEF OpenCandidate, WithReadable, OpenGroup, WGoto
<1>4. ASSUME NEW w \in Writer, OffloadStaging(w) PROVE GroupInv'
  BY <1>4 DEF OffloadStaging, CanOffload, WGoto
<1>5. ASSUME NEW w \in Writer, CreateRow(w) PROVE GroupInv'
  BY <1>5 DEF CreateRow, WGoto
<1>6. ASSUME NEW w \in Writer, CreateFiles(w) PROVE GroupInv'
  BY <1>6 DEF CreateFiles, WGoto
<1>7. ASSUME NEW w \in Writer, Put(w) PROVE GroupInv'
  BY <1>7 DEF Put, WGoto
<1>8. ASSUME NEW w \in Writer, WriteDone(w) PROVE GroupInv'
  BY <1>8 DEF WriteDone, UnlockBoth, WGoto
<1>9. ASSUME NEW w \in Writer, FlushSync(w) PROVE GroupInv'
  BY <1>9 DEF FlushSync, WGoto
<1>10. ASSUME NEW k \in Worker, NEW t \in Task, TakeTask(k, t) PROVE GroupInv'
  BY <1>10 DEF TakeTask, KGoto
<1>11. ASSUME NEW k \in Worker, Lookup(k) PROVE GroupInv'
  BY <1>11 DEF Lookup, TaskDone, KGoto
<1>12. ASSUME NEW k \in Worker, ExecTask(k) PROVE GroupInv'
  BY <1>12 DEF ExecTask, TaskDone, Advances, AdvanceState, KGoto
<1>13. ASSUME NEW k \in Worker, ExecCommP(k) PROVE GroupInv'
  BY <1>13 DEF ExecCommP, TaskDone, Advances, AdvanceState, KGoto
<1>14. ASSUME NEW g \in GroupKey, OffloadBegin(g) PROVE GroupInv'
  BY <1>14 DEF OffloadBegin, CanOffload, AdvanceState
<1>15. ASSUME NEW g \in GroupKey, OffloadEnd(g) PROVE GroupInv'
  BY <1>15 DEF OffloadEnd
<1>16. ASSUME NEW g \in GroupKey, LoadFilCar(g) PROVE GroupInv'
  BY <1>16 DEF LoadFilCar, AdvanceState
<1>17. ASSUME NEW g \in GroupKey, ViewGroup(g) PROVE GroupInv'
  BY <1>17 DEF ViewGroup, WithReadable, OpenGroup
<1>18. ASSUME NEW g \in GroupKey, ResumeGroup(g) PROVE GroupInv'
  BY <1>18 DEF ResumeGroup, WithReadable, OpenGroup
<1>19. ASSUME Crash PROVE GroupInv'
  BY <1>19 DEF Crash
<1>20. ASSUME ResumeFails PROVE GroupInv'
  BY <1>20 DEF ResumeFails
<1>. QED BY <1>1, <1>2, <1>3, <1>4, <1>5, <1>6, <1>7, <1>8, <1>9, <1>10, <1>11, <1>12,
            <1>13, <1>14, <1>15, <1>16, <1>17, <1>18, <1>19, <1>20 DEF Next, WriteStep,
            FlushStep, WorkerStep, Moving

(***************************************************************************)
(* A step keeps what a batch knows of its group: writeLk keeps others from *)
(* making one, and only the batch that writes to a group fills it.         *)
(***************************************************************************)
LEMMA BatchStep ==
  ASSUME TypeOK, LockInv, GroupInv, BatchInv, TaskInv, Next
  PROVE  BatchInv'
<1>. USE DEF TypeOK, LockInv, GroupInv, BatchInv, TaskInv, WorkerInv, Tasked, LkPC,
             WriteLkPC, Creating, Offloads, Candidates, Local, Existing, State,
             dbVars, lockVars, groupVars, taskVars, writerVars, workerVars
<1>1. ASSUME NEW w \in Writer, Moving(w) PROVE BatchInv'
  BY <1>1, MovingFrame DEF Moving, WriteLock, FlushLock, WriteLock2, SelectOpen,
     SelectFails, SelectNone, Space, Candidate, WaitedMinute, Relock, RelockErr,
     OpenCandidateFails, FlushNext, FlushRelock, FlushEnd, FlushReturn, UnlockBoth, WGoto
<1>2. ASSUME NEW w \in Writer, SelectRow(w) PROVE BatchInv'
  BY <1>2 DEF SelectRow, OpenGroup, WGoto
<1>3. ASSUME NEW w \in Writer, OpenCandidate(w) PROVE BatchInv'
  BY <1>3 DEF OpenCandidate, WithReadable, OpenGroup, WGoto
<1>4. ASSUME NEW w \in Writer, OffloadStaging(w) PROVE BatchInv'
  BY <1>4 DEF OffloadStaging, CanOffload, WGoto
<1>5. ASSUME NEW w \in Writer, CreateRow(w) PROVE BatchInv'
  BY <1>5 DEF CreateRow, WGoto
<1>6. ASSUME NEW w \in Writer, CreateFiles(w) PROVE BatchInv'
  BY <1>6 DEF CreateFiles, WGoto
<1>7. ASSUME NEW w \in Writer, Put(w) PROVE BatchInv'
  BY <1>7 DEF Put, WGoto
<1>8. ASSUME NEW w \in Writer, WriteDone(w) PROVE BatchInv'
  BY <1>8 DEF WriteDone, UnlockBoth, WGoto
<1>9. ASSUME NEW w \in Writer, FlushSync(w) PROVE BatchInv'
  BY <1>9 DEF FlushSync, WGoto
<1>10. ASSUME NEW k \in Worker, NEW t \in Task, TakeTask(k, t) PROVE BatchInv'
  BY <1>10 DEF TakeTask, KGoto
<1>11. ASSUME NEW k \in Worker, Lookup(k) PROVE BatchInv'
  BY <1>11 DEF Lookup, TaskDone, KGoto
<1>12. ASSUME NEW k \in Worker, ExecTask(k) PROVE BatchInv'
  BY <1>12 DEF ExecTask, TaskDone, Advances, AdvanceState, KGoto
<1>13. ASSUME NEW k \in Worker, ExecCommP(k) PROVE BatchInv'
  BY <1>13 DEF ExecCommP, TaskDone, Advances, AdvanceState, KGoto
<1>14. ASSUME NEW g \in GroupKey, OffloadBegin(g) PROVE BatchInv'
  BY <1>14 DEF OffloadBegin, CanOffload, AdvanceState
<1>15. ASSUME NEW g \in GroupKey, OffloadEnd(g) PROVE BatchInv'
  BY <1>15 DEF OffloadEnd
<1>16. ASSUME NEW g \in GroupKey, LoadFilCar(g) PROVE BatchInv'
  BY <1>16 DEF LoadFilCar, AdvanceState
<1>17. ASSUME NEW g \in GroupKey, ViewGroup(g) PROVE BatchInv'
  BY <1>17 DEF ViewGroup, WithReadable, OpenGroup
<1>18. ASSUME NEW g \in GroupKey, ResumeGroup(g) PROVE BatchInv'
  BY <1>18 DEF ResumeGroup, WithReadable, OpenGroup
<1>19. ASSUME Crash PROVE BatchInv'
  BY <1>19 DEF Crash
<1>20. ASSUME ResumeFails PROVE BatchInv'
  BY <1>20 DEF ResumeFails
<1>. QED BY <1>1, <1>2, <1>3, <1>4, <1>5, <1>6, <1>7, <1>8, <1>9, <1>10, <1>11, <1>12,
            <1>13, <1>14, <1>15, <1>16, <1>17, <1>18, <1>19, <1>20 DEF Next, WriteStep,
            FlushStep, WorkerStep, Moving

(***************************************************************************)
(* A step keeps unsynced blocks in a writable group that their batch is to *)
(* flush.                                                                  *)
(***************************************************************************)
LEMMA SyncStep ==
  ASSUME TypeOK, LockInv, GroupInv, BatchInv, TaskInv, SyncInv, Next
  PROVE  SyncInv'
<1>. USE DEF TypeOK, LockInv, GroupInv, BatchInv, TaskInv, WorkerInv, Tasked,
             SyncInv, LkPC, WriteLkPC, State, dbVars, lockVars, groupVars, taskVars,
             writerVars, workerVars
<1>1. ASSUME NEW w \in Writer, Moving(w) PROVE SyncInv'
  BY <1>1, MovingFrame DEF Moving, WriteLock, FlushLock, WriteLock2, SelectOpen,
     SelectFails, SelectNone, Space, Candidate, WaitedMinute, Relock, RelockErr,
     OpenCandidateFails, FlushNext, FlushRelock, FlushEnd, FlushReturn, UnlockBoth, WGoto
<1>2. ASSUME NEW w \in Writer, SelectRow(w) PROVE SyncInv'
  BY <1>2 DEF SelectRow, OpenGroup, WGoto
<1>3. ASSUME NEW w \in Writer, OpenCandidate(w) PROVE SyncInv'
  BY <1>3 DEF OpenCandidate, WithReadable, OpenGroup, WGoto
<1>4. ASSUME NEW w \in Writer, OffloadStaging(w) PROVE SyncInv'
  BY <1>4 DEF OffloadStaging, CanOffload, WGoto
<1>5. ASSUME NEW w \in Writer, CreateRow(w) PROVE SyncInv'
  BY <1>5 DEF CreateRow, WGoto
<1>6. ASSUME NEW w \in Writer, CreateFiles(w) PROVE SyncInv'
  BY <1>6 DEF CreateFiles, WGoto
<1>7. ASSUME NEW w \in Writer, Put(w) PROVE SyncInv'
  BY <1>7 DEF Put, WGoto
<1>8. ASSUME NEW w \in Writer, WriteDone(w) PROVE SyncInv'
  BY <1>8 DEF WriteDone, UnlockBoth, WGoto
<1>9. ASSUME NEW w \in Writer, FlushSync(w) PROVE SyncInv'
  BY <1>9 DEF FlushSync, WGoto
<1>10. ASSUME NEW k \in Worker, NEW t \in Task, TakeTask(k, t) PROVE SyncInv'
  BY <1>10 DEF TakeTask, KGoto
<1>11. ASSUME NEW k \in Worker, Lookup(k) PROVE SyncInv'
  BY <1>11 DEF Lookup, TaskDone, KGoto
<1>12. ASSUME NEW k \in Worker, ExecTask(k) PROVE SyncInv'
  BY <1>12 DEF ExecTask, TaskDone, Advances, AdvanceState, KGoto
<1>13. ASSUME NEW k \in Worker, ExecCommP(k) PROVE SyncInv'
  BY <1>13 DEF ExecCommP, TaskDone, Advances, AdvanceState, KGoto
<1>14. ASSUME NEW g \in GroupKey, OffloadBegin(g) PROVE SyncInv'
  BY <1>14 DEF OffloadBegin, CanOffload, AdvanceState
<1>15. ASSUME NEW g \in GroupKey, OffloadEnd(g) PROVE SyncInv'
  BY <1>15 DEF OffloadEnd
<1>16. ASSUME NEW g \in GroupKey, LoadFilCar(g) PROVE SyncInv'
  BY <1>16 DEF LoadFilCar, AdvanceState
<1>17. ASSUME NEW g \in GroupKey, ViewGroup(g) PROVE SyncInv'
  BY <1>17 DEF ViewGroup, WithReadable, OpenGroup
<1>18. ASSUME NEW g \in GroupKey, ResumeGroup(g) PROVE SyncInv'
  BY <1>18 DEF ResumeGroup, WithReadable, OpenGroup
<1>19. ASSUME Crash PROVE SyncInv'
  BY <1>19 DEF Crash
<1>20. ASSUME ResumeFails PROVE SyncInv'
  BY <1>20 DEF ResumeFails
<1>. QED BY <1>1, <1>2, <1>3, <1>4, <1>5, <1>6, <1>7, <1>8, <1>9, <1>10, <1>11, <1>12,
            <1>13, <1>14, <1>15, <1>16, <1>17, <1>18, <1>19, <1>20 DEF Next, WriteStep,
            FlushStep, WorkerStep, Moving

(***************************************************************************)
(* The local groups are finite, and any part of them is no larger than all *)
(* (CountNonOffloadedGroups is a number).                                  *)
(***************************************************************************)
LEMMA LocalFinite ==
  /\ IsFiniteSet(Local) /\ Cardinality(Local) \in Nat
  /\ \A S \in SUBSET Local : Cardinality(S) \in Nat /\ Cardinality(S) =< Cardinality(Local)
<1>1. Local \in SUBSET GroupKey
  BY DEF Local, Existing
<1>2. IsFiniteSet(Local)
  BY <1>1, FS_Subset
<1>3. ASSUME NEW S \in SUBSET Local
      PROVE  Cardinality(S) \in Nat /\ Cardinality(S) =< Cardinality(Local)
  BY <1>2, FS_Subset, FS_CardinalityType
<1>. QED BY <1>2, <1>3, FS_CardinalityType

\* A batch that relies on there being room for one more group.
Counts(w) == wpc[w] \in {"relock", "row"} \/ (wpc[w] \in Offloads /\ wgrp[w] \in offloads)

(***************************************************************************)
(* The bound on local groups and the room of the batch that is to make one *)
(* survive a step after which the same groups are local and no batch has   *)
(* come to count on room it had not (createGroup, ensureSpaceForGroup).    *)
(***************************************************************************)
LEMMA SpaceStays ==
  ASSUME SpaceInv, Local' = Local, \A w \in Writer : Counts(w)' => Counts(w)
  PROVE  SpaceInv'
  BY DEF SpaceInv, LocalBounded, Counts, Offloads

(***************************************************************************)
(* A step never leaves more than MaxLocal groups local: the row is made    *)
(* while writeLk is held since there was room, and an offload only makes   *)
(* room.                                                                   *)
(***************************************************************************)
LEMMA SpaceStep ==
  ASSUME TypeOK, LockInv, GroupInv, BatchInv, TaskInv, SpaceInv, Next
  PROVE  SpaceInv'
<1>. USE DEF dbVars, lockVars, groupVars, taskVars, writerVars, workerVars
<1>0. Cardinality(Local) \in Nat /\ Cardinality(Local) =< MaxLocal
  BY LocalFinite DEF SpaceInv, LocalBounded
<1>1. ASSUME NEW w \in Writer, Moving(w) PROVE SpaceInv'
  <2>1. Local' = Local
    BY <1>1, MovingFrame DEF Local, Existing
  <2>2. CASE Space(w) /\ EnoughSpace
    BY <1>0, <2>1, <2>2, <1>1, MovingFrame
       DEF SpaceInv, LocalBounded, Space, EnoughSpace, WGoto, TypeOK, Offloads
  <2>3. CASE ~(Space(w) /\ EnoughSpace)
    <3>1. \A v \in Writer \ {w} : Counts(v)' => Counts(v)
      BY <1>1, MovingFrame DEF Counts, Offloads
    <3>2. Counts(w)' => Counts(w)
      BY <1>1, <2>3
         DEF Counts, Offloads, Moving, WriteLock, FlushLock, WriteLock2, SelectOpen,
             SelectFails, SelectNone, Space, Candidate, Candidates, Local, WaitedMinute,
             Relock, RelockErr, OpenCandidateFails, FlushNext, FlushRelock, FlushEnd,
             FlushReturn, UnlockBoth,
             WGoto, TypeOK
    <3>. QED BY <2>1, <3>1, <3>2, SpaceStays
  <2>. QED BY <2>2, <2>3
<1>2. ASSUME NEW w \in Writer, SelectRow(w) PROVE SpaceInv'
  BY <1>2, SpaceStays
     DEF SelectRow, OpenGroup, WGoto, Local, Existing, Counts, Offloads, TypeOK
<1>3. ASSUME NEW w \in Writer, OpenCandidate(w) PROVE SpaceInv'
  BY <1>3, SpaceStays DEF OpenCandidate, WGoto, Local, Existing, Counts, Offloads, TypeOK
<1>4. ASSUME NEW w \in Writer, OffloadStaging(w) PROVE SpaceInv'
  <2>. DEFINE g == wgrp[w]
  <2>1. g \in Existing /\ wpc[w] = "offload"
    BY <1>4 DEF OffloadStaging, BatchInv, Offloads, Existing
  <2>2. ASSUME NEW v \in Writer \ {w} PROVE ~Counts(v)'
    BY <1>4 DEF OffloadStaging, WGoto, Counts, Offloads, LockInv, WriteLkPC, TypeOK
  <2>3. CASE ~CanOffload(g)
    BY <1>4, <2>2, <2>3, SpaceStays
       DEF OffloadStaging, WGoto, Local, Existing, Counts, Offloads, TypeOK
  <2>4. CASE CanOffload(g)
    <3>1. Local' = Local \ {g}
      BY <1>4, <2>4 DEF OffloadStaging, Local, Existing
    <3>2. Cardinality(Local') < MaxLocal
      <4>1. CASE g \in offloads
        <5>1. Local' = Local
          BY <3>1, <4>1 DEF Local
        <5>. QED BY <2>1, <4>1, <5>1 DEF SpaceInv, Offloads
      <4>2. CASE g \notin offloads
        <5>1. g \in Local
          BY <2>1, <4>2 DEF Local
        <5>2. Cardinality(Local \ {g}) = Cardinality(Local) - 1
          BY <5>1, LocalFinite, FS_RemoveElement
        <5>. QED BY <1>0, <3>1, <5>2, ManagerAssumption
      <4>. QED BY <4>1, <4>2
    <3>3. LocalBounded'
      BY <3>1, <3>2, LocalFinite DEF LocalBounded
    <3>. QED BY <2>2, <3>2, <3>3 DEF SpaceInv, Counts
  <2>. QED BY <2>3, <2>4
<1>5. ASSUME NEW w \in Writer, CreateRow(w) PROVE SpaceInv'
  <2>1. PICK g \in GroupKey : row' = [row EXCEPT ![g] = "Writable"]
    BY <1>5 DEF CreateRow
  <2>2. Local' \in SUBSET (Local \cup {g})
    BY <1>5, <2>1 DEF CreateRow, Local, Existing, TypeOK
  <2>3. Cardinality(Local) < MaxLocal
    BY <1>5 DEF CreateRow, SpaceInv
  <2>4. /\ IsFiniteSet(Local \cup {g})
        /\ Cardinality(Local \cup {g}) \in {Cardinality(Local), Cardinality(Local) + 1}
    BY LocalFinite, FS_AddElement
  <2>5. IsFiniteSet(Local \cup {g}) /\ Cardinality(Local \cup {g}) =< Cardinality(Local) + 1
    BY <1>0, <2>4
  <2>6. Cardinality(Local \cup {g}) \in Nat /\ Cardinality(Local') \in Nat
    BY <2>2, <2>5, FS_Subset, FS_CardinalityType
  <2>7. Cardinality(Local') =< Cardinality(Local \cup {g})
    BY <2>2, <2>5, FS_Subset
  <2>8. LocalBounded'
    BY <1>0, <2>3, <2>5, <2>6, <2>7 DEF LocalBounded
  <2>9. \A v \in Writer : ~Counts(v)'
    BY <1>5 DEF CreateRow, WGoto, Counts, Offloads, LockInv, WriteLkPC, TypeOK
  <2>. QED BY <2>8, <2>9 DEF SpaceInv, Counts
<1>6. ASSUME NEW w \in Writer, CreateFiles(w) PROVE SpaceInv'
  BY <1>6, SpaceStays DEF CreateFiles, WGoto, Local, Existing, Counts, Offloads, TypeOK
<1>7. ASSUME NEW w \in Writer, Put(w) PROVE SpaceInv'
  <2>1. Local' = Local
    BY <1>7 DEF Put, Local, Existing, BatchInv, TypeOK
  <2>. QED BY <1>7, <2>1, SpaceStays DEF Put, WGoto, Counts, Offloads, TypeOK
<1>8. ASSUME NEW w \in Writer, WriteDone(w) PROVE SpaceInv'
  BY <1>8, SpaceStays DEF WriteDone, WGoto, Local, Existing, Counts, Offloads, TypeOK
<1>9. ASSUME NEW w \in Writer, FlushSync(w) PROVE SpaceInv'
  <2>1. Local' = Local
    BY <1>9 DEF FlushSync, Local, Existing, BatchInv, GroupInv, TypeOK, State
  <2>. QED BY <1>9, <2>1, SpaceStays DEF FlushSync, WGoto, Counts, Offloads, TypeOK
<1>10. ASSUME NEW k \in Worker, WorkerStep(k) \/ \E t \in Task : TakeTask(k, t)
       PROVE  SpaceInv'
  <2>1. Local' = Local
    BY <1>10 DEF WorkerStep, TakeTask, Lookup, ExecTask, ExecCommP, Advances, AdvanceState,
       Local, Existing, GroupInv, TaskInv, WorkerInv, Tasked, TypeOK, State
  <2>. QED BY <1>10, <2>1, SpaceStays
       DEF WorkerStep, TakeTask, Lookup, ExecTask, ExecCommP, Counts, Offloads
<1>11. ASSUME NEW g \in GroupKey, OffloadBegin(g) \/ LoadFilCar(g) PROVE SpaceInv'
  <2>1. Local' = Local
    BY <1>11 DEF OffloadBegin, LoadFilCar, CanOffload, AdvanceState, Local, Existing,
       GroupInv, TypeOK
  <2>. QED BY <1>11, <2>1, SpaceStays DEF OffloadBegin, LoadFilCar, Counts, Offloads
<1>12. ASSUME NEW g \in GroupKey, OffloadEnd(g) PROVE SpaceInv'
  <2>1. g \in Existing
    BY <1>12 DEF OffloadEnd, GroupInv, Existing
  <2>2. Local' = Local \ {g}
    BY <1>12 DEF OffloadEnd, Local, Existing
  <2>3. /\ Cardinality(Local') \in Nat /\ Cardinality(Local') =< Cardinality(Local)
        /\ g \in Local => Cardinality(Local') < Cardinality(Local)
    BY <1>0, <2>2, LocalFinite, FS_RemoveElement, FS_CardinalityType
  <2>4. LocalBounded'
    BY <1>0, <2>3 DEF LocalBounded
  <2>5. ASSUME NEW v \in Writer, Counts(v)' PROVE Cardinality(Local') < MaxLocal
    <3>1. CASE Counts(v)
      BY <1>0, <2>3, <3>1 DEF SpaceInv, Counts
    <3>2. CASE ~Counts(v)
      <4>1. wgrp[v] = g /\ g \notin offloads
        BY <1>12, <2>5, <3>2 DEF OffloadEnd, Counts, Offloads
      <4>2. g \in Local
        BY <2>1, <4>1 DEF Local
      <4>. QED BY <1>0, <2>3, <4>2
    <3>. QED BY <3>1, <3>2
  <2>. QED BY <2>4, <2>5 DEF SpaceInv, Counts
<1>13. ASSUME NEW g \in GroupKey, ViewGroup(g) \/ ResumeGroup(g) PROVE SpaceInv'
  BY <1>13, SpaceStays DEF ViewGroup, ResumeGroup, Local, Existing, Counts, Offloads
<1>14. ASSUME Crash PROVE SpaceInv'
  BY <1>14, SpaceStays DEF Crash, Local, Existing, Counts, Offloads
<1>15. ASSUME ResumeFails PROVE SpaceInv'
  BY <1>15, SpaceStays DEF ResumeFails, Local, Existing, Counts, Offloads
<1>. QED BY <1>1, <1>2, <1>3, <1>4, <1>5, <1>6, <1>7, <1>8, <1>9, <1>10, <1>11, <1>12, <1>13,
            <1>14, <1>15 DEF Next, WriteStep, FlushStep, Moving

(***************************************************************************)
(* A step keeps the groups of pending tasks open.                          *)
(***************************************************************************)
LEMMA PendingStep ==
  ASSUME TypeOK, LockInv, GroupInv, BatchInv, TaskInv, Next
  PROVE  PendingInv'
<1>. USE DEF TypeOK, LockInv, GroupInv, BatchInv, TaskInv, PendingInv, WorkerInv,
             Tasked, Task, State, LkPC, WriteLkPC, dbVars, lockVars, groupVars,
             taskVars, writerVars, workerVars
<1>1. ASSUME NEW w \in Writer, Moving(w) PROVE PendingInv'
  BY <1>1, MovingFrame
<1>2. ASSUME NEW w \in Writer, SelectRow(w) PROVE PendingInv'
  BY <1>2 DEF SelectRow, OpenGroup, WGoto, ResumeTask
<1>3. ASSUME NEW w \in Writer, OpenCandidate(w) PROVE PendingInv'
  BY <1>3 DEF OpenCandidate, WithReadable, OpenGroup, WGoto, ResumeTask
<1>4. ASSUME NEW w \in Writer, OffloadStaging(w) PROVE PendingInv'
  BY <1>4 DEF OffloadStaging, CanOffload, WGoto
<1>5. ASSUME NEW w \in Writer, CreateRow(w) PROVE PendingInv'
  BY <1>5 DEF CreateRow, WGoto
<1>6. ASSUME NEW w \in Writer, CreateFiles(w) PROVE PendingInv'
  BY <1>6 DEF CreateFiles, WGoto
<1>7. ASSUME NEW w \in Writer, Put(w) PROVE PendingInv'
  BY <1>7 DEF Put, WGoto
<1>8. ASSUME NEW w \in Writer, WriteDone(w) PROVE PendingInv'
  BY <1>8 DEF WriteDone, UnlockBoth, WGoto
<1>9. ASSUME NEW w \in Writer, FlushSync(w) PROVE PendingInv'
  BY <1>9 DEF FlushSync, WGoto
<1>10. ASSUME NEW k \in Worker, NEW t \in Task, TakeTask(k, t) PROVE PendingInv'
  BY <1>10 DEF TakeTask, KGoto
<1>11. ASSUME NEW k \in Worker, Lookup(k) PROVE PendingInv'
  BY <1>11 DEF Lookup, TaskDone, KGoto
<1>12. ASSUME NEW k \in Worker, ExecTask(k) PROVE PendingInv'
  BY <1>12 DEF ExecTask, TaskDone, Advances, AdvanceState, KGoto
<1>13. ASSUME NEW k \in Worker, ExecCommP(k) PROVE PendingInv'
  BY <1>13 DEF ExecCommP, TaskDone, Advances, AdvanceState, KGoto
<1>14. ASSUME NEW g \in GroupKey, OffloadBegin(g) PROVE PendingInv'
  BY <1>14 DEF OffloadBegin, CanOffload, AdvanceState
<1>15. ASSUME NEW g \in GroupKey, OffloadEnd(g) PROVE PendingInv'
  BY <1>15 DEF OffloadEnd
<1>16. ASSUME NEW g \in GroupKey, LoadFilCar(g) PROVE PendingInv'
  BY <1>16 DEF LoadFilCar, AdvanceState
<1>17. ASSUME NEW g \in GroupKey, ViewGroup(g) PROVE PendingInv'
  BY <1>17 DEF ViewGroup, WithReadable, OpenGroup, ResumeTask
<1>18. ASSUME NEW g \in GroupKey, ResumeGroup(g) PROVE PendingInv'
  BY <1>18 DEF ResumeGroup, WithReadable, OpenGroup, ResumeTask
<1>19. ASSUME Crash PROVE PendingInv'
  BY <1>19 DEF Crash
<1>20. ASSUME ResumeFails PROVE PendingInv'
  BY <1>20 DEF ResumeFails
<1>. QED BY <1>1, <1>2, <1>3, <1>4, <1>5, <1>6, <1>7, <1>8, <1>9, <1>10, <1>11, <1>12,
            <1>13, <1>14, <1>15, <1>16, <1>17, <1>18, <1>19, <1>20 DEF Next, WriteStep,
            FlushStep, WorkerStep, Moving

(***************************************************************************)
(* A step keeps a worker at a task of an open group, and past Finalize at  *)
(* one that is no longer full.                                             *)
(***************************************************************************)
LEMMA WorkerKeeps ==
  ASSUME TypeOK, LockInv, GroupInv, BatchInv, TaskInv, Next
  PROVE  WorkerInv'
<1>. USE DEF TypeOK, LockInv, GroupInv, BatchInv, TaskInv, PendingInv, WorkerInv,
             Tasked, Task, State, LkPC, WriteLkPC, NoTask, dbVars, lockVars,
             groupVars, taskVars, writerVars, workerVars
<1>1. ASSUME NEW w \in Writer, Moving(w) PROVE WorkerInv'
  BY <1>1, MovingFrame
<1>2. ASSUME NEW w \in Writer, SelectRow(w) PROVE WorkerInv'
  BY <1>2 DEF SelectRow, OpenGroup, WGoto
<1>3. ASSUME NEW w \in Writer, OpenCandidate(w) PROVE WorkerInv'
  BY <1>3 DEF OpenCandidate, WithReadable, OpenGroup, WGoto
<1>4. ASSUME NEW w \in Writer, OffloadStaging(w) PROVE WorkerInv'
  BY <1>4 DEF OffloadStaging, CanOffload, WGoto
<1>5. ASSUME NEW w \in Writer, CreateRow(w) PROVE WorkerInv'
  BY <1>5 DEF CreateRow, WGoto
<1>6. ASSUME NEW w \in Writer, CreateFiles(w) PROVE WorkerInv'
  BY <1>6 DEF CreateFiles, WGoto
<1>7. ASSUME NEW w \in Writer, Put(w) PROVE WorkerInv'
  BY <1>7 DEF Put, WGoto
<1>8. ASSUME NEW w \in Writer, WriteDone(w) PROVE WorkerInv'
  BY <1>8 DEF WriteDone, UnlockBoth, WGoto
<1>9. ASSUME NEW w \in Writer, FlushSync(w) PROVE WorkerInv'
  BY <1>9 DEF FlushSync, WGoto
<1>10. ASSUME NEW k \in Worker, NEW t \in Task, TakeTask(k, t) PROVE WorkerInv'
  BY <1>10 DEF TakeTask, KGoto
<1>11. ASSUME NEW k \in Worker, Lookup(k) PROVE WorkerInv'
  BY <1>11 DEF Lookup, TaskDone, KGoto
<1>12. ASSUME NEW k \in Worker, ExecTask(k) PROVE WorkerInv'
  <2>. DEFINE tt == ktask[k][1]
              g  == ktask[k][2]
  <2>. USE <1>12 DEF ExecTask, TaskDone, Advances, AdvanceState, KGoto
  <2>1. CASE tt = "Finalize"
    BY <2>1
  <2>2. CASE tt = "GenCommP"
    BY <2>2
  <2>3. CASE tt = "FinDataReload"
    BY <2>3
  <2>. QED BY <2>1, <2>2, <2>3
<1>13. ASSUME NEW k \in Worker, ExecCommP(k) PROVE WorkerInv'
  BY <1>13 DEF ExecCommP, TaskDone, Advances, AdvanceState, KGoto
<1>14. ASSUME NEW g \in GroupKey, OffloadBegin(g) PROVE WorkerInv'
  BY <1>14 DEF OffloadBegin, CanOffload, AdvanceState
<1>15. ASSUME NEW g \in GroupKey, OffloadEnd(g) PROVE WorkerInv'
  BY <1>15 DEF OffloadEnd
<1>16. ASSUME NEW g \in GroupKey, LoadFilCar(g) PROVE WorkerInv'
  BY <1>16 DEF LoadFilCar, AdvanceState
<1>17. ASSUME NEW g \in GroupKey, ViewGroup(g) PROVE WorkerInv'
  BY <1>17 DEF ViewGroup, WithReadable, OpenGroup
<1>18. ASSUME NEW g \in GroupKey, ResumeGroup(g) PROVE WorkerInv'
  BY <1>18 DEF ResumeGroup, WithReadable, OpenGroup
<1>19. ASSUME Crash PROVE WorkerInv'
  BY <1>19 DEF Crash
<1>20. ASSUME ResumeFails PROVE WorkerInv'
  BY <1>20 DEF ResumeFails
<1>. QED BY <1>1, <1>2, <1>3, <1>4, <1>5, <1>6, <1>7, <1>8, <1>9, <1>10, <1>11, <1>12,
            <1>13, <1>14, <1>15, <1>16, <1>17, <1>18, <1>19, <1>20 DEF Next, WriteStep,
            FlushStep, WorkerStep, Moving

(***************************************************************************)
(* A step forgets no group on its way to CommP: the batch that fills one   *)
(* sends its task, a worker leaves one only when its CommP is done or its  *)
(* state is another's, and a restart resumes the closed ones.              *)
(***************************************************************************)
LEMMA KeptStep ==
  ASSUME TypeOK, LockInv, GroupInv, BatchInv, TaskInv, Next
  PROVE  (\A g \in GroupKey : Kept(g))'
<1>. USE DEF TypeOK, GroupInv, BatchInv, State, dbVars,
             lockVars, groupVars, taskVars, writerVars, workerVars
<1>. SUFFICES ASSUME NEW h \in GroupKey PROVE Kept(h)'
  OBVIOUS
<1>0. Kept(h)
  BY DEF TaskInv
<1>1. ASSUME NEW w \in Writer, Moving(w) PROVE Kept(h)'
  <2>1. /\ WorkedOn(h, "Finalize") => WorkedOn(h, "Finalize")'
        /\ WorkedOn(h, "GenCommP") => WorkedOn(h, "GenCommP")'
    BY <1>1, WorkedOnStays, MovingFrame 
  <2>. QED BY <1>0, <1>1, <2>1, MovingFrame DEF Kept, Attended
<1>2. ASSUME NEW w \in Writer, SelectRow(w) PROVE Kept(h)'
  <2>1. /\ WorkedOn(h, "Finalize") => WorkedOn(h, "Finalize")'
        /\ WorkedOn(h, "GenCommP") => WorkedOn(h, "GenCommP")'
    BY <1>2, WorkedOnStays DEF SelectRow, OpenGroup
  <2>. QED BY <1>0, <1>2, <2>1 DEF SelectRow, OpenGroup, WGoto, Kept, Attended
<1>3. ASSUME NEW w \in Writer, OpenCandidate(w) PROVE Kept(h)'
  <2>1. /\ WorkedOn(h, "Finalize") => WorkedOn(h, "Finalize")'
        /\ WorkedOn(h, "GenCommP") => WorkedOn(h, "GenCommP")'
    BY <1>3, WorkedOnStays DEF OpenCandidate, WithReadable, OpenGroup
  <2>2. CASE h = wgrp[w] /\ h \notin openGroups
    BY <1>3, <2>2 DEF OpenCandidate, WithReadable, OpenGroup, ResumeTask, Kept,
           Attended, WorkedOn, WGoto
  <2>3. CASE h # wgrp[w] \/ h \in openGroups
    BY <1>0, <1>3, <2>1, <2>3 DEF OpenCandidate, WithReadable, OpenGroup, Kept, Attended, WGoto
  <2>. QED BY <2>2, <2>3
<1>4. ASSUME NEW w \in Writer, OffloadStaging(w) PROVE Kept(h)'
  <2>1. /\ WorkedOn(h, "Finalize") => WorkedOn(h, "Finalize")'
        /\ WorkedOn(h, "GenCommP") => WorkedOn(h, "GenCommP")'
    BY <1>4, WorkedOnStays DEF OffloadStaging
  <2>. QED BY <1>0, <1>4, <2>1 DEF OffloadStaging, CanOffload, WGoto, Kept, Attended
<1>5. ASSUME NEW w \in Writer, CreateRow(w) PROVE Kept(h)'
  <2>1. /\ WorkedOn(h, "Finalize") => WorkedOn(h, "Finalize")'
        /\ WorkedOn(h, "GenCommP") => WorkedOn(h, "GenCommP")'
    BY <1>5, WorkedOnStays DEF CreateRow
  <2>. QED BY <1>0, <1>5, <2>1 DEF CreateRow, WGoto, Kept, Attended
<1>6. ASSUME NEW w \in Writer, CreateFiles(w) PROVE Kept(h)'
  <2>1. /\ WorkedOn(h, "Finalize") => WorkedOn(h, "Finalize")'
        /\ WorkedOn(h, "GenCommP") => WorkedOn(h, "GenCommP")'
    BY <1>6, WorkedOnStays DEF CreateFiles
  <2>. QED BY <1>0, <1>6, <2>1 DEF CreateFiles, WGoto, Kept, Attended
<1>7. ASSUME NEW w \in Writer, Put(w) PROVE Kept(h)'
  <2>1. /\ WorkedOn(h, "Finalize") => WorkedOn(h, "Finalize")'
        /\ WorkedOn(h, "GenCommP") => WorkedOn(h, "GenCommP")'
    BY <1>7, WorkedOnStays DEF Put
  <2>. QED BY <1>0, <1>7, <2>1 DEF Put, WGoto, Kept, Attended
<1>8. ASSUME NEW w \in Writer, WriteDone(w) PROVE Kept(h)'
  <2>1. /\ WorkedOn(h, "Finalize") => WorkedOn(h, "Finalize")'
        /\ WorkedOn(h, "GenCommP") => WorkedOn(h, "GenCommP")'
    BY <1>8, WorkedOnStays DEF WriteDone
  <2>2. CASE h = wgrp[w] /\ row[h] = "Full"
    <3>1. <<"Finalize", h>> \in pending'
      BY <1>8, <2>2 DEF WriteDone, BatchInv, GroupInv
    <3>. QED BY <1>8, <2>2, <3>1, <1>0 DEF WriteDone, Kept,
           Attended, WorkedOn
  <2>3. CASE ~(h = wgrp[w] /\ row[h] = "Full")
    BY <1>0, <1>8, <2>1, <2>3 DEF WriteDone, Kept, Attended, WGoto
  <2>. QED BY <2>2, <2>3
<1>9. ASSUME NEW w \in Writer, FlushSync(w) PROVE Kept(h)'
  <2>1. /\ WorkedOn(h, "Finalize") => WorkedOn(h, "Finalize")'
        /\ WorkedOn(h, "GenCommP") => WorkedOn(h, "GenCommP")'
    BY <1>9, WorkedOnStays DEF FlushSync
  <2>. QED BY <1>0, <1>9, <2>1 DEF FlushSync, WGoto, Kept, Attended
<1>10. ASSUME NEW k \in Worker, NEW t \in Task, TakeTask(k, t) PROVE Kept(h)'
  <2>1. ASSUME NEW tt, WorkedOn(h, tt) PROVE WorkedOn(h, tt)'
    BY <1>10, <2>1 DEF TakeTask, WorkedOn, KGoto
  <2>. QED BY <1>0, <1>10, <2>1 DEF TakeTask, Kept, Attended
<1>11. ASSUME NEW k \in Worker, Lookup(k) PROVE Kept(h)'
  <2>1. KGoto(k, "exec") /\ UNCHANGED ktask
    BY <1>11 DEF Lookup, TaskInv, WorkerInv, Tasked
  <2>2. ASSUME NEW tt, WorkedOn(h, tt) PROVE WorkedOn(h, tt)'
    BY <1>11, <2>1, <2>2 DEF Lookup, WorkedOn, KGoto
  <2>. QED BY <1>0, <1>11, <2>2 DEF Lookup, Kept, Attended
<1>12. ASSUME NEW k \in Worker, ExecTask(k) PROVE Kept(h)'
  <2>. DEFINE g == ktask[k][2]
  <2>1. ktask[k] \in Task /\ g \in openGroups /\ gstate[g] = row[g]
    BY <1>12 DEF ExecTask, TaskInv, WorkerInv, Tasked, GroupInv
  <2>2. ASSUME h # g, NEW tt, WorkedOn(h, tt) PROVE WorkedOn(h, tt)'
    BY <1>12, <2>1, <2>2 DEF ExecTask, WorkedOn, TaskDone, KGoto, Task
  <2>3. CASE h # g
    BY <1>0, <1>12, <2>2, <2>3 DEF ExecTask, Kept, Attended, Advances, AdvanceState
  <2>4. CASE h = g /\ ktask[k][1] = "Finalize"
    <3>1. WorkedOn(h, "Finalize")'
      BY <1>12, <2>1, <2>4 DEF ExecTask, WorkedOn, KGoto, Task
    <3>. QED BY <1>12, <2>1, <2>4, <3>1 DEF ExecTask, Kept, Attended
  <2>5. ASSUME NEW tt, tt # ktask[k][1], WorkedOn(h, tt) PROVE WorkedOn(h, tt)'
    BY <1>12, <2>1, <2>5 DEF ExecTask, WorkedOn, TaskDone, KGoto, Task
  <2>6. CASE h = g /\ ktask[k][1] = "GenCommP"
    <3>1. WorkedOn(h, "Finalize") => WorkedOn(h, "Finalize")'
      BY <2>5, <2>6
    <3>2. h \in dropped' \/ row'[h] = "LocalReady"
      BY <1>12, <2>1, <2>6 DEF ExecTask, Advances, AdvanceState
    <3>. QED BY <1>0, <1>12, <2>1, <2>6, <3>1, <3>2 DEF ExecTask, Kept, Attended
  <2>7. CASE h = g /\ ktask[k][1] = "FinDataReload"
    <3>1. /\ WorkedOn(h, "Finalize") => WorkedOn(h, "Finalize")'
          /\ WorkedOn(h, "GenCommP") => WorkedOn(h, "GenCommP")'
      BY <2>5, <2>7
    <3>2. h \in dropped' \/ row'[h] = "LocalReady"
      BY <1>12, <2>1, <2>7 DEF ExecTask, Advances, AdvanceState
    <3>. QED BY <1>0, <1>12, <2>1, <2>7, <3>1, <3>2 DEF ExecTask, Kept, Attended
  <2>. QED BY <1>12, <2>3, <2>4, <2>6, <2>7 DEF ExecTask
<1>13. ASSUME NEW k \in Worker, ExecCommP(k) PROVE Kept(h)'
  <2>. DEFINE g == ktask[k][2]
  <2>1. /\ ktask[k] \in Task /\ g \in openGroups /\ gstate[g] = row[g]
        /\ row[g] # "Full" \/ g \in dropped
        /\ row[g] # "Writable"
    BY <1>13 DEF ExecCommP, TaskInv, WorkerInv, Tasked, GroupInv
  <2>2. ASSUME h # g, NEW tt, WorkedOn(h, tt) PROVE WorkedOn(h, tt)'
    BY <1>13, <2>1, <2>2 DEF ExecCommP, WorkedOn, TaskDone, KGoto, Task
  <2>3. CASE h # g
    BY <1>0, <1>13, <2>2, <2>3 DEF ExecCommP, Kept, Attended, Advances, AdvanceState
  <2>4. CASE h = g
    BY <1>13, <2>1, <2>4 DEF ExecCommP, Advances, AdvanceState, Kept, Attended
  <2>. QED BY <2>3, <2>4
<1>14. ASSUME NEW g \in GroupKey, OffloadBegin(g) PROVE Kept(h)'
  <2>1. /\ WorkedOn(h, "Finalize") => WorkedOn(h, "Finalize")'
        /\ WorkedOn(h, "GenCommP") => WorkedOn(h, "GenCommP")'
    BY <1>14, WorkedOnStays DEF OffloadBegin
  <2>. QED BY <1>0, <1>14, <2>1 DEF OffloadBegin, CanOffload, AdvanceState, Kept, Attended
<1>15. ASSUME NEW g \in GroupKey, OffloadEnd(g) PROVE Kept(h)'
  <2>1. /\ WorkedOn(h, "Finalize") => WorkedOn(h, "Finalize")'
        /\ WorkedOn(h, "GenCommP") => WorkedOn(h, "GenCommP")'
    BY <1>15, WorkedOnStays DEF OffloadEnd
  <2>. QED BY <1>0, <1>15, <2>1 DEF OffloadEnd, Kept, Attended
<1>16. ASSUME NEW g \in GroupKey, LoadFilCar(g) PROVE Kept(h)'
  <2>1. /\ WorkedOn(h, "Finalize") => WorkedOn(h, "Finalize")'
        /\ WorkedOn(h, "GenCommP") => WorkedOn(h, "GenCommP")'
    BY <1>16, WorkedOnStays DEF LoadFilCar
  <2>. QED BY <1>0, <1>16, <2>1 DEF LoadFilCar, AdvanceState, Kept, Attended
<1>17. ASSUME NEW g \in GroupKey, ViewGroup(g) PROVE Kept(h)'
  <2>1. /\ WorkedOn(h, "Finalize") => WorkedOn(h, "Finalize")'
        /\ WorkedOn(h, "GenCommP") => WorkedOn(h, "GenCommP")'
    BY <1>17, WorkedOnStays DEF ViewGroup, WithReadable, OpenGroup
  <2>2. CASE h = g /\ h \notin openGroups
    BY <1>17, <2>2 DEF ViewGroup, WithReadable, OpenGroup, ResumeTask, Kept,
           Attended, WorkedOn
  <2>3. CASE h # g \/ h \in openGroups
    BY <1>0, <1>17, <2>1, <2>3 DEF ViewGroup, WithReadable, OpenGroup, Kept, Attended
  <2>. QED BY <2>2, <2>3
<1>18. ASSUME NEW g \in GroupKey, ResumeGroup(g) PROVE Kept(h)'
  <2>1. /\ WorkedOn(h, "Finalize") => WorkedOn(h, "Finalize")'
        /\ WorkedOn(h, "GenCommP") => WorkedOn(h, "GenCommP")'
    BY <1>18, WorkedOnStays DEF ResumeGroup, WithReadable, OpenGroup
  <2>2. CASE h = g /\ h \notin openGroups
    BY <1>18, <2>2 DEF ResumeGroup, WithReadable, OpenGroup, ResumeTask, Kept,
           Attended, WorkedOn
  <2>3. CASE h # g \/ h \in openGroups
    BY <1>0, <1>18, <2>1, <2>3 DEF ResumeGroup, WithReadable, OpenGroup, Kept, Attended
  <2>. QED BY <2>2, <2>3
<1>19. ASSUME Crash PROVE Kept(h)'
  BY <1>19 DEF Crash, Kept, Attended
<1>20. ASSUME ResumeFails PROVE Kept(h)'
  <2>1. /\ WorkedOn(h, "Finalize") => WorkedOn(h, "Finalize")'
        /\ WorkedOn(h, "GenCommP") => WorkedOn(h, "GenCommP")'
    BY <1>20, WorkedOnStays DEF ResumeFails
  <2>. QED BY <1>0, <1>20, <2>1 DEF ResumeFails, Kept, Attended
<1>. QED BY <1>1, <1>2, <1>3, <1>4, <1>5, <1>6, <1>7, <1>8, <1>9, <1>10, <1>11, <1>12,
            <1>13, <1>14, <1>15, <1>16, <1>17, <1>18, <1>19, <1>20 DEF Next, WriteStep,
            FlushStep, WorkerStep, Moving

-------------------------------------------------------------------------------
(***************************************************************************)
(* The empty tables and a process that has just started satisfy the        *)
(* invariant (Init: no group, no batch under way).                         *)
(***************************************************************************)
LEMMA InitIInv == Init => IInv
<1>. SUFFICES ASSUME Init PROVE IInv
  OBVIOUS
<1>. USE DEF Init
<1>1. TypeOK
  BY DEF TypeOK, State, WriterPC
<1>2. LockInv /\ GroupInv /\ BatchInv /\ SyncInv
  BY DEF LockInv, GroupInv, BatchInv, SyncInv, LkPC, WriteLkPC, Creating, Offloads
<1>3. SpaceInv
  <2>1. Local = {}
    BY DEF Local, Existing
  <2>. QED BY <2>1, FS_EmptySet DEF SpaceInv, LocalBounded, Offloads
<1>4. TaskInv
  BY DEF TaskInv, PendingInv, WorkerInv, Kept
<1>. QED BY <1>1, <1>2, <1>3, <1>4 DEF IInv

(***************************************************************************)
(* Every step of the batches, the workers, the offloads and the restart    *)
(* keeps the invariant.                                                    *)
(***************************************************************************)
LEMMA NextIInv == IInv /\ [Next]_vars => IInv'
<1>. SUFFICES ASSUME IInv, [Next]_vars PROVE IInv'
  OBVIOUS
<1>. USE DEF IInv
<1>1. CASE Next
  <2>1. TypeOK' /\ LockInv' /\ GroupInv' /\ BatchInv' /\ SyncInv'
    BY <1>1, TypeStep, LockStep, GroupStep, BatchStep, SyncStep
  <2>2. SpaceInv'
    BY <1>1, SpaceStep
  <2>3. TaskInv'
    BY <1>1, PendingStep, WorkerKeeps, KeptStep DEF TaskInv
  <2>. QED BY <2>1, <2>2, <2>3
<1>2. CASE UNCHANGED vars
  <2>. USE <1>2 DEF vars, dbVars, lockVars, groupVars, taskVars, writerVars, workerVars
  <2>1. TypeOK' /\ LockInv' /\ BatchInv'
    BY DEF TypeOK, LockInv, BatchInv
  <2>2. GroupInv' /\ SyncInv'
    BY DEF GroupInv, SyncInv
  <2>3. SpaceInv'
    BY SpaceStays DEF Local, Existing, Counts
  <2>4. TaskInv'
    BY DEF TaskInv, PendingInv, WorkerInv, Tasked, Kept,
           Attended, WorkedOn
  <2>. QED BY <2>1, <2>2, <2>3, <2>4
<1>. QED BY <1>1, <1>2

(***************************************************************************)
(* Every reachable state of the manager satisfies the invariant.           *)
(***************************************************************************)
THEOREM Invariance == Spec => []IInv
  BY InitIInv, NextIInv, PTL DEF Spec

(***************************************************************************)
(* Every variable stays in its type: no task, lock owner or row comes to   *)
(* name a group or a batch that does not exist.                            *)
(***************************************************************************)
THEOREM TypeCorrect == Spec => []TypeOK
<1>1. IInv => TypeOK
  BY DEF IInv
<1>. QED BY <1>1, Invariance, PTL

(***************************************************************************)
(* There is never a second writable group, whatever the number of batches  *)
(* that race to create one and however often the process restarts          *)
(* (withWritableGroup and createGroup under writeLk).                      *)
(***************************************************************************)
THEOREM OneWritableAlways == Spec => []OneWritable
<1>1. ASSUME IInv PROVE OneWritable
  <2>. DEFINE W == {g \in GroupKey : row[g] = "Writable"}
  <2>1. \A g, h \in W : g = h
    BY <1>1 DEF IInv, GroupInv
  <2>2. CASE W = {}
    BY <2>2, FS_EmptySet DEF OneWritable
  <2>3. CASE W # {}
    <3>1. PICK g : W = {g}
      BY <2>1, <2>3
    <3>2. Cardinality(W) = 1
      BY <3>1, FS_Singleton
    <3>. QED BY <3>2 DEF OneWritable
  <2>. QED BY <2>2, <2>3
<1>. QED BY <1>1, Invariance, PTL

(***************************************************************************)
(* There are never more than MaxLocalGroupCount groups that are not        *)
(* offloaded, although ensureSpaceForGroup releases lk between the check   *)
(* and the creation.                                                       *)
(***************************************************************************)
THEOREM LocalBoundedAlways == Spec => []LocalBounded
<1>1. IInv => LocalBounded
  BY DEF IInv, SpaceInv
<1>. QED BY <1>1, Invariance, PTL

(***************************************************************************)
(* When Flush returns, every block of the batch has been synced: also those*)
(* of a group that another batch filled while Flush had released lk.       *)
(***************************************************************************)
THEOREM FlushCommitsAlways == Spec => []FlushCommits
<1>1. IInv => FlushCommits
  BY DEF IInv, SyncInv, FlushCommits
<1>. QED BY <1>1, Invariance, PTL

(***************************************************************************)
(* No full group is ever without somebody who takes it to its CommP: the   *)
(* queue, a worker, the batch that filled it or the resumption at start,   *)
(* unless a task of it failed or the resumption gave it up.                *)
(***************************************************************************)
THEOREM NothingForgottenAlways == Spec => []NothingForgotten
<1>1. IInv => NothingForgotten
  BY DEF IInv, TaskInv, Kept, Attended, NothingForgotten
<1>. QED BY <1>1, Invariance, PTL

-------------------------------------------------------------------------------
(***************************************************************************)
(* A group that was given up, or that a restart is to resume, was filled   *)
(* once (its row never goes back to Writable).  An open one stays in the   *)
(* state of the task that failed.                                          *)
(***************************************************************************)
DroppedInv ==
  /\ \A g \in dropped \cup toResume : row[g] \notin {"none", "Writable"}
  /\ \A g \in dropped \cap openGroups : row[g] \in {"Full", "VRCARDone", "Reload"}

(***************************************************************************)
(* A step keeps that: only groups with a task or on the list of the        *)
(* resumption are given up (Advances, ResumeFails).                        *)
(***************************************************************************)
LEMMA DroppedStep ==
  ASSUME IInv, TasksDue, DroppedInv, Next
  PROVE  DroppedInv'
<1>. USE DEF DroppedInv, dbVars, lockVars, groupVars, taskVars, writerVars, workerVars
<1>1. /\ dropped \subseteq GroupKey /\ toResume \subseteq GroupKey
      /\ row \in [GroupKey -> State \cup {"none"}]
  BY DEF IInv, TypeOK
<1>2. ASSUME NEW w \in Writer, Moving(w) PROVE DroppedInv'
  BY <1>2, MovingFrame DEF IInv
<1>3. ASSUME UNCHANGED row, dropped' \cup toResume' \subseteq dropped \cup toResume,
             dropped' \cap openGroups' \subseteq dropped \cap openGroups
      PROVE  DroppedInv'
  BY <1>3
<1>4. ASSUME NEW w \in Writer,
             SelectRow(w) \/ OffloadStaging(w) \/ CreateFiles(w) \/ WriteDone(w)
      PROVE  DroppedInv'
  <2>1. ASSUME NEW g \in GroupKey, g \notin dropped, openGroups' \subseteq openGroups \cup {g},
               UNCHANGED <<row, dropped, toResume>>
        PROVE  DroppedInv'
    BY <2>1
  <2>2. CASE SelectRow(w)
    BY <2>1, <2>2 DEF SelectRow, OpenGroup
  <2>3. CASE CreateFiles(w)
    BY <2>1, <2>3 DEF CreateFiles, IInv, BatchInv
  <2>4. CASE OffloadStaging(w) \/ WriteDone(w)
    BY <1>3, <2>4 DEF OffloadStaging, WriteDone
  <2>. QED BY <1>4, <2>2, <2>3, <2>4
<1>5. ASSUME NEW w \in Writer, OpenCandidate(w) PROVE DroppedInv'
  BY <1>3, <1>5 DEF OpenCandidate, WithReadable, OpenGroup
<1>6. ASSUME NEW w \in Writer, CreateRow(w) PROVE DroppedInv'
  BY <1>1, <1>6 DEF CreateRow
<1>7. ASSUME NEW w \in Writer, Put(w) PROVE DroppedInv'
  BY <1>1, <1>7 DEF Put
<1>8. ASSUME NEW w \in Writer, FlushSync(w) PROVE DroppedInv'
  <2>1. wgrp[w] \in openGroups /\ gstate[wgrp[w]] = row[wgrp[w]]
    BY <1>8 DEF FlushSync, IInv, BatchInv, GroupInv
  <2>. QED BY <1>1, <1>8, <2>1 DEF FlushSync
<1>9. ASSUME NEW k \in Worker, NEW t \in Task, TakeTask(k, t) PROVE DroppedInv'
  BY <1>3, <1>9 DEF TakeTask
<1>10. ASSUME NEW k \in Worker, Lookup(k) PROVE DroppedInv'
  BY <1>3, <1>10 DEF Lookup
<1>11. ASSUME NEW k \in Worker, ExecTask(k) \/ ExecCommP(k) PROVE DroppedInv'
  <2>. DEFINE g == ktask[k][2]
  <2>1. g \in GroupKey /\ row[g] \in {"Full", "VRCARDone", "Reload"}
    BY <1>11 DEF ExecTask, ExecCommP, IInv, TaskInv, WorkerInv, Task, TasksDue, Due
  <2>2. UNCHANGED <<toResume, openGroups>>
    BY <1>11 DEF ExecTask, ExecCommP
  <2>3. CASE row' = row /\ dropped' = dropped \cup {g}
    BY <2>1, <2>2, <2>3
  <2>4. CASE ~(row' = row /\ dropped' = dropped \cup {g})
    <3>1. /\ dropped' = dropped
          /\ \E st \in {"VRCARDone", "LocalReady"} : row' = [row EXCEPT ![g] = st]
          /\ kpc[k] = "commp" => gstate[g] = "VRCARDone"
      BY <1>11, <2>4 DEF ExecTask, ExecCommP, Advances, AdvanceState
    <3>2. gstate[g] = row[g]
      BY <1>11 DEF ExecTask, ExecCommP, IInv, TaskInv, WorkerInv, Tasked, GroupInv
    <3>3. kpc[k] \in {"exec", "commp"}
      BY <1>11 DEF ExecTask, ExecCommP
    <3>4. g \in dropped => kpc[k] = "commp"
      BY <2>1, <3>3 DEF TasksDue, Busy
    <3>5. g \in dropped /\ kpc[k] = "commp" => row[g] = "Full"
      BY DEF IInv, TaskInv, WorkerInv, TasksDue, FellThrough, Due
    <3>. QED BY <1>1, <2>1, <2>2, <3>1, <3>2, <3>4, <3>5
  <2>. QED BY <2>3, <2>4
<1>12. ASSUME NEW g \in GroupKey, OffloadBegin(g) \/ LoadFilCar(g) PROVE DroppedInv'
  <2>1. g \in openGroups /\ row[g] \in {"LocalReady", "Offloaded"}
    BY <1>12 DEF OffloadBegin, LoadFilCar, CanOffload, IInv, GroupInv
  <2>2. /\ UNCHANGED <<dropped, toResume, openGroups>>
        /\ \E st \in {"Offloaded", "Reload"} : row' = [row EXCEPT ![g] = st]
    BY <1>12 DEF OffloadBegin, LoadFilCar, AdvanceState
  <2>. QED BY <1>1, <2>1, <2>2
<1>13. ASSUME NEW g \in GroupKey, OffloadEnd(g) PROVE DroppedInv'
  BY <1>3, <1>13 DEF OffloadEnd
<1>14. ASSUME NEW g \in GroupKey, ViewGroup(g) PROVE DroppedInv'
  BY <1>3, <1>14 DEF ViewGroup, WithReadable, OpenGroup
<1>15. ASSUME NEW g \in GroupKey, ResumeGroup(g) PROVE DroppedInv'
  BY <1>3, <1>15 DEF ResumeGroup, WithReadable, OpenGroup
<1>16. ASSUME ResumeFails PROVE DroppedInv'
  BY <1>3, <1>16 DEF ResumeFails
<1>17. ASSUME Crash PROVE DroppedInv'
  BY <1>17 DEF Crash
<1>. QED BY <1>2, <1>4, <1>5, <1>6, <1>7, <1>8, <1>9, <1>10, <1>11, <1>12, <1>13, <1>14,
            <1>15, <1>16, <1>17 DEF Next, WriteStep, FlushStep, WorkerStep, Moving

(***************************************************************************)
(* A step keeps the tasks due: one is sent only for a group that was       *)
(* closed, was filled by the batch that sends it, or was offloaded, none of*)
(* which has another, and only the worker at a task moves its group on.    *)
(***************************************************************************)
LEMMA DueStep ==
  ASSUME IInv, TasksDue, DroppedInv, Next
  PROVE  TasksDue'
<1>. USE DEF IInv, TypeOK, LockInv, GroupInv, BatchInv, TaskInv, PendingInv, WorkerInv,
             Tasked, Task, State, LkPC, WriteLkPC, NoTask, dbVars, lockVars, groupVars,
             taskVars, writerVars, workerVars, TasksDue, Due, Busy, Untasked, FellThrough
<1>1. ASSUME NEW w \in Writer, Moving(w) PROVE TasksDue'
  BY <1>1, MovingFrame
<1>2. ASSUME NEW w \in Writer, SelectRow(w) PROVE TasksDue'
  BY <1>2 DEF SelectRow, OpenGroup, WGoto
<1>3. ASSUME NEW w \in Writer, OpenCandidate(w) PROVE TasksDue'
  BY <1>3 DEF OpenCandidate, WithReadable, OpenGroup, ResumeTask, WGoto
<1>4. ASSUME NEW w \in Writer, OffloadStaging(w) PROVE TasksDue'
  BY <1>4 DEF OffloadStaging, CanOffload, WGoto
<1>5. ASSUME NEW w \in Writer, CreateRow(w) PROVE TasksDue'
  BY <1>5 DEF CreateRow, WGoto
<1>6. ASSUME NEW w \in Writer, CreateFiles(w) PROVE TasksDue'
  BY <1>6 DEF CreateFiles, WGoto
<1>7. ASSUME NEW w \in Writer, Put(w) PROVE TasksDue'
  <2>. USE <1>7 DEF Put, WGoto
  <2>1. row[wgrp[w]] = "Writable" /\ wgrp'[w] = wgrp[w] /\ UNCHANGED <<pending, kpc, ktask, openGroups>>
    OBVIOUS
  <2>2. \A g \in GroupKey \ {wgrp[w]} : row'[g] = row[g]
    OBVIOUS
  <2>3. \A v \in Writer : wpc'[v] = "done" => v = w
    BY DEF LkPC
  <2>4. Untasked(wgrp[w])
    <3>1. \A t \in pending : t[2] # wgrp[w]
      BY <2>1
    <3>2. \A k \in Worker : kpc[k] # "idle" => ktask[k][2] # wgrp[w]
      BY <2>1
    <3>. QED BY <3>1, <3>2
  <2>5. \A t \in pending' : row'[t[2]] = Due[t[1]]
    BY <2>1, <2>2, <2>4
  <2>6. \A k \in Worker : kpc'[k] # "idle" => row'[ktask'[k][2]] = row[ktask[k][2]]
    BY <2>1, <2>2, <2>4
  <2>7. wgrp[w] \notin dropped /\ UNCHANGED <<dropped, toResume>>
    BY DEF DroppedInv
  <2>8. row'[wgrp[w]] \in {"Writable", "Full"}
    OBVIOUS
  <2>. HIDE <1>7
  <2>. HIDE DEF IInv, TypeOK, LockInv, GroupInv, BatchInv, TaskInv, PendingInv, WorkerInv
  <2>. QED BY <2>1, <2>3, <2>4, <2>5, <2>6, <2>7, <2>8
<1>8. ASSUME NEW w \in Writer, WriteDone(w) PROVE TasksDue'
  <2>. USE <1>8 DEF WriteDone, UnlockBoth, WGoto
  <2>1. UNCHANGED <<kpc, ktask, openGroups, row>> /\ wgrp[w] \in openGroups /\ gstate[wgrp[w]] = row[wgrp[w]]
    OBVIOUS
  <2>2. \A v \in Writer : wpc'[v] # "done"
    BY DEF LkPC
  <2>3. /\ \A t \in pending : t[2] # wgrp[w]
        /\ \A k \in Worker : ~Busy(k, wgrp[w])
        /\ wgrp[w] \notin dropped /\ UNCHANGED <<dropped, toResume>>
    OBVIOUS
  <2>4. \/ pending' = pending
        \/ pending' = pending \cup {<<"Finalize", wgrp[w]>>} /\ row[wgrp[w]] = "Full"
    BY <2>1
  <2>. QED BY <2>1, <2>2, <2>3, <2>4
<1>9. ASSUME NEW w \in Writer, FlushSync(w) PROVE TasksDue'
  BY <1>9 DEF FlushSync, WGoto
<1>10. ASSUME NEW k \in Worker, NEW t \in Task, TakeTask(k, t) PROVE TasksDue'
  BY <1>10 DEF TakeTask, KGoto
<1>11. ASSUME NEW k \in Worker, Lookup(k) PROVE TasksDue'
  <2>1. kpc[k] = "lookup" /\ UNCHANGED <<row, pending, openGroups, toResume, dropped, wpc, wgrp>>
    BY <1>11 DEF Lookup
  <2>2. \A j \in Worker \ {k} : kpc'[j] = kpc[j] /\ ktask'[j] = ktask[j]
    BY <1>11 DEF Lookup, TaskDone, KGoto
  <2>3. kpc'[k] = "idle" \/ (kpc'[k] = "exec" /\ ktask'[k] = ktask[k])
    BY <1>11 DEF Lookup, TaskDone, KGoto
  <2>. HIDE DEF IInv, TypeOK, LockInv, GroupInv, BatchInv, TaskInv, PendingInv, WorkerInv
  <2>. QED BY <2>1, <2>2, <2>3
<1>12. ASSUME NEW k \in Worker, ExecTask(k) PROVE TasksDue'
  <2>. DEFINE g == ktask[k][2]
  <2>1. /\ g \in GroupKey /\ kpc[k] = "exec"
        /\ \A t \in pending : t[2] # g
        /\ \A j \in Worker \ {k} : ~Busy(j, g)
        /\ \A w \in Writer : wpc[w] = "done" => wgrp[w] # g
    BY <1>12 DEF ExecTask
  <2>0. g \in openGroups /\ ktask[k] \in Task
    BY <1>12 DEF ExecTask
  <2>2. /\ UNCHANGED <<pending, openGroups, wpc, wgrp>>
        /\ \A h \in GroupKey \ {g} : row'[h] = row[h]
        /\ \A j \in Worker \ {k} : kpc'[j] = kpc[j] /\ ktask'[j] = ktask[j]
    BY <1>12 DEF ExecTask, TaskDone, Advances, AdvanceState, KGoto
  <2>3. /\ toResume' = toResume
        /\ \/ kpc'[k] = "idle" /\ dropped' \in {dropped, dropped \cup {g}}
           \/ /\ kpc'[k] = "commp" /\ ktask'[k] = ktask[k]
              /\ \/ row'[g] = "VRCARDone" /\ dropped' = dropped
                 \/ row'[g] = row[g] /\ ktask[k][1] = "Finalize" /\ dropped' = dropped \cup {g}
    BY <1>12 DEF ExecTask, TaskDone, Advances, AdvanceState, KGoto
  <2>4. \A w \in Writer : wpc[w] = "done" => wgrp[w] \in GroupKey
    OBVIOUS
  <2>5. \A t \in pending : t[2] \in GroupKey
    OBVIOUS
  <2>6. \A j \in Worker : kpc[j] # "idle" => ktask[j][2] \in GroupKey
    OBVIOUS
  <2>. HIDE DEF g, IInv, TypeOK, LockInv, GroupInv, BatchInv, TaskInv, PendingInv, WorkerInv
  <2>7. \A t \in pending' : /\ t[2] \in openGroups' /\ row'[t[2]] = Due[t[1]]
                           /\ \A j \in Worker : ~Busy(j, t[2])'
    BY <2>1, <2>2, <2>3, <2>5
  <2>8. \A j \in Worker : kpc'[j] # "idle" =>
          row'[ktask'[j][2]] = IF FellThrough(j)' THEN "VRCARDone" ELSE Due[ktask'[j][1]]
    <3>1. ASSUME kpc'[k] # "idle"
          PROVE  row'[ktask'[k][2]] = IF FellThrough(k)' THEN "VRCARDone" ELSE Due[ktask'[k][1]]
      <4>1. ktask'[k] = ktask[k] /\ kpc'[k] = "commp"
        BY <2>3, <3>1
      <4>2. g \notin dropped /\ ~FellThrough(k) /\ row[g] = Due[ktask[k][1]]
        BY <2>1 DEF g
      <4>. QED BY <2>3, <4>1, <4>2 DEF g
    <3>2. ASSUME NEW j \in Worker, j # k, kpc'[j] # "idle"
          PROVE  row'[ktask'[j][2]] = IF FellThrough(j)' THEN "VRCARDone" ELSE Due[ktask'[j][1]]
      <4>1. ktask[j][2] # g /\ ktask[j][2] \in GroupKey /\ kpc[j] # "idle"
        BY <2>1, <2>2, <2>6, <3>2
      <4>2. FellThrough(j)' <=> FellThrough(j)
        BY <2>2, <2>3, <3>2, <4>1
      <4>. QED BY <2>2, <3>2, <4>1, <4>2
    <3>. QED BY <2>3, <3>1, <3>2
  <2>9. \A i, j \in Worker : kpc'[i] # "idle" /\ Busy(j, ktask[i][2])' => i = j
    BY <2>1, <2>2, <2>3
  <2>10. \A w \in Writer : wpc'[w] = "done" =>
           /\ Untasked(wgrp[w])' /\ wgrp'[w] \notin dropped'
           /\ row'[wgrp'[w]] \in {"Writable", "Full"}
    BY <2>1, <2>2, <2>3, <2>4 DEF g
  <2>11. \A h \in dropped' :
           /\ h \notin toResume' \ openGroups'
           /\ \A t \in pending' : t[2] # h
           /\ \A j \in Worker : Busy(j, h)' => kpc'[j] = "commp"
    BY <2>0, <2>1, <2>2, <2>3
  <2>. HIDE DEF Untasked, Due
  <2>. QED BY <2>7, <2>8, <2>9, <2>10, <2>11
<1>13. ASSUME NEW k \in Worker, ExecCommP(k) PROVE TasksDue'
  BY <1>13 DEF ExecCommP, TaskDone, Advances, AdvanceState, KGoto
<1>14. ASSUME NEW g \in GroupKey, OffloadBegin(g) PROVE TasksDue'
  BY <1>14 DEF OffloadBegin, CanOffload, AdvanceState
<1>15. ASSUME NEW g \in GroupKey, OffloadEnd(g) PROVE TasksDue'
  BY <1>15 DEF OffloadEnd
<1>16. ASSUME NEW g \in GroupKey, LoadFilCar(g) PROVE TasksDue'
  <2>1. /\ row[g] = "Offloaded" /\ g \in openGroups
        /\ row' = [row EXCEPT ![g] = "Reload"] /\ pending' = pending \cup {<<"FinDataReload", g>>}
        /\ UNCHANGED <<openGroups, toResume, dropped, wpc, wgrp, kpc, ktask>>
    BY <1>16 DEF LoadFilCar, AdvanceState
  <2>2. /\ \A t \in pending : t[2] # g
        /\ \A k \in Worker : ~Busy(k, g)
        /\ g \notin dropped
    BY <2>1 DEF DroppedInv
  <2>3. ASSUME NEW w \in Writer, wpc[w] = "done" PROVE wgrp[w] # g
    BY <2>1, <2>3
  <2>4. \A w \in Writer : wpc[w] = "done" => wgrp[w] \in GroupKey
    OBVIOUS
  <2>. QED BY <2>1, <2>2, <2>3, <2>4
<1>17. ASSUME NEW g \in GroupKey, ViewGroup(g) PROVE TasksDue'
  BY <1>17 DEF ViewGroup, WithReadable, OpenGroup, ResumeTask
<1>18. ASSUME NEW g \in GroupKey, ResumeGroup(g) PROVE TasksDue'
  BY <1>18 DEF ResumeGroup, WithReadable, OpenGroup, ResumeTask
<1>19. ASSUME Crash PROVE TasksDue'
  BY <1>19 DEF Crash
<1>20. ASSUME ResumeFails PROVE TasksDue'
  BY <1>20 DEF ResumeFails
<1>. QED BY <1>1, <1>2, <1>3, <1>4, <1>5, <1>6, <1>7, <1>8, <1>9, <1>10, <1>11, <1>12,
            <1>13, <1>14, <1>15, <1>16, <1>17, <1>18, <1>19, <1>20 DEF Next, WriteStep,
            FlushStep, WorkerStep, Moving

(***************************************************************************)
(* Nobody on the way to CommP is forgotten, and no group has two tasks or  *)
(* one that is late, with any number of workers and readers: no two of     *)
(* Finalize, GenCommP and FinDataReload are ever at the same group, so that*)
(* each of them may look at the state first and set the next one later.    *)
(***************************************************************************)
THEOREM TaskAccountingAlways == Spec => []TaskAccounting
<1>1. Init => TasksDue /\ DroppedInv
  BY DEF Init, TasksDue, DroppedInv
<1>2. IInv /\ TasksDue /\ DroppedInv /\ [Next]_vars => (TasksDue /\ DroppedInv)'
  <2>1. IInv /\ TasksDue /\ DroppedInv /\ Next => (TasksDue /\ DroppedInv)'
    BY DueStep, DroppedStep
  <2>2. TasksDue /\ DroppedInv /\ UNCHANGED vars => (TasksDue /\ DroppedInv)'
    BY DEF TasksDue, DroppedInv, Busy, Untasked, FellThrough, vars, dbVars, groupVars, taskVars,
           writerVars, workerVars
  <2>. QED BY <2>1, <2>2
<1>3. Spec => []TasksDue
  BY <1>1, <1>2, Invariance, PTL DEF Spec
<1>4. NothingForgotten /\ TasksDue => TaskAccounting
  BY DEF TaskAccounting
<1>. QED BY <1>3, <1>4, NothingForgottenAlways, PTL

-------------------------------------------------------------------------------
(***************************************************************************)
(* A step takes the row of a group on in its life or leaves it alone.      *)
(* Only Put, the worker at the group, Offload and LoadFilCar move it, from *)
(* the state they find in memory, which is the row's; a Sync writes that.  *)
(***************************************************************************)
LEMMA LifeStep ==
  ASSUME IInv, Next, NEW h \in GroupKey
  PROVE  Life(h)!LifeNext \/ UNCHANGED row[h]
<1>. USE DEF IInv, TypeOK, GroupInv, BatchInv, TaskInv, WorkerInv, Tasked, Task, dbVars, groupVars,
             Life!LifeNext, Life!Moves
<1>. DEFINE G == Life(h)!LifeNext \/ UNCHANGED row[h]
<1>1. ASSUME NEW w \in Writer, Moving(w) PROVE G
  BY <1>1, MovingFrame
<1>2. ASSUME NEW w \in Writer, CreateRow(w) PROVE G
  BY <1>2 DEF CreateRow, Life!Create
<1>3. ASSUME NEW w \in Writer, Put(w) PROVE G
  BY <1>3 DEF Put, Life!Fill
<1>4. ASSUME NEW w \in Writer, FlushSync(w) PROVE G
  BY <1>4 DEF FlushSync
<1>5. ASSUME NEW k \in Worker, ExecTask(k) PROVE G
  BY <1>5 DEF ExecTask, Advances, AdvanceState, Life!Finalize, Life!GenCommP, Life!FinDataReload
<1>6. ASSUME NEW k \in Worker, ExecCommP(k) PROVE G
  BY <1>6 DEF ExecCommP, Advances, AdvanceState, Life!GenCommP
<1>7. ASSUME NEW g \in GroupKey, OffloadBegin(g) PROVE G
  BY <1>7 DEF OffloadBegin, CanOffload, AdvanceState, Life!Offload
<1>8. ASSUME NEW g \in GroupKey, LoadFilCar(g) PROVE G
  BY <1>8 DEF LoadFilCar, AdvanceState, Life!LoadFilCar
<1>9. ASSUME UNCHANGED row PROVE G
  BY <1>9
<1>10. ASSUME NEW w \in Writer,
              \/ SelectRow(w) \/ OpenCandidate(w) \/ OffloadStaging(w) \/ CreateFiles(w)
              \/ WriteDone(w)
       PROVE  G
  BY <1>9, <1>10 DEF SelectRow, OpenCandidate, OffloadStaging, CreateFiles, WriteDone
<1>11. ASSUME NEW k \in Worker, NEW t \in Task, TakeTask(k, t) PROVE G
  BY <1>9, <1>11 DEF TakeTask
<1>12. ASSUME NEW g \in GroupKey, OffloadEnd(g) \/ ViewGroup(g) \/ ResumeGroup(g) PROVE G
  BY <1>9, <1>12 DEF OffloadEnd, ViewGroup, ResumeGroup
<1>13. ASSUME Crash PROVE G
  BY <1>9, <1>13 DEF Crash
<1>14. ASSUME (\E k \in Worker : Lookup(k)) \/ ResumeFails PROVE G
  BY <1>9, <1>14 DEF Lookup, ResumeFails
<1>. HIDE DEF G
<1>15. G
  BY <1>1, <1>2, <1>3, <1>4, <1>5, <1>6, <1>7, <1>8, <1>10, <1>11, <1>12, <1>13, <1>14
     DEF Next, WriteStep, FlushStep, WorkerStep, Moving
<1>. QED BY <1>15 DEF G

(***************************************************************************)
(* The manager takes each of its groups through the life that Group        *)
(* follows (FollowGroupLife), for any number of groups, batches, workers   *)
(* and crashes: seen from the groups table, the operations Group makes of  *)
(* many steps and those that are one step here are the same.               *)
(***************************************************************************)
THEOREM LifeRefinement == Spec => FollowGroupLife
<1>1. Init => \A g \in GroupKey : Life(g)!LifeInit
  BY DEF Init, Life!LifeInit
<1>2. IInv /\ [Next]_vars => [\A g \in GroupKey : Life(g)!LifeNext \/ UNCHANGED row[g]]_row
  BY LifeStep DEF vars, dbVars
<1>. QED BY <1>1, <1>2, Invariance, PTL DEF Spec, FollowGroupLife
===============================================================================
