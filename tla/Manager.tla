-------------------------------- MODULE Manager --------------------------------
(***************************************************************************)
(* The group manager (rbstor/rbs.go, group_storage.go, group_worker.go):   *)
(* batches that write to whichever group is writable, the two mutexes lk   *)
(* and writeLk, the creation of groups within a limit of local ones, the   *)
(* task queue and the workers that take a full group to its CommP, the     *)
(* offload of groups, and what a restart finds of all this in the groups   *)
(* and offloads tables.                                                    *)
(*                                                                         *)
(* A group's own operations (Put, Sync, Finalize, GenCommP) are the steps  *)
(* of module Group, here one step each.  How many blocks fill a group is   *)
(* left open: any Put may find it full.  Tasks of goroutines that are      *)
(* about to send, and of the queue, are one bag of pending tasks, as the   *)
(* queue (1024) is longer than there are groups.                           *)
(***************************************************************************)
EXTENDS Integers, FiniteSets

CONSTANTS
  GroupKey,    \* the keys groups can get
  Writer,      \* batches, each used by one goroutine
  Worker,      \* group workers
  NoOne,       \* no owner, no group
  MaxLocal,    \* MaxLocalGroupCount
  MaxAway,     \* bound on the groups that Offload has moved away at one time
  MaxCrashes   \* bound on crashes

ASSUME ManagerAssumption ==
  /\ IsFiniteSet(GroupKey) /\ NoOne \notin GroupKey /\ NoOne \notin Writer
  /\ Writer \cap Worker = {}
  /\ MaxLocal \in Nat \ {0} /\ MaxAway \in Nat /\ MaxCrashes \in Nat

VARIABLES
  \* on disk
  row,        \* groups.g_state, "none" when there is no such row
  offloads,   \* the groups with a row in offloads
  files,      \* the groups whose log was created
  \* in memory
  lk, writeLk,   \* owners of the two mutexes
  openGroups, writableGroups,
  gstate,     \* Group.state of the open groups
  unsynced,   \* the batches with blocks in a group that were not synced
  pending,    \* tasks sent or about to be sent: <<type, group>>
  toResume,   \* groups resumeGroups has still to open
  offloading, \* groups between the two database writes of offload
  wpc, wgrp, toFlush, synced, \* each batch: where it is, its group, its groups to flush
  kpc, ktask, \* each worker: where it is and its task
  crashes,
  \* observer: no action's guard reads it
  dropped     \* groups whose task failed, or whose resumption was given up

dbVars     == <<row, offloads, files>>
lockVars   == <<lk, writeLk>>
groupVars  == <<openGroups, writableGroups, gstate, unsynced>>
taskVars   == <<pending, toResume, offloading, dropped>>
writerVars == <<wpc, wgrp, toFlush, synced>>
workerVars == <<kpc, ktask>>
vars == <<dbVars, lockVars, groupVars, taskVars, writerVars, workerVars, crashes>>

State == {"Writable", "Full", "VRCARDone", "LocalReady", "Offloaded", "Reload"}
Task  == {"Finalize", "GenCommP", "FinDataReload"} \X GroupKey
NoTask == <<"none", NoOne>>

WriterPC == {"idle", "writeLk", "select", "space", "candidate", "wait", "open", "offload",
             "relock", "relock_err", "row", "files", "put", "done",
             "f_loop", "f_sync", "f_relock", "f_done"}

TypeOK ==
  /\ row \in [GroupKey -> State \cup {"none"}]
  /\ offloads \subseteq GroupKey /\ files \subseteq GroupKey
  /\ lk \in Writer \cup {NoOne} /\ writeLk \in Writer \cup {NoOne}
  /\ openGroups \subseteq GroupKey /\ writableGroups \subseteq openGroups
  /\ gstate \in [GroupKey -> State]
  /\ unsynced \in [GroupKey -> SUBSET Writer]
  /\ pending \subseteq Task
  /\ toResume \subseteq GroupKey /\ offloading \subseteq GroupKey
  /\ wpc \in [Writer -> WriterPC]
  /\ wgrp \in [Writer -> GroupKey \cup {NoOne}]
  /\ toFlush \in [Writer -> SUBSET GroupKey] /\ synced \in [Writer -> SUBSET GroupKey]
  /\ kpc \in [Worker -> {"idle", "lookup", "exec", "commp"}]
  /\ ktask \in [Worker -> Task \cup {NoTask}]
  /\ crashes \in 0 .. MaxCrashes
  /\ dropped \subseteq GroupKey

Existing == {g \in GroupKey : row[g] # "none"}
Local    == Existing \ offloads      \* CountNonOffloadedGroups

Init ==
  /\ row = [g \in GroupKey |-> "none"] /\ offloads = {} /\ files = {}
  /\ lk = NoOne /\ writeLk = NoOne
  /\ openGroups = {} /\ writableGroups = {}
  /\ gstate = [g \in GroupKey |-> "Writable"]
  /\ unsynced = [g \in GroupKey |-> {}]
  /\ pending = {} /\ toResume = {} /\ offloading = {}
  /\ wpc = [w \in Writer |-> "idle"] /\ wgrp = [w \in Writer |-> NoOne]
  /\ toFlush = [w \in Writer |-> {}] /\ synced = [w \in Writer |-> {}]
  /\ kpc = [k \in Worker |-> "idle"] /\ ktask = [k \in Worker |-> NoTask]
  /\ crashes = 0 /\ dropped = {}

-------------------------------------------------------------------------------
WGoto(w, l) == wpc' = [wpc EXCEPT ![w] = l]

\* Mutant: a writable group is listed as writable only.
OpenGroupUnlisted(g) ==
  /\ g \in files
  /\ openGroups' = IF row[g] = "Writable" THEN openGroups ELSE openGroups \cup {g}
  /\ writableGroups' = IF row[g] = "Writable" THEN writableGroups \cup {g} ELSE writableGroups
  /\ gstate' = [gstate EXCEPT ![g] = row[g]]
  /\ UNCHANGED unsynced

\* openGroup: the state comes from the row; a group with no log cannot open.
OpenGroup(g) ==
  /\ g \in files
  /\ openGroups' = openGroups \cup {g}
  /\ writableGroups' = IF row[g] = "Writable" THEN writableGroups \cup {g} ELSE writableGroups
  /\ gstate' = [gstate EXCEPT ![g] = row[g]]
  /\ UNCHANGED unsynced

\* Mutant: a group that has its car is taken for done.
ResumeTaskFull(g) == IF row[g] = "Full" THEN {<<"Finalize", g>>} ELSE {}

\* resumeGroup: the task that goes with the state.
ResumeTask(g) ==
  CASE row[g] = "Full"      -> {<<"Finalize", g>>}
    [] row[g] = "VRCARDone" -> {<<"GenCommP", g>>}
    [] row[g] = "Reload"    -> {<<"FinDataReload", g>>}
    [] OTHER                -> {}

\* Mutant: a reader resumes a group that is open already.
WithReadableResumes(g) ==
  /\ lk = NoOne
  /\ \/ g \in openGroups /\ UNCHANGED groupVars
     \/ g \notin openGroups /\ OpenGroup(g)
  /\ pending' = pending \cup ResumeTask(g)
  /\ dropped' = dropped \ {g}

\* withReadableGroup up to the call of its argument: lk is held only here.
WithReadable(g) ==
  /\ lk = NoOne
  /\ \/ g \in openGroups /\ UNCHANGED <<groupVars, pending, dropped>>
     \/ /\ g \notin openGroups /\ OpenGroup(g)
        /\ pending' = pending \cup ResumeTask(g)
        /\ dropped' = dropped \ {g}

-------------------------------------------------------------------------------
(***************************************************************************)
(* Batch.Put: withWritableGroup takes lk, then writeLk, and finds, opens   *)
(* or creates a group to write to.                                         *)
(***************************************************************************)
WriteLock(w) ==
  /\ wpc[w] = "idle" /\ lk = NoOne
  /\ lk' = w
  /\ WGoto(w, "writeLk")
  /\ UNCHANGED <<dbVars, writeLk, groupVars, taskVars, wgrp, toFlush, synced,
                 workerVars, crashes>>

WriteLock2(w) ==
  /\ wpc[w] = "writeLk" /\ writeLk = NoOne
  /\ writeLk' = w
  /\ WGoto(w, "select")
  /\ UNCHANGED <<dbVars, lk, groupVars, taskVars, wgrp, toFlush, synced, workerVars,
                 crashes>>

UnlockBoth == lk' = NoOne /\ writeLk' = NoOne

SelectOpen(w) ==
  /\ wpc[w] = "select"
  /\ \E g \in writableGroups : wgrp' = [wgrp EXCEPT ![w] = g]
  /\ WGoto(w, "put")
  /\ UNCHANGED <<dbVars, lockVars, groupVars, taskVars, toFlush, synced, workerVars,
                 crashes>>

\* GetWritableGroup
SelectRow(w) ==
  /\ wpc[w] = "select" /\ writableGroups = {}
  /\ \E g \in GroupKey :
       /\ row[g] = "Writable"
       /\ OpenGroup(g)
       /\ wgrp' = [wgrp EXCEPT ![w] = g]
  /\ WGoto(w, "put")
  /\ UNCHANGED <<dbVars, lockVars, taskVars, toFlush, synced, workerVars, crashes>>

\* Put returns the error of openGroup.
SelectFails(w) ==
  /\ wpc[w] = "select" /\ writableGroups = {}
  /\ \E g \in GroupKey : row[g] = "Writable" /\ g \notin files
  /\ UnlockBoth
  /\ WGoto(w, "idle")
  /\ UNCHANGED <<dbVars, groupVars, taskVars, wgrp, toFlush, synced, workerVars, crashes>>

\* createGroup begins when there is no writable group at all.
SelectNone(w) ==
  /\ wpc[w] = "select" /\ writableGroups = {}
  /\ \A g \in GroupKey : row[g] # "Writable"
  /\ WGoto(w, "space")
  /\ UNCHANGED <<dbVars, lockVars, groupVars, taskVars, wgrp, toFlush, synced, workerVars,
                 crashes>>

(***************************************************************************)
(* ensureSpaceForGroup: with too many local groups one is moved to staging *)
(* first.  It releases lk while it waits or offloads, and keeps writeLk.   *)
(***************************************************************************)
\* Mutant: one group too many.
EnoughSpaceOneMore == Cardinality(Local) =< MaxLocal

EnoughSpace == Cardinality(Local) < MaxLocal

Space(w) ==
  /\ wpc[w] = "space"
  /\ WGoto(w, IF EnoughSpace THEN "row" ELSE "candidate")
  /\ UNCHANGED <<dbVars, lockVars, groupVars, taskVars, wgrp, toFlush, synced, workerVars,
                 crashes>>

\* GetOffloadCandidate: offloaded groups without an offloads row come first.
Candidates ==
  LET In(s) == {g \in Local : row[g] = s}
  IN  IF In("Offloaded") # {} THEN In("Offloaded") ELSE In("LocalReady")

\* Mutant: writeLk is released too, so that a second batch can go on.
CandidateUnlock(w) ==
  /\ wpc[w] = "candidate"
  /\ UnlockBoth
  /\ \/ Candidates = {} /\ WGoto(w, "wait") /\ UNCHANGED wgrp
     \/ \E g \in Candidates : WGoto(w, "open") /\ wgrp' = [wgrp EXCEPT ![w] = g]
  /\ UNCHANGED <<dbVars, groupVars, taskVars, toFlush, synced, workerVars, crashes>>

Candidate(w) ==
  /\ wpc[w] = "candidate"
  /\ lk' = NoOne
  /\ \/ Candidates = {} /\ WGoto(w, "wait") /\ UNCHANGED wgrp
     \/ \E g \in Candidates : WGoto(w, "open") /\ wgrp' = [wgrp EXCEPT ![w] = g]
  /\ UNCHANGED <<dbVars, writeLk, groupVars, taskVars, toFlush, synced, workerVars, crashes>>

WaitedMinute(w) ==
  /\ wpc[w] = "wait" /\ lk = NoOne
  /\ lk' = w
  /\ WGoto(w, "candidate")
  /\ UNCHANGED <<dbVars, writeLk, groupVars, taskVars, wgrp, toFlush, synced, workerVars,
                 crashes>>

OpenCandidate(w) ==
  /\ wpc[w] = "open"
  /\ WithReadable(wgrp[w])
  /\ WGoto(w, "offload")
  /\ UNCHANGED <<dbVars, lockVars, toResume, offloading, wgrp, toFlush, synced, workerVars,
                 crashes>>

\* The candidate cannot be opened: withReadableGroup returns the error.
OpenCandidateFails(w) ==
  /\ wpc[w] = "open" /\ lk = NoOne
  /\ wgrp[w] \notin openGroups
  /\ WGoto(w, "relock_err")
  /\ UNCHANGED <<dbVars, lockVars, groupVars, taskVars, wgrp, toFlush, synced, workerVars,
                 crashes>>

CanOffload(g) == gstate[g] = "LocalReady"

OffloadStaging(w) ==
  /\ wpc[w] = "offload"
  /\ wgrp[w] \notin offloading
  /\ \/ /\ CanOffload(wgrp[w])
        /\ offloads' = offloads \cup {wgrp[w]}
        /\ WGoto(w, "relock")
     \/ /\ ~CanOffload(wgrp[w])
        /\ UNCHANGED offloads
        /\ WGoto(w, "relock_err")
  /\ UNCHANGED <<row, files, lockVars, groupVars, taskVars, wgrp, toFlush, synced,
                 workerVars, crashes>>

Relock(w) ==
  /\ wpc[w] = "relock" /\ lk = NoOne
  /\ lk' = w
  /\ wgrp' = [wgrp EXCEPT ![w] = NoOne]
  /\ WGoto(w, "row")
  /\ UNCHANGED <<dbVars, writeLk, groupVars, taskVars, toFlush, synced, workerVars,
                 crashes>>

\* createGroup failed, or the caller gave up while it waited: both locks are
\* released on the way out.
RelockErr(w) ==
  /\ wpc[w] \in {"relock_err", "wait"} /\ lk = NoOne
  /\ writeLk' = NoOne
  /\ wgrp' = [wgrp EXCEPT ![w] = NoOne]
  /\ WGoto(w, "idle")
  /\ UNCHANGED <<dbVars, lk, groupVars, taskVars, toFlush, synced, workerVars, crashes>>

CreateRow(w) ==
  /\ wpc[w] = "row"
  /\ \E g \in GroupKey :
       /\ row[g] = "none"
       /\ row' = [row EXCEPT ![g] = "Writable"]
       /\ wgrp' = [wgrp EXCEPT ![w] = g]
  /\ WGoto(w, "files")
  /\ UNCHANGED <<offloads, files, lockVars, groupVars, taskVars, toFlush, synced,
                 workerVars, crashes>>

CreateFiles(w) ==
  /\ wpc[w] = "files"
  /\ files' = files \cup {wgrp[w]}
  /\ openGroups' = openGroups \cup {wgrp[w]}
  /\ writableGroups' = writableGroups \cup {wgrp[w]}
  /\ gstate' = [gstate EXCEPT ![wgrp[w]] = "Writable"]
  /\ WGoto(w, "put")
  /\ UNCHANGED <<row, offloads, lockVars, unsynced, taskVars, wgrp, toFlush, synced,
                 workerVars, crashes>>

\* Mutant: a group that fills up is not synced by the Put that fills it.
PutNoSync(w) ==
  /\ wpc[w] = "put"
  /\ \/ /\ unsynced' = [unsynced EXCEPT ![wgrp[w]] = @ \cup {w}]
        /\ UNCHANGED <<row, gstate>>
     \/ /\ gstate' = [gstate EXCEPT ![wgrp[w]] = "Full"]
        /\ row' = [row EXCEPT ![wgrp[w]] = "Full"]
        /\ unsynced' = [unsynced EXCEPT ![wgrp[w]] = @ \cup {w}]
  /\ toFlush' = [toFlush EXCEPT ![w] = @ \cup {wgrp[w]}]
  /\ WGoto(w, "done")
  /\ UNCHANGED <<offloads, files, lockVars, openGroups, writableGroups, taskVars, wgrp,
                 synced, workerVars, crashes>>

\* Group.Put, which syncs the group when it fills it.
Put(w) ==
  /\ wpc[w] = "put"
  /\ \/ /\ unsynced' = [unsynced EXCEPT ![wgrp[w]] = @ \cup {w}]
        /\ UNCHANGED <<row, gstate>>
     \/ /\ gstate' = [gstate EXCEPT ![wgrp[w]] = "Full"]
        /\ row' = [row EXCEPT ![wgrp[w]] = "Full"]
        /\ unsynced' = [unsynced EXCEPT ![wgrp[w]] = {}]
  /\ toFlush' = [toFlush EXCEPT ![w] = @ \cup {wgrp[w]}]
  /\ WGoto(w, "done")
  /\ UNCHANGED <<offloads, files, lockVars, openGroups, writableGroups, taskVars, wgrp,
                 synced, workerVars, crashes>>

\* The deferred part: a full group gets a Finalize task.
WriteDone(w) ==
  /\ wpc[w] = "done"
  /\ LET full == gstate[wgrp[w]] # "Writable"
     IN  /\ writableGroups' = IF full THEN writableGroups \ {wgrp[w]} ELSE writableGroups
         /\ pending' = IF full THEN pending \cup {<<"Finalize", wgrp[w]>>} ELSE pending
  /\ UnlockBoth
  /\ wgrp' = [wgrp EXCEPT ![w] = NoOne]
  /\ WGoto(w, "idle")
  /\ UNCHANGED <<dbVars, openGroups, gstate, unsynced, toResume, offloading, dropped,
                 toFlush, synced, workerVars, crashes>>

-------------------------------------------------------------------------------
(***************************************************************************)
(* Batch.Flush: sync the groups of the batch that are still writable.  lk  *)
(* is released around each Sync; a group that is no longer writable was    *)
(* synced by the Put that filled it.                                       *)
(***************************************************************************)
FlushLock(w) ==
  /\ wpc[w] = "idle" /\ lk = NoOne /\ toFlush[w] # {}
  /\ lk' = w
  /\ WGoto(w, "f_loop")
  /\ UNCHANGED <<dbVars, writeLk, groupVars, taskVars, wgrp, toFlush, synced, workerVars,
                 crashes>>

FlushNext(w) ==
  /\ wpc[w] = "f_loop"
  /\ \E g \in toFlush[w] \ synced[w] :
       /\ synced' = [synced EXCEPT ![w] = @ \cup {g}]
       /\ \/ /\ g \in writableGroups
             /\ lk' = NoOne
             /\ wgrp' = [wgrp EXCEPT ![w] = g]
             /\ WGoto(w, "f_sync")
          \/ /\ g \notin writableGroups
             /\ UNCHANGED <<lk, wgrp, wpc>>
  /\ UNCHANGED <<dbVars, writeLk, groupVars, taskVars, toFlush, workerVars, crashes>>

FlushSync(w) ==
  /\ wpc[w] = "f_sync"
  /\ unsynced' = [unsynced EXCEPT ![wgrp[w]] = {}]
  /\ row' = [row EXCEPT ![wgrp[w]] = gstate[wgrp[w]]]
  /\ WGoto(w, "f_relock")
  /\ UNCHANGED <<offloads, files, lockVars, openGroups, writableGroups, gstate, taskVars,
                 wgrp, toFlush, synced, workerVars, crashes>>

FlushRelock(w) ==
  /\ wpc[w] = "f_relock" /\ lk = NoOne
  /\ lk' = w
  /\ WGoto(w, "f_loop")
  /\ UNCHANGED <<dbVars, writeLk, groupVars, taskVars, wgrp, toFlush, synced, workerVars,
                 crashes>>

\* The index is flushed, toFlush is emptied and lk released.
FlushEnd(w) ==
  /\ wpc[w] = "f_loop" /\ toFlush[w] \subseteq synced[w]
  /\ lk' = NoOne
  /\ toFlush' = [toFlush EXCEPT ![w] = {}] /\ synced' = [synced EXCEPT ![w] = {}]
  /\ wgrp' = [wgrp EXCEPT ![w] = NoOne]
  /\ WGoto(w, "f_done")
  /\ UNCHANGED <<dbVars, writeLk, groupVars, taskVars, workerVars, crashes>>

FlushReturn(w) ==
  /\ wpc[w] = "f_done"
  /\ WGoto(w, "idle")
  /\ UNCHANGED <<dbVars, lockVars, groupVars, taskVars, wgrp, toFlush, synced, workerVars,
                 crashes>>

-------------------------------------------------------------------------------
(***************************************************************************)
(* groupWorker: take a task, look the group up under lk, run it.           *)
(***************************************************************************)
KGoto(k, l) == kpc' = [kpc EXCEPT ![k] = l]

TaskDone(k) == KGoto(k, "idle") /\ ktask' = [ktask EXCEPT ![k] = NoTask]

TakeTask(k, t) ==
  /\ kpc[k] = "idle"
  /\ t \in pending
  /\ ktask' = [ktask EXCEPT ![k] = t]
  /\ pending' = pending \ {t}
  /\ KGoto(k, "lookup")
  /\ UNCHANGED <<dbVars, lockVars, groupVars, toResume, offloading, dropped, writerVars,
                 crashes>>

Lookup(k) ==
  /\ kpc[k] = "lookup" /\ lk = NoOne
  /\ IF ktask[k][2] \in openGroups THEN KGoto(k, "exec") /\ UNCHANGED ktask ELSE TaskDone(k)
  /\ UNCHANGED <<dbVars, lockVars, groupVars, taskVars, writerVars, crashes>>

AdvanceState(g, st) ==
  /\ gstate' = [gstate EXCEPT ![g] = st]
  /\ row' = [row EXCEPT ![g] = st]

(***************************************************************************)
(* A task does its work, or fails: it finds another state than its own,    *)
(* the log refuses, the upload breaks off.  A failure changes nothing, is  *)
(* logged, and the task is not sent again.                                 *)
(***************************************************************************)
Advances(g, from, to) ==
  \/ gstate[g] = from /\ AdvanceState(g, to) /\ UNCHANGED dropped
  \/ UNCHANGED <<gstate, row>> /\ dropped' = dropped \cup {g}

\* Finalize falls through to GenCommP, whether it failed or not.
ExecTask(k) ==
  LET tt == ktask[k][1]
      g  == ktask[k][2]
  IN  /\ kpc[k] = "exec"
      /\ \/ /\ tt = "Finalize" /\ Advances(g, "Full", "VRCARDone")
            /\ KGoto(k, "commp") /\ UNCHANGED ktask
         \/ tt = "GenCommP" /\ Advances(g, "VRCARDone", "LocalReady") /\ TaskDone(k)
         \/ tt = "FinDataReload" /\ Advances(g, "Reload", "LocalReady") /\ TaskDone(k)
      /\ UNCHANGED <<offloads, files, lockVars, openGroups, writableGroups, unsynced,
                     pending, toResume, offloading, writerVars, crashes>>

ExecCommP(k) ==
  /\ kpc[k] = "commp" /\ lk = NoOne
  /\ Advances(ktask[k][2], "VRCARDone", "LocalReady")
  /\ TaskDone(k)
  /\ UNCHANGED <<offloads, files, lockVars, openGroups, writableGroups, unsynced, pending,
                 toResume, offloading, writerVars, crashes>>

-------------------------------------------------------------------------------
(***************************************************************************)
(* Offload (called for a group with enough deals) and LoadFilCar (repair), *)
(* on a group that withReadableGroup has found open.                       *)
(***************************************************************************)
OffloadBegin(g) ==
  /\ g \in openGroups /\ g \notin offloading /\ CanOffload(g)
  /\ Cardinality({h \in GroupKey : row[h] \in {"Offloaded", "Reload"}}) < MaxAway
  /\ AdvanceState(g, "Offloaded")
  /\ offloading' = offloading \cup {g}
  /\ UNCHANGED <<offloads, files, lockVars, openGroups, writableGroups, unsynced, pending,
                 toResume, dropped, writerVars, workerVars, crashes>>

OffloadEnd(g) ==
  /\ g \in offloading
  /\ offloads' = offloads \cup {g}
  /\ offloading' = offloading \ {g}
  /\ UNCHANGED <<row, files, lockVars, groupVars, pending, toResume, dropped, writerVars,
                 workerVars, crashes>>

LoadFilCar(g) ==
  /\ g \in openGroups /\ gstate[g] = "Offloaded"
  /\ AdvanceState(g, "Reload")
  /\ pending' = pending \cup {<<"FinDataReload", g>>}
  /\ UNCHANGED <<offloads, files, lockVars, openGroups, writableGroups, unsynced, toResume,
                 offloading, dropped, writerVars, workerVars, crashes>>

\* A read opens the group.
ViewGroup(g) ==
  /\ g \notin openGroups /\ WithReadable(g)
  /\ UNCHANGED <<dbVars, lockVars, toResume, offloading, writerVars, workerVars, crashes>>

ResumeGroup(g) ==
  /\ g \in toResume /\ WithReadable(g)
  /\ toResume' = toResume \ {g}
  /\ UNCHANGED <<dbVars, lockVars, offloading, writerVars, workerVars, crashes>>

\* resumeGroups returns at the first group that cannot be opened: the groups
\* it has not come to stay as they are until a reader opens them.
ResumeFails ==
  /\ lk = NoOne
  /\ toResume \ openGroups # {}
  /\ toResume' = {}
  /\ dropped' = dropped \cup (toResume \ openGroups)
  /\ UNCHANGED <<dbVars, lockVars, groupVars, pending, offloading, writerVars, workerVars,
                 crashes>>

\* The process dies and is started again: resumeGroups reads the states.
Crash ==
  /\ crashes < MaxCrashes
  /\ crashes' = crashes + 1
  /\ lk' = NoOne /\ writeLk' = NoOne
  /\ openGroups' = {} /\ writableGroups' = {}
  /\ gstate' = [g \in GroupKey |-> "Writable"]
  /\ unsynced' = [g \in GroupKey |-> {}]
  /\ pending' = {} /\ offloading' = {} /\ dropped' = {}
  /\ toResume' = {g \in GroupKey : row[g] \in {"Full", "VRCARDone", "LocalReady"}}
  /\ wpc' = [w \in Writer |-> "idle"] /\ wgrp' = [w \in Writer |-> NoOne]
  /\ toFlush' = [w \in Writer |-> {}] /\ synced' = [w \in Writer |-> {}]
  /\ kpc' = [k \in Worker |-> "idle"] /\ ktask' = [k \in Worker |-> NoTask]
  /\ UNCHANGED dbVars

-------------------------------------------------------------------------------
WriteStep(w) ==
  \/ WriteLock2(w) \/ SelectOpen(w) \/ SelectRow(w) \/ SelectFails(w) \/ SelectNone(w)
  \/ Space(w) \/ Candidate(w) \/ WaitedMinute(w) \/ OpenCandidate(w)
  \/ OpenCandidateFails(w) \/ OffloadStaging(w)
  \/ Relock(w) \/ RelockErr(w) \/ CreateRow(w) \/ CreateFiles(w) \/ Put(w) \/ WriteDone(w)

FlushStep(w) ==
  FlushNext(w) \/ FlushSync(w) \/ FlushRelock(w) \/ FlushEnd(w) \/ FlushReturn(w)

WorkerStep(k) == Lookup(k) \/ ExecTask(k) \/ ExecCommP(k)

Next ==
  \/ \E w \in Writer : WriteLock(w) \/ FlushLock(w) \/ WriteStep(w) \/ FlushStep(w)
  \/ \E k \in Worker : WorkerStep(k) \/ \E t \in Task : TakeTask(k, t)
  \/ \E g \in GroupKey : \/ OffloadBegin(g) \/ OffloadEnd(g)
                         \/ LoadFilCar(g) \/ ViewGroup(g) \/ ResumeGroup(g)
  \/ ResumeFails
  \/ Crash

Spec == Init /\ [][Next]_vars

-------------------------------------------------------------------------------
(***************************************************************************)
(* There is at most one writable group: a batch that waits for space keeps *)
(* every other from creating a second one, through crashes too.            *)
(***************************************************************************)
OneWritable == Cardinality({g \in GroupKey : row[g] = "Writable"}) =< 1

(***************************************************************************)
(* The number of groups that are not offloaded never exceeds               *)
(* MaxLocalGroupCount, although lk is released between the check and the   *)
(* creation of a group.                                                    *)
(***************************************************************************)
LocalBounded == Cardinality(Local) =< MaxLocal

(***************************************************************************)
(* When Flush returns, nothing the batch wrote is unsynced: a group it no  *)
(* longer finds among the writable ones was synced by whoever filled it.   *)
(* (Batch: "Flush commits data to the blockstore")                         *)
(***************************************************************************)
FlushCommits ==
  \A w \in Writer : wpc[w] = "f_done" => \A g \in GroupKey : w \notin unsynced[g]

(***************************************************************************)
(* No group is left behind unseen on its way to CommP: a group that is     *)
(* full, or has its car and no CommP, has a task pending, a worker at it,  *)
(* a batch about to send its task, or is among those a restart resumes,    *)
(* unless its task failed or its resumption was given up.  Such a group    *)
(* has no task any more: nothing retries it before the next start.         *)
(***************************************************************************)
WorkedOn(g, tt) ==
  \/ <<tt, g>> \in pending
  \/ \E k \in Worker : ktask[k] = <<tt, g>> /\ kpc[k] # "idle"

NothingForgotten ==
  \A g \in GroupKey \ dropped :
    /\ row[g] = "Full" => \/ g \in toResume \ openGroups \/ WorkedOn(g, "Finalize")
                         \/ \E w \in Writer : wpc[w] = "done" /\ wgrp[w] = g
    /\ row[g] = "VRCARDone" => \/ g \in toResume \ openGroups \/ WorkedOn(g, "GenCommP")
                              \/ WorkedOn(g, "Finalize")

(***************************************************************************)
(* A group has one task at most, and it finds the group in the state it is *)
(* for: Finalize, GenCommP and FinDataReload look at the state without a   *)
(* lock and set the next one when they are done, which two workers at the  *)
(* same group could turn back.  The group of a pending task is open, so no *)
(* reader sends its task a second time, and none is pending for a group    *)
(* that the batch which filled it is about to send one for, nor for one    *)
(* whose task failed; only the GenCommP that Finalize falls through to     *)
(* runs for such a group, and finds it still full.                         *)
(***************************************************************************)
Due == [Finalize |-> "Full", GenCommP |-> "VRCARDone", FinDataReload |-> "Reload"]
Busy(k, g) == kpc[k] # "idle" /\ ktask[k][2] = g
Untasked(g) == (\A t \in pending : t[2] # g) /\ \A k \in Worker : ~Busy(k, g)
FellThrough(k) == kpc[k] = "commp" /\ ktask[k][2] \notin dropped

TasksDue ==
  /\ \A t \in pending : /\ t[2] \in openGroups /\ row[t[2]] = Due[t[1]]
                        /\ \A k \in Worker : ~Busy(k, t[2])
  /\ \A k \in Worker : kpc[k] # "idle" =>
       row[ktask[k][2]] = IF FellThrough(k) THEN "VRCARDone" ELSE Due[ktask[k][1]]
  /\ \A j, k \in Worker : kpc[j] # "idle" /\ Busy(k, ktask[j][2]) => j = k
  /\ \A w \in Writer : wpc[w] = "done" =>
       /\ Untasked(wgrp[w]) /\ wgrp[w] \notin dropped
       /\ row[wgrp[w]] \in {"Writable", "Full"}
  /\ \A g \in dropped : /\ g \notin toResume \ openGroups
                        /\ \A t \in pending : t[2] # g
                        /\ \A k \in Worker : Busy(k, g) => kpc[k] = "commp"

(***************************************************************************)
(* Every group on its way to CommP has somebody who takes it there or was  *)
(* given up by a failure, never both; a task is in one place only and      *)
(* never comes too late.                                                   *)
(***************************************************************************)
TaskAccounting == NothingForgotten /\ TasksDue

Life(g) == INSTANCE GroupLife WITH life <- row[g]

(***************************************************************************)
(* Every group's row goes through the life that Group's does: taken as     *)
(* single steps its operations do not turn each other back, although they  *)
(* are called by batches, workers and readers, which find the group under  *)
(* lk and call it after they released it (withReadableGroup, groupWorker). *)
(***************************************************************************)
FollowGroupLife ==
  /\ \A g \in GroupKey : Life(g)!LifeInit
  /\ [][\A g \in GroupKey : Life(g)!LifeNext \/ UNCHANGED row[g]]_row

(***************************************************************************)
(* No two batches wait for each other's mutex: the one that waits for      *)
(* space has released lk so that others can go on.                         *)
(* (ensureSpaceForGroup: "release read side")                              *)
(***************************************************************************)
NeedsLk == {"wait", "open", "relock", "relock_err"}

NoLockCycle ==
  ~ \E v, w \in Writer : lk = v /\ wpc[v] = "writeLk" /\ writeLk = w /\ wpc[w] \in NeedsLk

(***************************************************************************)
(* Fairness: workers, goroutines that hold or wait for a mutex and the     *)
(* resumption at start keep running; a goroutine that waits for lk gets it *)
(* in the end (Go's mutexes do not starve a waiter).  The queue is first   *)
(* in, first out, so every task has its turn.                              *)
(***************************************************************************)
FairSpec ==
  /\ Spec
  /\ \A w \in Writer : WF_vars(WriteStep(w) \/ FlushStep(w))
  /\ \A k \in Worker : SF_vars(WorkerStep(k))
  /\ \A g \in GroupKey : SF_vars(\E k \in Worker, t \in Task : t[2] = g /\ TakeTask(k, t))
  /\ \A g \in GroupKey : SF_vars(ResumeGroup(g)) /\ WF_vars(OffloadEnd(g))

(***************************************************************************)
(* Every full group gets its CommP, also when the process crashes on the   *)
(* way, or one of its tasks fails, or the resumption at start gives it up: *)
(* the workers, the queue and the resumption lose none silently, and the   *)
(* next start takes up what the last one had to leave.                     *)
(***************************************************************************)
FullGetsReady ==
  \A g \in GroupKey :
    (row[g] = "Full") ~> (row[g] \in {"LocalReady", "Offloaded", "Reload"} \/ g \in dropped)
===============================================================================
