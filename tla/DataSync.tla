------------------------------ MODULE DataSync ------------------------------
(***************************************************************************)
(* Syncs between a container and the files on the storage node: the rows   *)
(* of data_sync_tasks, the request that waits for a temporary key, the     *)
(* tasks of the two agents, and the keys in authorized_keys.               *)
(*                                                                         *)
(* No row this code writes asks for a verification or for retries, so a    *)
(* sync has one data task.                                                 *)
(***************************************************************************)
EXTENDS Naturals

CONSTANTS
  Sync,      \* ids of data_sync_tasks, of up to four digits
  MaxFaults  \* bound on lost messages, refused commands and crashes

ASSUME SyncAssumption ==
  /\ Sync \subseteq 1..9999
  /\ MaxFaults \in Nat

VARIABLES
  sync,      \* status of a sync
  request,   \* how far the request that creates it is
  install,   \* its install_sync_pubkey task
  data,      \* its container_data_sync task
  fallback,  \* its remove_sync_pubkey task that waits for a week
  cleanup,   \* the one that a result adds
  run,       \* the executions of its data task
  keys,      \* the syncs that have a line in authorized_keys
  expired,   \* the syncs whose line is more than a week old
  torn,      \* history: syncs whose line went as the file could not be
             \* read or written
  faults     \* how much of MaxFaults is used

tasks == <<install, data, fallback, cleanup>>
vars == <<sync, request, tasks, run, keys, expired, torn, faults>>

Run == {1, 2}
Settled == {"succeeded", "failed"}
Open == {"pending", "claimed"}

SyncStatus == {"none", "planned", "running"} \cup Settled
RequestState == {"none", "waiting", "done", "given up"}
InstallStatus == {"none", "written"} \cup Open \cup Settled
DataStatus == {"none", "gone"} \cup Open \cup Settled
RemovalStatus == {"none", "pending"} \cup Settled
Progress == {"none", "begun", "copied", "refused"}

TypeOK ==
  /\ sync \in [Sync -> SyncStatus]
  /\ request \in [Sync -> RequestState]
  /\ install \in [Sync -> InstallStatus]
  /\ data \in [Sync -> DataStatus]
  /\ fallback \in [Sync -> RemovalStatus]
  /\ cleanup \in [Sync -> RemovalStatus]
  /\ run \in [Sync -> [Run -> Progress]]
  /\ keys \subseteq Sync
  /\ expired \subseteq Sync
  /\ torn \subseteq Sync
  /\ faults \in 0..MaxFaults

Init ==
  /\ sync = [s \in Sync |-> "none"]
  /\ request = [s \in Sync |-> "none"]
  /\ install = [s \in Sync |-> "none"]
  /\ data = [s \in Sync |-> "none"]
  /\ fallback = [s \in Sync |-> "none"]
  /\ cleanup = [s \in Sync |-> "none"]
  /\ run = [s \in Sync |-> [r \in Run |-> "none"]]
  /\ keys = {}
  /\ expired = {}
  /\ torn = {}
  /\ faults = 0

Costs(n) == faults + n <= MaxFaults /\ faults' = faults + n
Fault == Costs(1)
CountsIf(bad) == (bad /\ Fault) \/ (~bad /\ UNCHANGED faults)
Becomes(f, s, v) == [f EXCEPT ![s] = v]

(* The marker of s, cluster-sync-key-id:sync-s, is found in the line of u, *)
(* whose id may go on after it.                                            *)
Marks(s, u) == \E scale \in {1, 10, 100, 1000} : u \div scale = s

-----------------------------------------------------------------------------
(* The request *)

(* On one node there is no key: the data task is enqueued at once.         *)
CreateLocal(s) ==
  /\ sync[s] = "none"
  /\ sync' = Becomes(sync, s, "planned")
  /\ request' = Becomes(request, s, "done")
  /\ data' = Becomes(data, s, "pending")
  /\ UNCHANGED <<install, fallback, cleanup, run, keys, expired, torn, faults>>

(* Across nodes the row and the task for the key are committed first.      *)
Create(s) ==
  /\ sync[s] = "none"
  /\ sync' = Becomes(sync, s, "planned")
  /\ request' = Becomes(request, s, "waiting")
  /\ install' = Becomes(install, s, "pending")
  /\ UNCHANGED <<data, fallback, cleanup, run, keys, expired, torn, faults>>

(* Mutant: the key is removed only by what becomes of the sync. *)
GoOnWithoutFallback(s) ==
  /\ request[s] = "waiting" /\ install[s] = "succeeded"
  /\ request' = Becomes(request, s, "done")
  /\ data' = Becomes(data, s, "pending")
  /\ UNCHANGED <<sync, install, fallback, cleanup, run, keys, expired, torn, faults>>

(* The key is there: the removal in a week and the data task follow.       *)
GoOn(s) ==
  /\ request[s] = "waiting" /\ install[s] = "succeeded"
  /\ request' = Becomes(request, s, "done")
  /\ fallback' = Becomes(fallback, s, "pending")
  /\ data' = Becomes(data, s, "pending")
  /\ UNCHANGED <<sync, install, cleanup, run, keys, expired, torn, faults>>

(* Fifteen seconds without an answer, or a bad one.                        *)
GiveUp(s) ==
  /\ request[s] = "waiting"
  /\ install[s] # "succeeded"
  /\ CountsIf(install[s] # "failed")
  /\ request' = Becomes(request, s, "given up")
  /\ sync' = Becomes(sync, s, "failed")
  /\ UNCHANGED <<tasks, run, keys, expired, torn>>

(* The backend restarts, or the container goes, while the request waits:   *)
(* the row stays as it was committed.                                      *)
RequestDies(s) ==
  /\ request[s] = "waiting"
  /\ Fault
  /\ request' = Becomes(request, s, "given up")
  /\ UNCHANGED <<sync, tasks, run, keys, expired, torn>>

-----------------------------------------------------------------------------
(* The agent of the storage node *)

(* installSyncPubkey: lines with the marker go, and those that expired.    *)
AfterInstall(s) == {u \in keys : ~Marks(s, u) /\ u \notin expired} \cup {s}

(* Lines that were in the file and are not are lost if nobody removed them. *)
Tears == torn' = (torn \cup keys) \ keys'

(* The file is written; the report may be lost, and then it is written     *)
(* again when the lease is over.                                           *)
Installs(s) ==
  /\ install[s] \in {"pending", "written"}
  /\ install' = Becomes(install, s, "written")
Again(s) == IF install[s] = "written" THEN 1 ELSE 0

InstallKey(s) ==
  /\ Installs(s)
  /\ Costs(Again(s))
  /\ keys' = AfterInstall(s)
  /\ torn' = torn \ {s}
  /\ UNCHANGED <<sync, request, data, fallback, cleanup, run, expired>>

(* A file that cannot be read counts as empty: the new line replaces all.  *)
InstallKeyUnread(s) ==
  /\ Installs(s)
  /\ Costs(Again(s) + 1)
  /\ keys' = {s}
  /\ Tears
  /\ UNCHANGED <<sync, request, data, fallback, cleanup, run, expired>>

InstallReported(s) ==
  /\ install[s] = "written"
  /\ install' = Becomes(install, s, "succeeded")
  /\ UNCHANGED <<sync, request, data, fallback, cleanup, run, keys, expired, torn, faults>>

(* A file that cannot be opened stays; one that can is emptied before it   *)
(* is written, and a write that fails leaves some of its lines.            *)
WriteFails(lines) == keys' \in {keys} \cup SUBSET lines /\ Tears

InstallFails(s) ==
  /\ install[s] \in {"pending", "written"}
  /\ Costs(Again(s) + 1)
  /\ WriteFails(AfterInstall(s))
  /\ install' = Becomes(install, s, "failed")
  /\ UNCHANGED <<sync, request, data, fallback, cleanup, run, expired>>

(* Mutant: the file goes with the first key that does. *)
AfterAnyRemoval(s) == {}

(* removeSyncPubkey *)
AfterRemoval(s) == {u \in keys : ~Marks(s, u)}

Cleanup(s) ==
  /\ cleanup[s] = "pending"
  /\ keys' = AfterRemoval(s)
  /\ cleanup' = Becomes(cleanup, s, "succeeded")
  /\ UNCHANGED <<sync, request, install, data, fallback, run, expired, torn, faults>>

(* A removal that failed is not tried again.                               *)
CleanupFails(s) ==
  /\ cleanup[s] = "pending"
  /\ Fault
  /\ WriteFails(AfterRemoval(s))
  /\ cleanup' = Becomes(cleanup, s, "failed")
  /\ UNCHANGED <<sync, request, install, data, fallback, run, expired>>

Fallback(s) ==
  /\ fallback[s] = "pending" /\ s \in expired
  /\ keys' = AfterRemoval(s)
  /\ fallback' = Becomes(fallback, s, "succeeded")
  /\ UNCHANGED <<sync, request, install, data, cleanup, run, expired, torn, faults>>

FallbackFails(s) ==
  /\ fallback[s] = "pending" /\ s \in expired
  /\ Fault
  /\ WriteFails(AfterRemoval(s))
  /\ fallback' = Becomes(fallback, s, "failed")
  /\ UNCHANGED <<sync, request, install, data, cleanup, run, expired>>

Week(s) ==
  /\ s \notin expired
  /\ install[s] \in {"written", "succeeded"}
  /\ expired' = expired \cup {s}
  /\ UNCHANGED <<sync, request, tasks, run, keys, torn, faults>>

-----------------------------------------------------------------------------
(* The agent of the container's node *)

Running(s) == \E r \in Run : run[s][r] # "none"

(* Mutant: a claim is not claimed again. *)
ClaimPending(s, r) ==
  /\ data[s] = "pending"
  /\ data' = Becomes(data, s, "claimed")
  /\ sync' = Becomes(sync, s, "running")
  /\ run' = [run EXCEPT ![s][r] = "begun"]
  /\ UNCHANGED <<request, install, fallback, cleanup, keys, expired, torn, faults>>

(* A claim makes the sync running, whatever it was.  A task that is        *)
(* claimed is claimed again when its lease is over, with its execution     *)
(* lost or not.                                                            *)
ClaimData(s, r) ==
  /\ data[s] \in Open
  /\ run[s][r] = "none"
  /\ CountsIf(data[s] = "claimed" /\ Running(s))
  /\ data' = Becomes(data, s, "claimed")
  /\ sync' = Becomes(sync, s, "running")
  /\ run' = [run EXCEPT ![s][r] = "begun"]
  /\ UNCHANGED <<request, install, fallback, cleanup, keys, expired, torn>>

NeedsKey(s) == install[s] # "none"

(* rsync, with the key where one is needed.                                *)
Copy(s, r) ==
  /\ run[s][r] = "begun"
  /\ \/ /\ NeedsKey(s) => s \in keys
        /\ run' = [run EXCEPT ![s][r] = "copied"]
        /\ UNCHANGED faults
     \/ /\ NeedsKey(s) /\ s \notin keys
        /\ run' = [run EXCEPT ![s][r] = "refused"]
        /\ UNCHANGED faults
     \/ /\ Fault
        /\ run' = [run EXCEPT ![s][r] = "refused"]
  /\ UNCHANGED <<sync, request, tasks, keys, expired, torn>>

RunLost(s, r) ==
  /\ run[s][r] # "none"
  /\ Fault
  /\ run' = [run EXCEPT ![s][r] = "none"]
  /\ UNCHANGED <<sync, request, tasks, keys, expired, torn>>

WithCleanup(s) == IF NeedsKey(s) THEN Becomes(cleanup, s, "pending") ELSE cleanup

(* Mutant: the sync follows the result, and its task stays as it was. *)
ReportOfSync(s, r) ==
  /\ run[s][r] \in {"copied", "refused"}
  /\ run' = [run EXCEPT ![s][r] = "none"]
  /\ IF data[s] = "gone" THEN UNCHANGED <<sync, tasks>>
     ELSE /\ sync' = Becomes(sync, s, IF run[s][r] = "copied" THEN "succeeded" ELSE "failed")
          /\ cleanup' = WithCleanup(s)
          /\ UNCHANGED <<install, data, fallback>>
  /\ UNCHANGED <<request, keys, expired, torn, faults>>

(* A result settles the task and the sync, even when they are settled, and *)
(* asks for the key to go.  A task that is gone knows no result.           *)
Report(s, r) ==
  /\ run[s][r] \in {"copied", "refused"}
  /\ run' = [run EXCEPT ![s][r] = "none"]
  /\ IF data[s] = "gone" THEN UNCHANGED <<sync, tasks>>
     ELSE LET v == IF run[s][r] = "copied" THEN "succeeded" ELSE "failed"
          IN /\ data' = Becomes(data, s, v)
             /\ sync' = Becomes(sync, s, v)
             /\ cleanup' = WithCleanup(s)
             /\ UNCHANGED <<install, fallback>>
  /\ UNCHANGED <<request, keys, expired, torn, faults>>

(* Mutant: the reason is written where the status belongs. *)
ExpireStalled(s) ==
  /\ data[s] = "claimed"
  /\ Fault
  /\ data' = Becomes(data, s, "failed")
  /\ sync' = IF sync[s] \in {"planned", "running"} THEN Becomes(sync, s, "stalled-timeout") ELSE sync
  /\ cleanup' = WithCleanup(s)
  /\ UNCHANGED <<request, install, fallback, run, keys, expired, torn>>

(* No progress for fifteen minutes: a heartbeat of the node fails both.    *)
Expire(s) ==
  /\ data[s] = "claimed"
  /\ Fault
  /\ data' = Becomes(data, s, "failed")
  /\ sync' = IF sync[s] \in {"planned", "running"} THEN Becomes(sync, s, "failed") ELSE sync
  /\ cleanup' = WithCleanup(s)
  /\ UNCHANGED <<request, install, fallback, run, keys, expired, torn>>

(* The tasks of a container go with its row; the sync stays.               *)
RemoveContainer(s) ==
  /\ data[s] \notin {"none", "gone"}
  /\ Fault
  /\ data' = Becomes(data, s, "gone")
  /\ UNCHANGED <<sync, request, install, fallback, cleanup, run, keys, expired, torn>>

-----------------------------------------------------------------------------
Next ==
  \E s \in Sync :
    \/ CreateLocal(s) \/ Create(s) \/ GoOn(s) \/ GiveUp(s) \/ RequestDies(s)
    \/ InstallKey(s) \/ InstallKeyUnread(s) \/ InstallReported(s) \/ InstallFails(s)
    \/ Cleanup(s) \/ CleanupFails(s) \/ Fallback(s) \/ FallbackFails(s) \/ Week(s)
    \/ Expire(s) \/ RemoveContainer(s)
    \/ \E r \in Run : ClaimData(s, r) \/ Copy(s, r) \/ RunLost(s, r) \/ Report(s, r)

Spec == Init /\ [][Next]_vars

(* Both agents keep polling, requests go on, rsync ends, and weeks pass.   *)
Fairness ==
  \A s \in Sync :
    /\ WF_vars(GoOn(s)) /\ WF_vars(GiveUp(s))
    /\ WF_vars(InstallKey(s)) /\ WF_vars(InstallReported(s))
    /\ WF_vars(Cleanup(s)) /\ WF_vars(Fallback(s)) /\ WF_vars(Week(s))
    /\ WF_vars(\E r \in Run : ClaimData(s, r))
    /\ \A r \in Run : WF_vars(Copy(s, r)) /\ WF_vars(Report(s, r))

FairSpec == Spec /\ Fairness

-----------------------------------------------------------------------------
(* Properties *)

(* A sync that has ended is not under way again, although a claim and a    *)
(* late result write its status without looking at it.                     *)
SettledStays ==
  [][\A s \in Sync : sync[s] \in Settled => sync'[s] \in Settled]_sync

(* A key is in the file only while its request waits for it or its removal *)
(* is still to come: in a week, and once the sync has ended at once,       *)
(* unless that removal failed.  When the one of the week fails too, the    *)
(* line has expired by then, so that the next installation drops it.  Only *)
(* a request that gave up leaves one behind for which nothing is planned.  *)
KeyIsLookedAfter ==
  \A s \in keys :
    \/ request[s] \in {"waiting", "given up"}
    \/ /\ fallback[s] = "pending"
       /\ sync[s] \in Settled => cleanup[s] \in {"pending", "failed"}
    \/ fallback[s] = "failed" /\ s \in expired

(* A run whose sync has not ended finds its key, for a week: no removal,   *)
(* no result of another run and no other sync takes it away, unless the    *)
(* file could not be read or written.                                      *)
RunHasItsKey ==
  \A s \in Sync \ torn, r \in Run :
    run[s][r] = "begun" /\ data[s] = "claimed" /\ NeedsKey(s) /\ s \notin expired
      => s \in keys

(* A sync that was asked for ends, unless its container goes or its        *)
(* request dies.                                                           *)
SyncsEnd ==
  \A s \in Sync :
    sync[s] \in {"planned", "running"} ~>
      sync[s] \in Settled \/ data[s] = "gone" \/ request[s] = "given up"

(* And its key goes, unless the request gave up on it, or the removal of   *)
(* the week failed and the one at the end did too or was never asked for.  *)
KeysGo ==
  \A s \in Sync :
    s \in keys ~> \/ s \notin keys
                  \/ request[s] = "given up"
                  \/ fallback[s] = "failed" /\ cleanup[s] \in {"failed", "none"}
=============================================================================
