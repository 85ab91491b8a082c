------------------------------ MODULE Platform ------------------------------
(***************************************************************************)
(* The smaller parts of the platform beside each other: directories of     *)
(* users, the rules of scheduled syncs, workspace volumes, mounts of       *)
(* resources, ports, updates of the agent, and requests that wait for node *)
(* tasks.                                                                  *)
(*                                                                         *)
(* They share the queue of node tasks, which each of them models for its   *)
(* own tasks, and no other state: a step of the platform is a step of one  *)
(* of them.                                                                *)
(***************************************************************************)

CONSTANTS
  Depth, File, Sub, Quota, Scan, Thread,                  \* DirectoryScans
  Rule, Limit, Day, Days, Interval,                       \* SyncRules
  Retention,                                              \* Workspaces
  Resource, Exported,                                     \* Mounts
  Port, HostPort, NodePort,                               \* Ports
  Version, Build, MaxCuts,                                \* AgentUpdate
  Task_E, MaxEvents, Timeout, Spacing, Ttl,               \* TaskEvents
  Container, Requests, MaxTime, MaxFaults,                \* several of them
  MaxAsked_D, MaxAsked_S, MaxAsked_V, MaxAsked_M, MaxAsked_P

VARIABLES
  disk, row_D, shown, scan, job, asked_D, faults_D, overlap, stale,
  blindly,
  now_S, rule, begun, round, todo_S, undo, asked_S, faults_S, runs, byHand,
  chances,
  now_V, row_V, box_V, inst, volume, tasks_V, doing_V, reader, asked_V,
  faults_V, used, raced, forced, early, unseen,
  cache, whole, box_M, mounts, managed, linked, device_M, drafts_M,
  tasks_M, copies, doing_M, asked_M, faults_M, astray_M, muddled,
  row_P, ids, box_P, access, device_P, drafts_P, tasks_P, router, listens,
  clients, asked_P, faults_P, astray_P, deaf, cluttered,
  kind_A, file, release, binary, backup, agent, reported, status, updater,
  cuts, faults_A, before, silent, again, stuck,
  waiter, settled, signalled, registry, set_E, loose, created, swept, now_E

directories == <<disk, row_D, shown, scan, job, asked_D, faults_D,
                 overlap, stale, blindly>>
rules == <<now_S, rule, begun, round, todo_S, undo, asked_S, faults_S, runs,
           byHand, chances>>
volumes == <<now_V, row_V, box_V, inst, volume, tasks_V, doing_V, reader,
             asked_V, faults_V, used, raced, forced, early, unseen>>
hotMounts == <<cache, whole, box_M, mounts, managed, linked, device_M,
               drafts_M, tasks_M, copies, doing_M, asked_M, faults_M,
               astray_M, muddled>>
ports == <<row_P, ids, box_P, access, device_P, drafts_P, tasks_P, router,
           listens, clients, asked_P, faults_P, astray_P, deaf, cluttered>>
updates == <<kind_A, file, release, binary, backup, agent, reported, status,
             updater, cuts, faults_A, before, silent, again, stuck>>
waits == <<waiter, settled, signalled, registry, set_E, loose, created,
           swept, now_E>>
vars == <<directories, rules, volumes, hotMounts, ports, updates, waits>>

D == INSTANCE DirectoryScans WITH
  MaxAsked <- MaxAsked_D, row <- row_D, asked <- asked_D, faults <- faults_D
S == INSTANCE SyncRules WITH
  MaxAsked <- MaxAsked_S, now <- now_S, todo <- todo_S,
  asked <- asked_S, faults <- faults_S
V == INSTANCE Workspaces WITH
  MaxAsked <- MaxAsked_V, now <- now_V, row <- row_V, box <- box_V, tasks <- tasks_V,
  doing <- doing_V, asked <- asked_V, faults <- faults_V
M == INSTANCE Mounts WITH
  MaxAsked <- MaxAsked_M, box <- box_M, device <- device_M, drafts <- drafts_M,
  tasks <- tasks_M, doing <- doing_M, asked <- asked_M, faults <- faults_M, astray <- astray_M
P == INSTANCE Ports WITH
  MaxAsked <- MaxAsked_P, row <- row_P, box <- box_P, device <- device_P, drafts <- drafts_P,
  tasks <- tasks_P, asked <- asked_P, faults <- faults_P, astray <- astray_P
A == INSTANCE AgentUpdate WITH kind <- kind_A, faults <- faults_A
E == INSTANCE TaskEvents WITH Task <- Task_E, set <- set_E, now <- now_E

ASSUME PlatformAssumption ==
  /\ D!Parameters /\ S!Parameters /\ V!Parameters /\ M!Parameters
  /\ P!Parameters /\ A!Parameters /\ E!Parameters

Init == D!Init /\ S!Init /\ V!Init /\ M!Init /\ P!Init /\ A!Init /\ E!Init

Next ==
  \/ D!Next /\ UNCHANGED <<rules, volumes, hotMounts, ports, updates, waits>>
  \/ S!Next /\ UNCHANGED <<directories, volumes, hotMounts, ports, updates, waits>>
  \/ V!Next /\ UNCHANGED <<directories, rules, hotMounts, ports, updates, waits>>
  \/ M!Next /\ UNCHANGED <<directories, rules, volumes, ports, updates, waits>>
  \/ P!Next /\ UNCHANGED <<directories, rules, volumes, hotMounts, updates, waits>>
  \/ A!Next /\ UNCHANGED <<directories, rules, volumes, hotMounts, ports, waits>>
  \/ E!Next /\ UNCHANGED <<directories, rules, volumes, hotMounts, ports, updates>>

Spec == Init /\ [][Next]_vars

-----------------------------------------------------------------------------
(* The properties of the parts, as their modules state them                *)

(* The variables of every part have the values they are declared for.      *)
TypeOK == D!TypeOK /\ S!TypeOK /\ V!TypeOK /\ M!TypeOK /\ P!TypeOK /\ A!TypeOK /\ E!TypeOK

(* user_directory_scans: a row that is ready shows what is in the          *)
(* directory, and one that says scanning has its scan.                     *)
RowsAreTrue == D!RowsAreTrue

(* user_directory_upload: uploads one after the other stay within the      *)
(* quota.                                                                  *)
UploadsWithinQuota == D!UploadsWithinQuota

(* scheduled_container_sync_loop: a daily rule runs on every day it can    *)
(* count on.                                                               *)
DailyRunsDaily == S!DailyRunsDaily

(* scheduled_container_sync_loop: and at most once a day.                  *)
OncePerDay == S!OncePerDay

(* user_workspace_volumes: an unused volume is kept for its retention.     *)
KeptForRetention == V!KeptForRetention

(* user_workspace_volumes: a row tells whether its volume is there.        *)
RowIsTrue == V!RowIsTrue

(* Hot mounts: the devices of an instance follow the lists of its row.     *)
DevicesFollowLists == M!DevicesFollowLists

(* node_resource_cache: a row tells whether its copy is there.             *)
CacheIsTrue == M!CacheIsTrue

(* container_ports: proxies and listeners follow the rows.                 *)
PortsLeadHome == P!PortsLeadHome

(* access_status: pending only while a sync with ssh is open.              *)
AccessSettles == P!AccessSettles

(* agent-updater: a version that works stays on the disk.                  *)
KeepsAWorkingVersion == A!KeepsAWorkingVersion

(* agent_update_status: tells what is in the place of the agent.           *)
StatusTellsTheBinary == A!StatusTellsTheBinary

(* _wait_for_node_task: no wake-up is lost.                                *)
NoLostWakeup == E!NoLostWakeup
=============================================================================
