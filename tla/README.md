# server-vps: a verification project

server-vps is a GPU container platform: a FastAPI backend with a PostgreSQL ledger decides, and a Go
agent on every node executes. These modules model the parts of it where order, loss and concurrency
matter. TLC checks them on small instances, TLAPS proves the main theorems for every instance.

To run: `tlc -config TaskQueue.cfg MCTaskQueue` and so on (see *Runs*); `tlapm TaskQueueProofs.tla` and so on (see
*Theorems*).

## Inventory

| component | state | operations | interacts through |
|---|---|---|---|
| node task queue (`agent/tasks.py`, `agent/routes.py`, agent `tasks.go`, `common.go`, `main.go`) | rows of `node_tasks`: status, claimed_at, available_at, attempts, container_id | enqueue, claim, progress, result, cascade with the container; the agent's loop and its slot | every other component posts tasks; results run that component's code |
| container lifecycle (`containers/routes.py`, `agent/routes.py`, `nodes/services.py`, agent `incus.go`) | `containers.status`, `expires_at`; the Incus instance; the agent's cached listing | create, start, stop, restart, delete, force delete, retry, SSH retry, expiry loop, heartbeat, results | task queue, heartbeat, Incus |
| scheduling, quota, GPU ledger (`containers/scheduler.py`, `services.py`) | containers, `container_gpus`, quotas, node capacity | select node and GPUs, quota check, resource change, retry | creates of all users read the same tables |
| workspace volumes (`containers/routes.py`, `storage/services.py`) | `user_workspace_volumes`: status, lifecycle, cleanup_after | taken into use by create, retention on last delete, hourly removal, manual removal | task queue, container lifecycle |
| container data sync (`containers/routes.py`, `agent/routes.py`, agent `sync.go`) | `data_sync_tasks`, temporary keys on the storage node | sync, wait for key, transfer, stall, key removal | task queue, event registry |
| scheduled sync rules (`containers/routes.py`) | `container_sync_rules`: last_run_at | a round a minute, create, change, run, delete a rule | data sync |
| user directories (`data/routes.py`, agent `directory.go`) | files on the storage node, `user_directory_scans` | scan, upload, delete; syncs from containers | task queue, SSH to the storage node |
| shared resources (`data/routes.py`, agent `resource_download.go`, `resource_migrate.go`) | `shared_resources.request_status`, `check_status`, directories, the downloader's mount | request, download, upload, check, migrate path, delete | task queue |
| node resource cache and hot mounts (`containers/routes.py`, `sync_resource.go`) | `node_resource_cache`, lists of mounts, devices | copy, clear, mount, unmount | task queue, containers |
| ports and routing (`containers/ports.py`, `port_router.py`, `http_path_proxy.py`) | `container_ports`, router tables | allocate, add, change, remove, sync to Incus, poll | task queue, proxies |
| waiting for node tasks (`agent/tasks.py`) | in-memory events | register, signal, release, garbage collection | request threads, result endpoint |
| images (`images/routes.py`, `storage/services.py`) | image files, node inventories | export, push, pull, import, distribute, delete | task queue |
| agent updates (`agent/updates.py`, `agent-updater`) | releases, per-node target | build, publish, check, download, swap, roll back | agent restarts |
| node registration, metrics (`nodes/`, `metrics/`) | `nodes`, snapshots | register, heartbeat, metrics, stale marking | heartbeat |
| terminal relay (`agent/routes.py`, `terminal.go`) | websocket sessions in memory | open, input, output, close | agent websocket |
| users, sessions, SSO | users, sessions, one-time states | CRUD, login | - |
| ZFS datasets, NFS mounts (`zfs.go`, `nfs.go`) | datasets, mounts | sequences of commands | task queue |

What is hard in it: two HTTP requests each read, check and write without locks (psycopg at READ
COMMITTED); tasks run in two places of the agent; an 8 s client timeout leaves claims and results in
doubt; a lease brings tasks back that may still be running; results are accepted whatever the status of
their task; heartbeats write what they read some time before; the agent forgets everything when it
restarts; and a node's instances can change behind the platform's back.

What makes each component correct:

- task queue: one execution at a time while the backend hears of it; first come, first started; a
  settled task stays settled; everything is settled in the end.
- container lifecycle: every transitional status has a task that ends it; a removed row leaves nothing on
  the node; when all is quiet the ledger says what is there.
- scheduling: no GPU has more containers than its node allows; quotas and node capacity are not exceeded.
- workspaces: a volume that containers use is not removed; a row says active only of a volume that exists.
- data sync: a sync ends once and for all; its key is there while it runs and goes afterwards.
- sync rules: a daily rule runs every day and once a day.
- user directories: a listing shows what is there; uploads respect the quota.
- shared resources: what a row says is under way is; what was checked is still what is there.
- cache and mounts: a copy that is called ready is complete; devices follow the lists.
- ports: Incus ends with the ports of the ledger, and a public port leads to the mapping that has it.
- updates: a version that works stays on the node; the status tells which one is in place.
- waiting: a waiter learns of a settled task without sleeping out its timeout.

## Modules

| module | models |
|---|---|
| `WorkLedger` | abstract: what the platform promises about work handed to a node |
| `TaskQueue` | the `node_tasks` of one node, the claim, progress and result endpoints, the agent's loop and slot |
| `MCTaskQueue` | its instance for TLC |
| `TaskQueueProofs` | theorems of `TaskQueue`, and that it implements `WorkLedger` |
| `Containers` | the life of one container name on one node: requests, tasks, Incus, heartbeat |
| `MCContainers` | its instance for TLC |
| `ContainersProofs` | theorems of `Containers` |
| `Scheduler` | GPUs, places on nodes and quotas under concurrent creates and resource changes |
| `MCScheduler` | its instance for TLC |
| `SchedulerProofs` | theorems of `Scheduler` |
| `Resources`, `MCResources`, `ResourcesProofs` | the rows of one public resource, its tasks, directories and the downloader |
| `DataSync`, `MCDataSync`, `DataSyncProofs` | data syncs and their temporary keys |
| `DirectoryScans` | the files of a user and the listings remembered of them |
| `SyncRules` | scheduled rules and the loop that runs them |
| `Workspaces` | a user's workspace volume on a node |
| `Mounts` | a node's cache of resources, the mounts of containers and their devices |
| `Ports` | port mappings, Incus proxies and the port router |
| `AgentUpdate` | releases, the updater and the agent's binary |
| `TaskEvents` | requests that wait for node tasks |
| `Platform` | the last seven beside each other, with their assumptions and properties |
| `MCPlatform` | its instance for TLC |
| `NodeProofs` | theorems of `Platform` about `AgentUpdate` and `TaskEvents` |
| `UserDataProofs` | theorems of `Platform` about `SyncRules`, `DirectoryScans` and `Workspaces` |
| `AttachmentsProofs` | theorems of `Platform` about `Mounts`, `Ports` and all seven |

How they compose: every component posts to the queue of node tasks and has a branch in its result endpoint.
`TaskQueue` is the queue by itself, with every loss, repetition and order that the lease allows; each other module has
the tasks of its own component with those of these behaviours that its state can tell apart: executed again after a
lost report, reported late, overtaken by a later task, or removed with the container. Components meet in few places
beyond that, and there the module that owns the state has the other's step: `Containers` takes its import task
from the image catalogue, `DataSync` has the container's removal, `DirectoryScans` the sync that writes to a home,
`Resources` the copy that is an upload, `Mounts` the container that settles or goes, `SyncRules` the sync that commits
the round. `Platform` puts the seven smaller modules beside each other: it is an instance of each, with constants and
variables of its own where names of two of them clash (`row_D` is the `row` of directories, `row_P` that of ports), and
a step of it is a step of one of them.

### TaskQueue

`status` is `node_tasks.status` (with `absent` before the insert and `erased` after the cascade), `age`
is `now - claimed_at` and `wait` is `available_at - now`, both saturating, so time needs no unbounded
clock: `Tick` ages them. `exec` holds what the two places of the agent execute: the loop and the slot
(`slowTaskSem`). `wire` holds results whose report timed out on the agent but which the backend may still
process. `heard` is history: the time since the backend last heard of a task.

`Claim` is the claim endpoint and the dispatch of `processTasks` in one step, `ClaimLost` the same with the
answer lost. `Result` is the result endpoint: it looks only at whether the row exists, settles it, and either
refuses the creates of the same container or posts a follow-up. `Report`, `ReportFails` and `LateResult` are
the three fates of a report. `Restart` is the end of the agent's process.

The data sync of a task (whether retries are left) is a choice of `Result`; what a result does to other
tables is not here. `SKIP LOCKED` needs no action of its own: the row it skips is one a result is about to
settle, so the claim is ordered after that result. Tasks become visible in the order of their ids; that holds
within a transaction (an import and its create), while two overlapping transactions could commit the other way
round, which `StartedInOrder` does not speak about.

### Containers

`containers.name` is unique, so the module follows one name through the rows that get it one after the other,
and through the one Incus instance of that name. A request is two steps: `Begin` is its read and its checks
(`Accepts`), `Commit` the UPDATE and the task it posts. `Result` is the result endpoint for the tasks of a
container, in the order of its branches: `Removed`, `Created`, `Changed`, `Failed`. `Works`, `Refuses` and
`Breaks` are the agent's executors: what succeeds, what is refused without a change, and what a failing
command leaves behind. `Collect`, `Heartbeat` and `HeartbeatWrites` are the collector's listing, the read and
the update by id of `sync_node_containers`. `Meddle` is anything on the node that is not the platform.

The lease is abstracted to a choice: a claimed task may be offered again at any poll. Every execution that
`TaskQueue` allows is therefore allowed here. `ExecuteBlind` is the delete that cannot list the instances: `runCommand`
returns an empty string for a command that fails (`common.go:18-25`), which reads as "no such instance", and the delete
reports success with the instance there. `doubt` is history: the deletes whose success says nothing of the node, which are
those and the ones the agent had let go of (`LetGo`) when the instance was made again (`Reappears`). A heartbeat writes a row
when its status or its address differs, so `Heartbeat` may write a status again. A task of type `expire` is the delete task of the expiry loop,
whose payload names no operation. `keys` stands for every task of a container that neither changes its status
nor its instance.

### Scheduler

`st`, `owner`, `node` and `gpus` are the rows of `containers` and `container_gpus`. `req[t]` is what a request
being handled has read and decided: it is all that lives between its statements. A create is `Ask` (the usage of
the user and the quota), `Place` (`select_node_and_gpus`: the counts of a node and its schedulable GPUs) and `Insert`
(the rows). A resource change is `AskChange` (the container, the usage of *whoever asks*), `Adjust` (the GPUs it
keeps or takes, the quota) and `Save` (the rows replaced). `Refuse` is every early return, those of checks left out
included. The order of statements is the code's, and other requests and results commit between the steps.
Statements within a step are read at one moment; the ones that matter apart (usage, node, write) are apart.

`Becomes` is a change of status as far as counting is concerned: `Lifecycle`, `Retry`, `ForceDelete`, `TaskResult` and
`Heartbeat` say who makes it and from which statuses. Provisioning, starting, restarting and deleting count alike
and are one status, `busy`. A failed or missing container keeps its rows of `container_gpus` but does not count,
so its GPUs are free to others, and it counts again, unchecked, when it is started, retried or reported.

`late`, `raced` and `granted` are history. A request is late when something was written since it read that it might
have counted; a container is raced when a late request wrote it or when it was counted again without a check;
it is granted when someone other than its owner changed it. The invariants say that these are the *only* ways
past a limit: among containers that are neither, every count is within bounds, whatever else interleaves. How far
past the limit the others go is not bounded by the code, and `SharingLimitHolds` shows that they do.

### Resources

`request`, `check`, `source`, `url` and `manual` are columns of `shared_resources`; a deleted row and the one that is
requested again under its key are two ids, because results find a row by id and the target directory by name.
`disk` says of a directory whose files are in it, whether they are complete, and which row its marker file
(`.cluster-resource-id`) names. `exec` and `pc` are the two places of the agent and how far their task is:
a download is `Seed` (staging begins as a copy of the target), `TakeMount` (the wait for the downloader, then its
one mount is pointed at the staging directory), `Fetch`, `FetchEnds` and `Activate` (staging takes the target's
place); `orphan` is a download in the container that outlived its agent. `Offered` is the claim query; a claimed
task may be offered again at any poll, as in `Containers`. `Downloaded`, `Prepared`, `Verified`, `Migrated`, `Uploaded` and `Failed` are
the branches of the result endpoint. `excused` is history: tasks of the key overlapped, or the row was pointed
elsewhere by hand, and then the check of one says nothing of the files of the other.

### DataSync

`sync` is `data_sync_tasks.status`; `install`, `data`, `fallback` and `cleanup` are the tasks of a sync; `run` its
(at most two) executions; `keys` the lines of `authorized_keys`. `Create` commits and then waits in
`_wait_for_node_task`; `GoOn`, `GiveUp` and `RequestDies` are its ends. `AfterInstall` and `AfterRemoval` are the two
scripts that rewrite the file, with the test `Marks` they find a line by. The file is rewritten in place: `InstallKeyUnread` is an
installation that cannot read it and goes on with an empty one, `WriteFails` what a write that fails leaves, for an
installation (`InstallFails`) as for the two removals (`CleanupFails`, `FallbackFails`), which are not tried again. `torn` is
history: the lines such a write lost. `Week` lets the line and the fallback
removal fall due. A claim (`ClaimData`) writes *running* over any status, and `Report` writes its result over any,
as the code does.

The branches for retries and for a verification stage are not in it. Both read `detail` of the row, and no code
of the repository writes `max_retries`, `retry_backoff_seconds` or `verification` there, so they never run.
`Expire` needs a heartbeat with a node id, which this agent does not send; it is there because another agent could,
and nothing relies on it.

### DirectoryScans, SyncRules, Workspaces

`DirectoryScans`: `disk` is what each directory lists, `row` and `shown` the row of `user_directory_scans`. A scan is
queued, reads and is reported in three steps; an upload measures the usage (`BeginUpload`), writes files one by one,
lists the target and writes the row; `Remove` and `RemoveFails` are the deletion that ends and the one that fails or loses its connection when some of the
directory is gone. A measurement that fails counts as a usage of 0 (`BeginUpload`); `blindly` counts the files let in like
that, and `stale` is history of the directories that a change did not tell. A quota of 0 means none: there is nothing to
measure then, and the module is about a quota that is one.

`SyncRules`: `Window` is the query of a round, `Due` the rule's arithmetic of days and intervals, `Run` and
`EnqueueFails` a rule's turn. `undo` is what a rollback gives back (`Undone`); it is emptied when a sync to another node
commits the round. `chances` are the days on which a rule could count on being run.

`Workspaces`: `row` is the row of `user_workspace_volumes`, `volume` the volume in Incus. `Create`, `Retain` (the
delete of the last container), `Expired` (the hourly loop) and `Reads` and `Writes` (an administrator's removal, whose
check and write are apart) change it, and the node executes their tasks one by one. `ExecuteBlind` is a removal
that cannot list the pool, or a delete that cannot list the instances: both take it for an empty list and report success.
`ExecuteFails` may have done what it reports as failed, because a command can time out when it is done. `raced`, `forced` and
`unseen` are history; the last says that a removal took a volume that is there for none.

### Mounts, Ports

`Mounts`: `mounts`, `managed` and `linked` are the lists of a container, `device` what the instance has. A request is
`Reads` and `Writes`; what it leaves alone (`managed` of two of the requests, other rows of `container_resources`) it
does not write. The copy of a resource takes the slot; its result switches every container that mounts it. `astray`
is history of the devices that failed, overlapping or repeated tasks leave behind, `muddled` of the resources that were
copied twice at once or lost their copy to the removal of a container.

`Ports`: `row` is `container_ports`, a draft is a transaction with the list it has seen, `device` the proxies of an
instance, `listens` and `clients` the router's listeners and their connections. `Clash` is what makes Incus refuse a
proxy. A sync (`Execute`) removes the proxies of the instance and adds the listed ones (`Proxies`); that one cannot be listed
or removed is not looked at, so some of them may stay (`Kept`) while the sync reports success, and `cluttered` is history of
the containers of which the last sync left some. `Restart` is `enqueue_running_port_syncs`, whose query does not see a claimed sync.

### AgentUpdate, TaskEvents

`AgentUpdate`: `binary` and `backup` are the two places on the disk, `agent` what runs, `updater` the step the updater
is at. Each `os.Remove` and `os.Rename` is an action, so that `Cut` can come between any two. A version works, fails
at once, or fails after the three seconds of the check. `again` is history: a run began after one that was cut off,
and may drop the only backup; the code does not look. The rename that puts the old binary back can fail like any other
(`PutBack`): the binary then stays in the backup's place, the updater reports *failed* or *rolled_back* all the same, and
`stuck` is history of that. Whether the old backup or the new binary could be removed is not looked at either.

`TaskEvents`: `registry` is `_node_task_events`, `set` the events that are set, `created` and `swept` the times of
registration and of the last sweep. `Commit` and `Signal` are the two steps of a result. A request's first look at its
row is prompt (no time passes before it); beyond the limit a request gets an event that nobody sets (`loose`).

## Runs

| run | shows | bounds |
|---|---|---|
| `task_queue` | order, lease, finality, refinement of `WorkLedger`, and that everything settles | 3 tasks: the slow data task, the create that depends on it, and its delayed retry; lease 1, delay 1; 2 faults |
| `slow_task_limit` | the comment on `slowTaskSem` does not hold: two slow tasks run at once | 2 slow tasks, no fault |
| `containers` | no stuck transition, clean removal, transitions end | 2 rows, 4 tasks, 2 requests at once, 1 fault |
| `containers_drift` | the ledger converges to the node | 1 row, 3 tasks, 1 request at a time, 1 fault, 1 outside change |
| `expiry_delete` | the expiry loop's delete fails | 1 row, no fault |
| `retry_devices` | a retried create runs without its devices | 1 row, 1 fault |
| `scheduler` | sharing, quotas and node capacity, up to races and containers counted again | owner and administrator, 1 node of 2 containers, 2 GPUs not shared, a quota of 1 GPU each, 3 rows, 2 requests at once, 2 changes of status |
| `sharing_limit` | a GPU that is not shared gets two containers | 1 GPU, 2 rows, 1 request at a time, 3 changes of status |
| `resources` | every status has its task, what was checked is still there, requests end | 2 rows of a key, 7 tasks, 2 repositories, 2 requests, 1 fault |
| `data_sync` | keys are there while needed and go, syncs end and stay ended | syncs 1 and 2, 2 executions each, 2 faults |
| `sync_key_prefix` | the key of sync 12 goes with that of sync 1 | syncs 1 and 12, no fault |
| `platform` | the seven smaller modules, fourteen invariants | see below |

The bounds are named constants. Three tasks are enough for the queue: order needs two, the refusal of a sibling
needs a failing task and a create, and the retry is the third. A lease of one tick distinguishes "within" from
"beyond"; more ticks only repeat states. Two faults allow a lost report followed by a restart or a second loss.
For containers, two rows of a name are what a leftover instance takes (the row that left it and the row that
finds it), two requests are what a check-then-write race takes, and four tasks give each row a create with
something before or after it. Three tasks suffice for drift: create, its keys, and one more operation.

For the scheduler, two requests are what a race takes, three rows are one more than the node has room for, two GPUs
leave one to choose when the other is taken, and two changes of status let a container stop counting and count
again. The administrator has no quota of containers, so only the owner creates; both have a quota of one GPU, so that
the administrator's is the one that decides a change of the owner's container.

For resources, two requests are what makes tasks of one key overlap or follow each other, seven tasks are as many as two
requests and their follow-ups need, and the second row takes the key after a deletion. For data syncs, the keys of two
syncs are what an installation or removal can confuse, and two faults allow a report that is lost and an execution
that reports after all.

`platform` checks the fourteen invariants of `Platform` in one run. The seven parts have no variable in common and a
step of the platform is a step of one of them, so a behaviour of the platform seen from one part is a behaviour of
that part: whatever can be reached of a part is reached when it alone moves. `MCPlatform` has the variable `part`, which
chooses at the start which of them that is, while the others rest in one of their initial states. Every part is
explored in full, its states added to those of the others and not multiplied with them. The bounds, by part:

| module | bounds and why |
|---|---|
| `DirectoryScans` | directories 0 to 2 (a parent, the one that changes, and one beneath), one file of the whole quota, one scan, 2 threads, 2 requests, 1 fault |
| `SyncRules` | 3 rules and a round that reads 2 (so that one waits outside), 2 days of 2 ticks, 3 requests, 1 fault |
| `Workspaces` | 2 containers (the last and one that comes while a removal is under way), retention 2 of 5 ticks, 1 removal by hand, 1 fault |
| `Mounts` | 2 containers, 2 resources of which one is exported over NFS, 2 requests, both at once, 1 fault |
| `Ports` | 2 containers, 3 mappings, 2 public ports and 2 of the node (interchangeable, hence the symmetry), 2 requests at once, 3 in all, 1 fault |
| `AgentUpdate` | 2 versions built twice, 1 cut, 1 fault |
| `TaskEvents` | 2 tasks and a registry of 1, a timeout of 2, a time to live of 3, and 5 ticks |

In the code the time to live of an event is longer than the timeout of a wait, and the retention of a volume and the day
of a rule are longer than a round; the small numbers keep these orders.

Deadlock is not checked where every row may come to rest, and the bounds on requests and time stop the rest.

### Fairness

`TaskQueue`: the clock ticks, the loop keeps polling (`main.go` sleeps and polls for ever, and systemd restarts
the process), and an execution ends with a report. The last is an assumption: commands that change something run under a
timeout (ten minutes, or what their caller says, `common.go:38-58`), but listings and look-ups go through `runCommand`, which has
none (`common.go:18-25`), so a listing that hangs would hold its executor for ever and everything that waits for it. The models
take it that a listing returns, with or without a result. Nothing is assumed of the network beyond faults being finitely
many. `Containers` assumes the same of polling, executing and
reporting, and that the collector and the heartbeat keep running. `Resources` assumes polling and that every step of an
execution, an orphan's included, comes to an end, on the same assumption. `DataSync` assumes that both agents poll, that rsync ends (it runs under a timeout), that a
waiting request goes on (its wait has a timeout) and that weeks pass. No request, fault, stall or outside change is
fair. The parts of `platform` have invariants only.

## Theorems

Every safety property of the passing runs is a theorem here, for every value of the constants that the assumptions allow.

`TaskQueueProofs`, under `TaskQueueAssumption` (tasks are numbers, the sets of tasks are what they say, lease,
delay and faults are numbers):

- `TypeCorrect`; `NothingRunsUnclaimedHolds`; `StartedInOrderHolds`; `LeaseIsHonoured`; `SettledStaysSettled`;
- `QueueImplementsLedger`: every step of the queue is a step of the ledger or leaves it alone.

The inductive invariant `QueueInv` ties what no single variable shows: whatever executes or is on the wire
belongs to a row that was claimed once, and `heard` is never smaller than `age` for a claimed row. Without the
second, the lease could not be related to what the backend heard; without the first, an answer of work nobody
was granted would break the refinement.

`ContainersProofs`, under `ContainersAssumption`:

- `TypeCorrect`;
- `TransitionIsCovered`: `TransitionHasItsTask` is inductive with the type invariant. A lemma per kind of
  change says which rows it can uncover: a post covers the row it is for, a result leaves its own row at rest
  or is of a task that ends no transition, a cascade takes the row with its tasks, and a heartbeat writes only
  statuses at rest. The refusal of open creates is safe because the row that loses its create is failed in the
  same transaction.
- `RemovalLeavesNothing`: from `CleanInv`. The slot executes nothing but imports, so while the loop holds a
  delete that succeeded nobody can create or start the instance before the report. When the report may come late the
  instance can be made again before; `Vouched` says that every success of a delete that is not in doubt, held by the loop or
  on the wire, still tells of an absent instance.

`SchedulerProofs`, under `SchedulerAssumption` (GPUs and rows are finite sets, limits and quotas are numbers):

- `TypeCorrect`; `SharingHolds`, `QuotaHolds`, `NodeHolds`.

The inductive invariant `IInv` adds to the limits what a request has read: as long as it is not late, the counts it
saw are still bounds of the present ones (`Current`), so that its write keeps the limits. Counts only grow by
writes, which make every other request late, and by containers counted again, which are raced themselves; a
container that stops counting makes late only the change that had subtracted it. The limits are conjuncts
of one invariant because a write adds to all of them at once.

`DataSyncProofs`, under `SyncAssumption` (syncs are numbers of up to four digits, faults a number):

- `TypeCorrect`; `NoKeyForgotten`; `EndedStaysEnded`; and, when no id of a sync begins with that of another (`Apart`),
  `RunsFindTheirKey`. The run `sync_key_prefix` shows that `Apart` is needed.

The inductive invariant `SyncInv` says how the columns of one sync go together (`Waiting`, `GivenUp`, `UnderWay`,
`Installed`, `Removed`), removals that failed included. The heart of it is that an open data task means a sync that has not ended and whose cleanup was not
asked for: claims and results write the sync without looking at it, and this is why they never reopen one.

`ResourcesProofs`, under `ResourcesAssumption` (rows and tasks are numbers, and `None` is none of the values it stands beside):

- `StatusesEnd`: `StatusHasItsTask`; `ResourcesTypeOK`: `TypeOK`; `OkMeansChecked`: `OkIsTrue`; each for every number of
  rows, tasks, repositories, requests and faults.

The proof has three layers, each an invariant that uses the one before.

1. `RowInv` says that a task that was enqueued is of a row (`TasksHaveRows`), that only such tasks are executed, and
   that a new row is unchecked. A result closes one task and may write any row's status by id, so the lemmas follow what
   a closed task leaves uncovered: `Posted`, `Followed` and `Closed` say what enqueuing, continuing and settling do to the
   open tasks of a row.
2. `TypeInv` adds `TypeOK` and `Fitting`: how far an execution is fits the type of its task, and what outlived its agent is
   a download. Types need it because what is written to a directory comes from the payload, which has a repository only
   when the task is a download. `QueueKeeps` and `AgentKeeps` say what most steps leave alone.
3. `OkInv` adds that a key has one row at a time (`OneRowLives`) and, until something is excused, `Orderly`: one task is open
   at a time and executed at most once at a time (`OneAtATime`), it works where its row says on what its row says
   (`FitsRow`), and what a check found, or a row says was found, is so. `OkIsTrue` speaks of moments at rest; to be
   inductive it has to say why nothing has touched the files since the check. The reason is in `NoOkRow`: while a task is
   open no row says ok, so whatever writes a directory, an orphan included, does so when there is nothing to spoil. The
   one write without a task is a download by hand, and that only goes into an empty target, where no check passes.

`NodeProofs`, `UserDataProofs` and `AttachmentsProofs` are about `Platform`, under `PlatformAssumption`, the conjunction of the
`Parameters` of the parts: sets whose members are counted are finite, bounds are numbers, 0 is no version and no
container, a day and an interval are not 0, and an event is kept no shorter than a request may wait (120 and 15 seconds in
the code). For each part `X` a lemma `...Move` shows that `Platform` implements it (`Spec => X!Spec`: every step of the
platform is a step of `X` or leaves its variables alone), and a lemma `...Always` that its inductive invariant holds
throughout. `PlatformTypeOK` puts the seven `TypeOK` together. The other theorems, with the invariant each needs:

- `AWorkingVersionIsKept` (`KeepsAWorkingVersion`), from `UpdateInv`: in which of the two places the version that works is at
  each step of a run. After a cut, or a rename back that failed, it may be in either, and this is why the run that
  follows is excepted.
- `TheRowTellsTheBinary` (`StatusTellsTheBinary`), from `PlacedInv`: where the version that a run found in place is, and the
  one it brings. The status alone says neither, since a report may be lost after the files were moved.
- `NoWakeupIsLost` (`NoLostWakeup`), from `WaitInv`: whoever may still sleep has its event in the registry, because a sweep
  takes only what is older than any wait, and a sleeper whose task was signalled has its event set.
- `RulesRunOncePerDay` (`OncePerDay`) and `NoDayIsMissed` (`DailyRunsDaily`), from `RulesInv`. Once a day needs `Dated`: no run is
  later than what the row says, or the row the round has read, or the value a rollback gives back. Every day needs the
  converse, `LastIsTrue`: what `last_run_at` says was a run of that day and stays one if it is set back; and `SureRuns`, that
  a rule that counts on a round has run or is about to. That the round reads every such rule is arithmetic of places in
  an order (`Place`, `Rows`).
- `ReadyRowsAreTrue` (`RowsAreTrue`) and `UploadsFit` (`UploadsWithinQuota`), from `ScansInv`: a listing on its way is what is in its
  directory or the directory is stale; a ready row shows what is there unless a request that covers the directory will
  still write it (`Covers`); and what is left of the only upload still fits (`OneUpload`), beyond what was let in unmeasured,
  which takes lemmas about the size of a home.
- `VolumesAreKept` (`KeptForRetention`) and `RemovedMeansGone` (`RowIsTrue`), from `VolumeInv`: an open task of a container is what
  its row waits for (`OneEach`), nothing makes a volume while it is removed (`NoneMade`), a removal that succeeded leaves a
  volume only if it did not see it, and the date in the row is that of
  the last container (`RemovalDated`), which the loop respects (`InDate`).
- `CacheRowsAreTrue` (`CacheIsTrue`) and `InstancesFollow` (`DevicesFollowLists`), from `MountsInv`: which task or copy each row of the
  cache waits for (`CopiesFit`), and that the newest open task that sets a mount sets it as the list has it, or, when
  there is none, the device is as the list has it (`Follows`). A queue from whose middle tasks are taken needs lemmas of
  how its elements move up.
- `MappingsLeadHome` (`PortsLeadHome`) and `PendingAccessEnds` (`AccessSettles`), from `PortsInv`: the newest open sync of a container
  lists its rows (`NewestIsTrue`), an instance without one has them all (`Serves`), no two mappings have one public port (`HostsDiffer`), and a router at rest listens for the
  routes it has seen (`Listening`).

Each of these invariants was an invariant of a TLC run before it was proved; several were too weak at first, and the
counterexamples to induction are why they say what they say.

Only model-checked: liveness (`EveryTaskSettles`, `TransitionsEnd`, `RequestsEnd`, `SyncsEnd`, `KeysGo` and `LedgerConverges`),
because fairness is beyond the prover. That the bounded runs explore a part in full is TLC's doing, too; the theorems do
not depend on `MCPlatform`.

## Where the code and its documents differ

1. *Slow tasks* (`agent/cmd/node-agent/tasks.go:405`, `:465-467`): the comment limits them to one at a time; when
   the slot is taken the loop runs the next one itself.
2. *Expiry* (`containers/routes.py:482`, `:517-523`): expired containers are said to be deleted; the delete task
   names no operation, the agent refuses it, and the container ends as failed.
3. *Devices after a retry* (`docs/architecture.md:95`, `incus.go:639-755`): mounts and GPUs are configured only for
   an instance that does not exist yet; a retry that finds one runs without those the first attempt did not reach.
4. *GPU sharing* (`docs/node-onboarding.md:183`, `containers/routes.py:775-778`, `:820-837`): failed and missing
   containers do not count, so their GPUs go to others; start, restart and retry take them back without a look at
   the limit, even when requests come one at a time.
5. *Keys of syncs* (`agent/cmd/node-agent/sync.go:1385-1386`, `:1436`): old lines of the same key id are to be dropped;
   lines that contain the id as the beginning of theirs are dropped too.

## What the properties except

Several properties hold only of states that history does not excuse, because the code does not promise more. The
history variables name each such case, so that nothing else passes under them:

- scheduler: requests that are late and containers counted again go past limits (`late`, `raced`, `granted`);
- containers: a delete that could not list the instances, and a delete whose success is reported after the agent has made
  the instance again (`doubt`). A force delete is not in `RemovalIsClean`: it removes the record and nothing else, on purpose,
  and what the agent is doing then may leave an instance that the next row of the name finds;
- resources: overlapping tasks of one key (`excused`);
- data sync: a request that gives up leaves its key in the file until another installation finds it expired; so does a
  removal of the week that fails, when the one at the end failed or was never asked for; and a file that cannot be read or
  written may lose the lines of other syncs (`torn`);
- directories: uploads that overlap, syncs from containers, and directories changed by other means than the row's, a deletion
  that fails half way among them (`stale`); files let in when the home could not be measured (`blindly`): the quota is exceeded
  by these and no more;
- volumes: a create in the middle of a removal, force deletes, which leave the old `cleanup_after`, and a removal that could not
  list the pool (`unseen`);
- mounts: overlapping requests, tasks that failed (their results are not looked at) or were executed out of order;
  two copies of a resource at once; and the copy that goes with its container, which leaves *syncing* for good;
- ports: changes while a container is stopped, overlapping requests and repeated tasks (`astray`), old proxies that the last sync
  could not remove (`cluttered`; the mappings themselves are there all the same), ports the router could not bind (`deaf`), and
  listeners that wait for an open connection, for which nothing can be promised;
- updates: a run after one that was cut off or could not put the old binary back (`again`), the status of a run that could not
  (`stuck`), which says nothing of the agent's place but has the old binary in the backup's, and releases that fail only after
  the check.

## Not modelled

- *Images*: export, push, pull, distribution and deletion write a status each and read none of the others'.
- *ZFS datasets and NFS mounts*: sequences of shell commands on the storage node; their tasks appear in the queue
  like any other.
- *Users, sessions and SSO, terminal relay, frontend, deployment*: request-at-a-time CRUD, state in the memory of one
  process, user interface and scripts.
- *Commands that outlive their client*: a command that Incus or a node carries out is taken to end with the client the agent
  started, apart from the download in `Resources`, which may go on in its container.
- *Metrics and staleness of nodes*: thresholds on a time, appended rows.
- Within modelled components: quotas of CPU, memory and disk, and the order of preference of the scheduler;
  publishing and exec; the removal of a node, which the database refuses while it has containers; progress figures of
  downloads and the renaming of a resource; UDP and the HTTP path proxy; that `incus list NAME` also lists names that begin with NAME; retries and verification of data syncs (see
  *DataSync*).

## Plan

Next, in this order: an abstract statement of a resource's life that `Resources` implements, as `WorkLedger` is for the
queue; action properties of the parts of `Platform` (what a step may never do) from the invariants that are there; and the
lemmas on queues from whose middle tasks are taken, which `Workspaces`, `Mounts` and `Ports` need alike, in one place.
