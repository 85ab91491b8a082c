----------------------------- MODULE Resources -----------------------------
(***************************************************************************)
(* Public datasets and models: the rows of shared_resources that carry one *)
(* type, name and provider, the tasks that bring, check and move their     *)
(* files, and the directories on the storage node.                         *)
(*                                                                         *)
(* A key has one row at a time; a row that is deleted and requested again  *)
(* is a row with the next id.  All its rows are downloaded to one target,  *)
(* the provider layout, and each of them has a staging directory beside it *)
(* (.<id>.partial), here named by the row.  The agent has one downloader   *)
(* container with one mount, which every download points at its own        *)
(* staging directory.                                                      *)
(***************************************************************************)
EXTENDS Naturals, FiniteSets

CONSTANTS
  Resource,     \* ids of rows, in the order of their insertion
  Task,         \* ids of node_tasks, in the order they are enqueued
  Repo,         \* what can be requested: repository and revision
  MaxRequests,  \* bound on what users and administrators ask for
  MaxFaults,    \* bound on failed commands, lost reports and restarts
  Layout,       \* the target {base}/{provider}/{name}
  Legacy,       \* another directory below the base
  Link,         \* a symlink to the target
  Own,          \* files of a user's or an administrator's own
  None          \* no row, no task, no source_url, no such directory

ASSUME ResourcesAssumption ==
  /\ Resource \subseteq Nat
  /\ Task \subseteq Nat
  /\ MaxRequests \in Nat /\ MaxFaults \in Nat
  /\ None \notin Resource \cup Task \cup Repo \cup {Layout, Legacy, Link, Own}

VARIABLES
  request,   \* request_status of a row, or that there is none
  check,     \* check_status
  source,    \* source_path
  url,       \* source_url
  manual,    \* whether download_progress says manual_ready
  state,     \* status of a task
  kind,      \* its type
  of,        \* the resource_id in its payload
  arg,       \* the repository, the paths and the options in its payload
  exec,      \* what the polling loop and the slow slot are executing
  pc,        \* how far they are
  mount,     \* the directory mounted into the downloader
  orphan,    \* a download whose agent died, still running in the downloader
  disk,      \* what each directory holds
  requests,  \* how much of MaxRequests is used
  faults,    \* how much of MaxFaults is used
  excused    \* history: tasks overlapped, or the row points somewhere else

rows == <<request, check, source, url, manual>>
queue == <<state, kind, of, arg>>
agent == <<exec, pc>>
store == <<mount, orphan, disk>>
vars == <<rows, queue, agent, store, requests, faults, excused>>

Executor == {"slot", "loop"}
Place == {Layout, Legacy} \cup Resource
Stem == Repo \cup {Own}

(* A directory: whose files are in it, whether they are complete, and the  *)
(* row its marker file names.                                              *)
Content == [files : SUBSET Stem, whole : BOOLEAN, mark : Resource \cup {None}]
Empty == [files |-> {}, whole |-> TRUE, mark |-> None]

Underway == {"preparing", "downloading", "uploading", "finalizing", "checking"}
Request == {"absent", "gone", "ready", "awaiting", "failed"} \cup Underway
Check == {"unknown", "checking", "ok", "failed"}
Kind == {"none", "download", "prepare", "verify", "migrate", "upload"}
State == {"absent", "pending", "claimed", "succeeded", "failed"}
Arg == [repo : Repo \cup {None}, from : Place, to : Place, flag : BOOLEAN]
NoArg == [repo |-> None, from |-> Layout, to |-> Layout, flag |-> FALSE]
Step == {"none", "begun", "seeded", "mounted", "fetching", "fetched", "ok", "error"}

TypeOK ==
  /\ request \in [Resource -> Request]
  /\ check \in [Resource -> Check]
  /\ source \in [Resource -> Place]
  /\ url \in [Resource -> Repo \cup {None}]
  /\ manual \in [Resource -> BOOLEAN]
  /\ state \in [Task -> State]
  /\ kind \in [Task -> Kind]
  /\ of \in [Task -> Resource \cup {None}]
  /\ arg \in [Task -> Arg]
  /\ exec \in [Executor -> Task \cup {None}]
  /\ pc \in [Executor -> Step]
  /\ mount \in Place \cup {None}
  /\ orphan \in Task \cup {None}
  /\ disk \in [Place -> Content \cup {None, Link}]
  /\ requests \in 0..MaxRequests
  /\ faults \in 0..MaxFaults
  /\ excused \in BOOLEAN

(* Some data was copied to a directory of its own before the platform came. *)
Init ==
  /\ request = [r \in Resource |-> "absent"]
  /\ check = [r \in Resource |-> "unknown"]
  /\ source = [r \in Resource |-> Layout]
  /\ url = [r \in Resource |-> None]
  /\ manual = [r \in Resource |-> FALSE]
  /\ state = [t \in Task |-> "absent"]
  /\ kind = [t \in Task |-> "none"]
  /\ of = [t \in Task |-> None]
  /\ arg = [t \in Task |-> NoArg]
  /\ exec = [e \in Executor |-> None]
  /\ pc = [e \in Executor |-> "none"]
  /\ mount = None
  /\ orphan = None
  /\ disk = [p \in Place |-> IF p = Legacy THEN [Empty EXCEPT !.files = {Own}]
                                             ELSE None]
  /\ requests = 0
  /\ faults = 0
  /\ excused = FALSE

Fault == faults < MaxFaults /\ faults' = faults + 1
Live(r) == request[r] \notin {"absent", "gone"}
Open(t) == state[t] \in {"pending", "claimed"}
OpenOf(r, K) == {t \in Task : Open(t) /\ of[t] = r /\ kind[t] \in K}

(* The row an INSERT ... ON CONFLICT writes: the live one, or a new one.   *)
Upserts(r) ==
  \/ Live(r)
  \/ /\ request[r] = "absent"
     /\ \A q \in Resource : ~Live(q) /\ (q < r => request[q] = "gone")

-----------------------------------------------------------------------------
(* Enqueuing *)

Fresh(t) == state[t] = "absent" /\ \A u \in Task : u < t => state[u] # "absent"

(* Something of these rows is open, or runs although it was settled.       *)
Crowded == \/ \E t \in Task : Open(t)
           \/ orphan # None
           \/ \E e \in Executor : exec[e] # None

PostTo(st, t, k, r, a) ==
  /\ Fresh(t)
  /\ state' = [st EXCEPT ![t] = "pending"]
  /\ kind' = [kind EXCEPT ![t] = k]
  /\ of' = [of EXCEPT ![t] = r]
  /\ arg' = [arg EXCEPT ![t] = a]

Asked == requests < MaxRequests /\ requests' = requests + 1

(* A handler enqueues a task for r; elsewhere says that r's source_path is *)
(* not where the task works.                                               *)
Ask(t, k, r, a, elsewhere) ==
  /\ Asked
  /\ PostTo(state, t, k, r, a)
  /\ excused' = (excused \/ Crowded \/ elsewhere)
  /\ UNCHANGED <<agent, store, faults>>

Inspection(u, p, m) == [repo |-> u, from |-> p, to |-> p, flag |-> m]
Download(u) == Inspection(u, Layout, FALSE)
Move(p, link) == [repo |-> None, from |-> p, to |-> Layout, flag |-> link]

-----------------------------------------------------------------------------
(* What users and administrators ask for *)

(* Request a repository: downloaded by the platform, or by hand in the     *)
(* downloader.  A row that exists keeps its source_path; the target is the *)
(* provider layout all the same.                                           *)
RequestResource(r, u, byHand, t) ==
  /\ Upserts(r)
  /\ Ask(t, IF byHand THEN "prepare" ELSE "download", r, Download(u),
         Live(r) /\ source[r] # Layout)
  /\ request' = [request EXCEPT ![r] = IF byHand THEN "preparing" ELSE "downloading"]
  /\ check' = [check EXCEPT ![r] = "unknown"]
  /\ url' = [url EXCEPT ![r] = u]
  /\ manual' = [manual EXCEPT ![r] = FALSE]
  /\ UNCHANGED source

(* Upload from a container: a new name, or an upload or request of one's   *)
(* own that did not come to an end.  u is None when no source is given.    *)
Upload(r, u, t) ==
  /\ Upserts(r)
  /\ Live(r) => request[r] \in {"uploading", "failed"}
  /\ Ask(t, "upload", r, Inspection(u, r, FALSE), FALSE)
  /\ request' = [request EXCEPT ![r] = "uploading"]
  /\ check' = [check EXCEPT ![r] = "unknown"]
  /\ url' = [url EXCEPT ![r] = u]
  /\ source' = [source EXCEPT ![r] = r]
  /\ manual' = [manual EXCEPT ![r] = FALSE]

(* An administrator enters or edits a row: no status changes.              *)
Register(r, p) ==
  /\ Upserts(r)
  /\ Asked
  /\ request' = IF Live(r) THEN request ELSE [request EXCEPT ![r] = "ready"]
  /\ source' = [source EXCEPT ![r] = p]
  /\ excused' = (excused \/ (Live(r) /\ source[r] # p) \/ Crowded)
  /\ UNCHANGED <<check, url, manual, queue, agent, store, faults>>

Verify(r, t) ==
  /\ Live(r)
  /\ Ask(t, "verify", r, Inspection(url[r], source[r], FALSE), FALSE)
  /\ check' = [check EXCEPT ![r] = "checking"]
  /\ UNCHANGED <<request, source, url, manual>>

FinalizeManual(r, t) ==
  /\ Live(r) /\ manual[r] /\ url[r] # None
  /\ Ask(t, "verify", r, Inspection(url[r], source[r], TRUE), FALSE)
  /\ check' = [check EXCEPT ![r] = "checking"]
  /\ request' = [request EXCEPT ![r] = "checking"]
  /\ UNCHANGED <<source, url, manual>>

(* A row whose path is not in the provider layout is moved there, unless a *)
(* migration of it is open.  A staging path counts as an old path, too.    *)
MigrateLayout(r, link, t) ==
  /\ Live(r) /\ source[r] # Layout
  /\ OpenOf(r, {"migrate"}) = {}
  /\ Ask(t, "migrate", r, Move(source[r], link), FALSE)
  /\ check' = [check EXCEPT ![r] = "checking"]
  /\ manual' = [manual EXCEPT ![r] = FALSE]
  /\ UNCHANGED <<request, source, url>>

(* The row goes; its tasks and files stay.                                 *)
Delete(r) ==
  /\ Live(r)
  /\ Asked
  /\ request' = [request EXCEPT ![r] = "gone"]
  /\ excused' = (excused \/ Crowded)
  /\ UNCHANGED <<check, source, url, manual, queue, agent, store, faults>>

-----------------------------------------------------------------------------
(* Results: rows are updated by id, whatever has become of them.           *)

Settle(t, ok) == [state EXCEPT ![t] = IF ok THEN "succeeded" ELSE "failed"]
Only(t, ok) == state' = Settle(t, ok) /\ UNCHANGED <<kind, of, arg>>
Set(f, r, v) == IF Live(r) THEN [f EXCEPT ![r] = v] ELSE f

(* The task that follows t, when the row is still there.                   *)
FollowedBy(t, k, a) ==
  IF Live(of[t]) THEN \E n \in Task : PostTo(Settle(t, TRUE), n, k, of[t], a)
                 ELSE Only(t, TRUE)

(* Mutant: a failed download is only logged. *)
FailedQuietly(t) ==
  /\ UNCHANGED rows
  /\ Only(t, FALSE)

Failed(t) ==
  LET r == of[t] IN
  /\ Only(t, FALSE)
  /\ request' = CASE kind[t] \in {"download", "prepare"} -> Set(request, r, "failed")
                  [] kind[t] = "verify" ->
                       Set(request, r, IF arg[t].flag THEN "awaiting" ELSE "failed")
                  [] OTHER -> request
  /\ check' = IF kind[t] = "upload" THEN check ELSE Set(check, r, "failed")
  /\ manual' = IF kind[t] \in {"download", "migrate"} THEN Set(manual, r, FALSE) ELSE manual
  /\ UNCHANGED <<source, url>>

Downloaded(t) ==
  /\ kind[t] = "download"
  /\ request' = Set(request, of[t], "checking")
  /\ check' = Set(check, of[t], "checking")
  /\ manual' = Set(manual, of[t], FALSE)
  /\ FollowedBy(t, "verify", Inspection(arg[t].repo, arg[t].to, FALSE))
  /\ UNCHANGED <<source, url>>

(* Mutant: the status is written in the words of the task. *)
PreparedAsPrepared(t) ==
  /\ kind[t] = "prepare"
  /\ request' = Set(request, of[t], "prepared")
  /\ check' = Set(check, of[t], "unknown")
  /\ manual' = Set(manual, of[t], TRUE)
  /\ Only(t, TRUE)
  /\ UNCHANGED <<source, url>>

Prepared(t) ==
  /\ kind[t] = "prepare"
  /\ request' = Set(request, of[t], "awaiting")
  /\ check' = Set(check, of[t], "unknown")
  /\ manual' = Set(manual, of[t], TRUE)
  /\ Only(t, TRUE)
  /\ UNCHANGED <<source, url>>

Verified(t) ==
  /\ kind[t] = "verify"
  /\ request' = Set(request, of[t], "ready")
  /\ check' = Set(check, of[t], "ok")
  /\ manual' = IF arg[t].flag THEN Set(manual, of[t], FALSE) ELSE manual
  /\ Only(t, TRUE)
  /\ UNCHANGED <<source, url>>

(* Mutant: the row keeps the path its files were moved from. *)
MigratedElsewhere(t) ==
  /\ kind[t] = "migrate"
  /\ check' = Set(check, of[t], "checking")
  /\ manual' = Set(manual, of[t], FALSE)
  /\ FollowedBy(t, "verify", Inspection(url[of[t]], arg[t].to, FALSE))
  /\ UNCHANGED <<request, source, url>>

Migrated(t) ==
  /\ kind[t] = "migrate"
  /\ source' = Set(source, of[t], arg[t].to)
  /\ check' = Set(check, of[t], "checking")
  /\ manual' = Set(manual, of[t], FALSE)
  /\ FollowedBy(t, "verify", Inspection(url[of[t]], arg[t].to, FALSE))
  /\ UNCHANGED <<request, url>>

Uploaded(t) ==
  /\ kind[t] = "upload"
  /\ request' = Set(request, of[t], "finalizing")
  /\ FollowedBy(t, "migrate", Move(of[t], FALSE))
  /\ UNCHANGED <<check, source, url, manual>>

Result(t, ok) ==
  IF ok THEN Downloaded(t) \/ Prepared(t) \/ Verified(t) \/ Migrated(t) \/ Uploaded(t)
        ELSE Failed(t)

-----------------------------------------------------------------------------
(* The agent of the storage node *)

Idle(t) == \A e \in Executor : exec[e] # t

(* Mutant: a claim whose report was lost is not offered again. *)
OfferedOnce(t) ==
  /\ state[t] = "pending" /\ kind[t] # "upload"
  /\ kind[t] = "verify" \/ \A u \in Task : u < t => state[u] # "pending" \/ kind[u] \in {"verify", "upload"}

(* Verifications are usually delayed; everything else goes in order.  The  *)
(* lease of a claimed task runs out once nobody executes it, and, if its   *)
(* type reports no progress, even while it is executed.                    *)
Offered(t) ==
  /\ Open(t) /\ kind[t] # "upload"
  /\ kind[t] = "verify" \/ \A u \in Task : u < t => state[u] # "pending" \/ kind[u] \in {"verify", "upload"}

Claim(t) ==
  /\ exec["loop"] = None
  /\ Offered(t)
  /\ state' = [state EXCEPT ![t] = "claimed"]
  /\ LET e == IF exec["slot"] = None THEN "slot" ELSE "loop"
     IN /\ exec' = [exec EXCEPT ![e] = t]
        /\ pc' = [pc EXCEPT ![e] = "begun"]
  /\ IF Idle(t) THEN UNCHANGED faults ELSE kind[t] # "download" /\ Fault
  /\ excused' = (excused \/ state[t] = "claimed")
  /\ UNCHANGED <<rows, kind, of, arg, store, requests>>

Doing(e, k, s) == exec[e] # None /\ kind[exec[e]] = k /\ pc[e] = s
Goes(e, s) == pc' = [pc EXCEPT ![e] = s]
Files(p) == IF disk[p] \in {None, Link} THEN Empty ELSE disk[p]
Exists(p) == disk[p] # None

(* The lock in the downloader: one script at a time.                       *)
Locked == orphan # None \/ \E e \in Executor : pc[e] = "fetching"

(* Where a download works: its staging directory, or, prepared for a       *)
(* download by hand, the target itself.                                    *)
Staging(t) == IF kind[t] = "prepare" THEN Layout ELSE of[t]

(* seedStagingFromTarget: an old target becomes the staging directory when *)
(* that is missing or empty.                                               *)
Seeded(r) == IF ~Exists(Layout) \/ (Exists(r) /\ disk[r] # Empty)
             THEN IF Exists(r) THEN disk ELSE [disk EXCEPT ![r] = Empty]
             ELSE [disk EXCEPT ![r] = Files(Layout), ![Layout] = None]

(* A download first sees to its staging directory; by hand, the target is  *)
(* one that is made if it is missing.                                      *)
Seed(e) ==
  /\ Doing(e, "download", "begun") \/ Doing(e, "prepare", "begun")
  /\ disk' = IF kind[exec[e]] = "download" THEN Seeded(of[exec[e]])
             ELSE [disk EXCEPT ![Layout] = Files(Layout)]
  /\ Goes(e, "seeded")
  /\ UNCHANGED <<rows, queue, exec, mount, orphan, requests, faults, excused>>

(* ensureResourceDownloaderContainer: wait until nobody downloads, then    *)
(* take the container's mount.  A download by hand is ready with that.     *)
TakeMount(e) ==
  /\ pc[e] = "seeded"
  /\ ~Locked
  /\ LET t == exec[e]
     IN /\ mount' = Staging(t)
        /\ IF kind[t] = "download"
           THEN Goes(e, "mounted") /\ UNCHANGED disk
           ELSE /\ disk' = [disk EXCEPT ![Layout] = [Files(Layout) EXCEPT !.mark = of[t]]]
                /\ Goes(e, "ok")
  /\ UNCHANGED <<rows, queue, exec, orphan, requests, faults, excused>>

(* Its image, its network or its mount cannot be had.                      *)
NoDownloader(e) ==
  /\ pc[e] = "seeded"
  /\ Fault
  /\ Goes(e, "error")
  /\ UNCHANGED <<rows, queue, exec, store, requests, excused>>

(* The script clears a directory that another row's marker is in.          *)
Marked(r) == IF Files(mount).mark \in {None, r}
             THEN [Files(mount) EXCEPT !.mark = r]
             ELSE [Empty EXCEPT !.mark = r]

(* The script has the lock and writes to whatever is mounted.              *)
Fetch(e) ==
  /\ Doing(e, "download", "mounted")
  /\ ~Locked
  /\ disk' = [disk EXCEPT ![mount] = [Marked(of[exec[e]]) EXCEPT !.whole = FALSE]]
  /\ Goes(e, "fetching")
  /\ UNCHANGED <<rows, queue, exec, mount, orphan, requests, faults, excused>>

Filled(t, ok) == [Files(mount) EXCEPT !.files = @ \cup {arg[t].repo}, !.whole = ok]

FetchEnds(e) ==
  /\ Doing(e, "download", "fetching")
  /\ \/ /\ disk' = [disk EXCEPT ![mount] = Filled(exec[e], TRUE)]
        /\ Goes(e, "fetched")
        /\ UNCHANGED faults
     \/ /\ Fault
        /\ disk' = [disk EXCEPT ![mount] = Filled(exec[e], FALSE)]
        /\ Goes(e, "error")
  /\ UNCHANGED <<rows, queue, exec, mount, orphan, requests, excused>>

(* activateDownloadedResource: the target gives way to the staging         *)
(* directory, which is made again and mounted for the next download.       *)
Activate(e) ==
  /\ Doing(e, "download", "fetched")
  /\ LET r == of[exec[e]]
     IN IF Exists(r)
        THEN /\ disk' = [disk EXCEPT ![Layout] = disk[r], ![r] = Empty]
             /\ mount' = r
             /\ Goes(e, "ok")
        ELSE /\ disk' = [disk EXCEPT ![Layout] = None]
             /\ Goes(e, "error")
             /\ UNCHANGED mount
  /\ UNCHANGED <<rows, queue, exec, orphan, requests, faults, excused>>

(* The manifest of a repository must match file by file; without one there *)
(* must be files, and no sign of a broken download.                        *)
Passes(p, u) ==
  LET c == IF disk[p] = Link THEN Files(Layout) ELSE Files(p)
  IN /\ c.files # {}
     /\ IF u = None THEN c.whole ELSE c.whole /\ c.files = {u}

Inspect(e) ==
  /\ Doing(e, "verify", "begun")
  /\ Goes(e, IF Passes(arg[exec[e]].from, arg[exec[e]].repo) THEN "ok" ELSE "error")
  /\ UNCHANGED <<rows, queue, exec, store, requests, faults, excused>>

(* executeMigrateSharedResourcePath; what is a link, or has gone and is    *)
(* there under the new path, has been moved before.                        *)
Migrate(e) ==
  /\ Doing(e, "migrate", "begun")
  /\ LET p == arg[exec[e]].from
         q == arg[exec[e]].to
     IN IF disk[p] \in {None, Link} \/ Exists(q)
        THEN /\ Goes(e, IF disk[p] = Link \/ (disk[p] = None /\ Exists(q)) THEN "ok" ELSE "error")
             /\ UNCHANGED <<disk, mount>>
        ELSE /\ mount' = IF mount = p THEN q ELSE mount
             /\ disk' = [disk EXCEPT ![q] = disk[p],
                                     ![p] = IF arg[exec[e]].flag THEN Link ELSE None]
             /\ Goes(e, "ok")
  /\ UNCHANGED <<rows, queue, exec, orphan, requests, faults, excused>>

Report(e) ==
  /\ exec[e] # None /\ pc[e] \in {"ok", "error"}
  /\ Result(exec[e], pc[e] = "ok")
  /\ exec' = [exec EXCEPT ![e] = None]
  /\ Goes(e, "none")
  /\ UNCHANGED <<store, requests, faults, excused>>

ReportLost(e) ==
  /\ exec[e] # None /\ pc[e] \in {"ok", "error"}
  /\ Fault
  /\ exec' = [exec EXCEPT ![e] = None]
  /\ Goes(e, "none")
  /\ UNCHANGED <<rows, queue, store, requests, excused>>

(* The agent dies; the script it started in the downloader goes on.        *)
Restart ==
  /\ Fault
  /\ orphan' = IF \E e \in Executor : pc[e] = "fetching"
               THEN exec[CHOOSE e \in Executor : pc[e] = "fetching"] ELSE orphan
  /\ exec' = [e \in Executor |-> None]
  /\ pc' = [e \in Executor |-> "none"]
  /\ UNCHANGED <<rows, queue, mount, disk, requests, excused>>

OrphanEnds ==
  /\ orphan # None
  /\ disk' = [disk EXCEPT ![mount] = Filled(orphan, TRUE)]
  /\ orphan' = None
  /\ UNCHANGED <<rows, queue, agent, mount, requests, faults, excused>>

(* The upload is the sync of another node's agent: it fills the staging    *)
(* directory and reports.                                                  *)
Copy(t, ok) ==
  /\ Open(t) /\ kind[t] = "upload"
  /\ ok \/ faults < MaxFaults
  /\ faults' = IF ok THEN faults ELSE faults + 1
  /\ disk' = [disk EXCEPT ![of[t]] =
                [Files(of[t]) EXCEPT !.files = IF arg[t].repo = None THEN {Own} ELSE {arg[t].repo},
                                     !.whole = ok]]
  /\ Result(t, ok)
  /\ UNCHANGED <<agent, mount, orphan, requests, excused>>

(* Files arrive by hand, in the directory that was prepared.               *)
DownloadByHand(r) ==
  /\ request[r] = "awaiting" /\ url[r] # None
  /\ mount = Layout /\ Files(Layout).mark = r
  /\ Files(Layout).files = {}
  /\ ~Locked
  /\ disk' = [disk EXCEPT ![Layout].files = {url[r]}]
  /\ UNCHANGED <<rows, queue, agent, mount, orphan, requests, faults, excused>>

-----------------------------------------------------------------------------
Next ==
  \/ \E r \in Resource, t \in Task :
       \/ \E u \in Repo, byHand \in BOOLEAN : RequestResource(r, u, byHand, t)
       \/ \E u \in Repo \cup {None} : Upload(r, u, t)
       \/ Verify(r, t) \/ FinalizeManual(r, t)
       \/ \E link \in BOOLEAN : MigrateLayout(r, link, t)
  \/ \E r \in Resource, p \in {Layout, Legacy} : Register(r, p)
  \/ \E r \in Resource : Delete(r) \/ DownloadByHand(r)
  \/ \E t \in Task : Claim(t)
  \/ \E t \in Task, ok \in BOOLEAN : Copy(t, ok)
  \/ \E e \in Executor :
       \/ Seed(e) \/ TakeMount(e) \/ NoDownloader(e) \/ Fetch(e) \/ FetchEnds(e) \/ Activate(e)
       \/ Inspect(e) \/ Migrate(e) \/ Report(e) \/ ReportLost(e)
  \/ Restart \/ OrphanEnds

Spec == Init /\ [][Next]_vars

(* The agent keeps polling, and downloads, checks and moves end.           *)
Fairness ==
  /\ WF_vars(\E t \in Task : Claim(t))
  /\ \A e \in Executor :
       /\ WF_vars(Seed(e)) /\ WF_vars(TakeMount(e)) /\ WF_vars(Fetch(e))
       /\ WF_vars(FetchEnds(e)) /\ WF_vars(Activate(e))
       /\ WF_vars(Inspect(e)) /\ WF_vars(Migrate(e)) /\ WF_vars(Report(e))
  /\ WF_vars(OrphanEnds)

FairSpec == Spec /\ Fairness

-----------------------------------------------------------------------------
(* Properties *)

(* A row that says something is under way has an open task whose result    *)
(* will end it, whatever other requests, late results and deletions come   *)
(* between; an upload that failed is told by nothing, and a failed move    *)
(* only by the check.                                                      *)
StatusHasItsTask ==
  \A r \in Resource :
    /\ request[r] = "downloading" => OpenOf(r, {"download"}) # {}
    /\ request[r] = "preparing" => OpenOf(r, {"prepare"}) # {}
    /\ request[r] = "checking" => OpenOf(r, {"verify"}) # {}
    /\ Live(r) /\ check[r] = "checking" => OpenOf(r, {"verify", "migrate"}) # {}

(* Once nothing is open or running, a row whose check says ok has, at its  *)
(* source_path, files that would pass the check again, unless tasks of the *)
(* key overlapped or the row was pointed elsewhere.                        *)
OkIsTrue ==
  ~Crowded /\ ~excused =>
    \A r \in Resource : Live(r) /\ check[r] = "ok" => Passes(source[r], url[r])

(* A download or a check that was asked for comes to an end, in spite of   *)
(* failed commands, lost reports and restarts, provided they stop.         *)
RequestsEnd ==
  \A r \in Resource :
    request[r] \in {"preparing", "downloading", "checking"} ~>
      request[r] \notin {"preparing", "downloading", "checking"}
=============================================================================
