------------------------------- MODULE Mounts -------------------------------
(***************************************************************************)
(* Shared resources inside the containers of one compute node: the rows of *)
(* node_resource_cache, the mounts that the table containers lists, and    *)
(* the disk devices that the instances have.                               *)
(*                                                                         *)
(* A handler reads a container's lists, works out new ones and writes them *)
(* whole; two handlers can overlap.  The node's polling loop executes      *)
(* quick tasks one by one, oldest first; a copy of a resource into the     *)
(* cache is slow and takes the slot next to it, or the loop itself when    *)
(* the slot is taken.  A resource is mounted at its own mount_path.        *)
(***************************************************************************)
EXTENDS Naturals, FiniteSets, SequencesExt

CONSTANTS
  Container,  \* ids of containers, all on the node
  Resource,   \* ids of shared resources
  Exported,   \* the resources that may be mounted over NFS
  Requests,   \* how many requests are handled at the same time
  MaxAsked,   \* bound on requests
  MaxFaults   \* bound on failed commands and lost reports

(* 0 is the id of no container.                                            *)
Parameters ==
  /\ IsFiniteSet(Container) /\ 0 \notin Container
  /\ Exported \subseteq Resource
  /\ Requests \in Nat /\ MaxAsked \in Nat /\ MaxFaults \in Nat

VARIABLES
  cache,    \* status of a resource's row in node_resource_cache
  whole,    \* the resources whose copy on the node is complete
  box,      \* status of a container, as far as it matters
  mounts,   \* the source that a container's list has for a resource
  managed,  \* the source that its list of managed mounts has
  linked,   \* its rows in container_resources
  device,   \* the source of the instance's device
  drafts,   \* what requests have read and are about to write
  tasks,    \* open quick tasks, oldest first
  copies,   \* copies that wait to be executed, oldest first
  doing,    \* the copy that the slot and the loop execute, and how it went
  asked,    \* how much of MaxAsked is used
  faults,   \* how much of MaxFaults is used
  astray,   \* history: devices that need not be what the list says
  muddled   \* history: resources whose copy went with its container, or
            \* overlapped another

vars == <<cache, whole, box, mounts, managed, linked, device, drafts, tasks, copies,
          doing, asked, faults, astray, muddled>>
lists == <<mounts, managed, linked>>

Worker == {"slot", "loop"}
Copy(r, c) == [res |-> r, of |-> c, at |-> "waiting"]
NoCopy == [of |-> 0, at |-> "none"]
Busy(w) == doing[w].at # "none"
Copying(r) == \E w \in Worker : Busy(w) /\ doing[w].res = r
OpenCopy(r) == \/ Copying(r)
               \/ \E i \in DOMAIN copies : copies[i].res = r

(* No mount, the storage path itself, the node's NFS mount, the node's copy. *)
Source == {"none", "path", "nfs", "cache"}

(* What a container's creation left: nothing, a managed mount over NFS, or *)
(* the storage path of before there were managed mounts.                   *)
Init ==
  /\ cache = [r \in Resource |-> "none"] /\ whole = {}
  /\ box = [c \in Container |-> "up"]
  /\ \E s \in {"none", "path", "nfs"} : \E r \in Resource :
       /\ s = "nfs" => r \in Exported
       /\ mounts = [c \in Container |-> [q \in Resource |->
                      IF c = 1 /\ q = r THEN s ELSE "none"]]
       /\ managed = [c \in Container |-> [q \in Resource |->
                       IF c = 1 /\ q = r /\ s = "nfs" THEN s ELSE "none"]]
       /\ linked = [c \in Container |-> IF c = 1 /\ s # "none" THEN {r} ELSE {}]
       /\ device = mounts
  /\ drafts = {}
  /\ tasks = <<>> /\ copies = <<>> /\ doing = [w \in Worker |-> NoCopy]
  /\ asked = 0 /\ faults = 0
  /\ astray = {} /\ muddled = {}

Fault == faults < MaxFaults /\ faults' = faults + 1
Ask == asked < MaxAsked /\ asked' = asked + 1

(* apply_resource_mounts gives the resources of set a new source, and      *)
(* remove_resource_mounts the source "none".                               *)
Task(c, set) == [of |-> c, set |-> set, lost |-> FALSE]
Touched(task) == {<<task.of, r>> : r \in DOMAIN task.set}

-----------------------------------------------------------------------------
(* The node's cache *)

(* Two requests that overlap both find the row not syncing, and each adds  *)
(* a task.  c is the container that the copy is wanted for, or 0.          *)
SyncResource(r, c) ==
  /\ Ask
  /\ cache[r] # "syncing"
  /\ c # 0 => box[c] # "gone"
  /\ cache' = [cache EXCEPT ![r] = "syncing"]
  /\ \/ copies' = Append(copies, Copy(r, c))
     \/ copies' = copies \o <<Copy(r, c), Copy(r, c)>>
  /\ UNCHANGED <<whole, box, lists, device, drafts, tasks, doing, faults, astray, muddled>>

(* clear_resource_cache forgets a row, a copy under way or not.            *)
ClearCache(r) ==
  /\ Ask
  /\ cache[r] # "none"
  /\ cache' = [cache EXCEPT ![r] = "none"]
  /\ UNCHANGED <<whole, box, lists, device, drafts, tasks, copies, doing, faults,
                 astray, muddled>>

(* rsync --delete into the place where containers may have it mounted.     *)
CopyStarts(w) ==
  /\ ~Busy(w) /\ copies # <<>>
  /\ w = "loop" => Busy("slot")
  /\ LET r == Head(copies).res
     IN /\ doing' = [doing EXCEPT ![w] = [Head(copies) EXCEPT !.at = "copying"]]
        /\ whole' = whole \ {r}
        /\ muddled' = IF Copying(r) THEN muddled \cup {r} ELSE muddled
  /\ copies' = Tail(copies)
  /\ UNCHANGED <<cache, box, lists, device, drafts, tasks, asked, faults, astray>>

(* A copy that ends well has compared every file with the source.          *)
CopyEnds(w) ==
  /\ doing[w].at = "copying"
  /\ \/ doing' = [doing EXCEPT ![w].at = "copied"] /\ UNCHANGED faults
        /\ whole' = whole \cup {doing[w].res}
     \/ doing' = [doing EXCEPT ![w].at = "broken"] /\ Fault /\ UNCHANGED whole
  /\ UNCHANGED <<cache, box, lists, device, drafts, tasks, copies, asked, astray, muddled>>

Update(r, s) == IF cache[r] = "none" THEN cache ELSE [cache EXCEPT ![r] = s]

(* The containers whose list gets the copy: all that mount the resource,   *)
(* and the one it was made for.                                            *)
Switched(r, k) == {c \in Container : box[c] = "up" /\ (mounts[c][r] # "none" \/ c = k)}

(* Mutant: only the container that asked for the copy is told of it. *)
TasksForAsker(r, k) ==
  {[i \in DOMAIN cs |-> Task(cs[i], [q \in {r} |-> "cache"])]
     : cs \in SetToSeqs(Switched(r, k) \cap {k})}
(* One task for each of them, in any order.                                *)
TasksFor(r, k) ==
  {[i \in DOMAIN cs |-> Task(cs[i], [q \in {r} |-> "cache"])]
     : cs \in SetToSeqs(Switched(r, k))}

Kept(w) == doing[w].of \in {0} \cup {c \in Container : box[c] # "gone"}

CopySucceeds(w) ==
  /\ doing[w].at = "copied" /\ Kept(w)
  /\ LET r == doing[w].res
         k == doing[w].of
     IN /\ cache' = Update(r, "ready")
        /\ mounts' = [c \in Container |->
                        IF c \in Switched(r, k) THEN [mounts[c] EXCEPT ![r] = "cache"]
                                                ELSE mounts[c]]
        /\ \E more \in TasksFor(r, k) : tasks' = tasks \o more
  /\ doing' = [doing EXCEPT ![w] = NoCopy]
  /\ UNCHANGED <<whole, box, managed, linked, device, drafts, copies, asked, faults,
                 astray, muddled>>

(* Mutant: a copy that failed is not written to the row. *)
CopyFailsQuietly(w) ==
  /\ doing[w].at = "broken" /\ Kept(w)
  /\ UNCHANGED cache
  /\ doing' = [doing EXCEPT ![w] = NoCopy]
  /\ UNCHANGED <<whole, box, lists, device, drafts, tasks, copies, asked, faults, astray, muddled>>

CopyFails(w) ==
  /\ doing[w].at = "broken" /\ Kept(w)
  /\ cache' = Update(doing[w].res, "failed")
  /\ doing' = [doing EXCEPT ![w] = NoCopy]
  /\ UNCHANGED <<whole, box, lists, device, drafts, tasks, copies, asked, faults, astray, muddled>>

(* The container that the copy was for is gone, and the task with it.      *)
CopyRefused(w) ==
  /\ doing[w].at \in {"copied", "broken"} /\ ~Kept(w)
  /\ doing' = [doing EXCEPT ![w] = NoCopy]
  /\ UNCHANGED <<cache, whole, box, lists, device, drafts, tasks, copies, asked, faults,
                 astray, muddled>>

(* The task is executed again when its lease is over.                      *)
CopyReportLost(w) ==
  /\ doing[w].at \in {"copied", "broken"} /\ Kept(w)
  /\ Fault
  /\ copies' = <<[doing[w] EXCEPT !.at = "waiting"]>> \o copies
  /\ doing' = [doing EXCEPT ![w] = NoCopy]
  /\ UNCHANGED <<cache, whole, box, lists, device, drafts, tasks, asked, astray, muddled>>


-----------------------------------------------------------------------------
(* Requests *)

(* The values of new, and those of old where it has none.                  *)
Over(new, old) == [r \in Resource |-> IF r \in DOMAIN new THEN new[r] ELSE old[r]]

(* A request has read the lists of c; it will write the sources in set to  *)
(* them, keep as managed (nothing: that list is left alone), add and drop  *)
(* rows of links, and enqueue a task for todo.                             *)
Reads(c, set, keep, add, drop, todo) ==
  /\ Ask
  /\ Cardinality(drafts) < Requests
  /\ drafts' = drafts \cup
       {[of |-> c, was |-> mounts[c], set |-> Over(set, mounts[c]), keep |-> keep,
         add |-> add, drop |-> drop, todo |-> todo]}
  /\ UNCHANGED <<cache, whole, box, lists, device, tasks, copies, doing, faults,
                 astray, muddled>>

Untouched == [r \in {} |-> "none"]
Cached(r) == cache[r] = "ready"
Best(r) == IF Cached(r) THEN "cache" ELSE "nfs"

(* mount-public-resources: the copy if there is one, and NFS if not.       *)
MountPublic(c, set) ==
  /\ box[c] = "up"
  /\ \A r \in set : /\ Cached(r) \/ r \in Exported
                    /\ mounts[c][r] = "none" \/ managed[c][r] # "none" \/ r \in linked[c]
  /\ LET new == [r \in set |-> Best(r)]
         todo == {r \in set : mounts[c][r] # new[r] \/ managed[c][r] # new[r]}
     IN /\ todo # {}
        /\ Reads(c, new, Over(new, managed[c]), set, {}, [r \in todo |-> new[r]])

(* mount-node-cache leaves the managed mounts alone.                       *)
MountNodeCache(c, set) ==
  /\ box[c] = "up"
  /\ \A r \in set : Cached(r)
  /\ LET todo == {r \in set : mounts[c][r] # "cache"}
     IN /\ todo # {}
        /\ Reads(c, [r \in set |-> "cache"], Untouched, set, {}, [r \in todo |-> "cache"])

(* apply-node-cache finds the mounts that name the storage path.           *)
ApplyNodeCache(c) ==
  /\ box[c] # "gone"
  /\ LET todo == {r \in Resource : mounts[c][r] = "path" /\ Cached(r)}
         new == [r \in todo |-> "cache"]
     IN /\ todo # {}
        /\ Reads(c, new, Untouched, {}, {}, new)

(* unmount-public-resources: only what is managed can be removed.          *)
Unmount(c, set) ==
  /\ box[c] = "up"
  /\ LET gone == {r \in set : managed[c][r] # "none"}
         new == [r \in gone |-> "none"]
     IN /\ gone # {}
        /\ Reads(c, new, Over(new, managed[c]), {}, gone, new)

(* The lists are written whole, over what others wrote meanwhile; links    *)
(* are rows of their own.                                                  *)
Writes(d) ==
  /\ box[d.of] # "gone"
  /\ mounts' = [mounts EXCEPT ![d.of] = d.set]
  /\ managed' = [managed EXCEPT ![d.of] = Over(d.keep, @)]
  /\ linked' = [linked EXCEPT ![d.of] = (@ \cup d.add) \ d.drop]
  /\ tasks' = Append(tasks, Task(d.of, d.todo))
  /\ astray' = astray \cup {<<d.of, r>> : r \in {p \in Resource : mounts[d.of][p] # d.was[p]}}
  /\ drafts' = drafts \ {d}
  /\ UNCHANGED <<cache, whole, box, device, copies, doing, asked, faults, muddled>>

(* The container went meanwhile: its task has nothing to refer to.         *)
WritesFail(d) ==
  /\ box[d.of] = "gone"
  /\ drafts' = drafts \ {d}
  /\ UNCHANGED <<cache, whole, box, lists, device, tasks, copies, doing, asked, faults,
                 astray, muddled>>

(* A container is started, stopped or changed, and settles.                *)
Operate(c) ==
  /\ \/ box[c] = "up" /\ box' = [box EXCEPT ![c] = "busy"] /\ Ask
     \/ box[c] = "busy" /\ box' = [box EXCEPT ![c] = "up"] /\ UNCHANGED asked
  /\ UNCHANGED <<cache, whole, lists, device, drafts, tasks, copies, doing, faults,
                 astray, muddled>>

(* Its row is deleted, and every task that names it, a copy included; the  *)
(* others stay in their order.                                             *)
Others(s, c) == {j \in DOMAIN s : s[j].of # c}
InOrder(at) == \A i, j \in DOMAIN at : i < j => at[i] < at[j]
Spared(s, c) ==
  {[i \in DOMAIN at |-> s[at[i]]] : at \in {f \in SetToSeqs(Others(s, c)) : InOrder(f)}}

RemoveContainer(c) ==
  /\ box[c] = "busy"
  /\ box' = [box EXCEPT ![c] = "gone"]
  /\ tasks' \in Spared(tasks, c)
  /\ copies' \in Spared(copies, c)
  /\ muddled' = muddled \cup {copies[i].res : i \in {j \in DOMAIN copies : copies[j].of = c}}
                        \cup {doing[w].res : w \in {v \in Worker : Busy(v) /\ doing[v].of = c}}
  /\ mounts' = [mounts EXCEPT ![c] = [r \in Resource |-> "none"]]
  /\ managed' = [managed EXCEPT ![c] = [r \in Resource |-> "none"]]
  /\ linked' = [linked EXCEPT ![c] = {}]
  /\ device' = [device EXCEPT ![c] = [r \in Resource |-> "none"]]
  /\ UNCHANGED <<cache, whole, doing, drafts, asked, faults, astray>>

-----------------------------------------------------------------------------
(* The agent *)

(* Task i is the oldest, but for those whose reports were lost, and the    *)
(* loop is free.                                                           *)
MayStart(i) == ~Busy("loop") /\ \A j \in 1..(i - 1) : tasks[j].lost
Without(i) == SubSeq(tasks, 1, i - 1) \o SubSeq(tasks, i + 1, Len(tasks))
Overtaken(i) == (UNION {Touched(tasks[j]) : j \in 1..(i - 1)}) \cap Touched(tasks[i])
Plugged(task, done) == [device EXCEPT ![task.of] = Over([r \in done |-> task.set[r]], @)]

Execute(i) ==
  /\ MayStart(i)
  /\ device' = Plugged(tasks[i], DOMAIN tasks[i].set)
  /\ tasks' = Without(i)
  /\ astray' = astray \cup Overtaken(i)
  /\ UNCHANGED <<cache, whole, box, lists, drafts, copies, doing, asked, faults, muddled>>

(* Some devices were changed, and one may have been taken away without     *)
(* its replacement; nothing is done about it.                              *)
ExecuteFails(i) ==
  /\ MayStart(i)
  /\ Fault
  /\ \E done \in SUBSET DOMAIN tasks[i].set :
       \/ device' = Plugged(tasks[i], done)
       \/ \E r \in DOMAIN tasks[i].set \ done :
            device' = Plugged([tasks[i] EXCEPT !.set[r] = "none"], done \cup {r})
  /\ tasks' = Without(i)
  /\ astray' = astray \cup Touched(tasks[i])
  /\ UNCHANGED <<cache, whole, box, lists, drafts, copies, doing, asked, muddled>>

(* Executed, but the report is lost: it waits for its lease to end.        *)
ExecuteUnheard(i) ==
  /\ MayStart(i) /\ ~tasks[i].lost
  /\ Fault
  /\ device' = Plugged(tasks[i], DOMAIN tasks[i].set)
  /\ tasks' = [tasks EXCEPT ![i].lost = TRUE]
  /\ UNCHANGED <<cache, whole, box, lists, drafts, copies, doing, asked, astray, muddled>>

-----------------------------------------------------------------------------
Resources == SUBSET Resource \ {{}}

Next ==
  \/ \E r \in Resource : ClearCache(r) \/ \E c \in Container \cup {0} : SyncResource(r, c)
  \/ \E w \in Worker : \/ CopyStarts(w) \/ CopyEnds(w)
                       \/ CopySucceeds(w) \/ CopyFails(w) \/ CopyRefused(w) \/ CopyReportLost(w)
  \/ \E c \in Container, set \in Resources :
       \/ MountPublic(c, set)
       \/ MountNodeCache(c, set)
       \/ Unmount(c, set)
  \/ \E c \in Container : ApplyNodeCache(c)
  \/ \E d \in drafts : Writes(d) \/ WritesFail(d)
  \/ \E c \in Container : Operate(c) \/ RemoveContainer(c)
  \/ \E i \in DOMAIN tasks : Execute(i) \/ ExecuteFails(i) \/ ExecuteUnheard(i)

Spec == Init /\ [][Next]_vars

-----------------------------------------------------------------------------
(* Properties *)

TypeOK ==
  /\ cache \in [Resource -> {"none", "syncing", "ready", "failed"}]
  /\ whole \subseteq Resource
  /\ box \in [Container -> {"up", "busy", "gone"}]
  /\ mounts \in [Container -> [Resource -> Source]]
  /\ managed \in [Container -> [Resource -> {"none", "nfs", "cache"}]]
  /\ linked \in [Container -> SUBSET Resource]
  /\ device \in [Container -> [Resource -> Source]]
  /\ \A w \in Worker : doing[w].at \in {"none", "copying", "copied", "broken"}
  /\ asked \in 0..MaxAsked /\ faults \in 0..MaxFaults

(* When no task is open and no request under way, an instance has the      *)
(* devices that its row lists, except those whose apply or removal failed, *)
(* that two overlapping handlers wrote, or that a task whose report was    *)
(* lost set again after a later one: results are not looked at, and        *)
(* nothing compares the two.                                               *)
DevicesFollowLists ==
  tasks = <<>> => \A c \in Container, r \in Resource :
                    device[c][r] = mounts[c][r] \/ <<c, r>> \in astray

(* A row that says syncing has a copy that will say otherwise, for no      *)
(* request adds one while it says so; and one that says ready has a        *)
(* complete copy, unless another is being made over it.  What can leave    *)
(* neither is the deletion of the container that a copy was for, and two   *)
(* copies at once, whose results may reach the row in the other order.     *)
CacheIsTrue ==
  \A r \in Resource \ muddled :
    /\ cache[r] = "syncing" => OpenCopy(r)
    /\ cache[r] = "ready" => r \in whole \/ OpenCopy(r)
=============================================================================
