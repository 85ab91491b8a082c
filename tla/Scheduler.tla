------------------------------ MODULE Scheduler ------------------------------
(***************************************************************************)
(* What containers hold: GPUs of a node, a place on it, and a share of     *)
(* their owner's quota.  There is no table of allocations: every request   *)
(* counts the containers rows (and container_gpus) anew, decides, and      *)
(* writes a row of its own, at READ COMMITTED and without a lock.  So a    *)
(* request is three steps here: it counts the user's usage, then the       *)
(* node's containers and GPUs, then writes; other requests, task results   *)
(* and heartbeats may commit in between.                                   *)
(*                                                                         *)
(* Which status a container may take next is the business of Containers;   *)
(* here a step matters by whether the container is counted before and      *)
(* after it.  CPU and memory quotas are counted as GPUs are, and left out; *)
(* so are image, pool, ports and disk, which may refuse any request, and   *)
(* the order in which nodes and GPUs are preferred, since a request may    *)
(* name its node and its GPUs.                                             *)
(***************************************************************************)
EXTENDS Naturals, FiniteSets

CONSTANTS
  User,
  Admin,            \* the users who may change the containers of others
  Node,
  Gpu,
  NodeOf,           \* the node of each GPU
  SharingLimit,     \* containers per GPU: 1, or max_gpu_shared_containers
  MaxContainers,    \* per node
  MaxRunning,       \* per node
  GpuQuota,         \* per user
  ContainerQuota,   \* per user
  Container,        \* ids of containers rows
  Wanted,           \* numbers of GPUs that requests ask for
  Thread,           \* requests handled at the same time
  MaxChanges,       \* bound on changes of status
  None

ASSUME SchedulerAssumption ==
  /\ Admin \subseteq User
  /\ IsFiniteSet(Gpu) /\ IsFiniteSet(Container)
  /\ NodeOf \in [Gpu -> Node]
  /\ SharingLimit \in [Node -> Nat]
  /\ MaxContainers \in [Node -> Nat]
  /\ MaxRunning \in [Node -> Nat]
  /\ GpuQuota \in [User -> Nat]
  /\ ContainerQuota \in [User -> Nat]
  /\ Wanted \subseteq Nat
  /\ MaxChanges \in Nat
  /\ None \notin User \cup Node \cup Container

VARIABLES
  st,        \* containers.status of each row, or that there is no such row
  owner,     \* containers.owner_id
  node,      \* containers.node_id
  gpus,      \* the container's rows of container_gpus
  req,       \* what each request has read and decided so far
  late,      \* history: requests whose reads something has since outgrown
  raced,     \* history: containers written by such a request, or counted
             \* again without any check
  granted,   \* history: containers an administrator changed for the owner
  changes    \* changes of status so far

rows == <<st, owner, node, gpus>>
history == <<late, raced, granted>>
vars == <<rows, req, history, changes>>

(* "busy" stands for provisioning, starting, restarting and deleting: they *)
(* count alike, and every guard treats them alike.                         *)
Transitional == {"busy", "stopping"}
Reported == {"running", "stopped", "missing"}
Live == Transitional \cup Reported \cup {"failed"}

ResourceStatus == {"busy", "running", "stopping", "stopped"}
RunningStatus == {"busy", "running"}

Idle == [by |-> None, on |-> None, want |-> 0, usage |-> 0, place |-> None, picks |-> {}]

Request == [by : User \cup {None},        \* the user who makes the request
            on : Container \cup {None},   \* the container it changes, if it creates none
            want : Nat,                   \* gpu_count
            usage : Nat,                  \* the GPUs the user was seen to hold
            place : Node \cup {None},     \* the node, once it is chosen
            picks : SUBSET Gpu]           \* the GPUs, once they are chosen

TypeOK ==
  /\ st \in [Container -> Live \cup {"none", "gone"}]
  /\ owner \in [Container -> User \cup {None}]
  /\ node \in [Container -> Node \cup {None}]
  /\ gpus \in [Container -> SUBSET Gpu]
  /\ req \in [Thread -> Request]
  /\ late \subseteq Thread
  /\ raced \subseteq Container
  /\ granted \subseteq Container
  /\ changes \in 0..MaxChanges

Init ==
  /\ st = [c \in Container |-> "none"]
  /\ owner = [c \in Container |-> None]
  /\ node = [c \in Container |-> None]
  /\ gpus = [c \in Container |-> {}]
  /\ req = [t \in Thread |-> Idle]
  /\ late = {}
  /\ raced = {}
  /\ granted = {}
  /\ changes = 0

-----------------------------------------------------------------------------
(* Counting *)

Counted == {c \in Container : st[c] \in ResourceStatus}

Holders(g) == {c \in Counted : g \in gpus[c]}

Owned(u) == {c \in Counted : owner[c] = u}

(* The rows of container_gpus that belong to a set of containers.          *)
Held(C) == {h \in C \X Gpu : h[2] \in gpus[h[1]]}

On(n) == {c \in Counted : node[c] = n}

RunningOn(n) == {c \in Container : node[c] = n /\ st[c] \in RunningStatus}

SchedulableAtLimit(n) ==   \* mutant: a GPU at its limit takes one more
  {g \in Gpu : NodeOf[g] = n /\ Cardinality(Holders(g)) <= SharingLimit[n]}

Schedulable(n) ==
  {g \in Gpu : NodeOf[g] = n /\ Cardinality(Holders(g)) < SharingLimit[n]}

-----------------------------------------------------------------------------
(* Requests *)

Pending == {t \in Thread : req[t] # Idle}

(* Whatever others have read so far no longer bounds what they find when   *)
(* they write.                                                             *)
Outgrown(t) == late' = (late \cup Pending) \ {t}

End(t) == req' = [req EXCEPT ![t] = Idle]

(* A request is refused, by a check that is left out or for want of room,  *)
(* and its transaction rolled back.                                        *)
Refuse(t) ==
  /\ req[t] # Idle
  /\ End(t)
  /\ late' = late \ {t}
  /\ UNCHANGED <<rows, raced, granted, changes>>

(* A create is within the user's quota.                                    *)
Ask(t, u, k) ==
  /\ req[t] = Idle
  /\ Cardinality(Held(Owned(u))) + k <= GpuQuota[u]
  /\ Cardinality(Owned(u)) + 1 <= ContainerQuota[u]
  /\ req' = [req EXCEPT ![t] = [Idle EXCEPT !.by = u, !.want = k]]
  /\ UNCHANGED <<rows, history, changes>>

PlaceOneMore(t, n) ==   \* mutant: a full node takes one more
  /\ req[t].by # None /\ req[t].on = None /\ req[t].place = None
  /\ Cardinality(On(n)) <= MaxContainers[n]
  /\ Cardinality(RunningOn(n)) < MaxRunning[n]
  /\ \E S \in SUBSET Schedulable(n) :
       /\ Cardinality(S) = req[t].want
       /\ req' = [req EXCEPT ![t].place = n, ![t].picks = S]
  /\ UNCHANGED <<rows, history, changes>>

(* select_node_and_gpus: a node with room, and enough GPUs below their     *)
(* limit there, named by the request or not.                               *)
Place(t, n) ==
  /\ req[t].by # None /\ req[t].on = None /\ req[t].place = None
  /\ Cardinality(On(n)) < MaxContainers[n]
  /\ Cardinality(RunningOn(n)) < MaxRunning[n]
  /\ \E S \in SUBSET Schedulable(n) :
       /\ Cardinality(S) = req[t].want
       /\ req' = [req EXCEPT ![t].place = n, ![t].picks = S]
  /\ UNCHANGED <<rows, history, changes>>

InsertPending(t, c) ==   \* mutant: a status nobody knows
  /\ req[t].on = None /\ req[t].place # None
  /\ st[c] = "none"
  /\ st' = [st EXCEPT ![c] = "pending"]
  /\ owner' = [owner EXCEPT ![c] = req[t].by]
  /\ End(t)
  /\ UNCHANGED <<node, gpus, history, changes>>

(* The row and its GPUs are inserted, as they were decided.                *)
Insert(t, c) ==
  /\ req[t].on = None /\ req[t].place # None
  /\ st[c] = "none"
  /\ st' = [st EXCEPT ![c] = "busy"]
  /\ owner' = [owner EXCEPT ![c] = req[t].by]
  /\ node' = [node EXCEPT ![c] = req[t].place]
  /\ gpus' = [gpus EXCEPT ![c] = req[t].picks]
  /\ raced' = IF t \in late THEN raced \cup {c} ELSE raced
  /\ Outgrown(t)
  /\ End(t)
  /\ UNCHANGED <<granted, changes>>

(* A change of resources: the usage read is that of whoever asks.          *)
AskChange(t, u, c, k) ==
  /\ req[t] = Idle
  /\ st[c] \in {"running", "stopped"}
  /\ u \in Admin \/ owner[c] = u
  /\ req' = [req EXCEPT ![t] = [Idle EXCEPT !.by = u, !.on = c, !.want = k,
                                            !.usage = Cardinality(Held(Owned(u)))]]
  /\ UNCHANGED <<rows, history, changes>>

AdjustUnlimited(t) ==   \* mutant: the quota is not looked at
  LET old == gpus[req[t].on]
      n == node[req[t].on]
  IN /\ req[t].on # None /\ req[t].place = None
     /\ \E S \in SUBSET (old \cup Schedulable(n)) :
          /\ Cardinality(S) = req[t].want
          /\ S \subseteq old \/ old \subseteq S
          /\ req' = [req EXCEPT ![t].place = n, ![t].picks = S, ![t].usage = 0]
     /\ UNCHANGED <<rows, history, changes>>

(* As many GPUs as before: they stay, and the quota is not looked at.      *)
(* Fewer: some stay.  More: all stay, and the missing ones are taken from  *)
(* what is schedulable.  The quota is checked against the usage read       *)
(* before, less the GPUs the container has now.                            *)
Adjust(t) ==
  LET old == gpus[req[t].on]
      k == req[t].want
      n == node[req[t].on]
  IN /\ req[t].on # None /\ req[t].place = None
     /\ \/ k # Cardinality(old) /\ req[t].usage + k <= GpuQuota[req[t].by] + Cardinality(old)
        \/ k = Cardinality(old)
     /\ \E S \in SUBSET (old \cup Schedulable(n)) :
          /\ Cardinality(S) = k
          /\ S \subseteq old \/ old \subseteq S
          /\ req' = [req EXCEPT ![t].place = n, ![t].picks = S, ![t].usage = 0]
     /\ UNCHANGED <<rows, history, changes>>

(* The container's GPUs are replaced, unless its row is gone (see Refuse). *)
Save(t) ==
  LET c == req[t].on
  IN /\ c # None /\ req[t].place # None
     /\ st[c] # "gone"
     /\ gpus' = [gpus EXCEPT ![c] = req[t].picks]
     /\ raced' = IF t \in late THEN raced \cup {c} ELSE raced
     /\ granted' = IF owner[c] # req[t].by THEN granted \cup {c} ELSE granted
     /\ IF req[t].picks \subseteq gpus[c] THEN late' = late \ {t} ELSE Outgrown(t)
     /\ End(t)
     /\ UNCHANGED <<st, owner, node, changes>>

-----------------------------------------------------------------------------
(* The status of a container *)

(* A container that is counted again was not checked; one that no longer   *)
(* counts was in the usage a pending change of it may have read.  The rows *)
(* of container_gpus go with their container.                              *)
Becomes(c, s) ==
  LET back == st[c] \notin ResourceStatus /\ s \in ResourceStatus
      out == st[c] \in ResourceStatus /\ s \notin ResourceStatus
  IN /\ st[c] # s
     /\ changes < MaxChanges /\ changes' = changes + 1
     /\ st' = [st EXCEPT ![c] = s]
     /\ raced' = IF back THEN raced \cup {c} ELSE raced
     /\ late' = IF back THEN late \cup Pending
                ELSE IF out THEN late \cup {t \in Pending : req[t].on = c}
                ELSE late
     /\ IF s = "gone" THEN /\ owner' = [owner EXCEPT ![c] = None]
                           /\ node' = [node EXCEPT ![c] = None]
                           /\ gpus' = [gpus EXCEPT ![c] = {}]
                      ELSE UNCHANGED <<owner, node, gpus>>
     /\ UNCHANGED <<req, granted>>

(* start, restart, stop and delete look at nothing but the status.         *)
Lifecycle(c, s) ==
  /\ st[c] \in Live \ Transitional
  /\ s \in {"busy", "stopping"}
  /\ Becomes(c, s)

ForceDelete(c) ==
  /\ st[c] \in Transitional
  /\ Becomes(c, "gone")

(* A failed container is created again with the GPUs it had.               *)
Retry(c) ==
  /\ st[c] = "failed"
  /\ Becomes(c, "busy")

(* Results are applied whatever the status has become; see Containers.     *)
TaskResult(c, s) ==
  /\ st[c] \in Live
  /\ s \in {"running", "stopped", "failed", "gone"}
  /\ Becomes(c, s)

(* What is written was read for a container at rest, whose status may have *)
(* changed since.                                                          *)
Heartbeat(c, s) ==
  /\ st[c] \in Live /\ s \in Reported
  /\ Becomes(c, s)

-----------------------------------------------------------------------------
Next ==
  \/ \E t \in Thread, u \in User, k \in Wanted :
       \/ Ask(t, u, k)
       \/ \E c \in Container : AskChange(t, u, c, k)
  \/ \E t \in Thread, n \in Node : Place(t, n)
  \/ \E t \in Thread, c \in Container : Insert(t, c)
  \/ \E t \in Thread : Adjust(t) \/ Save(t) \/ Refuse(t)
  \/ \E c \in Container, s \in Live \cup {"gone"} :
       Lifecycle(c, s) \/ TaskResult(c, s) \/ Heartbeat(c, s)
  \/ \E c \in Container : ForceDelete(c) \/ Retry(c)

Spec == Init /\ [][Next]_vars

-----------------------------------------------------------------------------
(* Properties *)

(* A GPU is shared by more containers than its node allows only on account *)
(* of containers that a race let in, or that were counted again after they *)
(* had failed or gone missing.                                             *)
SharingWithinLimit ==
  \A g \in Gpu : Cardinality(Holders(g) \ raced) <= SharingLimit[NodeOf[g]]

(* A user's containers exceed the quota only on account of such containers *)
(* and of those an administrator changed.                                  *)
WithinQuota ==
  \A u \in User :
    /\ Cardinality(Held(Owned(u) \ (raced \cup granted))) <= GpuQuota[u]
    /\ Cardinality(Owned(u) \ raced) <= ContainerQuota[u]

(* Likewise the containers of a node.                                      *)
WithinNode ==
  \A n \in Node : Cardinality(On(n) \ raced) <= MaxContainers[n]

(* docs/node-onboarding.md: a node has an upper limit of GPU sharing.      *)
SharingLimitHolds ==
  \A g \in Gpu : Cardinality(Holders(g)) <= SharingLimit[NodeOf[g]]
=============================================================================
