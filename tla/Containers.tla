----------------------------- MODULE Containers -----------------------------
(***************************************************************************)
(* The life of one container name on one node: the containers row of that  *)
(* name in the platform's ledger, the node tasks that carry its            *)
(* operations, the agent that executes them, the Incus instance they act   *)
(* on, and the heartbeat that copies what Incus says back into the ledger. *)
(*                                                                         *)
(* containers.name is UNIQUE, so rows of the name follow one another, and  *)
(* whatever instance one row leaves behind is found by the next one.       *)
(*                                                                         *)
(* Requests read the row, check its status and only then write: each is    *)
(* two steps here (Begin, Commit), because the connection runs at READ     *)
(* COMMITTED and the read takes no lock.  A lease may expire at any time,  *)
(* so a claimed task may be offered again whenever the loop polls (the     *)
(* clock is in TaskQueue).  access_status, ip and the error texts are left *)
(* out: no guard reads them.                                               *)
(***************************************************************************)
EXTENDS Naturals, FiniteSets

CONSTANTS
  Row,          \* ids of the rows that get this name, in order
  Task,         \* ids of node tasks, in order
  Commands,     \* the requests made of the platform, a subset of Command
  MaxRequests,  \* bound on requests between their check and their write
  MaxFaults,    \* bound on lost messages, failing commands and crashes
  MaxMeddling,  \* bound on changes to the instance behind the platform
  None

Command == {"start", "stop", "restart", "delete", "force delete", "retry",
            "retry keys", "expiry stop", "expiry delete"}

ASSUME ContainersAssumption ==
  /\ Row \subseteq Nat
  /\ Task \subseteq Nat
  /\ Commands \subseteq Command
  /\ MaxRequests \in Nat
  /\ MaxFaults \in Nat
  /\ MaxMeddling \in Nat
  /\ None \notin Row \cup Task

VARIABLES
  st,        \* containers.status of each row, or that there is no such row
  overdue,   \* the rows past expires_at by less (1) or more (2) than a day
  op,        \* what a task does
  row,       \* node_tasks.container_id
  state,     \* node_tasks.status, or that the row does not exist
  reqs,      \* requests that passed their check and have yet to write
  exec,      \* what the polling loop and the slow slot are executing
  outcome,   \* how that execution ended, before it is reported
  wire,      \* results the agent gave up on that may still arrive
  inst,      \* the Incus instance of the name
  gear,      \* the row the instance was given its devices for
  image,     \* whether the node has the image
  snap,      \* the instance as the agent's collector last listed it
  beat,      \* a heartbeat between its read of the rows and its write
  faults,
  meddling,
  doubt      \* history: deletes whose success says nothing of the node,
             \* see ExecuteBlind and Reappears

ledger == <<st, overdue>>
queue == <<op, row, state>>
agent == <<exec, outcome>>
node == <<inst, gear, image>>
bounds == <<faults, meddling>>
vars == <<ledger, queue, reqs, agent, wire, node, snap, beat, bounds, doubt>>

Executor == {"loop", "slot"}
Op == {"import", "create", "keys", "start", "stop", "restart", "delete", "expire"}
SlowOpWithDelete == {"import", "delete"}   \* mutant: deletes leave the loop
SlowOp == {"import"}

Transitional == {"provisioning", "starting", "stopping", "restarting", "deleting"}
Reported == {"running", "stopped", "missing"}
Live == Transitional \cup Reported \cup {"failed"}

TaskState == {"absent", "pending", "claimed", "succeeded", "failed", "erased"}
Instance == {"absent", "stopped", "running"}
Request == [command : Commands, row : Row]
Beat == [row : Row, next : Reported]

OpenTasks == {t \in Task : state[t] \in {"pending", "claimed"}}

TypeOK ==
  /\ st \in [Row -> Live \cup {"none", "gone"}]
  /\ overdue \in [Row -> 0..2]
  /\ op \in [Task -> Op \cup {None}]
  /\ row \in [Task -> Row \cup {None}]
  /\ state \in [Task -> TaskState]
  /\ reqs \subseteq Request
  /\ exec \in [Executor -> Task \cup {None}]
  /\ outcome \in [Executor -> {"none", "ok", "error"}]
  /\ wire \in [Task -> SUBSET BOOLEAN]
  /\ inst \in Instance
  /\ gear \in Row \cup {None}
  /\ image \in BOOLEAN
  /\ snap \in Instance
  /\ beat \in Beat \cup {None}
  /\ faults \in 0..MaxFaults
  /\ meddling \in 0..MaxMeddling
  /\ doubt \subseteq Task

Init ==
  /\ st = [r \in Row |-> "none"]
  /\ overdue = [r \in Row |-> 0]
  /\ op = [t \in Task |-> None]
  /\ row = [t \in Task |-> None]
  /\ state = [t \in Task |-> "absent"]
  /\ reqs = {}
  /\ exec = [e \in Executor |-> None]
  /\ outcome = [e \in Executor |-> "none"]
  /\ wire = [t \in Task |-> {}]
  /\ inst = "absent"
  /\ gear = None
  /\ image \in BOOLEAN
  /\ snap = "absent"
  /\ beat = None
  /\ faults = 0
  /\ meddling = 0
  /\ doubt = {}

Fault == faults < MaxFaults /\ faults' = faults + 1

-----------------------------------------------------------------------------
(* The backend: posting tasks *)

Fresh(t) == state[t] = "absent" /\ \A u \in Task : u < t => state[u] # "absent"

Post(t, o, r) ==
  /\ Fresh(t)
  /\ op' = [op EXCEPT ![t] = o]
  /\ row' = [row EXCEPT ![t] = r]
  /\ state' = [state EXCEPT ![t] = "pending"]

(* The image import goes first, if the node's last report lacks the image  *)
(* (the report may be old) and a storage node has a file of it.            *)
PostCreate(r) ==
  \/ \E t \in Task : Post(t, "create", r)
  \/ \E t \in Task :
       /\ Fresh(t) /\ t + 1 \in Task /\ state[t + 1] = "absent"
       /\ op' = [op EXCEPT ![t] = "import", ![t + 1] = "create"]
       /\ row' = [row EXCEPT ![t] = r, ![t + 1] = r]
       /\ state' = [state EXCEPT ![t] = "pending", ![t + 1] = "pending"]

(* A new container: the INSERT fails while another row has the name.       *)
Create(r) ==
  /\ st[r] = "none"
  /\ \A q \in Row : q < r => st[q] = "gone"
  /\ st' = [st EXCEPT ![r] = "provisioning"]
  /\ PostCreate(r)
  /\ UNCHANGED <<overdue, reqs, agent, wire, node, snap, beat, bounds, doubt>>

-----------------------------------------------------------------------------
(* The backend: requests on an existing row *)

(* What the handlers, and the expiry loop's query, require of the row.     *)
Accepts(command, r) ==
  CASE command = "retry"         -> st[r] = "failed"
    [] command = "retry keys"    -> st[r] = "running"
    [] command = "force delete"  -> st[r] \in Transitional
    [] command = "expiry stop"   -> st[r] = "running" /\ overdue[r] > 0
    [] command = "expiry delete" -> st[r] = "stopped" /\ overdue[r] = 2
    [] OTHER                     -> st[r] \in Live \ Transitional

Begin(command, r) ==
  /\ Cardinality(reqs) < MaxRequests
  /\ Accepts(command, r)
  /\ reqs' = reqs \cup {[command |-> command, row |-> r]}
  /\ UNCHANGED <<ledger, queue, agent, wire, node, snap, beat, bounds, doubt>>

(* The status a command gives the row, and the operation it posts.         *)
Pending(command) ==
  CASE command = "start"                      -> "starting"
    [] command \in {"stop", "expiry stop"}    -> "stopping"
    [] command = "restart"                    -> "restarting"
    [] command \in {"delete", "expiry delete"} -> "deleting"

(* The payload of the expiry loop's delete task names no operation.        *)
Operation(command) ==
  CASE command = "expiry stop"   -> "stop"
    [] command = "expiry delete" -> "expire"
    [] command = "retry keys"    -> "keys"
    [] OTHER                     -> command

(* The tasks of row r go with it (ON DELETE CASCADE), but for those of S.  *)
Cascade(r, S) == [t \in Task |-> IF row[t] = r /\ t \notin S THEN "erased" ELSE state[t]]

(* The write, whatever has become of the status in between.  If the row is *)
(* gone the UPDATE or DELETE touches nothing, and posting a task for it    *)
(* violates the foreign key.                                               *)
Commit(q) ==
  LET r == q.row  command == q.command
  IN /\ q \in reqs
     /\ reqs' = reqs \ {q}
     /\ \/ st[r] = "gone" /\ UNCHANGED <<st, queue>>
        \/ /\ st[r] # "gone" /\ command = "force delete"
           /\ st' = [st EXCEPT ![r] = "gone"]
           /\ state' = Cascade(r, {})
           /\ UNCHANGED <<op, row>>
        \/ /\ st[r] # "gone" /\ command = "retry"
           /\ st' = [st EXCEPT ![r] = "provisioning"]
           /\ PostCreate(r)
        \/ /\ st[r] # "gone" /\ command = "retry keys"
           /\ \E t \in Task : Post(t, "keys", r)
           /\ UNCHANGED st
        \/ /\ st[r] # "gone" /\ command \notin {"force delete", "retry", "retry keys"}
           /\ st' = [st EXCEPT ![r] = Pending(command)]
           /\ \E t \in Task : Post(t, Operation(command), r)
     /\ UNCHANGED <<overdue, agent, wire, node, snap, beat, bounds, doubt>>

Expire(r) ==
  /\ {"expiry stop", "expiry delete"} \cap Commands # {}
  /\ st[r] \in Live /\ overdue[r] < 2
  /\ overdue' = [overdue EXCEPT ![r] = @ + 1]
  /\ UNCHANGED <<st, queue, reqs, agent, wire, node, snap, beat, bounds, doubt>>

-----------------------------------------------------------------------------
(* The backend: the result of a task *)

StatusOnSuccess(o) == IF o = "stop" THEN "stopped" ELSE "running"

Settled(t, ok) == [state EXCEPT ![t] = IF ok THEN "succeeded" ELSE "failed"]

(* A delete that succeeded forgets its container before it removes the     *)
(* row, so the task itself survives the cascade.                           *)
Removed(t) ==
  /\ st' = [st EXCEPT ![row[t]] = "gone"]
  /\ row' = [row EXCEPT ![t] = None]
  /\ state' = [Cascade(row[t], {t}) EXCEPT ![t] = "succeeded"]
  /\ UNCHANGED op

(* The container runs; its SSH keys are installed next, while the bound on *)
(* tasks allows.  (A container without a key has no such task; the task    *)
(* changes nothing that is modelled.)                                      *)
Created(t) ==
  /\ st' = [st EXCEPT ![row[t]] = "running"]
  /\ IF \E n \in Task : Fresh(n)
     THEN \E n \in Task :
            /\ Fresh(n)
            /\ op' = [op EXCEPT ![n] = "keys"]
            /\ row' = [row EXCEPT ![n] = row[t]]
            /\ state' = [Settled(t, TRUE) EXCEPT ![n] = "pending"]
     ELSE state' = Settled(t, TRUE) /\ UNCHANGED <<op, row>>

Changed(t) ==
  /\ st' = IF op[t] \in {"import", "keys"} THEN st
           ELSE [st EXCEPT ![row[t]] = StatusOnSuccess(op[t])]
  /\ state' = Settled(t, TRUE)
  /\ UNCHANGED <<op, row>>

(* Mutant: the creates are refused, and the container is forgotten.        *)
FailedQuietly(t) ==
  /\ st' = IF op[t] \in {"import", "keys"} THEN st
           ELSE [st EXCEPT ![row[t]] = "failed"]
  /\ state' = [u \in Task |->
                 IF u \in OpenTasks /\ op[u] = "create" /\ row[u] = row[t]
                 THEN "failed" ELSE Settled(t, FALSE)[u]]
  /\ UNCHANGED <<op, row>>

(* Every failure of a task of the container refuses its open creates, and  *)
(* fails the container while it is provisioning.                           *)
Failed(t) ==
  /\ st' = [st EXCEPT ![row[t]] =
              IF op[t] \notin {"import", "keys"} \/ @ = "provisioning"
              THEN "failed" ELSE @]
  /\ state' = [u \in Task |->
                 IF u \in OpenTasks /\ op[u] = "create" /\ row[u] = row[t]
                 THEN "failed" ELSE Settled(t, FALSE)[u]]
  /\ UNCHANGED <<op, row>>

(* The result endpoint, one transaction.  It answers 404 for a task that   *)
(* is gone, and does not ask whether the task was settled before.          *)
Result(t, ok) ==
  \/ state[t] = "erased" /\ UNCHANGED <<st, queue>>
  \/ /\ state[t] # "erased" /\ row[t] = None
     /\ state' = Settled(t, ok)
     /\ UNCHANGED <<st, op, row>>
  \/ /\ state[t] # "erased" /\ row[t] # None
     /\ \/ ~ok /\ Failed(t)
        \/ ok /\ op[t] \in {"delete", "expire"} /\ Removed(t)
        \/ ok /\ op[t] = "create" /\ Created(t)
        \/ ok /\ op[t] \notin {"delete", "expire", "create"} /\ Changed(t)

-----------------------------------------------------------------------------
(* The agent: claiming *)

(* Mutant: a claim never runs out. *)
OfferedOnce(t) ==
  /\ state[t] = "pending"
  /\ \A u \in Task : u < t => state[u] # "pending"

(* A pending task that no older one precedes, or a claimed one whose lease *)
(* has run out; older claimed tasks may still be within theirs.            *)
Offered(t) ==
  /\ t \in OpenTasks
  /\ \A u \in Task : u < t => state[u] # "pending"

Claim(t) ==
  /\ exec["loop"] = None
  /\ Offered(t)
  /\ state' = [state EXCEPT ![t] = "claimed"]
  /\ LET e == IF op[t] \in SlowOp /\ exec["slot"] = None THEN "slot" ELSE "loop"
     IN exec' = [exec EXCEPT ![e] = t]
  /\ UNCHANGED <<ledger, op, row, reqs, outcome, wire, node, snap, beat, bounds, doubt>>

ClaimLost(t) ==
  /\ exec["loop"] = None
  /\ Offered(t)
  /\ Fault
  /\ state' = [state EXCEPT ![t] = "claimed"]
  /\ UNCHANGED <<ledger, op, row, reqs, agent, wire, node, snap, beat, meddling, doubt>>

-----------------------------------------------------------------------------
(* The agent: executing *)

(* Creating gives the instance its devices only if there is no instance    *)
(* yet; one that is there is merely started.                               *)
Works(o, r) ==
  \/ /\ o = "import"
     /\ image' = TRUE
     /\ UNCHANGED <<inst, gear>>
  \/ /\ o = "create" /\ inst # "absent"
     /\ inst' = "running"
     /\ UNCHANGED <<gear, image>>
  \/ /\ o = "create" /\ inst = "absent" /\ image
     /\ inst' = "running"
     /\ gear' = r
     /\ UNCHANGED image
  \/ /\ o \in {"start", "restart"} /\ inst # "absent"
     /\ inst' = "running"
     /\ UNCHANGED <<gear, image>>
  \/ /\ o = "stop" /\ inst # "absent"
     /\ inst' = "stopped"
     /\ UNCHANGED <<gear, image>>
  \/ /\ o = "delete"
     /\ inst' = "absent"
     /\ gear' = None
     /\ UNCHANGED image
  \/ /\ o = "keys" /\ inst = "running"
     /\ UNCHANGED node

(* What the agent refuses without running a command that changes anything. *)
Refuses(o) ==
  \/ o = "create" /\ inst = "absent" /\ ~image
  \/ o \in {"start", "stop", "restart"} /\ inst = "absent"
  \/ o = "keys" /\ inst # "running"
  \/ o = "expire"

(* A command fails: it may have done nothing, all of its work (a timeout), *)
(* or some: the instance is left without devices, or with them and without *)
(* its ports, or stopped.                                                  *)
Breaks(o, r) ==
  \/ UNCHANGED node
  \/ Works(o, r)
  \/ /\ o = "create" /\ inst = "absent" /\ image
     /\ inst' = "stopped" /\ gear' = None
     /\ UNCHANGED image
  \/ /\ o \in {"restart", "delete"} /\ inst # "absent"
     /\ inst' = "stopped"
     /\ UNCHANGED <<gear, image>>

Ended(e, o) == outcome' = [outcome EXCEPT ![e] = o]

(* The deletes the agent has let go of, the reports of which may be under  *)
(* way: once there is an instance again, what they say is out of date.     *)
LetGo == {t \in Task : /\ op[t] = "delete" /\ state[t] \notin {"absent", "pending"}
                       /\ \A e \in Executor : exec[e] # t}
Reappears == IF inst = "absent" /\ inst' # "absent" THEN doubt \cup LetGo ELSE doubt

(* The payload carries the container, whatever became of the task's row.   *)
Execute(e) ==
  /\ exec[e] # None /\ outcome[e] = "none"
  /\ LET o == op[exec[e]]
     IN /\ \/ /\ Works(o, row[exec[e]]) /\ Ended(e, "ok")
           \/ /\ Refuses(o) /\ Ended(e, "error") /\ UNCHANGED node
        /\ doubt' = IF o = "delete" THEN doubt \ {exec[e]} ELSE Reappears
  /\ UNCHANGED <<ledger, queue, reqs, exec, wire, snap, beat, bounds>>

(* The listing by which a delete looks for the instance fails, which reads *)
(* as if there were none: the delete succeeds and nothing was deleted.     *)
ExecuteBlind(e) ==
  /\ exec[e] # None /\ outcome[e] = "none"
  /\ op[exec[e]] = "delete"
  /\ Fault
  /\ Ended(e, "ok")
  /\ doubt' = doubt \cup {exec[e]}
  /\ UNCHANGED <<ledger, queue, reqs, exec, wire, node, snap, beat, meddling>>

ExecuteFails(e) ==
  /\ exec[e] # None /\ outcome[e] = "none"
  /\ Fault
  /\ Breaks(op[exec[e]], row[exec[e]])
  /\ Ended(e, "error")
  /\ doubt' = Reappears
  /\ UNCHANGED <<ledger, queue, reqs, exec, wire, snap, beat, meddling>>

Idle(e) == /\ exec' = [exec EXCEPT ![e] = None]
           /\ Ended(e, "none")

Report(e) ==
  /\ exec[e] # None /\ outcome[e] # "none"
  /\ Result(exec[e], outcome[e] = "ok")
  /\ Idle(e)
  /\ UNCHANGED <<overdue, reqs, wire, node, snap, beat, bounds, doubt>>

(* The agent gives up on the report after 8 s and forgets the task; the    *)
(* request is lost, or still waits in the backend.                         *)
ReportFails(e) ==
  /\ exec[e] # None /\ outcome[e] # "none"
  /\ Fault
  /\ Idle(e)
  /\ \/ wire' = [wire EXCEPT ![exec[e]] = @ \cup {outcome[e] = "ok"}]
     \/ UNCHANGED wire
  /\ UNCHANGED <<ledger, queue, reqs, node, snap, beat, meddling, doubt>>

LateResult(t, ok) ==
  /\ ok \in wire[t]
  /\ wire' = [wire EXCEPT ![t] = @ \ {ok}]
  /\ Result(t, ok)
  /\ UNCHANGED <<overdue, reqs, agent, node, snap, beat, bounds, doubt>>

(* The agent's process is replaced.  Its first listing of the instances    *)
(* may fail, and an empty list is then reported as if nothing existed.     *)
Restart ==
  /\ Fault
  /\ exec' = [e \in Executor |-> None]
  /\ outcome' = [e \in Executor |-> "none"]
  /\ snap' \in {"absent", inst}
  /\ UNCHANGED <<ledger, queue, reqs, wire, node, beat, meddling, doubt>>

-----------------------------------------------------------------------------
(* The heartbeat *)

(* The collector lists the instances at an interval of its own, so what a  *)
(* heartbeat reports may be old.                                           *)
Collect ==
  /\ snap # inst
  /\ snap' = inst
  /\ UNCHANGED <<ledger, queue, reqs, agent, wire, node, beat, bounds, doubt>>

SeenAsReported(report) == report   \* mutant: the report is taken as it is

Seen(report) == IF report = "absent" THEN "missing" ELSE report

(* Mutant: rows that went missing are passed over as well. *)
HeartbeatSkipsMissing(r) ==
  /\ beat = None
  /\ st[r] \in Reported \ {"missing"}
  /\ beat' = [row |-> r, next |-> Seen(snap)]
  /\ UNCHANGED <<ledger, queue, reqs, agent, wire, node, snap, bounds, doubt>>

(* sync_node_containers reads the rows: those in transition, and failed    *)
(* ones, are left alone.  A row is written if its status or its address is *)
(* another, so it may be written with the status it has.                   *)
Heartbeat(r) ==
  /\ beat = None
  /\ st[r] \in Reported
  /\ ~(st[r] = "missing" /\ snap = "absent")
  /\ beat' = [row |-> r, next |-> Seen(snap)]
  /\ UNCHANGED <<ledger, queue, reqs, agent, wire, node, snap, bounds, doubt>>

(* It then updates the row by id, whatever its status is by now.           *)
HeartbeatWrites ==
  /\ beat # None
  /\ beat' = None
  /\ st' = IF st[beat.row] = "gone" THEN st ELSE [st EXCEPT ![beat.row] = beat.next]
  /\ UNCHANGED <<overdue, queue, reqs, agent, wire, node, snap, bounds, doubt>>

(* The instance stops by itself, or someone on the node stops, starts or   *)
(* deletes it.                                                             *)
Meddle ==
  /\ meddling < MaxMeddling /\ meddling' = meddling + 1
  /\ inst # "absent"
  /\ inst' \in Instance \ {inst}
  /\ gear' = IF inst' = "absent" THEN None ELSE gear
  /\ UNCHANGED <<ledger, queue, reqs, agent, wire, image, snap, beat, faults, doubt>>

-----------------------------------------------------------------------------
Next ==
  \/ \E r \in Row : Create(r) \/ Expire(r) \/ Heartbeat(r)
  \/ \E c \in Commands, r \in Row : Begin(c, r)
  \/ \E q \in reqs : Commit(q)
  \/ \E t \in Task : Claim(t) \/ ClaimLost(t)
  \/ \E e \in Executor : Execute(e) \/ ExecuteBlind(e) \/ ExecuteFails(e) \/ Report(e) \/ ReportFails(e)
  \/ \E t \in Task, ok \in BOOLEAN : LateResult(t, ok)
  \/ Restart \/ Collect \/ HeartbeatWrites \/ Meddle

Spec == Init /\ [][Next]_vars

(* The agent keeps polling, its commands end, and heartbeats keep coming.  *)
Fairness ==
  /\ WF_vars(\E t \in Task : Claim(t))
  /\ \A e \in Executor : WF_vars(Execute(e)) /\ WF_vars(Report(e))
  /\ WF_vars(Collect)
  /\ WF_vars(\E r \in Row : Heartbeat(r))
  /\ WF_vars(HeartbeatWrites)

FairSpec == Spec /\ Fairness

-----------------------------------------------------------------------------
(* Properties *)

(* The operation that ends each transitional status. *)
Ends(s, o) ==
  CASE s = "provisioning" -> o = "create"
    [] s = "starting"     -> o = "start"
    [] s = "stopping"     -> o = "stop"
    [] s = "restarting"   -> o = "restart"
    [] s = "deleting"     -> o \in {"delete", "expire"}

(* A container is in a transitional status only while a task that ends it  *)
(* is open.  In that status every request on it is refused and heartbeats  *)
(* pass it over, so without such a task it would be stuck for good.        *)
TransitionHasItsTask ==
  \A r \in Row : st[r] \in Transitional =>
    \E t \in OpenTasks : row[t] = r /\ Ends(st[r], op[t])

(* When a delete's result removes the row, at once or late, nothing is     *)
(* left on the node: no create, start or restart ran between the delete    *)
(* and its report.  Two deletes say nothing of the node: one that could    *)
(* not list the instances, and one that the agent let go of before it made *)
(* the instance again.                                                     *)
RemovalIsClean ==
  [][\A t \in Task \ doubt : row[t] # None /\ row'[t] = None => inst = "absent"]_vars

(* No container stays in a transitional status for ever.                   *)
TransitionsEnd ==
  \A r \in Row : st[r] \in Transitional ~> st[r] \notin Transitional

(* When all is quiet the ledger says what is on the node: heartbeats undo  *)
(* whatever late results and stale reports wrote, except for containers    *)
(* that failed.                                                            *)
LedgerConverges ==
  \A r \in Row : <>[](st[r] \in Reported => st[r] = Seen(inst))

(* The expiry loop's docstring: it deletes what was stopped more than a    *)
(* day past its expiry.                                                    *)
ExpiryDeletes ==
  \A t \in Task : op[t] = "expire" => state[t] # "failed"

(* docs/architecture.md: the backend decides the mounts and the agent has  *)
(* Incus apply them, so a container that runs has the devices of its row.  *)
RunningHasItsDevices ==
  \A r \in Row : st[r] = "running" /\ inst = "running" => gear = r
=============================================================================
