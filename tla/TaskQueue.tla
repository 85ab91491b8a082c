----------------------------- MODULE TaskQueue -----------------------------
(***************************************************************************)
(* The task queue between the backend and the agent of one node: the rows  *)
(* of node_tasks for that node, the claim / progress / result endpoints,   *)
(* and the agent's polling loop with its one slot for slow tasks.  Every   *)
(* claim filters by node_id, so nodes do not interact here.                *)
(*                                                                         *)
(* A claim is a lease: a task whose claimed_at is more than Lease old is   *)
(* offered again.  Time is kept per task, as the age of claimed_at and as  *)
(* what is left until available_at; both saturate, so no clock is needed.  *)
(***************************************************************************)
EXTENDS Naturals

CONSTANTS
  Task,        \* ids of the node's tasks, in the order they are enqueued
  Slow,        \* tasks of a type listed in slowTaskTypes
  Reporting,   \* tasks whose executor posts progress while it runs
  Delayed,     \* tasks enqueued with an available_at in the future
  Owned,       \* tasks carrying the container_id of the node's container
  Creates,     \* the incus_create_container tasks among them
  Blocking,    \* tasks of Owned whose failure refuses the container's create
  Retryable,   \* tasks of a data sync configured with retries
  Lease,       \* how old a claim must be to be offered again (300 s)
  Delay,       \* how far in the future a delayed task becomes available
  MaxFaults,   \* bound on lost messages, late answers, panics and crashes
  None         \* no task

ASSUME TaskQueueAssumption ==
  /\ Task \subseteq Nat
  /\ Slow \subseteq Task
  /\ Reporting \subseteq Slow
  /\ Delayed \subseteq Task
  /\ Owned \subseteq Task
  /\ Creates \subseteq Owned
  /\ Blocking \subseteq Owned
  /\ Retryable \subseteq Task
  /\ Lease \in Nat
  /\ Delay \in Nat
  /\ MaxFaults \in Nat
  /\ None \notin Task

VARIABLES
  status,      \* node_tasks.status, or that the row does not exist
  age,         \* now - claimed_at, up to Lease + 1
  wait,        \* available_at - now, down to 0
  attempts,    \* whether node_tasks.attempts > 0
  exec,        \* what the polling loop and the slow slot are executing
  wire,        \* results the agent gave up on that may still arrive
  heard,       \* history: time since t was handed out or its progress accepted
  faults       \* how much of MaxFaults is used

vars == <<status, age, wait, attempts, exec, wire, heard, faults>>
backend == <<status, age, wait, attempts, heard>>

Executor == {"loop", "slot"}
Final == {"succeeded", "failed"}
Status == {"absent", "pending", "claimed", "erased"} \cup Final

Execs(t) == {e \in Executor : exec[e] = t}
AliveOnceAbsent(t) == status[t] # "absent"   \* mutant: an upsert of results

Alive(t) == status[t] \notin {"absent", "erased"}

TypeOK ==
  /\ status \in [Task -> Status]
  /\ age \in [Task -> 0..(Lease + 1)]
  /\ wait \in [Task -> 0..Delay]
  /\ attempts \in [Task -> BOOLEAN]
  /\ exec \in [Executor -> Task \cup {None}]
  /\ wire \in [Task -> SUBSET BOOLEAN]
  /\ heard \in [Task -> 0..(Lease + 1)]
  /\ faults \in 0..MaxFaults

Init ==
  /\ status = [t \in Task |-> "absent"]
  /\ age = [t \in Task |-> 0]
  /\ wait = [t \in Task |-> 0]
  /\ attempts = [t \in Task |-> FALSE]
  /\ exec = [e \in Executor |-> None]
  /\ wire = [t \in Task |-> {}]
  /\ heard = [t \in Task |-> 0]
  /\ faults = 0

Fault == faults < MaxFaults /\ faults' = faults + 1

-----------------------------------------------------------------------------
(* The backend *)

(* t is the next id of the sequence, and the row its container_id refers   *)
(* to still exists (otherwise the insert violates the foreign key).  Tasks *)
(* become visible in the order of their ids, as those of one transaction   *)
(* do; overlapping transactions that commit the other way round are not    *)
(* modelled.                                                               *)
CanPost(t) ==
  /\ status[t] = "absent"
  /\ \A u \in Task : u < t => status[u] # "absent"
  /\ t \in Owned => \A u \in Owned : status[u] # "erased"

PostedWait(t) == [wait EXCEPT ![t] = IF t \in Delayed THEN Delay ELSE 0]

(* Any handler or background loop of the backend enqueues a task.          *)
Enqueue(t) ==
  /\ CanPost(t)
  /\ status' = [status EXCEPT ![t] = "pending"]
  /\ wait' = PostedWait(t)
  /\ UNCHANGED <<age, attempts, exec, wire, heard, faults>>

(* Mutants: a claim never runs out; a claim is offered by its age alone.    *)
ClaimableOnce(t) == wait[t] = 0 /\ status[t] = "pending"
ClaimableByAge(t) ==
  /\ wait[t] = 0
  /\ status[t] = "pending" \/ (Alive(t) /\ age[t] > Lease)

Claimable(t) ==
  /\ wait[t] = 0
  /\ \/ status[t] = "pending"
     \/ status[t] = "claimed" /\ age[t] > Lease

(* Mutant: no ORDER BY. *)
OfferedAny(t) == Claimable(t)

(* ORDER BY created_at, id LIMIT 1.  A row that SKIP LOCKED skips is one   *)
(* being settled: the claim then commits after that result.                *)
Offered(t) == Claimable(t) /\ \A u \in Task : Claimable(u) => t <= u

(* Mutants: the update is forgotten; it writes a status nobody else knows.  *)
MarkClaimedNot(t) ==
  /\ Offered(t)
  /\ UNCHANGED backend
MarkClaimedRunning(t) ==
  /\ Offered(t)
  /\ status' = [status EXCEPT ![t] = "running"]
  /\ age' = [age EXCEPT ![t] = 0]
  /\ heard' = [heard EXCEPT ![t] = 0]
  /\ attempts' = [attempts EXCEPT ![t] = TRUE]
  /\ UNCHANGED wait

MarkClaimed(t) ==
  /\ Offered(t)
  /\ status' = [status EXCEPT ![t] = "claimed"]
  /\ age' = [age EXCEPT ![t] = 0]
  /\ heard' = [heard EXCEPT ![t] = 0]
  /\ attempts' = [attempts EXCEPT ![t] = TRUE]
  /\ UNCHANGED wait

(* Mutant: progress only updates the task's progress. *)
RenewLeaseNot(t) == age

(* Progress of t arrives: it renews the lease of a claimed row, whichever  *)
(* execution of t sent it.                                                 *)
RenewLease(t) == [age EXCEPT ![t] = IF status[t] = "claimed" THEN 0 ELSE @]

(* What a failure of t that schedules no retry refuses: the create of the  *)
(* same container, unless that is settled already.  The failed sync of a   *)
(* user's home refuses nothing.                                            *)
Refused(t) == IF t \in Blocking
              THEN {u \in Creates \ {t} : status[u] \in {"pending", "claimed"}}
              ELSE {}

(* The result endpoint, one transaction: settle the row (whatever its      *)
(* status), refuse the create that depended on it or schedule a retry,     *)
(* and, on success, enqueue what follows.  A row that is gone answers 404. *)
(* Whether retries are left is the data sync's own business.               *)
Result(t, ok) ==
  IF ~Alive(t)
  THEN UNCHANGED <<status, wait>>
  ELSE LET settled == [status EXCEPT ![t] = IF ok THEN "succeeded" ELSE "failed"]
       IN \/ /\ status' = [u \in Task |-> IF ~ok /\ u \in Refused(t)
                                          THEN "failed" ELSE settled[u]]
             /\ UNCHANGED wait
          \/ \E n \in Task : /\ CanPost(n)
                             /\ ok \/ (t \in Retryable /\ n \in Delayed)
                             /\ status' = [settled EXCEPT ![n] = "pending"]
                             /\ wait' = PostedWait(n)

(* The container row is removed: its tasks go with it (ON DELETE CASCADE). *)
EraseContainer ==
  /\ \E t \in Owned : Alive(t)
  /\ status' = [t \in Task |-> IF t \in Owned /\ Alive(t)
                               THEN "erased" ELSE status[t]]
  /\ UNCHANGED <<age, wait, attempts, exec, wire, heard, faults>>

-----------------------------------------------------------------------------
(* The agent *)

(* The loop is free to claim; a slow task goes to the slot if that is      *)
(* free, anything else is executed by the loop itself.                     *)
Claim(t) ==
  /\ exec["loop"] = None
  /\ MarkClaimed(t)
  /\ IF t \in Slow /\ exec["slot"] = None
     THEN exec' = [exec EXCEPT !["slot"] = t]
     ELSE exec' = [exec EXCEPT !["loop"] = t]
  /\ UNCHANGED <<wire, faults>>

(* The claim commits but its answer never reaches the agent, which has     *)
(* given up on the request after 8 s.                                      *)
ClaimLost(t) ==
  /\ exec["loop"] = None
  /\ MarkClaimed(t)
  /\ Fault
  /\ UNCHANGED <<exec, wire>>

Progress(e) ==
  /\ exec[e] \in Reporting
  /\ age' = RenewLease(exec[e])
  /\ heard' = [heard EXCEPT ![exec[e]] =
                 IF status[exec[e]] = "claimed" THEN 0 ELSE @]
  /\ UNCHANGED <<status, wait, attempts, exec, wire, faults>>

(* An execution ends and its result is delivered.                          *)
Report(e, ok) ==
  /\ exec[e] # None
  /\ Result(exec[e], ok)
  /\ exec' = [exec EXCEPT ![e] = None]
  /\ UNCHANGED <<age, attempts, wire, heard, faults>>

(* The report times out on the agent, which forgets the task; the request  *)
(* may be lost or still be waiting in the backend.  A panic in the slot's  *)
(* goroutine frees the slot without any report.                            *)
ReportFails(e, ok) ==
  /\ exec[e] # None
  /\ Fault
  /\ \/ wire' = [wire EXCEPT ![exec[e]] = @ \cup {ok}]
     \/ UNCHANGED wire
  /\ exec' = [exec EXCEPT ![e] = None]
  /\ UNCHANGED backend

LateResult(t, ok) ==
  /\ ok \in wire[t]
  /\ wire' = [wire EXCEPT ![t] = @ \ {ok}]
  /\ Result(t, ok)
  /\ UNCHANGED <<age, attempts, exec, heard, faults>>

(* The process dies (an update, a reboot, a panic in the loop) and systemd *)
(* starts it again; nothing about running tasks is kept.                   *)
Restart ==
  /\ Fault
  /\ exec' = [e \in Executor |-> None]
  /\ UNCHANGED <<backend, wire>>

-----------------------------------------------------------------------------
Older(a) == IF a > Lease THEN a ELSE a + 1

Tick ==
  /\ age' = [t \in Task |-> IF status[t] = "claimed" THEN Older(age[t]) ELSE age[t]]
  /\ heard' = [t \in Task |-> IF status[t] = "claimed" THEN Older(heard[t]) ELSE heard[t]]
  /\ wait' = [t \in Task |-> IF wait[t] > 0 THEN wait[t] - 1 ELSE 0]
  /\ UNCHANGED <<status, attempts, exec, wire, faults>>

Next ==
  \/ \E t \in Task : Enqueue(t) \/ Claim(t) \/ ClaimLost(t)
  \/ \E e \in Executor : Progress(e)
  \/ \E e \in Executor, ok \in BOOLEAN : Report(e, ok) \/ ReportFails(e, ok)
  \/ \E t \in Task, ok \in BOOLEAN : LateResult(t, ok)
  \/ EraseContainer
  \/ Restart
  \/ Tick

Spec == Init /\ [][Next]_vars

(* Time passes, the loop keeps polling and every execution ends: the       *)
(* commands a task runs all have timeouts.  Nothing makes the network or   *)
(* the users act.                                                          *)
Fairness ==
  /\ WF_vars(Tick)
  /\ WF_vars(\E t \in Task : Claim(t))
  /\ \A e \in Executor : WF_vars(\E ok \in BOOLEAN : Report(e, ok))

FairSpec == Spec /\ Fairness

-----------------------------------------------------------------------------
(* Properties *)

(* A task is handed to a second executor while the first is still running  *)
(* it only if the backend has not heard from the first for more than       *)
(* Lease: what the comment on the progress endpoint asks of the lease.     *)
LeaseHonoured ==
  [][\A t \in Task :
       Execs(t) # {} /\ ~(Execs(t)' \subseteq Execs(t)) => heard[t] > Lease]_vars

(* A task that has been settled, by its own result, by a late one, or      *)
(* because the container's other task failed, is never handed out again    *)
(* and never becomes open again; only the removal of its container can     *)
(* take it away.                                                           *)
SettledIsFinal ==
  [][\A t \in Task : status[t] \in Final =>
       /\ status'[t] \in Final \cup {"erased"}
       /\ Execs(t)' \subseteq Execs(t)]_vars

(* First come, first started: while a task enqueued without delay has not  *)
(* been handed out, no task enqueued after it has been, so a container's   *)
(* image import is always begun before its create.                         *)
StartedInOrder ==
  \A t, u \in Task :
    u < t /\ attempts[t] /\ status[u] = "pending" => u \in Delayed

(* Whatever runs on the node or is still in flight was handed out: no      *)
(* pending task has an execution or a result under way.                    *)
NothingRunsUnclaimed ==
  \A t \in Task : Execs(t) # {} \/ wire[t] # {} =>
    status[t] \notin {"absent", "pending"} /\ attempts[t]

(* Every task that is enqueued is settled in the end, or removed with its  *)
(* container: lost claims, lost reports and restarts are made good by the  *)
(* lease, provided they stop.                                              *)
EveryTaskSettles ==
  \A t \in Task : status[t] = "pending" ~> status[t] \in Final \cup {"erased"}

(* The comment on slowTaskSem: at most one slow task runs at a time.       *)
AtMostOneSlowTask == ~ (exec["loop"] \in Slow /\ exec["slot"] \in Slow)

-----------------------------------------------------------------------------
(* The queue implements the abstract ledger of work. *)

WorkOf(t) == CASE status[t] = "absent" -> "absent"
               [] status[t] = "pending" -> "queued"
               [] status[t] = "claimed" -> "granted"
               [] status[t] = "erased" -> "erased"
               [] OTHER -> "closed"

HoldersOf(t) == Execs(t) \cup
                {IF ok THEN "wire ok" ELSE "wire failed" : ok \in wire[t]}

Ledger == INSTANCE WorkLedger
            WITH Holder <- Executor \cup {"wire ok", "wire failed"},
                 work <- [t \in Task |-> WorkOf(t)],
                 holders <- [t \in Task |-> HoldersOf(t)]

ImplementsLedger == Ledger!LedgerSpec
=============================================================================
