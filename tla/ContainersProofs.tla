-------------------------- MODULE ContainersProofs --------------------------
(***************************************************************************)
(* What holds of a container name for every number of rows, tasks,         *)
(* requests and faults.                                                    *)
(***************************************************************************)
EXTENDS Containers, TLAPS

(***************************************************************************)
(* The rows of the ledger and of the queue, without what the agent, the    *)
(* node and the requests are doing.                                        *)
(***************************************************************************)
RowsOK ==
  /\ st \in [Row -> Live \cup {"none", "gone"}]
  /\ op \in [Task -> Op \cup {None}]
  /\ row \in [Task -> Row \cup {None}]
  /\ state \in [Task -> TaskState]

(***************************************************************************)
(* Type correctness, action by action.                                     *)
(***************************************************************************)
LEMMA PostTyped ==
  ASSUME RowsOK, NEW t \in Task, NEW o \in Op, NEW r \in Row, Post(t, o, r)
  PROVE  /\ op' \in [Task -> Op \cup {None}]
         /\ row' \in [Task -> Row \cup {None}]
         /\ state' \in [Task -> TaskState]
  BY DEF RowsOK, Post, TaskState

LEMMA PostCreateTyped ==
  ASSUME RowsOK, NEW r \in Row, PostCreate(r)
  PROVE  /\ op' \in [Task -> Op \cup {None}]
         /\ row' \in [Task -> Row \cup {None}]
         /\ state' \in [Task -> TaskState]
<1>1. ASSUME NEW t \in Task, Post(t, "create", r)
      PROVE  /\ op' \in [Task -> Op \cup {None}]
             /\ row' \in [Task -> Row \cup {None}]
             /\ state' \in [Task -> TaskState]
  BY <1>1, PostTyped DEF Op
<1>2. ASSUME NEW t \in Task, t + 1 \in Task,
             op' = [op EXCEPT ![t] = "import", ![t + 1] = "create"],
             row' = [row EXCEPT ![t] = r, ![t + 1] = r],
             state' = [state EXCEPT ![t] = "pending", ![t + 1] = "pending"]
      PROVE  /\ op' \in [Task -> Op \cup {None}]
             /\ row' \in [Task -> Row \cup {None}]
             /\ state' \in [Task -> TaskState]
  BY <1>2 DEF RowsOK, Op, TaskState
<1>3. QED
  BY <1>1, <1>2 DEF PostCreate

LEMMA ResultTyped ==
  ASSUME RowsOK, NEW t \in Task, NEW ok \in BOOLEAN, Result(t, ok)
  PROVE  RowsOK'
<1>1. Settled(t, ok) \in [Task -> TaskState] /\ Settled(t, TRUE) \in [Task -> TaskState]
      /\ Settled(t, FALSE) \in [Task -> TaskState]
  BY DEF RowsOK, Settled, TaskState
<1>2. CASE row[t] = None \/ state[t] = "erased"
  <2>1. UNCHANGED <<st, queue>> \/ (state' = Settled(t, ok) /\ UNCHANGED <<st, op, row>>)
    BY <1>2 DEF Result
  <2>2. QED
    BY <1>1, <2>1 DEF RowsOK, queue
<1>3. ASSUME row[t] \in Row, Failed(t) PROVE RowsOK'
  BY <1>1, <1>3 DEF Failed, RowsOK, Live, TaskState
<1>4. ASSUME row[t] \in Row, Removed(t) PROVE RowsOK'
  BY <1>4 DEF Removed, Cascade, RowsOK, TaskState
<1>5. ASSUME row[t] \in Row, Changed(t) PROVE RowsOK'
  BY <1>1, <1>5 DEF Changed, StatusOnSuccess, RowsOK, Live, Reported
<1>6. ASSUME row[t] \in Row, Created(t) PROVE RowsOK'
  <2>1. st' \in [Row -> Live \cup {"none", "gone"}]
    BY <1>6 DEF Created, RowsOK, Live, Reported
  <2>2. ASSUME NEW n \in Task, op' = [op EXCEPT ![n] = "keys"],
               row' = [row EXCEPT ![n] = row[t]],
               state' = [Settled(t, TRUE) EXCEPT ![n] = "pending"]
        PROVE RowsOK'
    BY <1>1, <1>6, <2>1, <2>2 DEF RowsOK, Op, TaskState
  <2>3. CASE state' = Settled(t, TRUE) /\ UNCHANGED <<op, row>>
    BY <1>1, <2>1, <2>3 DEF RowsOK
  <2>4. QED
    BY <1>6, <2>2, <2>3 DEF Created
<1>7. QED
  BY <1>2, <1>3, <1>4, <1>5, <1>6 DEF Result, RowsOK

LEMMA CommitTyped ==
  ASSUME RowsOK, reqs \subseteq Request, NEW q \in reqs, Commit(q)
  PROVE  RowsOK'
<1> DEFINE r == q.row
           c == q.command
<1>1. r \in Row /\ c \in Command
  BY ContainersAssumption DEF Request
<1>2. CASE UNCHANGED <<st, queue>>
  BY <1>2 DEF RowsOK, queue
<1>3. CASE st' = [st EXCEPT ![r] = "gone"] /\ state' = Cascade(r, {}) /\ UNCHANGED <<op, row>>
  BY <1>1, <1>3 DEF RowsOK, Cascade, TaskState
<1>4. CASE st' = [st EXCEPT ![r] = "provisioning"] /\ PostCreate(r)
  BY <1>1, <1>4, PostCreateTyped DEF RowsOK, Live, Transitional
<1>5. CASE (\E t \in Task : Post(t, "keys", r)) /\ UNCHANGED st
  BY <1>1, <1>5, PostTyped DEF RowsOK, Op
<1>6. CASE /\ c \notin {"force delete", "retry", "retry keys"}
           /\ st' = [st EXCEPT ![r] = Pending(c)]
           /\ \E t \in Task : Post(t, Operation(c), r)
  <2>1. Pending(c) \in Transitional /\ Operation(c) \in Op
    BY <1>1, <1>6 DEF Command, Pending, Operation, Transitional, Op
  <2>2. QED
    BY <1>1, <1>6, <2>1, PostTyped DEF RowsOK, Live
<1>7. QED
  BY <1>2, <1>3, <1>4, <1>5, <1>6 DEF Commit

LEMMA TypeInit == Init => TypeOK
<1> SUFFICES ASSUME Init PROVE TypeOK
  OBVIOUS
<1>1. RowsOK
  BY DEF Init, RowsOK, TaskState
<1>2. /\ exec \in [Executor -> Task \cup {None}]
      /\ outcome \in [Executor -> {"none", "ok", "error"}]
      /\ wire \in [Task -> SUBSET BOOLEAN]
      /\ overdue \in [Row -> 0..2]
  BY DEF Init
<1>3. QED
  BY <1>1, <1>2, ContainersAssumption DEF Init, TypeOK, RowsOK, Instance

LEMMA TypeStep == TypeOK /\ [Next]_vars => TypeOK'
<1> SUFFICES ASSUME TypeOK, [Next]_vars PROVE TypeOK'
  OBVIOUS
<1> USE ContainersAssumption
<1>0. RowsOK
  BY DEF TypeOK, RowsOK
<1>f. Fault => faults' \in 0..MaxFaults
  BY DEF Fault, TypeOK
<1>v. UNCHANGED <<ledger, queue>> => RowsOK' /\ overdue' \in [Row -> 0..2]
  BY DEF TypeOK, RowsOK, ledger, queue
<1>1. ASSUME NEW r \in Row, Create(r) PROVE TypeOK'
  <2>1. st' \in [Row -> Live \cup {"none", "gone"}]
    BY <1>1 DEF Create, TypeOK, Live, Transitional
  <2>2. QED
    BY <1>0, <1>1, <2>1, PostCreateTyped DEF Create, TypeOK, agent, node, bounds
<1>2. ASSUME NEW r \in Row, Expire(r) PROVE TypeOK'
  <2>a. overdue[r] \in 0..2 /\ overdue[r] < 2
    BY <1>2 DEF Expire, TypeOK
  <2>0. overdue[r] + 1 \in 0..2
    BY <2>a
  <2>1. overdue' \in [Row -> 0..2]
    BY <1>2, <2>0 DEF Expire, TypeOK
  <2>2. QED
    BY <1>2, <2>1 DEF Expire, TypeOK, queue, agent, node, bounds
<1>3. ASSUME NEW r \in Row, Heartbeat(r) PROVE TypeOK'
  <2>1. beat' \in Beat
    BY <1>3 DEF Heartbeat, TypeOK, Beat, Seen, Instance, Reported
  <2>2. QED
    BY <1>3, <2>1 DEF Heartbeat, TypeOK, ledger, queue, agent, node, bounds
<1>4. ASSUME NEW c \in Commands, NEW r \in Row, Begin(c, r) PROVE TypeOK'
  <2>1. reqs' \subseteq Request
    BY <1>4 DEF Begin, TypeOK, Request
  <2>2. QED
    BY <1>4, <2>1 DEF Begin, TypeOK, ledger, queue, agent, node, bounds
<1>5. ASSUME NEW q \in reqs, Commit(q) PROVE TypeOK'
  <2>1. RowsOK'
    BY <1>0, <1>5, CommitTyped DEF TypeOK
  <2>2. QED
    BY <1>5, <2>1 DEF Commit, TypeOK, RowsOK, agent, node, bounds
<1>6. ASSUME NEW t \in Task, Claim(t) PROVE TypeOK'
  <2>1. exec' \in [Executor -> Task \cup {None}] /\ state' \in [Task -> TaskState]
    BY <1>6 DEF Claim, TypeOK, TaskState, Executor
  <2>2. QED
    BY <1>6, <2>1 DEF Claim, TypeOK, ledger, node, bounds
<1>7. ASSUME NEW t \in Task, ClaimLost(t) PROVE TypeOK'
  <2>1. state' \in [Task -> TaskState]
    BY <1>7 DEF ClaimLost, TypeOK, TaskState
  <2>2. QED
    BY <1>7, <1>f, <2>1 DEF ClaimLost, TypeOK, ledger, agent, node
<1>8. ASSUME NEW e \in Executor, Execute(e) PROVE TypeOK'
  <2>1. exec[e] \in Task
    BY <1>8 DEF Execute, TypeOK
  <2>2. outcome' \in [Executor -> {"none", "ok", "error"}] /\ doubt' \subseteq Task
    BY <1>8 DEF Execute, Ended, Reappears, LetGo, TypeOK
  <2>3. inst' \in Instance /\ gear' \in Row \cup {None} /\ image' \in BOOLEAN
    BY <1>8, <2>1 DEF Execute, Works, TypeOK, node, Instance
  <2>4. QED
    BY <1>8, <2>2, <2>3 DEF Execute, TypeOK, ledger, queue, bounds
<1>9. ASSUME NEW e \in Executor, ExecuteFails(e) PROVE TypeOK'
  <2>1. exec[e] \in Task
    BY <1>9 DEF ExecuteFails, TypeOK
  <2>2. outcome' \in [Executor -> {"none", "ok", "error"}] /\ doubt' \subseteq Task
    BY <1>9 DEF ExecuteFails, Ended, Reappears, LetGo, TypeOK
  <2>3. inst' \in Instance /\ gear' \in Row \cup {None} /\ image' \in BOOLEAN
    BY <1>9, <2>1 DEF ExecuteFails, Breaks, Works, TypeOK, node, Instance
  <2>4. QED
    BY <1>9, <1>f, <2>2, <2>3 DEF ExecuteFails, TypeOK, ledger, queue
<1>b. ASSUME NEW e \in Executor, ExecuteBlind(e) PROVE TypeOK'
  <2>1. outcome' \in [Executor -> {"none", "ok", "error"}] /\ doubt' \subseteq Task
    BY <1>b DEF ExecuteBlind, Ended, TypeOK
  <2>2. QED
    BY <1>b, <1>f, <2>1 DEF ExecuteBlind, TypeOK, ledger, queue, node
<1>i. ASSUME NEW e \in Executor, Idle(e)
      PROVE  /\ exec' \in [Executor -> Task \cup {None}]
             /\ outcome' \in [Executor -> {"none", "ok", "error"}]
  BY <1>i DEF Idle, Ended, TypeOK
<1>10. ASSUME NEW e \in Executor, Report(e) PROVE TypeOK'
  <2>1. PICK t \in Task : t = exec[e]
    BY <1>10 DEF Report, TypeOK
  <2>2. RowsOK'
    BY <1>0, <1>10, <2>1, ResultTyped DEF Report
  <2>3. QED
    BY <1>10, <1>i, <2>2 DEF Report, TypeOK, RowsOK, node, bounds
<1>11. ASSUME NEW e \in Executor, ReportFails(e) PROVE TypeOK'
  <2>1. exec[e] \in Task
    BY <1>11 DEF ReportFails, TypeOK
  <2>2. wire' \in [Task -> SUBSET BOOLEAN]
    <3>1. (outcome[e] = "ok") \in BOOLEAN /\ wire[exec[e]] \subseteq BOOLEAN
      BY <2>1 DEF TypeOK
    <3>2. wire[exec[e]] \cup {outcome[e] = "ok"} \in SUBSET BOOLEAN
      BY <3>1
    <3>3. QED
      BY <1>11, <2>1, <3>2 DEF ReportFails, TypeOK
  <2>3. QED
    BY <1>11, <1>f, <1>i, <2>2 DEF ReportFails, TypeOK, ledger, queue, node
<1>12. ASSUME NEW t \in Task, NEW ok \in BOOLEAN, LateResult(t, ok) PROVE TypeOK'
  <2>1. RowsOK'
    BY <1>0, <1>12, ResultTyped DEF LateResult
  <2>2. wire' \in [Task -> SUBSET BOOLEAN]
    BY <1>12 DEF LateResult, TypeOK
  <2>3. QED
    BY <1>12, <2>1, <2>2 DEF LateResult, TypeOK, RowsOK, agent, node, bounds
<1>13. CASE Restart
  BY <1>13, <1>f DEF Restart, TypeOK, ledger, queue, node, Instance
<1>14. CASE Collect
  BY <1>14 DEF Collect, TypeOK, ledger, queue, agent, node, bounds
<1>15. CASE HeartbeatWrites
  <2>1. beat \in Beat
    BY <1>15 DEF HeartbeatWrites, TypeOK
  <2>2. st' \in [Row -> Live \cup {"none", "gone"}]
    BY <1>15, <2>1 DEF HeartbeatWrites, TypeOK, Beat, Live
  <2>3. QED
    BY <1>15, <2>2 DEF HeartbeatWrites, TypeOK, queue, agent, node, bounds
<1>16. CASE Meddle
  BY <1>16 DEF Meddle, TypeOK, ledger, queue, agent
<1>17. CASE UNCHANGED vars
  BY <1>17 DEF vars, TypeOK, ledger, queue, agent, node, bounds
<1>18. QED
  BY <1>1, <1>2, <1>3, <1>4, <1>5, <1>6, <1>7, <1>8, <1>9, <1>10, <1>11, <1>12,
     <1>13, <1>14, <1>15, <1>16, <1>17, <1>b DEF Next

THEOREM TypeCorrect == Spec => []TypeOK
  BY TypeInit, TypeStep, PTL DEF Spec

(***************************************************************************)
(* No container in transition is without the task that ends it.            *)
(***************************************************************************)
Covered(r) == \E t \in OpenTasks : row[t] = r /\ Ends(st[r], op[t])

(* A row whose status did not change is still covered if its open tasks    *)
(* that matter are still open.                                             *)
LEMMA StillCovered ==
  ASSUME TransitionHasItsTask, NEW r \in Row, st'[r] = st[r], st[r] \in Transitional,
         \A t \in OpenTasks : row[t] = r /\ Ends(st[r], op[t]) =>
            state'[t] \in {"pending", "claimed"} /\ row'[t] = row[t] /\ op'[t] = op[t]
  PROVE  Covered(r)'
<1>1. PICK t \in OpenTasks : row[t] = r /\ Ends(st[r], op[t])
  BY DEF TransitionHasItsTask
<1>2. state'[t] \in {"pending", "claimed"} /\ row'[t] = r /\ op'[t] = op[t]
  BY <1>1
<1>3. Ends(st'[r], op'[t])
  BY <1>1, <1>2
<1>4. QED
  BY <1>2, <1>3 DEF Covered, OpenTasks

(* Posting a task for r, which may also change the status of r.            *)
LEMMA PostCovers ==
  ASSUME RowsOK, TransitionHasItsTask, NEW r \in Row, NEW t \in Task, NEW o \in Op,
         Post(t, o, r),
         \A q \in Row \ {r} : st'[q] = st[q],
         st'[r] = st[r] \/ Ends(st'[r], o)
  PROVE  TransitionHasItsTask'
<1>1. /\ state[t] = "absent" /\ state'[t] = "pending" /\ row'[t] = r /\ op'[t] = o
      /\ \A u \in Task \ {t} : state'[u] = state[u] /\ row'[u] = row[u] /\ op'[u] = op[u]
  BY DEF Post, Fresh, RowsOK
<1>2. \A u \in OpenTasks : /\ state'[u] \in {"pending", "claimed"}
                           /\ row'[u] = row[u] /\ op'[u] = op[u]
  BY <1>1 DEF OpenTasks
<1>3. ASSUME NEW q \in Row, st'[q] \in Transitional PROVE Covered(q)'
  <2>1. CASE st'[q] = st[q]
    BY <1>2, <1>3, <2>1, StillCovered
  <2>2. CASE st'[q] # st[q]
    <3>1. q = r /\ Ends(st'[q], op'[t])
      BY <1>1, <2>2
    <3>2. t \in OpenTasks'
      BY <1>1 DEF OpenTasks
    <3>3. QED
      BY <1>1, <3>1, <3>2 DEF Covered
  <2>3. QED
    BY <2>1, <2>2
<1>4. QED
  BY <1>3 DEF TransitionHasItsTask, Covered

LEMMA PostCreateCovers ==
  ASSUME RowsOK, TransitionHasItsTask, NEW r \in Row, PostCreate(r),
         st' = [st EXCEPT ![r] = "provisioning"]
  PROVE  TransitionHasItsTask'
<1>0. st'[r] = "provisioning" /\ \A q \in Row \ {r} : st'[q] = st[q]
  BY DEF RowsOK
<1>1. ASSUME NEW t \in Task, Post(t, "create", r) PROVE TransitionHasItsTask'
  <2>1. Ends(st'[r], "create") /\ "create" \in Op
    BY <1>0 DEF Ends, Op
  <2>2. QED
    BY <1>0, <1>1, <2>1, PostCovers
<1>2. ASSUME NEW t \in Task, NEW n \in Task, n = t + 1, Fresh(t), state[n] = "absent",
             op' = [op EXCEPT ![t] = "import", ![n] = "create"],
             row' = [row EXCEPT ![t] = r, ![n] = r],
             state' = [state EXCEPT ![t] = "pending", ![n] = "pending"]
      PROVE TransitionHasItsTask'
  <2>1. /\ state'[n] = "pending" /\ row'[n] = r /\ op'[n] = "create"
        /\ \A u \in Task \ {t, n} : state'[u] = state[u] /\ row'[u] = row[u] /\ op'[u] = op[u]
    BY <1>2 DEF RowsOK
  <2>2. \A u \in OpenTasks : /\ state'[u] \in {"pending", "claimed"}
                             /\ row'[u] = row[u] /\ op'[u] = op[u]
    BY <1>2, <2>1 DEF OpenTasks, Fresh
  <2>3. ASSUME NEW q \in Row, st'[q] \in Transitional PROVE Covered(q)'
    <3>1. CASE q # r
      BY <1>0, <2>2, <2>3, <3>1, StillCovered
    <3>2. CASE q = r
      <4>1. n \in OpenTasks' /\ Ends(st'[r], op'[n])
        BY <1>0, <2>1 DEF OpenTasks, Ends
      <4>2. QED
        BY <2>1, <3>2, <4>1 DEF Covered
    <3>3. QED
      BY <3>1, <3>2
  <2>4. QED
    BY <2>3 DEF TransitionHasItsTask, Covered
<1>3. QED
  BY <1>1, <1>2 DEF PostCreate

(* A result leaves the row it is about at rest, or it is of a task that    *)
(* ends no transition; every other row keeps its open tasks.               *)
LEMMA ResultCovers ==
  ASSUME RowsOK, RowsOK', TransitionHasItsTask, NEW t \in Task, NEW ok \in BOOLEAN,
         Result(t, ok)
  PROVE  TransitionHasItsTask'
<1> SUFFICES ASSUME NEW q \in Row, st'[q] \in Transitional PROVE Covered(q)'
  BY DEF TransitionHasItsTask, Covered
<1>1. CASE UNCHANGED <<st, queue>>
  BY <1>1, StillCovered DEF queue, OpenTasks
<1>2. CASE row[t] = None /\ state' = Settled(t, ok) /\ UNCHANGED <<st, op, row>>
  <2>1. \A u \in OpenTasks : row[u] = q => state'[u] = state[u]
    BY <1>2, ContainersAssumption DEF Settled, OpenTasks, RowsOK
  <2>2. QED
    BY <1>2, <2>1, StillCovered DEF OpenTasks
<1>3. CASE row[t] \in Row /\ Removed(t)
  <2>1. st'[row[t]] = "gone" /\ \A r \in Row : r # row[t] => st'[r] = st[r]
    BY <1>3 DEF Removed, RowsOK
  <2>2. q # row[t] /\ st'[q] = st[q]
    BY <2>1 DEF Transitional
  <2>3. \A u \in OpenTasks : row[u] = q =>
          state'[u] = state[u] /\ row'[u] = row[u] /\ op'[u] = op[u]
    BY <1>3, <2>2 DEF Removed, Cascade, RowsOK, OpenTasks
  <2>4. QED
    BY <2>2, <2>3, StillCovered DEF OpenTasks
<1>4. CASE row[t] \in Row /\ Created(t)
  <2>1. st'[row[t]] = "running" /\ \A r \in Row : r # row[t] => st'[r] = st[r]
    BY <1>4 DEF Created, RowsOK
  <2>2. q # row[t] /\ st'[q] = st[q]
    BY <2>1 DEF Transitional
  <2>3. \A u \in OpenTasks : row[u] = q =>
          state'[u] = state[u] /\ row'[u] = row[u] /\ op'[u] = op[u]
    BY <1>4, <2>2 DEF Created, Settled, Fresh, RowsOK, OpenTasks
  <2>4. QED
    BY <2>2, <2>3, StillCovered DEF OpenTasks
<1>5. CASE row[t] \in Row /\ Changed(t)
  <2>0. UNCHANGED <<op, row>> /\ \A u \in Task : u # t => state'[u] = state[u]
    BY <1>5 DEF Changed, Settled, RowsOK
  <2>1. CASE op[t] \in {"import", "keys"}
    <3>1. ~Ends(st[q], op[t]) /\ st'[q] = st[q]
      BY <1>5, <2>1 DEF Changed, Ends, Transitional
    <3>2. QED
      BY <2>0, <3>1, StillCovered DEF OpenTasks
  <2>2. CASE op[t] \notin {"import", "keys"}
    <3>1. /\ st'[row[t]] \in {"running", "stopped"}
          /\ \A r \in Row : r # row[t] => st'[r] = st[r]
      BY <1>5, <2>2 DEF Changed, StatusOnSuccess, RowsOK
    <3>2. q # row[t] /\ st'[q] = st[q]
      BY <3>1 DEF Transitional
    <3>3. QED
      BY <2>0, <3>2, StillCovered DEF OpenTasks
  <2>3. QED
    BY <2>1, <2>2
<1>6. CASE row[t] \in Row /\ Failed(t)
  <2>0. /\ UNCHANGED <<op, row>>
        /\ \A r \in Row : r # row[t] => st'[r] = st[r]
        /\ \A u \in Task : u # t /\ (row[u] # row[t] \/ op[u] # "create")
                            => state'[u] = state[u]
    BY <1>6 DEF Failed, Settled, RowsOK
  <2>1. CASE q # row[t]
    BY <2>0, <2>1, StillCovered DEF OpenTasks
  <2>2. CASE q = row[t]
    <3>1. op[t] \in {"import", "keys"} /\ st'[q] = st[q] /\ st[q] # "provisioning"
      BY <1>6, <2>2 DEF Failed, RowsOK, Transitional
    <3>2. ~Ends(st[q], op[t]) /\ ~Ends(st[q], "create")
      BY <3>1 DEF Ends, Transitional
    <3>3. QED
      BY <2>0, <3>1, <3>2, StillCovered DEF OpenTasks
  <2>3. QED
    BY <2>1, <2>2
<1>7. QED
  BY <1>1, <1>2, <1>3, <1>4, <1>5, <1>6 DEF Result, RowsOK

(* Nothing that leaves the rows of the ledger alone, and keeps every open  *)
(* task open, uncovers a transition.                                       *)
LEMMA QuietCovers ==
  ASSUME TransitionHasItsTask, UNCHANGED <<st, op, row>>,
         \A t \in OpenTasks : state'[t] \in {"pending", "claimed"}
  PROVE  TransitionHasItsTask'
<1> SUFFICES ASSUME NEW q \in Row, st'[q] \in Transitional PROVE Covered(q)'
  BY DEF TransitionHasItsTask, Covered
<1>1. QED
  BY StillCovered

(* The write of a request that passed its check.                           *)
LEMMA CommitCovers ==
  ASSUME RowsOK, TransitionHasItsTask, reqs \subseteq Request, NEW q \in reqs, Commit(q)
  PROVE  TransitionHasItsTask'
<1> DEFINE r == q.row
           c == q.command
<1>0. r \in Row /\ c \in Command
  BY ContainersAssumption DEF Request
<1>1. CASE UNCHANGED <<st, queue>>
  BY <1>1, QuietCovers DEF queue, OpenTasks
<1>2. CASE st' = [st EXCEPT ![r] = "gone"] /\ state' = Cascade(r, {}) /\ UNCHANGED <<op, row>>
  <2> SUFFICES ASSUME NEW p \in Row, st'[p] \in Transitional PROVE Covered(p)'
    BY DEF TransitionHasItsTask, Covered
  <2>1. p # r /\ st'[p] = st[p]
    BY <1>0, <1>2 DEF RowsOK, Transitional
  <2>2. \A t \in OpenTasks : row[t] = p => state'[t] = state[t]
    BY <1>2, <2>1 DEF Cascade, OpenTasks
  <2>3. QED
    BY <1>2, <2>1, <2>2, StillCovered DEF OpenTasks
<1>3. CASE st' = [st EXCEPT ![r] = "provisioning"] /\ PostCreate(r)
  BY <1>0, <1>3, PostCreateCovers
<1>4. CASE (\E t \in Task : Post(t, "keys", r)) /\ UNCHANGED st
  BY <1>0, <1>4, PostCovers DEF Op
<1>5. CASE /\ c \notin {"force delete", "retry", "retry keys"}
           /\ st' = [st EXCEPT ![r] = Pending(c)]
           /\ \E t \in Task : Post(t, Operation(c), r)
  <2>1. PICK t \in Task : Post(t, Operation(c), r)
    BY <1>5
  <2>2. Operation(c) \in Op /\ Ends(Pending(c), Operation(c))
    BY <1>0, <1>5 DEF Command, Operation, Pending, Op, Ends
  <2>3. st'[r] = Pending(c) /\ \A p \in Row \ {r} : st'[p] = st[p]
    BY <1>0, <1>5 DEF RowsOK
  <2>4. QED
    BY <1>0, <2>1, <2>2, <2>3, PostCovers
<1>6. QED
  BY <1>1, <1>2, <1>3, <1>4, <1>5 DEF Commit

LEMMA CoveredStep ==
  TypeOK /\ TypeOK' /\ TransitionHasItsTask /\ [Next]_vars => TransitionHasItsTask'
<1> SUFFICES ASSUME TypeOK, TypeOK', TransitionHasItsTask, [Next]_vars
             PROVE  TransitionHasItsTask'
  OBVIOUS
<1>0. RowsOK /\ RowsOK' /\ reqs \subseteq Request
  BY DEF TypeOK, RowsOK
<1>1. ASSUME NEW r \in Row, Create(r) PROVE TransitionHasItsTask'
  BY <1>0, <1>1, PostCreateCovers DEF Create
<1>2. ASSUME NEW q \in reqs, Commit(q) PROVE TransitionHasItsTask'
  BY <1>0, <1>2, CommitCovers
<1>3. ASSUME NEW t \in Task, Claim(t) \/ ClaimLost(t) PROVE TransitionHasItsTask'
  <2>1. \A u \in OpenTasks : state'[u] \in {"pending", "claimed"}
    BY <1>0, <1>3 DEF Claim, ClaimLost, OpenTasks, RowsOK
  <2>2. QED
    BY <1>3, <2>1, QuietCovers DEF Claim, ClaimLost, ledger
<1>4. ASSUME NEW e \in Executor, Report(e) PROVE TransitionHasItsTask'
  <2>1. PICK t \in Task : t = exec[e]
    BY <1>4 DEF Report, TypeOK
  <2>2. QED
    BY <1>0, <1>4, <2>1, ResultCovers DEF Report
<1>5. ASSUME NEW t \in Task, NEW ok \in BOOLEAN, LateResult(t, ok) PROVE TransitionHasItsTask'
  BY <1>0, <1>5, ResultCovers DEF LateResult
<1>6. CASE HeartbeatWrites
  <2> SUFFICES ASSUME NEW q \in Row, st'[q] \in Transitional PROVE Covered(q)'
    BY DEF TransitionHasItsTask, Covered
  <2>1. beat \in Beat
    BY <1>6 DEF HeartbeatWrites, TypeOK
  <2>2. st'[q] = st[q]
    BY <1>0, <1>6, <2>1 DEF HeartbeatWrites, Beat, Reported, Transitional, RowsOK
  <2>3. QED
    BY <1>6, <2>2, StillCovered DEF HeartbeatWrites, queue, OpenTasks
<1>7. CASE UNCHANGED <<st, queue>>
  BY <1>7, QuietCovers DEF queue, OpenTasks
<1>8. QED
  <2>1. (\E r \in Row : Expire(r) \/ Heartbeat(r)) => UNCHANGED <<st, queue>>
    BY DEF Expire, Heartbeat, ledger
  <2>2. (\E c \in Commands, r \in Row : Begin(c, r)) => UNCHANGED <<st, queue>>
    BY DEF Begin, ledger
  <2>3. (\E e \in Executor : Execute(e) \/ ExecuteBlind(e) \/ ExecuteFails(e) \/ ReportFails(e))
          => UNCHANGED <<st, queue>>
    BY DEF Execute, ExecuteBlind, ExecuteFails, ReportFails, ledger
  <2>4. Restart \/ Collect \/ Meddle \/ UNCHANGED vars => UNCHANGED <<st, queue>>
    BY DEF Restart, Collect, Meddle, vars, ledger
  <2>5. QED
    BY <1>1, <1>2, <1>3, <1>4, <1>5, <1>6, <1>7, <2>1, <2>2, <2>3, <2>4 DEF Next

(* A container in transition always has an open task that ends it: however *)
(* requests interleave between their check and their write, however late,  *)
(* lost or repeated results, stale heartbeats, restarts of the agent and   *)
(* force deletes fall, no container is left where nothing can touch it.    *)
THEOREM TransitionIsCovered == Spec => []TransitionHasItsTask
<1>1. Init => TransitionHasItsTask
  BY DEF Init, TransitionHasItsTask, Transitional
<1>2. TypeOK /\ TypeOK' /\ TransitionHasItsTask /\ [Next]_vars => TransitionHasItsTask'
  BY CoveredStep
<1>3. QED
  BY <1>1, <1>2, TypeCorrect, PTL DEF Spec

(***************************************************************************)
(* A removed container leaves nothing on the node.                         *)
(***************************************************************************)

(* A task that was claimed stays claimed or better, and keeps its operation.*)
Taken(t) == state[t] \notin {"absent", "pending"}
Keeps == \A t \in Task : Taken(t) => Taken(t)' /\ op'[t] = op[t]

LEMMA PostCreateKeeps ==
  ASSUME RowsOK, NEW r \in Row, PostCreate(r)
  PROVE  Keeps
<1>1. ASSUME NEW t \in Task, Post(t, "create", r) PROVE Keeps
  BY <1>1 DEF Post, Fresh, Keeps, Taken, RowsOK
<1>2. ASSUME NEW t \in Task, NEW n \in Task, Fresh(t), state[n] = "absent",
             op' = [op EXCEPT ![t] = "import", ![n] = "create"],
             state' = [state EXCEPT ![t] = "pending", ![n] = "pending"]
      PROVE Keeps
  BY <1>2 DEF Fresh, Keeps, Taken, RowsOK
<1>3. QED
  BY <1>1, <1>2 DEF PostCreate

LEMMA ResultKeeps ==
  ASSUME RowsOK, NEW t \in Task, NEW ok \in BOOLEAN, Taken(t), Result(t, ok)
  PROVE  Keeps
<1> DEFINE Stays(f) == f \in [Task -> TaskState]
                       /\ \A u \in Task : Taken(u) => f[u] \notin {"absent", "pending"}
<1>1. Stays(Settled(t, TRUE)) /\ Stays(Settled(t, FALSE)) /\ Stays(Settled(t, ok))
  BY DEF Settled, RowsOK, TaskState, Taken
<1>2. ASSUME NEW n \in Task, Fresh(n), op' = [op EXCEPT ![n] = "keys"],
             state' = [Settled(t, TRUE) EXCEPT ![n] = "pending"]
      PROVE Keeps
  BY <1>1, <1>2 DEF Fresh, Keeps, Taken, RowsOK
<1>3. ASSUME state' \in {Settled(t, ok), Settled(t, TRUE)}, op' = op PROVE Keeps
  <2>1. Stays(state')
    BY <1>1, <1>3
  <2>2. QED
    BY <1>3, <2>1 DEF Keeps, Taken
<1>4. CASE Failed(t)
  BY <1>1, <1>4 DEF Failed, Keeps, Taken
<1>5. CASE Removed(t)
  BY <1>5 DEF Removed, Cascade, Keeps, Taken, RowsOK
<1>6. CASE Created(t)
  BY <1>2, <1>3, <1>6 DEF Created
<1>7. CASE Changed(t)
  BY <1>3, <1>7 DEF Changed
<1>8. CASE UNCHANGED queue
  BY <1>8 DEF Keeps, Taken, queue
<1>9. QED
  BY <1>3, <1>4, <1>5, <1>6, <1>7, <1>8 DEF Result, queue

LEMMA CommitKeeps ==
  ASSUME RowsOK, reqs \subseteq Request, NEW q \in reqs, Commit(q)
  PROVE  Keeps
<1>1. CASE UNCHANGED queue
  BY <1>1 DEF Keeps, Taken, queue
<1>2. CASE state' = Cascade(q.row, {}) /\ UNCHANGED <<op, row>>
  BY <1>2 DEF Cascade, Keeps, Taken
<1>3. CASE PostCreate(q.row)
  BY <1>3, PostCreateKeeps DEF Request
<1>4. ASSUME NEW t \in Task, NEW o, Post(t, o, q.row) PROVE Keeps
  BY <1>4 DEF Post, Fresh, Keeps, Taken, RowsOK
<1>5. QED
  BY <1>1, <1>2, <1>3, <1>4 DEF Commit, queue

(* What the agent executes was claimed; the slot executes imports only;    *)
(* an "expire" never succeeds.                                             *)
ExecutorInv == \A e \in Executor :
  /\ exec[e] = None => outcome[e] = "none"
  /\ exec[e] # None => /\ Taken(exec[e])
                       /\ e = "slot" => op[exec[e]] = "import"
                       /\ outcome[e] = "ok" => op[exec[e]] # "expire"

(* And so was what may still be reported.                                  *)
WireInv == \A t \in Task :
  /\ wire[t] # {} => Taken(t)
  /\ TRUE \in wire[t] => op[t] # "expire"

(* There is a success of t to be reported, or one that may still arrive.   *)
Says(t) == TRUE \in wire[t] \/ \E e \in Executor : exec[e] = t /\ outcome[e] = "ok"

(* The success of a delete that is not in doubt tells of an absent instance.*)
Vouched == \A t \in Task \ doubt : op[t] = "delete" /\ Says(t) => inst = "absent"

CleanInv == ExecutorInv /\ WireInv /\ Vouched

LEMMA SaysTaken == TypeOK /\ CleanInv => \A t \in Task : Says(t) => Taken(t) /\ op[t] # "expire"
<1> SUFFICES ASSUME TypeOK, CleanInv, NEW t \in Task, Says(t) PROVE Taken(t) /\ op[t] # "expire"
  OBVIOUS
<1>1. CASE TRUE \in wire[t]
  BY <1>1 DEF CleanInv, WireInv
<1>2. CASE \E e \in Executor : exec[e] = t /\ outcome[e] = "ok"
  BY <1>2, ContainersAssumption DEF CleanInv, ExecutorInv
<1>3. QED
  BY <1>1, <1>2 DEF Says

(* A step of the backend, or one that only ends executions.                *)
LEMMA KeepsExecutors ==
  ASSUME TypeOK, CleanInv, Keeps,
         \A e \in Executor : \/ exec'[e] = exec[e] /\ outcome'[e] = outcome[e]
                             \/ exec'[e] = None /\ outcome'[e] = "none"
  PROVE  ExecutorInv'
<1> SUFFICES ASSUME NEW e \in Executor, exec'[e] # None
             PROVE  /\ state'[exec'[e]] \notin {"absent", "pending"}
                    /\ e = "slot" => op'[exec'[e]] = "import"
                    /\ outcome'[e] = "ok" => op'[exec'[e]] # "expire"
  BY DEF ExecutorInv, CleanInv, Taken
<1>1. exec'[e] = exec[e] /\ outcome'[e] = outcome[e]
  OBVIOUS
<1>2. PICK t \in Task : t = exec[e]
  BY <1>1 DEF TypeOK
<1>3. Taken(t) /\ Taken(t)' /\ op'[t] = op[t]
  BY <1>1, <1>2 DEF ExecutorInv, CleanInv, Keeps
<1>4. QED
  BY <1>1, <1>2, <1>3 DEF ExecutorInv, CleanInv, Taken

(* A step that lets no more be reported than before, and makes no instance.*)
LEMMA KeepsVouched ==
  ASSUME TypeOK, CleanInv, Keeps, doubt' = doubt, inst = "absent" => inst' = "absent",
         \A t \in Task : Says(t)' => Says(t)
  PROVE  Vouched'
BY SaysTaken DEF Vouched, CleanInv, Keeps

(* Only a create makes an instance, and only the loop executes creates.    *)
LEMMA LoopCreates ==
  ASSUME TypeOK, CleanInv, NEW e \in Executor, Execute(e) \/ ExecuteFails(e),
         inst = "absent", inst' # "absent"
  PROVE  e = "loop" /\ op[exec[e]] = "create"
<1>1. op[exec[e]] = "create"
  BY DEF Execute, ExecuteFails, Works, Breaks, node
<1>2. QED
  BY <1>1 DEF CleanInv, ExecutorInv, Execute, ExecuteFails, Executor

LEMMA ExecuteVouched ==
  ASSUME TypeOK, CleanInv, NEW e \in Executor,
         Execute(e) \/ ExecuteBlind(e) \/ ExecuteFails(e)
  PROVE  Vouched'
<1>0. UNCHANGED <<op, exec, wire>> /\ exec[e] \in Task /\ exec[e] # None
  BY ContainersAssumption DEF Execute, ExecuteBlind, ExecuteFails, queue, TypeOK
<1>1. \A f \in Executor : f # e => outcome'[f] = outcome[f]
  BY DEF Execute, ExecuteBlind, ExecuteFails, Ended, TypeOK
<1>2. \A t \in Task : t # exec[e] /\ Says(t)' => Says(t)
  BY <1>0, <1>1 DEF Says
<1>3. CASE ExecuteBlind(e)
  <2>1. inst' = inst /\ doubt' = doubt \cup {exec[e]}
    BY <1>3 DEF ExecuteBlind, node
  <2>2. QED
    BY <1>0, <1>2, <2>1 DEF Vouched, CleanInv
<1>4. CASE Execute(e) /\ op[exec[e]] = "delete"
  <2>1. inst' = "absent"
    BY <1>4 DEF Execute, Works, Refuses
  <2>2. QED
    BY <2>1 DEF Vouched
<1>5. CASE (Execute(e) /\ op[exec[e]] # "delete") \/ ExecuteFails(e)
  <2>1. doubt' = Reappears
    BY <1>5 DEF Execute, ExecuteFails
  <2>2. \A t \in Task : op[t] = "delete" /\ Says(t)' => Says(t)
    <3>1. op[exec[e]] # "delete" \/ outcome'[e] # "ok"
      BY <1>5 DEF ExecuteFails, Ended, TypeOK
    <3>2. QED
      BY <1>0, <1>1, <1>2, <3>1 DEF Says
  <2>3. CASE inst = "absent" /\ inst' # "absent"
    <3>1. e = "loop" /\ op[exec[e]] = "create"
      BY <1>5, <2>3, LoopCreates
    <3>2. ASSUME NEW t \in Task, op[t] = "delete", Says(t) PROVE t \in LetGo
      <4>1. \A f \in Executor : exec[f] # t
        <5>1. exec["loop"] # t
          BY <3>1, <3>2
        <5>2. exec["slot"] # t
          BY <3>2, ContainersAssumption DEF Executor, CleanInv, ExecutorInv
        <5>3. QED
          BY <5>1, <5>2 DEF Executor
      <4>2. Taken(t)
        BY <3>2, SaysTaken
      <4>3. QED
        BY <3>2, <4>1, <4>2 DEF LetGo, Taken
    <3>3. doubt' = doubt \cup LetGo
      BY <2>1, <2>3 DEF Reappears
    <3>4. QED
      BY <1>0, <2>2, <3>2, <3>3 DEF Vouched
  <2>4. CASE ~ (inst = "absent" /\ inst' # "absent")
    <3>1. doubt' = doubt
      BY <2>1, <2>4 DEF Reappears
    <3>2. QED
      BY <1>0, <2>2, <2>4, <3>1 DEF Vouched, CleanInv
  <2>5. QED
    BY <2>3, <2>4
<1>6. QED
  BY <1>3, <1>4, <1>5

LEMMA ExecuteClean ==
  ASSUME TypeOK, CleanInv, NEW e \in Executor,
         Execute(e) \/ ExecuteBlind(e) \/ ExecuteFails(e)
  PROVE  CleanInv'
<1>0. UNCHANGED <<op, state, exec, wire>> /\ exec[e] # None
  BY DEF Execute, ExecuteBlind, ExecuteFails, queue
<1>1. WireInv'
  BY <1>0 DEF WireInv, CleanInv, Taken
<1>2. outcome'[e] = "ok" => op[exec[e]] # "expire"
  BY DEF Execute, ExecuteBlind, ExecuteFails, Works, Ended, TypeOK
<1>3. \A f \in Executor : f # e => outcome'[f] = outcome[f]
  BY DEF Execute, ExecuteBlind, ExecuteFails, Ended, TypeOK
<1>4. ExecutorInv'
  BY <1>0, <1>2, <1>3 DEF ExecutorInv, CleanInv, Taken
<1>5. QED
  BY <1>1, <1>4, ExecuteVouched DEF CleanInv

LEMMA ClaimClean ==
  ASSUME TypeOK, CleanInv, NEW t \in Task, Claim(t) \/ ClaimLost(t)
  PROVE  CleanInv'
<1>0. UNCHANGED <<op, outcome, wire, inst, doubt>> /\ state'[t] = "claimed"
  BY DEF Claim, ClaimLost, node, agent, TypeOK
<1>1. Keeps
  BY <1>0 DEF Claim, ClaimLost, Keeps, Taken, TypeOK
<1>2. WireInv'
  BY <1>0, <1>1 DEF WireInv, CleanInv, Keeps
<1>3. ASSUME NEW e \in Executor, exec'[e] # exec[e]
      PROVE  exec[e] = None /\ exec'[e] = t /\ (e = "slot" => op[t] = "import")
  BY <1>3 DEF Claim, ClaimLost, agent, TypeOK, SlowOp, Executor
<1>4. ExecutorInv'
  <2> SUFFICES ASSUME NEW e \in Executor
               PROVE  /\ exec'[e] = None => outcome'[e] = "none"
                      /\ exec'[e] # None =>
                           /\ state'[exec'[e]] \notin {"absent", "pending"}
                           /\ e = "slot" => op'[exec'[e]] = "import"
                           /\ outcome'[e] = "ok" => op'[exec'[e]] # "expire"
    BY DEF ExecutorInv, Taken
  <2>1. CASE exec'[e] = exec[e]
    BY <1>0, <1>1, <2>1 DEF CleanInv, ExecutorInv, Keeps, Taken, TypeOK
  <2>2. CASE exec'[e] # exec[e]
    <3>1. exec[e] = None /\ exec'[e] = t /\ (e = "slot" => op[t] = "import")
      BY <1>3, <2>2
    <3>2. outcome'[e] = "none"
      BY <1>0, <3>1 DEF CleanInv, ExecutorInv
    <3>3. t # None
      BY ContainersAssumption
    <3>4. QED
      BY <1>0, <3>1, <3>2, <3>3 DEF Taken
  <2>3. QED
    BY <2>1, <2>2
<1>5. \A u \in Task : Says(u)' => Says(u)
  <2> SUFFICES ASSUME NEW u \in Task, NEW e \in Executor, exec'[e] = u, outcome'[e] = "ok"
               PROVE  exec[e] = u /\ outcome[e] = "ok"
    BY <1>0 DEF Says
  <2>1. QED
    BY <1>0, <1>3 DEF CleanInv, ExecutorInv
<1>6. QED
  BY <1>0, <1>1, <1>2, <1>4, <1>5, KeepsVouched DEF CleanInv

LEMMA CleanStep ==
  TypeOK /\ CleanInv /\ [Next]_vars => CleanInv'
<1> SUFFICES ASSUME TypeOK, CleanInv, [Next]_vars PROVE CleanInv'
  OBVIOUS
<1>0. RowsOK /\ reqs \subseteq Request
  BY DEF TypeOK, RowsOK
<1>p. ASSUME NEW e \in Executor, exec[e] # None
      PROVE  /\ exec[e] \in Task /\ Taken(exec[e])
             /\ outcome[e] = "ok" => op[exec[e]] # "expire"
  BY <1>p DEF CleanInv, ExecutorInv, TypeOK
<1>i. ASSUME NEW e \in Executor, Idle(e)
      PROVE  \A f \in Executor : \/ exec'[f] = exec[f] /\ outcome'[f] = outcome[f]
                                 \/ exec'[f] = None /\ outcome'[f] = "none"
  BY <1>i DEF Idle, Ended, TypeOK
<1>w. Keeps /\ UNCHANGED wire => WireInv'
  BY DEF Keeps, WireInv, CleanInv
<1>k. Keeps /\ UNCHANGED agent => ExecutorInv'
  BY KeepsExecutors DEF agent
<1>v. UNCHANGED <<agent, wire>> => \A t \in Task : Says(t)' => Says(t)
  BY DEF Says, agent
<1>q. UNCHANGED queue => Keeps
  BY DEF Keeps, Taken, queue
<1>1. ASSUME NEW r \in Row, Create(r) PROVE CleanInv'
  <2>1. Keeps
    BY <1>0, <1>1, PostCreateKeeps DEF Create
  <2>2. QED
    BY <1>1, <1>w, <1>k, <1>v, <2>1, KeepsVouched DEF Create, node, CleanInv
<1>2. ASSUME NEW q \in reqs, Commit(q) PROVE CleanInv'
  <2>1. Keeps
    BY <1>0, <1>2, CommitKeeps
  <2>2. QED
    BY <1>2, <1>w, <1>k, <1>v, <2>1, KeepsVouched DEF Commit, node, CleanInv
<1>3. ASSUME NEW t \in Task, Claim(t) \/ ClaimLost(t) PROVE CleanInv'
  BY <1>3, ClaimClean
<1>4. ASSUME NEW e \in Executor, Execute(e) \/ ExecuteBlind(e) \/ ExecuteFails(e)
      PROVE  CleanInv'
  BY <1>4, ExecuteClean
<1>5. ASSUME NEW e \in Executor, Report(e) PROVE CleanInv'
  <2>1. PICK t \in Task : t = exec[e] /\ Taken(t)
    BY <1>5, <1>p DEF Report
  <2>2. Keeps
    BY <1>0, <1>5, <2>1, ResultKeeps DEF Report
  <2>3. ExecutorInv'
    BY <1>5, <1>i, <2>2, KeepsExecutors DEF Report
  <2>4. \A u \in Task : Says(u)' => Says(u)
    BY <1>5, <1>i DEF Report, Says
  <2>5. QED
    BY <1>5, <1>w, <2>2, <2>3, <2>4, KeepsVouched DEF Report, node, CleanInv
<1>6. ASSUME NEW e \in Executor, ReportFails(e) PROVE CleanInv'
  <2>1. Keeps /\ UNCHANGED <<op, state>>
    BY <1>6, <1>q DEF ReportFails, queue
  <2>2. ExecutorInv'
    BY <1>6, <1>i, <2>1, KeepsExecutors DEF ReportFails
  <2>3. \A t \in Task : t # exec[e] => wire'[t] = wire[t]
    BY <1>6 DEF ReportFails, TypeOK
  <2>4. PICK t \in Task : t = exec[e] /\ Taken(t) /\ (outcome[e] = "ok" => op[t] # "expire")
    BY <1>6, <1>p DEF ReportFails
  <2>5. wire'[t] = wire[t] \/ wire'[t] = wire[t] \cup {outcome[e] = "ok"}
    BY <1>6, <2>4 DEF ReportFails, TypeOK
  <2>6. WireInv'
    BY <2>1, <2>3, <2>4, <2>5 DEF WireInv, CleanInv, Taken
  <2>7. \A u \in Task : Says(u)' => Says(u)
    BY <1>6, <1>i, <2>3, <2>4, <2>5 DEF ReportFails, Says
  <2>8. QED
    BY <1>6, <2>1, <2>2, <2>6, <2>7, KeepsVouched DEF ReportFails, node, CleanInv
<1>7. ASSUME NEW t \in Task, NEW ok \in BOOLEAN, LateResult(t, ok) PROVE CleanInv'
  <2>1. Taken(t)
    BY <1>7 DEF LateResult, CleanInv, WireInv
  <2>2. Keeps
    BY <1>0, <1>7, <2>1, ResultKeeps DEF LateResult
  <2>3. \A u \in Task : wire'[u] \subseteq wire[u]
    BY <1>7 DEF LateResult, TypeOK
  <2>4. WireInv'
    BY <2>2, <2>3 DEF WireInv, CleanInv, Keeps
  <2>5. \A u \in Task : Says(u)' => Says(u)
    BY <1>7, <2>3 DEF LateResult, Says, agent
  <2>6. QED
    BY <1>7, <1>k, <2>2, <2>4, <2>5, KeepsVouched DEF LateResult, node, CleanInv
<1>8. CASE Restart
  <2>1. Keeps
    BY <1>8, <1>q DEF Restart
  <2>2. ExecutorInv'
    BY <1>8 DEF Restart, ExecutorInv
  <2>3. \A u \in Task : Says(u)' => Says(u)
    BY <1>8 DEF Restart, Says
  <2>4. QED
    BY <1>8, <1>w, <2>1, <2>2, <2>3, KeepsVouched DEF Restart, node, CleanInv
<1>9. CASE Meddle
  <2>1. Keeps
    BY <1>9, <1>q DEF Meddle
  <2>2. QED
    BY <1>9, <1>w, <1>k, <1>v, <2>1, KeepsVouched DEF Meddle, CleanInv
<1>10. CASE UNCHANGED <<queue, agent, wire, inst, doubt>>
  BY <1>10, <1>q, <1>w, <1>k, <1>v, KeepsVouched DEF CleanInv
<1>11. QED
  <2>1. (\E r \in Row : Expire(r) \/ Heartbeat(r)) => UNCHANGED <<queue, agent, wire, inst, doubt>>
    BY DEF Expire, Heartbeat, node
  <2>2. (\E c \in Commands, r \in Row : Begin(c, r)) => UNCHANGED <<queue, agent, wire, inst, doubt>>
    BY DEF Begin, node
  <2>3. Collect \/ HeartbeatWrites \/ UNCHANGED vars => UNCHANGED <<queue, agent, wire, inst, doubt>>
    BY DEF Collect, HeartbeatWrites, vars, node
  <2>4. QED
    BY <1>1, <1>2, <1>3, <1>4, <1>5, <1>6, <1>7, <1>8, <1>9, <1>10, <2>1, <2>2, <2>3 DEF Next

(* A result takes a task its container only if it says that a delete of it *)
(* succeeded.                                                              *)
LEMMA ResultForgets ==
  ASSUME RowsOK, NEW u \in Task, NEW ok \in BOOLEAN, Result(u, ok),
         NEW t \in Task, row[t] # None, row'[t] = None
  PROVE  t = u /\ ok /\ op[t] \in {"delete", "expire"}
<1>1. CASE UNCHANGED row
  BY <1>1
<1>2. CASE row[u] # None /\ Created(u)
  BY <1>2 DEF Created, RowsOK
<1>3. CASE ok /\ op[u] \in {"delete", "expire"} /\ Removed(u)
  BY <1>3 DEF Removed, RowsOK
<1>4. QED
  BY <1>1, <1>2, <1>3 DEF Result, Failed, Changed, queue

(* So a task loses its container with a success that was to be reported.   *)
LEMMA CleanRemoval ==
  ASSUME TypeOK, CleanInv, [Next]_vars,
         NEW t \in Task \ doubt, row[t] # None, row'[t] = None
  PROVE  inst = "absent"
<1>0. RowsOK /\ \A r \in Row : r # None
  BY ContainersAssumption DEF TypeOK, RowsOK
<1>s. Says(t) /\ op[t] \in {"delete", "expire"} => inst = "absent"
  BY SaysTaken DEF CleanInv, Vouched
<1>1. ASSUME NEW r \in Row, Create(r) PROVE inst = "absent"
  BY <1>0, <1>1 DEF Create, PostCreate, Post, RowsOK
<1>2. ASSUME NEW q \in reqs, Commit(q) PROVE inst = "absent"
  <2>1. q.row # None
    BY <1>0 DEF TypeOK, Request
  <2>2. ASSUME NEW u \in Task, NEW o, Post(u, o, q.row) PROVE row'[t] # None
    BY <1>0, <2>1, <2>2 DEF Post, RowsOK
  <2>3. PostCreate(q.row) => row'[t] # None
    BY <1>0, <2>1 DEF PostCreate, Post, RowsOK
  <2>4. QED
    BY <1>2, <2>2, <2>3 DEF Commit, queue
<1>3. ASSUME NEW e \in Executor, Report(e) PROVE inst = "absent"
  <2>1. PICK u \in Task : u = exec[e] /\ Result(u, outcome[e] = "ok")
    BY <1>3 DEF Report, TypeOK
  <2>2. t = exec[e] /\ outcome[e] = "ok" /\ op[t] \in {"delete", "expire"}
    BY <1>0, <2>1, ResultForgets
  <2>3. QED
    BY <1>s, <2>2 DEF Says
<1>4. ASSUME NEW u \in Task, NEW ok \in BOOLEAN, LateResult(u, ok) PROVE inst = "absent"
  <2>1. Result(u, ok) /\ ok \in wire[u]
    BY <1>4 DEF LateResult
  <2>2. t = u /\ ok /\ op[t] \in {"delete", "expire"}
    BY <1>0, <2>1, ResultForgets
  <2>3. QED
    BY <1>s, <2>1, <2>2 DEF Says
<1>5. QED
  <2>1. (\E r \in Row : Expire(r) \/ Heartbeat(r)) => UNCHANGED row
    BY DEF Expire, Heartbeat, queue
  <2>2. (\E c \in Commands, r \in Row : Begin(c, r)) => UNCHANGED row
    BY DEF Begin, queue
  <2>3. (\E u \in Task : Claim(u) \/ ClaimLost(u)) => UNCHANGED row
    BY DEF Claim, ClaimLost
  <2>4. (\E e \in Executor : Execute(e) \/ ExecuteBlind(e) \/ ExecuteFails(e) \/ ReportFails(e))
          => UNCHANGED row
    BY DEF Execute, ExecuteBlind, ExecuteFails, ReportFails, queue
  <2>5. Restart \/ Collect \/ HeartbeatWrites \/ Meddle \/ UNCHANGED vars => UNCHANGED row
    BY DEF Restart, Collect, HeartbeatWrites, Meddle, vars, queue
  <2>6. QED
    BY <1>1, <1>2, <1>3, <1>4, <2>1, <2>2, <2>3, <2>4, <2>5 DEF Next

(* When the result of a delete removes the row, at once or late, nothing   *)
(* is left on the node, whatever else ran, was lost or came before: unless *)
(* the delete was blind, or the agent had let go of it before a create.    *)
THEOREM RemovalLeavesNothing == Spec => RemovalIsClean
<1>1. Init => CleanInv
  BY DEF Init, CleanInv, ExecutorInv, WireInv, Vouched, Says, Executor
<1>2. TypeOK /\ CleanInv /\ [Next]_vars => CleanInv'
  BY CleanStep
<1>3. TypeOK /\ CleanInv /\ [Next]_vars =>
        [\A t \in Task \ doubt : row[t] # None /\ row'[t] = None => inst = "absent"]_vars
  BY CleanRemoval
<1>4. QED
  BY <1>1, <1>2, <1>3, TypeCorrect, PTL DEF Spec, RemovalIsClean
=============================================================================
