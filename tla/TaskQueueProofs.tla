-------------------------- MODULE TaskQueueProofs --------------------------
(***************************************************************************)
(* What holds of the task queue for every set of tasks, every lease, every *)
(* delay and every number of faults.                                       *)
(***************************************************************************)
EXTENDS TaskQueue, TLAPS

(***************************************************************************)
(* What the result endpoint does to the rows: posting needs an absent row, *)
(* settling an open or settled one, and a refusal an open one.             *)
(***************************************************************************)
LEMMA ResultMoves ==
  ASSUME TypeOK, NEW t \in Task, NEW ok \in BOOLEAN, Result(t, ok)
  PROVE  /\ status' \in [Task -> Status]
         /\ wait' \in [Task -> 0..Delay]
         /\ \A u \in Task :
              \/ status'[u] = status[u]
              \/ Alive(u) /\ (u = t \/ status[u] \in {"pending", "claimed"})
                          /\ status'[u] \in Final
              \/ CanPost(u) /\ status'[u] = "pending"
                            /\ wait' = PostedWait(u)
         /\ \A u \in Task : wait'[u] = wait[u] \/ CanPost(u)
         /\ Alive(t) => status'[t] \in Final
<1>1. CASE ~Alive(t)
  BY <1>1 DEF Result, TypeOK
<1>2. CASE Alive(t)
  <2> DEFINE settled == [status EXCEPT ![t] = IF ok THEN "succeeded" ELSE "failed"]
  <2>1. settled \in [Task -> Status] /\ settled[t] \in Final
    BY DEF TypeOK, Status, Final
  <2>2. \/ /\ status' = [u \in Task |-> IF ~ok /\ u \in Refused(t)
                                        THEN "failed" ELSE settled[u]]
           /\ UNCHANGED wait
        \/ \E n \in Task : /\ CanPost(n)
                           /\ status' = [settled EXCEPT ![n] = "pending"]
                           /\ wait' = PostedWait(n)
    BY <1>2 DEF Result
  <2>3. CASE /\ status' = [u \in Task |-> IF ~ok /\ u \in Refused(t)
                                          THEN "failed" ELSE settled[u]]
             /\ UNCHANGED wait
    <3>1. \A u \in Refused(t) : Alive(u) /\ status[u] \in {"pending", "claimed"}
      BY DEF Refused, Alive
    <3>2. QED
      BY <1>2, <2>1, <2>3, <3>1 DEF TypeOK, Status, Final
  <2>4. ASSUME NEW n \in Task, CanPost(n),
               status' = [settled EXCEPT ![n] = "pending"],
               wait' = PostedWait(n)
        PROVE  /\ status' \in [Task -> Status]
               /\ wait' \in [Task -> 0..Delay]
               /\ \A u \in Task :
                    \/ status'[u] = status[u]
                    \/ Alive(u) /\ (u = t \/ status[u] \in {"pending", "claimed"})
                                /\ status'[u] \in Final
                    \/ CanPost(u) /\ status'[u] = "pending"
                                  /\ wait' = PostedWait(u)
               /\ \A u \in Task : wait'[u] = wait[u] \/ CanPost(u)
               /\ status'[t] \in Final
    <3>1. n # t
      BY <1>2, <2>4 DEF CanPost, Alive
    <3>2. status' \in [Task -> Status]
      BY <2>1, <2>4 DEF Status
    <3>3. wait' \in [Task -> 0..Delay] /\ \A u \in Task : u # n => wait'[u] = wait[u]
      BY <2>4, TaskQueueAssumption DEF TypeOK, PostedWait
    <3>4. status'[t] \in Final
      BY <2>1, <2>4, <3>1
    <3>5. \A u \in Task : u # n /\ u # t => status'[u] = status[u]
      BY <2>1, <2>4 DEF TypeOK
    <3>6. status'[n] = "pending"
      BY <2>1, <2>4
    <3>7. QED
      BY <1>2, <2>4, <3>2, <3>3, <3>4, <3>5, <3>6
  <2>5. QED
    BY <1>2, <2>2, <2>3, <2>4
<1>3. QED
  BY <1>1, <1>2

(***************************************************************************)
(* Type correctness.                                                       *)
(***************************************************************************)
LEMMA TypeInit == Init => TypeOK
  BY TaskQueueAssumption DEF Init, TypeOK, Status, Executor

LEMMA TypeStep == TypeOK /\ [Next]_vars => TypeOK'
<1> SUFFICES ASSUME TypeOK, [Next]_vars PROVE TypeOK'
  OBVIOUS
<1> USE TaskQueueAssumption
<1>f. Fault => faults' \in 0..MaxFaults
  BY DEF Fault, TypeOK
<1>m. ASSUME NEW t \in Task, MarkClaimed(t)
      PROVE  /\ status' \in [Task -> Status]
             /\ age' \in [Task -> 0..(Lease + 1)]
             /\ wait' \in [Task -> 0..Delay]
             /\ attempts' \in [Task -> BOOLEAN]
             /\ heard' \in [Task -> 0..(Lease + 1)]
  BY <1>m DEF MarkClaimed, TypeOK, Status
<1>1. ASSUME NEW t \in Task, Enqueue(t) PROVE TypeOK'
  BY <1>1 DEF Enqueue, PostedWait, TypeOK, Status
<1>2. ASSUME NEW t \in Task, Claim(t) PROVE TypeOK'
  <2>1. exec' \in [Executor -> Task \cup {None}]
    BY <1>2 DEF Claim, TypeOK, Executor
  <2>2. QED
    BY <1>2, <1>m, <2>1 DEF Claim, TypeOK
<1>3. ASSUME NEW t \in Task, ClaimLost(t) PROVE TypeOK'
  BY <1>3, <1>m, <1>f DEF ClaimLost, TypeOK
<1>4. ASSUME NEW e \in Executor, Progress(e) PROVE TypeOK'
  <2>1. exec[e] \in Task
    BY <1>4 DEF Progress
  <2> DEFINE Ages == 0..(Lease + 1)
  <2>a. 0 \in Ages /\ age \in [Task -> Ages] /\ heard \in [Task -> Ages]
    BY DEF TypeOK
  <2>b. age' = [age EXCEPT ![exec[e]] = IF status[exec[e]] = "claimed" THEN 0 ELSE @]
    BY <1>4, <2>1 DEF Progress, RenewLease
  <2>c. heard' = [heard EXCEPT ![exec[e]] = IF status[exec[e]] = "claimed" THEN 0 ELSE @]
    BY <1>4 DEF Progress
  <2> HIDE DEF Ages
  <2>2. age' \in [Task -> Ages] /\ heard' \in [Task -> Ages]
    BY <2>1, <2>a, <2>b, <2>c
  <2>3. QED
    BY <1>4, <2>2 DEF Progress, TypeOK, Ages
<1>5. ASSUME NEW e \in Executor, NEW ok \in BOOLEAN, Report(e, ok) PROVE TypeOK'
  <2>1. exec[e] \in Task
    BY <1>5 DEF Report, TypeOK
  <2>2. Result(exec[e], ok)
    BY <1>5 DEF Report
  <2>3. status' \in [Task -> Status] /\ wait' \in [Task -> 0..Delay]
    BY <2>1, <2>2, ResultMoves
  <2>4. QED
    BY <1>5, <2>3 DEF Report, TypeOK
<1>6. ASSUME NEW e \in Executor, NEW ok \in BOOLEAN, ReportFails(e, ok) PROVE TypeOK'
  <2>1. exec[e] \in Task
    BY <1>6 DEF ReportFails, TypeOK
  <2>2. wire' \in [Task -> SUBSET BOOLEAN]
    BY <1>6, <2>1 DEF ReportFails, TypeOK
  <2>3. QED
    BY <1>6, <1>f, <2>2 DEF ReportFails, TypeOK, backend
<1>7. ASSUME NEW t \in Task, NEW ok \in BOOLEAN, LateResult(t, ok) PROVE TypeOK'
  <2>1. status' \in [Task -> Status] /\ wait' \in [Task -> 0..Delay]
    BY <1>7, ResultMoves DEF LateResult
  <2>2. wire' \in [Task -> SUBSET BOOLEAN]
    BY <1>7 DEF LateResult, TypeOK
  <2>3. QED
    BY <1>7, <2>1, <2>2 DEF LateResult, TypeOK
<1>8. CASE EraseContainer
  BY <1>8 DEF EraseContainer, TypeOK, Status
<1>9. CASE Restart
  BY <1>9, <1>f DEF Restart, TypeOK, backend
<1>10. CASE Tick
  BY <1>10 DEF Tick, Older, TypeOK
<1>11. CASE UNCHANGED vars
  BY <1>11 DEF vars, TypeOK
<1>12. QED
  BY <1>1, <1>2, <1>3, <1>4, <1>5, <1>6, <1>7, <1>8, <1>9, <1>10, <1>11 DEF Next

THEOREM TypeCorrect == Spec => []TypeOK
  BY TypeInit, TypeStep, PTL DEF Spec

(***************************************************************************)
(* The inductive invariant.  NothingRunsUnclaimed and StartedInOrder are   *)
(* properties of their own; the other parts say why the lease is measured  *)
(* from the moment the backend last heard of a task, and that rows appear  *)
(* in the order of their ids and wait only if they were given a delay.     *)
(***************************************************************************)
LeaseIsMeasured == \A t \in Task : status[t] = "claimed" => heard[t] = age[t]

AppearInOrder ==
  /\ \A t, u \in Task : u < t /\ status[u] = "absent" => status[t] = "absent"
  /\ \A t \in Task : attempts[t] => status[t] # "absent"

OnlyDelayedWait == \A t \in Task : t \notin Delayed => wait[t] = 0

QueueInv ==
  /\ TypeOK
  /\ NothingRunsUnclaimed
  /\ LeaseIsMeasured
  /\ AppearInOrder
  /\ OnlyDelayedWait
  /\ StartedInOrder

LEMMA QueueInvInit == Init => QueueInv
<1> SUFFICES ASSUME Init PROVE QueueInv
  OBVIOUS
<1>1. TypeOK
  BY TypeInit
<1>2. NothingRunsUnclaimed
  BY TaskQueueAssumption DEF Init, NothingRunsUnclaimed, Execs
<1>3. LeaseIsMeasured /\ AppearInOrder /\ OnlyDelayedWait /\ StartedInOrder
  BY DEF Init, LeaseIsMeasured, AppearInOrder, OnlyDelayedWait, StartedInOrder
<1>4. QED
  BY <1>1, <1>2, <1>3 DEF QueueInv

(***************************************************************************)
(* Handing t out keeps every part but the one about executions, to which   *)
(* the caller adds that t is what is executed.                             *)
(***************************************************************************)
LEMMA MarkClaimedKeeps ==
  ASSUME QueueInv, TypeOK', NEW t \in Task, MarkClaimed(t)
  PROVE  /\ LeaseIsMeasured' /\ AppearInOrder' /\ OnlyDelayedWait' /\ StartedInOrder'
         /\ status'[t] = "claimed" /\ attempts'[t]
         /\ \A u \in Task : u # t => status'[u] = status[u] /\ attempts'[u] = attempts[u]
<1> USE DEF QueueInv
<1>1. /\ status' = [status EXCEPT ![t] = "claimed"]
      /\ age' = [age EXCEPT ![t] = 0]
      /\ heard' = [heard EXCEPT ![t] = 0]
      /\ attempts' = [attempts EXCEPT ![t] = TRUE]
      /\ wait' = wait
  BY DEF MarkClaimed
<1>2. status[t] # "absent"
  BY DEF MarkClaimed, Offered, Claimable
<1>3. /\ status'[t] = "claimed" /\ attempts'[t]
      /\ \A u \in Task : u # t => status'[u] = status[u] /\ attempts'[u] = attempts[u]
  BY <1>1 DEF TypeOK
<1>4. LeaseIsMeasured'
  BY <1>1 DEF LeaseIsMeasured, TypeOK
<1>5. AppearInOrder'
  BY <1>2, <1>3 DEF AppearInOrder
<1>6. OnlyDelayedWait'
  BY <1>1 DEF OnlyDelayedWait
<1>7. StartedInOrder'
  <2> SUFFICES ASSUME NEW v \in Task, NEW u \in Task,
                      u < v, attempts'[v], status'[u] = "pending", u \notin Delayed
               PROVE FALSE
    BY DEF StartedInOrder
  <2>1. u # t /\ status[u] = "pending"
    BY <1>3
  <2>2. CASE v = t
    <3>1. Claimable(u)
      BY <2>1 DEF Claimable, OnlyDelayedWait
    <3>2. t <= u
      BY <3>1 DEF MarkClaimed, Offered
    <3>3. QED
      BY <2>2, <3>2, TaskQueueAssumption
  <2>3. CASE v # t
    BY <1>3, <2>1, <2>3 DEF StartedInOrder
  <2>4. QED
    BY <2>2, <2>3
<1>8. QED
  BY <1>3, <1>4, <1>5, <1>6, <1>7

(***************************************************************************)
(* A result keeps them too; nothing that was handed out is pending after   *)
(* it.                                                                     *)
(***************************************************************************)
LEMMA ResultKeeps ==
  ASSUME QueueInv, TypeOK', NEW t \in Task, NEW ok \in BOOLEAN, Result(t, ok),
         UNCHANGED <<age, heard, attempts>>
  PROVE  /\ LeaseIsMeasured' /\ AppearInOrder' /\ OnlyDelayedWait' /\ StartedInOrder'
         /\ \A u \in Task : status[u] \notin {"absent", "pending"}
                             => status'[u] \notin {"absent", "pending"}
<1> USE DEF QueueInv
<1>1. \A u \in Task :
        \/ status'[u] = status[u]
        \/ Alive(u) /\ status'[u] \in Final
        \/ CanPost(u) /\ status'[u] = "pending" /\ wait' = PostedWait(u)
  BY ResultMoves
<1>2. \A u \in Task : wait'[u] = wait[u] \/ CanPost(u)
  BY ResultMoves
<1>3. \A u \in Task : wait'[u] = wait[u] \/ (CanPost(u) /\ wait' = PostedWait(u))
  <2> SUFFICES ASSUME NEW u \in Task, wait'[u] # wait[u]
               PROVE wait' = PostedWait(u)
    BY <1>2
  <2>1. PICK n \in Task : CanPost(n) /\ wait' = PostedWait(n)
    BY DEF Result
  <2>2. u = n
    BY <2>1 DEF PostedWait, TypeOK
  <2>3. QED
    BY <2>1, <2>2
<1>4. LeaseIsMeasured'
  BY <1>1 DEF LeaseIsMeasured, Final
<1>5. AppearInOrder'
  <2>1. \A v, u \in Task : u < v /\ status'[u] = "absent" => status'[v] = "absent"
    BY <1>1 DEF AppearInOrder, CanPost, Alive, Final
  <2>2. QED
    BY <1>1, <2>1 DEF AppearInOrder, Final
<1>6. OnlyDelayedWait'
  BY <1>3 DEF OnlyDelayedWait, PostedWait, TypeOK
<1>7. StartedInOrder'
  BY <1>1 DEF StartedInOrder, AppearInOrder, CanPost, Final
<1>8. QED
  BY <1>1, <1>4, <1>5, <1>6, <1>7 DEF CanPost, Final

LEMMA QueueInvStep == QueueInv /\ [Next]_vars => QueueInv'
<1> SUFFICES ASSUME QueueInv, [Next]_vars PROVE QueueInv'
  OBVIOUS
<1>0. TypeOK /\ TypeOK'
  BY TypeStep DEF QueueInv
<1> DEFINE Rest == LeaseIsMeasured /\ AppearInOrder /\ OnlyDelayedWait /\ StartedInOrder
<1>1. ASSUME NEW t \in Task, Enqueue(t) PROVE QueueInv'
  <2>1. /\ status' = [status EXCEPT ![t] = "pending"] /\ status[t] = "absent"
        /\ wait' = PostedWait(t) /\ UNCHANGED <<age, attempts, exec, wire, heard>>
        /\ \A u \in Task : u < t => status[u] # "absent"
    BY <1>1 DEF Enqueue, CanPost
  <2>2. NothingRunsUnclaimed'
    BY <1>0, <2>1 DEF QueueInv, NothingRunsUnclaimed, Execs, TypeOK
  <2>3. LeaseIsMeasured' /\ AppearInOrder'
    BY <1>0, <2>1 DEF QueueInv, LeaseIsMeasured, AppearInOrder, TypeOK
  <2>4. OnlyDelayedWait'
    BY <1>0, <2>1 DEF QueueInv, OnlyDelayedWait, PostedWait, TypeOK
  <2>5. StartedInOrder'
    BY <1>0, <2>1 DEF QueueInv, AppearInOrder, StartedInOrder, TypeOK
  <2>6. QED
    BY <1>0, <2>2, <2>3, <2>4, <2>5 DEF QueueInv
<1>2. ASSUME NEW t \in Task, MarkClaimed(t), UNCHANGED wire,
             exec' = exec \/ \E e \in Executor : exec' = [exec EXCEPT ![e] = t]
      PROVE QueueInv'
  <2>1. /\ Rest' /\ status'[t] = "claimed" /\ attempts'[t]
        /\ \A u \in Task : u # t => status'[u] = status[u] /\ attempts'[u] = attempts[u]
    BY <1>0, <1>2, MarkClaimedKeeps
  <2>2. \A u \in Task : u # t => Execs(u)' \subseteq Execs(u)
    BY <1>0, <1>2 DEF Execs, TypeOK
  <2>3. NothingRunsUnclaimed'
    BY <1>2, <2>1, <2>2 DEF QueueInv, NothingRunsUnclaimed
  <2>4. QED
    BY <1>0, <2>1, <2>3 DEF QueueInv
<1>3. ASSUME NEW t \in Task, Claim(t) PROVE QueueInv'
  <2>1. MarkClaimed(t) /\ UNCHANGED wire
    BY <1>3 DEF Claim
  <2>2. \E e \in Executor : exec' = [exec EXCEPT ![e] = t]
    BY <1>3 DEF Claim, Executor
  <2>3. QED
    BY <1>2, <2>1, <2>2
<1>4. ASSUME NEW t \in Task, ClaimLost(t) PROVE QueueInv'
  BY <1>2, <1>4 DEF ClaimLost
<1>5. ASSUME NEW e \in Executor, Progress(e) PROVE QueueInv'
  <2>1. LeaseIsMeasured'
    BY <1>0, <1>5 DEF QueueInv, LeaseIsMeasured, Progress, RenewLease, TypeOK
  <2>2. QED
    BY <1>0, <1>5, <2>1 DEF QueueInv, Progress, NothingRunsUnclaimed, Execs,
       AppearInOrder, OnlyDelayedWait, StartedInOrder
<1>6. ASSUME NEW t \in Task, NEW ok \in BOOLEAN, Result(t, ok),
             UNCHANGED <<age, heard, attempts>>,
             \A u \in Task : Execs(u)' \subseteq Execs(u) /\ wire'[u] \subseteq wire[u]
      PROVE QueueInv'
  <2>1. /\ Rest'
        /\ \A u \in Task : status[u] \notin {"absent", "pending"}
                           => status'[u] \notin {"absent", "pending"}
    BY <1>0, <1>6, ResultKeeps
  <2>2. NothingRunsUnclaimed'
    BY <1>6, <2>1 DEF QueueInv, NothingRunsUnclaimed
  <2>3. QED
    BY <1>0, <2>1, <2>2 DEF QueueInv
<1>7. ASSUME NEW e \in Executor, NEW ok \in BOOLEAN, Report(e, ok) PROVE QueueInv'
  <2>1. exec[e] \in Task /\ Result(exec[e], ok) /\ UNCHANGED <<age, heard, attempts>>
    BY <1>0, <1>7 DEF Report, TypeOK
  <2>2. \A u \in Task : Execs(u)' \subseteq Execs(u) /\ wire'[u] \subseteq wire[u]
    BY <1>0, <1>7, TaskQueueAssumption DEF Report, Execs, TypeOK
  <2>3. QED
    BY <1>6, <2>1, <2>2
<1>8. ASSUME NEW t \in Task, NEW ok \in BOOLEAN, LateResult(t, ok) PROVE QueueInv'
  <2>1. Result(t, ok) /\ UNCHANGED <<age, heard, attempts>>
    BY <1>8 DEF LateResult
  <2>2. \A u \in Task : Execs(u)' \subseteq Execs(u) /\ wire'[u] \subseteq wire[u]
    BY <1>0, <1>8 DEF LateResult, Execs, TypeOK
  <2>3. QED
    BY <1>6, <2>1, <2>2
<1>9. ASSUME UNCHANGED backend,
             \A u \in Task : (Execs(u)' # {} \/ wire'[u] # {})
                             => (Execs(u) # {} \/ wire[u] # {})
      PROVE QueueInv'
  BY <1>0, <1>9 DEF QueueInv, backend, NothingRunsUnclaimed, LeaseIsMeasured,
     AppearInOrder, OnlyDelayedWait, StartedInOrder
<1>10. ASSUME NEW e \in Executor, NEW ok \in BOOLEAN, ReportFails(e, ok) PROVE QueueInv'
  <2>1. \A u \in Task : Execs(u)' \subseteq Execs(u)
    BY <1>0, <1>10, TaskQueueAssumption DEF ReportFails, Execs, TypeOK
  <2>2. e \in Execs(exec[e]) /\ exec[e] \in Task
    BY <1>0, <1>10 DEF ReportFails, Execs, TypeOK
  <2>3. \A u \in Task : u # exec[e] => wire'[u] = wire[u]
    BY <1>0, <1>10, <2>2 DEF ReportFails, TypeOK
  <2>4. UNCHANGED backend
    BY <1>10 DEF ReportFails
  <2>5. QED
    BY <1>9, <2>1, <2>2, <2>3, <2>4
<1>11. CASE Restart
  <2>1. \A u \in Task : Execs(u)' = {}
    BY <1>11, TaskQueueAssumption DEF Restart, Execs
  <2>2. QED
    BY <1>9, <1>11, <2>1 DEF Restart
<1>12. CASE EraseContainer
  <2>1. /\ \A u \in Task : status'[u] = status[u] \/ (Alive(u) /\ status'[u] = "erased")
        /\ UNCHANGED <<age, wait, attempts, exec, wire, heard>>
    BY <1>0, <1>12 DEF EraseContainer, TypeOK
  <2>2. NothingRunsUnclaimed' /\ LeaseIsMeasured' /\ OnlyDelayedWait'
    BY <2>1 DEF QueueInv, NothingRunsUnclaimed, Execs, LeaseIsMeasured, OnlyDelayedWait
  <2>3. AppearInOrder' /\ StartedInOrder'
    BY <2>1 DEF QueueInv, AppearInOrder, StartedInOrder, Alive
  <2>4. QED
    BY <1>0, <2>2, <2>3 DEF QueueInv
<1>13. CASE Tick
  <2>1. LeaseIsMeasured'
    BY <1>0, <1>13 DEF QueueInv, Tick, LeaseIsMeasured, Older, TypeOK
  <2>2. OnlyDelayedWait'
    BY <1>0, <1>13 DEF QueueInv, Tick, OnlyDelayedWait, TypeOK
  <2>3. QED
    BY <1>0, <1>13, <2>1, <2>2 DEF QueueInv, Tick, NothingRunsUnclaimed, Execs,
       AppearInOrder, StartedInOrder
<1>14. CASE UNCHANGED vars
  BY <1>9, <1>14 DEF vars, backend, Execs
<1>15. QED
  BY <1>1, <1>3, <1>4, <1>5, <1>7, <1>8, <1>10, <1>11, <1>12, <1>13, <1>14 DEF Next

(***************************************************************************)
(* No execution and no late answer belongs to a task nobody was given.     *)
(***************************************************************************)
THEOREM NothingRunsUnclaimedHolds == Spec => []NothingRunsUnclaimed
<1>1. QueueInv => NothingRunsUnclaimed
  BY DEF QueueInv
<1>2. QED
  BY QueueInvInit, QueueInvStep, <1>1, PTL DEF Spec

(***************************************************************************)
(* Tasks enqueued without delay are started in the order they came.        *)
(***************************************************************************)
THEOREM StartedInOrderHolds == Spec => []StartedInOrder
<1>1. QueueInv => StartedInOrder
  BY DEF QueueInv
<1>2. QED
  BY QueueInvInit, QueueInvStep, <1>1, PTL DEF Spec

(***************************************************************************)
(* Which steps start an execution: only a claim, and only of the task that *)
(* is claimed.                                                             *)
(***************************************************************************)
LEMMA OnlyClaimsExecute ==
  ASSUME TypeOK, [Next]_vars, NEW t \in Task, ~(Execs(t)' \subseteq Execs(t))
  PROVE  Claim(t)
<1>1. ASSUME NEW u \in Task, Claim(u) PROVE Claim(t)
  <2>1. \E e \in Executor : exec' = [exec EXCEPT ![e] = u]
    BY <1>1 DEF Claim, Executor
  <2>2. u = t
    BY <2>1 DEF Execs, TypeOK
  <2>3. QED
    BY <1>1, <2>2
<1>2. ASSUME \A e \in Executor : exec'[e] = exec[e] \/ exec'[e] = None PROVE FALSE
  BY <1>2, TaskQueueAssumption DEF Execs
<1>3. CASE UNCHANGED exec
  BY <1>3 DEF Execs
<1>4. ASSUME NEW e \in Executor, NEW ok \in BOOLEAN, Report(e, ok) \/ ReportFails(e, ok)
      PROVE FALSE
  BY <1>2, <1>4 DEF Report, ReportFails, TypeOK
<1>5. CASE Restart
  BY <1>2, <1>5 DEF Restart
<1>6. ASSUME ~(\E u \in Task : Claim(u)),
             ~(\E e \in Executor, ok \in BOOLEAN : Report(e, ok) \/ ReportFails(e, ok)),
             ~Restart
      PROVE UNCHANGED exec
  BY <1>6 DEF Next, Enqueue, ClaimLost, Progress, LateResult, EraseContainer, Tick, vars
<1>7. QED
  BY <1>1, <1>3, <1>4, <1>5, <1>6

(***************************************************************************)
(* A task is handed out again under a running execution only when the      *)
(* backend has not heard from that execution for longer than the lease.    *)
(***************************************************************************)
THEOREM LeaseIsHonoured == Spec => LeaseHonoured
<1> DEFINE Again(t) == Execs(t) # {} /\ ~(Execs(t)' \subseteq Execs(t))
<1>1. QueueInv /\ [Next]_vars => \A t \in Task : Again(t) => heard[t] > Lease
  <2> SUFFICES ASSUME QueueInv, [Next]_vars, NEW t \in Task, Again(t)
               PROVE heard[t] > Lease
    OBVIOUS
  <2>1. Claim(t)
    BY OnlyClaimsExecute DEF QueueInv
  <2>2. status[t] \notin {"absent", "pending"}
    BY DEF QueueInv, NothingRunsUnclaimed
  <2>3. status[t] = "claimed" /\ age[t] > Lease
    BY <2>1, <2>2 DEF Claim, MarkClaimed, Offered, Claimable
  <2>4. QED
    BY <2>3 DEF QueueInv, LeaseIsMeasured
<1>2. QED
  BY QueueInvInit, QueueInvStep, <1>1, PTL DEF Spec, LeaseHonoured

(***************************************************************************)
(* A settled task stays settled, and is executed by nobody new.            *)
(***************************************************************************)
LEMMA FinalStays ==
  ASSUME TypeOK, [Next]_vars, NEW t \in Task, status[t] \in Final
  PROVE  status'[t] \in Final \cup {"erased"}
<1>1. ASSUME NEW u \in Task, NEW ok \in BOOLEAN, Result(u, ok)
      PROVE status'[t] \in Final \cup {"erased"}
  BY <1>1, ResultMoves DEF CanPost, Final
<1>2. ASSUME NEW u \in Task, MarkClaimed(u) PROVE status'[t] \in Final \cup {"erased"}
  <2>1. u # t
    BY <1>2 DEF MarkClaimed, Offered, Claimable, Final
  <2>2. QED
    BY <1>2, <2>1 DEF MarkClaimed, TypeOK
<1>3. ASSUME NEW u \in Task, Enqueue(u) PROVE status'[t] \in Final \cup {"erased"}
  BY <1>3 DEF Enqueue, CanPost, TypeOK, Final
<1>4. CASE EraseContainer
  BY <1>4 DEF EraseContainer, TypeOK
<1>5. ASSUME NEW e \in Executor, NEW ok \in BOOLEAN, Report(e, ok)
      PROVE status'[t] \in Final \cup {"erased"}
  BY <1>1, <1>5 DEF Report, TypeOK
<1>6. ASSUME ~(\E u \in Task : Enqueue(u) \/ MarkClaimed(u)),
             ~(\E u \in Task, ok \in BOOLEAN : Result(u, ok)),
             ~(\E e \in Executor, ok \in BOOLEAN : Report(e, ok)),
             ~EraseContainer
      PROVE UNCHANGED status
  BY <1>6 DEF Next, Claim, ClaimLost, Progress, ReportFails, LateResult, Restart,
     Tick, vars, backend
<1>7. QED
  BY <1>1, <1>2, <1>3, <1>4, <1>5, <1>6

THEOREM SettledStaysSettled == Spec => SettledIsFinal
<1>1. TypeOK /\ [Next]_vars =>
        \A t \in Task : status[t] \in Final =>
          /\ status'[t] \in Final \cup {"erased"}
          /\ Execs(t)' \subseteq Execs(t)
  <2> SUFFICES ASSUME TypeOK, [Next]_vars, NEW t \in Task, status[t] \in Final
               PROVE /\ status'[t] \in Final \cup {"erased"}
                     /\ Execs(t)' \subseteq Execs(t)
    OBVIOUS
  <2>1. ~Claim(t)
    BY DEF Claim, MarkClaimed, Offered, Claimable, Final
  <2>2. QED
    BY <2>1, FinalStays, OnlyClaimsExecute
<1>2. QED
  BY TypeInit, TypeStep, <1>1, PTL DEF Spec, SettledIsFinal

(***************************************************************************)
(* The queue implements WorkLedger: every step of it is one the ledger of  *)
(* work allows, or changes nothing the ledger sees.                        *)
(***************************************************************************)
Work == [t \in Task |-> WorkOf(t)]
Holders == [t \in Task |-> HoldersOf(t)]

LEMMA ResultIsMove ==
  ASSUME TypeOK, NEW t \in Task, status[t] # "absent", NEW ok \in BOOLEAN, Result(t, ok)
  PROVE  /\ \A u \in Task : Ledger!Move(u)
         /\ WorkOf(t) # "erased" => WorkOf(t)' = "closed"
<1>1. ASSUME NEW u \in Task PROVE Ledger!Move(u)
  <2>1. CASE status'[u] = status[u]
    BY <2>1 DEF Ledger!Move, WorkOf
  <2>2. CASE CanPost(u) /\ status'[u] = "pending"
    BY <2>2 DEF Ledger!Move, WorkOf, CanPost
  <2>3. CASE Alive(u) /\ (u = t \/ status[u] \in {"pending", "claimed"}) /\ status'[u] \in Final
    <3>1. WorkOf(u) \in {"queued", "granted", "closed"} /\ WorkOf(u)' = "closed"
      BY <2>3 DEF WorkOf, Alive, Final, TypeOK, Status
    <3>2. QED
      BY <3>1 DEF Ledger!Move, Ledger!Open
  <2>4. QED
    BY <2>1, <2>2, <2>3, ResultMoves
<1>2. ASSUME WorkOf(t) # "erased" PROVE WorkOf(t)' = "closed"
  <2>1. Alive(t)
    BY <1>2 DEF WorkOf, Alive
  <2>2. status'[t] \in Final
    BY <2>1, ResultMoves
  <2>3. QED
    BY <2>2 DEF WorkOf, Final
<1>3. QED
  BY <1>1, <1>2

LEMMA ClaimIsGrant ==
  ASSUME TypeOK, TypeOK', NEW t \in Task, MarkClaimed(t)
  PROVE  Ledger!Open(t) /\ Work' = [Work EXCEPT ![t] = "granted"]
<1>1. status[t] \in {"pending", "claimed"} /\ status' = [status EXCEPT ![t] = "claimed"]
  BY DEF MarkClaimed, Offered, Claimable
<1>2. Ledger!Open(t)
  BY <1>1 DEF Ledger!Open, WorkOf
<1>3. Work' = [Work EXCEPT ![t] = "granted"]
  BY <1>1 DEF Work, WorkOf, TypeOK
<1>4. QED
  BY <1>2, <1>3

(* Who may still answer for u, when an executor lets go of what it runs    *)
(* and when one takes t.                                                   *)
LEMMA LetGo ==
  ASSUME TypeOK, NEW e \in Executor, exec[e] \in Task,
         exec' = [exec EXCEPT ![e] = None], UNCHANGED wire
  PROVE  /\ Holders' = [Holders EXCEPT ![exec[e]] = @ \ {e}]
         /\ e \in Holders[exec[e]]
<1>1. \A u \in Task : Execs(u)' = IF u = exec[e] THEN Execs(u) \ {e} ELSE Execs(u)
  BY TaskQueueAssumption DEF Execs, TypeOK
<1>2. \A u \in Task : HoldersOf(u)' = IF u = exec[e] THEN HoldersOf(u) \ {e} ELSE HoldersOf(u)
  BY <1>1 DEF HoldersOf, Executor
<1>3. e \in HoldersOf(exec[e])
  BY DEF HoldersOf, Execs
<1>4. QED
  BY <1>2, <1>3 DEF Holders

LEMMA Take ==
  ASSUME TypeOK, NEW e \in Executor, exec[e] = None, NEW t \in Task,
         exec' = [exec EXCEPT ![e] = t], UNCHANGED wire
  PROVE  Holders' = [Holders EXCEPT ![t] = @ \cup {e}]
<1>1. \A u \in Task : Execs(u)' = IF u = t THEN Execs(u) \cup {e} ELSE Execs(u)
  BY TaskQueueAssumption DEF Execs, TypeOK
<1>2. \A u \in Task : HoldersOf(u)' = IF u = t THEN HoldersOf(u) \cup {e} ELSE HoldersOf(u)
  BY <1>1 DEF HoldersOf
<1>3. QED
  BY <1>2 DEF Holders

(* The holders on the wire, when an answer is put there and taken off.     *)
LEMMA AnswerAdded ==
  ASSUME NEW S \in SUBSET BOOLEAN, NEW T \in SUBSET BOOLEAN, NEW ok \in BOOLEAN,
         T = S \cup {ok}
  PROVE  {IF o THEN "wire ok" ELSE "wire failed" : o \in T}
           = {IF o THEN "wire ok" ELSE "wire failed" : o \in S}
               \cup {IF ok THEN "wire ok" ELSE "wire failed"}
<1> DEFINE Named(W) == {IF o THEN "wire ok" ELSE "wire failed" : o \in W}
           k == IF ok THEN "wire ok" ELSE "wire failed"
<1>1. ASSUME NEW a \in Named(T) PROVE a \in Named(S) \cup {k}
  <2>1. PICK o \in T : a = IF o THEN "wire ok" ELSE "wire failed"
    OBVIOUS
  <2>2. CASE o = ok
    BY <2>1, <2>2
  <2>3. CASE o \in S
    BY <2>1, <2>3
  <2>4. QED
    BY <2>2, <2>3
<1>2. Named(S) \subseteq Named(T)
  OBVIOUS
<1>3. k \in Named(T)
  OBVIOUS
<1>4. QED
  <2> HIDE DEF Named, k
  <2>1. Named(T) = Named(S) \cup {k}
    BY <1>1, <1>2, <1>3
  <2>2. QED
    BY <2>1 DEF Named, k

LEMMA AnswerTaken ==
  ASSUME NEW S \in SUBSET BOOLEAN, NEW T \in SUBSET BOOLEAN, NEW ok \in BOOLEAN,
         T = S \ {ok}
  PROVE  {IF o THEN "wire ok" ELSE "wire failed" : o \in T}
           = {IF o THEN "wire ok" ELSE "wire failed" : o \in S}
               \ {IF ok THEN "wire ok" ELSE "wire failed"}
<1>1. CASE ok
  BY <1>1
<1>2. CASE ~ok
  BY <1>2
<1>3. QED
  BY <1>1, <1>2

LEMMA LedgerInitially == Init => Ledger!LedgerInit
<1> SUFFICES ASSUME Init PROVE Ledger!LedgerInit
  OBVIOUS
<1>1. \A t \in Task : WorkOf(t) = "absent" /\ HoldersOf(t) = {}
  BY TaskQueueAssumption DEF Init, WorkOf, HoldersOf, Execs
<1>2. QED
  BY <1>1 DEF Ledger!LedgerInit

LEMMA LedgerStep ==
  ASSUME QueueInv, QueueInv', [Next]_vars
  PROVE  [Ledger!LedgerNext]_(Ledger!ledger)
<1>0. TypeOK /\ TypeOK'
  BY DEF QueueInv
<1>w. Work' \in [Task -> Ledger!WorkState]
  BY <1>0 DEF TypeOK, Status, Final, Work, WorkOf, Ledger!WorkState
<1>s. ASSUME UNCHANGED <<status, exec, wire>> PROVE UNCHANGED Ledger!ledger
  <2>1. \A t \in Task : WorkOf(t)' = WorkOf(t) /\ HoldersOf(t)' = HoldersOf(t)
    BY <1>s DEF WorkOf, HoldersOf, Execs
  <2>2. QED
    BY <2>1 DEF Ledger!ledger
<1>1. ASSUME NEW t \in Task, Enqueue(t) PROVE Ledger!Administer
  <2>1. \A u \in Task : Ledger!Move(u)
    BY <1>0, <1>1 DEF Enqueue, CanPost, Ledger!Move, WorkOf, TypeOK
  <2>2. UNCHANGED Holders
    BY <1>1 DEF Enqueue, Holders, HoldersOf, Execs
  <2>3. QED
    BY <1>w, <2>1, <2>2 DEF Ledger!Administer, Work, Holders
<1>2. ASSUME NEW t \in Task, Claim(t) PROVE \E h \in Executor : Ledger!Grant(t, h)
  <2>1. PICK e \in Executor : exec[e] = None /\ exec' = [exec EXCEPT ![e] = t]
    BY <1>2 DEF Claim, Executor
  <2>2. Ledger!Open(t) /\ Work' = [Work EXCEPT ![t] = "granted"]
    BY <1>0, <1>2, ClaimIsGrant DEF Claim
  <2>3. Holders' = [Holders EXCEPT ![t] = @ \cup {e}]
    BY <1>0, <1>2, <2>1, Take DEF Claim
  <2>4. QED
    BY <2>2, <2>3 DEF Ledger!Grant, Work, Holders
<1>3. ASSUME NEW t \in Task, ClaimLost(t) PROVE \E h \in Executor : Ledger!Grant(t, h)
  <2>1. Ledger!Open(t) /\ Work' = [Work EXCEPT ![t] = "granted"]
    BY <1>0, <1>3, ClaimIsGrant DEF ClaimLost
  <2>2. UNCHANGED Holders
    BY <1>3 DEF ClaimLost, Holders, HoldersOf, Execs
  <2>3. QED
    BY <2>1, <2>2 DEF Ledger!Grant, Work, Holders, Executor
<1>4. ASSUME NEW e \in Executor, NEW ok \in BOOLEAN, Report(e, ok)
      PROVE \E t \in Task : Ledger!Answer(t, e)
  <2>1. PICK t \in Task : t = exec[e]
    BY <1>0, <1>4 DEF Report, TypeOK
  <2>2. status[t] # "absent"
    BY <2>1 DEF QueueInv, NothingRunsUnclaimed, Execs
  <2>3. /\ \A u \in Task : Ledger!Move(u)
        /\ Work[t] # "erased" => Work'[t] = "closed"
    BY <1>0, <1>4, <2>1, <2>2, ResultIsMove DEF Report, Work
  <2>4. Holders' = [Holders EXCEPT ![t] = @ \ {e}] /\ e \in Holders[t]
    BY <1>0, <1>4, <2>1, LetGo DEF Report
  <2>5. QED
    BY <2>3, <2>4 DEF Ledger!Answer, Holders, Work
<1>5. ASSUME NEW e \in Executor, NEW ok \in BOOLEAN, ReportFails(e, ok)
      PROVE \E t \in Task : Ledger!PassOn(t, e)
  <2>1. PICK t \in Task : t = exec[e]
    BY <1>0, <1>5 DEF ReportFails, TypeOK
  <2>2. UNCHANGED Work /\ exec' = [exec EXCEPT ![e] = None]
    BY <1>5 DEF ReportFails, backend, Work, WorkOf
  <2>3. CASE UNCHANGED wire
    <3>1. Holders' = [Holders EXCEPT ![t] = @ \ {e}] /\ e \in Holders[t]
      BY <1>0, <2>1, <2>2, <2>3, LetGo
    <3>2. QED
      BY <2>2, <3>1 DEF Ledger!PassOn, Holders, Work
  <2>4. CASE wire' = [wire EXCEPT ![t] = @ \cup {ok}]
    <3> DEFINE k == IF ok THEN "wire ok" ELSE "wire failed"
    <3>1. \A u \in Task : Execs(u)' = IF u = t THEN Execs(u) \ {e} ELSE Execs(u)
      BY <1>0, <2>1, <2>2, TaskQueueAssumption DEF Execs, TypeOK
    <3>2. \A u \in Task : u # t => HoldersOf(u)' = HoldersOf(u)
      BY <1>0, <2>4, <3>1 DEF HoldersOf, TypeOK
    <3>3. wire'[t] = wire[t] \cup {ok} /\ wire[t] \subseteq BOOLEAN
      BY <1>0, <2>4 DEF TypeOK
    <3>4. {IF o THEN "wire ok" ELSE "wire failed" : o \in wire'[t]}
            = {IF o THEN "wire ok" ELSE "wire failed" : o \in wire[t]} \cup {k}
      BY <3>3, AnswerAdded
    <3>5. HoldersOf(t)' = (HoldersOf(t) \ {e}) \cup {k}
      BY <3>1, <3>4 DEF HoldersOf, Executor
    <3>6. Holders' = [Holders EXCEPT ![t] = (@ \ {e}) \cup {k}] /\ e \in Holders[t]
      BY <2>1, <3>2, <3>5 DEF Holders, HoldersOf, Execs
    <3>7. QED
      BY <2>2, <3>6 DEF Ledger!PassOn, Holders, Work
  <2>5. QED
    BY <1>5, <2>1, <2>3, <2>4 DEF ReportFails
<1>6. ASSUME NEW t \in Task, NEW ok \in BOOLEAN, LateResult(t, ok)
      PROVE \E h \in {"wire ok", "wire failed"} : Ledger!Answer(t, h)
  <2> DEFINE k == IF ok THEN "wire ok" ELSE "wire failed"
  <2>1. wire' = [wire EXCEPT ![t] = @ \ {ok}] /\ ok \in wire[t] /\ UNCHANGED exec
    BY <1>6 DEF LateResult
  <2>2. status[t] # "absent"
    BY <2>1 DEF QueueInv, NothingRunsUnclaimed
  <2>3. /\ \A u \in Task : Ledger!Move(u)
        /\ Work[t] # "erased" => Work'[t] = "closed"
    BY <1>0, <1>6, <2>2, ResultIsMove DEF LateResult, Work
  <2>4. \A u \in Task : u # t => HoldersOf(u)' = HoldersOf(u)
    BY <1>0, <2>1 DEF HoldersOf, Execs, TypeOK
  <2>5. wire'[t] = wire[t] \ {ok} /\ wire[t] \subseteq BOOLEAN
    BY <1>0, <2>1 DEF TypeOK
  <2>6. {IF o THEN "wire ok" ELSE "wire failed" : o \in wire'[t]}
          = {IF o THEN "wire ok" ELSE "wire failed" : o \in wire[t]} \ {k}
    BY <2>5, AnswerTaken
  <2>7. HoldersOf(t)' = HoldersOf(t) \ {k} /\ k \in HoldersOf(t)
    BY <2>1, <2>6 DEF HoldersOf, Execs, Executor
  <2>8. Holders' = [Holders EXCEPT ![t] = @ \ {k}] /\ k \in Holders[t]
    BY <2>4, <2>7 DEF Holders
  <2>9. QED
    BY <2>3, <2>8 DEF Ledger!Answer, Holders, Work
<1>7. CASE Restart
  <2>1. \A u \in Task : HoldersOf(u)' = HoldersOf(u) \ Executor
    BY <1>7, TaskQueueAssumption DEF Restart, HoldersOf, Execs, Executor
  <2>2. UNCHANGED Work
    BY <1>7 DEF Restart, backend, Work, WorkOf
  <2>3. Ledger!Perish
    BY <2>1, <2>2 DEF Ledger!Perish, Work
  <2>4. QED
    BY <2>3 DEF Ledger!LedgerNext
<1>8. CASE EraseContainer
  <2>1. \A u \in Task : Ledger!Move(u)
    BY <1>0, <1>8 DEF EraseContainer, Alive, Ledger!Move, WorkOf, TypeOK, Status
  <2>2. UNCHANGED Holders
    BY <1>8 DEF EraseContainer, Holders, HoldersOf, Execs
  <2>3. Ledger!Administer
    BY <1>w, <2>1, <2>2 DEF Ledger!Administer, Work, Holders
  <2>4. QED
    BY <2>3 DEF Ledger!LedgerNext
<1>9. ASSUME NEW e \in Executor, Progress(e) PROVE UNCHANGED Ledger!ledger
  BY <1>9, <1>s DEF Progress
<1>10. CASE Tick
  BY <1>10, <1>s DEF Tick
<1>11. CASE UNCHANGED vars
  BY <1>11, <1>s DEF vars
<1>12. QED
  <2> USE DEF Ledger!LedgerNext
  <2>1. ASSUME NEW t \in Task, Enqueue(t) \/ Claim(t) \/ ClaimLost(t)
        PROVE Ledger!LedgerNext
    BY <1>1, <1>2, <1>3, <2>1
  <2>2. ASSUME NEW e \in Executor, NEW ok \in BOOLEAN, Report(e, ok) \/ ReportFails(e, ok)
        PROVE Ledger!LedgerNext
    BY <1>4, <1>5, <2>2
  <2>3. ASSUME NEW t \in Task, NEW ok \in BOOLEAN, LateResult(t, ok)
        PROVE Ledger!LedgerNext
    BY <1>6, <2>3
  <2>4. QED
    BY <1>7, <1>8, <1>9, <1>10, <1>11, <2>1, <2>2, <2>3 DEF Next

THEOREM QueueImplementsLedger == Spec => ImplementsLedger
<1>1. QueueInv /\ QueueInv' /\ [Next]_vars => [Ledger!LedgerNext]_(Ledger!ledger)
  BY LedgerStep
<1>2. QED
  BY QueueInvInit, QueueInvStep, LedgerInitially, <1>1, PTL
     DEF Spec, ImplementsLedger, Ledger!LedgerSpec
=============================================================================
