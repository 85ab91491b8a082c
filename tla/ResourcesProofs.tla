-------------------------- MODULE ResourcesProofs --------------------------
(* Theorems about Resources and their proofs.                              *)
EXTENDS Resources, TLAPS

-----------------------------------------------------------------------------
(* The inductive invariant.  Of a row and a task it needs the status, the  *)
(* type and which is whose; what is on the disk does not matter.           *)

Typed ==
  /\ request \in [Resource -> Request]
  /\ check \in [Resource -> Check]
  /\ state \in [Task -> State]
  /\ kind \in [Task -> Kind]
  /\ of \in [Task -> Resource \cup {None}]
  /\ exec \in [Executor -> Task \cup {None}]

(* A task that was enqueued is of a row, and only such tasks are executed. *)
TasksHaveRows == \A t \in Task : state[t] # "absent" => of[t] \in Resource
OnlyTasksRun == \A e \in Executor : exec[e] # None => state[exec[e]] # "absent"

(* A row begins without a check.                                           *)
NewRowsUnchecked == \A r \in Resource : request[r] = "absent" => check[r] # "checking"

RowInv == Typed /\ TasksHaveRows /\ OnlyTasksRun /\ NewRowsUnchecked /\ StatusHasItsTask

(* What StatusHasItsTask says of a row.                                    *)
HasItsTask(r) ==
  /\ request[r] = "downloading" => OpenOf(r, {"download"}) # {}
  /\ request[r] = "preparing" => OpenOf(r, {"prepare"}) # {}
  /\ request[r] = "checking" => OpenOf(r, {"verify"}) # {}
  /\ Live(r) /\ check[r] = "checking" => OpenOf(r, {"verify", "migrate"}) # {}

LEMMA InitInv == Init => RowInv
BY ResourcesAssumption DEF Init, RowInv, Typed, TasksHaveRows, OnlyTasksRun, NewRowsUnchecked,
   StatusHasItsTask, Request, Check, State, Kind, Underway, Live

-----------------------------------------------------------------------------
(* What the queue keeps.                                                   *)

(* Enqueuing t closes nothing. *)
LEMMA Posted ==
  ASSUME RowInv, NEW t \in Task, NEW k \in Kind, NEW r \in Resource, NEW a,
         PostTo(state, t, k, r, a)
  PROVE  /\ state' \in [Task -> State] /\ kind' \in [Task -> Kind]
         /\ of' \in [Task -> Resource \cup {None}]
         /\ TasksHaveRows'
         /\ \A v \in Task : state[v] # "absent" => state'[v] # "absent"
         /\ \A K : k \in K => OpenOf(r, K)' # {}
         /\ \A q, K : OpenOf(q, K) # {} => OpenOf(q, K)' # {}
<1> USE DEF RowInv, Typed
<1>1. /\ state[t] = "absent" /\ state'[t] = "pending" /\ kind'[t] = k /\ of'[t] = r
      /\ \A v \in Task : v # t => state'[v] = state[v] /\ kind'[v] = kind[v] /\ of'[v] = of[v]
      /\ state' \in [Task -> State] /\ kind' \in [Task -> Kind]
      /\ of' \in [Task -> Resource \cup {None}]
  BY DEF PostTo, Fresh, State
<1>2. TasksHaveRows' /\ \A v \in Task : state[v] # "absent" => state'[v] # "absent"
  BY <1>1 DEF TasksHaveRows
<1>3. ASSUME NEW K, k \in K PROVE OpenOf(r, K)' # {}
  <2>1. t \in OpenOf(r, K)'
    BY <1>1, <1>3 DEF OpenOf, Open
  <2>2. QED
    BY <2>1
<1>4. ASSUME NEW q, NEW K, OpenOf(q, K) # {} PROVE OpenOf(q, K)' # {}
  <2>1. PICK v \in Task : Open(v) /\ of[v] = q /\ kind[v] \in K
    BY <1>4 DEF OpenOf
  <2>2. v \in OpenOf(q, K)'
    BY <1>1, <2>1 DEF OpenOf, Open
  <2>3. QED
    BY <2>2
<1>5. QED
  BY <1>1, <1>2, <1>3, <1>4

(* The task that follows u is added, and only u is closed. *)
LEMMA Followed ==
  ASSUME RowInv, NEW u \in Task, state[u] # "absent",
         NEW t \in Task, NEW k \in Kind, NEW r \in Resource, NEW a,
         NEW st, st = Settle(u, TRUE), PostTo(st, t, k, r, a)
  PROVE  /\ state' \in [Task -> State] /\ kind' \in [Task -> Kind]
         /\ of' \in [Task -> Resource \cup {None}]
         /\ TasksHaveRows'
         /\ \A v \in Task : state[v] # "absent" => state'[v] # "absent"
         /\ \A q, K : OpenOf(q, K) # {} /\ (q # of[u] \/ kind[u] \notin K) => OpenOf(q, K)' # {}
<1> USE DEF RowInv, Typed
<1>1. /\ state[t] = "absent" /\ t # u /\ state'[t] = "pending" /\ kind'[t] = k /\ of'[t] = r
      /\ state'[u] = "succeeded" /\ kind'[u] = kind[u] /\ of'[u] = of[u]
      /\ \A v \in Task : v # t => kind'[v] = kind[v] /\ of'[v] = of[v]
      /\ \A v \in Task : v # t /\ v # u => state'[v] = state[v]
      /\ state' \in [Task -> State] /\ kind' \in [Task -> Kind]
      /\ of' \in [Task -> Resource \cup {None}]
  BY DEF PostTo, Fresh, Settle, State
<1>2. TasksHaveRows' /\ \A v \in Task : state[v] # "absent" => state'[v] # "absent"
  BY <1>1 DEF TasksHaveRows
<1>3. ASSUME NEW q, NEW K, OpenOf(q, K) # {}, q # of[u] \/ kind[u] \notin K
      PROVE  OpenOf(q, K)' # {}
  <2>1. PICK v \in Task : Open(v) /\ of[v] = q /\ kind[v] \in K
    BY <1>3 DEF OpenOf
  <2>2. v \in OpenOf(q, K)'
    BY <1>1, <1>3, <2>1 DEF OpenOf, Open
  <2>3. QED
    BY <2>2
<1>4. QED
  BY <1>1, <1>2, <1>3

(* Settling u closes nothing else.                                         *)
LEMMA Closed ==
  ASSUME RowInv, NEW u \in Task, state[u] # "absent", NEW ok \in BOOLEAN, Only(u, ok)
  PROVE  /\ state' \in [Task -> State] /\ kind' \in [Task -> Kind]
         /\ of' \in [Task -> Resource \cup {None}]
         /\ TasksHaveRows'
         /\ \A v \in Task : state[v] # "absent" => state'[v] # "absent"
         /\ \A q, K : OpenOf(q, K) # {} /\ (q # of[u] \/ kind[u] \notin K) => OpenOf(q, K)' # {}
<1> USE DEF RowInv, Typed
<1>1. state' \in [Task -> State] /\ state'[u] \in {"succeeded", "failed"}
      /\ \A v \in Task : v # u => state'[v] = state[v]
  BY DEF Only, Settle, State
<1>2. kind' = kind /\ of' = of
  BY DEF Only
<1>3. TasksHaveRows'
  BY <1>1, <1>2 DEF TasksHaveRows
<1>4. ASSUME NEW q, NEW K, OpenOf(q, K) # {}, q # of[u] \/ kind[u] \notin K
      PROVE  OpenOf(q, K)' # {}
  <2>1. PICK v \in Task : Open(v) /\ of[v] = q /\ kind[v] \in K
    BY <1>4 DEF OpenOf
  <2>2. v \in OpenOf(q, K)'
    BY <1>1, <1>2, <1>4, <2>1 DEF OpenOf, Open
  <2>3. QED
    BY <2>2
<1>5. QED
  BY <1>1, <1>2, <1>3, <1>4

-----------------------------------------------------------------------------
(* What the invariant needs of a step: the queue is as the lemmas above    *)
(* say, and each row that is still as it was has kept its tasks.           *)

(* Nothing the invariant is about changes, except that executions end.     *)
LEMMA Kept ==
  ASSUME RowInv, UNCHANGED <<request, check, queue>>,
         exec' \in [Executor -> Task \cup {None}],
         \A e \in Executor : exec'[e] # None => exec'[e] = exec[e]
  PROVE  RowInv'
<1>1. Typed' /\ TasksHaveRows' /\ OnlyTasksRun' /\ NewRowsUnchecked'
  BY DEF RowInv, Typed, TasksHaveRows, OnlyTasksRun, NewRowsUnchecked, queue
<1>2. StatusHasItsTask'
  BY DEF RowInv, StatusHasItsTask, Live, OpenOf, Open, queue
<1>3. QED
  BY <1>1, <1>2 DEF RowInv

(* The row r changes, and the others keep their status and their tasks.    *)
LEMMA OneRow ==
  ASSUME RowInv, NEW r \in Resource,
         request' \in [Resource -> Request], check' \in [Resource -> Check],
         \A q \in Resource : q # r => request'[q] = request[q] /\ check'[q] = check[q],
         request'[r] = "absent" => check'[r] # "checking",
         HasItsTask(r)',
         \A q, K : q # r /\ OpenOf(q, K) # {} => OpenOf(q, K)' # {}
  PROVE  NewRowsUnchecked' /\ StatusHasItsTask'
<1>1. NewRowsUnchecked'
  BY DEF RowInv, NewRowsUnchecked
<1>2. ASSUME NEW q \in Resource, q # r PROVE HasItsTask(q)'
  <2>1. HasItsTask(q)
    BY DEF RowInv, StatusHasItsTask, HasItsTask
  <2>2. QED
    BY <1>2, <2>1 DEF HasItsTask, Live
<1>3. \A q \in Resource : HasItsTask(q)'
  BY <1>2
<1>4. StatusHasItsTask'
  BY <1>3 DEF StatusHasItsTask, HasItsTask
<1>5. QED
  BY <1>1, <1>4

(* A handler that enqueues a task of type k for r: what it says of r is    *)
(* what it said before, or what that task will end.                        *)
LEMMA Enqueued ==
  ASSUME RowInv, NEW t \in Task, NEW k \in Kind, NEW r \in Resource, NEW a, NEW el,
         Ask(t, k, r, a, el),
         request' \in [Resource -> Request], check' \in [Resource -> Check],
         \A q \in Resource : q # r => request'[q] = request[q] /\ check'[q] = check[q],
         request'[r] # "absent",
         request'[r] = "downloading" => request[r] = "downloading" \/ k = "download",
         request'[r] = "preparing" => request[r] = "preparing" \/ k = "prepare",
         request'[r] = "checking" => request[r] = "checking" \/ k = "verify",
         check'[r] = "checking" => (Live(r) /\ check[r] = "checking") \/ k \in {"verify", "migrate"}
  PROVE  RowInv'
<1>1. PostTo(state, t, k, r, a) /\ exec' = exec
  BY DEF Ask, agent
<1>2. /\ state' \in [Task -> State] /\ kind' \in [Task -> Kind]
      /\ of' \in [Task -> Resource \cup {None}]
      /\ TasksHaveRows'
      /\ \A v \in Task : state[v] # "absent" => state'[v] # "absent"
      /\ \A K : k \in K => OpenOf(r, K)' # {}
      /\ \A q, K : OpenOf(q, K) # {} => OpenOf(q, K)' # {}
  BY <1>1, Posted
<1>3. Typed' /\ OnlyTasksRun'
  BY <1>1, <1>2 DEF RowInv, Typed, OnlyTasksRun
<1>4. HasItsTask(r)'
  <2>1. HasItsTask(r)
    BY DEF RowInv, StatusHasItsTask, HasItsTask
  <2>2. QED
    BY <1>2, <2>1 DEF HasItsTask
<1>5. NewRowsUnchecked' /\ StatusHasItsTask'
  BY <1>2, <1>4, OneRow
<1>6. QED
  BY <1>2, <1>3, <1>5 DEF RowInv

-----------------------------------------------------------------------------
(* Results *)

(* The result of t, which is of the row r, has come. *)
Reported(t, r, ok) ==
  /\ t \in Task /\ state[t] # "absent" /\ r \in Resource /\ r = of[t]
  /\ Result(t, ok)
  /\ exec' \in [Executor -> Task \cup {None}]
  /\ \A e \in Executor : exec'[e] # None => exec'[e] = exec[e]

LEMMA SettledRows ==
  ASSUME RowInv, NEW t, NEW r \in Resource, NEW ok \in BOOLEAN, Reported(t, r, ok),
         Only(t, ok),
         request' \in [Resource -> Request], check' \in [Resource -> Check],
         \A q \in Resource : q # r => request'[q] = request[q] /\ check'[q] = check[q],
         request'[r] = "absent" => check'[r] # "checking",
         HasItsTask(r)'
  PROVE  RowInv'
<1>1. t \in Task /\ state[t] # "absent" /\ r \in Resource /\ r = of[t]
  BY DEF Reported
<1>2. /\ state' \in [Task -> State] /\ kind' \in [Task -> Kind]
      /\ of' \in [Task -> Resource \cup {None}]
      /\ TasksHaveRows'
      /\ \A v \in Task : state[v] # "absent" => state'[v] # "absent"
      /\ \A q, K : OpenOf(q, K) # {} /\ (q # r \/ kind[t] \notin K) => OpenOf(q, K)' # {}
  BY <1>1, Closed
<1>3. Typed' /\ OnlyTasksRun'
  BY <1>2 DEF Reported, RowInv, Typed, OnlyTasksRun
<1>4. NewRowsUnchecked' /\ StatusHasItsTask'
  BY <1>1, <1>2, OneRow
<1>5. QED
  BY <1>2, <1>3, <1>4 DEF RowInv

(* A result that nothing follows: the row says nothing any more that this  *)
(* task would have ended.                                                  *)
LEMMA Ended ==
  ASSUME RowInv, NEW t, NEW r \in Resource, NEW ok \in BOOLEAN, Reported(t, r, ok),
         Only(t, ok),
         request' \in [Resource -> Request], check' \in [Resource -> Check],
         \A q \in Resource : q # r => request'[q] = request[q] /\ check'[q] = check[q],
         ~Live(r) => request'[r] = request[r] /\ check'[r] = check[r],
         Live(r) =>
           /\ request'[r] # "absent"
           /\ request'[r] = "downloading" => request[r] = "downloading" /\ kind[t] # "download"
           /\ request'[r] = "preparing" => request[r] = "preparing" /\ kind[t] # "prepare"
           /\ request'[r] = "checking" => request[r] = "checking" /\ kind[t] # "verify"
           /\ check'[r] = "checking" => check[r] = "checking" /\ kind[t] \notin {"verify", "migrate"}
  PROVE  RowInv'
<1>1. t \in Task /\ state[t] # "absent" /\ r \in Resource /\ r = of[t]
  BY DEF Reported
<1>2. HasItsTask(r)
  BY <1>1 DEF RowInv, StatusHasItsTask, HasItsTask
<1>3. \A K : OpenOf(r, K) # {} /\ kind[t] \notin K => OpenOf(r, K)' # {}
  BY <1>1, Closed
<1>4. HasItsTask(r)'
  <2>1. CASE Live(r)
    BY <1>2, <1>3, <2>1 DEF HasItsTask
  <2>2. CASE ~Live(r)
    BY <1>2, <1>3, <2>2 DEF HasItsTask, Live
  <2>3. QED
    BY <2>1, <2>2
<1>5. request'[r] = "absent" => check'[r] # "checking"
  BY <1>1 DEF RowInv, NewRowsUnchecked
<1>6. QED
  BY <1>4, <1>5, SettledRows

(* A result that another task follows, while the row is there. *)
LEMMA Continued ==
  ASSUME RowInv, NEW t, NEW r \in Resource, Reported(t, r, TRUE), NEW k \in Kind, NEW a,
         FollowedBy(t, k, a),
         request' \in [Resource -> Request], check' \in [Resource -> Check],
         \A q \in Resource : q # r => request'[q] = request[q] /\ check'[q] = check[q],
         ~Live(r) => request'[r] = request[r] /\ check'[r] = check[r],
         Live(r) =>
           /\ request'[r] # "absent"
           /\ request'[r] = "downloading" => request[r] = "downloading" /\ kind[t] # "download"
           /\ request'[r] = "preparing" => request[r] = "preparing" /\ kind[t] # "prepare"
           /\ request'[r] = "checking" =>
                k = "verify" \/ (request[r] = "checking" /\ kind[t] # "verify")
           /\ check'[r] = "checking" =>
                k \in {"verify", "migrate"} \/ (check[r] = "checking" /\ kind[t] \notin {"verify", "migrate"})
  PROVE  RowInv'
<1>1. t \in Task /\ state[t] # "absent" /\ r \in Resource /\ r = of[t]
  BY DEF Reported
<1>2. CASE ~Live(r)
  <2>1. Only(t, TRUE)
    BY <1>1, <1>2 DEF FollowedBy
  <2>2. QED
    BY <1>2, <2>1, Ended
<1>3. CASE Live(r)
  <2> DEFINE st == Settle(t, TRUE)
  <2>0. st = Settle(t, TRUE)
    OBVIOUS
  <2>1. PICK n \in Task : PostTo(st, n, k, r, a)
    BY <1>1, <1>3 DEF FollowedBy
  <2> HIDE DEF st
  <2>2. /\ state' \in [Task -> State] /\ kind' \in [Task -> Kind]
        /\ of' \in [Task -> Resource \cup {None}]
        /\ TasksHaveRows'
        /\ \A v \in Task : state[v] # "absent" => state'[v] # "absent"
    BY <1>1, <2>0, <2>1, Followed
  <2>3. state'[n] = "pending" /\ kind'[n] = k /\ of'[n] = r
    BY <2>0, <2>1 DEF PostTo, Settle, RowInv, Typed
  <2>4. \A q, K : OpenOf(q, K) # {} /\ (q # of[t] \/ kind[t] \notin K) => OpenOf(q, K)' # {}
    BY <1>1, <2>0, <2>1, Followed
  <2>5. HasItsTask(r)'
    <3>1. HasItsTask(r)
      BY DEF RowInv, StatusHasItsTask, HasItsTask
    <3>2. ASSUME NEW K, k \in K PROVE OpenOf(r, K)' # {}
      <4>1. n \in OpenOf(r, K)'
        BY <2>3, <3>2 DEF OpenOf, Open
      <4>2. QED
        BY <4>1
    <3>3. QED
      BY <1>1, <1>3, <2>4, <3>1, <3>2 DEF HasItsTask
  <2>6. Typed' /\ OnlyTasksRun'
    BY <2>2 DEF Reported, RowInv, Typed, OnlyTasksRun
  <2>7. NewRowsUnchecked' /\ StatusHasItsTask'
    BY <1>1, <1>3, <2>4, <2>5, OneRow
  <2>8. QED
    BY <2>2, <2>6, <2>7 DEF RowInv
<1>4. QED
  BY <1>2, <1>3

(* What a row becomes, if it is there. *)
Says(g, f, S, r, v) ==
  /\ g \in [Resource -> S]
  /\ \A q \in Resource : q # r \/ ~Live(r) => g[q] = f[q]
  /\ Live(r) => g[r] = v

LEMMA SetAt ==
  ASSUME NEW S, NEW f \in [Resource -> S], NEW r \in Resource, NEW v \in S
  PROVE  Says(Set(f, r, v), f, S, r, v)
BY DEF Set, Says

LEMMA FailedInv ==
  ASSUME RowInv, NEW t, NEW r \in Resource, Reported(t, r, FALSE)
  PROVE  RowInv'
<1>1. r = of[t] /\ Failed(t)
  BY DEF Reported, Result
<1>2. Only(t, FALSE)
  BY <1>1 DEF Failed
<1>3. request \in [Resource -> Request] /\ check \in [Resource -> Check]
  BY DEF RowInv, Typed
<1>4. {"failed", "awaiting"} \subseteq Request /\ "failed" \in Check
  BY DEF Request, Check
<1>5. CASE kind[t] \in {"download", "prepare", "verify"}
  <2>1. PICK v \in {"failed", "awaiting"} : request' = Set(request, r, v)
    BY <1>1, <1>5 DEF Failed
  <2>2. check' = Set(check, r, "failed")
    BY <1>1, <1>5 DEF Failed
  <2>3. Says(request', request, Request, r, v) /\ Says(check', check, Check, r, "failed")
    BY <1>3, <1>4, <2>1, <2>2, SetAt
  <2>4. QED
    BY <1>2, <1>3, <1>4, <2>1, <2>2, <2>3, Ended DEF Says
<1>6. CASE kind[t] = "upload"
  <2>1. request' = request /\ check' = check
    BY <1>1, <1>6 DEF Failed
  <2>2. QED
    BY <1>2, <1>3, <1>6, <2>1, Ended DEF Live
<1>7. CASE kind[t] \notin {"download", "prepare", "verify", "upload"}
  <2>1. request' = request /\ check' = Set(check, r, "failed")
    BY <1>1, <1>7 DEF Failed
  <2>2. Says(check', check, Check, r, "failed")
    BY <1>3, <1>4, <2>1, SetAt
  <2>3. QED
    BY <1>2, <1>3, <1>4, <1>7, <2>1, <2>2, Ended DEF Says, Live
<1>8. QED
  BY <1>5, <1>6, <1>7

LEMMA SucceededInv ==
  ASSUME RowInv, NEW t, NEW r \in Resource, Reported(t, r, TRUE)
  PROVE  RowInv'
<1>1. r = of[t] /\ Result(t, TRUE)
  BY DEF Reported
<1>2. request \in [Resource -> Request] /\ check \in [Resource -> Check]
  BY DEF RowInv, Typed
<1>3. /\ {"checking", "awaiting", "ready", "finalizing"} \subseteq Request
      /\ {"checking", "unknown", "ok"} \subseteq Check
      /\ {"verify", "migrate"} \subseteq Kind
  BY DEF Request, Check, Underway, Kind
<1>4. CASE Downloaded(t)
  <2>1. request' = Set(request, r, "checking") /\ check' = Set(check, r, "checking")
    BY <1>1, <1>4 DEF Downloaded
  <2>2. PICK a : FollowedBy(t, "verify", a)
    BY <1>4 DEF Downloaded
  <2>3. Says(request', request, Request, r, "checking") /\ Says(check', check, Check, r, "checking")
    BY <1>2, <1>3, <2>1, <2>2, SetAt
  <2>4. QED
    BY <1>2, <1>3, <2>1, <2>2, <2>3, Continued DEF Says
<1>5. CASE Prepared(t)
  <2>1. request' = Set(request, r, "awaiting") /\ check' = Set(check, r, "unknown") /\ Only(t, TRUE)
    BY <1>1, <1>5 DEF Prepared
  <2>2. Says(request', request, Request, r, "awaiting") /\ Says(check', check, Check, r, "unknown")
    BY <1>2, <1>3, <2>1, SetAt
  <2>3. QED
    BY <1>2, <1>3, <2>1, <2>2, Ended DEF Says
<1>6. CASE Verified(t)
  <2>1. request' = Set(request, r, "ready") /\ check' = Set(check, r, "ok") /\ Only(t, TRUE)
    BY <1>1, <1>6 DEF Verified
  <2>2. Says(request', request, Request, r, "ready") /\ Says(check', check, Check, r, "ok")
    BY <1>2, <1>3, <2>1, SetAt
  <2>3. QED
    BY <1>2, <1>3, <2>1, <2>2, Ended DEF Says
<1>7. CASE Migrated(t)
  <2>1. kind[t] = "migrate" /\ request' = request /\ check' = Set(check, r, "checking")
    BY <1>1, <1>7 DEF Migrated
  <2>2. PICK a : FollowedBy(t, "verify", a)
    BY <1>7 DEF Migrated
  <2>3. Says(check', check, Check, r, "checking")
    BY <1>2, <1>3, <2>1, <2>2, SetAt
  <2>4. QED
    BY <1>2, <1>3, <2>1, <2>2, <2>3, Continued DEF Says, Live
<1>8. CASE Uploaded(t)
  <2>1. kind[t] = "upload" /\ request' = Set(request, r, "finalizing") /\ check' = check
    BY <1>1, <1>8 DEF Uploaded
  <2>2. PICK a : FollowedBy(t, "migrate", a)
    BY <1>8 DEF Uploaded
  <2>3. Says(request', request, Request, r, "finalizing")
    BY <1>2, <1>3, <2>1, <2>2, SetAt
  <2>4. QED
    BY <1>2, <1>3, <2>1, <2>2, <2>3, Continued DEF Says
<1>9. QED
  BY <1>1, <1>4, <1>5, <1>6, <1>7, <1>8 DEF Result

-----------------------------------------------------------------------------
(* Steps *)

LEMMA ResultInv ==
  ASSUME RowInv, NEW t \in Task, NEW ok \in BOOLEAN, state[t] # "absent", Result(t, ok),
         exec' \in [Executor -> Task \cup {None}],
         \A e \in Executor : exec'[e] # None => exec'[e] = exec[e]
  PROVE  RowInv'
<1>1. PICK r \in Resource : r = of[t]
  BY DEF RowInv, TasksHaveRows
<1>2. Reported(t, r, ok)
  BY <1>1 DEF Reported
<1>3. CASE ok = TRUE
  BY <1>2, <1>3, SucceededInv
<1>4. CASE ok = FALSE
  BY <1>2, <1>4, FailedInv
<1>5. QED
  BY <1>3, <1>4

LEMMA AskedInv ==
  ASSUME RowInv, NEW r \in Resource, NEW t \in Task,
         \/ \E u \in Repo, byHand \in BOOLEAN : RequestResource(r, u, byHand, t)
         \/ \E u \in Repo \cup {None} : Upload(r, u, t)
         \/ Verify(r, t) \/ FinalizeManual(r, t)
         \/ \E link \in BOOLEAN : MigrateLayout(r, link, t)
  PROVE  RowInv'
<1>1. request \in [Resource -> Request] /\ check \in [Resource -> Check]
  BY DEF RowInv, Typed
<1>2. /\ {"preparing", "downloading", "uploading", "checking"} \subseteq Request
      /\ {"checking", "unknown"} \subseteq Check
      /\ {"download", "prepare", "upload", "verify", "migrate"} \subseteq Kind
  BY DEF Request, Check, Underway, Kind
<1>3. ASSUME NEW u \in Repo, NEW byHand \in BOOLEAN, RequestResource(r, u, byHand, t)
      PROVE  RowInv'
  <2>1. /\ request' = [request EXCEPT ![r] = IF byHand THEN "preparing" ELSE "downloading"]
        /\ check' = [check EXCEPT ![r] = "unknown"]
    BY <1>3 DEF RequestResource
  <2>2. PICK a, el : Ask(t, IF byHand THEN "prepare" ELSE "download", r, a, el)
    BY <1>3 DEF RequestResource
  <2>3. CASE byHand
    <3>1. request'[r] = "preparing" /\ Ask(t, "prepare", r, a, el)
      BY <1>1, <2>1, <2>2, <2>3
    <3>2. QED
      BY <1>1, <1>2, <2>1, <3>1, Enqueued
  <2>4. CASE ~byHand
    <3>1. request'[r] = "downloading" /\ Ask(t, "download", r, a, el)
      BY <1>1, <2>1, <2>2, <2>4
    <3>2. QED
      BY <1>1, <1>2, <2>1, <3>1, Enqueued
  <2>5. QED
    BY <2>3, <2>4
<1>4. ASSUME NEW u \in Repo \cup {None}, Upload(r, u, t) PROVE RowInv'
  <2>1. /\ request' = [request EXCEPT ![r] = "uploading"]
        /\ check' = [check EXCEPT ![r] = "unknown"]
    BY <1>4 DEF Upload
  <2>2. PICK a, el : Ask(t, "upload", r, a, el)
    BY <1>4 DEF Upload
  <2>3. QED
    BY <1>1, <1>2, <2>1, <2>2, Enqueued
<1>5. ASSUME Verify(r, t) PROVE RowInv'
  <2>1. request' = request /\ check' = [check EXCEPT ![r] = "checking"] /\ Live(r)
    BY <1>5 DEF Verify
  <2>2. PICK a, el : Ask(t, "verify", r, a, el)
    BY <1>5 DEF Verify
  <2>3. QED
    BY <1>1, <1>2, <2>1, <2>2, Enqueued DEF Live
<1>6. ASSUME FinalizeManual(r, t) PROVE RowInv'
  <2>1. /\ request' = [request EXCEPT ![r] = "checking"]
        /\ check' = [check EXCEPT ![r] = "checking"]
    BY <1>6 DEF FinalizeManual
  <2>2. PICK a, el : Ask(t, "verify", r, a, el)
    BY <1>6 DEF FinalizeManual
  <2>3. QED
    BY <1>1, <1>2, <2>1, <2>2, Enqueued
<1>7. ASSUME NEW link \in BOOLEAN, MigrateLayout(r, link, t) PROVE RowInv'
  <2>1. request' = request /\ check' = [check EXCEPT ![r] = "checking"] /\ Live(r)
    BY <1>7 DEF MigrateLayout
  <2>2. PICK a, el : Ask(t, "migrate", r, a, el)
    BY <1>7 DEF MigrateLayout
  <2>3. QED
    BY <1>1, <1>2, <2>1, <2>2, Enqueued DEF Live
<1>8. QED
  BY <1>3, <1>4, <1>5, <1>6, <1>7

(* A row is entered, edited or deleted while its tasks stay. *)
LEMMA EditedInv ==
  ASSUME RowInv, NEW r \in Resource, check' = check, UNCHANGED <<queue, exec>>,
         \/ request' = request
         \/ request' = [request EXCEPT ![r] = "gone"]
         \/ request[r] = "absent" /\ request' = [request EXCEPT ![r] = "ready"]
  PROVE  RowInv'
<1>1. check \in [Resource -> Check] /\ request \in [Resource -> Request]
  BY DEF RowInv, Typed
<1>2. request' \in [Resource -> Request]
  BY <1>1 DEF Request
<1>3. Typed' /\ TasksHaveRows' /\ OnlyTasksRun'
  BY <1>2 DEF RowInv, Typed, TasksHaveRows, OnlyTasksRun, queue
<1>4. \A q, K : OpenOf(q, K)' = OpenOf(q, K)
  BY DEF OpenOf, Open, queue
<1>5. HasItsTask(r)
  BY DEF RowInv, StatusHasItsTask, HasItsTask
<1>6. HasItsTask(r)'
  <2>1. CASE request' = request
    BY <1>4, <1>5, <2>1 DEF HasItsTask, Live
  <2>2. CASE request' = [request EXCEPT ![r] = "gone"]
    BY <1>1, <2>2 DEF HasItsTask, Live
  <2>3. CASE request[r] = "absent" /\ request' = [request EXCEPT ![r] = "ready"]
    BY <1>1, <2>3 DEF HasItsTask, RowInv, NewRowsUnchecked
  <2>4. QED
    BY <2>1, <2>2, <2>3
<1>7. request'[r] = "absent" => check'[r] # "checking"
  BY <1>1 DEF RowInv, NewRowsUnchecked
<1>8. NewRowsUnchecked' /\ StatusHasItsTask'
  BY <1>1, <1>2, <1>4, <1>6, <1>7, OneRow
<1>9. QED
  BY <1>3, <1>8 DEF RowInv

LEMMA ClaimInv ==
  ASSUME RowInv, NEW t \in Task, Claim(t)
  PROVE  RowInv'
<1>1. PICK e \in Executor : exec' = [exec EXCEPT ![e] = t]
  BY DEF Claim, Executor
<1>2. /\ state[t] \in {"pending", "claimed"} /\ state' = [state EXCEPT ![t] = "claimed"]
      /\ UNCHANGED <<request, check, kind, of>>
  BY DEF Claim, Offered, Open, rows
<1>3. Typed' /\ TasksHaveRows' /\ OnlyTasksRun' /\ NewRowsUnchecked'
  BY <1>1, <1>2 DEF RowInv, Typed, TasksHaveRows, OnlyTasksRun, NewRowsUnchecked, State
<1>4. \A u \in Task : Open(u)' = Open(u)
  BY <1>2 DEF RowInv, Typed, Open
<1>5. StatusHasItsTask'
  BY <1>2, <1>4 DEF RowInv, StatusHasItsTask, OpenOf, Live
<1>6. QED
  BY <1>3, <1>5 DEF RowInv

(* What happens on the agent and in its directories. *)
LEMMA AgentInv ==
  ASSUME RowInv, NEW e \in Executor,
         \/ Seed(e) \/ TakeMount(e) \/ NoDownloader(e) \/ Fetch(e) \/ FetchEnds(e)
         \/ Activate(e) \/ Inspect(e) \/ Migrate(e)
  PROVE  RowInv'
<1>1. UNCHANGED <<request, check, queue, exec>>
  BY DEF Seed, TakeMount, NoDownloader, Fetch, FetchEnds, Activate, Inspect, Migrate, rows
<1>2. exec \in [Executor -> Task \cup {None}]
  BY DEF RowInv, Typed
<1>3. QED
  BY <1>1, <1>2, Kept

THEOREM Invariant == Spec => []RowInv
<1>1. ASSUME RowInv, [Next]_vars PROVE RowInv'
  <2>1. exec \in [Executor -> Task \cup {None}] /\ None \notin Task
    BY <1>1, ResourcesAssumption DEF RowInv, Typed
  <2>2. CASE UNCHANGED vars
    BY <1>1, <2>1, <2>2, Kept DEF vars, rows, agent
  <2>3. ASSUME NEW r \in Resource, NEW t \in Task,
               \/ \E u \in Repo, byHand \in BOOLEAN : RequestResource(r, u, byHand, t)
               \/ \E u \in Repo \cup {None} : Upload(r, u, t)
               \/ Verify(r, t) \/ FinalizeManual(r, t)
               \/ \E link \in BOOLEAN : MigrateLayout(r, link, t)
        PROVE  RowInv'
    BY <1>1, <2>3, AskedInv
  <2>4. ASSUME NEW r \in Resource, NEW p \in {Layout, Legacy}, Register(r, p) PROVE RowInv'
    <3>1. check' = check /\ UNCHANGED <<queue, exec>>
      BY <2>4 DEF Register, agent
    <3>2. request' = request \/ (request[r] = "absent" /\ request' = [request EXCEPT ![r] = "ready"])
      BY <2>4 DEF Register, Upserts
    <3>3. QED
      BY <1>1, <3>1, <3>2, EditedInv
  <2>5. ASSUME NEW r \in Resource, Delete(r) PROVE RowInv'
    <3>1. /\ check' = check /\ UNCHANGED <<queue, exec>>
          /\ request' = [request EXCEPT ![r] = "gone"]
      BY <2>5 DEF Delete, agent
    <3>2. QED
      BY <1>1, <3>1, EditedInv
  <2>6. ASSUME NEW r \in Resource, DownloadByHand(r) PROVE RowInv'
    BY <1>1, <2>1, <2>6, Kept DEF DownloadByHand, rows, agent
  <2>7. ASSUME NEW t \in Task, Claim(t) PROVE RowInv'
    BY <1>1, <2>7, ClaimInv
  <2>8. ASSUME NEW t \in Task, NEW ok \in BOOLEAN, Copy(t, ok) PROVE RowInv'
    <3>1. state[t] # "absent" /\ Result(t, ok) /\ exec' = exec
      BY <2>8 DEF Copy, Open, agent
    <3>2. QED
      BY <1>1, <2>1, <3>1, ResultInv
  <2>9. ASSUME NEW e \in Executor,
               \/ Seed(e) \/ TakeMount(e) \/ NoDownloader(e) \/ Fetch(e) \/ FetchEnds(e)
               \/ Activate(e) \/ Inspect(e) \/ Migrate(e)
        PROVE  RowInv'
    BY <1>1, <2>9, AgentInv
  <2>10. ASSUME NEW e \in Executor, Report(e) PROVE RowInv'
    <3>1. /\ exec[e] \in Task /\ state[exec[e]] # "absent"
          /\ exec' = [exec EXCEPT ![e] = None]
      BY <1>1, <2>1, <2>10 DEF Report, RowInv, OnlyTasksRun
    <3>2. PICK ok \in BOOLEAN : Result(exec[e], ok)
      BY <2>10 DEF Report
    <3>3. /\ exec' \in [Executor -> Task \cup {None}]
          /\ \A d \in Executor : exec'[d] # None => exec'[d] = exec[d]
      BY <2>1, <3>1
    <3>4. QED
      BY <1>1, <3>1, <3>2, <3>3, ResultInv
  <2>11. ASSUME NEW e \in Executor, ReportLost(e) PROVE RowInv'
    <3>1. exec' = [exec EXCEPT ![e] = None] /\ UNCHANGED <<request, check, queue>>
      BY <2>11 DEF ReportLost, rows
    <3>2. QED
      BY <1>1, <2>1, <3>1, Kept
  <2>12. CASE Restart
    <3>1. exec' = [e \in Executor |-> None] /\ UNCHANGED <<request, check, queue>>
      BY <2>12 DEF Restart, rows
    <3>2. QED
      BY <1>1, <2>1, <3>1, Kept
  <2>13. CASE OrphanEnds
    BY <1>1, <2>1, <2>13, Kept DEF OrphanEnds, rows, agent
  <2>14. QED
    BY <1>1, <2>2, <2>3, <2>4, <2>5, <2>6, <2>7, <2>8, <2>9, <2>10, <2>11, <2>12, <2>13 DEF Next
<1>2. QED
  BY InitInv, <1>1, PTL DEF Spec

(* A request, a check or a move that a row says is under way is one a task *)
(* will still end: whatever order results, requests, edits and deletions   *)
(* come in, whichever reports are lost and whenever the agent dies.        *)
THEOREM StatusesEnd == Spec => []StatusHasItsTask
<1>1. RowInv => StatusHasItsTask
  BY DEF RowInv
<1>2. QED
  BY Invariant, <1>1, PTL

-----------------------------------------------------------------------------
(* Types.  What a task works on is what its type says, so that executing   *)
(* it writes directories of the right form.                                *)

(* How far an execution is and what runs in the downloader fit the types   *)
(* of their tasks.                                                         *)
Fitting ==
  /\ \A e \in Executor : exec[e] = None => pc[e] = "none"
  /\ \A e \in Executor : pc[e] = "seeded" => kind[exec[e]] \in {"download", "prepare"}
  /\ \A e \in Executor : pc[e] \in {"mounted", "fetching", "fetched"} => kind[exec[e]] = "download"
  /\ orphan # None => state[orphan] # "absent" /\ kind[orphan] = "download"
  /\ \A t \in Task : state[t] # "absent" /\ kind[t] = "download" => arg[t].repo \in Repo

TypeInv == RowInv /\ TypeOK /\ Fitting

(* The rest of TypeOK beside Typed: rows, store and counters. *)
RowsTyped ==
  /\ source \in [Resource -> Place]
  /\ url \in [Resource -> Repo \cup {None}]
  /\ manual \in [Resource -> BOOLEAN]
StoreTyped ==
  /\ mount \in Place \cup {None}
  /\ disk \in [Place -> Content \cup {None, Link}]
CountsTyped == requests \in 0..MaxRequests /\ faults \in 0..MaxFaults /\ excused \in BOOLEAN
AgentTyped == pc \in [Executor -> Step] /\ orphan \in Task \cup {None}

LEMMA TypeOKParts ==
  TypeOK <=> Typed /\ RowsTyped /\ StoreTyped /\ CountsTyped /\ AgentTyped /\ arg \in [Task -> Arg]
BY DEF TypeOK, Typed, RowsTyped, StoreTyped, CountsTyped, AgentTyped

(* The queue keeps what was enqueued.                                      *)
QueueKeeps ==
  /\ arg' \in [Task -> Arg]
  /\ \A v \in Task : state[v] # "absent" =>
       /\ state'[v] # "absent" /\ kind'[v] = kind[v] /\ arg'[v] = arg[v] /\ of'[v] = of[v]
  /\ \A v \in Task : state'[v] # "absent" /\ kind'[v] = "download" => arg'[v].repo \in Repo

(* Executions go on as they were, or end.                                  *)
AgentKeeps ==
  /\ \A e \in Executor : \/ exec'[e] = exec[e] /\ pc'[e] = pc[e]
                         \/ exec'[e] = None /\ pc'[e] = "none"
  /\ orphan' = orphan

LEMMA KeepsFitting ==
  ASSUME TypeInv, QueueKeeps, AgentKeeps
  PROVE  Fitting'
<1>1. ASSUME NEW e \in Executor, exec'[e] # None
      PROVE  /\ exec'[e] = exec[e] /\ pc'[e] = pc[e] /\ kind'[exec[e]] = kind[exec[e]]
             /\ exec[e] # None
  <2>1. exec'[e] = exec[e] /\ pc'[e] = pc[e] /\ exec[e] # None
    BY <1>1 DEF AgentKeeps
  <2>2. exec[e] \in Task /\ state[exec[e]] # "absent"
    BY <2>1 DEF TypeInv, TypeOK, RowInv, OnlyTasksRun
  <2>3. QED
    BY <2>1, <2>2 DEF QueueKeeps
<1>2. ASSUME NEW e \in Executor, exec'[e] = None PROVE pc'[e] = "none"
  BY <1>2 DEF AgentKeeps, TypeInv, Fitting
<1>3. orphan' # None => state'[orphan'] # "absent" /\ kind'[orphan'] = "download"
  BY DEF AgentKeeps, QueueKeeps, TypeInv, TypeOK, Fitting
<1>4. ASSUME NEW e \in Executor, pc'[e] = "seeded" PROVE kind'[exec'[e]] \in {"download", "prepare"}
  <2>1. exec'[e] # None
    BY <1>2, <1>4
  <2>2. QED
    BY <1>1, <1>4, <2>1 DEF TypeInv, Fitting
<1>5. ASSUME NEW e \in Executor, pc'[e] \in {"mounted", "fetching", "fetched"}
      PROVE  kind'[exec'[e]] = "download"
  <2>1. exec'[e] # None
    BY <1>2, <1>5
  <2>2. QED
    BY <1>1, <1>5, <2>1 DEF TypeInv, Fitting
<1>6. QED
  BY <1>2, <1>3, <1>4, <1>5 DEF Fitting, QueueKeeps

(* Enqueuing, alone or after the end of another task.                      *)
LEMMA PostKeeps ==
  ASSUME TypeInv, NEW st, st \in [Task -> State],
         \A v \in Task : state[v] # "absent" <=> st[v] # "absent",
         NEW t \in Task, NEW k \in Kind, NEW r \in Resource, NEW a \in Arg,
         k = "download" => a.repo \in Repo, PostTo(st, t, k, r, a)
  PROVE  QueueKeeps
<1>1. /\ state[t] = "absent" /\ arg' = [arg EXCEPT ![t] = a] /\ kind' = [kind EXCEPT ![t] = k]
      /\ state' = [st EXCEPT ![t] = "pending"] /\ of' = [of EXCEPT ![t] = r]
  BY DEF PostTo, Fresh
<1>2. arg \in [Task -> Arg] /\ kind \in [Task -> Kind] /\ of \in [Task -> Resource \cup {None}]
  BY DEF TypeInv, TypeOK
<1>3. arg' \in [Task -> Arg]
  BY <1>1, <1>2
<1>4. ASSUME NEW v \in Task, v # t
      PROVE  /\ state'[v] = st[v] /\ kind'[v] = kind[v] /\ arg'[v] = arg[v] /\ of'[v] = of[v]
  BY <1>1, <1>2, <1>4
<1>5. kind'[t] = k /\ arg'[t] = a
  BY <1>1, <1>2
<1>6. \A v \in Task : state[v] # "absent" /\ kind[v] = "download" => arg[v].repo \in Repo
  BY DEF TypeInv, Fitting
<1>7. QED
  BY <1>1, <1>3, <1>4, <1>5, <1>6 DEF QueueKeeps

LEMMA StateKeeps ==
  ASSUME TypeInv, UNCHANGED <<kind, of, arg>>,
         \A v \in Task : state[v] # "absent" <=> state'[v] # "absent"
  PROVE  QueueKeeps
BY DEF TypeInv, TypeOK, Fitting, QueueKeeps

LEMMA SettleKeeps ==
  ASSUME TypeInv, NEW t \in Task, state[t] # "absent", NEW ok \in BOOLEAN
  PROVE  /\ Settle(t, ok) \in [Task -> State]
         /\ \A v \in Task : state[v] # "absent" <=> Settle(t, ok)[v] # "absent"
BY DEF TypeInv, TypeOK, Settle, State

LEMMA ArgTyped ==
  /\ \A u \in Repo \cup {None}, p \in Place, m \in BOOLEAN :
       Inspection(u, p, m) \in Arg /\ Inspection(u, p, m).repo = u
  /\ \A p \in Place, m \in BOOLEAN : Move(p, m) \in Arg
  /\ \A u \in Repo : Download(u) \in Arg /\ Download(u).repo = u
BY DEF Inspection, Move, Download, Arg, Place

LEMMA FilesTyped ==
  ASSUME StoreTyped, NEW p \in Place
  PROVE  Files(p) \in Content /\ (disk[p] \notin {None, Link} => disk[p] \in Content)
BY DEF StoreTyped, Files, Empty, Content

LEMMA TypeInvInit == Init => TypeInv
<1> SUFFICES ASSUME Init PROVE TypeInv
  OBVIOUS
<1>1. RowInv
  BY InitInv
<1>2. Typed
  BY <1>1 DEF RowInv
<1>3. RowsTyped /\ StoreTyped /\ AgentTyped /\ arg \in [Task -> Arg]
  BY DEF Init, RowsTyped, StoreTyped, AgentTyped, Place, Content, Stem, Empty, Step, Arg, NoArg
<1>4. CountsTyped
  <2>1. requests = 0 /\ faults = 0 /\ excused = FALSE
    BY DEF Init
  <2>2. requests \in 0..MaxRequests /\ faults \in 0..MaxFaults
    BY <2>1, ResourcesAssumption
  <2>3. QED
    BY <2>1, <2>2 DEF CountsTyped
<1>5. Fitting
  BY DEF Init, Fitting
<1>6. QED
  BY <1>1, <1>2, <1>3, <1>4, <1>5, TypeOKParts DEF TypeInv

(* What is shown of a step.                                                *)
LEMMA TypeInvNext ==
  ASSUME RowInv', RowsTyped', StoreTyped', CountsTyped', AgentTyped', arg' \in [Task -> Arg],
         Fitting'
  PROVE  TypeInv'
<1>1. Typed'
  BY DEF RowInv
<1>2. QED
  BY <1>1 DEF TypeInv, TypeOK, Typed, RowsTyped, StoreTyped, CountsTyped, AgentTyped

LEMMA AskTyped ==
  ASSUME TypeInv, RowInv', RowsTyped', NEW t \in Task, NEW k \in Kind, NEW r \in Resource,
         NEW a \in Arg, NEW el, Ask(t, k, r, a, el), k = "download" => a.repo \in Repo
  PROVE  TypeInv'
<1>1. PostTo(state, t, k, r, a) /\ Asked /\ UNCHANGED <<exec, pc, mount, orphan, disk, faults>>
  BY DEF Ask, agent, store
<1>2. state \in [Task -> State]
  BY DEF TypeInv, TypeOK
<1>3. QueueKeeps
  BY <1>1, <1>2, PostKeeps
<1>4. AgentKeeps
  BY <1>1 DEF AgentKeeps
<1>5. StoreTyped' /\ AgentTyped'
  BY <1>1, TypeOKParts DEF TypeInv, StoreTyped, AgentTyped
<1>6. requests' \in 0..MaxRequests /\ faults' \in 0..MaxFaults
  BY <1>1, ResourcesAssumption DEF TypeInv, TypeOK, Asked
<1>7. excused' \in BOOLEAN
  <2>1. excused' = (excused \/ Crowded \/ el)
    BY DEF Ask
  <2>2. QED
    BY <2>1, Zenon
<1>8. Fitting'
  BY <1>3, <1>4, KeepsFitting
<1>9. QED
  BY <1>3, <1>5, <1>6, <1>7, <1>8, TypeInvNext DEF QueueKeeps, CountsTyped

LEMMA AskedTyped ==
  ASSUME TypeInv, RowInv', NEW r \in Resource, NEW t \in Task,
         \/ \E u \in Repo, byHand \in BOOLEAN : RequestResource(r, u, byHand, t)
         \/ \E u \in Repo \cup {None} : Upload(r, u, t)
         \/ Verify(r, t) \/ FinalizeManual(r, t)
         \/ \E link \in BOOLEAN : MigrateLayout(r, link, t)
  PROVE  TypeInv'
<1>1. /\ source \in [Resource -> Place] /\ url \in [Resource -> Repo \cup {None}]
      /\ manual \in [Resource -> BOOLEAN]
  BY DEF TypeInv, TypeOK
<1>2. {"download", "prepare", "upload", "verify", "migrate"} \subseteq Kind
  BY DEF Kind
<1>3. ASSUME NEW u \in Repo, NEW byHand \in BOOLEAN, RequestResource(r, u, byHand, t)
      PROVE  TypeInv'
  <2>1. RowsTyped'
    BY <1>1, <1>3 DEF RequestResource, RowsTyped
  <2>2. PICK el : Ask(t, IF byHand THEN "prepare" ELSE "download", r, Download(u), el)
    BY <1>3 DEF RequestResource
  <2>3. Download(u) \in Arg /\ Download(u).repo = u
    BY ArgTyped
  <2>4. CASE byHand
    <3>1. Ask(t, "prepare", r, Download(u), el)
      BY <2>2, <2>4
    <3>2. QED
      BY <1>2, <2>1, <2>3, <3>1, AskTyped
  <2>5. CASE ~byHand
    <3>1. Ask(t, "download", r, Download(u), el)
      BY <2>2, <2>5
    <3>2. QED
      BY <1>2, <2>1, <2>3, <3>1, AskTyped
  <2>6. QED
    BY <2>4, <2>5
<1>4. ASSUME NEW u \in Repo \cup {None}, Upload(r, u, t) PROVE TypeInv'
  <2>1. RowsTyped'
    BY <1>1, <1>4 DEF Upload, RowsTyped, Place
  <2>2. PICK el : Ask(t, "upload", r, Inspection(u, r, FALSE), el)
    BY <1>4 DEF Upload
  <2>3. Inspection(u, r, FALSE) \in Arg
    BY ArgTyped DEF Place
  <2>4. QED
    BY <1>2, <2>1, <2>2, <2>3, AskTyped
<1>5. ASSUME Verify(r, t) \/ FinalizeManual(r, t) PROVE TypeInv'
  <2>1. RowsTyped'
    BY <1>1, <1>5 DEF Verify, FinalizeManual, RowsTyped
  <2>2. PICK m \in BOOLEAN : Ask(t, "verify", r, Inspection(url[r], source[r], m), FALSE)
    BY <1>5 DEF Verify, FinalizeManual
  <2>3. Inspection(url[r], source[r], m) \in Arg
    BY <1>1, ArgTyped
  <2>4. QED
    BY <1>2, <2>1, <2>2, <2>3, AskTyped
<1>6. ASSUME NEW link \in BOOLEAN, MigrateLayout(r, link, t) PROVE TypeInv'
  <2>1. RowsTyped'
    BY <1>1, <1>6 DEF MigrateLayout, RowsTyped
  <2>2. PICK el : Ask(t, "migrate", r, Move(source[r], link), el)
    BY <1>6 DEF MigrateLayout
  <2>3. Move(source[r], link) \in Arg
    BY <1>1, ArgTyped
  <2>4. QED
    BY <1>2, <2>1, <2>2, <2>3, AskTyped
<1>7. QED
  BY <1>3, <1>4, <1>5, <1>6

(* What a result writes.                                                   *)
LEMMA FollowedKeeps ==
  ASSUME TypeInv, NEW t \in Task, state[t] # "absent", NEW k \in Kind, k # "download",
         NEW a \in Arg, FollowedBy(t, k, a)
  PROVE  QueueKeeps
<1>1. of[t] \in Resource
  BY DEF TypeInv, RowInv, TasksHaveRows
<1>2. CASE Live(of[t])
  <2>1. PICK n \in Task : PostTo(Settle(t, TRUE), n, k, of[t], a)
    BY <1>2 DEF FollowedBy
  <2>2. /\ Settle(t, TRUE) \in [Task -> State]
        /\ \A v \in Task : state[v] # "absent" <=> Settle(t, TRUE)[v] # "absent"
    BY SettleKeeps
  <2>3. QED
    BY <1>1, <2>1, <2>2, PostKeeps
<1>3. CASE ~Live(of[t])
  <2>1. Only(t, TRUE)
    BY <1>3 DEF FollowedBy
  <2>2. QED
    BY <2>1, SettleKeeps, StateKeeps DEF Only
<1>4. QED
  BY <1>2, <1>3

LEMMA SetTyped ==
  ASSUME NEW S, NEW f \in [Resource -> S], NEW r \in Resource, NEW v \in S
  PROVE  Set(f, r, v) \in [Resource -> S]
BY DEF Set

LEMMA ResultTyped ==
  ASSUME TypeInv, NEW t \in Task, state[t] # "absent", NEW ok \in BOOLEAN, Result(t, ok)
  PROVE  QueueKeeps /\ RowsTyped'
<1>1. /\ source \in [Resource -> Place] /\ url \in [Resource -> Repo \cup {None}]
      /\ manual \in [Resource -> BOOLEAN] /\ arg[t] \in Arg /\ of[t] \in Resource
  BY DEF TypeInv, TypeOK, RowInv, TasksHaveRows
<1>2. \A b \in BOOLEAN : Set(manual, of[t], b) \in [Resource -> BOOLEAN]
  BY <1>1, SetTyped
<1>3. {"verify", "migrate"} \subseteq Kind
  BY DEF Kind
<1>4. arg[t].repo \in Repo \cup {None} /\ arg[t].to \in Place
  BY <1>1 DEF Arg
<1>5. CASE Failed(t)
  <2>1. QueueKeeps
    <3>1. Only(t, FALSE)
      BY <1>5 DEF Failed
    <3>2. QED
      BY <3>1, SettleKeeps, StateKeeps DEF Only
  <2>2. RowsTyped'
    BY <1>1, <1>2, <1>5 DEF Failed, RowsTyped
  <2>3. QED
    BY <2>1, <2>2
<1>6. CASE Downloaded(t)
  <2>1. QueueKeeps
    <3>1. Inspection(arg[t].repo, arg[t].to, FALSE) \in Arg
      BY <1>4, ArgTyped
    <3>2. FollowedBy(t, "verify", Inspection(arg[t].repo, arg[t].to, FALSE))
      BY <1>6 DEF Downloaded
    <3>3. QED
      BY <1>3, <3>1, <3>2, FollowedKeeps
  <2>2. RowsTyped'
    BY <1>1, <1>2, <1>6 DEF Downloaded, RowsTyped
  <2>3. QED
    BY <2>1, <2>2
<1>7. CASE Prepared(t) \/ Verified(t)
  <2>1. QueueKeeps
    <3>1. Only(t, TRUE)
      BY <1>7 DEF Prepared, Verified
    <3>2. QED
      BY <3>1, SettleKeeps, StateKeeps DEF Only
  <2>2. RowsTyped'
    BY <1>1, <1>2, <1>7 DEF Prepared, Verified, RowsTyped
  <2>3. QED
    BY <2>1, <2>2
<1>8. CASE Migrated(t)
  <2>1. QueueKeeps
    <3>1. Inspection(url[of[t]], arg[t].to, FALSE) \in Arg
      BY <1>1, <1>4, ArgTyped
    <3>2. FollowedBy(t, "verify", Inspection(url[of[t]], arg[t].to, FALSE))
      BY <1>8 DEF Migrated
    <3>3. QED
      BY <1>3, <3>1, <3>2, FollowedKeeps
  <2>2. RowsTyped'
    <3>1. Set(source, of[t], arg[t].to) \in [Resource -> Place]
      BY <1>1, <1>4, SetTyped
    <3>2. QED
      BY <1>1, <1>2, <1>8, <3>1 DEF Migrated, RowsTyped
  <2>3. QED
    BY <2>1, <2>2
<1>9. CASE Uploaded(t)
  <2>1. QueueKeeps
    <3>1. Move(of[t], FALSE) \in Arg
      BY <1>1, ArgTyped DEF Place
    <3>2. FollowedBy(t, "migrate", Move(of[t], FALSE))
      BY <1>9 DEF Uploaded
    <3>3. QED
      BY <1>3, <3>1, <3>2, FollowedKeeps
  <2>2. RowsTyped'
    BY <1>1, <1>9 DEF Uploaded, RowsTyped
  <2>3. QED
    BY <2>1, <2>2
<1>10. QED
  BY <1>5, <1>6, <1>7, <1>8, <1>9 DEF Result

(* An execution goes on: what is said of its type is still so.             *)
LEMMA GoesTyped ==
  ASSUME TypeInv, RowInv', NEW e \in Executor, NEW s \in Step, Goes(e, s),
         UNCHANGED <<rows, queue, exec, orphan, requests, excused>>,
         exec[e] # None,
         s = "seeded" => kind[exec[e]] \in {"download", "prepare"},
         s \in {"mounted", "fetching", "fetched"} => kind[exec[e]] = "download",
         faults' \in 0..MaxFaults, StoreTyped'
  PROVE  TypeInv'
<1>1. pc \in [Executor -> Step]
  BY DEF TypeInv, TypeOK
<1>2. pc' = [pc EXCEPT ![e] = s]
  BY DEF Goes
<1>3. Fitting'
  BY <1>1, <1>2 DEF TypeInv, Fitting, queue
<1>4. AgentTyped'
  BY <1>1, <1>2 DEF TypeInv, TypeOK, AgentTyped
<1>5. RowsTyped' /\ arg' \in [Task -> Arg]
  BY TypeOKParts DEF TypeInv, RowsTyped, rows, queue
<1>6. CountsTyped'
  <2>1. requests' \in 0..MaxRequests /\ excused' \in BOOLEAN
    BY TypeOKParts, Zenon DEF TypeInv, CountsTyped
  <2>2. QED
    BY <2>1 DEF CountsTyped
<1>7. QED
  BY <1>3, <1>4, <1>5, <1>6, TypeInvNext

LEMMA ExecutorTyped ==
  ASSUME TypeInv, NEW e \in Executor, exec[e] # None
  PROVE  exec[e] \in Task /\ of[exec[e]] \in Resource /\ arg[exec[e]] \in Arg
BY DEF TypeInv, TypeOK, RowInv, TasksHaveRows, OnlyTasksRun

LEMMA BusyTyped ==
  ASSUME TypeInv, NEW e \in Executor, pc[e] # "none"
  PROVE  exec[e] # None
BY DEF TypeInv, Fitting

LEMMA FaultTyped ==
  ASSUME TypeInv, Fault
  PROVE  faults' \in 0..MaxFaults
BY ResourcesAssumption DEF TypeInv, TypeOK, Fault

(* One directory is written.                                               *)
LEMMA WriteTyped ==
  ASSUME NEW d \in [Place -> Content \cup {None, Link}], NEW p, NEW c,
         p \in Place => c \in Content \cup {None, Link}
  PROVE  [d EXCEPT ![p] = c] \in [Place -> Content \cup {None, Link}]
OBVIOUS

LEMMA FilledTyped ==
  ASSUME TypeInv, NEW t \in Task, arg[t].repo \in Repo, NEW ok \in BOOLEAN
  PROVE  mount \in Place => Filled(t, ok) \in Content
<1>1. SUFFICES ASSUME mount \in Place PROVE Filled(t, ok) \in Content
  OBVIOUS
<1>2. Files(mount) \in Content
  BY <1>1, FilesTyped, TypeOKParts DEF TypeInv
<1>3. QED
  BY <1>2 DEF Filled, Content, Stem

LEMMA AgentStepTyped ==
  ASSUME TypeInv, RowInv', NEW e \in Executor,
         \/ Seed(e) \/ TakeMount(e) \/ NoDownloader(e) \/ Fetch(e) \/ FetchEnds(e)
         \/ Activate(e) \/ Inspect(e) \/ Migrate(e)
  PROVE  TypeInv'
<1> DEFINE t == exec[e]
           r == of[t]
<1>1. StoreTyped /\ faults \in 0..MaxFaults
  BY TypeOKParts DEF TypeInv, TypeOK
<1>2. disk \in [Place -> Content \cup {None, Link}] /\ mount \in Place \cup {None}
  BY <1>1 DEF StoreTyped
<1>3. {"seeded", "mounted", "fetching", "fetched", "ok", "error"} \subseteq Step
  BY DEF Step
<1>4. Layout \in Place /\ Resource \subseteq Place
  BY DEF Place
<1>5. ASSUME exec[e] # None PROVE t \in Task /\ r \in Resource /\ r \in Place /\ arg[t] \in Arg
  BY <1>4, <1>5, ExecutorTyped
<1>6. \A p \in Place : Files(p) \in Content
  BY <1>1, FilesTyped
<1>7. Empty \in Content
  BY DEF Empty, Content
<1>8. CASE Seed(e)
  <2>1. exec[e] # None /\ kind[exec[e]] \in {"download", "prepare"}
    BY <1>8 DEF Seed, Doing
  <2>2. disk' \in [Place -> Content \cup {None, Link}]
    <3>1. Seeded(r) \in [Place -> Content \cup {None, Link}]
      BY <1>2, <1>4, <1>5, <1>6, <1>7, <2>1, WriteTyped DEF Seeded
    <3>2. [disk EXCEPT ![Layout] = Files(Layout)] \in [Place -> Content \cup {None, Link}]
      BY <1>2, <1>4, <1>6, WriteTyped
    <3>3. QED
      BY <1>8, <3>1, <3>2 DEF Seed
  <2>3. StoreTyped' /\ faults' \in 0..MaxFaults /\ Goes(e, "seeded")
    BY <1>1, <1>2, <1>8, <2>2 DEF Seed, StoreTyped
  <2>4. UNCHANGED <<rows, queue, exec, orphan, requests, excused>>
    BY <1>8 DEF Seed
  <2>5. QED
    BY <1>3, <2>1, <2>3, <2>4, GoesTyped
<1>9. CASE TakeMount(e)
  <2>1. exec[e] # None /\ kind[exec[e]] \in {"download", "prepare"}
    BY <1>9, BusyTyped DEF TakeMount, TypeInv, Fitting
  <2>2. mount' \in Place
    BY <1>4, <1>5, <1>9, <2>1 DEF TakeMount, Staging
  <2>3. [Files(Layout) EXCEPT !.mark = r] \in Content
    BY <1>4, <1>5, <1>6, <2>1 DEF Content
  <2>4. disk' \in [Place -> Content \cup {None, Link}]
    BY <1>2, <1>9, <2>3, WriteTyped DEF TakeMount
  <2>5. PICK s \in {"mounted", "ok"} : Goes(e, s) /\ (s = "mounted" => kind[exec[e]] = "download")
    BY <1>9 DEF TakeMount
  <2>6. StoreTyped' /\ faults' \in 0..MaxFaults
    BY <1>1, <1>9, <2>2, <2>4 DEF TakeMount, StoreTyped
  <2>7. UNCHANGED <<rows, queue, exec, orphan, requests, excused>>
    BY <1>9 DEF TakeMount
  <2>8. QED
    BY <1>3, <2>1, <2>5, <2>6, <2>7, GoesTyped
<1>10. CASE NoDownloader(e)
  <2>1. exec[e] # None
    BY <1>10, BusyTyped DEF NoDownloader
  <2>2. StoreTyped' /\ faults' \in 0..MaxFaults /\ Goes(e, "error")
    BY <1>1, <1>10, FaultTyped DEF NoDownloader, StoreTyped, store
  <2>3. UNCHANGED <<rows, queue, exec, orphan, requests, excused>>
    BY <1>10 DEF NoDownloader, store
  <2>4. QED
    BY <1>3, <2>1, <2>2, <2>3, GoesTyped
<1>11. CASE Fetch(e)
  <2>1. exec[e] # None /\ kind[exec[e]] = "download"
    BY <1>11 DEF Fetch, Doing
  <2>2. mount \in Place => [Marked(r) EXCEPT !.whole = FALSE] \in Content
    <3>1. SUFFICES ASSUME mount \in Place PROVE [Marked(r) EXCEPT !.whole = FALSE] \in Content
      OBVIOUS
    <3>2. Files(mount) \in Content
      BY <1>6, <3>1
    <3>3. Marked(r) \in Content
      BY <1>5, <1>7, <2>1, <3>2 DEF Marked, Content
    <3>4. QED
      BY <3>3 DEF Content
  <2>3. disk' \in [Place -> Content \cup {None, Link}]
    BY <1>2, <1>11, <2>2, WriteTyped DEF Fetch
  <2>4. StoreTyped' /\ faults' \in 0..MaxFaults /\ Goes(e, "fetching")
    BY <1>1, <1>11, <2>3 DEF Fetch, StoreTyped
  <2>5. UNCHANGED <<rows, queue, exec, orphan, requests, excused>>
    BY <1>11 DEF Fetch
  <2>6. QED
    BY <1>3, <2>1, <2>4, <2>5, GoesTyped
<1>12. CASE FetchEnds(e)
  <2>1. exec[e] # None /\ kind[exec[e]] = "download"
    BY <1>12 DEF FetchEnds, Doing
  <2>2. arg[t].repo \in Repo
    BY <1>5, <2>1 DEF TypeInv, Fitting, RowInv, OnlyTasksRun
  <2>3. \A ok \in BOOLEAN : mount \in Place => Filled(t, ok) \in Content
    BY <1>5, <2>1, <2>2, FilledTyped
  <2>4. disk' \in [Place -> Content \cup {None, Link}]
    <3>1. PICK ok \in BOOLEAN : disk' = [disk EXCEPT ![mount] = Filled(t, ok)]
      BY <1>12 DEF FetchEnds
    <3>2. QED
      BY <1>2, <2>3, <3>1, WriteTyped
  <2>5. PICK s \in {"fetched", "error"} : Goes(e, s)
    BY <1>12 DEF FetchEnds
  <2>6. StoreTyped' /\ faults' \in 0..MaxFaults
    <3>1. mount' = mount /\ faults' \in 0..MaxFaults
      BY <1>1, <1>12, FaultTyped DEF FetchEnds
    <3>2. QED
      BY <1>2, <2>4, <3>1 DEF StoreTyped
  <2>7. UNCHANGED <<rows, queue, exec, orphan, requests, excused>>
    BY <1>12 DEF FetchEnds
  <2>8. QED
    BY <1>3, <2>1, <2>5, <2>6, <2>7, GoesTyped
<1>13. CASE Activate(e)
  <2>1. exec[e] # None
    BY <1>13 DEF Activate, Doing
  <2>2. disk' \in [Place -> Content \cup {None, Link}]
    BY <1>2, <1>5, <1>7, <1>13, <2>1, WriteTyped DEF Activate
  <2>3. PICK s \in {"ok", "error"} : Goes(e, s)
    BY <1>13 DEF Activate
  <2>4. StoreTyped' /\ faults' \in 0..MaxFaults
    BY <1>1, <1>2, <1>5, <1>13, <2>1, <2>2 DEF Activate, StoreTyped
  <2>5. UNCHANGED <<rows, queue, exec, orphan, requests, excused>>
    BY <1>13 DEF Activate
  <2>6. QED
    BY <1>3, <2>1, <2>3, <2>4, <2>5, GoesTyped
<1>14. CASE Inspect(e)
  <2>1. exec[e] # None
    BY <1>14 DEF Inspect, Doing
  <2>2. PICK s \in {"ok", "error"} : Goes(e, s)
    BY <1>14 DEF Inspect
  <2>3. StoreTyped' /\ faults' \in 0..MaxFaults
    BY <1>1, <1>14 DEF Inspect, StoreTyped, store
  <2>4. UNCHANGED <<rows, queue, exec, orphan, requests, excused>>
    BY <1>14 DEF Inspect, store
  <2>5. QED
    BY <1>3, <2>1, <2>2, <2>3, <2>4, GoesTyped
<1>15. CASE Migrate(e)
  <2>1. exec[e] # None
    BY <1>15 DEF Migrate, Doing
  <2>2. PICK s \in {"ok", "error"} : Goes(e, s)
    BY <1>15 DEF Migrate
  <2>3. arg[t].from \in Place /\ arg[t].to \in Place
    BY <1>5, <2>1 DEF Arg
  <2>4. StoreTyped'
    <3>1. CASE UNCHANGED <<disk, mount>>
      BY <1>1, <3>1 DEF StoreTyped
    <3>2. CASE ~UNCHANGED <<disk, mount>>
      <4>1. /\ mount' = IF mount = arg[t].from THEN arg[t].to ELSE mount
            /\ disk' = [disk EXCEPT ![arg[t].to] = disk[arg[t].from],
                                    ![arg[t].from] = IF arg[t].flag THEN Link ELSE None]
        BY <1>15, <3>2 DEF Migrate
      <4>2. disk' \in [Place -> Content \cup {None, Link}]
        BY <1>2, <2>3, <4>1, WriteTyped
      <4>3. QED
        BY <1>2, <2>3, <4>1, <4>2 DEF StoreTyped
    <3>3. QED
      BY <3>1, <3>2
  <2>5. faults' \in 0..MaxFaults /\ UNCHANGED <<rows, queue, exec, orphan, requests, excused>>
    BY <1>1, <1>15 DEF Migrate
  <2>6. QED
    BY <1>3, <2>1, <2>2, <2>4, <2>5, GoesTyped
<1>16. QED
  BY <1>8, <1>9, <1>10, <1>11, <1>12, <1>13, <1>14, <1>15

(* Executions end and nothing is enqueued or settled.                      *)
LEMMA EndTyped ==
  ASSUME TypeInv, RowInv', UNCHANGED <<rows, queue, requests, excused>>, AgentKeeps,
         AgentTyped', faults' \in 0..MaxFaults, StoreTyped'
  PROVE  TypeInv'
<1>1. QueueKeeps
  BY StateKeeps DEF queue
<1>2. Fitting'
  BY <1>1, KeepsFitting
<1>3. RowsTyped' /\ arg' \in [Task -> Arg]
  BY TypeOKParts DEF TypeInv, RowsTyped, rows, queue
<1>4. CountsTyped'
  <2>1. requests' \in 0..MaxRequests /\ excused' \in BOOLEAN
    BY TypeOKParts, Zenon DEF TypeInv, CountsTyped
  <2>2. QED
    BY <2>1 DEF CountsTyped
<1>5. QED
  BY <1>2, <1>3, <1>4, TypeInvNext

LEMMA ClaimTyped ==
  ASSUME TypeInv, RowInv', NEW t \in Task, Claim(t)
  PROVE  TypeInv'
<1>1. PICK e \in Executor : exec' = [exec EXCEPT ![e] = t] /\ pc' = [pc EXCEPT ![e] = "begun"]
  BY DEF Claim, Executor
<1>2. /\ state' = [state EXCEPT ![t] = "claimed"] /\ state[t] # "absent"
      /\ UNCHANGED <<rows, kind, of, arg, store, requests>>
      /\ faults' = faults \/ Fault
  BY DEF Claim, Offered, Open
<1>3. /\ state \in [Task -> State] /\ exec \in [Executor -> Task \cup {None}]
      /\ pc \in [Executor -> Step] /\ faults \in 0..MaxFaults /\ t # None
  BY ResourcesAssumption DEF TypeInv, TypeOK
<1>4. QueueKeeps
  BY <1>2, <1>3, StateKeeps
<1>5. Fitting'
  <2>1. \A d \in Executor : exec'[d] = None => pc'[d] = "none"
    BY <1>1, <1>3 DEF TypeInv, Fitting
  <2>2. ASSUME NEW d \in Executor, pc'[d] \in {"seeded", "mounted", "fetching", "fetched"}
        PROVE  d # e /\ exec'[d] = exec[d] /\ pc'[d] = pc[d]
    BY <1>1, <1>3, <2>2
  <2>3. /\ \A d \in Executor : pc'[d] = "seeded" => kind'[exec'[d]] \in {"download", "prepare"}
        /\ \A d \in Executor : pc'[d] \in {"mounted", "fetching", "fetched"} =>
             kind'[exec'[d]] = "download"
    BY <1>2, <2>2 DEF TypeInv, Fitting
  <2>4. orphan' # None => state'[orphan'] # "absent" /\ kind'[orphan'] = "download"
    BY <1>2, <1>3 DEF TypeInv, TypeOK, Fitting, store
  <2>5. QED
    BY <1>4, <2>1, <2>3, <2>4 DEF Fitting, QueueKeeps
<1>6. AgentTyped'
  BY <1>1, <1>2, <1>3 DEF TypeInv, TypeOK, AgentTyped, Step, store
<1>7. RowsTyped' /\ StoreTyped'
  BY <1>2, TypeOKParts DEF TypeInv, RowsTyped, StoreTyped, rows, store
<1>8. CountsTyped'
  <2>1. requests' \in 0..MaxRequests /\ faults' \in 0..MaxFaults
    BY <1>2, <1>3, FaultTyped DEF TypeInv, TypeOK
  <2>2. excused' = (excused \/ state[t] = "claimed")
    BY DEF Claim
  <2>3. excused' \in BOOLEAN
    BY <2>2, Zenon
  <2>4. QED
    BY <2>1, <2>3 DEF CountsTyped
<1>9. QED
  BY <1>4, <1>5, <1>6, <1>7, <1>8, TypeInvNext DEF QueueKeeps

LEMMA CopyTyped ==
  ASSUME TypeInv, RowInv', NEW t \in Task, NEW ok \in BOOLEAN, Copy(t, ok)
  PROVE  TypeInv'
<1>1. state[t] # "absent" /\ Result(t, ok) /\ UNCHANGED <<agent, mount, orphan, requests, excused>>
  BY DEF Copy, Open
<1>2. QueueKeeps /\ RowsTyped'
  BY <1>1, ResultTyped
<1>3. AgentKeeps /\ AgentTyped'
  BY <1>1, TypeOKParts DEF AgentKeeps, AgentTyped, TypeInv, agent
<1>4. Fitting'
  BY <1>2, <1>3, KeepsFitting
<1>5. StoreTyped'
  <2>1. of[t] \in Place /\ arg[t].repo \in Repo \cup {None} /\ Files(of[t]) \in Content
    BY <1>1, FilesTyped, TypeOKParts DEF TypeInv, RowInv, TasksHaveRows, Place, Arg
  <2>2. [Files(of[t]) EXCEPT !.files = IF arg[t].repo = None THEN {Own} ELSE {arg[t].repo},
                             !.whole = ok] \in Content
    BY <2>1 DEF Content, Stem
  <2>3. disk' = [disk EXCEPT ![of[t]] =
                   [Files(of[t]) EXCEPT !.files = IF arg[t].repo = None THEN {Own} ELSE {arg[t].repo},
                                        !.whole = ok]]
    BY DEF Copy
  <2>4. QED
    BY <1>1, <2>2, <2>3, WriteTyped, TypeOKParts DEF TypeInv, StoreTyped
<1>6. CountsTyped'
  <2>1. requests' \in 0..MaxRequests /\ excused' \in BOOLEAN
    BY <1>1, TypeOKParts, Zenon DEF TypeInv, CountsTyped
  <2>2. faults' \in 0..MaxFaults
    BY ResourcesAssumption DEF Copy, TypeInv, TypeOK
  <2>3. QED
    BY <2>1, <2>2 DEF CountsTyped
<1>7. QED
  BY <1>2, <1>3, <1>4, <1>5, <1>6, TypeInvNext DEF QueueKeeps

LEMMA ReportTyped ==
  ASSUME TypeInv, RowInv', NEW e \in Executor, Report(e)
  PROVE  TypeInv'
<1>1. PICK ok \in BOOLEAN : Result(exec[e], ok)
  BY DEF Report
<1>2. exec[e] \in Task /\ state[exec[e]] # "absent"
  BY ExecutorTyped DEF Report, TypeInv, RowInv, OnlyTasksRun
<1>3. QueueKeeps /\ RowsTyped'
  BY <1>1, <1>2, ResultTyped
<1>4. /\ exec' = [exec EXCEPT ![e] = None] /\ pc' = [pc EXCEPT ![e] = "none"]
      /\ UNCHANGED <<store, requests, faults, excused>>
  BY DEF Report, Goes
<1>5. AgentKeeps /\ AgentTyped'
  BY <1>4 DEF AgentKeeps, AgentTyped, TypeInv, TypeOK, Step, store
<1>6. Fitting'
  BY <1>3, <1>5, KeepsFitting
<1>7. StoreTyped' /\ CountsTyped'
  <2>1. StoreTyped' /\ requests' \in 0..MaxRequests /\ faults' \in 0..MaxFaults
    BY <1>4, TypeOKParts DEF TypeInv, StoreTyped, CountsTyped, store
  <2>2. excused' \in BOOLEAN
    BY <1>4, TypeOKParts, Zenon DEF TypeInv, CountsTyped
  <2>3. QED
    BY <2>1, <2>2 DEF CountsTyped
<1>8. QED
  BY <1>3, <1>5, <1>6, <1>7, TypeInvNext DEF QueueKeeps

(* What is still running in the downloader is a download.                  *)
LEMMA RestartTyped ==
  ASSUME TypeInv, RowInv', Restart
  PROVE  TypeInv'
<1>1. /\ exec' = [e \in Executor |-> None] /\ pc' = [e \in Executor |-> "none"]
      /\ UNCHANGED <<rows, queue, mount, disk, requests, excused>> /\ Fault
  BY DEF Restart
<1>2. \/ orphan' = orphan
      \/ \E e \in Executor : pc[e] = "fetching" /\ orphan' = exec[e]
  <2>1. CASE \E e \in Executor : pc[e] = "fetching"
    <3>1. PICK e \in Executor : pc[e] = "fetching" /\ e = CHOOSE d \in Executor : pc[d] = "fetching"
      BY <2>1
    <3>2. QED
      BY <2>1, <3>1 DEF Restart
  <2>2. CASE ~\E e \in Executor : pc[e] = "fetching"
    BY <2>2 DEF Restart
  <2>3. QED
    BY <2>1, <2>2
<1>3. orphan' # None => orphan' \in Task /\ state[orphan'] # "absent" /\ kind[orphan'] = "download"
  <2>1. CASE orphan' = orphan
    BY <2>1 DEF TypeInv, TypeOK, Fitting
  <2>2. ASSUME NEW e \in Executor, pc[e] = "fetching", orphan' = exec[e]
        PROVE  orphan' \in Task /\ state[orphan'] # "absent" /\ kind[orphan'] = "download"
    BY <2>2, BusyTyped, ExecutorTyped DEF TypeInv, Fitting, RowInv, OnlyTasksRun
  <2>3. QED
    BY <1>2, <2>1, <2>2
<1>4. AgentTyped'
  BY <1>1, <1>3 DEF AgentTyped, Step
<1>5. Fitting'
  BY <1>1, <1>3 DEF Fitting, TypeInv, queue
<1>6. RowsTyped' /\ StoreTyped' /\ arg' \in [Task -> Arg]
  BY <1>1, TypeOKParts DEF TypeInv, RowsTyped, StoreTyped, rows, queue
<1>7. CountsTyped'
  <2>1. requests' \in 0..MaxRequests /\ excused' \in BOOLEAN
    BY <1>1, TypeOKParts, Zenon DEF TypeInv, CountsTyped
  <2>2. faults' \in 0..MaxFaults
    BY <1>1, FaultTyped
  <2>3. QED
    BY <2>1, <2>2 DEF CountsTyped
<1>8. QED
  BY <1>4, <1>5, <1>6, <1>7, TypeInvNext

(* A row is entered, edited or deleted, or files arrive.                   *)
LEMMA EditedTyped ==
  ASSUME TypeInv, RowInv', UNCHANGED <<queue, agent, mount, orphan, faults>>,
         RowsTyped', StoreTyped', requests' \in 0..MaxRequests, excused' \in BOOLEAN
  PROVE  TypeInv'
<1>1. QueueKeeps
  BY StateKeeps DEF queue
<1>2. AgentKeeps /\ AgentTyped'
  BY TypeOKParts DEF AgentKeeps, AgentTyped, TypeInv, agent
<1>3. Fitting'
  BY <1>1, <1>2, KeepsFitting
<1>4. CountsTyped'
  BY TypeOKParts DEF TypeInv, CountsTyped
<1>5. QED
  BY <1>1, <1>2, <1>3, <1>4, TypeInvNext DEF QueueKeeps

LEMMA TypeInvStep == TypeInv /\ [Next]_vars /\ RowInv' => TypeInv'
<1> SUFFICES ASSUME TypeInv, [Next]_vars, RowInv' PROVE TypeInv'
  OBVIOUS
<1>0. /\ StoreTyped /\ RowsTyped /\ AgentTyped
      /\ disk \in [Place -> Content \cup {None, Link}] /\ mount \in Place \cup {None}
      /\ requests \in 0..MaxRequests /\ faults \in 0..MaxFaults
  BY TypeOKParts DEF TypeInv, StoreTyped, CountsTyped
<1>1. excused \in BOOLEAN
  BY TypeOKParts DEF TypeInv, CountsTyped
<1>2. CASE UNCHANGED vars
  <2>1. UNCHANGED <<rows, queue, agent, mount, orphan, requests, faults, excused>> /\ UNCHANGED disk
    BY <1>2 DEF vars, store
  <2>2. RowsTyped' /\ StoreTyped'
    BY <1>0, <2>1 DEF RowsTyped, StoreTyped, rows
  <2>3. excused' \in BOOLEAN
    BY <1>1, <2>1, Zenon
  <2>4. QED
    BY <1>0, <2>1, <2>2, <2>3, EditedTyped
<1>3. ASSUME NEW r \in Resource, NEW t \in Task,
             \/ \E u \in Repo, byHand \in BOOLEAN : RequestResource(r, u, byHand, t)
             \/ \E u \in Repo \cup {None} : Upload(r, u, t)
             \/ Verify(r, t) \/ FinalizeManual(r, t)
             \/ \E link \in BOOLEAN : MigrateLayout(r, link, t)
      PROVE  TypeInv'
  BY <1>3, AskedTyped
<1>4. ASSUME NEW r \in Resource, NEW p \in {Layout, Legacy}, Register(r, p) PROVE TypeInv'
  <2>1. UNCHANGED <<queue, agent, mount, orphan, faults, disk, url, manual>> /\ Asked
        /\ source' = [source EXCEPT ![r] = p]
        /\ excused' = (excused \/ (Live(r) /\ source[r] # p) \/ Crowded)
    BY <1>4 DEF Register, store
  <2>2. RowsTyped' /\ StoreTyped'
    BY <1>0, <2>1 DEF RowsTyped, StoreTyped, Place
  <2>3. requests' \in 0..MaxRequests
    BY <1>0, <2>1, ResourcesAssumption DEF Asked
  <2>4. excused' \in BOOLEAN
    BY <2>1, Zenon
  <2>5. QED
    BY <2>1, <2>2, <2>3, <2>4, EditedTyped
<1>5. ASSUME NEW r \in Resource, Delete(r) PROVE TypeInv'
  <2>1. UNCHANGED <<queue, agent, mount, orphan, faults, disk, source, url, manual>> /\ Asked
        /\ excused' = (excused \/ Crowded)
    BY <1>5 DEF Delete, store
  <2>2. RowsTyped' /\ StoreTyped'
    BY <1>0, <2>1 DEF RowsTyped, StoreTyped
  <2>3. requests' \in 0..MaxRequests
    BY <1>0, <2>1, ResourcesAssumption DEF Asked
  <2>4. excused' \in BOOLEAN
    BY <2>1, Zenon
  <2>5. QED
    BY <2>1, <2>2, <2>3, <2>4, EditedTyped
<1>6. ASSUME NEW r \in Resource, DownloadByHand(r) PROVE TypeInv'
  <2>1. /\ UNCHANGED <<rows, queue, agent, mount, orphan, requests, faults, excused>>
        /\ disk' = [disk EXCEPT ![Layout].files = {url[r]}] /\ url[r] # None
        /\ Files(Layout).mark = r
    BY <1>6 DEF DownloadByHand
  <2>2. disk[Layout] \in Content
    <3>1. disk[Layout] \notin {None, Link}
      BY <2>1, ResourcesAssumption DEF Files, Empty
    <3>2. QED
      BY <1>0, <3>1 DEF Place
  <2>3. [disk[Layout] EXCEPT !.files = {url[r]}] \in Content
    BY <1>0, <2>1, <2>2 DEF RowsTyped, Content, Stem
  <2>4. RowsTyped' /\ StoreTyped'
    <3>1. disk' = [disk EXCEPT ![Layout] = [disk[Layout] EXCEPT !.files = {url[r]}]]
      BY <1>0, <2>1 DEF Place
    <3>2. disk' \in [Place -> Content \cup {None, Link}]
      BY <1>0, <2>3, <3>1, WriteTyped
    <3>3. QED
      BY <1>0, <2>1, <3>2 DEF RowsTyped, StoreTyped, rows
  <2>5. excused' \in BOOLEAN
    BY <1>1, <2>1, Zenon
  <2>6. QED
    BY <1>0, <2>1, <2>4, <2>5, EditedTyped
<1>7. ASSUME NEW t \in Task, Claim(t) PROVE TypeInv'
  BY <1>7, ClaimTyped
<1>8. ASSUME NEW t \in Task, NEW ok \in BOOLEAN, Copy(t, ok) PROVE TypeInv'
  BY <1>8, CopyTyped
<1>9. ASSUME NEW e \in Executor,
             \/ Seed(e) \/ TakeMount(e) \/ NoDownloader(e) \/ Fetch(e) \/ FetchEnds(e)
             \/ Activate(e) \/ Inspect(e) \/ Migrate(e)
      PROVE  TypeInv'
  BY <1>9, AgentStepTyped
<1>10. ASSUME NEW e \in Executor, Report(e) PROVE TypeInv'
  BY <1>10, ReportTyped
<1>11. ASSUME NEW e \in Executor, ReportLost(e) PROVE TypeInv'
  <2>1. /\ exec' = [exec EXCEPT ![e] = None] /\ pc' = [pc EXCEPT ![e] = "none"] /\ Fault
        /\ UNCHANGED <<rows, queue, store, requests, excused>>
    BY <1>11 DEF ReportLost, Goes
  <2>2. AgentKeeps /\ AgentTyped'
    BY <2>1 DEF AgentKeeps, AgentTyped, TypeInv, TypeOK, Step, store
  <2>3. StoreTyped' /\ faults' \in 0..MaxFaults
    BY <1>0, <2>1, FaultTyped DEF StoreTyped, store
  <2>4. QED
    BY <2>1, <2>2, <2>3, EndTyped
<1>12. CASE Restart
  BY <1>12, RestartTyped
<1>13. CASE OrphanEnds
  <2>1. /\ UNCHANGED <<rows, queue, agent, mount, requests, faults, excused>>
        /\ orphan # None /\ orphan' = None /\ disk' = [disk EXCEPT ![mount] = Filled(orphan, TRUE)]
    BY <1>13 DEF OrphanEnds
  <2>2. mount \in Place => Filled(orphan, TRUE) \in Content
    <3>1. orphan \in Task /\ arg[orphan].repo \in Repo
      BY <2>1 DEF TypeInv, TypeOK, Fitting
    <3>2. QED
      BY <3>1, FilledTyped
  <2>3. StoreTyped'
    BY <1>0, <2>1, <2>2, WriteTyped DEF StoreTyped
  <2>4. Fitting' /\ AgentTyped'
    BY <1>0, <2>1 DEF TypeInv, Fitting, AgentTyped, agent, queue
  <2>5. RowsTyped' /\ arg' \in [Task -> Arg]
    BY <2>1, TypeOKParts DEF TypeInv, RowsTyped, rows, queue
  <2>6. CountsTyped'
    <3>1. excused' \in BOOLEAN
      BY <1>1, <2>1, Zenon
    <3>2. QED
      BY <1>0, <2>1, <3>1 DEF CountsTyped
  <2>7. QED
    BY <2>3, <2>4, <2>5, <2>6, TypeInvNext
<1>14. QED
  BY <1>2, <1>3, <1>4, <1>5, <1>6, <1>7, <1>8, <1>9, <1>10, <1>11, <1>12, <1>13 DEF Next

LEMMA TypeInvAlways == Spec => []TypeInv
BY Invariant, TypeInvInit, TypeInvStep, PTL DEF Spec

(* Rows, tasks, the agent and its directories keep their types: what the   *)
(* agent writes is a directory, whatever it finds there.                   *)
THEOREM ResourcesTypeOK == Spec => []TypeOK
<1>1. TypeInv => TypeOK
  BY DEF TypeInv
<1>2. QED
  BY TypeInvAlways, <1>1, PTL

-----------------------------------------------------------------------------
(* A check that says ok.  While tasks of the key do not overlap there is   *)
(* one task at a time, of the only row there is, whose check does not say  *)
(* ok; so what a check found is changed by nothing until another task is   *)
(* asked for, which takes the ok away.                                     *)

(* A key has one row at a time; a new row was not checked, and is where    *)
(* downloads go.                                                           *)
OneRowLives ==
  /\ \A q, r \in Resource : Live(q) /\ Live(r) => q = r
  /\ \A r \in Resource : request[r] = "absent" => check[r] = "unknown" /\ source[r] = Layout

(* Tasks one after the other, each executed once at a time; what still     *)
(* runs in the downloader is of the task that will be claimed again.       *)
OneAtATime ==
  /\ \A t, u \in Task : Open(t) /\ Open(u) => t = u
  /\ \A e \in Executor : exec[e] # None => state[exec[e]] = "claimed" /\ kind[exec[e]] # "upload"
  /\ \A d, e \in Executor : exec[d] # None /\ exec[e] # None => d = e
  /\ orphan # None => state[orphan] = "claimed" /\ \A e \in Executor : exec[e] = None

(* The task t works where its row says, on what its row says.              *)
FitsRow(t) ==
  /\ Live(of[t]) /\ check[of[t]] # "ok"
  /\ kind[t] = "download" => source[of[t]] = Layout /\ arg[t] = Download(url[of[t]])
  /\ kind[t] = "verify" => arg[t].from = source[of[t]] /\ arg[t].repo = url[of[t]]
TasksFit == \A t \in Task : Open(t) => FitsRow(t)

(* What a check found, or a row says it found, is so.                      *)
FoundIsSo == \A e \in Executor : exec[e] # None /\ kind[exec[e]] = "verify" /\ pc[e] = "ok" =>
  Passes(arg[exec[e]].from, arg[exec[e]].repo)
OkHolds == \A r \in Resource : Live(r) /\ check[r] = "ok" => Passes(source[r], url[r])

Orderly == OneAtATime /\ TasksFit /\ FoundIsSo /\ OkHolds
OkInv == TypeInv /\ OneRowLives /\ (~excused => Orderly)

LEMMA OkInvInit == Init => OkInv
<1> SUFFICES ASSUME Init PROVE OkInv
  OBVIOUS
<1>1. TypeInv
  BY TypeInvInit
<1>2. OneRowLives
  BY DEF Init, OneRowLives, Live
<1>3. Orderly
  BY DEF Init, Orderly, OneAtATime, TasksFit, FoundIsSo, OkHolds, Open, Live
<1>4. QED
  BY <1>1, <1>2, <1>3 DEF OkInv

(* While a task is open, no row says that it is ok.                        *)
LEMMA NoOkRow ==
  ASSUME OkInv, ~excused, NEW t \in Task, Open(t)
  PROVE  \A r \in Resource : Live(r) => r = of[t] /\ check[r] # "ok"
<1>1. of[t] \in Resource /\ Live(of[t]) /\ check[of[t]] # "ok"
  BY DEF OkInv, Orderly, TasksFit, FitsRow, TypeInv, RowInv, TasksHaveRows, Open
<1>2. QED
  BY <1>1 DEF OkInv, OneRowLives

(* What is executed is open, and nothing runs in the downloader then.      *)
LEMMA Executed ==
  ASSUME OkInv, ~excused, NEW e \in Executor, exec[e] # None
  PROVE  /\ exec[e] \in Task /\ Open(exec[e]) /\ orphan = None
         /\ \A d \in Executor : exec[d] # None => d = e
         /\ \A r \in Resource : Live(r) => r = of[exec[e]] /\ check[r] # "ok"
<1>1. exec[e] \in Task /\ Open(exec[e])
  BY ExecutorTyped DEF OkInv, Orderly, OneAtATime, Open
<1>2. orphan = None /\ \A d \in Executor : exec[d] # None => d = e
  BY DEF OkInv, Orderly, OneAtATime
<1>3. QED
  BY <1>1, <1>2, NoOkRow

-----------------------------------------------------------------------------
(* Rows *)

(* Only r changes, and it appears only when there is no other.             *)
OnlyRow(r) ==
  /\ \A q \in Resource : q # r =>
       request'[q] = request[q] /\ check'[q] = check[q] /\ source'[q] = source[q] /\ url'[q] = url[q]
  /\ Live(r)' => Live(r) \/ \A q \in Resource : ~Live(q)
  /\ request'[r] = "absent" =>
       request[r] = "absent" /\ check'[r] = check[r] /\ source'[r] = source[r]

LEMMA OneRowStays ==
  ASSUME OneRowLives, NEW r \in Resource, OnlyRow(r)
  PROVE  OneRowLives'
<1>1. \A q \in Resource : q # r => Live(q)' = Live(q)
  BY DEF OnlyRow, Live
<1>2. \A p, q \in Resource : Live(p)' /\ Live(q)' => p = q
  BY <1>1 DEF OnlyRow, OneRowLives
<1>3. \A q \in Resource : request'[q] = "absent" => check'[q] = "unknown" /\ source'[q] = Layout
  BY DEF OnlyRow, OneRowLives
<1>4. QED
  BY <1>2, <1>3 DEF OneRowLives

-----------------------------------------------------------------------------
(* Requests *)

(* Nothing is open: the task is the only one, and takes the ok away.       *)
LEMMA AskOrderly ==
  ASSUME OkInv, TypeInv', OneRowLives', ~excused', NEW t \in Task, NEW k \in Kind,
         NEW r \in Resource, NEW a, NEW el, Ask(t, k, r, a, el),
         Live(r)', check'[r] # "ok",
         k = "download" => source'[r] = Layout /\ a = Download(url'[r]),
         k = "verify" => a.from = source'[r] /\ a.repo = url'[r]
  PROVE  Orderly'
<1>1. /\ PostTo(state, t, k, r, a) /\ UNCHANGED <<exec, pc, orphan, disk>>
      /\ ~excused /\ ~Crowded
  BY DEF Ask, agent, store
<1>2. orphan = None /\ \A e \in Executor : exec[e] = None
  BY <1>1 DEF Crowded
<1>3. \A u \in Task : ~Open(u)
  BY <1>1 DEF Crowded
<1>4. /\ state' = [state EXCEPT ![t] = "pending"] /\ kind' = [kind EXCEPT ![t] = k]
      /\ of' = [of EXCEPT ![t] = r] /\ arg' = [arg EXCEPT ![t] = a]
  BY <1>1 DEF PostTo
<1>5. /\ state \in [Task -> State] /\ kind \in [Task -> Kind] /\ arg \in [Task -> Arg]
      /\ of \in [Task -> Resource \cup {None}]
  BY DEF OkInv, TypeInv, TypeOK
<1>6. \A u \in Task : Open(u)' => u = t
  BY <1>3, <1>4, <1>5 DEF Open
<1>7. OneAtATime'
  BY <1>1, <1>2, <1>6 DEF OneAtATime
<1>8. TasksFit'
  <2>1. kind'[t] = k /\ of'[t] = r /\ arg'[t] = a
    BY <1>4, <1>5
  <2>2. FitsRow(t)'
    BY <2>1 DEF FitsRow, Download
  <2>3. QED
    BY <1>6, <2>2 DEF TasksFit
<1>9. FoundIsSo'
  BY <1>1, <1>2 DEF FoundIsSo
<1>10. OkHolds'
  BY DEF OneRowLives, OkHolds
<1>11. QED
  BY <1>7, <1>8, <1>9, <1>10 DEF Orderly

LEMMA AskedOk ==
  ASSUME OkInv, TypeInv', NEW r \in Resource, NEW t \in Task,
         \/ \E u \in Repo, byHand \in BOOLEAN : RequestResource(r, u, byHand, t)
         \/ \E u \in Repo \cup {None} : Upload(r, u, t)
         \/ Verify(r, t) \/ FinalizeManual(r, t)
         \/ \E link \in BOOLEAN : MigrateLayout(r, link, t)
  PROVE  OkInv'
<1>1. /\ request \in [Resource -> Request] /\ check \in [Resource -> Check]
      /\ source \in [Resource -> Place] /\ url \in [Resource -> Repo \cup {None}]
  BY DEF OkInv, TypeInv, TypeOK
<1>2. {"download", "prepare", "upload", "verify", "migrate"} \subseteq Kind
  BY DEF Kind
<1>3. OneRowLives
  BY DEF OkInv
<1>4. ASSUME NEW u \in Repo, NEW byHand \in BOOLEAN, RequestResource(r, u, byHand, t)
      PROVE  OkInv'
  <2> DEFINE el == Live(r) /\ source[r] # Layout
  <2>1. /\ request' = [request EXCEPT ![r] = IF byHand THEN "preparing" ELSE "downloading"]
        /\ check' = [check EXCEPT ![r] = "unknown"] /\ url' = [url EXCEPT ![r] = u]
        /\ source' = source /\ Upserts(r)
        /\ Ask(t, IF byHand THEN "prepare" ELSE "download", r, Download(u), el)
    BY <1>4 DEF RequestResource
  <2>2. Live(r)' /\ check'[r] = "unknown" /\ url'[r] = u
    BY <1>1, <2>1 DEF Live
  <2>3. OnlyRow(r)
    BY <1>1, <2>1, <2>2 DEF OnlyRow, Upserts, Live
  <2>4. OneRowLives'
    BY <1>3, <2>3, OneRowStays
  <2>5. ASSUME ~excused' PROVE Orderly'
    <3>1. source'[r] = Layout
      <4>1. ~el
        BY <2>1, <2>5 DEF Ask
      <4>2. request[r] = "absent" => source[r] = Layout
        BY <1>3 DEF OneRowLives
      <4>3. QED
        BY <2>1, <4>1, <4>2 DEF Upserts
    <3>2. PICK k \in {"prepare", "download"} : Ask(t, k, r, Download(u), el)
      BY <2>1
    <3>3. QED
      BY <1>2, <2>2, <2>4, <2>5, <3>1, <3>2, AskOrderly
  <2>6. QED
    BY <2>4, <2>5 DEF OkInv
<1>5. ASSUME NEW u \in Repo \cup {None}, Upload(r, u, t) PROVE OkInv'
  <2>1. /\ request' = [request EXCEPT ![r] = "uploading"]
        /\ check' = [check EXCEPT ![r] = "unknown"] /\ url' = [url EXCEPT ![r] = u]
        /\ source' = [source EXCEPT ![r] = r] /\ Upserts(r)
        /\ Ask(t, "upload", r, Inspection(u, r, FALSE), FALSE)
    BY <1>5 DEF Upload
  <2>2. Live(r)' /\ check'[r] = "unknown"
    BY <1>1, <2>1 DEF Live
  <2>3. OnlyRow(r)
    BY <1>1, <2>1, <2>2 DEF OnlyRow, Upserts, Live
  <2>4. OneRowLives'
    BY <1>3, <2>3, OneRowStays
  <2>5. ~excused' => Orderly'
    BY <1>2, <2>1, <2>2, <2>4, AskOrderly
  <2>6. QED
    BY <2>4, <2>5 DEF OkInv
<1>6. ASSUME Verify(r, t) \/ FinalizeManual(r, t) PROVE OkInv'
  <2>1. /\ request' = request \/ request' = [request EXCEPT ![r] = "checking"]
        /\ check' = [check EXCEPT ![r] = "checking"] /\ url' = url
        /\ source' = source /\ Live(r)
    BY <1>6 DEF Verify, FinalizeManual
  <2>2. Live(r)' /\ check'[r] = "checking"
    BY <1>1, <2>1 DEF Live
  <2>3. OnlyRow(r)
    BY <1>1, <2>1, <2>2 DEF OnlyRow, Live
  <2>4. OneRowLives'
    BY <1>3, <2>3, OneRowStays
  <2>5. PICK m \in BOOLEAN : Ask(t, "verify", r, Inspection(url[r], source[r], m), FALSE)
    BY <1>6 DEF Verify, FinalizeManual
  <2>6. /\ Inspection(url[r], source[r], m).from = source'[r]
        /\ Inspection(url[r], source[r], m).repo = url'[r]
    BY <2>1 DEF Inspection
  <2>7. ~excused' => Orderly'
    BY <1>2, <2>2, <2>4, <2>5, <2>6, AskOrderly
  <2>8. QED
    BY <2>4, <2>7 DEF OkInv
<1>7. ASSUME NEW link \in BOOLEAN, MigrateLayout(r, link, t) PROVE OkInv'
  <2>1. /\ check' = [check EXCEPT ![r] = "checking"] /\ UNCHANGED <<request, url, source>>
        /\ Live(r) /\ Ask(t, "migrate", r, Move(source[r], link), FALSE)
    BY <1>7 DEF MigrateLayout
  <2>2. Live(r)' /\ check'[r] = "checking"
    BY <1>1, <2>1 DEF Live
  <2>3. OnlyRow(r)
    BY <1>1, <2>1, <2>2 DEF OnlyRow, Live
  <2>4. OneRowLives'
    BY <1>3, <2>3, OneRowStays
  <2>5. ~excused' => Orderly'
    BY <1>2, <2>1, <2>2, <2>4, AskOrderly
  <2>6. QED
    BY <2>4, <2>5 DEF OkInv
<1>8. QED
  BY <1>4, <1>5, <1>6, <1>7

-----------------------------------------------------------------------------
(* Results *)

LEMMA ResultRow ==
  ASSUME TypeInv, NEW t \in Task, NEW r \in Resource, r = of[t], NEW ok \in BOOLEAN, Result(t, ok)
  PROVE  OnlyRow(r) /\ (Live(r) => Live(r)') /\ url' = url
<1>1. /\ request \in [Resource -> Request] /\ check \in [Resource -> Check]
      /\ source \in [Resource -> Place]
  BY DEF TypeInv, TypeOK
<1>2. url' = url
  BY DEF Result, Failed, Downloaded, Prepared, Verified, Migrated, Uploaded
<1>3. /\ \/ request' = request
         \/ \E v \in {"failed", "awaiting", "checking", "ready", "finalizing"} :
              request' = Set(request, r, v)
      /\ \/ check' = check
         \/ \E v \in {"failed", "checking", "unknown", "ok"} : check' = Set(check, r, v)
      /\ \/ source' = source
         \/ \E v \in Place : source' = Set(source, r, v)
  <2>1. CASE Failed(t)
    BY <2>1 DEF Failed
  <2>2. CASE Downloaded(t)
    BY <2>2 DEF Downloaded
  <2>3. CASE Prepared(t)
    BY <2>3 DEF Prepared
  <2>4. CASE Verified(t)
    BY <2>4 DEF Verified
  <2>5. CASE Migrated(t)
    <3>1. arg[t].to \in Place
      BY DEF TypeInv, TypeOK, Arg
    <3>2. QED
      BY <2>5, <3>1 DEF Migrated
  <2>6. CASE Uploaded(t)
    BY <2>6 DEF Uploaded
  <2>7. QED
    BY <2>1, <2>2, <2>3, <2>4, <2>5, <2>6 DEF Result
<1>4. CASE Live(r)
  <2>1. /\ \A q \in Resource : q # r => request'[q] = request[q]
        /\ request'[r] \notin {"absent", "gone"}
    BY <1>1, <1>3, <1>4 DEF Set, Live
  <2>2. \A q \in Resource : q # r => check'[q] = check[q] /\ source'[q] = source[q]
    BY <1>1, <1>3, <1>4 DEF Set
  <2>3. QED
    BY <1>1, <1>2, <1>4, <2>1, <2>2 DEF OnlyRow, Live
<1>5. CASE ~Live(r)
  <2>1. request' = request /\ check' = check /\ source' = source
    BY <1>3, <1>5 DEF Set
  <2>2. QED
    BY <1>1, <1>2, <1>5, <2>1 DEF OnlyRow, Live
<1>6. QED
  BY <1>4, <1>5

(* Nothing is open after the last task, and the row's check is ok only if  *)
(* the task found it so.                                                   *)
LEMMA LastOrderly ==
  ASSUME OkInv, ~excused, OneRowLives', NEW t \in Task, Open(t), NEW ok \in BOOLEAN, Only(t, ok),
         \A e \in Executor : exec'[e] = None, orphan' = None,
         NEW r \in Resource, r = of[t], Live(r)', check'[r] = "ok" => Passes(source[r], url[r])'
  PROVE  Orderly'
<1>1. state' = Settle(t, ok) /\ state \in [Task -> State]
  BY DEF Only, OkInv, TypeInv, TypeOK
<1>2. \A u \in Task : ~Open(u)'
  <2>1. \A u \in Task : Open(u) => u = t
    BY DEF OkInv, Orderly, OneAtATime
  <2>2. QED
    BY <1>1, <2>1 DEF Settle, Open
<1>3. OneAtATime' /\ TasksFit' /\ FoundIsSo'
  BY <1>2 DEF OneAtATime, TasksFit, FoundIsSo
<1>4. OkHolds'
  BY DEF OneRowLives, OkHolds
<1>5. QED
  BY <1>3, <1>4 DEF Orderly

(* The task that follows is the only one that is open.                     *)
LEMMA NextOrderly ==
  ASSUME OkInv, ~excused, OneRowLives', NEW t \in Task, Open(t),
         NEW r \in Resource, r = of[t], NEW k \in Kind, NEW a, FollowedBy(t, k, a),
         \A e \in Executor : exec'[e] = None, orphan' = None, Live(r)', check'[r] # "ok",
         k # "download", k = "verify" => a.from = source'[r] /\ a.repo = url'[r]
  PROVE  Orderly'
<1>1. Live(of[t])
  BY DEF OkInv, Orderly, TasksFit, FitsRow
<1>2. PICK n \in Task : PostTo(Settle(t, TRUE), n, k, r, a)
  BY <1>1 DEF FollowedBy
<1>3. /\ state' = [Settle(t, TRUE) EXCEPT ![n] = "pending"] /\ kind' = [kind EXCEPT ![n] = k]
      /\ of' = [of EXCEPT ![n] = r] /\ arg' = [arg EXCEPT ![n] = a]
  BY <1>2 DEF PostTo
<1>4. /\ state \in [Task -> State] /\ kind \in [Task -> Kind] /\ arg \in [Task -> Arg]
      /\ of \in [Task -> Resource \cup {None}]
  BY DEF OkInv, TypeInv, TypeOK
<1>5. \A u \in Task : Open(u)' => u = n
  <2>1. \A u \in Task : Open(u) => u = t
    BY DEF OkInv, Orderly, OneAtATime
  <2>2. QED
    BY <1>3, <1>4, <2>1 DEF Settle, Open
<1>6. OneAtATime' /\ FoundIsSo'
  BY <1>5 DEF OneAtATime, FoundIsSo
<1>7. TasksFit'
  <2>1. kind'[n] = k /\ of'[n] = r /\ arg'[n] = a
    BY <1>3, <1>4
  <2>2. FitsRow(n)'
    BY <2>1 DEF FitsRow
  <2>3. QED
    BY <1>5, <2>2 DEF TasksFit
<1>8. OkHolds'
  BY DEF OneRowLives, OkHolds
<1>9. QED
  BY <1>6, <1>7, <1>8 DEF Orderly

(* A result, whatever the task has written: a check writes nothing and has *)
(* found what it reports.                                                  *)
LEMMA ResultOrderly ==
  ASSUME OkInv, ~excused, OneRowLives', NEW t \in Task, Open(t), NEW ok \in BOOLEAN, Result(t, ok),
         \A e \in Executor : exec'[e] = None, orphan' = None,
         kind[t] = "verify" => disk' = disk /\ (ok => Passes(arg[t].from, arg[t].repo))
  PROVE  Orderly'
<1>0. PICK r \in Resource : r = of[t]
  BY DEF OkInv, TypeInv, RowInv, TasksHaveRows, Open
<1>1. Live(r) /\ Live(r)' /\ url' = url
  BY <1>0, ResultRow DEF OkInv, Orderly, TasksFit, FitsRow
<1>2. FitsRow(t)
  BY DEF OkInv, Orderly, TasksFit
<1>3. /\ check \in [Resource -> Check] /\ source \in [Resource -> Place]
      /\ {"verify", "migrate"} \subseteq Kind
  BY DEF OkInv, TypeInv, TypeOK, Kind
<1>4. CASE Failed(t)
  <2>1. Only(t, FALSE)
    BY <1>0, <1>4 DEF Failed
  <2>2. check'[r] # "ok"
    BY <1>0, <1>1, <1>2, <1>3, <1>4 DEF Failed, Set, FitsRow
  <2>3. QED
    BY <1>0, <1>1, <2>1, <2>2, LastOrderly
<1>5. CASE Downloaded(t)
  <2>1. /\ FollowedBy(t, "verify", Inspection(arg[t].repo, arg[t].to, FALSE))
        /\ check' = Set(check, r, "checking") /\ source' = source /\ kind[t] = "download"
    BY <1>0, <1>5 DEF Downloaded
  <2>2. check'[r] = "checking"
    BY <1>0, <1>1, <1>3, <2>1 DEF Set
  <2>3. arg[t].repo = url[r] /\ arg[t].to = source[r]
    BY <1>0, <1>2, <2>1 DEF FitsRow, Download, Inspection
  <2>4. /\ Inspection(arg[t].repo, arg[t].to, FALSE).from = source'[r]
        /\ Inspection(arg[t].repo, arg[t].to, FALSE).repo = url'[r]
    BY <1>0, <1>1, <2>1, <2>3 DEF Inspection
  <2>5. QED
    BY <1>0, <1>1, <1>3, <2>1, <2>2, <2>4, NextOrderly
<1>6. CASE Prepared(t)
  <2>1. Only(t, TRUE) /\ check' = Set(check, r, "unknown")
    BY <1>0, <1>6 DEF Prepared
  <2>2. check'[r] = "unknown"
    BY <1>0, <1>1, <1>3, <2>1 DEF Set
  <2>3. QED
    BY <1>0, <1>1, <2>1, <2>2, LastOrderly
<1>7. CASE Verified(t) /\ ok
  <2>1. Only(t, TRUE) /\ kind[t] = "verify" /\ source' = source
    BY <1>0, <1>7 DEF Verified
  <2>2. Passes(source[r], url[r])
    BY <1>0, <1>2, <1>7, <2>1 DEF FitsRow
  <2>3. Passes(source[r], url[r])'
    BY <1>0, <1>1, <2>1, <2>2 DEF Passes, Files
  <2>4. QED
    BY <1>0, <1>1, <2>1, <2>3, LastOrderly
<1>8. CASE Migrated(t)
  <2>1. /\ FollowedBy(t, "verify", Inspection(url[r], arg[t].to, FALSE))
        /\ check' = Set(check, r, "checking") /\ source' = Set(source, r, arg[t].to)
    BY <1>0, <1>8 DEF Migrated
  <2>2. check'[r] = "checking" /\ source'[r] = arg[t].to
    BY <1>0, <1>1, <1>3, <2>1 DEF Set
  <2>3. /\ Inspection(url[r], arg[t].to, FALSE).from = source'[r]
        /\ Inspection(url[r], arg[t].to, FALSE).repo = url'[r]
    BY <1>0, <1>1, <2>2 DEF Inspection
  <2>4. QED
    BY <1>0, <1>1, <1>3, <2>1, <2>2, <2>3, NextOrderly
<1>9. CASE Uploaded(t)
  <2>1. FollowedBy(t, "migrate", Move(r, FALSE)) /\ check' = check
    BY <1>0, <1>9 DEF Uploaded
  <2>2. check'[r] # "ok"
    BY <1>0, <1>2, <2>1 DEF FitsRow
  <2>3. QED
    BY <1>0, <1>1, <1>3, <2>1, <2>2, NextOrderly
<1>10. QED
  BY <1>0, <1>4, <1>5, <1>6, <1>7, <1>8, <1>9 DEF Result

-----------------------------------------------------------------------------
(* Steps *)

(* Rows and tasks stay; a task is still executed, and no row is ok.        *)
LEMMA StayOrderly ==
  ASSUME OkInv, ~excused, UNCHANGED <<rows, queue>>, OneAtATime', FoundIsSo',
         NEW t \in Task, Open(t)
  PROVE  Orderly'
<1>1. TasksFit'
  BY DEF OkInv, Orderly, TasksFit, FitsRow, Open, Live, rows, queue
<1>2. \A r \in Resource : Live(r) => check[r] # "ok"
  BY NoOkRow
<1>3. OkHolds'
  BY <1>2 DEF OkHolds, Live, rows
<1>4. QED
  BY <1>1, <1>3 DEF Orderly

LEMMA RowsStay ==
  ASSUME OneRowLives, UNCHANGED rows
  PROVE  OneRowLives'
BY DEF OneRowLives, Live, rows

LEMMA AgentStepOk ==
  ASSUME OkInv, TypeInv', NEW e \in Executor,
         \/ Seed(e) \/ TakeMount(e) \/ NoDownloader(e) \/ Fetch(e) \/ FetchEnds(e)
         \/ Activate(e) \/ Inspect(e) \/ Migrate(e)
  PROVE  OkInv'
<1>1. UNCHANGED <<rows, queue, exec, orphan, excused>>
  BY DEF Seed, TakeMount, NoDownloader, Fetch, FetchEnds, Activate, Inspect, Migrate, store
<1>2. exec[e] # None
  BY BusyTyped DEF Seed, TakeMount, NoDownloader, Fetch, FetchEnds, Activate, Inspect, Migrate,
     Doing, OkInv
<1>3. OneRowLives'
  BY <1>1, RowsStay DEF OkInv
<1>4. ASSUME ~excused PROVE Orderly'
  <2>1. exec[e] \in Task /\ Open(exec[e]) /\ \A d \in Executor : exec[d] # None => d = e
    BY <1>2, <1>4, Executed
  <2>2. OneAtATime'
    BY <1>1, <1>4 DEF OkInv, Orderly, OneAtATime, Open, queue
  <2>3. ASSUME kind[exec[e]] = "verify", pc'[e] = "ok"
        PROVE  Passes(arg[exec[e]].from, arg[exec[e]].repo)'
    <3>1. ~(Seed(e) \/ Fetch(e) \/ FetchEnds(e) \/ Activate(e) \/ Migrate(e))
      BY <2>3 DEF Seed, Fetch, FetchEnds, Activate, Migrate, Doing
    <3>2. ~(TakeMount(e) \/ NoDownloader(e))
      BY <2>3 DEF TakeMount, NoDownloader, OkInv, TypeInv, Fitting
    <3>3. Inspect(e)
      BY <3>1, <3>2
    <3>4. pc'[e] = IF Passes(arg[exec[e]].from, arg[exec[e]].repo) THEN "ok" ELSE "error"
      BY <3>3 DEF Inspect, Goes, OkInv, TypeInv, TypeOK
    <3>5. Passes(arg[exec[e]].from, arg[exec[e]].repo)
      BY <2>3, <3>4
    <3>6. disk' = disk
      BY <3>3 DEF Inspect, store
    <3>7. QED
      BY <1>1, <3>5, <3>6 DEF Passes, Files, queue
  <2>4. FoundIsSo'
    BY <1>1, <2>1, <2>3 DEF FoundIsSo, queue
  <2>5. QED
    BY <1>1, <1>4, <2>1, <2>2, <2>4, StayOrderly
<1>5. QED
  BY <1>1, <1>3, <1>4 DEF OkInv

(* A claim for the first time: nothing else runs.                          *)
LEMMA ClaimOk ==
  ASSUME OkInv, TypeInv', NEW t \in Task, Claim(t)
  PROVE  OkInv'
<1>1. PICK e \in Executor : exec' = [exec EXCEPT ![e] = t] /\ pc' = [pc EXCEPT ![e] = "begun"]
  BY DEF Claim, Executor
<1>2. /\ state' = [state EXCEPT ![t] = "claimed"] /\ Open(t) /\ kind[t] # "upload"
      /\ UNCHANGED <<rows, kind, of, arg, orphan, disk>>
      /\ excused' = (excused \/ state[t] = "claimed")
  BY DEF Claim, Offered, store
<1>3. OneRowLives'
  BY <1>2, RowsStay DEF OkInv
<1>4. ASSUME ~excused' PROVE Orderly'
  <2>1. ~excused /\ state[t] = "pending"
    BY <1>2, <1>4 DEF Open
  <2>2. Orderly
    BY <2>1 DEF OkInv
  <2>3. \A d \in Executor : exec[d] = None
    <3>1. ASSUME NEW d \in Executor, exec[d] # None PROVE FALSE
      <4>1. exec[d] \in Task /\ Open(exec[d]) /\ state[exec[d]] = "claimed"
        BY <2>1, <2>2, <3>1, Executed DEF Orderly, OneAtATime
      <4>2. exec[d] = t
        BY <1>2, <2>2, <4>1 DEF Orderly, OneAtATime
      <4>3. QED
        BY <2>1, <4>1, <4>2
    <3>2. QED
      BY <3>1
  <2>4. orphan = None
    <3>1. SUFFICES ASSUME orphan # None PROVE FALSE
      OBVIOUS
    <3>2. orphan \in Task /\ Open(orphan) /\ state[orphan] = "claimed"
      BY <2>2, <3>1 DEF OkInv, TypeInv, TypeOK, Orderly, OneAtATime, Open
    <3>3. orphan = t
      BY <1>2, <2>2, <3>2 DEF Orderly, OneAtATime
    <3>4. QED
      BY <2>1, <3>2, <3>3
  <2>5. /\ state \in [Task -> State] /\ exec \in [Executor -> Task \cup {None}]
        /\ pc \in [Executor -> Step]
    BY DEF OkInv, TypeInv, TypeOK
  <2>6. /\ \A u \in Task : Open(u)' <=> Open(u)
        /\ \A d \in Executor : exec'[d] # None => d = e /\ exec'[d] = t /\ pc'[d] = "begun"
        /\ state'[t] = "claimed"
    BY <1>1, <1>2, <2>3, <2>5 DEF Open
  <2>7. OneAtATime'
    <3>1. \A u, v \in Task : Open(u)' /\ Open(v)' => u = v
      BY <2>2, <2>6 DEF Orderly, OneAtATime
    <3>2. \A d \in Executor :
            exec'[d] # None => state'[exec'[d]] = "claimed" /\ kind'[exec'[d]] # "upload"
      BY <1>2, <2>6
    <3>3. orphan' = None
      BY <1>2, <2>4
    <3>4. QED
      BY <2>6, <3>1, <3>2, <3>3 DEF OneAtATime
  <2>8. TasksFit'
    <3>1. \A u \in Task : FitsRow(u)' <=> FitsRow(u)
      BY <1>2 DEF FitsRow, Live, rows
    <3>2. QED
      BY <2>2, <2>6, <3>1 DEF Orderly, TasksFit
  <2>9. FoundIsSo'
    BY <2>6 DEF FoundIsSo
  <2>10. OkHolds'
    BY <1>2, <2>2 DEF Orderly, OkHolds, Live, Passes, Files, rows
  <2>11. QED
    BY <2>7, <2>8, <2>9, <2>10 DEF Orderly
<1>5. QED
  BY <1>3, <1>4 DEF OkInv

(* A row is entered, edited or deleted: unexcused, only when nothing is    *)
(* open, and without moving a row that is there.                           *)
LEMMA EditedOk ==
  ASSUME OkInv, TypeInv', NEW r \in Resource, OnlyRow(r), UNCHANGED <<queue, agent, orphan, disk>>,
         ~excused' => ~excused /\ ~Crowded,
         ~excused' /\ Live(r)' /\ check'[r] = "ok" =>
           Live(r) /\ check[r] = "ok" /\ source'[r] = source[r] /\ url'[r] = url[r]
  PROVE  OkInv'
<1>1. OneRowLives'
  BY OneRowStays DEF OkInv
<1>2. ASSUME ~excused' PROVE Orderly'
  <2>1. Orderly /\ ~Crowded
    BY <1>2 DEF OkInv
  <2>2. OneAtATime' /\ TasksFit' /\ FoundIsSo'
    <3>1. \A t \in Task : ~Open(t)'
      BY <2>1 DEF Crowded, Open, queue
    <3>2. orphan' = None /\ \A e \in Executor : exec'[e] = None
      BY <2>1 DEF Crowded, agent
    <3>3. QED
      BY <3>1, <3>2 DEF OneAtATime, TasksFit, FoundIsSo
  <2>3. OkHolds'
    <3>1. ASSUME NEW q \in Resource, Live(q)', check'[q] = "ok" PROVE Passes(source[q], url[q])'
      <4>1. Live(q) /\ check[q] = "ok" /\ source'[q] = source[q] /\ url'[q] = url[q]
        BY <1>2, <3>1 DEF OnlyRow, Live
      <4>2. Passes(source[q], url[q])
        BY <2>1, <4>1 DEF Orderly, OkHolds
      <4>3. QED
        BY <4>1, <4>2 DEF Passes, Files
    <3>2. QED
      BY <3>1 DEF OkHolds
  <2>4. QED
    BY <2>2, <2>3 DEF Orderly
<1>3. QED
  BY <1>1, <1>2 DEF OkInv

(* By hand, files only come into an empty target, where no check passed.   *)
LEMMA ByHandOk ==
  ASSUME OkInv, TypeInv', NEW r \in Resource, DownloadByHand(r)
  PROVE  OkInv'
<1>1. /\ UNCHANGED <<rows, queue, agent, orphan, excused>>
      /\ disk' = [disk EXCEPT ![Layout].files = {url[r]}] /\ Files(Layout).files = {}
  BY DEF DownloadByHand
<1>2. disk \in [Place -> Content \cup {None, Link}]
  BY DEF OkInv, TypeInv, TypeOK
<1>3. ASSUME NEW p \in Place, NEW u, Passes(p, u) PROVE Passes(p, u)'
  <2>1. p # Layout /\ disk[p] # Link
    BY <1>1, <1>3 DEF Passes
  <2>2. disk'[p] = disk[p]
    BY <1>1, <1>2, <2>1
  <2>3. QED
    BY <1>3, <2>1, <2>2 DEF Passes, Files
<1>4. OneRowLives'
  BY <1>1, RowsStay DEF OkInv
<1>5. ASSUME ~excused PROVE Orderly'
  <2>1. Orderly
    BY <1>5 DEF OkInv
  <2>2. OneAtATime' /\ TasksFit'
    BY <1>1, <2>1 DEF Orderly, OneAtATime, TasksFit, FitsRow, Open, Live, rows, queue, agent
  <2>3. FoundIsSo'
    <3>1. ASSUME NEW e \in Executor, exec[e] # None, kind[exec[e]] = "verify", pc[e] = "ok"
          PROVE  Passes(arg[exec[e]].from, arg[exec[e]].repo)'
      <4>1. Passes(arg[exec[e]].from, arg[exec[e]].repo)
        BY <2>1, <3>1 DEF Orderly, FoundIsSo
      <4>2. PICK p \in Place, u \in Repo \cup {None} : p = arg[exec[e]].from /\ u = arg[exec[e]].repo
        BY <3>1, ExecutorTyped DEF OkInv, Arg
      <4>3. Passes(p, u)'
        BY <1>3, <4>1, <4>2
      <4>4. p = arg'[exec'[e]].from /\ u = arg'[exec'[e]].repo
        BY <1>1, <4>2 DEF queue, agent
      <4>5. QED
        BY <4>3, <4>4
    <3>2. QED
      BY <1>1, <3>1 DEF FoundIsSo, queue, agent
  <2>4. OkHolds'
    <3>1. ASSUME NEW q \in Resource, Live(q), check[q] = "ok" PROVE Passes(source[q], url[q])'
      <4>1. Passes(source[q], url[q])
        BY <2>1, <3>1 DEF Orderly, OkHolds
      <4>2. PICK p \in Place, u \in Repo \cup {None} : p = source[q] /\ u = url[q]
        BY DEF OkInv, TypeInv, TypeOK
      <4>3. Passes(p, u)'
        BY <1>3, <4>1, <4>2
      <4>4. p = source'[q] /\ u = url'[q]
        BY <1>1, <4>2 DEF rows
      <4>5. QED
        BY <4>3, <4>4
    <3>2. QED
      BY <1>1, <3>1 DEF OkHolds, Live, rows
  <2>5. QED
    BY <2>2, <2>3, <2>4 DEF Orderly
<1>6. QED
  BY <1>1, <1>4, <1>5 DEF OkInv

LEMMA ReportOk ==
  ASSUME OkInv, TypeInv', NEW e \in Executor, Report(e)
  PROVE  OkInv'
<1>1. PICK t \in Task : t = exec[e] /\ state[t] # "absent"
  BY ExecutorTyped DEF Report, OkInv, TypeInv, RowInv, OnlyTasksRun
<1>2. /\ exec[e] # None /\ UNCHANGED <<store, excused>>
      /\ exec' = [exec EXCEPT ![e] = None] /\ exec \in [Executor -> Task \cup {None}]
  BY DEF Report, OkInv, TypeInv, TypeOK
<1>3. PICK ok \in BOOLEAN : Result(t, ok) /\ (ok => pc[e] = "ok")
  BY <1>1 DEF Report
<1>4. OneRowLives'
  <2>1. PICK r \in Resource : r = of[t]
    BY <1>1 DEF OkInv, TypeInv, RowInv, TasksHaveRows
  <2>2. OnlyRow(r)
    BY <1>3, <2>1, ResultRow DEF OkInv
  <2>3. QED
    BY <2>2, OneRowStays DEF OkInv
<1>5. ASSUME ~excused PROVE Orderly'
  <2>1. Open(t) /\ orphan = None /\ \A d \in Executor : exec[d] # None => d = e
    BY <1>1, <1>2, <1>5, Executed
  <2>2. orphan' = None /\ disk' = disk /\ \A d \in Executor : exec'[d] = None
    BY <1>2, <2>1 DEF store
  <2>3. kind[t] = "verify" /\ ok => Passes(arg[t].from, arg[t].repo)
    BY <1>1, <1>2, <1>3, <1>5 DEF OkInv, Orderly, FoundIsSo
  <2>4. QED
    BY <1>3, <1>4, <1>5, <2>1, <2>2, <2>3, ResultOrderly
<1>6. QED
  BY <1>2, <1>4, <1>5 DEF OkInv

LEMMA CopyOk ==
  ASSUME OkInv, TypeInv', NEW t \in Task, NEW ok \in BOOLEAN, Copy(t, ok)
  PROVE  OkInv'
<1>1. Open(t) /\ kind[t] = "upload" /\ Result(t, ok) /\ UNCHANGED <<agent, orphan, excused>>
  BY DEF Copy
<1>2. OneRowLives'
  <2>1. PICK r \in Resource : r = of[t]
    BY <1>1 DEF OkInv, TypeInv, RowInv, TasksHaveRows, Open
  <2>2. OnlyRow(r)
    BY <1>1, <2>1, ResultRow DEF OkInv
  <2>3. QED
    BY <2>2, OneRowStays DEF OkInv
<1>3. ASSUME ~excused PROVE Orderly'
  <2>1. \A d \in Executor : exec[d] = None
    <3>1. ASSUME NEW d \in Executor, exec[d] # None PROVE FALSE
      <4>1. exec[d] \in Task /\ Open(exec[d]) /\ kind[exec[d]] # "upload"
        BY <1>3, <3>1, Executed DEF OkInv, Orderly, OneAtATime
      <4>2. exec[d] = t
        BY <1>1, <1>3, <4>1 DEF OkInv, Orderly, OneAtATime
      <4>3. QED
        BY <1>1, <4>1, <4>2
    <3>2. QED
      BY <3>1
  <2>2. orphan = None
    <3>1. SUFFICES ASSUME orphan # None PROVE FALSE
      OBVIOUS
    <3>2. orphan \in Task /\ Open(orphan) /\ kind[orphan] = "download"
      BY <1>3, <3>1 DEF OkInv, TypeInv, TypeOK, Fitting, Orderly, OneAtATime, Open
    <3>3. orphan = t
      BY <1>1, <1>3, <3>2 DEF OkInv, Orderly, OneAtATime
    <3>4. QED
      BY <1>1, <3>2, <3>3
  <2>3. orphan' = None /\ \A d \in Executor : exec'[d] = None
    BY <1>1, <2>1, <2>2 DEF agent
  <2>4. QED
    BY <1>1, <1>2, <1>3, <2>3, ResultOrderly
<1>4. QED
  BY <1>1, <1>2, <1>3 DEF OkInv

(* Executions end, and what was fetching may go on in the downloader.      *)
LEMMA StoppedOk ==
  ASSUME OkInv, TypeInv', UNCHANGED <<rows, queue, excused>>,
         ~excused =>
           /\ \A e \in Executor : exec'[e] = None
           /\ orphan' # None => state[orphan'] = "claimed"
           /\ disk' = disk \/ \E t \in Task : Open(t)
  PROVE  OkInv'
<1>1. OneRowLives'
  BY RowsStay DEF OkInv
<1>2. ASSUME ~excused PROVE Orderly'
  <2>1. Orderly
    BY <1>2 DEF OkInv
  <2>2. OneAtATime' /\ TasksFit' /\ FoundIsSo'
    BY <1>2, <2>1 DEF Orderly, OneAtATime, TasksFit, FitsRow, FoundIsSo, Open, Live, rows, queue
  <2>3. OkHolds'
    <3>1. CASE disk' = disk
      BY <2>1, <3>1 DEF Orderly, OkHolds, Live, Passes, Files, rows
    <3>2. ASSUME NEW t \in Task, Open(t) PROVE OkHolds'
      <4>1. \A r \in Resource : Live(r) => check[r] # "ok"
        BY <1>2, <3>2, NoOkRow
      <4>2. QED
        BY <4>1 DEF OkHolds, Live, rows
    <3>3. QED
      BY <1>2, <3>1, <3>2
  <2>4. QED
    BY <2>2, <2>3 DEF Orderly
<1>3. QED
  BY <1>1, <1>2 DEF OkInv

LEMMA OkInvStep == OkInv /\ [Next]_vars /\ TypeInv' => OkInv'
<1> SUFFICES ASSUME OkInv, [Next]_vars, TypeInv' PROVE OkInv'
  OBVIOUS
<1>0. /\ request \in [Resource -> Request] /\ check \in [Resource -> Check]
      /\ source \in [Resource -> Place] /\ exec \in [Executor -> Task \cup {None}]
      /\ OneRowLives
  BY DEF OkInv, TypeInv, TypeOK
<1>1. CASE UNCHANGED vars
  <2>1. UNCHANGED <<rows, queue, exec, pc, orphan, disk, excused>>
    BY <1>1 DEF vars, store, agent
  <2>2. OneRowLives'
    BY <1>0, <2>1, RowsStay
  <2>3. Orderly => Orderly'
    BY <2>1 DEF Orderly, OneAtATime, TasksFit, FitsRow, FoundIsSo, OkHolds, Open, Live, Passes,
       Files, rows, queue
  <2>4. QED
    BY <2>1, <2>2, <2>3 DEF OkInv
<1>2. ASSUME NEW r \in Resource, NEW t \in Task,
             \/ \E u \in Repo, byHand \in BOOLEAN : RequestResource(r, u, byHand, t)
             \/ \E u \in Repo \cup {None} : Upload(r, u, t)
             \/ Verify(r, t) \/ FinalizeManual(r, t)
             \/ \E link \in BOOLEAN : MigrateLayout(r, link, t)
      PROVE  OkInv'
  BY <1>2, AskedOk
<1>3. ASSUME NEW r \in Resource, NEW p \in {Layout, Legacy}, Register(r, p) PROVE OkInv'
  <2>1. /\ Upserts(r) /\ UNCHANGED <<check, url, manual, queue, agent, orphan, disk>>
        /\ source' = [source EXCEPT ![r] = p]
        /\ request' = IF Live(r) THEN request ELSE [request EXCEPT ![r] = "ready"]
        /\ excused' = (excused \/ (Live(r) /\ source[r] # p) \/ Crowded)
    BY <1>3 DEF Register, store
  <2>2. Live(r)' /\ request'[r] # "absent"
    BY <1>0, <2>1 DEF Live
  <2>3. OnlyRow(r)
    BY <1>0, <2>1, <2>2 DEF OnlyRow, Upserts
  <2>4. ~excused' => ~excused /\ ~Crowded
    BY <2>1
  <2>5. ASSUME ~excused', check'[r] = "ok"
        PROVE  Live(r) /\ check[r] = "ok" /\ source'[r] = source[r] /\ url'[r] = url[r]
    <3>1. check[r] = "ok" /\ Live(r)
      BY <1>0, <2>1, <2>5 DEF OneRowLives, Upserts
    <3>2. source[r] = p
      BY <2>1, <2>5, <3>1
    <3>3. QED
      BY <1>0, <2>1, <3>1, <3>2
  <2>6. QED
    BY <2>1, <2>3, <2>4, <2>5, EditedOk
<1>4. ASSUME NEW r \in Resource, Delete(r) PROVE OkInv'
  <2>1. /\ UNCHANGED <<check, source, url, manual, queue, agent, orphan, disk>>
        /\ request' = [request EXCEPT ![r] = "gone"] /\ excused' = (excused \/ Crowded)
    BY <1>4 DEF Delete, store
  <2>2. request'[r] = "gone" /\ ~Live(r)'
    BY <1>0, <2>1 DEF Live
  <2>3. OnlyRow(r)
    BY <1>0, <2>1, <2>2 DEF OnlyRow
  <2>4. QED
    BY <2>1, <2>2, <2>3, EditedOk
<1>5. ASSUME NEW r \in Resource, DownloadByHand(r) PROVE OkInv'
  BY <1>5, ByHandOk
<1>6. ASSUME NEW t \in Task, Claim(t) PROVE OkInv'
  BY <1>6, ClaimOk
<1>7. ASSUME NEW t \in Task, NEW ok \in BOOLEAN, Copy(t, ok) PROVE OkInv'
  BY <1>7, CopyOk
<1>8. ASSUME NEW e \in Executor,
             \/ Seed(e) \/ TakeMount(e) \/ NoDownloader(e) \/ Fetch(e) \/ FetchEnds(e)
             \/ Activate(e) \/ Inspect(e) \/ Migrate(e)
      PROVE  OkInv'
  BY <1>8, AgentStepOk
<1>9. ASSUME NEW e \in Executor, Report(e) PROVE OkInv'
  BY <1>9, ReportOk
<1>10. ASSUME NEW e \in Executor, ReportLost(e) PROVE OkInv'
  <2>1. /\ UNCHANGED <<rows, queue, excused, disk, orphan>> /\ exec[e] # None
        /\ exec' = [exec EXCEPT ![e] = None]
    BY <1>10 DEF ReportLost, store
  <2>2. ASSUME ~excused PROVE (\A d \in Executor : exec'[d] = None) /\ orphan' = None
    BY <1>0, <2>1, <2>2, Executed
  <2>3. QED
    BY <2>1, <2>2, StoppedOk
<1>11. CASE Restart
  <2>1. /\ UNCHANGED <<rows, queue, excused, disk>> /\ \A d \in Executor : exec'[d] = None
        /\ orphan' = IF \E e \in Executor : pc[e] = "fetching"
                     THEN exec[CHOOSE e \in Executor : pc[e] = "fetching"] ELSE orphan
    BY <1>11 DEF Restart
  <2>2. ASSUME ~excused, orphan' # None PROVE state[orphan'] = "claimed"
    <3>1. CASE \E e \in Executor : pc[e] = "fetching"
      <4>1. PICK e \in Executor : orphan' = exec[e]
        BY <2>1, <3>1
      <4>2. QED
        BY <2>2, <4>1 DEF OkInv, Orderly, OneAtATime
    <3>2. CASE ~\E e \in Executor : pc[e] = "fetching"
      BY <2>1, <2>2, <3>2 DEF OkInv, Orderly, OneAtATime
    <3>3. QED
      BY <3>1, <3>2
  <2>3. QED
    BY <2>1, <2>2, StoppedOk
<1>12. CASE OrphanEnds
  <2>1. UNCHANGED <<rows, queue, exec, excused>> /\ orphan # None /\ orphan' = None
    BY <1>12 DEF OrphanEnds, agent
  <2>2. ASSUME ~excused
        PROVE  (\A d \in Executor : exec'[d] = None) /\ \E t \in Task : Open(t)
    <3>1. state[orphan] = "claimed" /\ \A d \in Executor : exec[d] = None
      BY <2>1, <2>2 DEF OkInv, Orderly, OneAtATime
    <3>2. orphan \in Task
      BY <2>1 DEF OkInv, TypeInv, TypeOK
    <3>3. QED
      BY <2>1, <3>1, <3>2 DEF Open
  <2>3. QED
    BY <2>1, <2>2, StoppedOk
<1>13. QED
  BY <1>1, <1>2, <1>3, <1>4, <1>5, <1>6, <1>7, <1>8, <1>9, <1>10, <1>11, <1>12 DEF Next

(* A check that says ok is true of the files at the row's path as long as  *)
(* no two tasks of the key overlapped and the row was pointed nowhere      *)
(* else: whatever fails, is lost, repeated or runs on after the agent died. *)
THEOREM OkMeansChecked == Spec => []OkIsTrue
<1>1. OkInv => OkIsTrue
  BY DEF OkInv, Orderly, OkHolds, OkIsTrue
<1>2. QED
  BY TypeInvAlways, OkInvInit, OkInvStep, <1>1, PTL DEF Spec
=============================================================================
