----------------------------- MODULE WorkLedger -----------------------------
(***************************************************************************)
(* What the platform promises about work handed to a node agent, without   *)
(* leases, clocks, polling or HTTP: a piece of work is posted once, handed *)
(* out any number of times while it is open, and once it is closed it is   *)
(* never handed out again.  Whoever was given the work before it closed    *)
(* may still answer, so an answer may reach work that is already closed.   *)
(*                                                                         *)
(* TaskQueue, the lease queue in the node_tasks table and the agent that   *)
(* polls it, is checked and proved to implement this specification.        *)
(***************************************************************************)
CONSTANTS Task,    \* the work items
          Holder   \* the places an answer may still come from

VARIABLES work,    \* work[t]: where t stands
          holders  \* holders[t]: who may still answer for t

ledger == <<work, holders>>

WorkState == {"absent", "queued", "granted", "closed", "erased"}

LedgerTypeOK == /\ work \in [Task -> WorkState]
                /\ holders \in [Task -> SUBSET Holder]

LedgerInit == /\ work = [t \in Task |-> "absent"]
              /\ holders = [t \in Task |-> {}]

Open(t) == work[t] \in {"queued", "granted"}

(* Answers may close their own work, refuse other open work that depended  *)
(* on it, and post new work; an erasure removes several items at once.     *)
(* Every change of work is therefore a set of moves along these arrows.    *)
Move(t) == \/ work'[t] = work[t]
           \/ work[t] = "absent" /\ work'[t] = "queued"
           \/ Open(t) /\ work'[t] = "closed"
           \/ work[t] # "absent" /\ work'[t] = "erased"

(* Open work is handed to h, or the hand-over is lost on the way.          *)
Grant(t, h) == /\ Open(t)
               /\ work' = [work EXCEPT ![t] = "granted"]
               /\ \/ holders' = [holders EXCEPT ![t] = @ \cup {h}]
                  \/ UNCHANGED holders

(* One of t's holders answers; nobody gains hold of anything.  An answer   *)
(* for erased work changes nothing.                                        *)
Answer(t, h) == /\ h \in holders[t]
                /\ holders' = [holders EXCEPT ![t] = @ \ {h}]
                /\ \A u \in Task : Move(u)
                /\ work[t] # "erased" => work'[t] = "closed"

(* A holder gives up, or passes its answer on to something that may still  *)
(* deliver it later.                                                       *)
PassOn(t, h) == /\ h \in holders[t]
                /\ \/ holders' = [holders EXCEPT ![t] = @ \ {h}]
                   \/ \E k \in Holder :
                         holders' = [holders EXCEPT ![t] = (@ \ {h}) \cup {k}]
                /\ UNCHANGED work

(* The agent process dies: the holders inside it are gone.                 *)
Perish == \E H \in SUBSET Holder :
             /\ holders' = [t \in Task |-> holders[t] \ H]
             /\ UNCHANGED work

(* The platform posts, refuses or erases work on its own account.          *)
Administer == /\ \A t \in Task : Move(t)
              /\ work' \in [Task -> WorkState]
              /\ UNCHANGED holders

LedgerNext == \/ \E t \in Task, h \in Holder :
                    Grant(t, h) \/ Answer(t, h) \/ PassOn(t, h)
              \/ Perish
              \/ Administer

LedgerSpec == LedgerInit /\ [][LedgerNext]_ledger
=============================================================================
