----------------------------- MODULE TaskEvents -----------------------------
(***************************************************************************)
(* Requests that wait for a node task, each for one of its own, and the    *)
(* registry of events they wait on.  The thread of the agent's report      *)
(* commits the result and then sets the event that is registered.          *)
(*                                                                         *)
(* A request's first look at its row is prompt: no time passes before it.  *)
(***************************************************************************)
EXTENDS Naturals, FiniteSets

CONSTANTS
  Task,       \* tasks waited for
  MaxEvents,  \* _MAX_TASK_EVENTS
  Timeout,    \* the timeout of a wait
  Spacing,    \* time between two sweeps
  Ttl,        \* _EVENT_ORPHAN_TTL
  MaxTime     \* bound on time

(* An event is kept for longer than anyone waits on it, 120 seconds        *)
(* against 15.                                                             *)
Parameters ==
  /\ MaxEvents \in Nat /\ Spacing \in Nat /\ MaxTime \in Nat
  /\ Timeout \in Nat /\ Ttl \in Nat /\ Timeout <= Ttl

VARIABLES
  waiter,    \* how far the request of a task is
  settled,   \* tasks whose result is committed
  signalled, \* tasks whose report has called signal_node_task_done
  registry,  \* tasks that have an event in _node_task_events
  set,       \* tasks whose event is set
  loose,     \* requests that got an event which is not registered
  created,   \* when the event of a request was made
  swept,     \* _last_gc_at
  now

vars == <<waiter, settled, signalled, registry, set, loose, created, swept, now>>
result == <<settled, signalled>>
events == <<registry, set, loose, created>>

Init ==
  /\ waiter = [t \in Task |-> "out"]
  /\ settled = {} /\ signalled = {}
  /\ registry = {} /\ set = {} /\ loose = {}
  /\ created = [t \in Task |-> 0]
  /\ swept = 0 /\ now = 0

Goes(t, from, to) == waiter[t] = from /\ waiter' = [waiter EXCEPT ![t] = to]

-----------------------------------------------------------------------------
(* Mutant: an event is old after the spacing of the sweeps. *)
OldSooner == {t \in registry : now - created[t] >= Spacing}

Old == {t \in registry : now - created[t] > Ttl}

(* _gc_orphan_events                                                       *)
Sweep(t) ==
  /\ Goes(t, "out", "swept")
  /\ IF now - swept < Spacing THEN UNCHANGED <<swept, registry>>
     ELSE swept' = now /\ registry' = registry \ Old
  /\ UNCHANGED <<result, set, loose, created, now>>

(* get_node_task_event                                                     *)
Register(t) ==
  /\ Goes(t, "swept", "registered")
  /\ IF Cardinality(registry) >= MaxEvents
     THEN loose' = loose \cup {t} /\ UNCHANGED registry
     ELSE registry' = registry \cup {t} /\ UNCHANGED loose
  /\ created' = [created EXCEPT ![t] = now]
  /\ UNCHANGED <<result, set, swept, now>>

(* The first look at the row finds it open.                                *)
Wait(t) ==
  /\ t \notin settled
  /\ Goes(t, "registered", "waiting")
  /\ UNCHANGED <<result, events, swept, now>>

Due(t) == now - created[t] >= Timeout

Wake(t) ==
  /\ t \in set \/ Due(t)
  /\ Goes(t, "waiting", "awake")
  /\ UNCHANGED <<result, events, swept, now>>

Leave(t) ==
  /\ registry' = registry \ {t}
  /\ UNCHANGED <<result, set, loose, created, swept, now>>

(* The first or the second look at the row finds it settled.               *)
Told(t) ==
  /\ t \in settled
  /\ Goes(t, "registered", "told") \/ Goes(t, "awake", "told")
  /\ Leave(t)

TimedOut(t) ==
  /\ t \notin settled
  /\ Goes(t, "awake", "timed out")
  /\ Leave(t)

-----------------------------------------------------------------------------
Commit(t) ==
  /\ t \notin settled
  /\ settled' = settled \cup {t}
  /\ UNCHANGED <<waiter, signalled, events, swept, now>>

(* signal_node_task_done, after the commit                                 *)
Signal(t) ==
  /\ t \in settled \ signalled
  /\ signalled' = signalled \cup {t}
  /\ set' = set \cup ({t} \cap registry)
  /\ UNCHANGED <<waiter, settled, registry, loose, created, swept, now>>

Tick ==
  /\ now < MaxTime
  /\ \A t \in Task : /\ waiter[t] \notin {"swept", "registered", "awake"}
                     /\ waiter[t] = "waiting" => t \notin set /\ ~Due(t)
  /\ now' = now + 1
  /\ UNCHANGED <<waiter, result, events, swept>>

Next ==
  \/ \E t \in Task : \/ Sweep(t) \/ Register(t) \/ Wait(t) \/ Wake(t)
                     \/ Told(t) \/ TimedOut(t) \/ Commit(t) \/ Signal(t)
  \/ Tick

Spec == Init /\ [][Next]_vars

-----------------------------------------------------------------------------
(* Properties *)

TypeOK ==
  /\ waiter \in [Task -> {"out", "swept", "registered", "waiting", "awake", "told", "timed out"}]
  /\ {settled, signalled, registry, set, loose} \subseteq SUBSET Task
  /\ created \in [Task -> 0..MaxTime] /\ swept \in 0..MaxTime /\ now \in 0..MaxTime

(* No wake-up is lost: a request that sleeps although its task is settled  *)
(* has an event that is set, or a registered one and a signal to come,     *)
(* whatever sweeps and other requests do; only beyond the limit of the     *)
(* registry it sleeps for the whole timeout.                               *)
NoLostWakeup ==
  \A t \in settled \ loose :
    waiter[t] = "waiting" => t \in set \/ t \in registry \ signalled
=============================================================================
