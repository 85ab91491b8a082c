-------------------------------- MODULE Ports --------------------------------
(***************************************************************************)
(* Port mappings: the rows of container_ports, the proxy devices of the    *)
(* instances of one node, and the port router that listens for the world.  *)
(*                                                                         *)
(* A request works in one transaction: it changes a row, lists the rows of *)
(* the container as the transaction sees them, and enqueues a task with    *)
(* that list; two requests can overlap.  The router reads the routes every *)
(* few seconds.                                                            *)
(***************************************************************************)
EXTENDS Naturals, FiniteSets, SequencesExt

CONSTANTS
  Container,  \* ids of containers, all on one node
  Port,       \* ids of port mappings, in the order in which they are added
  HostPort,   \* public ports
  NodePort,   \* ports of the node
  Requests,   \* how many requests are handled at the same time
  MaxAsked,   \* bound on requests, restarts and connections
  MaxFaults   \* bound on failed commands and lost reports

Parameters ==
  /\ IsFiniteSet(Container) /\ Container \subseteq Nat
  /\ Requests \in Nat /\ MaxAsked \in Nat /\ MaxFaults \in Nat

VARIABLES
  row,      \* the rows of container_ports
  ids,      \* how many ids were given out
  box,      \* whether a container runs
  access,   \* its access_status
  device,   \* the proxy devices of its instance
  drafts,   \* transactions under way: the row, and the list they have seen
  tasks,    \* open tasks incus_sync_ports, oldest first
  router,   \* what it is doing, and the routes it fetched last
  listens,  \* the routes it listens for
  clients,  \* public ports with an open connection
  asked,    \* how much of MaxAsked is used
  faults,   \* how much of MaxFaults is used
  astray,   \* history: containers whose devices need not be their rows
  deaf,     \* history: public ports that the router could not bind
  cluttered \* history: containers of which the last sync left old proxies

vars == <<row, ids, box, access, device, drafts, tasks, router, listens, clients,
          asked, faults, astray, deaf, cluttered>>
proxy == <<router, listens, clients, deaf>>

(* One mapping is of ssh; the others are alike.                            *)
Inside == {"ssh", "web"}
Mapping == [id : Port, of : Container, to : Inside, host : HostPort, node : NodePort]
Route == [id : {0}, of : Container, to : Inside, host : HostPort, node : NodePort]

Init ==
  /\ row = {} /\ ids = 0
  /\ box = [c \in Container |-> "running"]
  /\ access = [c \in Container |-> "ready"]
  /\ device = [c \in Container |-> {}]
  /\ drafts = {} /\ tasks = <<>>
  /\ router = [at |-> "idle", seen |-> {}]
  /\ listens = {} /\ clients = {}
  /\ asked = 0 /\ faults = 0
  /\ astray = {} /\ deaf = {} /\ cluttered = {}

Costs(n) == faults + n <= MaxFaults /\ faults' = faults + n
Fault == Costs(1)
Ask == asked < MaxAsked /\ asked' = asked + 1

RowsOf(c) == {m \in row : m.of = c}
HasSsh(list) == \E m \in list : m.to = "ssh"
Task(c, list) == [of |-> c, list |-> list, lost |-> FALSE]
OpenSync(c) == {i \in DOMAIN tasks : tasks[i].of = c}

-----------------------------------------------------------------------------
(* Requests *)

Reads(c, old, new) ==
  /\ Ask
  /\ Cardinality(drafts) < Requests
  /\ drafts' = drafts \cup {[of |-> c, was |-> RowsOf(c), old |-> old, new |-> new]}
  /\ UNCHANGED <<row, box, access, device, tasks, proxy, faults, astray, cluttered>>

(* create_container_port: the two ports are picked among those that no     *)
(* committed row has.                                                      *)
AddPort(c, to) ==
  /\ ids + 1 \in Port /\ ids' = ids + 1
  /\ \A m \in RowsOf(c) : m.to # to
  /\ \E h \in HostPort \ {m.host : m \in row}, n \in NodePort \ {m.node : m \in row} :
       Reads(c, {}, {[id |-> ids', of |-> c, to |-> to, host |-> h, node |-> n]})

UpdatePort(m, to) ==
  /\ \A o \in RowsOf(m.of) : o.to # to
  /\ Reads(m.of, {m}, {[m EXCEPT !.to = to]})
  /\ UNCHANGED ids

DeletePort(m) == Reads(m.of, {m}, {}) /\ UNCHANGED ids

(* The list has the transaction's own change, and none that others commit  *)
(* while it runs.  Two rows with one public port are refused; two with one *)
(* port of the node are not.                                               *)
Commits(d) ==
  LET list == (d.was \ d.old) \cup d.new
      c == d.of
      runs == box[c] = "running"
  IN /\ d.old \subseteq row
     /\ \A m \in d.new : \A o \in row \ d.old : o.host # m.host
     /\ row' = (row \ d.old) \cup d.new
     /\ tasks' = IF runs THEN Append(tasks, Task(c, list)) ELSE tasks
     /\ access' = IF runs /\ HasSsh(list) THEN [access EXCEPT ![c] = "pending"] ELSE access
     /\ astray' = IF runs /\ RowsOf(c) = d.was THEN astray ELSE astray \cup {c}
     /\ drafts' = drafts \ {d}
     /\ UNCHANGED <<ids, box, device, proxy, asked, faults, cluttered>>

(* The row is not there any more, or the public port is taken.             *)
RollsBack(d) ==
  /\ \/ ~(d.old \subseteq row)
     \/ \E m \in d.new : \E o \in row \ d.old : o.host = m.host
  /\ drafts' = drafts \ {d}
  /\ UNCHANGED <<row, ids, box, access, device, tasks, proxy, asked, faults, astray, cluttered>>

(* The backend starts: every running container that has ports is synced,   *)
(* in the order of the ids, unless a task waits for it.  A task that is    *)
(* claimed does not count: the query asks for the status running, which no *)
(* task has.                                                               *)
Waits(c, claimed) == \E i \in OpenSync(c) : i > claimed /\ ~tasks[i].lost
Unserved(claimed) == {c \in Container : /\ box[c] = "running" /\ RowsOf(c) # {}
                                        /\ ~Waits(c, claimed)}
ById(cs) == \A i, j \in DOMAIN cs : i < j => cs[i] < cs[j]

Restart ==
  /\ Ask
  /\ drafts = {}
  /\ \E claimed \in 0..1 : \E cs \in SetToSeqs(Unserved(claimed)) :
       /\ ById(cs)
       /\ tasks' = tasks \o [i \in DOMAIN cs |-> Task(cs[i], RowsOf(cs[i]))]
  /\ UNCHANGED <<row, ids, box, access, device, drafts, proxy, faults, astray, cluttered>>

-----------------------------------------------------------------------------
(* The node *)

(* A proxy of a running instance holds its port of the node.               *)
Held(c) == UNION {{m.node : m \in device[d]} : d \in {e \in Container \ {c} : box[e] = "running"}}
Clash(c, list) == \/ box[c] = "running" /\ \E m \in list : m.node \in Held(c)
                  \/ \E m \in list, o \in list : m # o /\ m.node = o.node

Turn(c) ==
  /\ Ask
  /\ \/ box[c] = "running" /\ box' = [box EXCEPT ![c] = "stopped"]
     \/ box[c] = "stopped" /\ ~Clash(c, device[c]) /\ box' = [box EXCEPT ![c] = "running"]
  /\ UNCHANGED <<row, ids, access, device, drafts, tasks, proxy, faults, astray, cluttered>>

MayStart(i) == \A j \in 1..(i - 1) : tasks[j].lost
Without(i) == SubSeq(tasks, 1, i - 1) \o SubSeq(tasks, i + 1, Len(tasks))
Overtaken(i) == \E j \in 1..(i - 1) : tasks[j].of = tasks[i].of
Ends(i, s) ==
  /\ tasks' = Without(i)
  /\ access' = IF HasSsh(tasks[i].list) THEN [access EXCEPT ![tasks[i].of] = s] ELSE access

(* The proxies of the instance go, and the listed ones are added.  What    *)
(* cannot be listed or removed stays, which is not looked at, unless a     *)
(* proxy that is added has its port of the node.                           *)
Proxies(c, list, kept) ==
  /\ ~Clash(c, list \cup kept)
  /\ device' = [device EXCEPT ![c] = list \cup kept]
  /\ cluttered' = IF kept = {} THEN cluttered \ {c} ELSE cluttered \cup {c}
Kept(i) == SUBSET (device[tasks[i].of] \ tasks[i].list)
ForKept(kept) == IF kept = {} THEN 0 ELSE 1

(* syncIncusPorts *)
Execute(i) ==
  /\ MayStart(i)
  /\ LET t == tasks[i]
     IN /\ \E kept \in Kept(i) : Proxies(t.of, t.list, kept) /\ Costs(ForKept(kept))
        /\ astray' = IF Overtaken(i) THEN astray \cup {t.of}
                     ELSE IF t.list = RowsOf(t.of) /\ OpenSync(t.of) = {i}
                          THEN astray \ {t.of} ELSE astray
  /\ Ends(i, "ready")
  /\ UNCHANGED <<row, ids, box, drafts, proxy, asked>>

(* It stops at the first that cannot be added.                             *)
Stops(i) ==
  /\ MayStart(i)
  /\ LET t == tasks[i]
     IN /\ \E kept \in Kept(i), some \in SUBSET t.list :
             /\ Proxies(t.of, some, kept)
             /\ Costs(IF Clash(t.of, t.list) THEN ForKept(kept) ELSE 1)
        /\ astray' = astray \cup {t.of}
  /\ UNCHANGED <<row, ids, box, drafts, proxy, asked>>

(* Mutant: the report of a failed sync changes nothing. *)
ExecuteFailsQuietly(i) == Stops(i) /\ tasks' = Without(i) /\ UNCHANGED access
ExecuteFails(i) == Stops(i) /\ Ends(i, "failed")

ExecuteUnheard(i) ==
  /\ MayStart(i) /\ ~tasks[i].lost
  /\ \E kept \in Kept(i) : /\ Proxies(tasks[i].of, tasks[i].list, kept)
                           /\ Costs(1 + ForKept(kept))
  /\ tasks' = [tasks EXCEPT ![i].lost = TRUE]
  /\ UNCHANGED <<row, ids, box, access, drafts, proxy, asked, astray>>

-----------------------------------------------------------------------------
(* The router *)

rest == <<row, ids, box, access, device, drafts, tasks, faults, astray, cluttered>>

(* internal_port_routes, of which the router keeps all but the id.         *)
Routes == {[m EXCEPT !.id = 0] : m \in {o \in row : box[o.of] = "running"}}

Fetch ==
  /\ router.at = "idle"
  /\ router' = [at |-> "closing", seen |-> Routes]
  /\ UNCHANGED <<listens, clients, asked, deaf, rest>>

(* Mutant: a listener is closed when its public port has no route. *)
NoRouteFor(m) == \A o \in router.seen : o.host # m.host
(* A listener whose route is not among the fetched ones, exactly as it is. *)
Outdated(m) == m \notin router.seen

(* The listener is closed; the loop waits for its connections to end.      *)
CloseListener(m) ==
  /\ router.at = "closing" /\ m \in listens /\ Outdated(m)
  /\ listens' = listens \ {m}
  /\ router' = IF m.host \in clients THEN [router EXCEPT !.at = "waiting"] ELSE router
  /\ UNCHANGED <<clients, asked, deaf, rest>>

(* Every route without a listener gets one, if its port can be bound.      *)
OpenListeners ==
  /\ router.at = "closing" /\ ~\E m \in listens : Outdated(m)
  /\ router' = [router EXCEPT !.at = "idle"]
  /\ LET new == {m \in router.seen : \A o \in listens : o.host # m.host}
     IN \/ listens' = listens \cup new /\ deaf' = {}
           /\ UNCHANGED faults
        \/ \E m \in new : /\ listens' = listens \cup (new \ {m})
                          /\ deaf' = {m.host}
           /\ Fault
  /\ UNCHANGED <<row, ids, box, access, device, drafts, tasks, astray, cluttered, clients,
                 asked>>

Connect(m) ==
  /\ Ask
  /\ m \in listens /\ m.host \notin clients
  /\ clients' = clients \cup {m.host}
  /\ UNCHANGED <<router, listens, deaf, rest>>

(* A client ends its connection; nothing makes it.                         *)
Hangup(h) ==
  /\ h \in clients
  /\ clients' = clients \ {h}
  /\ router' = IF router.at = "waiting" /\ \A m \in listens : m.host # h
               THEN [router EXCEPT !.at = "closing"] ELSE router
  /\ UNCHANGED <<listens, asked, deaf, rest>>

-----------------------------------------------------------------------------
Next ==
  \/ \E c \in Container : Turn(c) \/ \E to \in Inside : AddPort(c, to)
  \/ \E m \in row : DeletePort(m) \/ \E to \in Inside : UpdatePort(m, to)
  \/ \E d \in drafts : Commits(d) \/ RollsBack(d)
  \/ Restart
  \/ \E i \in DOMAIN tasks : Execute(i) \/ ExecuteFails(i) \/ ExecuteUnheard(i)
  \/ Fetch \/ OpenListeners
  \/ \E m \in listens : CloseListener(m) \/ Connect(m)
  \/ \E h \in HostPort : Hangup(h)

Spec == Init /\ [][Next]_vars

-----------------------------------------------------------------------------
(* Properties *)

TypeOK ==
  /\ row \subseteq Mapping /\ ids \in {0} \cup Port
  /\ box \in [Container -> {"running", "stopped"}]
  /\ access \in [Container -> {"pending", "ready", "failed"}]
  /\ device \in [Container -> SUBSET Mapping]
  /\ router.at \in {"idle", "closing", "waiting"} /\ router.seen \subseteq Route
  /\ listens \subseteq Route /\ clients \subseteq HostPort
  /\ asked \in 0..MaxAsked /\ faults \in 0..MaxFaults

(* When no sync is open, an instance has the proxies that its rows name,   *)
(* but for a container whose last change came while it was stopped,        *)
(* overlapped another, failed, or was undone by a task executed again; and *)
(* it has no other ones, unless the last sync could not remove them, which *)
(* it reports as success: those stay until a sync that can.                *)
(* And when the router has caught up with the rows it listens for each     *)
(* route as it is now, and for nothing else, so that a public port never   *)
(* leads to the port of the node that a mapping had before.                *)
PortsLeadHome ==
  /\ \A c \in Container : OpenSync(c) = {} /\ c \notin astray =>
       RowsOf(c) \subseteq device[c] /\ (c \notin cluttered => device[c] = RowsOf(c))
  /\ router.at = "idle" /\ router.seen = Routes =>
       \A m \in Routes \cup listens : m.host \in deaf \/ m \in Routes \cap listens

(* A container whose access is pending has a sync of a list with ssh that  *)
(* will say otherwise, whatever was added or removed meanwhile.            *)
AccessSettles ==
  \A c \in Container : access[c] = "pending" =>
    \E i \in OpenSync(c) : HasSsh(tasks[i].list)
=============================================================================
