----------------------------- MODULE Workspaces -----------------------------
(***************************************************************************)
(* The workspace volume of one user on one node: its row in                *)
(* user_workspace_volumes, the volume in the node's Incus pool, and the    *)
(* containers that are created with it and deleted.                        *)
(*                                                                         *)
(* Containers are what they are for the volume: a row that is deleting or  *)
(* not, an instance that has the volume or not, and tasks of the node that *)
(* are executed one by one.  A task whose report is lost is executed again *)
(* when its lease is over, whatever came between.                          *)
(***************************************************************************)
EXTENDS Naturals, Sequences, FiniteSets

CONSTANTS
  Container,  \* ids of containers
  Retention,  \* workspace_retention_days
  MaxTime,    \* bound on the clock
  MaxAsked,   \* bound on the removals that administrators ask for
  MaxFaults   \* bound on failed commands and lost reports

(* Ids are positive; container 1 may be older than the table.              *)
Parameters ==
  /\ 1 \in Container /\ 0 \notin Container
  /\ Retention \in Nat /\ MaxTime \in Nat \ {0}
  /\ MaxAsked \in Nat /\ MaxFaults \in Nat

VARIABLES
  now,       \* the clock
  row,       \* the row: status, lifecycle, cleanup_after
  box,       \* status of a container's row, as far as it matters
  inst,      \* the containers whose instance has the volume
  volume,    \* whether the volume is in the pool
  tasks,     \* open tasks of the node, oldest first
  doing,     \* the task being executed, with its outcome
  reader,    \* who has read the row and is about to remove the volume
  asked,     \* how much of MaxAsked is used
  faults,    \* how much of MaxFaults is used
  used,      \* history: when the last container was deleted
  raced,     \* history: a container was created while a removal was under way
  forced,    \* history: the row of a container was removed by force
  early,     \* history: an unused volume was cleaned up before its time
  unseen     \* history: a removal took a volume that is there for none

vars == <<now, row, box, inst, volume, tasks, doing, reader, asked, faults,
          used, raced, forced, early, unseen>>
history == <<used, raced, forced, early, unseen>>

Lifecycle == {"temporary", "legacy-persistent"}
Idle == [op |-> "none", of |-> 0, lost |-> FALSE, ok |-> TRUE]
Task(op, c) == [op |-> op, of |-> c, lost |-> FALSE, ok |-> TRUE]

(* A container of before the table is there has its row from a migration.  *)
Init ==
  /\ now = 1
  /\ \/ /\ row = [status |-> "none", lifecycle |-> "temporary", cleanup |-> 0]
        /\ box = [c \in Container |-> "none"] /\ inst = {} /\ volume = FALSE
     \/ /\ row = [status |-> "active", lifecycle |-> "legacy-persistent", cleanup |-> 0]
        /\ box = [c \in Container |-> IF c = 1 THEN "live" ELSE "none"]
        /\ inst = {1} /\ volume = TRUE
  /\ tasks = <<>> /\ doing = Idle
  /\ reader = "none"
  /\ asked = 0 /\ faults = 0
  /\ used = 0 /\ raced = FALSE /\ forced = FALSE /\ early = FALSE /\ unseen = FALSE

Fault == faults < MaxFaults /\ faults' = faults + 1
Present == {c \in Container : box[c] \in {"creating", "live", "deleting"}}
Removals == {"admin", "loop"}
Removing == reader # "none" \/ doing.op \in Removals
            \/ \E i \in DOMAIN tasks : tasks[i].op \in Removals

-----------------------------------------------------------------------------
(* Requests *)

(* The row is made active again; its lifecycle and cleanup_after stay.     *)
Create(c) ==
  /\ box[c] = "none" /\ \A d \in Container : d < c => box[d] # "none"
  /\ row' = [row EXCEPT !.status = "active"]
  /\ box' = [box EXCEPT ![c] = "creating"]
  /\ tasks' = Append(tasks, Task("create", c))
  /\ raced' = (raced \/ Removing)
  /\ UNCHANGED <<now, inst, volume, doing, reader, asked, faults, used, forced, early,
                 unseen>>

Delete(c) ==
  /\ box[c] = "live"
  /\ box' = [box EXCEPT ![c] = "deleting"]
  /\ tasks' = Append(tasks, Task("delete", c))
  /\ UNCHANGED <<now, row, inst, volume, doing, reader, asked, faults, history>>

Without(i) == SubSeq(tasks, 1, i - 1) \o SubSeq(tasks, i + 1, Len(tasks))

(* The row goes with its task, of which there is one at most; nothing is   *)
(* said to the volume's row.                                               *)
ForceDelete(c) ==
  /\ box[c] \in {"creating", "deleting"}
  /\ box' = [box EXCEPT ![c] = "gone"]
  /\ \/ (\A i \in DOMAIN tasks : tasks[i].of # c) /\ UNCHANGED tasks
     \/ \E i \in DOMAIN tasks : tasks[i].of = c /\ tasks' = Without(i)
  /\ forced' = TRUE
  /\ UNCHANGED <<now, row, inst, volume, doing, reader, asked, faults, used, raced, early, unseen>>

(* The query of the cleanup loop.                                          *)
Expired == /\ row.lifecycle = "temporary" /\ row.status = "active"
           /\ row.cleanup \in 1..now
           /\ Present = {}

(* The loop, or an administrator, sees a volume that may go ...            *)
Reads(who) ==
  /\ reader = "none"
  /\ who = "loop" => Expired
  /\ who = "admin" => /\ row.status \notin {"none", "removed"}
                      /\ \A c \in Present : box[c] = "deleting"
                      /\ asked < MaxAsked
  /\ reader' = who
  /\ asked' = IF who = "admin" THEN asked + 1 ELSE asked
  /\ UNCHANGED <<now, row, box, inst, volume, tasks, doing, faults, history>>

(* ... and has it removed, whatever the row says by now.                   *)
Writes ==
  /\ reader # "none"
  /\ row' = [row EXCEPT !.status = "removing"]
  /\ tasks' = Append(tasks, Task(reader, 0))
  /\ reader' = "none"
  /\ UNCHANGED <<now, box, inst, volume, doing, asked, faults, history>>

-----------------------------------------------------------------------------
(* The agent *)

(* The oldest task, or one whose lease is over.                            *)
MayStart(i) == tasks[i].lost \/ \A j \in 1..(i - 1) : tasks[j].lost
Start(i) == doing.op = "none" /\ MayStart(i) /\ tasks' = Without(i)
Done(i, ok) == doing' = [tasks[i] EXCEPT !.ok = ok]

(* Mutant: a volume that is in use is removed. *)
RemovedInUse == FALSE
(* Incus keeps a volume that is in use.                                    *)
LeftBehind == volume /\ inst # {}

(* What can be removed is.                                                 *)
Empties(who) ==
  /\ volume' = LeftBehind
  /\ early' = (early \/ (who = "loop" /\ volume /\ inst = {} /\ now < used + Retention))
  /\ unseen' = (unseen /\ LeftBehind)
  /\ UNCHANGED inst

(* The volume is made if it is not there.                                  *)
Execute(i) ==
  /\ Start(i)
  /\ LET t == tasks[i]
     IN \/ /\ t.op = "create" /\ Done(i, TRUE)
           /\ volume' = TRUE /\ inst' = inst \cup {t.of} /\ UNCHANGED <<early, unseen>>
        \/ /\ t.op = "delete" /\ Done(i, TRUE)
           /\ inst' = inst \ {t.of} /\ UNCHANGED <<volume, early, unseen>>
        \/ t.op \in Removals /\ Done(i, ~LeftBehind) /\ Empties(t.op)
  /\ UNCHANGED <<now, row, box, reader, asked, faults, used, raced, forced>>

(* The list of the pool, or of the instances, cannot be read and counts as *)
(* empty: there is nothing to do, which is reported as done.               *)
ExecuteBlind(i) ==
  /\ Start(i)
  /\ Fault
  /\ tasks[i].op \in Removals \cup {"delete"}
  /\ Done(i, TRUE)
  /\ unseen' = (unseen \/ (tasks[i].op \in Removals /\ volume))
  /\ UNCHANGED <<now, row, box, inst, volume, reader, asked, used, raced, forced, early>>

(* A create can fail before or after it has made the volume; a command can *)
(* outlive its timeout, and do what is reported as failed.                 *)
ExecuteFails(i) ==
  /\ Start(i)
  /\ Fault
  /\ Done(i, FALSE)
  /\ LET t == tasks[i]
     IN \/ UNCHANGED <<volume, inst, early, unseen>>
        \/ /\ t.op = "create" /\ UNCHANGED <<early, unseen>>
           /\ volume' = TRUE /\ inst' \in {inst, inst \cup {t.of}}
        \/ /\ t.op = "delete" /\ UNCHANGED <<volume, early, unseen>>
           /\ inst' = inst \ {t.of}
        \/ t.op \in Removals /\ Empties(t.op)
  /\ UNCHANGED <<now, row, box, reader, asked, used, raced, forced>>

(* Mutant: the retention is not added. *)
RetainUntilNow == IF row.lifecycle = "temporary"
                  THEN row' = [row EXCEPT !.cleanup = now] ELSE UNCHANGED row

(* The last container is deleted: the volume is kept for a while.          *)
Retain == IF row.lifecycle = "temporary"
          THEN row' = [row EXCEPT !.cleanup = now + Retention] ELSE UNCHANGED row

Last(c) == \A d \in Present \ {c} : box[d] = "deleting"
Becomes(c, s) == box' = [box EXCEPT ![c] = s]

(* Mutant: only a removal that succeeded is written to the row. *)
RemovalEndsIfOk == /\ row' = IF doing.ok THEN [row EXCEPT !.status = "removed"] ELSE row
                   /\ UNCHANGED <<box, used>>
RemovalEnds == /\ row' = [row EXCEPT !.status = IF doing.ok THEN "removed" ELSE "failed"]
               /\ UNCHANGED <<box, used>>

(* The result of a task whose container is gone is refused.                *)
Report ==
  /\ doing.op # "none"
  /\ doing' = Idle
  /\ \/ doing.op \in Removals /\ RemovalEnds
     \/ doing.op = "create" /\ box[doing.of] = "creating"
        /\ Becomes(doing.of, "live") /\ UNCHANGED <<row, used>>
     \/ doing.op = "delete" /\ box[doing.of] = "deleting"
        /\ IF doing.ok THEN /\ Becomes(doing.of, "gone")
                            /\ IF Last(doing.of) THEN Retain ELSE UNCHANGED row
                            /\ used' = now
           ELSE Becomes(doing.of, "live") /\ UNCHANGED <<row, used>>
     \/ doing.of # 0 /\ box[doing.of] = "gone" /\ UNCHANGED <<row, box, used>>
  /\ UNCHANGED <<now, inst, volume, tasks, reader, asked, faults, raced, forced, early, unseen>>

ReportLost ==
  /\ doing.op # "none"
  /\ Fault
  /\ doing' = Idle
  /\ tasks' = IF doing.of # 0 /\ box[doing.of] = "gone" THEN tasks
              ELSE <<[doing EXCEPT !.lost = TRUE, !.ok = TRUE]>> \o tasks
  /\ UNCHANGED <<now, row, box, inst, volume, reader, asked, history>>

Tick ==
  /\ now < MaxTime
  /\ now' = now + 1
  /\ UNCHANGED <<row, box, inst, volume, tasks, doing, reader, asked, faults, history>>

-----------------------------------------------------------------------------
Next ==
  \/ \E c \in Container : Create(c) \/ Delete(c) \/ ForceDelete(c)
  \/ \E who \in Removals : Reads(who)
  \/ Writes
  \/ \E i \in DOMAIN tasks : Execute(i) \/ ExecuteBlind(i) \/ ExecuteFails(i)
  \/ Report \/ ReportLost \/ Tick

Spec == Init /\ [][Next]_vars

-----------------------------------------------------------------------------
(* Properties *)

TypeOK ==
  /\ now \in 1..MaxTime
  /\ row \in [status : {"none", "active", "removing", "removed", "failed"},
              lifecycle : Lifecycle, cleanup : 0..(MaxTime + Retention)]
  /\ box \in [Container -> {"none", "creating", "live", "deleting", "gone"}]
  /\ inst \subseteq Container /\ (inst # {} => volume)
  /\ asked \in 0..MaxAsked /\ faults \in 0..MaxFaults

(* A volume that nobody uses is cleaned up only when its user's last       *)
(* container on the node was deleted Retention ago, although a create      *)
(* keeps the old cleanup_after; unless a create came in the middle of a    *)
(* removal, or a container's row was removed by force, which leaves the    *)
(* old date in place.                                                      *)
KeptForRetention == early => raced \/ forced

(* A row that says removing has a removal that will say otherwise; and one *)
(* that says removed has no volume, unless a create made it active while   *)
(* the removal was under way, or left an instance behind by force, or the  *)
(* last removal that came to the volume could not see it.                  *)
RowIsTrue ==
  /\ row.status = "removing" => Removing
  /\ row.status = "removed" /\ ~raced /\ ~forced /\ ~unseen => ~volume
=============================================================================
