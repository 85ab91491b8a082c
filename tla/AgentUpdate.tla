----------------------------- MODULE AgentUpdate -----------------------------
(***************************************************************************)
(* Releases of the node agent, and the updater that a timer or a task      *)
(* starts on a node: it asks the backend for a release, downloads it, puts *)
(* it in the place of the agent's binary, restarts the agent, and puts the *)
(* old binary back if the new one does not stay up for three seconds.      *)
(*                                                                         *)
(* Which release is chosen (a target version, or the newest of a channel)  *)
(* changes whenever an administrator likes; here it is any enabled one.    *)
(***************************************************************************)
EXTENDS Naturals

CONSTANTS
  Version,   \* versions of the agent, 1 the one installed by hand
  Build,     \* how often a version can be built
  MaxCuts,   \* bound on how often the updater is cut off
  MaxFaults  \* bound on lost reports and failed commands

(* 0 is no version.                                                        *)
Parameters ==
  /\ 1 \in Version /\ 0 \notin Version
  /\ Build \in Nat /\ MaxCuts \in Nat /\ MaxFaults \in Nat

VARIABLES
  kind,      \* whether a version works, fails at once, or only later
  file,      \* the build of a version that is in the release directory
  release,   \* the build whose checksum the release's row has, or 0
  binary,    \* the version in the agent's place, or 0
  backup,    \* the version in the backup's place, or 0
  agent,     \* the version that runs, or 0
  reported,  \* agent_version of the node's row
  status,    \* agent_update_status of the node's row
  updater,   \* what the updater does, and the build it was offered
  cuts,      \* how much of MaxCuts is used
  faults,    \* how much of MaxFaults is used
  before,    \* history: the version that the last run found in place
  silent,    \* history: the last run could not report how it ended
  again,     \* history: a run began after one that was cut off, or stuck
  stuck      \* history: the last run could not put the old binary back

vars == <<kind, file, release, binary, backup, agent, reported, status, updater,
          cuts, faults, before, silent, again, stuck>>
releases == <<kind, file, release>>
node == <<binary, backup, agent>>
history == <<before, silent, again, stuck>>

Idle == [at |-> "idle", v |-> 0, build |-> 0]

Init ==
  /\ kind \in {k \in [Version -> {"works", "fails", "fails later"}] : k[1] = "works"}
  /\ file = [v \in Version |-> 0] /\ release = [v \in Version |-> 0]
  /\ binary = 1 /\ backup = 0 /\ agent = 1 /\ reported = 1
  /\ status = "idle" /\ updater = Idle
  /\ cuts = 0 /\ faults = 0
  /\ before = 1 /\ silent = FALSE /\ again = FALSE /\ stuck = FALSE

Costs(n) == faults + n <= MaxFaults /\ faults' = faults + n
Fault == Costs(1)

-----------------------------------------------------------------------------
(* The backend *)

(* The compiler has written the file; the row has the checksum of before.  *)
Compile(v) ==
  /\ file[v] < Build
  /\ file' = [file EXCEPT ![v] = @ + 1]
  /\ UNCHANGED <<kind, release, node, reported, status, updater, cuts, faults, history>>

(* The row follows; but not when the build took more than ten minutes.     *)
Publish(v) ==
  /\ file[v] > 0
  /\ release' = [release EXCEPT ![v] = file[v]]
  /\ UNCHANGED <<kind, file, node, reported, status, updater, cuts, faults, history>>

DeleteRelease(v) ==
  /\ release[v] > 0
  /\ release' = [release EXCEPT ![v] = 0]
  /\ UNCHANGED <<kind, file, node, reported, status, updater, cuts, faults, history>>

Configure ==
  /\ status' = "idle"
  /\ UNCHANGED <<releases, node, reported, updater, cuts, faults, history>>

-----------------------------------------------------------------------------
(* The agent *)

Starts(v) == v # 0 /\ kind[v] # "fails"

Heartbeat ==
  /\ agent # 0
  /\ reported' = agent
  /\ UNCHANGED <<releases, node, status, updater, cuts, faults, history>>

Dies ==
  /\ agent # 0 /\ kind[agent] = "fails later"
  /\ agent' = 0
  /\ UNCHANGED <<releases, binary, backup, reported, status, updater, cuts, faults, history>>

(* Restart=always                                                          *)
Respawn ==
  /\ agent = 0 /\ Starts(binary)
  /\ agent' = binary
  /\ UNCHANGED <<releases, binary, backup, reported, status, updater, cuts, faults, history>>

-----------------------------------------------------------------------------
(* The updater *)

Now(step) == updater' = [updater EXCEPT !.at = step]
From(step) == updater.at = step

(* A report that is lost is not repeated.                                  *)
Says(s) == \/ status' = s /\ UNCHANGED faults
           \/ UNCHANGED status /\ Fault
(* The last one, of a run that met n faults.                               *)
Concludes(s, n) ==
  /\ Now("idle")
  /\ \/ status' = s /\ Costs(n) /\ silent' = FALSE
     \/ UNCHANGED status /\ Costs(n + 1) /\ silent' = TRUE

(* The manifest offers a release that is not the version the row has.      *)
Offered(v) ==
  /\ From("idle")
  /\ release[v] > 0 /\ v # reported
  /\ updater' = [at |-> "downloading", v |-> v, build |-> release[v]]
  /\ before' = binary /\ again' = (again \/ cuts > 0 \/ stuck)
  /\ silent' = TRUE /\ stuck' = FALSE
  /\ Says("downloading")
  /\ UNCHANGED <<releases, node, reported, cuts>>

(* What was downloaded has the checksum that was offered.                  *)
Downloaded ==
  /\ From("downloading")
  /\ file[updater.v] = updater.build
  /\ Now("installing") /\ Says("installing")
  /\ UNCHANGED <<releases, node, reported, cuts, history>>

DownloadFails ==
  /\ From("downloading")
  /\ \/ file[updater.v] # updater.build /\ Concludes("failed", 0)
     \/ Concludes("failed", 1)
  /\ UNCHANGED <<releases, node, reported, cuts, before, again, stuck>>

(* Whether the backup can be removed is not looked at.                     *)
DropBackup ==
  /\ From("installing")
  /\ \/ backup' = 0 /\ UNCHANGED faults
     \/ UNCHANGED backup /\ Fault
  /\ Now("dropped")
  /\ UNCHANGED <<releases, binary, agent, reported, status, cuts, history>>

(* Mutant: the agent's binary is overwritten, and not moved away. *)
BackupForgotten ==
  /\ From("dropped") /\ binary # 0
  /\ binary' = 0 /\ UNCHANGED backup
  /\ Now("moved")
  /\ UNCHANGED <<releases, agent, reported, status, cuts, faults, history>>

MakeBackup ==
  /\ From("dropped") /\ binary # 0
  /\ backup' = binary /\ binary' = 0
  /\ Now("moved")
  /\ UNCHANGED <<releases, agent, reported, status, cuts, faults, history>>

(* The run ends, without the backup it has dropped, when the binary cannot *)
(* be moved, or is not there.                                              *)
BackupFails ==
  /\ From("dropped")
  /\ Concludes("failed", IF binary = 0 THEN 0 ELSE 1)
  /\ UNCHANGED <<releases, node, reported, cuts, before, again, stuck>>

Install ==
  /\ From("moved")
  /\ binary' = updater.v
  /\ Now("installed")
  /\ UNCHANGED <<releases, backup, agent, reported, status, cuts, faults, history>>

(* The old binary is put back.  When that fails it stays in the backup's   *)
(* place, and the status is the same.                                      *)
PutBack(s) ==
  \/ binary' = backup /\ backup' = 0 /\ stuck' = FALSE /\ Concludes(s, 0)
  \/ UNCHANGED <<binary, backup>> /\ stuck' = TRUE /\ Concludes(s, 1)

InstallFails ==
  /\ From("moved")
  /\ PutBack("failed")
  /\ UNCHANGED <<releases, agent, reported, cuts, before, again>>

(* systemctl restart, three seconds, systemctl is-active.                  *)
Restarted ==
  /\ From("installed") /\ Starts(binary)
  /\ agent' = binary
  /\ Concludes("updated", 0)
  /\ UNCHANGED <<releases, binary, backup, reported, cuts, before, again, stuck>>

(* The new version does not stay up; or systemctl fails, whatever then     *)
(* runs.                                                                   *)
RestartFails ==
  /\ From("installed")
  /\ \/ ~Starts(binary) /\ agent' = 0 /\ UNCHANGED faults
     \/ agent' \in {0, agent} \cup {v \in {binary} : Starts(v)} /\ Fault
  /\ Now("removing")
  /\ UNCHANGED <<releases, binary, backup, reported, status, cuts, history>>

(* Whether the new binary can be removed is not looked at.                 *)
RemoveBinary ==
  /\ From("removing")
  /\ \/ binary' = 0 /\ UNCHANGED faults
     \/ UNCHANGED binary /\ Fault
  /\ Now("removed")
  /\ UNCHANGED <<releases, backup, agent, reported, status, cuts, history>>

(* Mutant: the new binary is started again. *)
RollsForward ==
  /\ From("removed")
  /\ binary' = updater.v /\ UNCHANGED <<backup, stuck>>
  /\ agent' \in {0} \cup {v \in {binary'} : Starts(v)}
  /\ Concludes("rolled_back", 0)
  /\ UNCHANGED <<releases, reported, cuts, before, again>>

(* The backup is put back and started; neither is looked at when the       *)
(* status is chosen.                                                       *)
RollBack ==
  /\ From("removed")
  /\ PutBack("rolled_back")
  /\ IF stuck' THEN UNCHANGED agent
     ELSE agent' \in {0, agent} \cup {v \in {binary'} : Starts(v)}
  /\ UNCHANGED <<releases, reported, cuts, before, again>>

(* The node goes down, or the updater is killed, in the middle.            *)
Cut ==
  /\ ~From("idle")
  /\ cuts < MaxCuts /\ cuts' = cuts + 1
  /\ Now("idle")
  /\ \/ agent' = 0 \/ UNCHANGED agent
  /\ UNCHANGED <<releases, binary, backup, reported, status, faults, history>>

-----------------------------------------------------------------------------
Next ==
  \/ \E v \in Version : Compile(v) \/ Publish(v) \/ DeleteRelease(v) \/ Offered(v)
  \/ Configure
  \/ Heartbeat \/ Dies \/ Respawn
  \/ Downloaded \/ DownloadFails \/ DropBackup \/ MakeBackup \/ BackupFails
  \/ Install \/ InstallFails
  \/ Restarted \/ RestartFails \/ RemoveBinary \/ RollBack
  \/ Cut

Spec == Init /\ [][Next]_vars

-----------------------------------------------------------------------------
(* Properties *)

TypeOK ==
  /\ file \in [Version -> 0..Build] /\ release \in [Version -> 0..Build]
  /\ {binary, backup, agent} \subseteq Version \cup {0} /\ reported \in Version
  /\ status \in {"idle", "downloading", "installing", "updated", "failed", "rolled_back"}
  /\ updater.at \in {"idle", "downloading", "installing", "dropped", "moved", "installed",
                     "removing", "removed"}
  /\ cuts \in 0..MaxCuts /\ faults \in 0..MaxFaults

(* As long as no release fails only after the three seconds, a version     *)
(* that works is on the disk, in the agent's place or as its backup:       *)
(* through every step of an update, and of one that is cut off or cannot   *)
(* put the old binary back.  A run after such a one may drop the only one. *)
KeepsAWorkingVersion ==
  (\A v \in Version : kind[v] # "fails later") /\ ~again =>
    \E v \in {binary, backup} : v # 0 /\ kind[v] = "works"

(* When a run has ended, and could say how, the binary is the release it   *)
(* was about if the row says updated, and otherwise the one it found; or   *)
(* that one could not be put back, and is in the backup's place.           *)
StatusTellsTheBinary ==
  updater.at = "idle" /\ ~silent =>
    /\ status = "updated" => binary = updater.v
    /\ status \in {"failed", "rolled_back"} =>
         binary = before \/ (stuck /\ backup = before)
=============================================================================
