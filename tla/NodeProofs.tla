------------------------------ MODULE NodeProofs ------------------------------
(***************************************************************************)
(* Theorems about what connects a node to the backend, and their proofs:   *)
(* the updates of its agent (AgentUpdate, in Platform A), then the         *)
(* requests that wait for its tasks (TaskEvents, E).                       *)
(***************************************************************************)
EXTENDS Platform, Naturals, TLAPS
-----------------------------------------------------------------------------
(* Updates of the agent: the inductive invariant.                          *)

Step == {"idle", "downloading", "installing", "dropped", "moved", "installed", "removing",
         "removed"}

AgentTyped ==
  /\ kind_A \in [Version -> {"works", "fails", "fails later"}]
  /\ file \in [Version -> Nat] /\ release \in [Version -> Nat]
  /\ binary \in Version \cup {0} /\ backup \in Version \cup {0}
  /\ updater \in [at : Step, v : Version \cup {0}, build : Nat]
  /\ cuts \in Nat

(* A place on the disk holds a version that works.                         *)
Good(v) == v \in Version /\ kind_A[v] = "works"

(* Where the version that works is, at every step of a run.  A run that is *)
(* cut off leaves it in either place, and one that cannot put it back in   *)
(* the backup's; both are remembered.                                      *)
Kept ==
  /\ A!From("idle") => Good(binary) \/ ((cuts > 0 \/ stuck) /\ Good(backup))
  /\ A!From("downloading") \/ A!From("installing") \/ A!From("dropped") => Good(binary)
  /\ A!From("moved") \/ A!From("installed") \/ A!From("removing") \/ A!From("removed") => Good(backup)

(* No version passes the three seconds and fails after them.               *)
Honest == \A v \in Version : kind_A[v] # "fails later"

UpdateInv == AgentTyped /\ (Honest /\ ~again => Kept)

(* Builds and cuts are counted upwards.                                    *)
LEMMA Successor == ASSUME NEW n \in Nat PROVE n + 1 \in Nat /\ n + 1 > 0
OBVIOUS

LEMMA UpdateInvInit == A!Parameters => (A!Init => UpdateInv)
<1> SUFFICES ASSUME A!Parameters, A!Init PROVE UpdateInv
  OBVIOUS
<1>1. updater = [at |-> "idle", v |-> 0, build |-> 0]
  BY DEF A!Init, A!Idle
<1>2. Good(binary)
  BY DEF A!Parameters, A!Init, Good
<1>3. AgentTyped
  <2>1. updater \in [at : Step, v : Version \cup {0}, build : Nat]
    BY <1>1 DEF Step
  <2>2. kind_A \in [Version -> {"works", "fails", "fails later"}]
    BY DEF A!Init
  <2>3. file \in [Version -> Nat] /\ release \in [Version -> Nat]
    BY DEF A!Init
  <2>4. QED
    BY <2>1, <2>2, <2>3 DEF A!Parameters, A!Init, AgentTyped
<1>4. Kept
  BY <1>1, <1>2 DEF Kept, A!From
<1>5. QED
  BY <1>3, <1>4 DEF UpdateInv

-----------------------------------------------------------------------------
(* The steps.                                                              *)

(* Every step keeps the types.                                             *)
LEMMA TypedStep == ASSUME A!Parameters, AgentTyped, [A!Next]_(A!vars) PROVE AgentTyped'
<1> USE DEF A!Parameters, AgentTyped, Step
<1>1. CASE UNCHANGED A!vars
  BY <1>1 DEF A!vars
<1>2. ASSUME NEW v \in Version, A!Compile(v) \/ A!Publish(v) \/ A!DeleteRelease(v) PROVE AgentTyped'
  <2>1. file' \in [Version -> Nat] /\ release' \in [Version -> Nat]
    <3>1. CASE A!Compile(v)
      <4>1. file' = [file EXCEPT ![v] = file[v] + 1] /\ release' = release
        BY <3>1 DEF A!Compile
      <4>2. file[v] + 1 \in Nat
        BY Successor
      <4>3. QED
        BY <4>1, <4>2
    <3>2. CASE A!Publish(v)
      BY <3>2 DEF A!Publish
    <3>3. CASE A!DeleteRelease(v)
      BY <3>3 DEF A!DeleteRelease
    <3>4. QED
      BY <1>2, <3>1, <3>2, <3>3
  <2>2. UNCHANGED <<kind_A, binary, backup, updater, cuts>>
    BY <1>2 DEF A!Compile, A!Publish, A!DeleteRelease, A!node
  <2>3. QED
    BY <2>1, <2>2
<1>3. ASSUME NEW v \in Version, A!Offered(v) PROVE AgentTyped'
  BY <1>3 DEF A!Offered, A!releases, A!node
<1>4. CASE A!Configure \/ A!Heartbeat \/ A!Dies \/ A!Respawn
  BY <1>4 DEF A!Configure, A!Heartbeat, A!Dies, A!Respawn, A!releases, A!node
<1>5. CASE A!Downloaded \/ A!DownloadFails
  BY <1>5 DEF A!Downloaded, A!DownloadFails, A!Concludes, A!Now, A!releases, A!node
<1>6. CASE A!DropBackup \/ A!MakeBackup \/ A!BackupFails
  BY <1>6 DEF A!DropBackup, A!MakeBackup, A!BackupFails, A!Concludes, A!Now, A!releases, A!node
<1>7. CASE A!Install \/ A!InstallFails
  BY <1>7 DEF A!Install, A!InstallFails, A!PutBack, A!Concludes, A!Now, A!releases
<1>8. CASE A!Restarted \/ A!RestartFails
  BY <1>8 DEF A!Restarted, A!RestartFails, A!Concludes, A!Now, A!releases
<1>9. CASE A!RemoveBinary \/ A!RollBack
  BY <1>9 DEF A!RemoveBinary, A!RollBack, A!PutBack, A!Concludes, A!Now, A!releases
<1>10. CASE A!Cut
  <2>1. UNCHANGED <<kind_A, file, release, binary, backup>>
    BY <1>10 DEF A!Cut, A!releases
  <2>4. cuts' = cuts + 1
    BY <1>10 DEF A!Cut
  <2>2. updater' \in [at : Step, v : Version \cup {0}, build : Nat]
    BY <1>10 DEF A!Cut, A!Now
  <2>3. QED
    BY <2>1, <2>2, <2>4, Successor
<1>11. QED
  BY <1>1, <1>2, <1>3, <1>4, <1>5, <1>6, <1>7, <1>8, <1>9, <1>10 DEF A!Next

(* No step changes what a version does.                                    *)
LEMMA KindsStay == [A!Next]_(A!vars) => kind_A' = kind_A
<1> SUFFICES ASSUME [A!Next]_(A!vars) PROVE kind_A' = kind_A
  OBVIOUS
<1>1. CASE UNCHANGED A!vars
  BY <1>1 DEF A!vars
<1>2. ASSUME NEW v \in Version, A!Compile(v) \/ A!Publish(v) \/ A!DeleteRelease(v) \/ A!Offered(v)
      PROVE  kind_A' = kind_A
  BY <1>2 DEF A!Compile, A!Publish, A!DeleteRelease, A!Offered, A!releases
<1>3. CASE A!Configure \/ A!Heartbeat \/ A!Dies \/ A!Respawn
  BY <1>3 DEF A!Configure, A!Heartbeat, A!Dies, A!Respawn, A!releases
<1>4. CASE A!Downloaded \/ A!DownloadFails \/ A!DropBackup \/ A!MakeBackup \/ A!BackupFails
  BY <1>4 DEF A!Downloaded, A!DownloadFails, A!DropBackup, A!MakeBackup, A!BackupFails, A!releases
<1>5. CASE A!Install \/ A!InstallFails \/ A!Restarted \/ A!RestartFails \/ A!RemoveBinary \/ A!RollBack \/ A!Cut
  BY <1>5 DEF A!Install, A!InstallFails, A!Restarted, A!RestartFails, A!RemoveBinary, A!RollBack,
     A!Cut, A!releases
<1>6. QED
  BY <1>1, <1>2, <1>3, <1>4, <1>5 DEF A!Next

(* No step forgets that a run began after one that was cut off.            *)
LEMMA CutsAreRemembered == [A!Next]_(A!vars) => (again => again')
<1> SUFFICES ASSUME [A!Next]_(A!vars), again PROVE again'
  OBVIOUS
<1>1. CASE UNCHANGED A!vars
  BY <1>1 DEF A!vars
<1>2. ASSUME NEW v \in Version, A!Offered(v) PROVE again'
  BY <1>2 DEF A!Offered
<1>3. ASSUME NEW v \in Version, A!Compile(v) \/ A!Publish(v) \/ A!DeleteRelease(v) PROVE again' = again
  BY <1>3 DEF A!Compile, A!Publish, A!DeleteRelease, A!history
<1>4. CASE A!Configure \/ A!Heartbeat \/ A!Dies \/ A!Respawn
  <2>1. again' = again
    BY <1>4 DEF A!Configure, A!Heartbeat, A!Dies, A!Respawn, A!history
  <2>2. QED
    BY <2>1
<1>5. CASE A!Downloaded \/ A!DownloadFails \/ A!DropBackup \/ A!MakeBackup \/ A!BackupFails
  <2>1. again' = again
    BY <1>5 DEF A!Downloaded, A!DownloadFails, A!DropBackup, A!MakeBackup, A!BackupFails, A!history
  <2>2. QED
    BY <2>1
<1>6. CASE A!Install \/ A!InstallFails \/ A!Restarted \/ A!RestartFails \/ A!RemoveBinary \/ A!RollBack \/ A!Cut
  <2>1. again' = again
    BY <1>6 DEF A!Install, A!InstallFails, A!Restarted, A!RestartFails, A!RemoveBinary,
       A!RollBack, A!PutBack, A!Cut, A!history
  <2>2. QED
    BY <2>1
<1>7. QED
  BY <1>1, <1>2, <1>3, <1>4, <1>5, <1>6 DEF A!Next

(* A run moves the version that works, but never drops the last one.       *)
LEMMA KeptStep ==
  ASSUME A!Parameters, AgentTyped, Honest, ~again, Kept, [A!Next]_(A!vars), ~again'
  PROVE  Kept'
<1> USE DEF A!Parameters, AgentTyped, Step, Kept, A!From, Good
<1>1. kind_A' = kind_A
  BY KindsStay
<1> USE <1>1
<1>2. CASE UNCHANGED A!vars
  BY <1>2 DEF A!vars
<1>3. ASSUME NEW v \in Version, A!Compile(v) \/ A!Publish(v) \/ A!DeleteRelease(v) PROVE Kept'
  BY <1>3 DEF A!Compile, A!Publish, A!DeleteRelease, A!node, A!history
<1>4. ASSUME NEW v \in Version, A!Offered(v) PROVE Kept'
  BY <1>4 DEF A!Offered, A!releases, A!node
<1>5. CASE A!Configure \/ A!Heartbeat \/ A!Dies \/ A!Respawn
  BY <1>5 DEF A!Configure, A!Heartbeat, A!Dies, A!Respawn, A!releases, A!node, A!history
<1>6. CASE A!Downloaded \/ A!DownloadFails
  BY <1>6 DEF A!Downloaded, A!DownloadFails, A!Concludes, A!Now, A!releases, A!node
<1>7. CASE A!DropBackup
  BY <1>7 DEF A!DropBackup, A!Now
<1>8. CASE A!MakeBackup \/ A!BackupFails
  BY <1>8 DEF A!MakeBackup, A!BackupFails, A!Concludes, A!Now, A!node
<1>9. CASE A!Install \/ A!InstallFails
  BY <1>9 DEF A!Install, A!InstallFails, A!PutBack, A!Concludes, A!Now
<1>10. CASE A!Restarted
  <2>1. Good(binary)
    BY <1>10 DEF A!Restarted, A!Starts, Honest
  <2>2. updater'.at = "idle" /\ binary' = binary
    BY <1>10 DEF A!Restarted, A!Concludes, A!Now
  <2>3. QED
    BY <2>1, <2>2
<1>11. CASE A!RestartFails
  BY <1>11 DEF A!RestartFails, A!Now
<1>12. CASE A!RemoveBinary \/ A!RollBack
  BY <1>12 DEF A!RemoveBinary, A!RollBack, A!PutBack, A!Concludes, A!Now
<1>13. CASE A!Cut
  <2>1. Good(binary) \/ Good(backup)
    OBVIOUS
  <2>2. cuts' > 0
    <3>1. cuts' = cuts + 1 /\ cuts \in Nat
      BY <1>13 DEF A!Cut
    <3>2. QED
      BY <3>1, Successor
  <2>3. updater'.at = "idle" /\ binary' = binary /\ backup' = backup
    BY <1>13 DEF A!Cut, A!Now
  <2>4. QED
    BY <2>1, <2>2, <2>3
<1>14. QED
  BY <1>2, <1>3, <1>4, <1>5, <1>6, <1>7, <1>8, <1>9, <1>10, <1>11, <1>12, <1>13 DEF A!Next

LEMMA UpdateInvStep == ASSUME A!Parameters PROVE UpdateInv /\ [A!Next]_(A!vars) => UpdateInv'
<1> SUFFICES ASSUME UpdateInv, [A!Next]_(A!vars) PROVE UpdateInv'
  OBVIOUS
<1>1. AgentTyped'
  BY TypedStep DEF UpdateInv
<1>2. ASSUME Honest', ~again' PROVE Kept'
  <2>1. Honest /\ ~again
    BY <1>2, KindsStay, CutsAreRemembered DEF Honest
  <2>2. QED
    BY <1>2, <2>1, KeptStep DEF UpdateInv
<1>3. QED
  BY <1>1, <1>2 DEF UpdateInv

(* The agent in the platform: its steps are the agent's, or leave it alone. *)
LEMMA AgentMove == Spec => A!Spec
<1>1. Init => A!Init
  BY DEF Init
<1>2. [Next]_vars => [A!Next]_(A!vars)
  BY DEF Next, vars, directories, rules, volumes, hotMounts, ports, updates, waits,
         A!vars
<1>3. QED
  BY <1>1, <1>2, PTL DEF Spec, A!Spec

LEMMA AgentAlways == Spec => []UpdateInv
<1>1. A!Init => UpdateInv
  BY PlatformAssumption, UpdateInvInit
<1>2. UpdateInv /\ [A!Next]_(A!vars) => UpdateInv'
  BY PlatformAssumption, UpdateInvStep
<1>3. QED
  BY <1>1, <1>2, AgentMove, PTL DEF A!Spec

-----------------------------------------------------------------------------
(* As long as no release fails only after the three seconds the updater    *)
(* waits, and no run follows one that was cut off or could not put the old *)
(* binary back, a version that works is on the disk at every step: the     *)
(* updater's order of backup, move and removal never takes the last one.   *)
THEOREM AWorkingVersionIsKept == Spec => []KeepsAWorkingVersion
<1>1. UpdateInv => KeepsAWorkingVersion
  BY PlatformAssumption DEF A!Parameters, UpdateInv, AgentTyped, Step, Honest, Kept, A!From, Good,
     A!KeepsAWorkingVersion, KeepsAWorkingVersion
<1>2. QED
  BY <1>1, AgentAlways, PTL
-----------------------------------------------------------------------------
(* What the row says of a run.                                             *)

(* Where the version is that a run found in place, and the one it brings.  *)
(* A run that has not ended has said nothing yet.                          *)
Placed ==
  /\ silent \in BOOLEAN
  /\ A!From("idle") \/ silent = TRUE
  /\ A!From("idle") /\ silent = FALSE =>
       /\ status = "updated" => binary = updater.v
       /\ status \in {"failed", "rolled_back"} =>
            binary = before \/ (stuck /\ backup = before)
  /\ A!From("downloading") \/ A!From("installing") \/ A!From("dropped") => binary = before
  /\ A!From("moved") \/ A!From("installed") \/ A!From("removing") \/ A!From("removed") => backup = before
  /\ A!From("installed") => binary = updater.v

PlacedInv == AgentTyped /\ Placed

LEMMA PlacedStep == ASSUME A!Parameters, PlacedInv, [A!Next]_(A!vars) PROVE Placed'
<1>0. AgentTyped /\ Placed
  BY DEF PlacedInv
<1> USE DEF AgentTyped, Step, Placed, A!From
<1>1. CASE UNCHANGED A!vars
  BY <1>0, <1>1 DEF A!vars
<1>2. ASSUME NEW v \in Version, A!Compile(v) \/ A!Publish(v) \/ A!DeleteRelease(v) PROVE Placed'
  <2>1. UNCHANGED <<binary, backup, status, updater, before, silent, stuck>>
    BY <1>2 DEF A!Compile, A!Publish, A!DeleteRelease, A!node, A!history
  <2>2. QED
    BY <1>0, <2>1
<1>3. ASSUME NEW v \in Version, A!Offered(v) PROVE Placed'
  BY <1>0, <1>3 DEF A!Offered, A!node
<1>4. CASE A!Configure \/ A!Heartbeat
  BY <1>0, <1>4 DEF A!Configure, A!Heartbeat, A!node, A!history
<1>5. CASE A!Dies \/ A!Respawn
  BY <1>0, <1>5 DEF A!Dies, A!Respawn, A!history
<1>6. CASE A!Downloaded
  BY <1>0, <1>6 DEF A!Downloaded, A!Now, A!node, A!history
<1>7. CASE A!DownloadFails
  BY <1>0, <1>7 DEF A!DownloadFails, A!Concludes, A!Now, A!node
<1>8. CASE A!DropBackup \/ A!MakeBackup
  BY <1>0, <1>8 DEF A!DropBackup, A!MakeBackup, A!Now, A!history
<1>9. CASE A!BackupFails
  BY <1>0, <1>9 DEF A!BackupFails, A!Concludes, A!Now, A!node
<1>10. CASE A!Install
  BY <1>0, <1>10 DEF A!Install, A!Now, A!history
<1>11. CASE A!InstallFails
  BY <1>0, <1>11 DEF A!InstallFails, A!PutBack, A!Concludes, A!Now
<1>12. CASE A!Restarted
  BY <1>0, <1>12 DEF A!Restarted, A!Concludes, A!Now
<1>13. CASE A!RestartFails \/ A!RemoveBinary
  BY <1>0, <1>13 DEF A!RestartFails, A!RemoveBinary, A!Now, A!history
<1>14. CASE A!RollBack
  BY <1>0, <1>14 DEF A!RollBack, A!PutBack, A!Concludes, A!Now
<1>15. CASE A!Cut
  BY <1>0, <1>15 DEF A!Cut, A!Now, A!history
<1>16. QED
  BY <1>1, <1>2, <1>3, <1>4, <1>5, <1>6, <1>7, <1>8, <1>9, <1>10, <1>11, <1>12, <1>13, <1>14,
     <1>15 DEF A!Next

(* When a run could say how it ended, the node's row is right about the    *)
(* binary that is in the agent's place: the release of the run if it says  *)
(* updated, the binary the run found if it failed or was rolled back and   *)
(* that binary could be put back.                                          *)
THEOREM TheRowTellsTheBinary == Spec => []StatusTellsTheBinary
<1>1. A!Init => PlacedInv
  <2> SUFFICES ASSUME A!Init PROVE PlacedInv
    OBVIOUS
  <2>1. AgentTyped
    BY PlatformAssumption, UpdateInvInit DEF UpdateInv
  <2>2. Placed
    BY DEF A!Init, A!Idle, Placed, A!From
  <2>3. QED
    BY <2>1, <2>2 DEF PlacedInv
<1>2. PlacedInv /\ [A!Next]_(A!vars) => PlacedInv'
  BY PlatformAssumption, TypedStep, PlacedStep DEF PlacedInv
<1>3. PlacedInv => StatusTellsTheBinary
  BY DEF PlacedInv, AgentTyped, Placed, A!From, A!StatusTellsTheBinary, StatusTellsTheBinary
<1>4. QED
  BY <1>1, <1>2, <1>3, AgentMove, PTL DEF A!Spec

-----------------------------------------------------------------------------
(* The types and bounds of the node's row, the releases and the binaries.  *)

NodeFits ==
  /\ {binary, backup, agent} \subseteq Version \cup {0} /\ reported \in Version
  /\ status \in {"idle", "downloading", "installing", "updated", "failed", "rolled_back"}

LEMMA BoundsStep == ASSUME A!Parameters, AgentTyped, A!TypeOK, [A!Next]_(A!vars) PROVE A!TypeOK'
<1> USE DEF A!TypeOK, NodeFits
<1>0. /\ updater.v \in Version \cup {0}
      /\ updater' \in [at : Step, v : Version \cup {0}, build : Nat]
  BY TypedStep DEF AgentTyped
<1>00. updater'.at \in {"idle", "downloading", "installing", "dropped", "moved", "installed",
                       "removing", "removed"}
  BY <1>0 DEF Step
<1>1. CASE UNCHANGED A!vars
  BY <1>1 DEF A!vars
<1>2. ASSUME NEW v \in Version, A!Compile(v) \/ A!Publish(v) \/ A!DeleteRelease(v) PROVE A!TypeOK'
  <2>1. file' \in [Version -> 0..Build] /\ release' \in [Version -> 0..Build]
    <3>1. CASE A!Compile(v)
      <4>1. file' = [file EXCEPT ![v] = file[v] + 1] /\ release' = release /\ file[v] < Build
        BY <3>1 DEF A!Compile
      <4>2. file[v] + 1 \in 0..Build
        BY <4>1 DEF A!Parameters
      <4>3. QED
        BY <4>1, <4>2
    <3>2. CASE A!Publish(v)
      BY <3>2 DEF A!Publish
    <3>3. CASE A!DeleteRelease(v)
      BY <3>3 DEF A!DeleteRelease, A!Parameters
    <3>4. QED
      BY <1>2, <3>1, <3>2, <3>3
  <2>2. UNCHANGED <<binary, backup, agent, reported, status, updater, cuts, faults_A>>
    BY <1>2 DEF A!Compile, A!Publish, A!DeleteRelease, A!node
  <2>3. QED
    BY <2>1, <2>2
<1>3. ASSUME ~\E v \in Version : A!Compile(v) \/ A!Publish(v) \/ A!DeleteRelease(v), ~UNCHANGED A!vars
      PROVE  file' = file /\ release' = release
  BY <1>3 DEF A!Next, A!Offered, A!Configure, A!Heartbeat, A!Dies, A!Respawn, A!Downloaded,
     A!DownloadFails, A!DropBackup,
       A!MakeBackup, A!BackupFails, A!Install, A!InstallFails, A!Restarted, A!RestartFails,
       A!RemoveBinary, A!RollBack,
       A!Cut, A!releases
<1>4. faults_A' \in 0..MaxFaults
  <2>0. faults_A \in Nat /\ faults_A <= MaxFaults /\ MaxFaults \in Nat
    BY DEF A!Parameters
  <2>1. CASE faults_A' = faults_A
    BY <2>0, <2>1
  <2>2. ASSUME NEW n \in Nat, A!Costs(n) PROVE faults_A' \in 0..MaxFaults
    BY <2>0, <2>2 DEF A!Costs
  <2>3. ASSUME NEW n \in {0, 1}, NEW s, A!Concludes(s, n) PROVE faults_A' \in 0..MaxFaults
    <3>1. n \in Nat /\ n + 1 \in Nat
      OBVIOUS
    <3>2. QED
      BY <2>2, <2>3, <3>1 DEF A!Concludes
  <2>4. A!Fault => faults_A' \in 0..MaxFaults
    BY <2>2 DEF A!Fault
  <2>5. CASE A!DownloadFails \/ A!BackupFails \/ A!Restarted
    BY <2>3, <2>5 DEF A!DownloadFails, A!BackupFails, A!Restarted
  <2>6. CASE A!InstallFails \/ A!RollBack
    BY <2>3, <2>6 DEF A!InstallFails, A!RollBack, A!PutBack
  <2>7. CASE ~(\/ A!DownloadFails \/ A!BackupFails \/ A!Restarted
               \/ A!InstallFails \/ A!RollBack)
    <3>1. faults_A' = faults_A \/ A!Fault
      BY <2>7 DEF A!Next, A!vars, A!Compile, A!Publish, A!DeleteRelease, A!Offered, A!Says,
         A!Configure, A!Heartbeat, A!Dies, A!Respawn, A!Downloaded, A!DropBackup,
         A!MakeBackup, A!Install, A!RestartFails, A!RemoveBinary, A!Cut
    <3>2. QED
      BY <2>1, <2>4, <3>1
  <2>8. QED
    BY <2>5, <2>6, <2>7
<1>5. cuts' \in 0..MaxCuts
  <2>1. cuts' = cuts \/ (cuts < MaxCuts /\ cuts' = cuts + 1)
    BY DEF A!Next, A!vars, A!Compile, A!Publish, A!DeleteRelease, A!Offered, A!Configure,
       A!Heartbeat, A!Dies,
         A!Respawn, A!Downloaded, A!DownloadFails, A!DropBackup, A!MakeBackup, A!BackupFails,
         A!Install,
         A!InstallFails, A!Restarted, A!RestartFails, A!RemoveBinary, A!RollBack, A!Cut
  <2>2. QED
    BY <2>1 DEF A!Parameters
<1>6. ASSUME ~\E v \in Version : A!Compile(v) \/ A!Publish(v) \/ A!DeleteRelease(v), ~UNCHANGED A!vars
      PROVE  NodeFits'
  <2>1. ASSUME NEW v \in Version, A!Offered(v) PROVE NodeFits'
    BY <2>1 DEF A!Offered, A!Says, A!node
  <2>2. CASE A!Configure \/ A!Heartbeat \/ A!Dies \/ A!Respawn
    BY <2>2 DEF A!Configure, A!Heartbeat, A!Dies, A!Respawn, A!node
  <2>3. CASE A!Downloaded \/ A!DownloadFails
    BY <2>3 DEF A!Downloaded, A!Says, A!DownloadFails, A!Concludes, A!node
  <2>4. CASE A!DropBackup \/ A!MakeBackup \/ A!BackupFails
    BY <2>4 DEF A!DropBackup, A!MakeBackup, A!BackupFails, A!Concludes, A!node
  <2>5. CASE A!Install \/ A!InstallFails
    BY <1>0, <2>5 DEF A!Install, A!InstallFails, A!PutBack, A!Concludes
  <2>6. CASE A!Restarted \/ A!RestartFails
    BY <2>6 DEF A!Restarted, A!RestartFails, A!Concludes
  <2>7. CASE A!RemoveBinary \/ A!RollBack
    BY <2>7 DEF A!RemoveBinary, A!RollBack, A!PutBack, A!Concludes
  <2>8. CASE A!Cut
    BY <2>8 DEF A!Cut
  <2>9. QED
    BY <1>6, <2>1, <2>2, <2>3, <2>4, <2>5, <2>6, <2>7, <2>8 DEF A!Next
<1>7. QED
  BY <1>00, <1>1, <1>2, <1>3, <1>4, <1>5, <1>6

(* Types and bounds: what runs and what the row reports is a version that  *)
(* was built, the status is one of _normalize_agent_update_status.         *)
THEOREM AgentTypeOK == Spec => []A!TypeOK
<1>1. A!Init => AgentTyped /\ A!TypeOK
  <2>0. A!Parameters
    BY PlatformAssumption
  <2> SUFFICES ASSUME A!Init PROVE AgentTyped /\ A!TypeOK
    OBVIOUS
  <2>1. AgentTyped
    BY PlatformAssumption, UpdateInvInit DEF UpdateInv
  <2>2. A!TypeOK
    <3>1. updater.at = "idle"
      BY DEF A!Init, A!Idle
    <3>2. 0 \in 0..Build /\ 0 \in 0..MaxCuts /\ 0 \in 0..MaxFaults
      BY <2>0 DEF A!Parameters
    <3>3. file \in [Version -> 0..Build] /\ release \in [Version -> 0..Build]
      BY <3>2 DEF A!Init
    <3>4. {binary, backup, agent} \subseteq Version \cup {0} /\ reported \in Version
      BY <2>0 DEF A!Init, A!Parameters
    <3>5. cuts \in 0..MaxCuts /\ faults_A \in 0..MaxFaults /\ status = "idle"
      BY <3>2 DEF A!Init
    <3>6. QED
      BY <3>1, <3>3, <3>4, <3>5 DEF A!TypeOK
  <2>3. QED
    BY <2>1, <2>2
<1>2. AgentTyped /\ A!TypeOK /\ [A!Next]_(A!vars) => (AgentTyped /\ A!TypeOK)'
  BY PlatformAssumption, TypedStep, BoundsStep
<1>3. QED
  BY <1>1, <1>2, AgentMove, PTL DEF A!Spec

-----------------------------------------------------------------------------
(* Waiting for the tasks of a node                                         *)

-----------------------------------------------------------------------------
(* The inductive invariant.                                                *)

WaitTyped ==
  /\ waiter \in [Task_E -> {"out", "swept", "registered", "waiting", "awake", "told", "timed out"}]
  /\ created \in [Task_E -> Nat]
  /\ now_E \in Nat
  /\ settled \subseteq Task_E

(* Nobody is over the timeout of its wait.                                 *)
InTime == \A t \in Task_E :
  waiter[t] \in {"registered", "waiting", "awake"} =>
    created[t] <= now_E /\ now_E - created[t] <= Timeout

(* Whoever may still sleep has its event where a signal finds it, unless   *)
(* it never had.                                                           *)
Findable == \A t \in Task_E :
  waiter[t] \in {"registered", "waiting"} /\ t \notin loose => t \in registry

(* Who sleeps in spite of a signal has been sent it.                       *)
Sent == \A t \in Task_E :
  /\ t \in signalled => t \in settled
  /\ waiter[t] = "waiting" /\ t \in signalled /\ t \notin loose => t \in set_E

WaitInv == WaitTyped /\ InTime /\ Findable /\ Sent

LEMMA WaitInvInit == E!Parameters => (E!Init => WaitInv)
BY DEF E!Parameters, E!Init, WaitInv, WaitTyped, InTime, Findable, Sent

(* A sweep takes no event that somebody may still sleep on.                *)
LEMMA SweepKeeps ==
  ASSUME E!Parameters, WaitInv, NEW t \in Task_E, waiter[t] \in {"registered", "waiting"}
  PROVE  t \notin E!Old
<1>1. created[t] \in Nat /\ now_E \in Nat /\ Timeout \in Nat /\ Ttl \in Nat /\ Timeout <= Ttl
  BY DEF E!Parameters, WaitInv, WaitTyped
<1>2. now_E - created[t] <= Timeout
  BY DEF WaitInv, InTime
<1>3. ~(now_E - created[t] > Ttl)
  BY <1>1, <1>2
<1>4. QED
  BY <1>3 DEF E!Old

LEMMA WaitInvStep == ASSUME E!Parameters PROVE WaitInv /\ [E!Next]_(E!vars) => WaitInv'
<1> SUFFICES ASSUME WaitInv, [E!Next]_(E!vars) PROVE WaitInv'
  OBVIOUS
<1> USE DEF E!Parameters
<1>1. CASE UNCHANGED E!vars
  BY <1>1 DEF E!vars, WaitInv, WaitTyped, InTime, Findable, Sent
<1>2. ASSUME NEW t \in Task_E, E!Sweep(t) PROVE WaitInv'
  <2>1. \A u \in Task_E : waiter'[u] \in {"registered", "waiting", "awake"} => waiter'[u] = waiter[u]
    BY <1>2 DEF E!Sweep, E!Goes, WaitInv, WaitTyped
  <2>2. \A u \in Task_E : waiter[u] \in {"registered", "waiting"} /\ u \in registry => u \in registry'
    BY <1>2, SweepKeeps DEF E!Sweep
  <2>3. WaitTyped' /\ InTime'
    <3>1. UNCHANGED <<created, now_E, settled>>
      BY <1>2 DEF E!Sweep, E!result
    <3>2. WaitTyped'
      BY <1>2, <3>1 DEF E!Sweep, E!Goes, WaitInv, WaitTyped
    <3>3. InTime'
      BY <2>1, <3>1 DEF WaitInv, InTime
    <3>4. QED
      BY <3>2, <3>3
  <2>4. Findable' /\ Sent'
    BY <1>2, <2>1, <2>2 DEF E!Sweep, E!result, WaitInv, Findable, Sent
  <2>5. QED
    BY <2>3, <2>4 DEF WaitInv
<1>3. ASSUME NEW t \in Task_E, E!Register(t) PROVE WaitInv'
  <2>1. /\ waiter[t] = "swept" /\ waiter' = [waiter EXCEPT ![t] = "registered"]
        /\ created' = [created EXCEPT ![t] = now_E] /\ UNCHANGED <<E!result, set_E, now_E>>
        /\ \/ loose' = loose \cup {t} /\ registry' = registry
           \/ registry' = registry \cup {t} /\ loose' = loose
    BY <1>3 DEF E!Register, E!Goes
  <2>2. WaitTyped'
    BY <2>1 DEF WaitInv, WaitTyped, E!result
  <2>3. ASSUME NEW u \in Task_E, waiter'[u] \in {"registered", "waiting", "awake"}
        PROVE  created'[u] <= now_E' /\ now_E' - created'[u] <= Timeout
    <3>1. CASE u = t
      <4>1. created'[u] = now_E /\ now_E' = now_E /\ now_E \in Nat
        BY <2>1, <3>1 DEF WaitInv, WaitTyped
      <4>2. QED
        BY <4>1
    <3>2. CASE u # t
      <4>1. created'[u] = created[u] /\ waiter'[u] = waiter[u] /\ now_E' = now_E
        BY <2>1, <3>2 DEF WaitInv, WaitTyped
      <4>2. QED
        BY <2>3, <4>1 DEF WaitInv, InTime
    <3>3. QED
      BY <3>1, <3>2
  <2>4. Findable' /\ Sent'
    BY <2>1 DEF WaitInv, WaitTyped, Findable, Sent, E!result
  <2>5. QED
    BY <2>2, <2>3, <2>4 DEF WaitInv, InTime
<1>4. ASSUME NEW t \in Task_E, E!Wait(t) PROVE WaitInv'
  BY <1>4 DEF E!Wait, E!Goes, E!result, E!events, WaitInv, WaitTyped, InTime, Findable, Sent
<1>5. ASSUME NEW t \in Task_E, E!Wake(t) PROVE WaitInv'
  BY <1>5 DEF E!Wake, E!Goes, E!result, E!events, WaitInv, WaitTyped, InTime, Findable, Sent
<1>6. ASSUME NEW t \in Task_E, E!Told(t) \/ E!TimedOut(t) PROVE WaitInv'
  <2>1. E!Leave(t) /\ waiter' \in {[waiter EXCEPT ![t] = "told"], [waiter EXCEPT ![t] = "timed out"]}
    BY <1>6 DEF E!Told, E!TimedOut, E!Goes
  <2>2. QED
    BY <2>1 DEF E!Leave, E!result, WaitInv, WaitTyped, InTime, Findable, Sent
<1>7. ASSUME NEW t \in Task_E, E!Commit(t) PROVE WaitInv'
  BY <1>7 DEF E!Commit, E!events, WaitInv, WaitTyped, InTime, Findable, Sent
<1>8. ASSUME NEW t \in Task_E, E!Signal(t) PROVE WaitInv'
  BY <1>8 DEF E!Signal, WaitInv, WaitTyped, InTime, Findable, Sent
<1>9. CASE E!Tick
  <2>1. /\ now_E' = now_E + 1 /\ UNCHANGED <<waiter, settled, signalled, registry, set_E, loose, created>>
        /\ \A t \in Task_E : /\ waiter[t] \notin {"registered", "awake"}
                             /\ waiter[t] = "waiting" => ~E!Due(t)
    BY <1>9 DEF E!Tick, E!result, E!events
  <2>2. WaitTyped' /\ Findable' /\ Sent'
    <3>0. now_E \in Nat /\ now_E' = now_E + 1 /\ UNCHANGED <<waiter, settled, created>>
      BY <2>1 DEF WaitInv, WaitTyped
    <3>1. WaitTyped'
      <4>1. now_E' \in Nat
        BY <3>0
      <4>2. QED
        BY <3>0, <4>1 DEF WaitInv, WaitTyped
    <3>2. Findable'
      BY <2>1 DEF WaitInv, Findable
    <3>3. Sent'
      BY <2>1 DEF WaitInv, Sent
    <3>4. QED
      BY <3>1, <3>2, <3>3
  <2>3. ASSUME NEW t \in Task_E, waiter'[t] \in {"registered", "waiting", "awake"}
        PROVE  created'[t] <= now_E' /\ now_E' - created'[t] <= Timeout
    <3>1. waiter[t] \in {"registered", "waiting", "awake"} /\ created'[t] = created[t]
      BY <2>1, <2>3
    <3>2. created[t] \in Nat /\ now_E \in Nat /\ created[t] <= now_E
      BY <3>1 DEF WaitInv, WaitTyped, InTime
    <3>3. ~E!Due(t)
      BY <2>1, <3>1
    <3>4. ~(now_E - created[t] >= Timeout)
      BY <3>1, <3>3 DEF E!Due
    <3>5. now_E' = now_E + 1 /\ Timeout \in Nat
      BY <2>1
    <3>6. QED
      BY <3>1, <3>2, <3>4, <3>5
  <2>4. QED
    BY <2>2, <2>3 DEF WaitInv, InTime
<1>10. QED
  BY <1>1, <1>2, <1>3, <1>4, <1>5, <1>6, <1>7, <1>8, <1>9 DEF E!Next

LEMMA WaitsMove == Spec => E!Spec
<1>1. Init => E!Init
  BY DEF Init
<1>2. [Next]_vars => [E!Next]_(E!vars)
  BY DEF Next, vars, directories, rules, volumes, hotMounts, ports, updates, waits,
         E!vars
<1>3. QED
  BY <1>1, <1>2, PTL DEF Spec, E!Spec

LEMMA WaitsAlways == Spec => []WaitInv
<1>1. E!Init => WaitInv
  BY PlatformAssumption, WaitInvInit
<1>2. WaitInv /\ [E!Next]_(E!vars) => WaitInv'
  BY PlatformAssumption, WaitInvStep
<1>3. QED
  BY <1>1, <1>2, WaitsMove, PTL DEF E!Spec

(* _wait_for_node_task: no request sleeps over its settled task with       *)
(* nothing to wake it, however many requests there are, whatever the limit *)
(* of the registry and its sweeps, as long as events outlive waits.        *)
THEOREM NoWakeupIsLost == Spec => []NoLostWakeup
<1>1. WaitInv => NoLostWakeup
  BY DEF WaitInv, WaitTyped, Findable, Sent, E!NoLostWakeup, NoLostWakeup
<1>2. QED
  BY <1>1, WaitsAlways, PTL

LEMMA TickFits ==
  ASSUME NEW m \in Nat, NEW n \in 0..m, n < m
  PROVE  n + 1 \in 0..m
OBVIOUS

(* The registry, its events and the clock have their types, and no event   *)
(* is dated later than the clock.                                          *)
THEOREM TaskEventsTypeOK == Spec => []E!TypeOK
<1>0. E!Parameters
  BY PlatformAssumption
<1>1. E!Init => E!TypeOK
  BY <1>0 DEF E!Parameters, E!Init, E!TypeOK
<1>2. E!TypeOK /\ [E!Next]_(E!vars) => E!TypeOK'
  <2> SUFFICES ASSUME E!TypeOK, [E!Next]_(E!vars) PROVE E!TypeOK'
    OBVIOUS
  <2> USE DEF E!TypeOK
  <2>1. CASE UNCHANGED E!vars
    BY <2>1 DEF E!vars
  <2>2. ASSUME NEW t \in Task_E, E!Sweep(t) \/ E!Register(t) PROVE E!TypeOK'
    <3>1. /\ waiter' \in {[waiter EXCEPT ![t] = "swept"], [waiter EXCEPT ![t] = "registered"]}
          /\ registry' \subseteq registry \cup {t} /\ loose' \subseteq loose \cup {t}
          /\ created' \in {created, [created EXCEPT ![t] = now_E]}
          /\ swept' \in {swept, now_E} /\ UNCHANGED <<settled, signalled, set_E, now_E>>
      BY <2>2 DEF E!Sweep, E!Register, E!Goes, E!result
    <3>2. waiter' \in [Task_E -> {"out", "swept", "registered", "waiting", "awake", "told", "timed out"}]
      BY <3>1
    <3>3. created' \in [Task_E -> 0..MaxTime] /\ swept' \in 0..MaxTime
      BY <3>1
    <3>4. QED
      BY <3>1, <3>2, <3>3
  <2>3. ASSUME NEW t \in Task_E, E!Wait(t) \/ E!Wake(t) PROVE E!TypeOK'
    BY <2>3 DEF E!Wait, E!Wake, E!Goes, E!result, E!events
  <2>4. ASSUME NEW t \in Task_E, E!Told(t) \/ E!TimedOut(t) PROVE E!TypeOK'
    <3>1. waiter' \in {[waiter EXCEPT ![t] = "told"], [waiter EXCEPT ![t] = "timed out"]}
      BY <2>4 DEF E!Told, E!TimedOut, E!Goes
    <3>2. registry' = registry \ {t} /\ UNCHANGED <<settled, signalled, set_E, loose, created, swept, now_E>>
      BY <2>4 DEF E!Told, E!TimedOut, E!Leave, E!result
    <3>3. QED
      BY <3>1, <3>2
  <2>5. ASSUME NEW t \in Task_E, E!Commit(t) \/ E!Signal(t) PROVE E!TypeOK'
    BY <2>5 DEF E!Commit, E!Signal, E!events
  <2>6. CASE E!Tick
    <3>1. UNCHANGED <<waiter, settled, signalled, registry, set_E, loose, created, swept>>
      BY <2>6 DEF E!Tick, E!result, E!events
    <3>2. now_E' = now_E + 1 /\ now_E < MaxTime /\ now_E \in 0..MaxTime
      BY <2>6 DEF E!Tick
    <3>3. now_E + 1 \in 0..MaxTime
      BY <1>0, <3>2, TickFits DEF E!Parameters
    <3>4. QED
      BY <3>1, <3>2, <3>3
  <2>7. QED
    BY <2>1, <2>2, <2>3, <2>4, <2>5, <2>6 DEF E!Next
<1>3. QED
  BY <1>1, <1>2, WaitsMove, PTL DEF E!Spec
=============================================================================
