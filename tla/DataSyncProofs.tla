--------------------------- MODULE DataSyncProofs ---------------------------
(* Theorems about DataSync and their proofs.                               *)
EXTENDS DataSync, TLAPS

-----------------------------------------------------------------------------
(* The inductive invariant: how the columns of one sync go together.       *)

Unasked(s) == sync[s] = "none" =>
  /\ request[s] = "none" /\ install[s] = "none" /\ data[s] = "none"
  /\ fallback[s] = "none" /\ cleanup[s] = "none"

Waiting(s) == request[s] = "waiting" =>
  sync[s] = "planned" /\ data[s] = "none" /\ fallback[s] = "none" /\ cleanup[s] = "none"

GivenUp(s) == request[s] = "given up" => data[s] = "none" /\ fallback[s] = "none"

UnderWay(s) ==
  /\ data[s] \in Open => sync[s] \in {"planned", "running"} /\ cleanup[s] = "none"
  /\ data[s] # "none" => request[s] = "done"
  /\ \A r \in Run : run[s][r] # "none" => data[s] # "none"

Installed(s) ==
  /\ s \in keys => install[s] \in {"written", "succeeded", "failed"}
  /\ request[s] = "done" /\ install[s] # "none" => install[s] = "succeeded" /\ fallback[s] # "none"
  /\ fallback[s] # "none" => request[s] = "done" /\ install[s] = "succeeded"
  /\ install[s] # "none" => request[s] # "none"

Removed(s) ==
  /\ fallback[s] = "succeeded" => s \notin keys
  /\ fallback[s] \in Settled => s \in expired
  /\ cleanup[s] # "none" => request[s] = "done" /\ install[s] = "succeeded"
  /\ cleanup[s] = "succeeded" => s \notin keys
  /\ sync[s] \in Settled /\ request[s] = "done" /\ install[s] # "none" => cleanup[s] # "none"

Coherent == \A s \in Sync :
  Unasked(s) /\ Waiting(s) /\ GivenUp(s) /\ UnderWay(s) /\ Installed(s) /\ Removed(s)

SyncInv == TypeOK /\ Coherent

(* Before anything was asked for, the columns agree.                       *)
LEMMA InitInv == Init => SyncInv
BY SyncAssumption DEF Init, SyncInv, TypeOK, SyncStatus, RequestState, InstallStatus, DataStatus,
   RemovalStatus, Progress, Coherent, Unasked, Waiting, GivenUp, UnderWay,
   Installed, Removed, Open, Settled, Run

(* Each status is one of its column's.                                     *)
LEMMA Words ==
  /\ "planned" \in SyncStatus /\ "running" \in SyncStatus /\ "succeeded" \in SyncStatus
  /\ "failed" \in SyncStatus
  /\ "waiting" \in RequestState /\ "done" \in RequestState /\ "given up" \in RequestState
  /\ "pending" \in InstallStatus /\ "written" \in InstallStatus /\ "succeeded" \in InstallStatus
  /\ "failed" \in InstallStatus
  /\ "pending" \in DataStatus /\ "claimed" \in DataStatus /\ "gone" \in DataStatus
  /\ "succeeded" \in DataStatus /\ "failed" \in DataStatus
  /\ "pending" \in RemovalStatus /\ "succeeded" \in RemovalStatus
  /\ "failed" \in RemovalStatus
  /\ "none" \in Progress /\ "begun" \in Progress /\ "copied" \in Progress
  /\ "refused" \in Progress
BY DEF SyncStatus, RequestState, InstallStatus, DataStatus, RemovalStatus, Progress, Open, Settled

LEMMA RunTyped ==
  ASSUME TypeOK, NEW s \in Sync, NEW r \in Run, NEW v \in Progress
  PROVE  [run EXCEPT ![s][r] = v] \in [Sync -> [Run -> Progress]]
BY DEF TypeOK

LEMMA FaultTyped ==
  ASSUME TypeOK, \/ Fault
                 \/ \E s \in Sync : Costs(Again(s)) \/ Costs(Again(s) + 1)
  PROVE  faults' \in 0..MaxFaults
<1>1. \A s \in Sync : Again(s) \in Nat
  BY DEF Again
<1>2. \A n \in Nat : Costs(n) => faults' \in 0..MaxFaults
  BY SyncAssumption DEF TypeOK, Costs
<1>3. CASE Fault
  BY <1>2, <1>3 DEF Fault
<1>4. CASE \E s \in Sync : Costs(Again(s)) \/ Costs(Again(s) + 1)
  <2>1. PICK s \in Sync : Costs(Again(s)) \/ Costs(Again(s) + 1)
    BY <1>4
  <2>2. Again(s) \in Nat /\ Again(s) + 1 \in Nat
    BY <1>1
  <2>3. QED
    BY <1>2, <2>1, <2>2
<1>5. QED
  BY <1>3, <1>4

(* A write leaves only lines of syncs.                                     *)
LEMMA WriteTyped ==
  ASSUME TypeOK, NEW lines \in SUBSET Sync, WriteFails(lines)
  PROVE  keys' \subseteq Sync /\ torn' \subseteq Sync
BY DEF TypeOK, WriteFails, Tears

LEMMA CleanupTyped ==
  ASSUME TypeOK, NEW s \in Sync
  PROVE  WithCleanup(s) \in [Sync -> RemovalStatus]
BY Words DEF TypeOK, WithCleanup, Becomes

LEMMA TypeStep == TypeOK /\ [Next]_vars => TypeOK'
<1> SUFFICES ASSUME TypeOK, [Next]_vars PROVE TypeOK'
  OBVIOUS
<1>1. CASE UNCHANGED vars
  BY <1>1 DEF vars, tasks, TypeOK
<1>2. ASSUME NEW s \in Sync, CreateLocal(s) PROVE TypeOK'
  BY <1>2, Words DEF CreateLocal, TypeOK, Becomes
<1>3. ASSUME NEW s \in Sync, Create(s) PROVE TypeOK'
  BY <1>3, Words DEF Create, TypeOK, Becomes
<1>4. ASSUME NEW s \in Sync, GoOn(s) PROVE TypeOK'
  BY <1>4, Words DEF GoOn, TypeOK, Becomes
<1>5. ASSUME NEW s \in Sync, GiveUp(s) PROVE TypeOK'
  <2>1. faults' \in 0..MaxFaults
    BY <1>5, FaultTyped DEF GiveUp, CountsIf, TypeOK
  <2>2. QED
    BY <1>5, <2>1, Words DEF GiveUp, tasks, TypeOK, Becomes
<1>6. ASSUME NEW s \in Sync, RequestDies(s) PROVE TypeOK'
  BY <1>6, Words, FaultTyped DEF RequestDies, tasks, TypeOK, Becomes
<1>7. ASSUME NEW s \in Sync, InstallKey(s) PROVE TypeOK'
  BY <1>7, Words, FaultTyped DEF InstallKey, Installs, AfterInstall, TypeOK, Becomes
<1>8. ASSUME NEW s \in Sync, InstallReported(s) PROVE TypeOK'
  BY <1>8, Words DEF InstallReported, TypeOK, Becomes
<1>9. ASSUME NEW s \in Sync, InstallFails(s) PROVE TypeOK'
  <2>1. AfterInstall(s) \subseteq Sync
    BY DEF AfterInstall, TypeOK
  <2>2. keys' \subseteq Sync /\ torn' \subseteq Sync
    BY <1>9, <2>1, WriteTyped DEF InstallFails
  <2>3. QED
    BY <1>9, <2>2, Words, FaultTyped DEF InstallFails, TypeOK, Becomes
<1>10. ASSUME NEW s \in Sync, Cleanup(s) PROVE TypeOK'
  BY <1>10, Words DEF Cleanup, AfterRemoval, TypeOK, Becomes
<1>11. ASSUME NEW s \in Sync, Fallback(s) PROVE TypeOK'
  BY <1>11, Words DEF Fallback, AfterRemoval, TypeOK, Becomes
<1>12. ASSUME NEW s \in Sync, Week(s) PROVE TypeOK'
  BY <1>12, Words DEF Week, tasks, TypeOK, Becomes
<1>13. ASSUME NEW s \in Sync, Expire(s) PROVE TypeOK'
  BY <1>13, Words, FaultTyped, CleanupTyped DEF Expire, TypeOK, Becomes
<1>14. ASSUME NEW s \in Sync, RemoveContainer(s) PROVE TypeOK'
  BY <1>14, Words, FaultTyped DEF RemoveContainer, TypeOK, Becomes
<1>15. ASSUME NEW s \in Sync, NEW r \in Run, ClaimData(s, r) PROVE TypeOK'
  <2>1. faults' \in 0..MaxFaults
    BY <1>15, FaultTyped DEF ClaimData, CountsIf, TypeOK
  <2>2. QED
    BY <1>15, <2>1, Words, RunTyped DEF ClaimData, TypeOK, Becomes
<1>16. ASSUME NEW s \in Sync, NEW r \in Run, Copy(s, r) PROVE TypeOK'
  <2>1. run' \in [Sync -> [Run -> Progress]]
    <3>1. CASE run' = [run EXCEPT ![s][r] = "copied"]
      BY <3>1, Words, RunTyped
    <3>2. CASE run' = [run EXCEPT ![s][r] = "refused"]
      BY <3>2, Words, RunTyped
    <3>3. QED
      BY <1>16, <3>1, <3>2 DEF Copy
  <2>2. faults' \in 0..MaxFaults
    BY <1>16, FaultTyped DEF Copy, TypeOK
  <2>3. QED
    BY <1>16, <2>1, <2>2 DEF Copy, tasks, TypeOK
<1>17. ASSUME NEW s \in Sync, NEW r \in Run, RunLost(s, r) PROVE TypeOK'
  BY <1>17, Words, RunTyped, FaultTyped DEF RunLost, tasks, TypeOK
<1>18. ASSUME NEW s \in Sync, NEW r \in Run, Report(s, r) PROVE TypeOK'
  <2>1. run' \in [Sync -> [Run -> Progress]] /\ UNCHANGED <<request, keys, expired, torn, faults>>
    BY <1>18, Words, RunTyped DEF Report
  <2>2. CASE data[s] = "gone"
    BY <1>18, <2>1, <2>2 DEF Report, tasks, TypeOK
  <2>3. CASE data[s] # "gone"
    <3> DEFINE v == IF run[s][r] = "copied" THEN "succeeded" ELSE "failed"
    <3>1. v \in SyncStatus /\ v \in DataStatus
      BY Words
    <3>2. /\ data' = Becomes(data, s, v)
          /\ sync' = Becomes(sync, s, v)
          /\ cleanup' = WithCleanup(s)
          /\ UNCHANGED <<install, fallback>>
      BY <1>18, <2>3 DEF Report
    <3>3. QED
      BY <2>1, <3>1, <3>2, CleanupTyped DEF TypeOK, Becomes
  <2>4. QED
    BY <2>2, <2>3
<1>19. ASSUME NEW s \in Sync, InstallKeyUnread(s) PROVE TypeOK'
  <2>1. keys' \subseteq Sync /\ torn' \subseteq Sync
    BY <1>19 DEF InstallKeyUnread, Tears, TypeOK
  <2>2. QED
    BY <1>19, <2>1, Words, FaultTyped DEF InstallKeyUnread, Installs, TypeOK, Becomes
<1>20. ASSUME NEW s \in Sync, CleanupFails(s) \/ FallbackFails(s) PROVE TypeOK'
  <2>1. AfterRemoval(s) \subseteq Sync
    BY DEF AfterRemoval, TypeOK
  <2>2. keys' \subseteq Sync /\ torn' \subseteq Sync
    BY <1>20, <2>1, WriteTyped DEF CleanupFails, FallbackFails
  <2>3. QED
    BY <1>20, <2>2, Words, FaultTyped DEF CleanupFails, FallbackFails, TypeOK, Becomes
<1>21. QED
  BY <1>1, <1>2, <1>3, <1>4, <1>5, <1>6, <1>7, <1>8, <1>9, <1>10, <1>11,
     <1>12, <1>13, <1>14, <1>15, <1>16, <1>17, <1>18, <1>19, <1>20 DEF Next

(* A marker is in its own line.                                            *)
LEMMA MarksItself == \A s \in Sync : Marks(s, s)
BY SyncAssumption DEF Marks

LEMMA CoherentStep == SyncInv /\ [Next]_vars => Coherent'
<1> SUFFICES ASSUME SyncInv, [Next]_vars, NEW u \in Sync
             PROVE  (Unasked(u) /\ Waiting(u) /\ GivenUp(u) /\ UnderWay(u) /\ Installed(u) /\ Removed(u))'
  BY DEF Coherent
<1> DEFINE Goal == (Unasked(u) /\ Waiting(u) /\ GivenUp(u) /\ UnderWay(u) /\ Installed(u) /\ Removed(u))'
<1>0. TypeOK /\ Unasked(u) /\ Waiting(u) /\ GivenUp(u) /\ UnderWay(u) /\ Installed(u) /\ Removed(u)
  BY DEF SyncInv, Coherent
<1> USE <1>0 DEF TypeOK, Unasked, Waiting, GivenUp, UnderWay, Installed, Removed, Becomes, Open, Settled
<1> HIDE DEF SyncInv
<1>1. CASE UNCHANGED vars
  BY <1>1 DEF vars, tasks
<1>2. ASSUME NEW s \in Sync, CreateLocal(s) PROVE Goal
  BY <1>2 DEF CreateLocal
<1>3. ASSUME NEW s \in Sync, Create(s) PROVE Goal
  BY <1>3 DEF Create
<1>4. ASSUME NEW s \in Sync, GoOn(s) PROVE Goal
  BY <1>4 DEF GoOn
<1>5. ASSUME NEW s \in Sync, GiveUp(s) PROVE Goal
  BY <1>5 DEF GiveUp, tasks
<1>6. ASSUME NEW s \in Sync, RequestDies(s) PROVE Goal
  BY <1>6 DEF RequestDies, tasks
<1>7. ASSUME NEW s \in Sync, InstallKey(s) PROVE Goal
  BY <1>7 DEF InstallKey, Installs, AfterInstall
<1>8. ASSUME NEW s \in Sync, InstallReported(s) PROVE Goal
  BY <1>8 DEF InstallReported
<1>9. ASSUME NEW s \in Sync, InstallFails(s) PROVE Goal
  BY <1>9 DEF InstallFails, WriteFails, AfterInstall
<1>10. ASSUME NEW s \in Sync, Cleanup(s) PROVE Goal
  BY <1>10, MarksItself DEF Cleanup, AfterRemoval
<1>11. ASSUME NEW s \in Sync, Fallback(s) PROVE Goal
  BY <1>11, MarksItself DEF Fallback, AfterRemoval
<1>12. ASSUME NEW s \in Sync, Week(s) PROVE Goal
  BY <1>12 DEF Week, tasks
<1>13. ASSUME NEW s \in Sync, Expire(s) PROVE Goal
  BY <1>13 DEF Expire, WithCleanup, NeedsKey
<1>14. ASSUME NEW s \in Sync, RemoveContainer(s) PROVE Goal
  BY <1>14 DEF RemoveContainer
<1>15. ASSUME NEW s \in Sync, NEW r \in Run, ClaimData(s, r) PROVE Goal
  BY <1>15 DEF ClaimData
<1>16. ASSUME NEW s \in Sync, NEW r \in Run, Copy(s, r) PROVE Goal
  BY <1>16 DEF Copy, tasks
<1>17. ASSUME NEW s \in Sync, NEW r \in Run, RunLost(s, r) PROVE Goal
  BY <1>17 DEF RunLost, tasks
<1>18. ASSUME NEW s \in Sync, NEW r \in Run, Report(s, r) PROVE Goal
  <2>1. CASE data[s] = "gone"
    BY <1>18, <2>1 DEF Report, tasks
  <2>2. CASE data[s] # "gone"
    <3>1. PICK v \in {"succeeded", "failed"} :
            data' = [data EXCEPT ![s] = v] /\ sync' = [sync EXCEPT ![s] = v]
      BY <1>18, <2>2 DEF Report
    <3>2. /\ cleanup' = IF install[s] # "none" THEN [cleanup EXCEPT ![s] = "pending"] ELSE cleanup
          /\ UNCHANGED <<install, fallback, request, keys, expired>>
      BY <1>18, <2>2 DEF Report, WithCleanup, NeedsKey
    <3>3. CASE u = s
      <4>1. /\ data[s] # "none" /\ data'[s] = v /\ sync'[s] = v
            /\ cleanup'[s] = IF install[s] # "none" THEN "pending" ELSE cleanup[s]
        BY <1>18, <3>1, <3>2, <3>3 DEF Report
      <4>2. request'[s] = request[s] /\ install'[s] = install[s] /\ fallback'[s] = fallback[s]
            /\ (s \in keys' <=> s \in keys) /\ (s \in expired' <=> s \in expired)
        BY <3>2
      <4>3. v # "none" /\ v # "planned" /\ v \notin {"pending", "claimed"}
        BY <3>1
      <4>4. QED
        BY <3>3, <4>1, <4>2, <4>3
    <3>4. CASE u # s
      <4>1. data'[u] = data[u] /\ sync'[u] = sync[u] /\ cleanup'[u] = cleanup[u]
        BY <3>1, <3>2, <3>4
      <4>2. run'[u] = run[u]
        BY <1>18, <3>4 DEF Report
      <4>3. QED
        BY <3>2, <4>1, <4>2
    <3>5. QED
      BY <3>3, <3>4
  <2>3. QED
    BY <2>1, <2>2
<1>19. ASSUME NEW s \in Sync, InstallKeyUnread(s) PROVE Goal
  BY <1>19 DEF InstallKeyUnread, Installs
<1>20. ASSUME NEW s \in Sync, CleanupFails(s) PROVE Goal
  BY <1>20 DEF CleanupFails, WriteFails, AfterRemoval
<1>21. ASSUME NEW s \in Sync, FallbackFails(s) PROVE Goal
  BY <1>21 DEF FallbackFails, WriteFails, AfterRemoval
<1>22. QED
  BY <1>1, <1>2, <1>3, <1>4, <1>5, <1>6, <1>7, <1>8, <1>9, <1>10, <1>11,
     <1>12, <1>13, <1>14, <1>15, <1>16, <1>17, <1>18, <1>19, <1>20, <1>21 DEF Next

LEMMA InvStep == SyncInv /\ [Next]_vars => SyncInv'
BY TypeStep, CoherentStep DEF SyncInv

(* The columns of every sync go together in every state.                   *)
THEOREM Invariant == Spec => []SyncInv
<1>1. QED
  BY InitInv, InvStep, PTL DEF Spec

(* Every column holds what it may.                                         *)
THEOREM TypeCorrect == Spec => []TypeOK
<1>1. SyncInv => TypeOK
  BY DEF SyncInv
<1>2. QED
  BY Invariant, <1>1, PTL

(* No key is forgotten, whatever is lost, late or dead, but by a request   *)
(* that gave up on it.                                                     *)
THEOREM NoKeyForgotten == Spec => []KeyIsLookedAfter
<1>1. SyncInv => KeyIsLookedAfter
  BY DEF SyncInv, Coherent, TypeOK, RequestState, RemovalStatus, KeyIsLookedAfter, Unasked,
         Installed, Removed, Settled
<1>2. QED
  BY Invariant, <1>1, PTL

(* What has ended stays ended: a claim and a progress report find only     *)
(* tasks of syncs that go on.                                              *)
THEOREM EndedStaysEnded == Spec => SettledStays
<1>1. ASSUME SyncInv, [Next]_vars, NEW s \in Sync, sync[s] \in Settled
      PROVE  sync'[s] \in Settled
  <2> USE <1>1 DEF SyncInv, TypeOK, Becomes, Settled
  <2>1. ~ data[s] \in Open /\ sync[s] # "none" /\ request[s] # "waiting"
    BY DEF Coherent, Unasked, Waiting, UnderWay
  <2>2. CASE UNCHANGED vars
    BY <2>2 DEF vars
  <2>3. ASSUME NEW u \in Sync, CreateLocal(u) \/ Create(u) PROVE sync'[s] \in Settled
    BY <2>1, <2>3 DEF CreateLocal, Create
  <2>4. ASSUME NEW u \in Sync, GoOn(u) \/ GiveUp(u) \/ RequestDies(u) PROVE sync'[s] \in Settled
    BY <2>1, <2>4 DEF GoOn, GiveUp, RequestDies
  <2>5. ASSUME NEW u \in Sync, InstallKey(u) \/ InstallKeyUnread(u) \/ InstallReported(u)
                               \/ InstallFails(u)
        PROVE  sync'[s] \in Settled
    BY <2>5 DEF InstallKey, InstallKeyUnread, InstallReported, InstallFails
  <2>6. ASSUME NEW u \in Sync, Cleanup(u) \/ CleanupFails(u) \/ Fallback(u)
                               \/ FallbackFails(u) \/ Week(u)
        PROVE  sync'[s] \in Settled
    BY <2>6 DEF Cleanup, CleanupFails, Fallback, FallbackFails, Week
  <2>7. ASSUME NEW u \in Sync, Expire(u) PROVE sync'[s] \in Settled
    BY <2>7 DEF Expire
  <2>8. ASSUME NEW u \in Sync, RemoveContainer(u) PROVE sync'[s] \in Settled
    BY <2>8 DEF RemoveContainer
  <2>9. ASSUME NEW u \in Sync, NEW r \in Run, ClaimData(u, r) PROVE sync'[s] \in Settled
    BY <2>1, <2>9 DEF ClaimData
  <2>10. ASSUME NEW u \in Sync, NEW r \in Run, Copy(u, r) \/ RunLost(u, r)
         PROVE  sync'[s] \in Settled
    BY <2>10 DEF Copy, RunLost
  <2>11. ASSUME NEW u \in Sync, NEW r \in Run, Report(u, r) PROVE sync'[s] \in Settled
    BY <2>11 DEF Report
  <2>12. QED
    BY <1>1, <2>2, <2>3, <2>4, <2>5, <2>6, <2>7, <2>8, <2>9, <2>10, <2>11 DEF Next
<1>2. SyncInv /\ [Next]_vars =>
        [\A s \in Sync : sync[s] \in Settled => sync'[s] \in Settled]_sync
  BY <1>1
<1>3. QED
  BY Invariant, <1>2, PTL DEF Spec, SettledStays

-----------------------------------------------------------------------------
(* Where no id begins with another, a key that was installed stays until   *)
(* its own removal, unless the file could not be read or written.          *)
Apart == \A s, u \in Sync : Marks(s, u) => s = u

Kept == \A s \in Sync \ torn :
  install[s] \in {"written", "succeeded"} /\ s \notin expired /\ cleanup[s] = "none" => s \in keys

LEMMA KeptStep == ASSUME Apart PROVE SyncInv /\ Kept /\ [Next]_vars => Kept'
<1> SUFFICES ASSUME SyncInv, Kept, [Next]_vars, NEW u \in Sync, u \notin torn',
                    (install[u] \in {"written", "succeeded"} /\ u \notin expired /\ cleanup[u] = "none")'
             PROVE  u \in keys'
  BY DEF Kept
<1>0. TypeOK /\ Removed(u)
  BY DEF SyncInv, Coherent
<1> USE <1>0 DEF TypeOK, Becomes, Removed
<1>1. CASE UNCHANGED vars
  BY <1>1 DEF vars, tasks, Kept
<1>2. ASSUME NEW s \in Sync, CreateLocal(s) \/ GoOn(s) PROVE u \in keys'
  BY <1>2 DEF CreateLocal, GoOn, Kept
<1>3. ASSUME NEW s \in Sync, Create(s) PROVE u \in keys'
  BY <1>3 DEF Create, Kept
<1>4. ASSUME NEW s \in Sync, GiveUp(s) \/ RequestDies(s) PROVE u \in keys'
  BY <1>4 DEF GiveUp, RequestDies, tasks, Kept
<1>5. ASSUME NEW s \in Sync, InstallKey(s) PROVE u \in keys'
  BY <1>5 DEF InstallKey, Installs, AfterInstall, Kept, Apart
<1>6. ASSUME NEW s \in Sync, InstallReported(s) PROVE u \in keys'
  BY <1>6 DEF InstallReported, Kept
<1>7. ASSUME NEW s \in Sync, Cleanup(s) PROVE u \in keys'
  BY <1>7 DEF Cleanup, AfterRemoval, Kept, Apart
<1>8. ASSUME NEW s \in Sync, Fallback(s) PROVE u \in keys'
  BY <1>8 DEF Fallback, AfterRemoval, Kept, Apart
<1>9. ASSUME NEW s \in Sync, Week(s) PROVE u \in keys'
  BY <1>9 DEF Week, tasks, Kept
<1>10. ASSUME NEW s \in Sync, Expire(s) PROVE u \in keys'
  BY <1>10 DEF Expire, WithCleanup, Kept
<1>11. ASSUME NEW s \in Sync, RemoveContainer(s) PROVE u \in keys'
  BY <1>11 DEF RemoveContainer, Kept
<1>12. ASSUME NEW s \in Sync, NEW r \in Run, ClaimData(s, r) PROVE u \in keys'
  BY <1>12 DEF ClaimData, Kept
<1>13. ASSUME NEW s \in Sync, NEW r \in Run, Copy(s, r) \/ RunLost(s, r) PROVE u \in keys'
  BY <1>13 DEF Copy, RunLost, tasks, Kept
<1>14. ASSUME NEW s \in Sync, NEW r \in Run, Report(s, r) PROVE u \in keys'
  BY <1>14 DEF Report, WithCleanup, tasks, Kept
<1>15. ASSUME NEW s \in Sync, InstallKeyUnread(s) \/ InstallFails(s) PROVE u \in keys'
  BY <1>15 DEF InstallKeyUnread, InstallFails, Installs, WriteFails, Tears, Kept
<1>16. ASSUME NEW s \in Sync, CleanupFails(s) \/ FallbackFails(s) PROVE u \in keys'
  BY <1>16 DEF CleanupFails, FallbackFails, WriteFails, Tears, Kept
<1>17. QED
  BY <1>1, <1>2, <1>3, <1>4, <1>5, <1>6, <1>7, <1>8, <1>9, <1>10, <1>11, <1>12,
     <1>13, <1>14, <1>15, <1>16
  DEF Next

(* Every run of a sync that goes on finds its key, when no id begins with  *)
(* another; the agent's comparison of markers needs that.                  *)
THEOREM RunsFindTheirKey == ASSUME Apart PROVE Spec => []RunHasItsKey
<1>1. Init => Kept
  BY DEF Init, Kept
<1>2. SyncInv /\ Kept /\ [Next]_vars => Kept'
  BY KeptStep
<1>3. SyncInv /\ Kept => RunHasItsKey
  BY DEF SyncInv, Coherent, UnderWay, Installed, Kept, RunHasItsKey, NeedsKey, Open
<1>4. QED
  BY Invariant, <1>1, <1>2, <1>3, PTL DEF Spec
=============================================================================
