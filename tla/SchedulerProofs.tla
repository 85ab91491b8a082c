--------------------------- MODULE SchedulerProofs ---------------------------
(***************************************************************************)
(* What no number of users, GPUs, containers and concurrent requests can   *)
(* bring about.                                                            *)
(*                                                                         *)
(* The argument is about the reads of a request that is not late: however  *)
(* long ago they were made, the ledger has only shrunk since, so what they *)
(* left room for still fits.                                               *)
(***************************************************************************)
EXTENDS Scheduler, FiniteSetTheorems, TLAPS

(* Those that were let in by a check that held when they were written.     *)
Sharing(g) == Holders(g) \ raced
Settled(n) == On(n) \ raced
Accounted(u) == Owned(u) \ raced
Charged(u) == Owned(u) \ (raced \cup granted)

Limits ==
  /\ \A g \in Gpu : Cardinality(Sharing(g)) <= SharingLimit[NodeOf[g]]
  /\ \A n \in Node : Cardinality(Settled(n)) <= MaxContainers[n]
  /\ \A u \in User : Cardinality(Accounted(u)) <= ContainerQuota[u]
  /\ \A u \in User : Cardinality(Held(Charged(u))) <= GpuQuota[u]

(* A create that asked the quota still has room in it.                     *)
RoomInQuota(t) ==
  LET u == req[t].by
  IN req[t].on = None /\ u # None =>
       /\ Cardinality(Accounted(u)) < ContainerQuota[u]
       /\ Cardinality(Held(Charged(u))) + req[t].want <= GpuQuota[u]
       /\ req[t].place # None => Cardinality(req[t].picks) = req[t].want

(* A create that was placed still has room on its node and its GPUs.       *)
RoomOnNode(t) ==
  LET n == req[t].place
  IN req[t].on = None /\ n # None =>
       /\ req[t].by # None
       /\ Cardinality(Settled(n)) < MaxContainers[n]
       /\ \A g \in req[t].picks : Cardinality(Sharing(g)) < SharingLimit[NodeOf[g]]

(* The container that a change is about has been counted all along, and    *)
(* the usage read was no less than what the quota accounts for.            *)
UsageRead(t) ==
  LET c == req[t].on  u == req[t].by
  IN c # None =>
       /\ c \in Counted /\ u # None
       /\ req[t].place = None /\ c \in Charged(u) =>
            Cardinality(Held(Charged(u))) <= req[t].usage

(* A change that was adjusted still fits beside everything else.           *)
RoomForChange(t) ==
  LET c == req[t].on  u == req[t].by
  IN c # None /\ req[t].place # None =>
       /\ c \notin raced =>
            \A g \in req[t].picks :
              Cardinality(Sharing(g) \ {c}) < SharingLimit[NodeOf[g]]
       /\ c \in Charged(u) =>
            Cardinality(Held(Charged(u) \ {c})) + Cardinality(req[t].picks) <= GpuQuota[u]

Current(t) ==
  t \notin late =>
    RoomInQuota(t) /\ RoomOnNode(t) /\ UsageRead(t) /\ RoomForChange(t)

Located == \A c \in Container : st[c] \in Live => node[c] \in Node

IInv ==
  /\ TypeOK
  /\ Located
  /\ Limits
  /\ \A t \in Thread : Current(t)

-----------------------------------------------------------------------------
(* Counting containers and rows of container_gpus.                         *)

LEMMA ContainersFinite ==
  ASSUME NEW S \in SUBSET Container
  PROVE  IsFiniteSet(S) /\ Cardinality(S) \in Nat
  BY SchedulerAssumption, FS_Subset, FS_CardinalityType

LEMMA FewerContainers ==
  ASSUME NEW T \in SUBSET Container, NEW S \in SUBSET T
  PROVE  Cardinality(S) <= Cardinality(T)
  BY ContainersFinite, FS_Subset

LEMMA RowsFinite ==
  ASSUME NEW H \in SUBSET (Container \X Gpu)
  PROVE  IsFiniteSet(H) /\ Cardinality(H) \in Nat
  BY SchedulerAssumption, FS_Product, FS_Subset, FS_CardinalityType

LEMMA FewerRows ==
  ASSUME NEW H \in SUBSET (Container \X Gpu), NEW K \in SUBSET H
  PROVE  Cardinality(K) <= Cardinality(H)
  BY RowsFinite, FS_Subset

LEMMA SomeGpus ==
  ASSUME NEW G \in SUBSET Gpu
  PROVE  IsFiniteSet(G) /\ Cardinality(G) \in Nat
  BY SchedulerAssumption, FS_Subset, FS_CardinalityType

(* The rows of one container are as many as its GPUs.                      *)
LEMMA RowsOfOne ==
  ASSUME NEW c \in Container, NEW G \in SUBSET Gpu
  PROVE  Cardinality({c} \X G) = Cardinality(G)
<1>1. IsFiniteSet({c}) /\ Cardinality({c}) = 1
  BY FS_Singleton
<1>2. IsFiniteSet(G) /\ Cardinality(G) \in Nat
  BY SomeGpus
<1>3. Cardinality({c} \X G) = 1 * Cardinality(G)
  BY <1>1, <1>2, FS_Product
<1>4. QED
  BY <1>2, <1>3

LEMMA OneMoreContainer ==
  ASSUME NEW S \in SUBSET Container, NEW c \in Container,
         NEW T \in SUBSET (S \cup {c})
  PROVE  Cardinality(T) <= Cardinality(S) + 1
<1>1. Cardinality(S \cup {c}) <= Cardinality(S) + 1
  BY ContainersFinite, FS_AddElement
<1>2. Cardinality(T) <= Cardinality(S \cup {c})
  BY FewerContainers
<1>3. QED
  BY <1>1, <1>2, ContainersFinite

LEMMA MoreRows ==
  ASSUME NEW H \in SUBSET (Container \X Gpu), NEW c \in Container,
         NEW G \in SUBSET Gpu, NEW K \in SUBSET (H \cup ({c} \X G))
  PROVE  Cardinality(K) <= Cardinality(H) + Cardinality(G)
<1> DEFINE N == {c} \X G
<1>1. /\ IsFiniteSet(H) /\ Cardinality(H) \in Nat
      /\ IsFiniteSet(N) /\ Cardinality(N) = Cardinality(G)
      /\ Cardinality(G) \in Nat
      /\ Cardinality(H \cap N) \in Nat
  BY RowsFinite, RowsOfOne, SomeGpus
<1>2. Cardinality(H \cup N) = Cardinality(H) + Cardinality(N) - Cardinality(H \cap N)
  BY <1>1, FS_Union
<1>3. Cardinality(K) <= Cardinality(H \cup N) /\ Cardinality(K) \in Nat
  BY FewerRows, RowsFinite
<1>4. QED
  BY <1>1, <1>2, <1>3

(* Without a container that is in C, its rows are missing.                 *)
LEMMA HeldByOthers ==
  ASSUME gpus \in [Container -> SUBSET Gpu],
         NEW C \in SUBSET Container, NEW c \in C
  PROVE  Cardinality(Held(C \ {c})) + Cardinality(gpus[c]) = Cardinality(Held(C))
<1> DEFINE N == {c} \X gpus[c]
<1>1. Held(C) = Held(C \ {c}) \cup N /\ Held(C \ {c}) \cap N = {}
  BY DEF Held
<1>2. Held(C \ {c}) \in SUBSET (Container \X Gpu) /\ N \in SUBSET (Container \X Gpu)
  BY DEF Held
<1>3. Cardinality(N) = Cardinality(gpus[c])
  BY RowsOfOne
<1>4. Cardinality(Held(C)) =
        Cardinality(Held(C \ {c})) + Cardinality(N) - Cardinality({})
  BY <1>1, <1>2, RowsFinite, FS_Union
<1>5. QED
  BY <1>2, <1>3, <1>4, RowsFinite, FS_EmptySet

-----------------------------------------------------------------------------
(* Steps that take nothing more, of what was checked.                      *)

Shrinks ==
  /\ raced \subseteq raced' /\ granted \subseteq granted'
  /\ \A c \in Counted' \ raced' :
       /\ c \in Counted
       /\ owner'[c] = owner[c] /\ node'[c] = node[c] /\ gpus'[c] \subseteq gpus[c]

LEMMA Subsets ==
  ASSUME TypeOK
  PROVE  /\ \A g \in Gpu : Sharing(g) \in SUBSET Container
         /\ \A n \in Node : Settled(n) \in SUBSET Container
         /\ \A u \in User : /\ Accounted(u) \in SUBSET Container
                            /\ Charged(u) \in SUBSET Container
         /\ \A C \in SUBSET Container : Held(C) \in SUBSET (Container \X Gpu)
  BY DEF Sharing, Settled, Accounted, Charged, Held, Holders, On, Owned, Counted

LEMMA ShrinksSets ==
  ASSUME TypeOK, TypeOK', Shrinks
  PROVE  /\ \A g \in Gpu : Sharing(g)' \subseteq Sharing(g)
         /\ \A n \in Node : Settled(n)' \subseteq Settled(n)
         /\ \A u \in User : Accounted(u)' \subseteq Accounted(u)
         /\ \A u \in User : Charged(u)' \subseteq Charged(u)
         /\ \A u \in User : Held(Charged(u))' \subseteq Held(Charged(u))
         /\ \A u \in User, c \in Container :
              Held(Charged(u) \ {c})' \subseteq Held(Charged(u) \ {c})
<1>1. \A g \in Gpu : Sharing(g)' \subseteq Sharing(g)
  BY DEF Shrinks, Sharing, Holders, Counted
<1>2. \A n \in Node : Settled(n)' \subseteq Settled(n)
  BY DEF Shrinks, Settled, On, Counted
<1>3. \A u \in User : Accounted(u)' \subseteq Accounted(u)
  BY DEF Shrinks, Accounted, Owned, Counted
<1>4. \A u \in User : \A c \in Charged(u)' : c \in Charged(u) /\ gpus'[c] \subseteq gpus[c]
  BY DEF Shrinks, Charged, Owned, Counted
<1>5. \A u \in User : Held(Charged(u))' \subseteq Held(Charged(u))
  BY <1>4 DEF Held
<1>6. \A u \in User, c \in Container :
        Held(Charged(u) \ {c})' \subseteq Held(Charged(u) \ {c})
  BY <1>4 DEF Held
<1>7. QED
  BY <1>1, <1>2, <1>3, <1>4, <1>5, <1>6

CountsShrink ==
  /\ \A g \in Gpu : Cardinality(Sharing(g)') <= Cardinality(Sharing(g))
  /\ \A g \in Gpu, c \in Container :
       Cardinality(Sharing(g)' \ {c}) <= Cardinality(Sharing(g) \ {c})
  /\ \A n \in Node : Cardinality(Settled(n)') <= Cardinality(Settled(n))
  /\ \A u \in User : Cardinality(Accounted(u)') <= Cardinality(Accounted(u))
  /\ \A u \in User : Cardinality(Held(Charged(u))') <= Cardinality(Held(Charged(u)))
  /\ \A u \in User, c \in Container :
       Cardinality(Held(Charged(u) \ {c})') <= Cardinality(Held(Charged(u) \ {c}))

LEMMA ShrinksCounts ==
  ASSUME TypeOK, TypeOK', Shrinks
  PROVE  CountsShrink
<1>1. \A g \in Gpu : /\ Sharing(g) \in SUBSET Container
                     /\ Sharing(g)' \in SUBSET Sharing(g)
  BY Subsets, ShrinksSets
<1>2. \A g \in Gpu, c \in Container :
        /\ Sharing(g) \ {c} \in SUBSET Container
        /\ Sharing(g)' \ {c} \in SUBSET (Sharing(g) \ {c})
  BY <1>1
<1>3. \A n \in Node : Settled(n) \in SUBSET Container /\ Settled(n)' \in SUBSET Settled(n)
  BY Subsets, ShrinksSets
<1>4. \A u \in User : /\ Accounted(u) \in SUBSET Container
                      /\ Accounted(u)' \in SUBSET Accounted(u)
  BY Subsets, ShrinksSets
<1>5. \A u \in User : /\ Held(Charged(u)) \in SUBSET (Container \X Gpu)
                      /\ Held(Charged(u))' \in SUBSET Held(Charged(u))
  BY Subsets, ShrinksSets
<1>6. \A u \in User, c \in Container :
        /\ Held(Charged(u) \ {c}) \in SUBSET (Container \X Gpu)
        /\ Held(Charged(u) \ {c})' \in SUBSET Held(Charged(u) \ {c})
  <2>1. \A u \in User, c \in Container : Charged(u) \ {c} \in SUBSET Container
    BY Subsets
  <2>2. QED
    BY <2>1, Subsets, ShrinksSets
<1>7. QED
  BY <1>1, <1>2, <1>3, <1>4, <1>5, <1>6, FewerContainers, FewerRows
     DEF CountsShrink

(* The counts are numbers.                                                 *)
CountsNat ==
  /\ \A g \in Gpu : Cardinality(Sharing(g)) \in Nat
  /\ \A g \in Gpu, c \in Container : Cardinality(Sharing(g) \ {c}) \in Nat
  /\ \A n \in Node : Cardinality(Settled(n)) \in Nat
  /\ \A u \in User : Cardinality(Accounted(u)) \in Nat
  /\ \A u \in User : Cardinality(Held(Charged(u))) \in Nat
  /\ \A u \in User, c \in Container : Cardinality(Held(Charged(u) \ {c})) \in Nat

LEMMA Counts ==
  ASSUME TypeOK
  PROVE  CountsNat
<1>1. \A g \in Gpu, c \in Container : Sharing(g) \ {c} \in SUBSET Container
  BY Subsets
<1>2. \A u \in User, c \in Container : Charged(u) \ {c} \in SUBSET Container
  BY Subsets
<1>3. \A C \in SUBSET Container : Cardinality(Held(C)) \in Nat
  BY Subsets, RowsFinite
<1>4. QED
  BY <1>1, <1>2, <1>3, Subsets, ContainersFinite DEF CountsNat

LEMMA LimitsShrink ==
  ASSUME TypeOK, TypeOK', Shrinks, Limits
  PROVE  Limits'
<1>1. CountsNat'
  BY Counts, PTL
<1>2. CountsNat /\ CountsShrink
  BY Counts, ShrinksCounts
<1>3. QED
  BY <1>1, <1>2, SchedulerAssumption DEF Limits, CountsNat, CountsShrink

(* What such a step does not put in doubt.                                 *)
LEMMA CurrentShrinks ==
  ASSUME TypeOK, TypeOK', Shrinks, NEW t \in Thread, Current(t),
         req'[t] = req[t], t \notin late' => t \notin late,
         t \notin late' /\ req[t].on # None => req[t].on \in Counted'
  PROVE  Current(t)'
<1> PICK c \in Container \cup {None}, u \in User \cup {None}, n \in Node \cup {None} :
      req[t].on = c /\ req[t].by = u /\ req[t].place = n
  BY DEF TypeOK, Request
<1> SUFFICES ASSUME t \notin late'
             PROVE  (RoomInQuota(t) /\ RoomOnNode(t) /\ UsageRead(t) /\ RoomForChange(t))'
  BY DEF Current
<1>0. RoomInQuota(t) /\ RoomOnNode(t) /\ UsageRead(t) /\ RoomForChange(t)
  BY DEF Current
<1>1. /\ req[t].want \in Nat /\ req[t].usage \in Nat /\ req[t].picks \in SUBSET Gpu
  BY DEF TypeOK, Request
<1>2. Cardinality(req[t].picks) \in Nat
  BY <1>1, SomeGpus
<1>3. CountsNat /\ CountsNat' /\ CountsShrink
  <2>1. CountsNat'
    BY Counts, PTL DEF CountsNat
  <2>2. QED
    BY <2>1, Counts, ShrinksCounts DEF CountsNat, CountsShrink
<1>4. RoomInQuota(t)'
  <2> SUFFICES ASSUME c = None, u # None
               PROVE  /\ Cardinality(Accounted(u)') < ContainerQuota[u]
                      /\ Cardinality(Held(Charged(u))') + req[t].want <= GpuQuota[u]
                      /\ n # None => Cardinality(req[t].picks) = req[t].want
    BY DEF RoomInQuota
  <2>1. /\ Cardinality(Accounted(u)) < ContainerQuota[u]
        /\ Cardinality(Held(Charged(u))) + req[t].want <= GpuQuota[u]
        /\ n # None => Cardinality(req[t].picks) = req[t].want
    BY <1>0 DEF RoomInQuota
  <2>2. QED
    BY <1>1, <1>3, <2>1, SchedulerAssumption DEF CountsNat, CountsShrink
<1>5. RoomOnNode(t)'
  <2> SUFFICES ASSUME c = None, n # None
               PROVE  /\ u # None
                      /\ Cardinality(Settled(n)') < MaxContainers[n]
                      /\ \A g \in req[t].picks : Cardinality(Sharing(g)') < SharingLimit[NodeOf[g]]
    BY DEF RoomOnNode
  <2>1. /\ u # None
        /\ Cardinality(Settled(n)) < MaxContainers[n]
        /\ \A g \in req[t].picks : Cardinality(Sharing(g)) < SharingLimit[NodeOf[g]]
    BY <1>0 DEF RoomOnNode
  <2>2. QED
    BY <1>1, <1>3, <2>1, SchedulerAssumption DEF CountsNat, CountsShrink
<1>6. UsageRead(t)'
  <2> SUFFICES ASSUME c # None
               PROVE  /\ c \in Counted' /\ u # None
                      /\ n = None /\ c \in Charged(u)' =>
                           Cardinality(Held(Charged(u))') <= req[t].usage
    BY DEF UsageRead
  <2>1. u # None /\ (n = None /\ c \in Charged(u) =>
                       Cardinality(Held(Charged(u))) <= req[t].usage)
    BY <1>0 DEF UsageRead
  <2>2. Charged(u)' \subseteq Charged(u)
    BY <1>1, <2>1, ShrinksSets
  <2>3. QED
    BY <1>1, <1>3, <2>1, <2>2 DEF CountsNat, CountsShrink
<1>7. RoomForChange(t)'
  <2> SUFFICES ASSUME c # None, n # None
               PROVE  /\ c \notin raced' =>
                           \A g \in req[t].picks :
                             Cardinality(Sharing(g)' \ {c}) < SharingLimit[NodeOf[g]]
                      /\ c \in Charged(u)' =>
                           Cardinality(Held(Charged(u) \ {c})') + Cardinality(req[t].picks)
                             <= GpuQuota[u]
    BY DEF RoomForChange
  <2>1. /\ c \notin raced => \A g \in req[t].picks :
                               Cardinality(Sharing(g) \ {c}) < SharingLimit[NodeOf[g]]
        /\ c \in Charged(u) =>
             Cardinality(Held(Charged(u) \ {c})) + Cardinality(req[t].picks) <= GpuQuota[u]
        /\ u # None
    BY <1>0 DEF RoomForChange, UsageRead
  <2>2. Charged(u)' \subseteq Charged(u) /\ raced \subseteq raced'
    BY <1>1, <2>1, ShrinksSets DEF Shrinks
  <2>3. ASSUME c \notin raced', NEW g \in req[t].picks
        PROVE  Cardinality(Sharing(g)' \ {c}) < SharingLimit[NodeOf[g]]
    <3>1. c \in Container /\ g \in Gpu
      BY <1>1
    <3>2. Cardinality(Sharing(g)' \ {c}) <= Cardinality(Sharing(g) \ {c})
      BY <1>3, <3>1 DEF CountsShrink
    <3>3. /\ Cardinality(Sharing(g)' \ {c}) \in Nat /\ Cardinality(Sharing(g) \ {c}) \in Nat
          /\ SharingLimit[NodeOf[g]] \in Nat
      BY <1>3, <3>1, SchedulerAssumption DEF CountsNat
    <3>4. QED
      BY <2>1, <2>2, <2>3, <3>2, <3>3
  <2>4. ASSUME c \in Charged(u)'
        PROVE  Cardinality(Held(Charged(u) \ {c})') + Cardinality(req[t].picks) <= GpuQuota[u]
    <3>1. c \in Container /\ u \in User
      BY <2>1
    <3>2. Cardinality(Held(Charged(u) \ {c})') <= Cardinality(Held(Charged(u) \ {c}))
      BY <1>3, <3>1 DEF CountsShrink
    <3>3. /\ Cardinality(Held(Charged(u) \ {c})') \in Nat
          /\ Cardinality(Held(Charged(u) \ {c})) \in Nat
          /\ GpuQuota[u] \in Nat
      BY <1>3, <3>1, SchedulerAssumption DEF CountsNat
    <3>4. QED
      BY <1>2, <2>1, <2>2, <2>4, <3>2, <3>3
  <2>5. QED
    BY <2>3, <2>4
<1>8. QED
  BY <1>4, <1>5, <1>6, <1>7

-----------------------------------------------------------------------------
(* Type correctness, action by action.                                     *)

LEMMA InitTyped == Init => TypeOK
  BY SchedulerAssumption DEF Init, TypeOK, Request, Idle

LEMMA HeldTyped ==
  ASSUME TypeOK, NEW u \in User
  PROVE  Cardinality(Held(Owned(u))) \in Nat
<1>1. Owned(u) \in SUBSET Container
  BY DEF Owned, Counted
<1>2. QED
  BY <1>1, Subsets, RowsFinite

LEMMA RequestTyped ==
  ASSUME TypeOK, NEW t \in Thread, NEW r \in Request,
         req' = [req EXCEPT ![t] = r]
  PROVE  req' \in [Thread -> Request]
  BY DEF TypeOK

LEMMA BecomesTyped ==
  ASSUME TypeOK, NEW c \in Container, NEW s \in Live \cup {"gone"}, Becomes(c, s)
  PROVE  TypeOK'
<1>1. st' \in [Container -> Live \cup {"none", "gone"}]
  BY DEF TypeOK, Becomes
<1>2. /\ owner' \in [Container -> User \cup {None}]
      /\ node' \in [Container -> Node \cup {None}]
      /\ gpus' \in [Container -> SUBSET Gpu]
  BY DEF TypeOK, Becomes
<1>3. req' \in [Thread -> Request] /\ granted' \subseteq Container
  BY DEF TypeOK, Becomes
<1>4. late' \subseteq Thread /\ raced' \subseteq Container
  BY DEF TypeOK, Becomes, Pending
<1>5. changes' \in 0..MaxChanges
  BY SchedulerAssumption DEF TypeOK, Becomes
<1>6. QED
  BY <1>1, <1>2, <1>3, <1>4, <1>5 DEF TypeOK

LEMMA StepTyped ==
  ASSUME TypeOK, [Next]_vars
  PROVE  TypeOK'
<1> USE SchedulerAssumption
<1>0. Idle \in Request
  BY DEF Idle, Request
<1>1. ASSUME NEW t \in Thread, NEW u \in User, NEW k \in Wanted, Ask(t, u, k)
      PROVE  TypeOK'
  <2>1. [Idle EXCEPT !.by = u, !.want = k] \in Request
    BY DEF Idle, Request
  <2>2. QED
    BY <1>1, <2>1, RequestTyped DEF Ask, TypeOK, rows, history
<1>2. ASSUME NEW t \in Thread, NEW u \in User, NEW c \in Container, NEW k \in Wanted,
             AskChange(t, u, c, k)
      PROVE  TypeOK'
  <2>1. [Idle EXCEPT !.by = u, !.on = c, !.want = k,
                     !.usage = Cardinality(Held(Owned(u)))] \in Request
    BY HeldTyped DEF Idle, Request
  <2>2. QED
    BY <1>2, <2>1, RequestTyped DEF AskChange, TypeOK, rows, history
<1>3. ASSUME NEW t \in Thread, NEW n \in Node, Place(t, n)
      PROVE  TypeOK'
  <2>1. PICK S \in SUBSET Schedulable(n) : req' = [req EXCEPT ![t].place = n, ![t].picks = S]
    BY <1>3 DEF Place
  <2>2. S \in SUBSET Gpu
    BY DEF Schedulable
  <2> DEFINE r == [req[t] EXCEPT !.place = n, !.picks = S]
  <2>3. req' \in [Thread -> Request]
    <3>1. req[t] \in Request
      BY DEF TypeOK
    <3>2. r \in Request
      BY <2>2, <3>1 DEF Request
    <3>3. req' = [req EXCEPT ![t] = r]
      BY <2>1
    <3>4. QED
      BY <3>2, <3>3, RequestTyped
  <2>4. QED
    BY <1>3, <2>3 DEF Place, TypeOK, rows, history
<1>4. ASSUME NEW t \in Thread, NEW c \in Container, Insert(t, c)
      PROVE  TypeOK'
  <2>1. /\ req[t].by \in User \cup {None} /\ req[t].place \in Node \cup {None}
        /\ req[t].picks \in SUBSET Gpu
    BY DEF TypeOK, Request
  <2>2. /\ st' \in [Container -> Live \cup {"none", "gone"}]
        /\ owner' \in [Container -> User \cup {None}]
        /\ node' \in [Container -> Node \cup {None}]
        /\ gpus' \in [Container -> SUBSET Gpu]
    BY <1>4, <2>1 DEF Insert, TypeOK, Live, Transitional
  <2>3. QED
    BY <1>0, <1>4, <2>2, RequestTyped DEF Insert, TypeOK, End, Outgrown, Pending
<1>5. ASSUME NEW t \in Thread, Adjust(t)
      PROVE  TypeOK'
  <2>1. req[t].on \in Container
    BY <1>5 DEF Adjust, TypeOK, Request
  <2>2. /\ node[req[t].on] \in Node \cup {None}
        /\ gpus[req[t].on] \in SUBSET Gpu
        /\ Schedulable(node[req[t].on]) \in SUBSET Gpu
    BY <2>1 DEF TypeOK, Schedulable
  <2>3. PICK S \in SUBSET Gpu :
          req' = [req EXCEPT ![t].place = node[req[t].on], ![t].picks = S, ![t].usage = 0]
    BY <1>5, <2>2 DEF Adjust
  <2> DEFINE r == [req[t] EXCEPT !.place = node[req[t].on], !.picks = S, !.usage = 0]
  <2>4. req' \in [Thread -> Request]
    <3>1. req[t] \in Request
      BY DEF TypeOK
    <3>2. r \in Request
      BY <2>2, <3>1 DEF Request
    <3>3. req' = [req EXCEPT ![t] = r]
      BY <2>3
    <3>4. QED
      BY <3>2, <3>3, RequestTyped
  <2>5. QED
    BY <1>5, <2>4 DEF Adjust, TypeOK, rows, history
<1>6. ASSUME NEW t \in Thread, Save(t)
      PROVE  TypeOK'
  <2>1. req[t].on \in Container /\ req[t].picks \in SUBSET Gpu
    BY <1>6 DEF Save, TypeOK, Request
  <2>2. gpus' \in [Container -> SUBSET Gpu] /\ raced' \subseteq Container /\ granted' \subseteq Container
    BY <1>6, <2>1 DEF Save, TypeOK
  <2>3. late' \subseteq Thread
    BY <1>6 DEF Save, TypeOK, Outgrown, Pending
  <2>4. QED
    BY <1>0, <1>6, <2>2, <2>3, RequestTyped DEF Save, TypeOK, End
<1>7. ASSUME NEW t \in Thread, Refuse(t)
      PROVE  TypeOK'
  BY <1>0, <1>7, RequestTyped DEF Refuse, End, TypeOK, rows
<1>8. ASSUME NEW c \in Container, NEW s \in Live \cup {"gone"},
             Lifecycle(c, s) \/ TaskResult(c, s) \/ Heartbeat(c, s)
      PROVE  TypeOK'
  BY <1>8, BecomesTyped DEF Lifecycle, TaskResult, Heartbeat
<1>9. ASSUME NEW c \in Container, ForceDelete(c) \/ Retry(c)
      PROVE  TypeOK'
  BY <1>9, BecomesTyped DEF ForceDelete, Retry, Live, Transitional
<1>10. CASE UNCHANGED vars
  BY <1>10 DEF TypeOK, vars, rows, history
<1>11. QED
  BY <1>1, <1>2, <1>3, <1>4, <1>5, <1>6, <1>7, <1>8, <1>9, <1>10 DEF Next

-----------------------------------------------------------------------------
(* The limits, action by action.                                           *)

LEMMA InitHolds == Init => IInv
<1> SUFFICES ASSUME Init PROVE IInv
  OBVIOUS
<1>1. TypeOK
  BY InitTyped
<1>2. Counted = {}
  BY DEF Init, Counted, ResourceStatus
<1>3. /\ \A g \in Gpu : Sharing(g) = {}
      /\ \A n \in Node : Settled(n) = {}
      /\ \A u \in User : Accounted(u) = {} /\ Held(Charged(u)) = {}
  BY <1>2 DEF Sharing, Holders, Settled, On, Accounted, Charged, Owned, Held
<1>4. Limits
  <2>1. Cardinality({}) = 0
    BY FS_EmptySet
  <2>2. /\ \A g \in Gpu : Cardinality(Sharing(g)) = 0
        /\ \A n \in Node : Cardinality(Settled(n)) = 0
        /\ \A u \in User : Cardinality(Accounted(u)) = 0 /\ Cardinality(Held(Charged(u))) = 0
    BY <1>3, <2>1
  <2>3. /\ \A g \in Gpu : 0 <= SharingLimit[NodeOf[g]]
        /\ \A n \in Node : 0 <= MaxContainers[n]
        /\ \A u \in User : 0 <= ContainerQuota[u] /\ 0 <= GpuQuota[u]
    BY SchedulerAssumption
  <2>4. QED
    BY <2>2, <2>3 DEF Limits
<1>5. \A t \in Thread : Current(t)
  BY DEF Init, Idle, Current, RoomInQuota, RoomOnNode, UsageRead, RoomForChange
<1>6. Located
  BY DEF Init, Located, Live, Transitional, Reported
<1>7. QED
  BY <1>1, <1>4, <1>5, <1>6 DEF IInv

LEMMA IdleIsCurrent ==
  ASSUME NEW t \in Thread, req'[t] = Idle
  PROVE  Current(t)'
  BY DEF Idle, Current, RoomInQuota, RoomOnNode, UsageRead, RoomForChange

(* A read changes nothing for the other requests.                          *)
LEMMA ReadHolds ==
  ASSUME IInv, TypeOK', UNCHANGED <<rows, history>>, NEW t \in Thread,
         \A o \in Thread \ {t} : req'[o] = req[o],
         Current(t)'
  PROVE  IInv'
<1>1. Shrinks
  BY DEF Shrinks, rows, history, Counted
<1>2. Limits'
  BY <1>1, LimitsShrink DEF IInv
<1>3. ASSUME NEW o \in Thread \ {t}
      PROVE  Current(o)'
  <2>1. Current(o) /\ late' = late /\ Counted' = Counted
    BY DEF IInv, rows, history, Counted
  <2>2. o \notin late' /\ req[o].on # None => req[o].on \in Counted'
    BY <2>1 DEF Current, UsageRead
  <2>3. QED
    BY <1>1, <2>1, <2>2, CurrentShrinks DEF IInv
<1>4. Located'
  BY DEF IInv, Located, rows
<1>5. QED
  BY <1>2, <1>3, <1>4 DEF IInv

(* What a count by the request bounds.                                     *)
LEMMA CheckedAmongAll ==
  ASSUME TypeOK
  PROVE  /\ \A g \in Gpu : /\ Cardinality(Sharing(g)) <= Cardinality(Holders(g))
                           /\ Cardinality(Holders(g)) \in Nat
         /\ \A n \in Node : /\ Cardinality(Settled(n)) <= Cardinality(On(n))
                            /\ Cardinality(On(n)) \in Nat
         /\ \A u \in User :
              /\ Cardinality(Accounted(u)) <= Cardinality(Owned(u))
              /\ Cardinality(Owned(u)) \in Nat
              /\ Cardinality(Held(Charged(u))) <= Cardinality(Held(Owned(u)))
              /\ Cardinality(Held(Owned(u))) \in Nat
<1>1. \A g \in Gpu : Holders(g) \in SUBSET Container /\ Sharing(g) \in SUBSET Holders(g)
  BY DEF Holders, Sharing, Counted
<1>2. \A n \in Node : On(n) \in SUBSET Container /\ Settled(n) \in SUBSET On(n)
  BY DEF On, Settled, Counted
<1>3. \A u \in User : Owned(u) \in SUBSET Container /\ Accounted(u) \in SUBSET Owned(u)
  BY DEF Owned, Accounted, Counted
<1>4. \A u \in User : /\ Held(Owned(u)) \in SUBSET (Container \X Gpu)
                      /\ Held(Charged(u)) \in SUBSET Held(Owned(u))
  BY <1>3 DEF Held, Charged
<1>5. QED
  BY <1>1, <1>2, <1>3, <1>4, ContainersFinite, RowsFinite, FewerContainers, FewerRows

LEMMA AskHolds ==
  ASSUME IInv, TypeOK', NEW t \in Thread, NEW u \in User, NEW k \in Wanted, Ask(t, u, k)
  PROVE  IInv'
<1>1. req'[t] = [Idle EXCEPT !.by = u, !.want = k]
  BY DEF Ask, IInv, TypeOK
<1>2. /\ req'[t].on = None /\ req'[t].by = u /\ req'[t].want = k /\ req'[t].place = None
  BY <1>1 DEF Idle
<1>3. /\ Cardinality(Accounted(u)) < ContainerQuota[u]
      /\ Cardinality(Held(Charged(u))) + k <= GpuQuota[u]
  <2>1. /\ Cardinality(Held(Owned(u))) + k <= GpuQuota[u]
        /\ Cardinality(Owned(u)) + 1 <= ContainerQuota[u]
        /\ k \in Nat /\ GpuQuota[u] \in Nat /\ ContainerQuota[u] \in Nat
    BY SchedulerAssumption DEF Ask
  <2>2. Cardinality(Accounted(u)) \in Nat /\ Cardinality(Held(Charged(u))) \in Nat
    BY Counts DEF CountsNat, IInv
  <2>3. QED
    BY <2>1, <2>2, CheckedAmongAll DEF IInv
<1>4. Accounted(u)' = Accounted(u) /\ Held(Charged(u))' = Held(Charged(u))
  BY DEF Ask, rows, history, Accounted, Charged, Owned, Counted, Held
<1>5. Current(t)'
  BY <1>2, <1>3, <1>4 DEF Current, RoomInQuota, RoomOnNode, UsageRead, RoomForChange
<1>6. QED
  BY <1>5, ReadHolds DEF Ask, IInv, TypeOK

LEMMA PlaceHolds ==
  ASSUME IInv, TypeOK', NEW t \in Thread, NEW n \in Node, Place(t, n)
  PROVE  IInv'
<1>1. PICK S \in SUBSET Schedulable(n) :
        /\ Cardinality(S) = req[t].want
        /\ req' = [req EXCEPT ![t].place = n, ![t].picks = S]
  BY DEF Place
<1>2. /\ req'[t].on = None /\ req'[t].by = req[t].by /\ req'[t].want = req[t].want
      /\ req'[t].place = n /\ req'[t].picks = S
      /\ req[t].on = None /\ req[t].by \in User
  BY <1>1 DEF Place, IInv, TypeOK, Request
<1>3. Cardinality(Settled(n)) < MaxContainers[n]
  <2>1. Cardinality(On(n)) < MaxContainers[n] /\ MaxContainers[n] \in Nat
    BY SchedulerAssumption DEF Place
  <2>2. Cardinality(Settled(n)) \in Nat
    BY Counts DEF CountsNat, IInv
  <2>3. QED
    BY <2>1, <2>2, CheckedAmongAll DEF IInv
<1>4. ASSUME NEW g \in S
      PROVE  Cardinality(Sharing(g)) < SharingLimit[NodeOf[g]]
  <2>1. g \in Gpu /\ NodeOf[g] = n /\ Cardinality(Holders(g)) < SharingLimit[n]
    BY DEF Schedulable
  <2>2. Cardinality(Sharing(g)) \in Nat /\ SharingLimit[n] \in Nat
    BY <2>1, Counts, SchedulerAssumption DEF CountsNat, IInv
  <2>3. QED
    BY <2>1, <2>2, CheckedAmongAll DEF IInv
<1>5. /\ \A g \in Gpu : Sharing(g)' = Sharing(g)
      /\ \A m \in Node : Settled(m)' = Settled(m)
      /\ \A u \in User : Accounted(u)' = Accounted(u) /\ Held(Charged(u))' = Held(Charged(u))
      /\ late' = late
  BY DEF Place, rows, history, Sharing, Holders, Settled, On, Accounted, Charged, Owned,
         Counted, Held
<1>6. Current(t)'
  <2> SUFFICES ASSUME t \notin late'
               PROVE  (RoomInQuota(t) /\ RoomOnNode(t) /\ UsageRead(t) /\ RoomForChange(t))'
    BY DEF Current
  <2>1. RoomInQuota(t)
    BY <1>5 DEF IInv, Current
  <2>2. RoomInQuota(t)'
    BY <1>1, <1>2, <1>5, <2>1 DEF RoomInQuota
  <2>3. RoomOnNode(t)'
    <3>1. S \subseteq Gpu /\ None \notin User
      BY SchedulerAssumption DEF Schedulable
    <3>2. QED
      BY <1>2, <1>3, <1>4, <1>5, <3>1 DEF RoomOnNode
  <2>4. UsageRead(t)' /\ RoomForChange(t)'
    BY <1>2 DEF UsageRead, RoomForChange
  <2>5. QED
    BY <2>2, <2>3, <2>4
<1>7. QED
  BY <1>1, <1>6, ReadHolds DEF Place, IInv, TypeOK

LEMMA AskChangeHolds ==
  ASSUME IInv, TypeOK', NEW t \in Thread, NEW u \in User, NEW c \in Container,
         NEW k \in Wanted, AskChange(t, u, c, k)
  PROVE  IInv'
<1>1. req'[t] = [Idle EXCEPT !.by = u, !.on = c, !.want = k,
                             !.usage = Cardinality(Held(Owned(u)))]
  BY DEF AskChange, IInv, TypeOK
<1>2. /\ req'[t].on = c /\ req'[t].by = u /\ req'[t].place = None
      /\ req'[t].usage = Cardinality(Held(Owned(u)))
      /\ c # None /\ u # None
  BY <1>1, SchedulerAssumption DEF Idle
<1>3. c \in Counted'
  BY DEF AskChange, rows, Counted, ResourceStatus
<1>4. Held(Charged(u))' = Held(Charged(u))
  BY DEF AskChange, rows, history, Charged, Owned, Counted, Held
<1>5. Current(t)'
  BY <1>2, <1>3, <1>4, CheckedAmongAll
     DEF IInv, Current, RoomInQuota, RoomOnNode, UsageRead, RoomForChange
<1>6. QED
  BY <1>5, ReadHolds DEF AskChange, IInv, TypeOK

LEMMA AdjustHolds ==
  ASSUME IInv, TypeOK', NEW t \in Thread, Adjust(t)
  PROVE  IInv'
<1>1. PICK c \in Container : req[t].on = c
  BY DEF Adjust, IInv, TypeOK, Request
<1>2. PICK u \in User \cup {None} : req[t].by = u
  BY DEF IInv, TypeOK, Request
<1> DEFINE n == node[c]
           old == gpus[c]
           k == req[t].want
<1>3. /\ old \in SUBSET Gpu /\ n \in Node \cup {None}
      /\ k \in Nat /\ req[t].usage \in Nat
      /\ Cardinality(old) \in Nat /\ c # None
  BY SomeGpus, SchedulerAssumption DEF IInv, TypeOK, Request
<1>4. PICK S \in SUBSET (old \cup Schedulable(n)) :
        /\ Cardinality(S) = k
        /\ req' = [req EXCEPT ![t].place = n, ![t].picks = S, ![t].usage = 0]
  BY <1>1 DEF Adjust
<1>5. /\ k # Cardinality(old) => req[t].usage + k <= GpuQuota[u] + Cardinality(old)
      /\ req[t].place = None
  BY <1>1, <1>2 DEF Adjust
<1>6. /\ req'[t].on = c /\ req'[t].by = u /\ req'[t].place = n /\ req'[t].picks = S
  BY <1>1, <1>2, <1>4 DEF IInv, TypeOK, Request
<1>7. /\ \A g \in Gpu : Sharing(g)' = Sharing(g)
      /\ \A v \in User : /\ Charged(v)' = Charged(v)
                         /\ Held(Charged(v) \ {c})' = Held(Charged(v) \ {c})
      /\ late' = late /\ raced' = raced /\ Counted' = Counted
  BY DEF Adjust, rows, history, Sharing, Holders, Charged, Owned, Counted, Held
<1>8. Current(t)'
  <2> SUFFICES ASSUME t \notin late'
               PROVE  (RoomInQuota(t) /\ RoomOnNode(t) /\ UsageRead(t) /\ RoomForChange(t))'
    BY DEF Current
  <2>1. /\ c \in Counted /\ u \in User
        /\ c \in Charged(u) => Cardinality(Held(Charged(u))) <= req[t].usage
    BY <1>1, <1>2, <1>3, <1>5, <1>7 DEF IInv, Current, UsageRead
  <2>2. n \in Node /\ n # None /\ u # None
    BY <2>1, SchedulerAssumption
       DEF IInv, Located, Counted, ResourceStatus, Live, Transitional, Reported
  <2>3. ASSUME c \notin raced, NEW g \in S
        PROVE  Cardinality(Sharing(g) \ {c}) < SharingLimit[NodeOf[g]]
    <3>1. g \in Gpu
      BY <1>3 DEF Schedulable
    <3>2. /\ Cardinality(Sharing(g)) \in Nat /\ Cardinality(Sharing(g) \ {c}) \in Nat
          /\ Cardinality(Sharing(g)) <= SharingLimit[NodeOf[g]]
          /\ SharingLimit[NodeOf[g]] \in Nat
      BY <3>1, Counts, SchedulerAssumption DEF CountsNat, IInv, Limits
    <3>3. CASE g \in old
      <4>1. c \in Sharing(g)
        BY <2>1, <2>3, <3>3 DEF Sharing, Holders
      <4>2. IsFiniteSet(Sharing(g))
        BY <3>1, Subsets, ContainersFinite DEF IInv
      <4>3. Cardinality(Sharing(g) \ {c}) = Cardinality(Sharing(g)) - 1
        BY <4>1, <4>2, FS_RemoveElement
      <4>4. QED
        BY <3>2, <4>3
    <3>4. CASE g \in Schedulable(n)
      <4>1. NodeOf[g] = n /\ Cardinality(Holders(g)) < SharingLimit[NodeOf[g]]
        BY <3>4 DEF Schedulable
      <4>2. Cardinality(Sharing(g) \ {c}) <= Cardinality(Holders(g))
        <5>1. Holders(g) \in SUBSET Container /\ Sharing(g) \ {c} \in SUBSET Holders(g)
          BY DEF Holders, Sharing, Counted
        <5>2. QED
          BY <5>1, FewerContainers
      <4>3. QED
        BY <3>1, <3>2, <4>1, <4>2, CheckedAmongAll DEF IInv
    <3>5. QED
      BY <3>3, <3>4
  <2>4. ASSUME c \in Charged(u)
        PROVE  Cardinality(Held(Charged(u) \ {c})) + Cardinality(S) <= GpuQuota[u]
    <3>1. Charged(u) \in SUBSET Container
      BY <2>1, Subsets DEF IInv
    <3>2. Cardinality(Held(Charged(u) \ {c})) + Cardinality(old) = Cardinality(Held(Charged(u)))
      BY <2>4, <3>1, HeldByOthers DEF IInv, TypeOK
    <3>3. /\ Cardinality(Held(Charged(u))) <= GpuQuota[u]
          /\ Cardinality(Held(Charged(u))) \in Nat
          /\ Cardinality(Held(Charged(u) \ {c})) \in Nat
          /\ GpuQuota[u] \in Nat
      BY <2>1, Counts, SchedulerAssumption DEF CountsNat, IInv, Limits
    <3>4. QED
      BY <1>3, <1>4, <1>5, <2>1, <2>4, <3>2, <3>3
  <2>5. RoomForChange(t)'
    <3> SUFFICES /\ c \notin raced' =>
                      \A g \in S : Cardinality(Sharing(g)' \ {c}) < SharingLimit[NodeOf[g]]
                 /\ c \in Charged(u)' =>
                      Cardinality(Held(Charged(u) \ {c})') + Cardinality(S) <= GpuQuota[u]
      BY <1>6 DEF RoomForChange
    <3>1. S \subseteq Gpu
      BY <1>3 DEF Schedulable
    <3>2. Held(Charged(u) \ {c})' = Held(Charged(u) \ {c}) /\ Charged(u)' = Charged(u)
      BY <1>7, <2>1
    <3>3. QED
      BY <1>7, <2>3, <2>4, <3>1, <3>2
  <2>6. UsageRead(t)'
    BY <1>6, <1>7, <2>1, <2>2 DEF UsageRead
  <2>7. RoomInQuota(t)' /\ RoomOnNode(t)'
    BY <1>3, <1>6 DEF RoomInQuota, RoomOnNode
  <2>8. QED
    BY <2>5, <2>6, <2>7
<1>9. QED
  BY <1>4, <1>8, ReadHolds DEF Adjust, IInv, TypeOK

LEMMA RefuseHolds ==
  ASSUME IInv, TypeOK', NEW t \in Thread, Refuse(t)
  PROVE  IInv'
<1>1. Shrinks
  BY DEF Refuse, rows, Shrinks, Counted
<1>2. Limits' /\ Located'
  BY <1>1, LimitsShrink DEF IInv, Located, Refuse, rows
<1>3. req'[t] = Idle
  BY DEF Refuse, End, IInv, TypeOK
<1>4. ASSUME NEW o \in Thread \ {t}
      PROVE  Current(o)'
  <2>1. /\ req'[o] = req[o] /\ Current(o) /\ Counted' = Counted
        /\ o \notin late' => o \notin late
    BY DEF Refuse, End, IInv, TypeOK, rows, Counted
  <2>2. o \notin late' /\ req[o].on # None => req[o].on \in Counted'
    BY <2>1 DEF Current, UsageRead
  <2>3. QED
    BY <1>1, <2>1, <2>2, CurrentShrinks DEF IInv
<1>5. QED
  BY <1>2, <1>3, <1>4, IdleIsCurrent DEF IInv

(* A late create is only put on record as such; one that is not still fits.*)
LEMMA InsertHolds ==
  ASSUME IInv, TypeOK', NEW t \in Thread, NEW c \in Container, Insert(t, c)
  PROVE  IInv'
<1>1. PICK n \in Node, P \in SUBSET Gpu :
        req[t].place = n /\ req[t].picks = P /\ n # None /\ req[t].on = None
  BY SchedulerAssumption DEF Insert, IInv, TypeOK, Request
<1>2. PICK u \in User \cup {None} : req[t].by = u
  BY DEF IInv, TypeOK, Request
<1>3. /\ st'[c] = "busy" /\ owner'[c] = u /\ node'[c] = n /\ gpus'[c] = P
      /\ \A d \in Container \ {c} : /\ st'[d] = st[d] /\ owner'[d] = owner[d]
                                    /\ node'[d] = node[d] /\ gpus'[d] = gpus[d]
      /\ c \notin Counted /\ granted' = granted
  BY <1>1, <1>2 DEF Insert, IInv, TypeOK, Counted, ResourceStatus
<1>4. Counted' = Counted \cup {c}
  BY <1>3 DEF Counted, ResourceStatus
<1>5. Located'
  BY <1>3 DEF IInv, Located
<1>6. \A o \in Thread : Current(o)'
  <2>1. req'[t] = Idle /\ \A o \in Thread \ {t} : req'[o] = req[o]
    BY DEF Insert, End, IInv, TypeOK
  <2>2. ASSUME NEW o \in Thread \ {t}
        PROVE  Current(o)'
    <3>1. o \notin late' => req'[o] = Idle
      BY <2>1 DEF Insert, Outgrown, Pending
    <3>2. QED
      BY <3>1, IdleIsCurrent DEF Current
  <2>3. QED
    BY <2>1, <2>2, IdleIsCurrent
<1>7. Limits'
  <2>1. CASE t \in late
    <3>1. raced' = raced \cup {c}
      BY <2>1 DEF Insert
    <3>2. Shrinks
      BY <1>3, <1>4, <3>1 DEF Shrinks, Counted
    <3>3. QED
      BY <3>2, LimitsShrink DEF IInv
  <2>2. CASE t \notin late
    <3> USE SchedulerAssumption
    <3>1. raced' = raced /\ u \in User
      BY <1>1, <1>2, <2>2 DEF Insert, IInv, Current, RoomOnNode
    <3>2. /\ Cardinality(Settled(n)) < MaxContainers[n]
          /\ \A g \in P : Cardinality(Sharing(g)) < SharingLimit[NodeOf[g]]
      BY <1>1, <2>2 DEF IInv, Current, RoomOnNode
    <3>3. /\ Cardinality(Accounted(u)) < ContainerQuota[u]
          /\ Cardinality(Held(Charged(u))) + Cardinality(P) <= GpuQuota[u]
      BY <1>1, <1>2, <2>2, <3>1 DEF IInv, Current, RoomInQuota
    <3>4. CountsNat /\ CountsNat' /\ Cardinality(P) \in Nat
      <4>1. CountsNat'
        BY Counts, PTL
      <4>2. QED
        BY <4>1, Counts, SomeGpus DEF IInv
    <3>5. ASSUME NEW g \in Gpu
          PROVE  Cardinality(Sharing(g)') <= SharingLimit[NodeOf[g]]
      <4>1. Sharing(g) \in SUBSET Container /\ Sharing(g)' \in SUBSET (Sharing(g) \cup {c})
            /\ (g \notin P => Sharing(g)' \in SUBSET Sharing(g))
        BY <1>3, <1>4, <3>1 DEF Sharing, Holders, Counted
      <4>2. /\ Cardinality(Sharing(g)') <= Cardinality(Sharing(g)) + 1
            /\ g \notin P => Cardinality(Sharing(g)') <= Cardinality(Sharing(g))
        BY <4>1, OneMoreContainer, FewerContainers
      <4>3. /\ Cardinality(Sharing(g)) \in Nat /\ Cardinality(Sharing(g)') \in Nat
            /\ Cardinality(Sharing(g)) <= SharingLimit[NodeOf[g]]
            /\ SharingLimit[NodeOf[g]] \in Nat
        BY <3>4 DEF CountsNat, IInv, Limits
      <4>4. QED
        BY <3>2, <4>2, <4>3
    <3>6. ASSUME NEW m \in Node
          PROVE  Cardinality(Settled(m)') <= MaxContainers[m]
      <4>1. Settled(m) \in SUBSET Container /\ Settled(m)' \in SUBSET (Settled(m) \cup {c})
            /\ (m # n => Settled(m)' \in SUBSET Settled(m))
        BY <1>3, <1>4, <3>1 DEF Settled, On, Counted
      <4>2. /\ Cardinality(Settled(m)') <= Cardinality(Settled(m)) + 1
            /\ m # n => Cardinality(Settled(m)') <= Cardinality(Settled(m))
        BY <4>1, OneMoreContainer, FewerContainers
      <4>3. /\ Cardinality(Settled(m)) \in Nat /\ Cardinality(Settled(m)') \in Nat
            /\ Cardinality(Settled(m)) <= MaxContainers[m] /\ MaxContainers[m] \in Nat
        BY <3>4 DEF CountsNat, IInv, Limits
      <4>4. QED
        BY <3>2, <4>2, <4>3
    <3>7. ASSUME NEW v \in User
          PROVE  Cardinality(Accounted(v)') <= ContainerQuota[v]
      <4>1. Accounted(v) \in SUBSET Container /\ Accounted(v)' \in SUBSET (Accounted(v) \cup {c})
            /\ (v # u => Accounted(v)' \in SUBSET Accounted(v))
        BY <1>3, <1>4, <3>1 DEF Accounted, Owned, Counted
      <4>2. /\ Cardinality(Accounted(v)') <= Cardinality(Accounted(v)) + 1
            /\ v # u => Cardinality(Accounted(v)') <= Cardinality(Accounted(v))
        BY <4>1, OneMoreContainer, FewerContainers
      <4>3. /\ Cardinality(Accounted(v)) \in Nat /\ Cardinality(Accounted(v)') \in Nat
            /\ Cardinality(Accounted(v)) <= ContainerQuota[v] /\ ContainerQuota[v] \in Nat
        BY <3>4 DEF CountsNat, IInv, Limits
      <4>4. QED
        BY <3>3, <4>2, <4>3
    <3>8. ASSUME NEW v \in User
          PROVE  Cardinality(Held(Charged(v))') <= GpuQuota[v]
      <4> DEFINE H == Held(Charged(v))
      <4>1. Charged(v)' \subseteq Charged(v) \cup {c} /\ (v # u => c \notin Charged(v)')
            /\ Charged(v) \subseteq Container \ {c}
        BY <1>3, <1>4, <3>1 DEF Charged, Owned, Counted
      <4>2. H \in SUBSET (Container \X Gpu) /\ H' \in SUBSET (H \cup ({c} \X P))
            /\ (v # u => H' \in SUBSET H)
        BY <1>3, <4>1 DEF Held
      <4>3. /\ Cardinality(H') <= Cardinality(H) + Cardinality(P)
            /\ v # u => Cardinality(H') <= Cardinality(H)
        BY <4>2, MoreRows, FewerRows
      <4>4. /\ Cardinality(H) \in Nat /\ Cardinality(H') \in Nat
            /\ Cardinality(H) <= GpuQuota[v] /\ GpuQuota[v] \in Nat
        BY <3>4 DEF CountsNat, IInv, Limits
      <4>5. QED
        BY <3>3, <3>4, <4>3, <4>4
    <3>9. QED
      BY <3>5, <3>6, <3>7, <3>8 DEF Limits
  <2>3. QED
    BY <2>1, <2>2
<1>8. QED
  BY <1>5, <1>6, <1>7 DEF IInv

LEMMA SaveHolds ==
  ASSUME IInv, TypeOK', NEW t \in Thread, Save(t)
  PROVE  IInv'
<1>1. PICK c \in Container, P \in SUBSET Gpu, u \in User \cup {None} :
        req[t].on = c /\ req[t].picks = P /\ req[t].by = u /\ c # None /\ req[t].place # None
  BY SchedulerAssumption DEF Save, IInv, TypeOK, Request
<1>2. /\ st' = st /\ owner' = owner /\ node' = node
      /\ gpus'[c] = P /\ \A d \in Container \ {c} : gpus'[d] = gpus[d]
      /\ raced' = IF t \in late THEN raced \cup {c} ELSE raced
      /\ granted' = IF owner[c] # u THEN granted \cup {c} ELSE granted
  BY <1>1 DEF Save, IInv, TypeOK
<1>3. Counted' = Counted
  BY <1>2 DEF Counted
<1>4. t \in late \/ P \subseteq gpus[c] => Shrinks
  BY <1>2, <1>3 DEF Shrinks, Counted
<1>5. Located'
  BY <1>2 DEF IInv, Located
<1>6. \A o \in Thread : Current(o)'
  <2>1. req'[t] = Idle /\ \A o \in Thread \ {t} : req'[o] = req[o]
    BY DEF Save, End, IInv, TypeOK
  <2>2. ASSUME NEW o \in Thread \ {t}
        PROVE  Current(o)'
    <3>1. CASE P \subseteq gpus[c]
      <4>1. late' = late \ {t} /\ Shrinks /\ Current(o)
        BY <1>1, <1>4, <3>1 DEF Save, IInv
      <4>2. o \notin late' /\ req[o].on # None => req[o].on \in Counted'
        BY <1>3, <4>1 DEF Current, UsageRead
      <4>3. QED
        BY <2>1, <4>1, <4>2, CurrentShrinks DEF IInv
    <3>2. CASE ~ (P \subseteq gpus[c])
      <4>1. o \notin late' => req'[o] = Idle
        BY <1>1, <2>1, <3>2 DEF Save, Outgrown, Pending
      <4>2. QED
        BY <4>1, IdleIsCurrent DEF Current
    <3>3. QED
      BY <3>1, <3>2
  <2>3. QED
    BY <2>1, <2>2, IdleIsCurrent
<1>7. Limits'
  <2>1. CASE t \in late
    BY <1>4, <2>1, LimitsShrink DEF IInv
  <2>2. CASE t \notin late
    <3> USE SchedulerAssumption
    <3>1. RoomForChange(t) /\ UsageRead(t)
      BY <2>2 DEF IInv, Current
    <3>2. /\ u \in User /\ raced' = raced
          /\ c \notin raced =>
               \A g \in P : Cardinality(Sharing(g) \ {c}) < SharingLimit[NodeOf[g]]
          /\ c \in Charged(u) =>
               Cardinality(Held(Charged(u) \ {c})) + Cardinality(P) <= GpuQuota[u]
      BY <1>1, <1>2, <2>2, <3>1 DEF RoomForChange, UsageRead
    <3>3. CountsNat /\ CountsNat' /\ Cardinality(P) \in Nat
      <4>1. CountsNat'
        BY Counts, PTL
      <4>2. QED
        BY <4>1, Counts, SomeGpus DEF IInv
    <3>4. ASSUME NEW g \in Gpu
          PROVE  Cardinality(Sharing(g)') <= SharingLimit[NodeOf[g]]
      <4>1. /\ Cardinality(Sharing(g)) \in Nat /\ Cardinality(Sharing(g)') \in Nat
            /\ Cardinality(Sharing(g) \ {c}) \in Nat
            /\ Cardinality(Sharing(g)) <= SharingLimit[NodeOf[g]]
            /\ SharingLimit[NodeOf[g]] \in Nat
        BY <3>3 DEF CountsNat, IInv, Limits
      <4>2. CASE c \in raced \/ g \notin P
        <5>1. Sharing(g) \in SUBSET Container /\ Sharing(g)' \in SUBSET Sharing(g)
          BY <1>2, <1>3, <3>2, <4>2 DEF Sharing, Holders, Counted
        <5>2. QED
          BY <4>1, <5>1, FewerContainers
      <4>3. CASE c \notin raced /\ g \in P
        <5>1. /\ Sharing(g) \ {c} \in SUBSET Container
              /\ Sharing(g)' \in SUBSET ((Sharing(g) \ {c}) \cup {c})
          BY <1>2, <1>3, <3>2 DEF Sharing, Holders, Counted
        <5>2. Cardinality(Sharing(g)') <= Cardinality(Sharing(g) \ {c}) + 1
          BY <5>1, OneMoreContainer
        <5>3. QED
          BY <3>2, <4>1, <4>3, <5>2
      <4>4. QED
        BY <4>2, <4>3
    <3>5. ASSUME NEW m \in Node
          PROVE  Cardinality(Settled(m)') <= MaxContainers[m]
      <4>1. Settled(m)' = Settled(m)
        BY <1>2, <1>3, <3>2 DEF Settled, On
      <4>2. QED
        BY <4>1 DEF IInv, Limits
    <3>6. ASSUME NEW v \in User
          PROVE  Cardinality(Accounted(v)') <= ContainerQuota[v]
      <4>1. Accounted(v)' = Accounted(v)
        BY <1>2, <1>3, <3>2 DEF Accounted, Owned
      <4>2. QED
        BY <4>1 DEF IInv, Limits
    <3>7. ASSUME NEW v \in User
          PROVE  Cardinality(Held(Charged(v))') <= GpuQuota[v]
      <4> DEFINE H == Held(Charged(v))
                 O == Held(Charged(v) \ {c})
      <4>1. Charged(v) \in SUBSET Container /\ Charged(v)' \subseteq Charged(v)
        BY <1>2, <1>3, <3>2 DEF Charged, Owned, Counted
      <4>2. /\ Cardinality(H) \in Nat /\ Cardinality(H') \in Nat /\ Cardinality(O) \in Nat
            /\ Cardinality(H) <= GpuQuota[v] /\ GpuQuota[v] \in Nat
        BY <3>3 DEF CountsNat, IInv, Limits
      <4>3. CASE c \notin Charged(v)'
        <5>1. H \in SUBSET (Container \X Gpu) /\ H' \in SUBSET H
          BY <1>2, <4>1, <4>3, Subsets DEF Held, IInv
        <5>2. QED
          BY <4>2, <5>1, FewerRows
      <4>4. CASE c \in Charged(v)'
        <5>1. v = u /\ c \in Charged(u)
          BY <1>2, <4>1, <4>4 DEF Charged, Owned
        <5>2. O \in SUBSET (Container \X Gpu) /\ H' \in SUBSET (O \cup ({c} \X P))
          BY <1>2, <4>1 DEF Held
        <5>3. Cardinality(H') <= Cardinality(O) + Cardinality(P)
          BY <5>2, MoreRows
        <5>4. QED
          BY <3>2, <3>3, <4>2, <5>1, <5>3
      <4>5. QED
        BY <4>3, <4>4
    <3>8. QED
      BY <3>4, <3>5, <3>6, <3>7 DEF Limits
  <2>3. QED
    BY <2>1, <2>2
<1>8. QED
  BY <1>5, <1>6, <1>7 DEF IInv

(* Whoever is counted again is on record; whoever is not any more, was in  *)
(* no usage that still matters.                                            *)
LEMMA BecomesHolds ==
  ASSUME IInv, TypeOK', NEW c \in Container, NEW s \in Live \cup {"gone"},
         st[c] \in Live, Becomes(c, s)
  PROVE  IInv'
<1>1. /\ st'[c] = s
      /\ \A d \in Container \ {c} : /\ st'[d] = st[d] /\ owner'[d] = owner[d]
                                    /\ node'[d] = node[d] /\ gpus'[d] = gpus[d]
      /\ s # "gone" => owner'[c] = owner[c] /\ node'[c] = node[c] /\ gpus'[c] = gpus[c]
      /\ raced \subseteq raced' /\ granted' = granted /\ req' = req
  BY DEF Becomes, IInv, TypeOK
<1>2. c \in Counted' => c \in Counted \/ c \in raced'
  BY <1>1 DEF Becomes, Counted
<1>3. Shrinks
  <2>1. ASSUME NEW d \in Counted' \ raced'
        PROVE  /\ d \in Counted
               /\ owner'[d] = owner[d] /\ node'[d] = node[d] /\ gpus'[d] \subseteq gpus[d]
    <3>1. CASE d = c
      BY <1>1, <1>2, <2>1, <3>1 DEF Counted, ResourceStatus
    <3>2. CASE d # c
      BY <1>1, <2>1, <3>2 DEF Counted
    <3>3. QED
      BY <3>1, <3>2
  <2>2. QED
    BY <1>1, <2>1 DEF Shrinks
<1>4. Limits'
  BY <1>3, LimitsShrink DEF IInv
<1>5. Located'
  BY <1>1 DEF IInv, Located, Live, Transitional, Reported
<1>6. ASSUME NEW o \in Thread
      PROVE  Current(o)'
  <2>1. Current(o) /\ req'[o] = req[o]
    BY <1>1 DEF IInv
  <2>2. o \notin late' => o \notin late
    BY DEF Becomes
  <2>3. ASSUME o \notin late', req[o].on # None
        PROVE  req[o].on \in Counted'
    <3>1. req[o].on \in Counted /\ o \in Pending
      BY <2>1, <2>2, <2>3 DEF Current, UsageRead, Pending, Idle
    <3>2. CASE req[o].on # c
      BY <1>1, <3>1, <3>2 DEF Counted
    <3>3. CASE req[o].on = c
      BY <1>1, <2>3, <3>1, <3>3 DEF Becomes, Counted
    <3>4. QED
      BY <3>2, <3>3
  <2>4. QED
    BY <1>3, <2>1, <2>2, <2>3, CurrentShrinks DEF IInv
<1>7. QED
  BY <1>4, <1>5, <1>6 DEF IInv

LEMMA StutterHolds ==
  ASSUME IInv, UNCHANGED vars
  PROVE  IInv'
<1>1. /\ UNCHANGED <<st, owner, node, gpus, req, late, raced, granted, changes>>
  BY DEF vars, rows, history
<1>2. Limits' /\ Located' /\ TypeOK'
  BY <1>1 DEF IInv, Limits, Located, TypeOK, Sharing, Holders, Settled, On, Accounted,
              Charged, Owned, Counted, Held
<1>3. ASSUME NEW o \in Thread
      PROVE  Current(o)'
  BY <1>1 DEF IInv, Current, RoomInQuota, RoomOnNode, UsageRead, RoomForChange,
              Sharing, Holders, Settled, On, Accounted, Charged, Owned, Counted, Held
<1>4. QED
  BY <1>2, <1>3 DEF IInv

LEMMA StepHolds ==
  ASSUME IInv, [Next]_vars
  PROVE  IInv'
<1>0. TypeOK'
  BY StepTyped DEF IInv
<1>1. ASSUME NEW t \in Thread, NEW u \in User, NEW k \in Wanted, Ask(t, u, k)
      PROVE  IInv'
  BY <1>0, <1>1, AskHolds
<1>2. ASSUME NEW t \in Thread, NEW u \in User, NEW c \in Container, NEW k \in Wanted,
             AskChange(t, u, c, k)
      PROVE  IInv'
  BY <1>0, <1>2, AskChangeHolds
<1>3. ASSUME NEW t \in Thread, NEW n \in Node, Place(t, n)
      PROVE  IInv'
  BY <1>0, <1>3, PlaceHolds
<1>4. ASSUME NEW t \in Thread, NEW c \in Container, Insert(t, c)
      PROVE  IInv'
  BY <1>0, <1>4, InsertHolds
<1>5. ASSUME NEW t \in Thread, Adjust(t)
      PROVE  IInv'
  BY <1>0, <1>5, AdjustHolds
<1>6. ASSUME NEW t \in Thread, Save(t)
      PROVE  IInv'
  BY <1>0, <1>6, SaveHolds
<1>7. ASSUME NEW t \in Thread, Refuse(t)
      PROVE  IInv'
  BY <1>0, <1>7, RefuseHolds
<1>8. ASSUME NEW c \in Container, NEW s \in Live \cup {"gone"},
             Lifecycle(c, s) \/ TaskResult(c, s) \/ Heartbeat(c, s)
      PROVE  IInv'
  <2>1. st[c] \in Live /\ Becomes(c, s)
    BY <1>8 DEF Lifecycle, TaskResult, Heartbeat, Live
  <2>2. QED
    BY <1>0, <2>1, BecomesHolds
<1>9. ASSUME NEW c \in Container, ForceDelete(c) \/ Retry(c)
      PROVE  IInv'
  <2>1. st[c] \in Live /\ (Becomes(c, "gone") \/ Becomes(c, "busy"))
    BY <1>9 DEF ForceDelete, Retry, Live
  <2>2. "busy" \in Live
    BY DEF Live, Transitional
  <2>3. QED
    BY <1>0, <2>1, <2>2, BecomesHolds
<1>10. CASE UNCHANGED vars
  BY <1>10, StutterHolds
<1>11. QED
  BY <1>1, <1>2, <1>3, <1>4, <1>5, <1>6, <1>7, <1>8, <1>9, <1>10 DEF Next

-----------------------------------------------------------------------------
(* Every state of the scheduler has the types that TypeOK gives.           *)
THEOREM TypeCorrect == Spec => []TypeOK
<1>1. QED
  BY InitTyped, StepTyped, PTL DEF Spec

THEOREM LimitsAlwaysHold == Spec => []IInv
<1>1. QED
  BY InitHolds, StepHolds, PTL DEF Spec

(* However requests, results and heartbeats interleave, the containers of  *)
(* a GPU that no race let in, and that were not counted again unchecked,   *)
(* are within its sharing limit.                                           *)
THEOREM SharingHolds == Spec => []SharingWithinLimit
<1>1. IInv => SharingWithinLimit
  BY DEF IInv, Limits, Sharing, SharingWithinLimit
<1>2. QED
  BY <1>1, LimitsAlwaysHold, PTL

(* A user's containers and GPUs are within the quota, but for those, and   *)
(* for what an administrator changed.                                      *)
THEOREM QuotaHolds == Spec => []WithinQuota
<1>1. IInv => WithinQuota
  BY DEF IInv, Limits, Accounted, Charged, WithinQuota
<1>2. QED
  BY <1>1, LimitsAlwaysHold, PTL

(* The containers of a node are within its maximum, but for those.         *)
THEOREM NodeHolds == Spec => []WithinNode
<1>1. IInv => WithinNode
  BY DEF IInv, Limits, Settled, WithinNode
<1>2. QED
  BY <1>1, LimitsAlwaysHold, PTL
=============================================================================
