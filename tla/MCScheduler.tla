----------------------------- MODULE MCScheduler -----------------------------
(* Instances of Scheduler: one node, an owner and an administrator.        *)
EXTENDS Scheduler, TLC

MCNodeOf == [g \in Gpu |-> CHOOSE n \in Node : TRUE]
One == [n \in Node |-> 1]
Two == [n \in Node |-> 2]
OneEach == [u \in User |-> 1]
TwoEach == [u \in User |-> 2]
ThreeOrNone == [u \in User |-> IF u \in Admin THEN 0 ELSE 3]

Symmetries == Permutations(Gpu) \cup Permutations(Container) \cup Permutations(Thread)
=============================================================================
