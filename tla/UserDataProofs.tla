---------------------------- MODULE UserDataProofs ----------------------------
(***************************************************************************)
(* Theorems about what the platform keeps for its users, and their proofs: *)
(* the rules that copy files on schedule (SyncRules, in Platform S), then  *)
(* the directories of a home (DirectoryScans, D), then the workspace       *)
(* volumes (Workspaces, V).                                                *)
(***************************************************************************)
EXTENDS Platform, Naturals, Sequences, FiniteSetTheorems, SequenceTheorems, TLAPS

(* What SyncRules and DirectoryScans have from FiniteSets is what is used  *)
(* here.                                                                   *)
LEMMA SameSizes ==
  /\ \A Q : (S!IsFiniteSet(Q) <=> IsFiniteSet(Q)) /\ (D!IsFiniteSet(Q) <=> IsFiniteSet(Q))
  /\ \A Q : S!Cardinality(Q) = Cardinality(Q) /\ D!Cardinality(Q) = Cardinality(Q)
<1>1. \A Q : (S!IsFiniteSet(Q) <=> IsFiniteSet(Q)) /\ (D!IsFiniteSet(Q) <=> IsFiniteSet(Q))
  BY DEF S!IsFiniteSet, D!IsFiniteSet, IsFiniteSet
<1>2. \A Q : S!Cardinality(Q) = Cardinality(Q) /\ D!Cardinality(Q) = Cardinality(Q)
  BY DEF S!Cardinality, D!Cardinality, Cardinality
<1>3. QED
  BY <1>1, <1>2

(* The days, in the order of the clock.                                    *)
LEMMA DaysPass ==
  ASSUME S!Parameters
  PROVE  \A s, t \in Nat : s <= t => S!DayOf(s) <= S!DayOf(t) /\ S!DayOf(s) \in Nat /\ S!DayOf(t) \in Nat
BY DEF S!DayOf, S!Parameters

LEMMA ClockFits ==
  ASSUME S!Parameters
  PROVE  S!End \in Nat /\ Day \in Nat /\ Day > 0 /\ Day <= S!End - 1
BY DEF S!End, S!Parameters

-----------------------------------------------------------------------------
(* The inductive invariant.                                                *)

Row == [is : {"new", "row", "gone"}, on : BOOLEAN, kind : S!Kind, at : 0..(Day - 1), last : Nat]
Look == [of : Rule, row : Row]

RulesTyped ==
  /\ S!TypeOK
  /\ round \in [busy : BOOLEAN, sure : SUBSET Rule]
  /\ todo_S \in Seq(Look)
  /\ \A r \in DOMAIN undo : undo[r] \in 0..now_S
  /\ runs \subseteq [of : Rule, at : Day..now_S, kind : S!Kind]
  /\ chances \subseteq Rule \X Nat

(* Between rounds nothing is open.                                         *)
Quiet == ~round.busy => DOMAIN undo = {} /\ todo_S = <<>> /\ round.sure = {}

(* A run is no later than the round that is under way, no later than what  *)
(* its row says, or the row the round has read, and once the round's       *)
(* transaction is undone no later than what it is set back to.             *)
Dated ==
  /\ round.busy => begun >= Day /\ \A x \in runs : x.at <= begun
  /\ \A x \in runs : rule[x.of].is # "new"
  /\ \A x \in runs : S!Is(x.of) => x.at <= rule[x.of].last
  /\ \A x \in runs : x.of \in DOMAIN undo => x.at = begun \/ x.at <= undo[x.of]
  /\ \A x \in runs : \A i \in DOMAIN todo_S : todo_S[i].of = x.of => x.at <= todo_S[i].row.last
  /\ \A i, j \in DOMAIN todo_S : todo_S[i].of = todo_S[j].of => i = j
  /\ \A i \in DOMAIN todo_S : rule[todo_S[i].of].is # "new"

(* A rule ran on a day, by hand or by the loop; and what is left of that   *)
(* if the open transaction is undone.                                      *)
Ran(r, d) == <<r, d>> \in byHand \/ \E x \in runs : x.of = r /\ S!DayOf(x.at) = d
StaysRun(r, d) ==
  \/ <<r, d>> \in byHand
  \/ \E x \in runs : x.of = r /\ S!DayOf(x.at) = d /\ ~(x.of \in DOMAIN undo /\ x.at = begun)

(* What last_run_at says is true, also if it is set back.                  *)
LastIsTrue ==
  /\ \A r \in Rule : S!Is(r) /\ rule[r].last > 0 => Ran(r, S!DayOf(rule[r].last))
  /\ \A r \in DOMAIN undo : undo[r] > 0 => StaysRun(r, S!DayOf(undo[r]))

(* What can count on a run has run or is about to.                         *)
SureRuns ==
  \A r \in round.sure :
    \/ Ran(r, S!DayOf(begun))
    \/ \E i \in DOMAIN todo_S : todo_S[i].of = r /\ S!Due(todo_S[i].row, begun)

ChancesStay == \A c \in chances : StaysRun(c[1], c[2])

RulesInv == RulesTyped /\ Quiet /\ Dated /\ LastIsTrue /\ SureRuns /\ ChancesStay /\ S!OncePerDay

-----------------------------------------------------------------------------
(* What a round reads.                                                     *)

Before(r) == {q \in S!Eligible : S!Earlier(q, r)}
Place(r) == Cardinality(Before(r)) + 1
Rows == {r \in S!Eligible : Place(r) <= Limit}

LEMMA EligibleFinite ==
  ASSUME S!Parameters
  PROVE  /\ S!Eligible \subseteq Rule /\ IsFiniteSet(S!Eligible) /\ Cardinality(S!Eligible) \in Nat
         /\ \A r : IsFiniteSet(Before(r)) /\ Before(r) \subseteq S!Eligible /\ Place(r) \in Nat \ {0}
         /\ Rows \subseteq S!Eligible /\ IsFiniteSet(Rows) /\ Cardinality(Rows) \in Nat
<1>1. S!Eligible \subseteq Rule /\ IsFiniteSet(Rule)
  BY SameSizes DEF S!Eligible, S!Parameters
<1>2. IsFiniteSet(S!Eligible)
  BY <1>1, FS_Subset
<1>3. ASSUME NEW r
      PROVE  IsFiniteSet(Before(r)) /\ Before(r) \subseteq S!Eligible /\ Place(r) \in Nat \ {0}
  <2>1. Before(r) \subseteq S!Eligible
    BY DEF Before
  <2>2. IsFiniteSet(Before(r)) /\ Cardinality(Before(r)) \in Nat
    BY <1>2, <2>1, FS_Subset, FS_CardinalityType
  <2>3. QED
    BY <2>1, <2>2 DEF Place
<1>4. Rows \subseteq S!Eligible
  BY DEF Rows
<1>5. IsFiniteSet(Rows)
  BY <1>2, <1>4, FS_Subset
<1>6. QED
  BY <1>1, <1>2, <1>3, <1>4, <1>5, FS_CardinalityType

LEMMA Ordered ==
  ASSUME S!Parameters, RulesTyped
  PROVE  \A p \in S!Eligible : p \in Nat /\ rule[p].last \in Nat
<1>1. \A p \in Rule : rule[p].last \in 0..now_S
  BY DEF RulesTyped, S!TypeOK
<1>2. S!Eligible \subseteq Rule /\ Rule \subseteq Nat
  BY EligibleFinite DEF S!Parameters
<1>3. ASSUME NEW p \in S!Eligible PROVE p \in Nat /\ rule[p].last \in Nat
  <2>1. p \in Rule
    BY <1>2
  <2>2. rule[p].last \in 0..now_S
    BY <1>1, <2>1
  <2>3. QED
    BY <1>2, <2>1, <2>2
<1>4. QED
  BY <1>3

(* Rules that are ordered have places in that order.                       *)
LEMMA PlacesInOrder ==
  ASSUME S!Parameters, RulesTyped, NEW q \in S!Eligible, NEW r \in S!Eligible, S!Earlier(q, r)
  PROVE  Place(q) < Place(r)
<1>1. /\ \A p \in S!Eligible : p \in Nat /\ rule[p].last \in Nat
      /\ q \in S!Eligible /\ r \in S!Eligible
  BY Ordered
<1>2. Before(q) \subseteq Before(r)
  BY <1>1 DEF Before, S!Earlier
<1>3. q \in Before(r) /\ q \notin Before(q)
  BY <1>1 DEF Before, S!Earlier
<1>4. IsFiniteSet(Before(r)) /\ IsFiniteSet(Before(q))
  BY EligibleFinite
<1>5. Cardinality(Before(q)) <= Cardinality(Before(r)) /\ Cardinality(Before(q)) # Cardinality(Before(r))
  BY <1>2, <1>3, <1>4, FS_Subset
<1>6. Cardinality(Before(q)) \in Nat /\ Cardinality(Before(r)) \in Nat
  BY <1>4, FS_CardinalityType
<1>7. QED
  BY <1>5, <1>6 DEF Place

LEMMA OnePlaceEach ==
  ASSUME S!Parameters, RulesTyped, NEW q \in S!Eligible, NEW r \in S!Eligible, Place(q) = Place(r)
  PROVE  q = r
<1>1. \A p \in S!Eligible : p \in Nat /\ rule[p].last \in Nat
  BY Ordered
<1>2. q = r \/ S!Earlier(q, r) \/ S!Earlier(r, q)
  BY <1>1 DEF S!Earlier
<1>3. Place(q) \in Nat /\ Place(r) \in Nat
  BY EligibleFinite
<1>4. QED
  BY <1>2, <1>3, PlacesInOrder

(* The rules a round reads have the first places, and every such place.    *)
LEMMA PlacesTaken ==
  ASSUME S!Parameters, RulesTyped
  PROVE  /\ \A r \in Rows : Place(r) \in 1..Cardinality(Rows)
         /\ \A i \in 1..Cardinality(Rows) : \E r \in Rows : Place(r) = i
<1> DEFINE n == Cardinality(Rows)
           f == [r \in Rows |-> Place(r)]
<1>1. n \in Nat /\ Rows \subseteq S!Eligible /\ IsFiniteSet(Rows)
  BY EligibleFinite
<1>2. ASSUME NEW r \in Rows PROVE Place(r) \in 1..n
  <2>1. Place(r) \in Nat \ {0} /\ Place(r) <= Limit /\ Limit \in Nat
    BY EligibleFinite DEF Rows, S!Parameters
  <2>2. Before(r) \subseteq Rows \ {r}
    <3>1. ASSUME NEW q \in Before(r) PROVE q \in Rows \ {r}
      <4>1. q \in S!Eligible /\ S!Earlier(q, r) /\ r \in S!Eligible
        BY <1>1 DEF Before
      <4>2. Place(q) < Place(r) /\ Place(q) \in Nat
        BY <4>1, PlacesInOrder, EligibleFinite
      <4>3. Place(q) <= Limit /\ q # r
        BY <2>1, <4>2
      <4>4. QED
        BY <4>1, <4>3 DEF Rows
    <3>2. QED
      BY <3>1
  <2>3. IsFiniteSet(Rows \ {r}) /\ Cardinality(Rows \ {r}) = n - 1
    BY <1>1, FS_RemoveElement
  <2>4. Cardinality(Before(r)) <= n - 1
    BY <2>2, <2>3, FS_Subset
  <2>5. Cardinality(Before(r)) \in Nat
    BY EligibleFinite, FS_CardinalityType
  <2>6. QED
    BY <1>1, <2>4, <2>5 DEF Place
<1>3. f \in Injection(Rows, 1..n)
  <2>1. f \in [Rows -> 1..n]
    BY <1>2
  <2>2. \A q, r \in Rows : f[q] = f[r] => q = r
    BY <1>1, OnePlaceEach
  <2>3. QED
    BY <2>1, <2>2 DEF Injection, IsInjective
<1>4. IsFiniteSet(1..n) /\ Cardinality(1..n) = n
  <2>1. IsFiniteSet(1..n) /\ Cardinality(1..n) = IF 1 > n THEN 0 ELSE n - 1 + 1
    BY <1>1, FS_Interval
  <2>2. QED
    BY <1>1, <2>1
<1>5. f \in Surjection(Rows, 1..n)
  BY <1>3, <1>4, FS_Injection
<1>6. \A i \in 1..n : \E r \in Rows : f[r] = i
  BY <1>5 DEF Surjection
<1>7. QED
  BY <1>2, <1>6

(* A round reads different rules, with their rows, no more than Limit, and *)
(* all of them if there are no more.                                       *)
LEMMA WindowFacts ==
  ASSUME S!Parameters, RulesTyped
  PROVE  /\ S!Window \in Seq(Look) /\ Len(S!Window) <= Limit
         /\ \A i \in DOMAIN S!Window : /\ S!Window[i].of \in S!Eligible
                                     /\ S!Window[i].row = rule[S!Window[i].of]
         /\ \A i, j \in DOMAIN S!Window : S!Window[i].of = S!Window[j].of => i = j
         /\ Cardinality(S!Eligible) <= Limit =>
              \A r \in S!Eligible : \E i \in DOMAIN S!Window : S!Window[i].of = r
<1> DEFINE n == Cardinality(Rows)
           at(i) == CHOOSE q \in Rows : Place(q) = i
<1>1. /\ n \in Nat /\ Rows \subseteq S!Eligible /\ IsFiniteSet(Rows) /\ S!Eligible \subseteq Rule
      /\ Cardinality(S!Eligible) \in Nat /\ IsFiniteSet(S!Eligible)
  BY EligibleFinite
<1>2. S!Window = [i \in 1..n |-> [of |-> at(i), row |-> rule[at(i)]]]
  BY SameSizes DEF S!Window, Place, Before, Rows
<1>3. \A i \in 1..n : at(i) \in Rows /\ Place(at(i)) = i
  BY PlacesTaken
<1> HIDE DEF at
<1>4. \A r \in Rule : rule[r] \in Row
  BY DEF RulesTyped, S!TypeOK, Row, S!Parameters
<1>5. S!Window \in Seq(Look) /\ Len(S!Window) = n /\ DOMAIN S!Window = 1..n
  <2>1. \A i \in 1..n : [of |-> at(i), row |-> rule[at(i)]] \in Look
    BY <1>1, <1>3, <1>4 DEF Look
  <2>2. S!Window \in [1..n -> Look]
    BY <1>2, <2>1
  <2>3. QED
    BY <1>1, <2>2, SeqDef, LenProperties
<1>6. n <= Limit
  <2>1. CASE n = 0
    BY <2>1 DEF S!Parameters
  <2>2. CASE n # 0
    <3>1. at(n) \in Rows /\ Place(at(n)) = n
      BY <1>1, <1>3, <2>2
    <3>2. QED
      BY <3>1 DEF Rows
  <2>3. QED
    BY <2>1, <2>2
<1>7. \A i \in 1..n : S!Window[i].of = at(i) /\ S!Window[i].row = rule[at(i)]
  BY <1>2
<1>8. \A i, j \in 1..n : at(i) = at(j) => i = j
  BY <1>3
<1>9. ASSUME Cardinality(S!Eligible) <= Limit, NEW r \in S!Eligible
      PROVE  \E i \in 1..n : at(i) = r
  <2>1. Before(r) \subseteq S!Eligible \ {r}
    <3>1. \A p \in S!Eligible : p \in Nat /\ rule[p].last \in Nat
      BY Ordered
    <3>2. QED
      BY <3>1 DEF Before, S!Earlier
  <2>2. Cardinality(Before(r)) <= Cardinality(S!Eligible) - 1
    <3>1. IsFiniteSet(S!Eligible \ {r}) /\ Cardinality(S!Eligible \ {r}) = Cardinality(S!Eligible) - 1
      BY <1>1, FS_RemoveElement
    <3>2. QED
      BY <2>1, <3>1, FS_Subset
  <2>3. Cardinality(Before(r)) \in Nat /\ Limit \in Nat
    BY EligibleFinite, FS_CardinalityType DEF S!Parameters
  <2>4. r \in Rows
    BY <1>1, <1>9, <2>2, <2>3 DEF Rows, Place
  <2>5. Place(r) \in 1..n
    BY <2>4, PlacesTaken
  <2>6. at(Place(r)) \in S!Eligible /\ Place(at(Place(r))) = Place(r)
    BY <1>1, <1>3, <2>5
  <2>7. at(Place(r)) = r
    BY <2>6, OnePlaceEach
  <2>8. QED
    BY <2>5, <2>7
<1>10. QED
  BY <1>1, <1>3, <1>5, <1>6, <1>7, <1>8, <1>9

-----------------------------------------------------------------------------
(* The steps.                                                              *)

LEMMA RulesInvInit ==
  ASSUME S!Parameters, S!Init
  PROVE  RulesInv
<1> USE DEF S!Init
<1>1. RulesTyped
  <2>1. Day \in Day..(S!End - 1) /\ 0 \in 0..Day /\ 0 \in 0..(Day - 1) /\ MaxAsked_S \in Nat
        /\ MaxFaults \in Nat /\ Limit \in Nat
    BY ClockFits DEF S!Parameters
  <2>2. S!NoRow \in [is : {"new", "row", "gone"}, on : BOOLEAN, kind : S!Kind,
                   at : 0..(Day - 1), last : 0..Day]
    BY <2>1 DEF S!NoRow, S!Kind
  <2>3. S!TypeOK
    BY <2>1, <2>2 DEF S!TypeOK, S!NoRound, S!Nothing
  <2>4. QED
    BY <2>3 DEF RulesTyped, S!NoRound, S!Nothing
<1>2. Quiet /\ Dated
  BY DEF Quiet, Dated, S!NoRound, S!Nothing, S!NoRow
<1>3. LastIsTrue /\ SureRuns /\ ChancesStay /\ S!OncePerDay
  BY DEF LastIsTrue, SureRuns, ChancesStay, S!OncePerDay, S!NoRound, S!Nothing, S!Is, S!NoRow
<1>4. QED
  BY <1>1, <1>2, <1>3 DEF RulesInv

(* What the invariant says of types, in the form the steps use.            *)
LEMMA Types ==
  ASSUME S!Parameters, RulesTyped
  PROVE  /\ now_S \in Nat /\ begun \in 0..now_S /\ Day \in Nat /\ Day > 0 /\ now_S >= Day
         /\ round.busy \in BOOLEAN /\ round.sure \subseteq Rule
         /\ \A r \in Rule : rule[r] \in Row /\ rule[r].last \in 0..now_S
         /\ \A i \in DOMAIN todo_S : todo_S[i] \in Look
         /\ \A x \in runs : x.of \in Rule /\ x.at \in Day..now_S /\ x.kind \in S!Kind
         /\ DOMAIN undo \subseteq Rule
<1>1. Day \in Nat /\ Day > 0 /\ S!End \in Nat
  BY ClockFits
<1>2. now_S \in Day..(S!End - 1) /\ begun \in 0..now_S
  BY DEF RulesTyped, S!TypeOK
<1>3. \A r \in Rule : rule[r] \in [is : {"new", "row", "gone"}, on : BOOLEAN, kind : S!Kind,
                                   at : 0..(Day - 1), last : 0..now_S]
  BY DEF RulesTyped, S!TypeOK
<1>4. \A r \in Rule : rule[r] \in Row /\ rule[r].last \in 0..now_S
  BY <1>3 DEF Row
<1>5. \A i \in DOMAIN todo_S : todo_S[i] \in Look
  BY ElementOfSeq, LenProperties DEF RulesTyped
<1>6. round.busy \in BOOLEAN /\ round.sure \subseteq Rule
  BY DEF RulesTyped
<1>7. \A x \in runs : x.of \in Rule /\ x.at \in Day..now_S /\ x.kind \in S!Kind
  BY DEF RulesTyped
<1>8. QED
  BY <1>1, <1>2, <1>4, <1>5, <1>6, <1>7 DEF RulesTyped, S!TypeOK

(* The rest of what a round has read.                                      *)
LEMMA RestOfRound ==
  ASSUME S!Parameters, RulesTyped, todo_S # <<>>, todo_S' = Tail(todo_S)
  PROVE  /\ todo_S' \in Seq(Look) /\ 1 \in DOMAIN todo_S /\ Head(todo_S) = todo_S[1]
         /\ Len(todo_S') <= Limit
         /\ \A i \in DOMAIN todo_S' : i + 1 \in DOMAIN todo_S /\ todo_S'[i] = todo_S[i + 1] /\ i \in Nat /\ i # 0
         /\ \A i \in DOMAIN todo_S : i # 1 => i - 1 \in DOMAIN todo_S' /\ todo_S'[i - 1] = todo_S[i]
<1>1. todo_S \in Seq(Look) /\ Len(todo_S) <= Limit /\ Limit \in Nat
  BY DEF RulesTyped, S!TypeOK, S!Parameters
<1>2. Len(todo_S) \in Nat /\ DOMAIN todo_S = 1..Len(todo_S) /\ Len(todo_S) # 0
  BY <1>1, LenProperties, EmptySeq
<1>3. /\ Tail(todo_S) \in Seq(Look) /\ Len(Tail(todo_S)) = Len(todo_S) - 1
      /\ \A i \in 1..(Len(todo_S) - 1) : Tail(todo_S)[i] = todo_S[i + 1]
  BY <1>1, HeadTailProperties
<1>4. Head(todo_S) = todo_S[1]
  BY <1>1, HeadTailProperties
<1>5. DOMAIN todo_S' = 1..(Len(todo_S) - 1)
  BY <1>3, LenProperties
<1>6. QED
  BY <1>1, <1>2, <1>3, <1>4, <1>5

LEMMA TickStep ==
  ASSUME S!Parameters, RulesInv, S!Tick
  PROVE  RulesInv'
<1> USE DEF S!Tick
<1>1. now_S \in Nat /\ now_S' = now_S + 1 /\ begun \in 0..now_S /\ now_S >= Day /\ Day \in Nat
      /\ now_S' \in Day..(S!End - 1)
  BY Types, ClockFits DEF RulesInv
<1>2. 0..now_S \subseteq 0..now_S' /\ Day..now_S \subseteq Day..now_S'
  BY <1>1
<1>3. \A r \in Rule : rule[r] \in [is : {"new", "row", "gone"}, on : BOOLEAN, kind : S!Kind,
                                   at : 0..(Day - 1), last : 0..now_S']
  <2>1. \A r \in Rule : rule[r] \in Row /\ rule[r].last \in 0..now_S
    BY Types DEF RulesInv
  <2>2. QED
    BY <1>2, <2>1 DEF Row
<1>4. S!TypeOK'
  BY <1>1, <1>2, <1>3 DEF RulesInv, RulesTyped, S!TypeOK
<1>5. runs' \subseteq [of : Rule, at : Day..now_S', kind : S!Kind]
  BY <1>2 DEF RulesInv, RulesTyped
<1>6. RulesTyped'
  BY <1>2, <1>4, <1>5 DEF RulesInv, RulesTyped
<1>7. Quiet' /\ Dated' /\ LastIsTrue' /\ SureRuns' /\ ChancesStay' /\ S!OncePerDay'
  BY DEF RulesInv, Quiet, Dated, S!Is, LastIsTrue, Ran, StaysRun, SureRuns, ChancesStay,
     S!OncePerDay
<1>8. QED
  BY <1>6, <1>7 DEF RulesInv

LEMMA StartRoundStep ==
  ASSUME S!Parameters, RulesInv, S!StartRound
  PROVE  RulesInv'
<1> USE DEF S!StartRound
<1>1. /\ begun' = now_S /\ todo_S' = S!Window /\ round'.busy = TRUE /\ ~round.busy
      /\ UNCHANGED <<now_S, rule, undo, asked_S, faults_S, runs, byHand, chances>>
  OBVIOUS
<1>2. /\ now_S \in Nat /\ now_S >= Day /\ Day \in Nat /\ Day > 0
      /\ \A r \in Rule : rule[r].last \in 0..now_S
      /\ \A x \in runs : x.of \in Rule /\ x.at \in Day..now_S
  BY Types DEF RulesInv
<1>3. DOMAIN undo = {}
  BY DEF RulesInv, Quiet
<1>4. /\ S!Window \in Seq(Look) /\ Len(S!Window) <= Limit
      /\ \A i \in DOMAIN S!Window : /\ S!Window[i].of \in S!Eligible
                                  /\ S!Window[i].row = rule[S!Window[i].of]
      /\ \A i, j \in DOMAIN S!Window : S!Window[i].of = S!Window[j].of => i = j
      /\ Cardinality(S!Eligible) <= Limit =>
           \A r \in S!Eligible : \E i \in DOMAIN S!Window : S!Window[i].of = r
  BY WindowFacts DEF RulesInv
<1>5. round'.sure \subseteq S!Eligible /\ S!Eligible \subseteq Rule
  BY DEF S!Eligible
<1>6. RulesTyped'
  <2>1. round' \in [busy : BOOLEAN, sure : SUBSET Rule]
    BY <1>5
  <2>2. S!TypeOK'
    BY <1>1, <1>2, <1>4, <1>5 DEF RulesInv, RulesTyped, S!TypeOK
  <2>3. QED
    BY <1>1, <1>4, <2>1, <2>2 DEF RulesInv, RulesTyped
<1>7. Quiet'
  BY DEF Quiet
<1>8. \A i \in DOMAIN S!Window : S!Is(S!Window[i].of) /\ S!Window[i].of \in Rule
  BY <1>4, <1>5 DEF S!Eligible
<1>9. Dated'
  BY <1>1, <1>2, <1>3, <1>4, <1>8 DEF RulesInv, Dated, S!Is
<1>10. LastIsTrue'
  BY <1>1, <1>3 DEF RulesInv, LastIsTrue, S!Is, Ran
<1>11. ChancesStay'
  BY <1>1, <1>3 DEF RulesInv, ChancesStay, StaysRun
<1>12. S!OncePerDay'
  BY <1>1 DEF RulesInv, S!OncePerDay
<1>13. SureRuns'
  <2> SUFFICES ASSUME NEW r \in round'.sure
               PROVE  \/ Ran(r, S!DayOf(begun))'
                      \/ \E i \in DOMAIN todo_S' : todo_S'[i].of = r /\ S!Due(todo_S'[i].row, begun')
    BY DEF SureRuns
  <2>1. /\ Cardinality(S!Eligible) \in Nat /\ Limit \in Nat
        /\ ~(Cardinality(S!Eligible) > Limit)
        /\ r \in S!Eligible /\ rule[r].kind = "daily" /\ rule[r].at <= now_S % Day
    BY EligibleFinite, SameSizes DEF S!Parameters
  <2>2. PICK i \in DOMAIN S!Window : S!Window[i].of = r /\ S!Window[i].row = rule[r]
    BY <1>4, <2>1
  <2>3. rule[r].last \in Nat /\ rule[r].last <= now_S /\ S!Is(r) /\ r \in Rule /\ rule[r].at \in Nat
    BY <1>2, <2>1, Types DEF S!Eligible, RulesInv, Row
  <2>4. CASE rule[r].last > 0 /\ S!DayOf(rule[r].last) >= S!DayOf(now_S)
    <3>1. S!DayOf(rule[r].last) = S!DayOf(now_S)
      BY <1>2, <2>3, <2>4, DaysPass
    <3>2. Ran(r, S!DayOf(now_S))
      BY <2>3, <2>4, <3>1 DEF RulesInv, LastIsTrue
    <3>3. QED
      BY <1>1, <3>2 DEF Ran
  <2>5. CASE ~(rule[r].last > 0 /\ S!DayOf(rule[r].last) >= S!DayOf(now_S))
    <3>1. now_S % Day >= rule[r].at
      BY <1>2, <2>1, <2>3
    <3>2. rule[r].last > 0 => S!DayOf(now_S) > S!DayOf(rule[r].last)
      BY <1>2, <2>3, <2>5, DaysPass
    <3>3. S!Due(rule[r], now_S)
      BY <2>1, <3>1, <3>2 DEF S!Due
    <3>4. QED
      BY <1>1, <2>2, <3>3
  <2>6. QED
    BY <2>4, <2>5
<1>14. QED
  BY <1>6, <1>7, <1>9, <1>10, <1>11, <1>12, <1>13 DEF RulesInv

(* A rule that is due has not run since: no later than what the round read *)
(* of it, which is before the round, and before its day if it is daily.    *)
LEMMA DueIsLater ==
  ASSUME S!Parameters, RulesInv, todo_S # <<>>, S!IsDue, NEW x \in runs, x.of = Head(todo_S).of
  PROVE  x.at < begun /\ (Head(todo_S).row.kind = "daily" => S!DayOf(x.at) < S!DayOf(begun))
<1> DEFINE new == Head(todo_S).row
<1>1. 1 \in DOMAIN todo_S /\ Head(todo_S) = todo_S[1]
  <2>1. todo_S \in Seq(Look)
    BY DEF RulesInv, RulesTyped
  <2>2. Len(todo_S) \in Nat /\ DOMAIN todo_S = 1..Len(todo_S) /\ Len(todo_S) # 0
    BY <2>1, LenProperties, EmptySeq
  <2>3. QED
    BY <2>1, <2>2, HeadTailProperties
<1>2. /\ new.last \in Nat /\ new.kind \in S!Kind /\ x.at \in Nat /\ x.at >= Day /\ Day > 0 /\ Day \in Nat
      /\ begun \in Nat
  BY <1>1, Types DEF RulesInv, Look, Row
<1>3. x.at <= new.last
  BY <1>1 DEF RulesInv, Dated
<1>4. new.last > 0
  BY <1>2, <1>3
<1>5. IF new.kind = "daily" THEN S!DayOf(begun) > S!DayOf(new.last) ELSE begun >= new.last + Interval
  BY <1>4 DEF S!IsDue, S!Due
<1>6. /\ S!DayOf(x.at) <= S!DayOf(new.last) /\ S!DayOf(x.at) \in Nat /\ S!DayOf(new.last) \in Nat
      /\ S!DayOf(begun) \in Nat
      /\ begun <= new.last => S!DayOf(begun) <= S!DayOf(new.last)
  <2>1. \A t \in Nat : S!DayOf(t) \in Nat
    BY DaysPass
  <2>2. \A s, t \in Nat : s <= t => S!DayOf(s) <= S!DayOf(t)
    BY DaysPass
  <2> HIDE DEF new
  <2>3. QED
    BY <1>2, <1>3, <2>1, <2>2
<1>7. CASE new.kind = "daily"
  BY <1>2, <1>3, <1>5, <1>6, <1>7
<1>8. CASE new.kind # "daily"
  BY <1>2, <1>3, <1>5, <1>8 DEF S!Parameters
<1>9. QED
  BY <1>7, <1>8

LEMMA SkipStep ==
  ASSUME S!Parameters, RulesInv, S!Skip
  PROVE  RulesInv'
<1> USE DEF S!Skip, S!Looked
<1>1. /\ todo_S' \in Seq(Look) /\ 1 \in DOMAIN todo_S /\ Head(todo_S) = todo_S[1]
      /\ Len(todo_S') <= Limit
      /\ \A i \in DOMAIN todo_S' : i + 1 \in DOMAIN todo_S /\ todo_S'[i] = todo_S[i + 1] /\ i \in Nat /\ i # 0
      /\ \A i \in DOMAIN todo_S : i # 1 => i - 1 \in DOMAIN todo_S' /\ todo_S'[i - 1] = todo_S[i]
  BY RestOfRound DEF RulesInv
<1>2. RulesTyped' /\ Quiet'
  BY <1>1 DEF RulesInv, RulesTyped, S!TypeOK, Quiet
<1>3. Dated'
  BY <1>1 DEF RulesInv, Dated, S!Is
<1>4. LastIsTrue' /\ ChancesStay' /\ S!OncePerDay'
  BY DEF RulesInv, LastIsTrue, S!Is, Ran, StaysRun, ChancesStay, S!OncePerDay
<1>5. SureRuns'
  <2> SUFFICES ASSUME NEW r \in round.sure
               PROVE  \/ Ran(r, S!DayOf(begun))'
                      \/ \E i \in DOMAIN todo_S' : todo_S'[i].of = r /\ S!Due(todo_S'[i].row, begun')
    BY DEF SureRuns
  <2>1. CASE Ran(r, S!DayOf(begun))
    BY <2>1 DEF Ran
  <2>2. CASE \E i \in DOMAIN todo_S : todo_S[i].of = r /\ S!Due(todo_S[i].row, begun)
    <3>1. PICK i \in DOMAIN todo_S : todo_S[i].of = r /\ S!Due(todo_S[i].row, begun)
      BY <2>2
    <3>2. i # 1
      BY <1>1, <3>1 DEF S!IsDue
    <3>3. i - 1 \in DOMAIN todo_S' /\ todo_S'[i - 1] = todo_S[i] /\ begun' = begun
      BY <1>1, <3>2
    <3>4. QED
      BY <3>1, <3>3
  <2>3. QED
    BY <2>1, <2>2 DEF RulesInv, SureRuns
<1>6. QED
  BY <1>2, <1>3, <1>4, <1>5 DEF RulesInv

LEMMA EnqueueFailsStep ==
  ASSUME S!Parameters, RulesInv, S!EnqueueFails
  PROVE  RulesInv'
<1> USE DEF S!EnqueueFails, S!Looked
<1>1. /\ todo_S' \in Seq(Look) /\ 1 \in DOMAIN todo_S /\ Head(todo_S) = todo_S[1]
      /\ Len(todo_S') <= Limit
      /\ \A i \in DOMAIN todo_S' : i + 1 \in DOMAIN todo_S /\ todo_S'[i] = todo_S[i + 1] /\ i \in Nat /\ i # 0
      /\ \A i \in DOMAIN todo_S : i # 1 => i - 1 \in DOMAIN todo_S' /\ todo_S'[i - 1] = todo_S[i]
  BY RestOfRound DEF RulesInv
<1>2. round'.busy = TRUE /\ round'.sure = round.sure \ {todo_S[1].of}
      /\ round' \in [busy : BOOLEAN, sure : SUBSET Rule]
  BY <1>1 DEF RulesInv, RulesTyped
<1>3. DOMAIN undo' \subseteq DOMAIN undo /\ \A r \in DOMAIN undo' : undo'[r] = undo[r]
  BY DEF S!Nothing
<1>4. faults_S' \in 0..MaxFaults
  BY DEF S!Fault, RulesInv, RulesTyped, S!TypeOK, S!Parameters
<1>5. RulesTyped' /\ Quiet'
  BY <1>1, <1>2, <1>3, <1>4 DEF RulesInv, RulesTyped, S!TypeOK, Quiet
<1>6. Dated'
  BY <1>1, <1>2, <1>3 DEF RulesInv, Dated, S!Is
<1>7. \A r, d : StaysRun(r, d) => StaysRun(r, d)'
  BY <1>3 DEF StaysRun
<1>8. LastIsTrue' /\ ChancesStay' /\ S!OncePerDay'
  <2>1. LastIsTrue'
    BY <1>3, <1>7 DEF RulesInv, LastIsTrue, S!Is, Ran
  <2>2. ChancesStay'
    BY <1>7 DEF RulesInv, ChancesStay
  <2>3. S!OncePerDay'
    BY DEF RulesInv, S!OncePerDay
  <2>4. QED
    BY <2>1, <2>2, <2>3
<1>9. SureRuns'
  <2> SUFFICES ASSUME NEW r \in round.sure, r # todo_S[1].of
               PROVE  \/ Ran(r, S!DayOf(begun))'
                      \/ \E i \in DOMAIN todo_S' : todo_S'[i].of = r /\ S!Due(todo_S'[i].row, begun')
    BY <1>2 DEF SureRuns
  <2>1. CASE Ran(r, S!DayOf(begun))
    BY <2>1 DEF Ran
  <2>2. CASE \E i \in DOMAIN todo_S : todo_S[i].of = r /\ S!Due(todo_S[i].row, begun)
    <3>1. PICK i \in DOMAIN todo_S : todo_S[i].of = r /\ S!Due(todo_S[i].row, begun)
      BY <2>2
    <3>2. i - 1 \in DOMAIN todo_S' /\ todo_S'[i - 1] = todo_S[i]
      BY <1>1, <3>1
    <3>3. QED
      BY <3>1, <3>2
  <2>3. QED
    BY <2>1, <2>2 DEF RulesInv, SureRuns
<1>10. QED
  BY <1>5, <1>6, <1>8, <1>9 DEF RulesInv

LEMMA RunStep ==
  ASSUME S!Parameters, RulesInv, S!Run
  PROVE  RulesInv'
<1>0. PICK h, r, new : h = todo_S[1] /\ r = todo_S[1].of
                      /\ new = [of |-> r, at |-> begun, kind |-> h.row.kind]
  OBVIOUS
<1>1. /\ todo_S' \in Seq(Look) /\ 1 \in DOMAIN todo_S /\ Head(todo_S) = todo_S[1]
      /\ Len(todo_S') <= Limit
      /\ \A i \in DOMAIN todo_S' : i + 1 \in DOMAIN todo_S /\ todo_S'[i] = todo_S[i + 1] /\ i \in Nat /\ i # 0
      /\ \A i \in DOMAIN todo_S : i # 1 => i - 1 \in DOMAIN todo_S' /\ todo_S'[i - 1] = todo_S[i]
  BY RestOfRound DEF RulesInv, S!Run, S!Looked
<1>2. /\ round.busy /\ todo_S # <<>> /\ todo_S' = Tail(todo_S) /\ S!IsDue
      /\ rule' = IF S!Is(r) THEN [rule EXCEPT ![r].last = begun] ELSE rule
      /\ runs' = runs \cup {new}
      /\ UNCHANGED <<now_S, begun, round, asked_S, faults_S, byHand, chances>>
  BY <1>0, <1>1 DEF S!Run, S!Looked
<1>3. /\ h \in Look /\ r \in Rule /\ h.row \in Row /\ h.row.kind \in S!Kind
      /\ now_S \in Nat /\ begun \in 0..now_S /\ begun >= Day /\ Day \in Nat /\ Day > 0
      /\ new.of = r /\ new.at = begun /\ new.kind = h.row.kind
  BY <1>0, <1>1, <1>2, Types DEF RulesInv, Look, Row, Dated
<1>4. /\ DOMAIN undo' \subseteq DOMAIN undo \cup {r}
      /\ \A q \in DOMAIN undo' : \/ q \in DOMAIN undo /\ undo'[q] = undo[q]
                                 \/ q = r /\ S!Is(r) /\ undo'[q] = rule[r].last
  BY <1>0, <1>1 DEF S!Run, S!Nothing
<1>5. \A x \in runs : x.of = r => x.at < begun /\ (h.row.kind = "daily" => S!DayOf(x.at) < S!DayOf(begun))
  BY <1>0, <1>1, <1>2, DueIsLater
<1>6. /\ \A q \in Rule : rule'[q].is = rule[q].is
      /\ \A q \in Rule : q # r => rule'[q] = rule[q]
      /\ S!Is(r) => rule'[r].last = begun
      /\ ~S!Is(r) => rule' = rule
      /\ rule' \in [Rule -> [is : {"new", "row", "gone"}, on : BOOLEAN, kind : S!Kind,
                            at : 0..(Day - 1), last : 0..now_S]]
  <2>1. rule \in [Rule -> [is : {"new", "row", "gone"}, on : BOOLEAN, kind : S!Kind,
                           at : 0..(Day - 1), last : 0..now_S]]
    BY DEF RulesInv, RulesTyped, S!TypeOK
  <2>2. CASE S!Is(r)
    <3>1. rule' = [rule EXCEPT ![r].last = begun]
      BY <1>2, <2>2
    <3>2. QED
      BY <1>3, <2>1, <2>2, <3>1
  <2>3. CASE ~S!Is(r)
    <3>1. rule' = rule
      BY <1>2, <2>3
    <3>2. QED
      BY <2>1, <2>3, <3>1
  <2>4. QED
    BY <2>2, <2>3
<1>7. RulesTyped'
  <2>1. \A q \in DOMAIN undo' : undo'[q] \in 0..now_S
    BY <1>3, <1>4, Types DEF RulesInv, RulesTyped
  <2>2. S!TypeOK'
    BY <1>1, <1>2, <1>3, <1>4, <1>6 DEF RulesInv, RulesTyped, S!TypeOK
  <2>3. new \in [of : Rule, at : Day..now_S, kind : S!Kind]
    BY <1>0, <1>3
  <2>4. QED
    BY <1>1, <1>2, <2>1, <2>2, <2>3 DEF RulesInv, RulesTyped
<1>8. Quiet'
  BY <1>2 DEF Quiet
<1>9. Dated'
  <2>1. round'.busy /\ begun' >= Day /\ \A x \in runs' : x.at <= begun'
    BY <1>2, <1>3, <1>5 DEF RulesInv, Dated
  <2>2. \A x \in runs' : rule'[x.of].is # "new"
    <3>1. rule[r].is # "new"
      BY <1>0, <1>1 DEF RulesInv, Dated
    <3>2. QED
      BY <1>2, <1>3, <1>6, <3>1, Types DEF RulesInv, Dated
  <2>3. ASSUME NEW x \in runs', S!Is(x.of)' PROVE x.at <= rule'[x.of].last
    <3>1. CASE x.of = r
      BY <1>2, <1>3, <1>6, <2>1, <2>3, <3>1 DEF S!Is
    <3>2. CASE x.of # r
      BY <1>2, <1>3, <1>6, <2>3, <3>2, Types DEF RulesInv, Dated, S!Is
    <3>3. QED
      BY <3>1, <3>2
  <2>4. ASSUME NEW x \in runs', x.of \in DOMAIN undo' PROVE x.at = begun' \/ x.at <= undo'[x.of]
    <3>1. CASE x = new
      BY <1>2, <1>3, <3>1
    <3>2. CASE x \in runs
      BY <1>2, <1>4, <2>4, <3>2 DEF RulesInv, Dated
    <3>3. QED
      BY <1>2, <3>1, <3>2
  <2>5. ASSUME NEW x \in runs', NEW i \in DOMAIN todo_S', todo_S'[i].of = x.of
        PROVE  x.at <= todo_S'[i].row.last
    <3>1. todo_S[i + 1].of # r /\ todo_S'[i] = todo_S[i + 1] /\ i + 1 \in DOMAIN todo_S
      <4>1. i + 1 # 1 /\ i + 1 \in DOMAIN todo_S /\ todo_S'[i] = todo_S[i + 1] /\ 1 \in DOMAIN todo_S
        BY <1>1
      <4>2. QED
        BY <1>0, <4>1 DEF RulesInv, Dated
    <3>2. QED
      BY <1>2, <1>3, <2>5, <3>1 DEF RulesInv, Dated
  <2>6. \A i, j \in DOMAIN todo_S' : todo_S'[i].of = todo_S'[j].of => i = j
    <3>1. \A i, j \in DOMAIN todo_S : todo_S[i].of = todo_S[j].of => i = j
      BY DEF RulesInv, Dated
    <3>2. QED
      BY <1>1, <3>1
  <2>7. \A i \in DOMAIN todo_S' : rule'[todo_S'[i].of].is # "new"
    <3>1. \A i \in DOMAIN todo_S : todo_S[i].of \in Rule /\ rule[todo_S[i].of].is # "new"
      BY Types DEF RulesInv, Dated, Look
    <3>2. QED
      BY <1>1, <1>6, <3>1
  <2>8. QED
    BY <2>1, <2>2, <2>3, <2>4, <2>5, <2>6, <2>7 DEF Dated
<1>10. \A q, d : Ran(q, d) => Ran(q, d)'
  BY <1>2 DEF Ran
<1>11. \A d : d = S!DayOf(begun) => Ran(r, d)'
  BY <1>2, <1>3 DEF Ran
<1>12. \A q, d : StaysRun(q, d) => StaysRun(q, d)'
  <2> SUFFICES ASSUME NEW q, NEW d, StaysRun(q, d) PROVE StaysRun(q, d)'
    OBVIOUS
  <2>1. CASE <<q, d>> \in byHand
    BY <1>2, <2>1 DEF StaysRun
  <2>2. CASE \E x \in runs : x.of = q /\ S!DayOf(x.at) = d /\ ~(x.of \in DOMAIN undo /\ x.at = begun)
    <3>1. PICK x \in runs : x.of = q /\ S!DayOf(x.at) = d /\ ~(x.of \in DOMAIN undo /\ x.at = begun)
      BY <2>2
    <3>2. ~(x.of \in DOMAIN undo' /\ x.at = begun')
      BY <1>2, <1>3, <1>4, <1>5, <3>1
    <3>3. QED
      BY <1>2, <3>1, <3>2 DEF StaysRun
  <2>3. QED
    BY <2>1, <2>2 DEF StaysRun
<1>13. LastIsTrue'
  <2>1. ASSUME NEW q \in Rule, S!Is(q)', rule'[q].last > 0 PROVE Ran(q, S!DayOf(rule[q].last))'
    <3>1. CASE q = r
      <4>1. rule'[q].last = begun
        BY <1>2, <1>6, <2>1, <3>1 DEF S!Is
      <4>2. S!DayOf(rule[q].last)' = S!DayOf(begun)
        BY <4>1 DEF S!DayOf
      <4>3. QED
        BY <1>11, <3>1, <4>2 DEF Ran
    <3>2. CASE q # r
      <4>1. S!Is(q) /\ rule[q].last > 0 /\ rule'[q] = rule[q]
        BY <1>6, <2>1, <3>2 DEF S!Is
      <4>2. Ran(q, S!DayOf(rule[q].last))
        BY <4>1 DEF RulesInv, LastIsTrue
      <4>3. QED
        BY <1>10, <4>1, <4>2 DEF Ran
    <3>3. QED
      BY <3>1, <3>2
  <2>2. ASSUME NEW q \in DOMAIN undo', undo'[q] > 0 PROVE StaysRun(q, S!DayOf(undo[q]))'
    <3>1. CASE q \in DOMAIN undo /\ undo'[q] = undo[q]
      <4>1. StaysRun(q, S!DayOf(undo[q]))
        BY <2>2, <3>1 DEF RulesInv, LastIsTrue
      <4>2. QED
        BY <1>12, <3>1, <4>1 DEF StaysRun
    <3>2. CASE q = r /\ S!Is(r) /\ undo'[q] = rule[r].last
      <4> DEFINE old == rule[r].last
      <4>0. PICK d : d = S!DayOf(old)
        OBVIOUS
      <4>1. Ran(r, d)
        BY <1>3, <2>2, <3>2, <4>0 DEF RulesInv, LastIsTrue
      <4>2. \A x \in runs : x.of = r => x.at # begun
        BY <1>3, <1>5, Types DEF RulesInv
      <4>3. StaysRun(r, d)
        BY <4>1, <4>2 DEF Ran, StaysRun
      <4>4. StaysRun(q, d)'
        BY <1>12, <3>2, <4>3
      <4>5. S!DayOf(undo[q])' = d
        BY <3>2, <4>0 DEF S!DayOf
      <4>6. QED
        BY <4>4, <4>5 DEF StaysRun
    <3>3. QED
      BY <1>4, <3>1, <3>2
  <2>3. QED
    BY <2>1, <2>2 DEF LastIsTrue
<1>14. ChancesStay'
  BY <1>2, <1>12 DEF RulesInv, ChancesStay
<1>15. SureRuns'
  <2> SUFFICES ASSUME NEW q \in round.sure
               PROVE  \/ Ran(q, S!DayOf(begun))'
                      \/ \E i \in DOMAIN todo_S' : todo_S'[i].of = q /\ S!Due(todo_S'[i].row, begun')
    BY <1>2 DEF SureRuns
  <2>1. CASE Ran(q, S!DayOf(begun))
    BY <1>2, <1>10, <2>1
  <2>2. CASE q = r
    BY <1>2, <1>11, <2>2 DEF Ran
  <2>3. CASE q # r /\ \E i \in DOMAIN todo_S : todo_S[i].of = q /\ S!Due(todo_S[i].row, begun)
    <3>1. PICK i \in DOMAIN todo_S : todo_S[i].of = q /\ S!Due(todo_S[i].row, begun)
      BY <2>3
    <3>2. i - 1 \in DOMAIN todo_S' /\ todo_S'[i - 1] = todo_S[i]
      BY <1>0, <1>1, <2>3, <3>1
    <3>3. QED
      BY <1>2, <3>1, <3>2
  <2>4. QED
    BY <2>1, <2>2, <2>3 DEF RulesInv, SureRuns
<1>16. S!OncePerDay'
  <2>1. ASSUME NEW x \in runs, x.of = r, S!DayOf(x.at) = S!DayOf(begun), h.row.kind # "long"
        PROVE  FALSE
    <3>1. h.row.kind = "daily"
      BY <1>3, <2>1 DEF S!Kind
    <3>2. S!DayOf(x.at) < S!DayOf(begun) /\ S!DayOf(begun) \in Nat
      BY <1>3, <1>5, <2>1, <3>1, DaysPass
    <3>3. QED
      BY <2>1, <3>2
  <2>2. QED
    BY <1>2, <1>3, <2>1 DEF RulesInv, S!OncePerDay
<1>17. QED
  BY <1>7, <1>8, <1>9, <1>13, <1>14, <1>15, <1>16 DEF RulesInv

(* What is undone takes the runs with it that last_run_at no longer tells. *)
LEMMA UndoneStep ==
  ASSUME S!Parameters, RulesInv, S!Undone, UNCHANGED <<now_S, asked_S, byHand, chances>>,
         begun' \in {begun, 0}, faults_S' \in 0..MaxFaults
  PROVE  RulesInv'
<1>1. /\ rule' = [r \in Rule |-> IF r \in DOMAIN undo THEN [rule[r] EXCEPT !.last = undo[r]]
                                                      ELSE rule[r]]
      /\ runs' = S!Kept /\ todo_S' = <<>> /\ DOMAIN undo' = {}
      /\ round'.busy = FALSE /\ round'.sure = {}
  BY DEF S!Undone, S!NoRound, S!Nothing
<1>2. /\ runs' \subseteq runs
      /\ \A x \in runs : x \in runs' <=> ~(x.of \in DOMAIN undo /\ x.at = begun)
  BY <1>1 DEF S!Kept
<1>3. /\ now_S \in Nat /\ begun \in 0..now_S /\ begun' \in 0..now_S
      /\ \A r \in Rule : rule[r] \in Row /\ rule[r].last \in 0..now_S
      /\ \A r \in DOMAIN undo : undo[r] \in 0..now_S
      /\ \A x \in runs : x.of \in Rule /\ x.at \in Day..now_S
  BY Types DEF RulesInv, RulesTyped
<1>4. /\ \A r \in Rule : r \in DOMAIN undo => rule'[r].last = undo[r] /\ rule'[r].is = rule[r].is
      /\ \A r \in Rule : r \notin DOMAIN undo => rule'[r] = rule[r]
      /\ \A r \in Rule : rule'[r] \in [is : {"new", "row", "gone"}, on : BOOLEAN, kind : S!Kind,
                                       at : 0..(Day - 1), last : 0..now_S]
  BY <1>1, <1>3 DEF Row
<1>5. RulesTyped'
  <2>1. rule' \in [Rule -> [is : {"new", "row", "gone"}, on : BOOLEAN, kind : S!Kind,
                            at : 0..(Day - 1), last : 0..now_S]]
    BY <1>1, <1>4
  <2>2. Len(todo_S') <= Limit
    BY <1>1 DEF S!Parameters
  <2>3. S!TypeOK'
    BY <1>1, <1>3, <2>1, <2>2 DEF RulesInv, RulesTyped, S!TypeOK
  <2>4. round' \in [busy : BOOLEAN, sure : SUBSET Rule]
    BY DEF S!Undone, S!NoRound
  <2>5. QED
    BY <1>1, <1>2, <2>3, <2>4 DEF RulesInv, RulesTyped
<1>6. Quiet' /\ SureRuns'
  BY <1>1 DEF Quiet, SureRuns
<1>7. Dated'
  <2>1. \A x \in runs' : rule'[x.of].is # "new"
    BY <1>2, <1>3, <1>4 DEF RulesInv, Dated
  <2>2. ASSUME NEW x \in runs', S!Is(x.of)' PROVE x.at <= rule'[x.of].last
    <3>1. CASE x.of \in DOMAIN undo
      BY <1>2, <1>3, <1>4, <3>1 DEF RulesInv, Dated
    <3>2. CASE x.of \notin DOMAIN undo
      BY <1>2, <1>3, <1>4, <2>2, <3>2 DEF RulesInv, Dated, S!Is
    <3>3. QED
      BY <3>1, <3>2
  <2>3. QED
    BY <1>1, <2>1, <2>2 DEF Dated
<1>8. \A q, d : StaysRun(q, d) => Ran(q, d)' /\ StaysRun(q, d)'
  BY <1>1, <1>2 DEF StaysRun, Ran
<1>9. LastIsTrue'
  <2> SUFFICES ASSUME NEW r \in Rule, S!Is(r)', rule'[r].last > 0
               PROVE  Ran(r, S!DayOf(rule[r].last))'
    BY <1>1 DEF LastIsTrue
  <2>1. CASE r \in DOMAIN undo
    <3>1. StaysRun(r, S!DayOf(undo[r]))
      BY <1>4, <2>1 DEF RulesInv, LastIsTrue
    <3>2. PICK d : d = S!DayOf(undo[r]) /\ StaysRun(r, d)
      BY <3>1
    <3>3. S!DayOf(rule[r].last)' = d
      BY <1>4, <2>1, <3>2 DEF S!DayOf
    <3>4. QED
      BY <1>8, <3>2, <3>3 DEF Ran
  <2>2. CASE r \notin DOMAIN undo
    <3>1. S!Is(r) /\ rule[r].last > 0 /\ rule'[r] = rule[r]
      BY <1>4, <2>2 DEF S!Is
    <3>2. PICK d : d = S!DayOf(rule[r].last) /\ Ran(r, d)
      BY <3>1 DEF RulesInv, LastIsTrue
    <3>3. Ran(r, d)'
      BY <1>2, <2>2, <3>2 DEF Ran
    <3>4. S!DayOf(rule[r].last)' = d
      BY <3>1, <3>2 DEF S!DayOf
    <3>5. QED
      BY <3>3, <3>4 DEF Ran
  <2>3. QED
    BY <2>1, <2>2
<1>10. ChancesStay'
  BY <1>8 DEF RulesInv, ChancesStay
<1>11. S!OncePerDay'
  BY <1>2 DEF RulesInv, S!OncePerDay
<1>12. QED
  BY <1>5, <1>6, <1>7, <1>9, <1>10, <1>11 DEF RulesInv

LEMMA RefusedStep ==
  ASSUME S!Parameters, RulesInv, S!Refused
  PROVE  RulesInv'
<1>1. faults_S \in 0..MaxFaults
  BY DEF RulesInv, RulesTyped, S!TypeOK
<1>2. QED
  BY <1>1, UndoneStep DEF S!Refused

LEMMA RestartStep ==
  ASSUME S!Parameters, RulesInv, S!Restart
  PROVE  RulesInv'
<1>1. faults_S' \in 0..MaxFaults
  BY DEF S!Restart, S!Fault, RulesInv, RulesTyped, S!TypeOK, S!Parameters
<1>2. QED
  BY <1>1, UndoneStep DEF S!Restart

LEMMA EndRoundStep ==
  ASSUME S!Parameters, RulesInv, S!EndRound
  PROVE  RulesInv'
<1> USE DEF S!EndRound
<1>1. /\ round'.busy = FALSE /\ round'.sure = {} /\ DOMAIN undo' = {} /\ todo_S' = <<>>
      /\ round' \in [busy : BOOLEAN, sure : SUBSET Rule]
      /\ UNCHANGED <<now_S, rule, begun, asked_S, faults_S, runs, byHand>>
  BY DEF S!NoRound, S!Nothing
<1>2. todo_S' \in Seq(Look) /\ DOMAIN todo_S = {}
  BY DEF RulesInv, RulesTyped
<1>3. S!DayOf(begun) \in Nat /\ round.sure \subseteq Rule
  BY Types, DaysPass DEF RulesInv
<1>4. RulesTyped'
  <2>1. S!TypeOK'
    BY <1>1 DEF RulesInv, RulesTyped, S!TypeOK
  <2>2. chances' \subseteq Rule \X Nat
    BY <1>3 DEF RulesInv, RulesTyped
  <2>3. QED
    BY <1>1, <1>2, <2>1, <2>2 DEF RulesInv, RulesTyped
<1>5. Quiet' /\ SureRuns' /\ S!OncePerDay'
  BY <1>1 DEF Quiet, SureRuns, S!OncePerDay, RulesInv
<1>6. Dated'
  BY <1>1 DEF RulesInv, Dated, S!Is
<1>7. LastIsTrue'
  BY <1>1 DEF RulesInv, LastIsTrue, S!Is, Ran
<1>8. \A q, d : StaysRun(q, d) \/ Ran(q, d) => StaysRun(q, d)'
  BY <1>1 DEF StaysRun, Ran
<1>9. ChancesStay'
  <2> SUFFICES ASSUME NEW c \in chances' PROVE StaysRun(c[1], c[2])'
    BY DEF ChancesStay
  <2>1. CASE c \in chances
    BY <1>8, <2>1 DEF RulesInv, ChancesStay
  <2>2. CASE c \in round.sure \X {S!DayOf(begun)}
    <3>1. c[1] \in round.sure /\ c[2] = S!DayOf(begun)
      BY <2>2
    <3>2. Ran(c[1], c[2])
      BY <1>2, <3>1 DEF RulesInv, SureRuns
    <3>3. QED
      BY <1>8, <3>2
  <2>3. QED
    BY <2>1, <2>2
<1>10. QED
  BY <1>4, <1>5, <1>6, <1>7, <1>9 DEF RulesInv

(* A user writes a row that is not in the open transaction: a new rule, or *)
(* one whose last_run_at stays or is the day of a run by hand.             *)
LEMMA WritesStep ==
  ASSUME S!Parameters, RulesInv, NEW r \in Rule,
         NEW new \in [is : {"new", "row", "gone"}, on : BOOLEAN, kind : S!Kind,
                      at : 0..(Day - 1), last : 0..now_S],
         S!Writes(r, new), new.is # "new", byHand \subseteq byHand',
         new.is = "row" /\ new.last > 0 =>
           S!Is(r) /\ new.last >= rule[r].last
           /\ (new.last = rule[r].last \/ <<r, S!DayOf(new.last)>> \in byHand'),
         new.is = "row" /\ new.last = 0 =>
           rule[r].is = "new" \/ (S!Is(r) /\ rule[r].last = 0)
  PROVE  RulesInv'
<1>1. /\ r \notin DOMAIN undo /\ rule' = [rule EXCEPT ![r] = new]
      /\ UNCHANGED <<now_S, begun, round, todo_S, undo, faults_S, runs, chances>>
      /\ asked_S' \in 0..MaxAsked_S
  BY DEF S!Writes, S!Ask, RulesInv, RulesTyped, S!TypeOK, S!Parameters
<1>2. /\ now_S \in Nat /\ \A x \in runs : x.of \in Rule /\ x.at \in Nat /\ x.at >= Day
      /\ Day \in Nat /\ Day > 0
      /\ \A i \in DOMAIN todo_S : todo_S[i].of \in Rule
      /\ \A q \in Rule : rule[q].last \in Nat
  BY Types DEF RulesInv, Look
<1>3. rule \in [Rule -> [is : {"new", "row", "gone"}, on : BOOLEAN, kind : S!Kind,
                         at : 0..(Day - 1), last : 0..now_S]]
  BY DEF RulesInv, RulesTyped, S!TypeOK
<1>4. rule'[r] = new /\ \A q \in Rule : q # r => rule'[q] = rule[q]
  BY <1>1, <1>3
<1>5. RulesTyped' /\ Quiet'
  <2>1. S!TypeOK'
    BY <1>1, <1>3 DEF RulesInv, RulesTyped, S!TypeOK
  <2>2. QED
    BY <1>1, <2>1 DEF RulesInv, RulesTyped, Quiet
<1>6. Dated'
  <2>1. \A x \in runs : rule'[x.of].is # "new"
    BY <1>2, <1>4 DEF RulesInv, Dated
  <2>2. \A i \in DOMAIN todo_S : rule'[todo_S[i].of].is # "new"
    BY <1>2, <1>4 DEF RulesInv, Dated
  <2>3. ASSUME NEW x \in runs, rule'[x.of].is = "row" PROVE x.at <= rule'[x.of].last
    <3>1. CASE x.of # r
      BY <1>2, <1>4, <2>3, <3>1 DEF RulesInv, Dated, S!Is
    <3>2. CASE x.of = r
      <4>1. rule[r].is # "new" /\ (S!Is(r) => x.at <= rule[r].last)
        BY <3>2 DEF RulesInv, Dated
      <4>2. new.is = "row" /\ rule'[x.of].last = new.last /\ new.last \in Nat
        BY <1>2, <1>4, <2>3, <3>2
      <4>3. QED
        BY <1>2, <4>1, <4>2
    <3>3. QED
      BY <3>1, <3>2
  <2>4. QED
    BY <1>1, <2>1, <2>2, <2>3 DEF RulesInv, Dated, S!Is
<1>7. \A q, d : (Ran(q, d) => Ran(q, d)') /\ (StaysRun(q, d) => StaysRun(q, d)')
  BY <1>1 DEF Ran, StaysRun
<1>8. LastIsTrue'
  <2>1. ASSUME NEW q \in DOMAIN undo, undo[q] > 0 PROVE StaysRun(q, S!DayOf(undo[q]))'
    <3>1. PICK d : d = S!DayOf(undo[q]) /\ StaysRun(q, d)
      BY <2>1 DEF RulesInv, LastIsTrue
    <3>2. StaysRun(q, d)' /\ S!DayOf(undo[q])' = d
      BY <1>1, <1>7, <3>1 DEF S!DayOf
    <3>3. QED
      BY <3>2 DEF StaysRun
  <2>2. ASSUME NEW q \in Rule, rule'[q].is = "row", rule'[q].last > 0
        PROVE  Ran(q, S!DayOf(rule[q].last))'
    <3>1. CASE S!Is(q) /\ rule[q].last = rule'[q].last
      <4>1. PICK d : d = S!DayOf(rule[q].last) /\ Ran(q, d)
        BY <2>2, <3>1 DEF RulesInv, LastIsTrue
      <4>2. Ran(q, d)' /\ S!DayOf(rule[q].last)' = d
        BY <1>7, <3>1, <4>1 DEF S!DayOf
      <4>3. QED
        BY <4>2 DEF Ran
    <3>2. CASE <<q, S!DayOf(rule[q].last)'>> \in byHand'
      BY <3>2 DEF Ran
    <3>3. CASE q # r
      BY <1>4, <2>2, <3>1, <3>3 DEF S!Is
    <3>4. CASE q = r
      <4>1. new.is = "row" /\ new.last > 0 /\ rule'[q].last = new.last
        BY <1>4, <2>2, <3>4
      <4>2. S!Is(r) /\ (new.last = rule[r].last \/ <<r, S!DayOf(new.last)>> \in byHand')
        BY <4>1
      <4>3. S!DayOf(rule[q].last)' = S!DayOf(new.last)
        BY <4>1 DEF S!DayOf
      <4>4. QED
        BY <3>1, <3>2, <3>4, <4>1, <4>2, <4>3
    <3>5. QED
      BY <3>3, <3>4
  <2>3. QED
    BY <1>1, <2>1, <2>2 DEF LastIsTrue, S!Is
<1>9. SureRuns'
  <2> SUFFICES ASSUME NEW q \in round.sure
               PROVE  \/ Ran(q, S!DayOf(begun))'
                      \/ \E i \in DOMAIN todo_S : todo_S[i].of = q /\ S!Due(todo_S[i].row, begun)
    BY <1>1 DEF SureRuns
  <2>1. CASE Ran(q, S!DayOf(begun))
    BY <1>1, <1>7, <2>1 DEF Ran
  <2>2. QED
    BY <2>1 DEF RulesInv, SureRuns
<1>10. ChancesStay' /\ S!OncePerDay'
  BY <1>1, <1>7 DEF RulesInv, ChancesStay, S!OncePerDay
<1>11. QED
  BY <1>5, <1>6, <1>8, <1>9, <1>10 DEF RulesInv

LEMMA UserStep ==
  ASSUME S!Parameters, RulesInv, NEW r \in Rule
  PROVE  /\ \A kind \in S!Kind, at \in 0..(Day - 1) : S!CreateRule(r, kind, at) => RulesInv'
         /\ \A kind \in S!Kind, at \in 0..(Day - 1), on \in BOOLEAN :
              S!UpdateRule(r, kind, at, on) => RulesInv'
         /\ S!DeleteRule(r) => RulesInv'
         /\ S!RunRule(r) => RulesInv'
<1> DEFINE Rec == [is : {"new", "row", "gone"}, on : BOOLEAN, kind : S!Kind,
                   at : 0..(Day - 1), last : 0..now_S]
<1>1. rule[r] \in Rec /\ now_S \in 0..now_S /\ 0 \in 0..now_S /\ rule[r].last \in 0..now_S
      /\ now_S \in Nat /\ now_S > 0
  BY Types DEF RulesInv, Row
<1>2. ASSUME NEW kind \in S!Kind, NEW at \in 0..(Day - 1), S!CreateRule(r, kind, at)
      PROVE  RulesInv'
  <2> DEFINE new == [is |-> "row", on |-> TRUE, kind |-> kind, at |-> at, last |-> 0]
  <2>1. new \in Rec /\ new.is = "row" /\ new.last = 0
    BY <1>1
  <2>2. S!Writes(r, new) /\ byHand' = byHand /\ rule[r].is = "new"
    BY <1>2 DEF S!CreateRule
  <2> HIDE DEF new
  <2>3. new.is # "new" /\ ~(new.last > 0) /\ byHand \subseteq byHand'
    BY <2>1, <2>2
  <2>4. QED
    BY <2>1, <2>2, <2>3, WritesStep
<1>3. ASSUME NEW kind \in S!Kind, NEW at \in 0..(Day - 1), NEW on \in BOOLEAN,
             S!UpdateRule(r, kind, at, on)
      PROVE  RulesInv'
  <2> DEFINE new == [rule[r] EXCEPT !.kind = kind, !.at = at, !.on = on]
  <2>1. new \in Rec /\ new.is = rule[r].is /\ new.last = rule[r].last
    BY <1>1
  <2>2. S!Writes(r, new) /\ byHand' = byHand /\ S!Is(r)
    BY <1>3 DEF S!UpdateRule
  <2> HIDE DEF new
  <2>3. /\ new.is # "new" /\ byHand \subseteq byHand' /\ new.last >= rule[r].last
        /\ new.last = 0 => rule[r].last = 0
    BY <1>1, <2>1, <2>2 DEF S!Is
  <2>4. QED
    BY <2>1, <2>2, <2>3, WritesStep
<1>4. ASSUME S!DeleteRule(r) PROVE RulesInv'
  <2> DEFINE new == [rule[r] EXCEPT !.is = "gone"]
  <2>1. new \in Rec /\ new.is = "gone"
    BY <1>1
  <2>2. S!Writes(r, new) /\ byHand' = byHand
    BY <1>4 DEF S!DeleteRule
  <2> HIDE DEF new
  <2>3. new.is # "new" /\ new.is # "row" /\ byHand \subseteq byHand'
    BY <2>1, <2>2
  <2>4. QED
    BY <2>1, <2>2, <2>3, WritesStep
<1>5. ASSUME S!RunRule(r) PROVE RulesInv'
  <2> DEFINE new == [rule[r] EXCEPT !.last = now_S]
  <2>1. new \in Rec /\ new.is = rule[r].is /\ new.last = now_S
    BY <1>1
  <2>2. S!Writes(r, new) /\ byHand \subseteq byHand' /\ S!Is(r) /\ <<r, S!DayOf(now_S)>> \in byHand'
    BY <1>5 DEF S!RunRule
  <2> HIDE DEF new
  <2>3. /\ new.is = "row" /\ new.is # "new" /\ new.last > 0 /\ new.last # 0
        /\ new.last >= rule[r].last /\ <<r, S!DayOf(new.last)>> \in byHand'
    BY <1>1, <2>1, <2>2 DEF S!Is
  <2>4. QED
    BY <2>1, <2>2, <2>3, WritesStep
<1>6. QED
  BY <1>2, <1>3, <1>4, <1>5

LEMMA RulesInvStep ==
  ASSUME S!Parameters, RulesInv, [S!Next]_(S!vars)
  PROVE  RulesInv'
<1>1. CASE UNCHANGED S!vars
  <2>0. UNCHANGED <<now_S, rule, begun, round, todo_S, undo, asked_S, faults_S, runs, byHand, chances>>
    BY <1>1 DEF S!vars
  <2>1. (RulesTyped /\ Quiet /\ Dated)'
    BY <2>0 DEF RulesInv, RulesTyped, S!TypeOK, Quiet, Dated, S!Is
  <2>2. (LastIsTrue /\ ChancesStay /\ S!OncePerDay)'
    BY <2>0 DEF RulesInv, LastIsTrue, S!Is, Ran, StaysRun, ChancesStay, S!OncePerDay
  <2>3. SureRuns'
    BY <2>0 DEF RulesInv, SureRuns, Ran
  <2>4. QED
    BY <2>0, <2>1, <2>2, <2>3 DEF RulesInv
<1>2. CASE S!Next
  BY <1>2, StartRoundStep, SkipStep, RunStep, EnqueueFailsStep, RefusedStep, EndRoundStep,
     RestartStep, TickStep, UserStep DEF S!Next
<1>3. QED
  BY <1>1, <1>2

(* The rules in the platform: its steps are theirs, or leave them alone.   *)
LEMMA RulesMove == Spec => S!Spec
<1>1. Init => S!Init
  BY DEF Init
<1>2. [Next]_vars => [S!Next]_(S!vars)
  BY DEF Next, vars, directories, rules, volumes, hotMounts, ports, updates, waits,
         S!vars
<1>3. QED
  BY <1>1, <1>2, PTL DEF Spec, S!Spec

LEMMA RulesAlways == Spec => []RulesInv
<1>1. S!Init => RulesInv
  BY PlatformAssumption, RulesInvInit
<1>2. RulesInv /\ [S!Next]_(S!vars) => RulesInv'
  BY PlatformAssumption, RulesInvStep
<1>3. QED
  BY <1>1, <1>2, RulesMove, PTL DEF S!Spec

-----------------------------------------------------------------------------
(* The loop runs a daily rule at most once for a day (schedule_rule_due    *)
(* and the transaction of a round), whatever is undone or run by hand.     *)
THEOREM RulesRunOncePerDay == Spec => []OncePerDay
<1>1. RulesInv => OncePerDay
  BY DEF RulesInv, OncePerDay
<1>2. QED
  BY <1>1, RulesAlways, PTL

(* A daily rule that a whole round found switched on at its time, among no *)
(* more than a round reads, has run that day and stays run.                *)
THEOREM NoDayIsMissed == Spec => []DailyRunsDaily
<1>1. RulesInv => DailyRunsDaily
  <2> SUFFICES ASSUME RulesInv, NEW c \in chances
               PROVE  c \in byHand \/ \E x \in runs : x.of = c[1] /\ S!DayOf(x.at) = c[2]
    BY DEF DailyRunsDaily, S!DailyRunsDaily
  <2>1. c = <<c[1], c[2]>>
    BY DEF RulesInv, RulesTyped
  <2>2. QED
    BY <2>1 DEF RulesInv, ChancesStay, StaysRun
<1>2. QED
  BY <1>1, RulesAlways, PTL

(* Types of the rules' rows, the clock and the round; a round never reads  *)
(* more than Limit rules.                                                  *)
THEOREM RulesTypeOK == Spec => []S!TypeOK
<1>1. RulesInv => S!TypeOK
  BY DEF RulesInv, RulesTyped
<1>2. QED
  BY <1>1, RulesAlways, PTL

-----------------------------------------------------------------------------
(* The directories of a home                                               *)

-----------------------------------------------------------------------------
(* The inductive invariant.                                                *)

ScansTyped ==
  /\ D!TypeOK
  /\ scan \in [Scan -> [dir : D!Dir, at : {"none", "queued", "read", "done"}, seen : D!Listing]]
  /\ job \in [Thread -> [does : {"none", "upload", "listed", "removed", "sync"}, dir : D!Dir,
                         into : D!Dir, left : SUBSET File, seen : D!Listing]]
  /\ \A t \in Thread : job[t].does \in {"upload", "listed"} => job[t].into >= job[t].dir

(* A listing on its way is what is in its directory, or that is untold.    *)
ListingsHold ==
  /\ \A s \in Scan : scan[s].at = "read" =>
       scan[s].seen = disk[scan[s].dir] \/ scan[s].dir \in stale
  /\ \A t \in Thread : job[t].does = "listed" =>
       job[t].seen = disk[job[t].dir] \/ job[t].dir \in stale

(* The directories whose rows a request will tell of what it changed.      *)
Covers(t, d) ==
  \/ job[t].does \in {"upload", "listed"} /\ d \in job[t].dir .. job[t].into
  \/ job[t].does = "removed" /\ (d = job[t].dir \/ d + 1 = job[t].dir)
  \/ job[t].does = "sync"

RowsHold ==
  \A d \in D!Dir : row_D[d] = "ready" =>
    shown[d] = disk[d] \/ d \in stale \/ \E t \in Thread : Covers(t, d)

ScansEnd ==
  \A d \in D!Dir : row_D[d] = "scanning" =>
    \E s \in Scan : scan[s].dir = d /\ scan[s].at \in {"queued", "read"}

(* One upload at a time, and what is left of it fits, or was let in when   *)
(* nothing could be measured.                                              *)
OneUpload ==
  ~overlap =>
    /\ D!Usage <= Quota + blindly
    /\ \A t \in Thread : job[t].does = "upload" =>
         D!Usage + Cardinality(job[t].left) <= Quota + blindly
    /\ \A t, u \in Thread : job[t].does = "upload" /\ job[u].does = "upload" => t = u

ScansInv == ScansTyped /\ ListingsHold /\ RowsHold /\ ScansEnd /\ OneUpload

-----------------------------------------------------------------------------
(* The size of a home.                                                     *)

Files(home) == {p \in D!Dir \X File : p[2] \in home[p[1]]}

LEMMA FilesFinite ==
  ASSUME D!Parameters, NEW home
  PROVE  IsFiniteSet(Files(home)) /\ Cardinality(Files(home)) \in Nat
<1>1. IsFiniteSet(D!Dir) /\ IsFiniteSet(File)
  BY SameSizes, FS_Interval DEF D!Dir, D!Parameters
<1>2. IsFiniteSet(D!Dir \X File)
  BY <1>1, FS_Product
<1>3. Files(home) \subseteq D!Dir \X File
  BY DEF Files
<1>4. QED
  BY <1>2, <1>3, FS_Subset, FS_CardinalityType

LEMMA UsageIs ==
  D!Usage = Cardinality(Files(disk))
BY SameSizes DEF Files, D!Usage

LEMMA LessUsage ==
  ASSUME D!Parameters, Files(disk') \subseteq Files(disk)
  PROVE  D!Usage \in Nat /\ D!Usage' \in Nat /\ D!Usage' <= D!Usage
<1>1. Cardinality(Files(disk')) <= Cardinality(Files(disk))
  BY FilesFinite, FS_Subset
<1>2. D!Usage' = Cardinality(Files(disk'))
  BY SameSizes DEF Files, D!Usage
<1>3. QED
  BY <1>1, <1>2, UsageIs, FilesFinite

LEMMA OneMore ==
  ASSUME D!Parameters, NEW p, Files(disk') \subseteq Files(disk) \cup {p}
  PROVE  D!Usage \in Nat /\ D!Usage' \in Nat /\ D!Usage' <= D!Usage + 1
<1>1. /\ IsFiniteSet(Files(disk) \cup {p}) /\ Cardinality(Files(disk)) \in Nat
      /\ Cardinality(Files(disk) \cup {p}) <= Cardinality(Files(disk)) + 1
      /\ Cardinality(Files(disk) \cup {p}) \in Nat
  <2>1. Cardinality(Files(disk) \cup {p}) \in {Cardinality(Files(disk)), Cardinality(Files(disk)) + 1}
    BY FilesFinite, FS_AddElement
  <2>2. QED
    BY <2>1, FilesFinite, FS_AddElement
<1>2. Cardinality(Files(disk')) <= Cardinality(Files(disk) \cup {p})
  BY <1>1, FS_Subset
<1>3. D!Usage' = Cardinality(Files(disk'))
  BY SameSizes DEF Files, D!Usage
<1>4. QED
  BY <1>1, <1>2, <1>3, UsageIs, FilesFinite

-----------------------------------------------------------------------------
(* The steps.                                                              *)

LEMMA ScansInvInit ==
  ASSUME D!Parameters, D!Init
  PROVE  ScansInv
<1> USE DEF D!Init
<1>1. Depth \in Nat /\ 0 \in D!Dir /\ {} \in D!Listing /\ MaxAsked_D \in Nat /\ MaxFaults \in Nat
  BY DEF D!Parameters, D!Dir, D!Listing
<1>2. ScansTyped
  <2>1. disk \in [D!Dir -> D!Listing] /\ shown \in [D!Dir -> D!Listing]
    BY <1>1
  <2>2. D!NoScan \in [dir : D!Dir, at : {"none", "queued", "read", "done"}, seen : D!Listing]
    BY <1>1 DEF D!NoScan
  <2>3. D!NoJob \in [does : {"none", "upload", "listed", "removed", "sync"}, dir : D!Dir,
                   into : D!Dir, left : SUBSET File, seen : D!Listing]
    BY <1>1 DEF D!NoJob
  <2>4. D!TypeOK
    BY <1>1, <2>1, <2>2, <2>3 DEF D!TypeOK
  <2>5. QED
    BY <2>2, <2>3, <2>4 DEF ScansTyped, D!NoJob
<1>3. ListingsHold /\ RowsHold /\ ScansEnd
  BY DEF ListingsHold, RowsHold, ScansEnd, D!NoScan, D!NoJob
<1>4. D!Usage = 0
  <2>1. Files(disk) = {}
    BY DEF Files
  <2>2. QED
    BY <2>1, UsageIs, FS_EmptySet
<1>5. OneUpload
  BY <1>4 DEF OneUpload, D!NoJob, D!Parameters
<1>6. QED
  BY <1>2, <1>3, <1>5 DEF ScansInv

(* A change of the directories leaves listings that are on their way true, *)
(* or their directories untold.                                            *)
LEMMA ChangesHold ==
  ASSUME ScansInv, NEW new, NEW untold, D!Changes(new, untold),
         UNCHANGED scan, NEW t \in Thread,
         \A u \in Thread : u # t => job'[u] = job[u], job'[t].does # "listed"
  PROVE  ListingsHold' /\ stale \subseteq stale' /\ untold \subseteq stale'
<1>1. disk' = new /\ stale' = stale \cup untold \cup {d \in D!Dir : new[d] # disk[d] /\ D!OnItsWay(d)}
  BY DEF D!Changes
<1>2. \A s \in Scan : scan[s].at = "read" =>
        scan[s].dir \in D!Dir /\ D!OnItsWay(scan[s].dir)
  BY DEF ScansInv, ScansTyped, D!OnItsWay
<1>3. \A u \in Thread : job[u].does = "listed" => job[u].dir \in D!Dir /\ D!OnItsWay(job[u].dir)
  BY DEF ScansInv, ScansTyped, D!OnItsWay
<1>4. \A d \in D!Dir : D!OnItsWay(d) => disk'[d] = disk[d] \/ d \in stale'
  BY <1>1
<1>5. ASSUME NEW s \in Scan, scan[s].at = "read"
      PROVE  scan[s].seen = disk'[scan[s].dir] \/ scan[s].dir \in stale'
  BY <1>1, <1>2, <1>4, <1>5 DEF ScansInv, ListingsHold
<1>6. ASSUME NEW u \in Thread, job'[u].does = "listed"
      PROVE  job'[u].seen = disk'[job'[u].dir] \/ job'[u].dir \in stale'
  <2>1. u # t /\ job'[u] = job[u]
    BY <1>6
  <2>2. QED
    BY <1>1, <1>3, <1>4, <1>6, <2>1 DEF ScansInv, ListingsHold
<1>7. QED
  BY <1>1, <1>5, <1>6 DEF ListingsHold

LEMMA RequestScanStep ==
  ASSUME D!Parameters, ScansInv, NEW s \in Scan, NEW d \in D!Dir, D!RequestScan(s, d)
  PROVE  ScansInv'
<1> USE DEF D!RequestScan
<1>1. /\ scan' \in [Scan -> [dir : D!Dir, at : {"none", "queued", "read", "done"}, seen : D!Listing]]
      /\ scan'[s].dir = d /\ scan'[s].at = "queued"
      /\ \A r \in Scan : r # s => scan'[r] = scan[r]
  BY DEF ScansInv, ScansTyped, D!Listing
<1>2. row_D' \in [D!Dir -> {"none", "scanning", "ready", "failed"}] /\ row_D'[d] = "scanning"
      /\ \A e \in D!Dir : e # d => row_D'[e] = row_D[e]
  BY DEF ScansInv, ScansTyped, D!TypeOK
<1>3. ScansTyped'
  BY <1>1, <1>2 DEF ScansInv, ScansTyped, D!TypeOK
<1>4. ListingsHold' /\ RowsHold' /\ OneUpload'
  BY <1>1, <1>2 DEF ScansInv, ListingsHold, RowsHold, Covers, OneUpload, D!Usage
<1>5. ScansEnd'
  BY <1>1, <1>2 DEF ScansInv, ScansEnd
<1>6. QED
  BY <1>3, <1>4, <1>5 DEF ScansInv

LEMMA ReadDirectoryStep ==
  ASSUME D!Parameters, ScansInv, NEW s \in Scan, D!ReadDirectory(s)
  PROVE  ScansInv'
<1> USE DEF D!ReadDirectory
<1>1. scan[s].dir \in D!Dir /\ disk \in [D!Dir -> D!Listing]
      /\ scan \in [Scan -> [dir : D!Dir, at : {"none", "queued", "read", "done"}, seen : D!Listing]]
  BY DEF ScansInv, ScansTyped, D!TypeOK
<1>2. /\ scan' \in [Scan -> [dir : D!Dir, at : {"none", "queued", "read", "done"}, seen : D!Listing]]
      /\ scan'[s].dir = scan[s].dir /\ scan'[s].at = "read" /\ scan'[s].seen = disk[scan[s].dir]
      /\ \A r \in Scan : r # s => scan'[r] = scan[r]
  BY <1>1
<1>3. ScansTyped'
  BY <1>2 DEF ScansInv, ScansTyped, D!TypeOK
<1>4. ListingsHold' /\ RowsHold' /\ OneUpload'
  BY <1>2 DEF ScansInv, ListingsHold, RowsHold, Covers, OneUpload, D!Usage
<1>5. ScansEnd'
  BY <1>2 DEF ScansInv, ScansEnd
<1>6. QED
  BY <1>3, <1>4, <1>5 DEF ScansInv

LEMMA ScanLostStep ==
  ASSUME D!Parameters, ScansInv, NEW s \in Scan, D!ScanLost(s)
  PROVE  ScansInv'
<1> USE DEF D!ScanLost
<1>1. /\ scan' \in [Scan -> [dir : D!Dir, at : {"none", "queued", "read", "done"}, seen : D!Listing]]
      /\ scan'[s].dir = scan[s].dir /\ scan'[s].at = "queued"
      /\ \A r \in Scan : r # s => scan'[r] = scan[r]
  BY DEF ScansInv, ScansTyped
<1>2. faults_D' \in 0..MaxFaults
  BY DEF D!Fault, ScansInv, ScansTyped, D!TypeOK, D!Parameters
<1>3. ScansTyped'
  BY <1>1, <1>2 DEF ScansInv, ScansTyped, D!TypeOK
<1>4. ListingsHold' /\ RowsHold' /\ OneUpload'
  BY <1>1 DEF ScansInv, ListingsHold, RowsHold, Covers, OneUpload, D!Usage
<1>5. ScansEnd'
  BY <1>1 DEF ScansInv, ScansEnd
<1>6. QED
  BY <1>3, <1>4, <1>5 DEF ScansInv

(* A scan that ends changes the row of its directory if there is one.      *)
LEMMA ScanEndsStep ==
  ASSUME D!Parameters, ScansInv, NEW s \in Scan, D!ScanSucceeds(s) \/ D!ScanFails(s)
  PROVE  ScansInv'
<1> DEFINE Recs == [dir : D!Dir, at : {"none", "queued", "read", "done"}, seen : D!Listing]
<1>0. PICK d \in D!Dir : d = scan[s].dir
  BY DEF ScansInv, ScansTyped
<1>1. scan \in [Scan -> Recs] /\ scan' = D!Ended(s)
      /\ UNCHANGED <<disk, job, asked_D, overlap, stale, blindly>>
  BY DEF ScansInv, ScansTyped, D!ScanSucceeds, D!ScanFails
<1>2. /\ scan' \in [Scan -> Recs] /\ scan'[s].dir = d /\ scan'[s].at = "done"
      /\ \A r \in Scan : r # s => scan'[r] = scan[r]
  BY <1>0, <1>1 DEF D!Ended, D!Listing
<1>3. /\ row_D' \in [D!Dir -> {"none", "scanning", "ready", "failed"}] /\ shown' \in [D!Dir -> D!Listing]
      /\ row_D'[d] \in {"none", "ready", "failed"}
      /\ \A e \in D!Dir : e # d => row_D'[e] = row_D[e] /\ shown'[e] = shown[e]
      /\ faults_D' \in 0..MaxFaults
      /\ row_D'[d] = "ready" => shown'[d] = disk[d] \/ d \in stale
  <2>1. CASE D!ScanSucceeds(s)
    <3>1. scan[s].seen \in D!Listing /\ (scan[s].seen = disk[d] \/ d \in stale)
      BY <1>0, <1>1, <2>1 DEF D!ScanSucceeds, ScansInv, ListingsHold
    <3>2. CASE D!HasRow(d)
      BY <1>0, <2>1, <3>1, <3>2 DEF D!ScanSucceeds, ScansInv, ScansTyped, D!TypeOK
    <3>3. CASE ~D!HasRow(d)
      BY <1>0, <2>1, <3>1, <3>3 DEF D!ScanSucceeds, ScansInv, ScansTyped, D!TypeOK, D!HasRow
    <3>4. QED
      BY <3>2, <3>3
  <2>2. CASE D!ScanFails(s)
    <3>1. faults_D' \in 0..MaxFaults /\ UNCHANGED <<shown>>
      BY <2>2 DEF D!ScanFails, D!Fault, ScansInv, ScansTyped, D!TypeOK, D!Parameters
    <3>2. row_D' = IF D!HasRow(d) THEN [row_D EXCEPT ![d] = "failed"] ELSE row_D
      BY <1>0, <2>2 DEF D!ScanFails
    <3>3. QED
      BY <3>1, <3>2 DEF D!HasRow, ScansInv, ScansTyped, D!TypeOK
  <2>3. QED
    BY <2>1, <2>2
<1>4. ScansTyped'
  BY <1>1, <1>2, <1>3 DEF ScansInv, ScansTyped, D!TypeOK
<1>5. ListingsHold' /\ OneUpload'
  BY <1>1, <1>2 DEF ScansInv, ListingsHold, OneUpload, D!Usage
<1>6. RowsHold'
  BY <1>1, <1>3 DEF ScansInv, RowsHold, Covers
<1>7. ScansEnd'
  BY <1>0, <1>1, <1>2, <1>3 DEF ScansInv, ScansEnd
<1>8. QED
  BY <1>4, <1>5, <1>6, <1>7 DEF ScansInv

(* A file more or less, and what a request may do to the directories, keep *)
(* the types.                                                              *)
LEMMA ChangesTyped ==
  ASSUME ScansTyped, NEW new \in [D!Dir -> D!Listing], NEW untold, untold \subseteq D!Dir,
         D!Changes(new, untold), UNCHANGED <<row_D, shown, scan>>,
         job' \in [Thread -> [does : {"none", "upload", "listed", "removed", "sync"}, dir : D!Dir,
                              into : D!Dir, left : SUBSET File, seen : D!Listing]],
         \A t \in Thread : job'[t].does \in {"upload", "listed"} => job'[t].into >= job'[t].dir,
         asked_D' \in 0..MaxAsked_D, faults_D' \in 0..MaxFaults, blindly' \in Nat
  PROVE  ScansTyped'
<1>1. disk' \in [D!Dir -> D!Listing] /\ stale' \subseteq D!Dir
  BY DEF D!Changes, ScansTyped, D!TypeOK
<1>2. D!TypeOK'
  BY <1>1 DEF ScansTyped, D!TypeOK
<1>3. QED
  BY <1>2 DEF ScansTyped

LEMMA MadeFacts ==
  ASSUME D!Parameters, ScansTyped, NEW d \in D!Dir
  PROVE  /\ D!Made(d) \in [D!Dir -> D!Listing]
         /\ \A e \in D!Dir : e >= d => D!Made(d)[e] = disk[e]
         /\ \A e \in D!Dir, f \in File : f \in D!Made(d)[e] => f \in disk[e]
         /\ D!Dir \subseteq Nat
<1>1. D!Dir \subseteq Nat
  BY DEF D!Dir
<1>2. disk \in [D!Dir -> D!Listing] /\ Sub \notin File
  BY DEF ScansTyped, D!TypeOK, D!Parameters
<1>3. QED
  BY <1>1, <1>2 DEF D!Made, D!Listing

LEMMA BeginUploadStep ==
  ASSUME D!Parameters, ScansInv, NEW t \in Thread, NEW d \in D!Dir, NEW into \in D!Dir,
         NEW files \in SUBSET File, D!BeginUpload(t, d, into, files)
  PROVE  ScansInv'
<1> DEFINE untold == {e \in D!Dir : e < d /\ D!Made(d)[e] # disk[e]}
           j == [D!NoJob EXCEPT !.does = "upload", !.dir = d, !.into = into, !.left = files]
<1> USE DEF D!BeginUpload
<1>1. /\ D!Changes(D!Made(d), untold) /\ UNCHANGED <<row_D, shown, scan>>
      /\ job[t].does = "none" /\ into >= d /\ asked_D' \in 0..MaxAsked_D
      /\ overlap' = (overlap \/ D!Busy({"upload", "sync"}))
  BY DEF D!Ask, ScansInv, ScansTyped, D!TypeOK, D!Parameters
<1>0. /\ IsFiniteSet(files) /\ Cardinality(files) \in Nat /\ blindly \in Nat /\ blindly' \in Nat
      /\ faults_D' \in 0..MaxFaults /\ Quota \in Nat
      /\ \/ D!Usage + Cardinality(files) <= Quota /\ blindly' = blindly
         \/ blindly' = blindly + Cardinality(files)
  <2>1. IsFiniteSet(files) /\ Cardinality(files) \in Nat
    BY SameSizes, FS_Subset, FS_CardinalityType DEF D!Parameters
  <2>2. blindly \in Nat /\ faults_D \in 0..MaxFaults /\ MaxFaults \in Nat /\ Quota \in Nat
    BY DEF ScansInv, ScansTyped, D!TypeOK, D!Parameters
  <2>3. CASE D!Fits(files) /\ UNCHANGED <<faults_D, blindly>>
    BY <2>1, <2>2, <2>3, SameSizes DEF D!Fits
  <2>4. CASE D!Fault /\ blindly' = blindly + D!Cardinality(files)
    BY <2>1, <2>2, <2>4, SameSizes DEF D!Fault
  <2>5. QED
    BY <2>1, <2>3, <2>4, <2>2
<1>2. /\ D!Made(d) \in [D!Dir -> D!Listing]
      /\ \A e \in D!Dir : e >= d => D!Made(d)[e] = disk[e]
      /\ \A e \in D!Dir, f \in File : f \in D!Made(d)[e] => f \in disk[e]
      /\ D!Dir \subseteq Nat
  BY MadeFacts DEF ScansInv
<1>3. /\ job' = [job EXCEPT ![t] = j]
      /\ j \in [does : {"none", "upload", "listed", "removed", "sync"}, dir : D!Dir,
                into : D!Dir, left : SUBSET File, seen : D!Listing]
      /\ j.does = "upload" /\ j.dir = d /\ j.into = into /\ j.left = files
  BY DEF D!Becomes, D!NoJob, D!Listing
<1> HIDE DEF j, untold
<1>4. /\ job' \in [Thread -> [does : {"none", "upload", "listed", "removed", "sync"}, dir : D!Dir,
                              into : D!Dir, left : SUBSET File, seen : D!Listing]]
      /\ job'[t] = j /\ \A u \in Thread : u # t => job'[u] = job[u]
  BY <1>3 DEF ScansInv, ScansTyped
<1>5. ScansTyped'
  <2>1. untold \subseteq D!Dir
    BY DEF untold
  <2>2. \A u \in Thread : job'[u].does \in {"upload", "listed"} => job'[u].into >= job'[u].dir
    BY <1>1, <1>3, <1>4 DEF ScansInv, ScansTyped
  <2>3. QED
    BY <1>0, <1>1, <1>2, <1>4, <2>1, <2>2, ChangesTyped DEF ScansInv
<1>6. ListingsHold' /\ stale \subseteq stale' /\ untold \subseteq stale'
  BY <1>1, <1>3, <1>4, ChangesHold
<1>7. RowsHold'
  <2> SUFFICES ASSUME NEW e \in D!Dir, row_D'[e] = "ready", e \notin stale',
                      \A u \in Thread : ~Covers(u, e)'
               PROVE  shown'[e] = disk'[e]
    BY DEF RowsHold
  <2>1. disk'[e] = disk[e]
    <3>1. ~(e < d /\ D!Made(d)[e] # disk[e])
      BY <1>6 DEF untold
    <3>2. QED
      BY <1>1, <1>2, <3>1 DEF D!Changes, D!Dir
  <2>2. \A u \in Thread : ~Covers(u, e)
    BY <1>1, <1>4 DEF Covers
  <2>3. QED
    BY <1>1, <1>6, <2>1, <2>2 DEF ScansInv, RowsHold
<1>8. ScansEnd'
  BY <1>1 DEF ScansInv, ScansEnd
<1>9. OneUpload'
  <2>1. Files(disk') \subseteq Files(disk)
    BY <1>1, <1>2 DEF Files, D!Changes
  <2>2. D!Usage \in Nat /\ D!Usage' \in Nat /\ D!Usage' <= D!Usage
    BY <2>1, LessUsage
  <2>3. ~overlap' => ~overlap /\ \A u \in Thread : job[u].does # "upload"
    BY <1>1 DEF D!Busy
  <2>4. ~overlap' => D!Usage + Cardinality(files) <= Quota + blindly'
    BY <1>0, <2>2, <2>3 DEF ScansInv, OneUpload
  <2>5. ~overlap' => D!Usage' + Cardinality(files) <= Quota + blindly' /\ D!Usage' <= Quota + blindly'
    BY <1>0, <2>2, <2>4
  <2>6. \A u \in Thread : ~overlap' /\ job'[u].does = "upload" => u = t /\ job'[u].left = files
    BY <1>3, <1>4, <2>3
  <2>7. QED
    BY <2>5, <2>6 DEF OneUpload
<1>10. QED
  BY <1>5, <1>6, <1>7, <1>8, <1>9 DEF ScansInv

LEMMA WriteFileStep ==
  ASSUME D!Parameters, ScansInv, NEW t \in Thread, NEW f \in File, D!WriteFile(t, f)
  PROVE  ScansInv'
<1>0. PICK d \in D!Dir, b \in D!Dir : d = job[t].into /\ b = job[t].dir
  BY DEF ScansInv, ScansTyped
<1> DEFINE new == [D!Made(d) EXCEPT ![d] = @ \cup {f}]
           untold == {e \in D!Dir : e < b /\ new[e] # disk[e]}
<1>1. /\ job[t].does = "upload" /\ f \in job[t].left
      /\ D!Changes(new, untold)
      /\ job' = [job EXCEPT ![t].left = @ \ {f}]
      /\ UNCHANGED <<row_D, shown, scan, asked_D, faults_D, overlap, blindly>>
  BY <1>0 DEF D!WriteFile
<1>2. /\ D!Made(d) \in [D!Dir -> D!Listing]
      /\ \A e \in D!Dir : e >= d => D!Made(d)[e] = disk[e]
      /\ \A e \in D!Dir, g \in File : g \in D!Made(d)[e] => g \in disk[e]
      /\ D!Dir \subseteq Nat
  BY MadeFacts DEF ScansInv
<1>3. /\ new \in [D!Dir -> D!Listing]
      /\ \A e \in D!Dir : e > d => new[e] = disk[e]
      /\ \A e \in D!Dir, g \in File : g \in new[e] => g \in disk[e] \/ (e = d /\ g = f)
  BY <1>2 DEF D!Listing
<1> HIDE DEF new, untold
<1>4. /\ job' \in [Thread -> [does : {"none", "upload", "listed", "removed", "sync"}, dir : D!Dir,
                              into : D!Dir, left : SUBSET File, seen : D!Listing]]
      /\ \A u \in Thread : u # t => job'[u] = job[u]
      /\ \A u \in Thread : /\ job'[u].does = job[u].does /\ job'[u].dir = job[u].dir
                           /\ job'[u].into = job[u].into
      /\ job'[t].left = job[t].left \ {f}
  BY <1>1 DEF ScansInv, ScansTyped
<1>5. ScansTyped'
  <2>1. untold \subseteq D!Dir /\ faults_D' \in 0..MaxFaults /\ asked_D' \in 0..MaxAsked_D /\ blindly' \in Nat
    BY <1>1 DEF untold, ScansInv, ScansTyped, D!TypeOK
  <2>2. \A u \in Thread : job'[u].does \in {"upload", "listed"} => job'[u].into >= job'[u].dir
    BY <1>4 DEF ScansInv, ScansTyped
  <2>3. QED
    BY <1>1, <1>3, <1>4, <2>1, <2>2, ChangesTyped DEF ScansInv
<1>6. ListingsHold' /\ stale \subseteq stale' /\ untold \subseteq stale'
  <2>1. job'[t].does # "listed"
    BY <1>1, <1>4
  <2>2. QED
    BY <1>1, <1>4, <2>1, ChangesHold
<1>7. RowsHold'
  <2> SUFFICES ASSUME NEW e \in D!Dir, row_D'[e] = "ready", e \notin stale',
                      \A u \in Thread : ~Covers(u, e)'
               PROVE  shown'[e] = disk'[e]
    BY DEF RowsHold
  <2>1. \A u \in Thread : ~Covers(u, e)
    BY <1>4 DEF Covers
  <2>2. ~(e \in b..d)
    BY <1>0, <1>1, <2>1 DEF Covers
  <2>3. disk'[e] = disk[e]
    <3>1. CASE e < b
      BY <1>1, <1>6, <3>1 DEF untold, D!Changes
    <3>2. CASE e > d
      BY <1>1, <1>3, <3>2 DEF D!Changes
    <3>3. QED
      BY <1>2, <2>2, <3>1, <3>2
  <2>4. QED
    BY <1>1, <1>6, <2>1, <2>3 DEF ScansInv, RowsHold
<1>8. ScansEnd'
  BY <1>1 DEF ScansInv, ScansEnd
<1>9. OneUpload'
  <2>1. Files(disk') \subseteq Files(disk) \cup {<<d, f>>}
    BY <1>1, <1>3 DEF Files, D!Changes
  <2>2. D!Usage \in Nat /\ D!Usage' \in Nat /\ D!Usage' <= D!Usage + 1
    BY <2>1, OneMore
  <2>3. /\ IsFiniteSet(job[t].left) /\ Cardinality(job[t].left) \in Nat
        /\ Cardinality(job'[t].left) = Cardinality(job[t].left) - 1
        /\ Cardinality(job'[t].left) \in Nat
    <3>1. job[t].left \subseteq File /\ IsFiniteSet(File)
      BY SameSizes DEF ScansInv, ScansTyped, D!Parameters
    <3>2. IsFiniteSet(job[t].left)
      BY <3>1, FS_Subset
    <3>3. IsFiniteSet(job[t].left \ {f})
          /\ Cardinality(job[t].left \ {f}) = Cardinality(job[t].left) - 1
      BY <1>1, <3>2, FS_RemoveElement
    <3>4. QED
      BY <1>4, <3>2, <3>3, FS_CardinalityType
  <2>4. ~overlap' => /\ D!Usage + Cardinality(job[t].left) <= Quota + blindly
                     /\ \A u \in Thread : job[u].does = "upload" => u = t
    BY <1>1 DEF ScansInv, OneUpload
  <2>5. ~overlap' => /\ D!Usage' + Cardinality(job'[t].left) <= Quota + blindly'
                     /\ D!Usage' <= Quota + blindly'
    <3>1. Quota \in Nat /\ blindly \in Nat /\ blindly' = blindly
      BY <1>1 DEF D!Parameters, ScansInv, ScansTyped, D!TypeOK
    <3>2. QED
      BY <2>2, <2>3, <2>4, <3>1
  <2>6. QED
    BY <1>4, <2>4, <2>5 DEF OneUpload
<1>10. QED
  BY <1>5, <1>6, <1>7, <1>8, <1>9 DEF ScansInv

(* A request that ends without a change of the directories.                *)
LEMMA RequestEnds ==
  ASSUME ScansInv, NEW t \in Thread, D!Becomes(t, D!NoJob), UNCHANGED <<disk, scan, asked_D, overlap, blindly>>,
         row_D' \in [D!Dir -> {"none", "scanning", "ready", "failed"}], shown' \in [D!Dir -> D!Listing],
         stale' \subseteq D!Dir, stale \subseteq stale', faults_D' \in 0..MaxFaults, D!Parameters,
         \A d \in D!Dir : row_D'[d] = "scanning" => row_D[d] = "scanning",
         \A d \in D!Dir : row_D'[d] = "ready" =>
           \/ row_D[d] = "ready" /\ shown'[d] = shown[d] /\ (Covers(t, d) => d \in stale')
           \/ shown'[d] = disk[d] \/ d \in stale'
  PROVE  ScansInv'
<1>1. D!NoJob \in [does : {"none", "upload", "listed", "removed", "sync"}, dir : D!Dir,
                 into : D!Dir, left : SUBSET File, seen : D!Listing]
  BY DEF D!NoJob, D!Dir, D!Listing, D!Parameters
<1>2. /\ job' \in [Thread -> [does : {"none", "upload", "listed", "removed", "sync"}, dir : D!Dir,
                              into : D!Dir, left : SUBSET File, seen : D!Listing]]
      /\ job'[t].does = "none" /\ \A u \in Thread : u # t => job'[u] = job[u]
  BY <1>1 DEF D!Becomes, ScansInv, ScansTyped, D!NoJob
<1>3. ScansTyped'
  <2>1. D!TypeOK'
    BY <1>2 DEF ScansInv, ScansTyped, D!TypeOK
  <2>2. QED
    BY <1>2, <2>1 DEF ScansInv, ScansTyped
<1>4. ListingsHold'
  BY <1>2 DEF ScansInv, ListingsHold
<1>5. ScansEnd'
  BY DEF ScansInv, ScansEnd
<1>6. OneUpload'
  BY <1>2 DEF ScansInv, OneUpload, D!Usage
<1>7. RowsHold'
  <2> SUFFICES ASSUME NEW d \in D!Dir, row_D'[d] = "ready", d \notin stale',
                      \A u \in Thread : ~Covers(u, d)'
               PROVE  shown'[d] = disk'[d]
    BY DEF RowsHold
  <2>1. CASE row_D[d] = "ready" /\ shown'[d] = shown[d] /\ ~Covers(t, d)
    <3>1. \A u \in Thread : ~Covers(u, d)
      BY <1>2, <2>1 DEF Covers
    <3>2. QED
      BY <2>1, <3>1 DEF ScansInv, RowsHold
  <2>2. CASE shown'[d] = disk[d]
    BY <2>2
  <2>3. QED
    BY <2>1, <2>2
<1>8. QED
  BY <1>3, <1>4, <1>5, <1>6, <1>7 DEF ScansInv

LEMMA UploadFailsStep ==
  ASSUME D!Parameters, ScansInv, NEW t \in Thread, D!UploadFails(t)
  PROVE  ScansInv'
<1> USE DEF D!UploadFails
<1>1. /\ row_D \in [D!Dir -> {"none", "scanning", "ready", "failed"}] /\ shown \in [D!Dir -> D!Listing]
      /\ stale \subseteq D!Dir /\ job[t].dir \in D!Dir /\ job[t].into \in D!Dir
      /\ faults_D' \in 0..MaxFaults
  BY DEF ScansInv, ScansTyped, D!TypeOK, D!Fault, D!Parameters
<1>2. stale \subseteq stale' /\ stale' \subseteq D!Dir
  <2>1. Depth \in Nat
    BY DEF D!Parameters
  <2>2. (job[t].dir .. job[t].into) \subseteq D!Dir
    BY <1>1, <2>1 DEF D!Dir
  <2>3. stale' = stale \cup {job[t].dir} \cup (job[t].dir .. job[t].into)
    OBVIOUS
  <2>4. QED
    BY <1>1, <2>2, <2>3
<1>3. \A d \in D!Dir : Covers(t, d) => d \in stale'
  BY DEF Covers
<1>4. QED
  BY <1>1, <1>2, <1>3, RequestEnds

LEMMA FinishUploadStep ==
  ASSUME D!Parameters, ScansInv, NEW t \in Thread, D!FinishUpload(t)
  PROVE  ScansInv'
<1>0. PICK d \in D!Dir : d = job[t].dir
  BY DEF ScansInv, ScansTyped
<1>1. /\ row_D' = [e \in D!Dir |-> IF e = d THEN "ready" ELSE IF e > d THEN "none" ELSE row_D[e]]
      /\ shown' = [shown EXCEPT ![d] = job[t].seen]
      /\ job[t].does = "listed" /\ D!Becomes(t, D!NoJob)
      /\ UNCHANGED <<disk, scan, asked_D, faults_D, overlap, stale, blindly>>
  BY <1>0 DEF D!FinishUpload
<1>2. /\ row_D \in [D!Dir -> {"none", "scanning", "ready", "failed"}] /\ shown \in [D!Dir -> D!Listing]
      /\ stale \subseteq D!Dir /\ job[t].seen \in D!Listing /\ faults_D \in 0..MaxFaults
      /\ D!Dir \subseteq Nat
  BY DEF ScansInv, ScansTyped, D!TypeOK, D!Dir
<1>3. job[t].seen = disk[d] \/ d \in stale
  BY <1>0, <1>1 DEF ScansInv, ListingsHold
<1>4. \A e \in D!Dir : Covers(t, e) => e = d \/ e > d
  BY <1>0, <1>1, <1>2 DEF Covers
<1>5. /\ row_D' \in [D!Dir -> {"none", "scanning", "ready", "failed"}] /\ shown' \in [D!Dir -> D!Listing]
      /\ \A e \in D!Dir : e # d => shown'[e] = shown[e]
      /\ shown'[d] = job[t].seen
  BY <1>1, <1>2
<1>6. \A e \in D!Dir : row_D'[e] = "scanning" => row_D[e] = "scanning"
  BY <1>1
<1>7. ASSUME NEW e \in D!Dir, row_D'[e] = "ready"
      PROVE  \/ row_D[e] = "ready" /\ shown'[e] = shown[e] /\ (Covers(t, e) => e \in stale')
             \/ shown'[e] = disk[e] \/ e \in stale'
  <2>1. CASE e = d
    BY <1>1, <1>3, <1>5, <2>1
  <2>2. CASE e # d
    BY <1>1, <1>4, <1>5, <1>7, <2>2
  <2>3. QED
    BY <2>1, <2>2
<1>8. QED
  BY <1>1, <1>2, <1>5, <1>6, <1>7, RequestEnds

LEMMA DropTyped ==
  ASSUME ScansTyped, NEW R, D!Drop(R)
  PROVE  /\ row_D' \in [D!Dir -> {"none", "scanning", "ready", "failed"}]
         /\ \A d \in D!Dir : row_D'[d] # "none" => row_D'[d] = row_D[d] /\ d \notin R
BY DEF D!Drop, ScansTyped, D!TypeOK

LEMMA FinishRemoveStep ==
  ASSUME D!Parameters, ScansInv, NEW t \in Thread, D!FinishRemove(t)
  PROVE  ScansInv'
<1>1. /\ job[t].does = "removed" /\ job[t].dir \in D!Dir
      /\ D!Drop({job[t].dir, job[t].dir - 1})
      /\ D!Becomes(t, D!NoJob) /\ UNCHANGED <<disk, shown, scan, asked_D, faults_D, overlap, stale, blindly>>
  BY DEF D!FinishRemove, ScansInv, ScansTyped
<1>2. /\ row_D' \in [D!Dir -> {"none", "scanning", "ready", "failed"}]
      /\ \A d \in D!Dir : row_D'[d] # "none" => row_D'[d] = row_D[d] /\ d \notin {job[t].dir, job[t].dir - 1}
  BY <1>1, DropTyped DEF ScansInv
<1>3. shown \in [D!Dir -> D!Listing] /\ stale \subseteq D!Dir /\ faults_D \in 0..MaxFaults /\ D!Dir \subseteq Nat
  BY DEF ScansInv, ScansTyped, D!TypeOK, D!Dir
<1>4. ASSUME NEW d \in D!Dir, Covers(t, d)
      PROVE  d = job[t].dir \/ d = job[t].dir - 1
  <2>1. d \in Nat /\ job[t].dir \in Nat
    BY <1>1, <1>3
  <2>2. d = job[t].dir \/ d + 1 = job[t].dir
    BY <1>1, <1>4 DEF Covers
  <2>3. QED
    BY <2>1, <2>2
<1>5. \A d \in D!Dir : row_D'[d] = "ready" => row_D[d] = "ready" /\ ~Covers(t, d)
  BY <1>2, <1>4
<1>6. \A d \in D!Dir : row_D'[d] = "scanning" => row_D[d] = "scanning"
  BY <1>2
<1>7. QED
  BY <1>1, <1>2, <1>3, <1>5, <1>6, RequestEnds

LEMMA SyncHomeEndsStep ==
  ASSUME D!Parameters, ScansInv, NEW t \in Thread, D!SyncHomeEnds(t)
  PROVE  ScansInv'
<1>1. /\ D!Becomes(t, D!NoJob) /\ UNCHANGED <<disk, shown, scan, asked_D, overlap, blindly>>
      /\ shown \in [D!Dir -> D!Listing] /\ stale \subseteq D!Dir /\ faults_D \in 0..MaxFaults
      /\ row_D \in [D!Dir -> {"none", "scanning", "ready", "failed"}]
  BY DEF D!SyncHomeEnds, ScansInv, ScansTyped, D!TypeOK
<1>2. CASE D!Drop(D!Dir) /\ UNCHANGED <<faults_D, stale>>
  <2>1. /\ row_D' \in [D!Dir -> {"none", "scanning", "ready", "failed"}]
        /\ \A d \in D!Dir : row_D'[d] = "none"
    BY <1>2, DropTyped DEF ScansInv
  <2>2. QED
    BY <1>1, <1>2, <2>1, RequestEnds
<1>3. CASE D!Fault /\ stale' = D!Dir /\ UNCHANGED row_D
  <2>1. faults_D' \in 0..MaxFaults
    BY <1>1, <1>3 DEF D!Fault, D!Parameters
  <2>2. QED
    BY <1>1, <1>3, <2>1, RequestEnds
<1>4. QED
  BY <1>2, <1>3 DEF D!SyncHomeEnds

LEMMA ListTargetStep ==
  ASSUME D!Parameters, ScansInv, NEW t \in Thread, D!ListTarget(t)
  PROVE  ScansInv'
<1> DEFINE Jobs == [does : {"none", "upload", "listed", "removed", "sync"}, dir : D!Dir,
                    into : D!Dir, left : SUBSET File, seen : D!Listing]
<1>1. /\ job[t].does = "upload" /\ job \in [Thread -> Jobs] /\ disk \in [D!Dir -> D!Listing]
      /\ job[t].dir \in D!Dir
      /\ job' = [job EXCEPT ![t] = [job[t] EXCEPT !.does = "listed", !.seen = disk[job[t].dir]]]
      /\ UNCHANGED <<disk, row_D, shown, scan, asked_D, faults_D, overlap, stale, blindly>>
  BY DEF D!ListTarget, D!Becomes, ScansInv, ScansTyped, D!TypeOK
<1>2. /\ job' \in [Thread -> Jobs] /\ \A u \in Thread : u # t => job'[u] = job[u]
      /\ job'[t].does = "listed" /\ job'[t].dir = job[t].dir /\ job'[t].into = job[t].into
      /\ job'[t].seen = disk[job[t].dir]
  BY <1>1
<1>3. ScansTyped'
  <2>1. D!TypeOK'
    BY <1>1, <1>2 DEF ScansInv, ScansTyped, D!TypeOK
  <2>2. QED
    BY <1>1, <1>2, <2>1 DEF ScansInv, ScansTyped
<1>4. ListingsHold' /\ ScansEnd' /\ OneUpload'
  BY <1>1, <1>2 DEF ScansInv, ListingsHold, ScansEnd, OneUpload, D!Usage
<1>5. RowsHold'
  <2>1. \A u \in Thread, d \in D!Dir : Covers(u, d) => Covers(u, d)'
    BY <1>1, <1>2 DEF Covers
  <2>2. QED
    BY <1>1, <2>1 DEF ScansInv, RowsHold
<1>6. QED
  BY <1>3, <1>4, <1>5 DEF ScansInv

LEMMA WithoutFacts ==
  ASSUME D!Parameters, ScansTyped, NEW c, NEW lost
  PROVE  /\ D!Without(c, lost) \in [D!Dir -> D!Listing]
         /\ \A e \in D!Dir, f \in File : f \in D!Without(c, lost)[e] => f \in disk[e]
<1>1. disk \in [D!Dir -> D!Listing]
  BY DEF ScansTyped, D!TypeOK
<1>2. QED
  BY <1>1 DEF D!Without, D!Listing

(* What makes a home smaller leaves an upload its place.                   *)
LEMMA UploadGoesOn ==
  ASSUME D!Parameters, ScansInv, Files(disk') \subseteq Files(disk), UNCHANGED <<overlap, blindly>>,
         \A u \in Thread : job'[u].does = "upload" => job'[u] = job[u]
  PROVE  OneUpload'
<1>1. D!Usage \in Nat /\ D!Usage' \in Nat /\ D!Usage' <= D!Usage
  BY LessUsage
<1>2. \A u \in Thread : Cardinality(job[u].left) \in Nat
  <2>1. \A u \in Thread : job[u].left \subseteq File
    BY DEF ScansInv, ScansTyped
  <2>2. QED
    BY <2>1, SameSizes, FS_Subset, FS_CardinalityType DEF D!Parameters
<1>3. Quota \in Nat /\ blindly \in Nat
  BY DEF D!Parameters, ScansInv, ScansTyped, D!TypeOK
<1>4. QED
  BY <1>1, <1>2, <1>3 DEF ScansInv, OneUpload

LEMMA RemoveStep ==
  ASSUME D!Parameters, ScansInv, NEW t \in Thread, NEW d \in D!Dir, D!Remove(t, d)
  PROVE  ScansInv'
<1> DEFINE new == D!Without(d, {})
           j == [D!NoJob EXCEPT !.does = "removed", !.dir = d]
           Jobs == [does : {"none", "upload", "listed", "removed", "sync"}, dir : D!Dir,
                    into : D!Dir, left : SUBSET File, seen : D!Listing]
<1>1. /\ D!Changes(new, D!Beneath(d)) /\ job[t].does = "none" /\ d # 0
      /\ asked_D' \in 0..MaxAsked_D /\ job' = [job EXCEPT ![t] = j]
      /\ UNCHANGED <<row_D, shown, scan, faults_D, overlap, blindly>>
  BY DEF D!Remove, D!Ask, D!Becomes, ScansInv, ScansTyped, D!TypeOK, D!Parameters
<1>2. /\ new \in [D!Dir -> D!Listing] /\ D!Dir \subseteq Nat /\ 0 \in D!Dir
      /\ \A e \in D!Dir : e < d /\ e # d - 1 => new[e] = disk[e]
      /\ \A e \in D!Dir, f \in File : f \in new[e] => f \in disk[e]
  <2>1. \A e \in D!Dir : e < d /\ e # d - 1 => ~(e >= d) /\ e \in Nat
    BY DEF D!Dir
  <2>2. new \in [D!Dir -> D!Listing] /\ \A e \in D!Dir, f \in File : f \in new[e] => f \in disk[e]
    BY WithoutFacts DEF ScansInv
  <2>3. D!Dir \subseteq Nat /\ 0 \in D!Dir
    BY DEF D!Dir, D!Parameters
  <2>4. QED
    BY <2>1, <2>2, <2>3 DEF D!Without
<1>3. j \in Jobs /\ j.does = "removed" /\ j.dir = d
  BY <1>2 DEF D!NoJob, D!Listing
<1> HIDE DEF new, j
<1>4. job' \in [Thread -> Jobs] /\ job'[t] = j /\ \A u \in Thread : u # t => job'[u] = job[u]
  BY <1>1, <1>3 DEF ScansInv, ScansTyped
<1>5. ScansTyped'
  <2>1. D!Beneath(d) \subseteq D!Dir /\ faults_D' \in 0..MaxFaults /\ blindly' \in Nat
    BY <1>1 DEF D!Beneath, ScansInv, ScansTyped, D!TypeOK
  <2>2. \A u \in Thread : job'[u].does \in {"upload", "listed"} => job'[u].into >= job'[u].dir
    BY <1>3, <1>4 DEF ScansInv, ScansTyped
  <2>3. QED
    BY <1>1, <1>2, <1>4, <2>1, <2>2, ChangesTyped DEF ScansInv
<1>6. ListingsHold' /\ stale \subseteq stale' /\ D!Beneath(d) \subseteq stale'
  BY <1>1, <1>3, <1>4, ChangesHold
<1>7. RowsHold'
  <2> SUFFICES ASSUME NEW e \in D!Dir, row_D'[e] = "ready", e \notin stale',
                      \A u \in Thread : ~Covers(u, e)'
               PROVE  shown'[e] = disk'[e]
    BY DEF RowsHold
  <2>1. \A u \in Thread : ~Covers(u, e)
    BY <1>1, <1>4 DEF Covers
  <2>2. e # d /\ e + 1 # d /\ ~(e > d)
    BY <1>3, <1>4, <1>6 DEF Covers, D!Beneath
  <2>3. e < d /\ e # d - 1
    BY <1>2, <2>2
  <2>4. disk'[e] = disk[e]
    BY <1>1, <1>2, <2>3 DEF D!Changes
  <2>5. QED
    BY <1>1, <1>6, <2>1, <2>4 DEF ScansInv, RowsHold
<1>8. ScansEnd'
  BY <1>1 DEF ScansInv, ScansEnd
<1>9. OneUpload'
  <2>1. Files(disk') \subseteq Files(disk)
    BY <1>1, <1>2 DEF Files, D!Changes
  <2>2. \A u \in Thread : job'[u].does = "upload" => job'[u] = job[u]
    BY <1>3, <1>4
  <2>3. QED
    BY <1>1, <2>1, <2>2, UploadGoesOn
<1>10. QED
  BY <1>5, <1>6, <1>7, <1>8, <1>9 DEF ScansInv

LEMMA RemoveFailsStep ==
  ASSUME D!Parameters, ScansInv, NEW t \in Thread, NEW d \in D!Dir, D!RemoveFails(t, d)
  PROVE  ScansInv'
<1>1. PICK c \in d..(Depth + 1), lost \in SUBSET ((d..Depth) \X File) :
        D!Changes(D!Without(c, lost), {e \in D!Dir : D!Without(c, lost)[e] # disk[e]})
  BY DEF D!RemoveFails
<1> DEFINE new == D!Without(c, lost)
           untold == {e \in D!Dir : new[e] # disk[e]}
<1>2. /\ D!Changes(new, untold) /\ UNCHANGED <<row_D, shown, scan, job, overlap, blindly>>
      /\ job[t].does = "none" /\ asked_D' \in 0..MaxAsked_D /\ faults_D' \in 0..MaxFaults
  BY <1>1 DEF D!RemoveFails, D!Ask, D!Fault, ScansInv, ScansTyped, D!TypeOK, D!Parameters
<1>3. new \in [D!Dir -> D!Listing] /\ \A e \in D!Dir, f \in File : f \in new[e] => f \in disk[e]
  BY WithoutFacts DEF ScansInv
<1> HIDE DEF new
<1>4. untold \subseteq D!Dir /\ disk' = new
  BY <1>2 DEF D!Changes
<1>5. ScansTyped'
  <2>1. blindly' \in Nat
    BY <1>2 DEF ScansInv, ScansTyped, D!TypeOK
  <2>2. job' \in [Thread -> [does : {"none", "upload", "listed", "removed", "sync"}, dir : D!Dir,
                              into : D!Dir, left : SUBSET File, seen : D!Listing]]
        /\ \A u \in Thread : job'[u].does \in {"upload", "listed"} => job'[u].into >= job'[u].dir
    BY <1>2 DEF ScansInv, ScansTyped
  <2>3. QED
    BY <1>2, <1>3, <1>4, <2>1, <2>2, ChangesTyped DEF ScansInv
<1>6. ListingsHold' /\ stale \subseteq stale' /\ untold \subseteq stale'
  BY <1>2, ChangesHold
<1>7. RowsHold'
  <2>1. \A e \in D!Dir : e \in stale' \/ disk'[e] = disk[e]
    BY <1>4, <1>6
  <2>2. \A u \in Thread, e \in D!Dir : Covers(u, e)' <=> Covers(u, e)
    BY <1>2 DEF Covers
  <2>3. QED
    BY <1>2, <1>6, <2>1, <2>2 DEF ScansInv, RowsHold
<1>8. ScansEnd'
  BY <1>2 DEF ScansInv, ScansEnd
<1>9. OneUpload'
  <2>1. Files(disk') \subseteq Files(disk)
    BY <1>3, <1>4 DEF Files
  <2>2. QED
    BY <1>2, <2>1, UploadGoesOn
<1>10. QED
  BY <1>5, <1>6, <1>7, <1>8, <1>9 DEF ScansInv

LEMMA SyncHomeStep ==
  ASSUME D!Parameters, ScansInv, NEW t \in Thread, NEW d \in D!Dir, NEW f \in File, D!SyncHome(t, d, f)
  PROVE  ScansInv'
<1> DEFINE new == [D!Made(d) EXCEPT ![d] = @ \cup {f}]
           j == [D!NoJob EXCEPT !.does = "sync", !.dir = d]
           Jobs == [does : {"none", "upload", "listed", "removed", "sync"}, dir : D!Dir,
                    into : D!Dir, left : SUBSET File, seen : D!Listing]
<1>1. /\ D!Changes(new, {}) /\ job[t].does = "none"
      /\ asked_D' \in 0..MaxAsked_D /\ job' = [job EXCEPT ![t] = j] /\ overlap' = TRUE
      /\ UNCHANGED <<row_D, shown, scan, faults_D, blindly>>
  BY DEF D!SyncHome, D!Ask, D!Becomes, ScansInv, ScansTyped, D!TypeOK, D!Parameters
<1>2. new \in [D!Dir -> D!Listing] /\ 0 \in D!Dir
  <2>1. D!Made(d) \in [D!Dir -> D!Listing]
    BY MadeFacts DEF ScansInv
  <2>2. QED
    BY <2>1 DEF D!Listing, D!Dir, D!Parameters
<1>3. j \in Jobs /\ j.does = "sync"
  BY <1>2 DEF D!NoJob, D!Listing
<1> HIDE DEF new, j
<1>4. job' \in [Thread -> Jobs] /\ job'[t] = j /\ \A u \in Thread : u # t => job'[u] = job[u]
  BY <1>1, <1>3 DEF ScansInv, ScansTyped
<1>5. ScansTyped'
  <2>1. faults_D' \in 0..MaxFaults /\ blindly' \in Nat
    BY <1>1 DEF ScansInv, ScansTyped, D!TypeOK
  <2>2. \A u \in Thread : job'[u].does \in {"upload", "listed"} => job'[u].into >= job'[u].dir
    BY <1>3, <1>4 DEF ScansInv, ScansTyped
  <2>3. QED
    BY <1>1, <1>2, <1>4, <2>1, <2>2, ChangesTyped DEF ScansInv
<1>6. ListingsHold'
  BY <1>1, <1>3, <1>4, ChangesHold
<1>7. RowsHold'
  BY <1>3, <1>4 DEF RowsHold, Covers
<1>8. ScansEnd' /\ OneUpload'
  BY <1>1 DEF ScansInv, ScansEnd, OneUpload
<1>9. QED
  BY <1>5, <1>6, <1>7, <1>8 DEF ScansInv

LEMMA ScansInvStep ==
  ASSUME D!Parameters, ScansInv, [D!Next]_(D!vars)
  PROVE  ScansInv'
<1>1. CASE UNCHANGED D!vars
  BY <1>1 DEF D!vars, ScansInv, ScansTyped, D!TypeOK, ListingsHold, RowsHold, Covers, ScansEnd,
              OneUpload, D!Usage
<1>2. CASE D!Next
  BY <1>2, RequestScanStep, ReadDirectoryStep, ScanLostStep, ScanEndsStep, BeginUploadStep,
     WriteFileStep, UploadFailsStep, ListTargetStep, FinishUploadStep, RemoveStep, RemoveFailsStep,
     FinishRemoveStep, SyncHomeStep, SyncHomeEndsStep DEF D!Next
<1>3. QED
  BY <1>1, <1>2

-----------------------------------------------------------------------------
LEMMA DirectoriesMove == Spec => D!Spec
<1>1. Init => D!Init
  BY DEF Init
<1>2. [Next]_vars => [D!Next]_(D!vars)
  BY DEF Next, vars, directories, rules, volumes, hotMounts, ports, updates, waits,
         D!vars
<1>3. QED
  BY <1>1, <1>2, PTL DEF Spec, D!Spec

LEMMA DirectoriesAlways == Spec => []ScansInv
<1>1. D!Init => ScansInv
  BY PlatformAssumption, ScansInvInit
<1>2. ScansInv /\ [D!Next]_(D!vars) => ScansInv'
  BY PlatformAssumption, ScansInvStep
<1>3. QED
  BY <1>1, <1>2, DirectoriesMove, PTL DEF D!Spec

(* When nothing is under way, a row that is ready shows its directory,     *)
(* except in directories of which no row was told that a request, also one *)
(* that failed half way, changed them; and a row that says scanning has    *)
(* its scan.                                                               *)
THEOREM ReadyRowsAreTrue == Spec => []RowsAreTrue
<1>1. ScansInv => RowsAreTrue
  <2>1. ASSUME \A t \in Thread : job[t].does = "none"
        PROVE  \A t \in Thread, d \in D!Dir : ~Covers(t, d)
    BY <2>1 DEF Covers
  <2>2. QED
    BY <2>1 DEF ScansInv, RowsHold, ScansEnd, D!RowsAreTrue, RowsAreTrue
<1>2. QED
  BY <1>1, DirectoriesAlways, PTL

(* Uploads that do not overlap keep a home within its quota, whatever is   *)
(* replaced, deleted or fails half way, but for files that came in when    *)
(* the home could not be measured (user_directory_upload).                 *)
THEOREM UploadsFit == Spec => []UploadsWithinQuota
<1>1. ScansInv => UploadsWithinQuota
  BY DEF ScansInv, OneUpload, D!UploadsWithinQuota, UploadsWithinQuota
<1>2. QED
  BY <1>1, DirectoriesAlways, PTL

(* Types of the directories, their rows, the scans and the requests.       *)
THEOREM DirectoriesTypeOK == Spec => []D!TypeOK
<1>1. ScansInv => D!TypeOK
  BY DEF ScansInv, ScansTyped
<1>2. QED
  BY <1>1, DirectoriesAlways, PTL

-----------------------------------------------------------------------------
(* Workspace volumes                                                       *)

(* Sequence r is s without the element at i.                               *)
Leaves(r, s, i) ==
  /\ \A j \in DOMAIN r : \E k \in DOMAIN s \ {i} : r[j] = s[k]
  /\ \A j, l \in DOMAIN r : j # l =>
       \E k, m \in DOMAIN s \ {i} : k # m /\ r[j] = s[k] /\ r[l] = s[m]
  /\ \A k \in DOMAIN s : k # i => \E j \in DOMAIN r : r[j] = s[k]

(* Taking the element at i out of a sequence.                              *)
LEMMA TakenOut ==
  ASSUME NEW T, NEW s \in Seq(T), NEW i \in DOMAIN s,
         NEW r, r = SubSeq(s, 1, i - 1) \o SubSeq(s, i + 1, Len(s))
  PROVE  r \in Seq(T) /\ Leaves(r, s, i)
<1> DEFINE a == SubSeq(s, 1, i - 1)
           b == SubSeq(s, i + 1, Len(s))
<1>1. /\ Len(s) \in Nat /\ i \in 1..Len(s) /\ i \in Nat /\ DOMAIN s = 1..Len(s)
      /\ \A j \in 1..Len(s) : s[j] \in T
  BY LenProperties, ElementOfSeq
<1>2. /\ a \in Seq(T) /\ Len(a) = i - 1
      /\ \A j \in 1..(i - 1) : a[j] = s[j]
  <2>1. /\ a \in Seq(T) /\ Len(a) = IF 1 <= i - 1 THEN i - 1 - 1 + 1 ELSE 0
        /\ \A j \in 1..(i - 1 - 1 + 1) : a[j] = s[1 + j - 1]
    BY <1>1, SubSeqProperties
  <2>2. QED
    BY <1>1, <2>1
<1>3. /\ b \in Seq(T) /\ Len(b) = Len(s) - i
      /\ \A j \in 1..(Len(s) - i) : b[j] = s[i + j]
  <2>1. /\ b \in Seq(T) /\ Len(b) = IF i + 1 <= Len(s) THEN Len(s) - (i + 1) + 1 ELSE 0
        /\ \A j \in 1..(Len(s) - (i + 1) + 1) : b[j] = s[i + 1 + j - 1]
    BY <1>1, SubSeqProperties
  <2>2. QED
    BY <1>1, <2>1
<1>4. /\ r \in Seq(T) /\ Len(r) = Len(s) - 1
      /\ \A j \in 1..(Len(s) - 1) : r[j] = IF j <= i - 1 THEN a[j] ELSE b[j - (i - 1)]
  <2>1. /\ a \o b \in Seq(T) /\ Len(a \o b) = Len(a) + Len(b)
        /\ \A j \in 1..(Len(a) + Len(b)) :
             (a \o b)[j] = IF j <= Len(a) THEN a[j] ELSE b[j - Len(a)]
    BY <1>2, <1>3, ConcatProperties
  <2>2. r = a \o b
    OBVIOUS
  <2>3. Len(a) + Len(b) = Len(s) - 1 /\ Len(a) = i - 1
    BY <1>1, <1>2, <1>3
  <2> HIDE DEF a, b
  <2>4. QED
    BY <2>1, <2>2, <2>3
<1>5. DOMAIN r = 1..(Len(s) - 1)
  BY <1>4, LenProperties
<1> HIDE DEF a, b
<1>6. \A j \in 1..(Len(s) - 1) : (IF j < i THEN j ELSE j + 1) \in DOMAIN s \ {i}
                                 /\ r[j] = s[IF j < i THEN j ELSE j + 1]
  <2> TAKE j \in 1..(Len(s) - 1)
  <2>1. CASE j < i
    BY <1>1, <1>2, <1>4, <2>1
  <2>2. CASE ~(j < i)
    <3>1. j - (i - 1) \in 1..(Len(s) - i) /\ i + (j - (i - 1)) = j + 1 /\ ~(j <= i - 1)
      BY <1>1, <2>2
    <3>2. r[j] = s[j + 1]
      BY <1>3, <1>4, <3>1
    <3>3. j + 1 \in DOMAIN s \ {i} /\ (IF j < i THEN j ELSE j + 1) = j + 1
      BY <1>1, <2>2
    <3>4. QED
      BY <3>2, <3>3
  <2>3. QED
    BY <2>1, <2>2
<1>7. ASSUME NEW k \in DOMAIN s, k # i PROVE \E j \in DOMAIN r : r[j] = s[k]
  <2>1. CASE k < i
    <3>1. k \in 1..(Len(s) - 1) /\ r[k] = s[k]
      BY <1>1, <1>6, <2>1
    <3>2. QED
      BY <1>5, <3>1
  <2>2. CASE ~(k < i)
    <3>1. k - 1 \in 1..(Len(s) - 1) /\ ~(k - 1 < i) /\ k - 1 + 1 = k
      BY <1>1, <1>7, <2>2
    <3>2. r[k - 1] = s[k]
      BY <1>6, <3>1
    <3>3. QED
      BY <1>5, <3>1, <3>2
  <2>3. QED
    BY <2>1, <2>2
<1>8. \A j, l \in DOMAIN r : j # l =>
        \E k, m \in DOMAIN s \ {i} : k # m /\ r[j] = s[k] /\ r[l] = s[m]
  <2> DEFINE at(j) == IF j < i THEN j ELSE j + 1
  <2>1. \A j \in DOMAIN r : at(j) \in DOMAIN s \ {i} /\ r[j] = s[at(j)]
    BY <1>5, <1>6
  <2>2. \A j, l \in DOMAIN r : j # l => at(j) # at(l)
    BY <1>1, <1>5
  <2> HIDE DEF at
  <2>3. QED
    BY <2>1, <2>2
<1>9. \A j \in DOMAIN r : \E k \in DOMAIN s \ {i} : r[j] = s[k]
  BY <1>5, <1>6
<1>10. QED
  BY <1>4, <1>7, <1>8, <1>9 DEF Leaves
-----------------------------------------------------------------------------
(* Adding one at the end, and one at the front.                            *)
LEMMA Added ==
  ASSUME NEW T, NEW s \in Seq(T), NEW x \in T, NEW r, r = Append(s, x)
  PROVE  /\ r \in Seq(T) /\ DOMAIN r = 1..(Len(s) + 1) /\ DOMAIN s = 1..Len(s) /\ Len(s) \in Nat
         /\ \A j \in DOMAIN s : j \in DOMAIN r /\ r[j] = s[j]
         /\ Len(s) + 1 \in DOMAIN r /\ r[Len(s) + 1] = x
         /\ \A j \in DOMAIN r : j \in DOMAIN s \/ j = Len(s) + 1
BY AppendProperties, LenProperties

LEMMA PutInFront ==
  ASSUME NEW T, NEW s \in Seq(T), NEW x \in T, NEW r, r = <<x>> \o s
  PROVE  /\ r \in Seq(T) /\ DOMAIN r = 1..(Len(s) + 1) /\ DOMAIN s = 1..Len(s) /\ Len(s) \in Nat
         /\ 1 \in DOMAIN r /\ r[1] = x
         /\ \A j \in DOMAIN s : j + 1 \in DOMAIN r /\ r[j + 1] = s[j]
         /\ \A j \in DOMAIN r : j = 1 \/ (j - 1 \in DOMAIN s /\ r[j] = s[j - 1])
<1>1. <<x>> \in Seq(T) /\ Len(<<x>>) = 1 /\ <<x>>[1] = x
  OBVIOUS
<1>2. Len(s) \in Nat /\ DOMAIN s = 1..Len(s)
  BY LenProperties
<1>3. /\ r \in Seq(T) /\ Len(r) = 1 + Len(s)
      /\ \A j \in 1..(1 + Len(s)) : r[j] = IF j <= 1 THEN <<x>>[j] ELSE s[j - 1]
  BY <1>1, ConcatProperties
<1>4. DOMAIN r = 1..(Len(s) + 1)
  BY <1>2, <1>3, LenProperties
<1>5. 1 \in DOMAIN r /\ r[1] = x
  BY <1>1, <1>2, <1>3, <1>4
<1>6. \A j \in DOMAIN s : j + 1 \in DOMAIN r /\ r[j + 1] = s[j]
  BY <1>2, <1>3, <1>4
<1>7. \A j \in DOMAIN r : j = 1 \/ (j - 1 \in DOMAIN s /\ r[j] = s[j - 1])
  BY <1>2, <1>3, <1>4
<1>8. QED
  BY <1>2, <1>3, <1>4, <1>5, <1>6, <1>7

-----------------------------------------------------------------------------
(* The inductive invariant.                                                *)

Job == [op : {"create", "delete"}, of : Container, lost : BOOLEAN, ok : BOOLEAN]
       \cup [op : V!Removals, of : {0}, lost : BOOLEAN, ok : BOOLEAN]

VolumeTyped ==
  /\ V!TypeOK
  /\ used \in 0..now_V /\ volume \in BOOLEAN /\ unseen \in BOOLEAN
  /\ tasks_V \in Seq(Job) /\ doing_V \in Job \cup {V!Idle}
  /\ reader \in V!Removals \cup {"none"}

(* An open task of a container is what its row waits for, unless the row   *)
(* was removed by force, and there is one at most.                         *)
Fits(t) == box_V[t.of] = IF t.op = "create" THEN "creating" ELSE "deleting"
OneEach ==
  /\ \A i \in DOMAIN tasks_V : tasks_V[i].of # 0 => Fits(tasks_V[i])
  /\ doing_V.of # 0 => Fits(doing_V) \/ (forced /\ box_V[doing_V.of] = "gone")
  /\ \A i, j \in DOMAIN tasks_V : tasks_V[i].of = tasks_V[j].of /\ tasks_V[i].of # 0 => i = j
  /\ \A i \in DOMAIN tasks_V : tasks_V[i].of = doing_V.of => doing_V.of = 0

(* Nothing makes a volume while it is removed, or when it was.             *)
NoneMade ==
  (V!Removing \/ row_V.status = "removed") /\ ~raced /\ ~forced =>
    /\ \A i \in DOMAIN tasks_V : tasks_V[i].op # "create"
    /\ doing_V.op # "create"

(* A removal that succeeded has left no volume, if it could see it.        *)
Emptied ==
  /\ doing_V.op \in V!Removals /\ doing_V.ok /\ ~unseen => ~volume
  /\ row_V.status = "removed" /\ ~raced /\ ~forced /\ ~unseen => ~volume

Ends == row_V.status = "removing" => V!Removing

(* The date of an unused volume is that of its last container, ...         *)
RemovalDated == V!Present = {} /\ row_V.lifecycle = "temporary" /\ ~forced =>
           row_V.cleanup = IF used = 0 THEN 0 ELSE used + Retention

(* ... and the loop has what it removes only after it.                     *)
ByLoop == \/ reader = "loop" \/ doing_V.op = "loop"
          \/ \E i \in DOMAIN tasks_V : tasks_V[i].op = "loop"
InDate == ByLoop /\ ~raced /\ ~forced => V!Present = {} /\ now_V >= used + Retention

VolumeInv == VolumeTyped /\ OneEach /\ NoneMade /\ Emptied /\ Ends /\ RemovalDated /\ InDate
             /\ V!KeptForRetention

LEMMA JobFacts ==
  ASSUME V!Parameters, VolumeInv
  PROVE  /\ \A i \in DOMAIN tasks_V : tasks_V[i] \in Job
         /\ \A t \in Job : /\ t.op \in {"create", "delete"} => t.of \in Container /\ t.of # 0
                           /\ t.op \in V!Removals => t.of = 0
                           /\ t.op \in {"create", "delete"} \cup V!Removals
                           /\ t.lost \in BOOLEAN /\ t.ok \in BOOLEAN
         /\ doing_V \in Job \/ doing_V = V!Idle
         /\ \A c \in Container : V!Task("create", c) \in Job /\ V!Task("delete", c) \in Job
         /\ \A who \in V!Removals : V!Task(who, 0) \in Job
         /\ \A t \in Job : \A b \in BOOLEAN : [t EXCEPT !.ok = b] \in Job
                                              /\ [t EXCEPT !.ok = b].op = t.op
                                              /\ [t EXCEPT !.ok = b].of = t.of
                                              /\ [t EXCEPT !.ok = b].ok = b
         /\ \A t \in Job : [t EXCEPT !.lost = TRUE, !.ok = TRUE] \in Job
                           /\ [t EXCEPT !.lost = TRUE, !.ok = TRUE].op = t.op
                           /\ [t EXCEPT !.lost = TRUE, !.ok = TRUE].of = t.of
<1>1. tasks_V \in Seq(Job)
  BY DEF VolumeInv, VolumeTyped
<1>2. \A i \in DOMAIN tasks_V : tasks_V[i] \in Job
  BY <1>1, ElementOfSeq, LenProperties
<1>3. doing_V \in Job \/ doing_V = V!Idle
  BY DEF VolumeInv, VolumeTyped
<1>4. \A t \in Job : \A b \in BOOLEAN : [t EXCEPT !.ok = b] \in Job
                                         /\ [t EXCEPT !.ok = b].op = t.op
                                         /\ [t EXCEPT !.ok = b].of = t.of
                                         /\ [t EXCEPT !.ok = b].ok = b
  BY DEF Job
<1>5. \A t \in Job : [t EXCEPT !.lost = TRUE, !.ok = TRUE] \in Job
                      /\ [t EXCEPT !.lost = TRUE, !.ok = TRUE].op = t.op
                      /\ [t EXCEPT !.lost = TRUE, !.ok = TRUE].of = t.of
  BY DEF Job
<1>6. \A t \in Job : /\ t.op \in {"create", "delete"} => t.of \in Container /\ t.of # 0
                     /\ t.op \in V!Removals => t.of = 0
                     /\ t.op \in {"create", "delete"} \cup V!Removals
                     /\ t.lost \in BOOLEAN /\ t.ok \in BOOLEAN
  BY DEF Job, V!Removals, V!Parameters
<1>7. /\ \A c \in Container : V!Task("create", c) \in Job /\ V!Task("delete", c) \in Job
      /\ \A who \in V!Removals : V!Task(who, 0) \in Job
  BY DEF Job, V!Removals, V!Task
<1>8. QED
  BY <1>2, <1>3, <1>4, <1>5, <1>6, <1>7

LEMMA OfContainer ==
  ASSUME V!Parameters, VolumeInv
  PROVE  /\ \A i \in DOMAIN tasks_V : tasks_V[i].of # 0 => tasks_V[i].of \in Container
         /\ doing_V.of # 0 => doing_V.of \in Container
<1>1. \A t \in Job : t.of # 0 => t.of \in Container
  BY DEF Job
<1>2. doing_V \in Job \/ doing_V = V!Idle
  BY DEF VolumeInv, VolumeTyped
<1>3. doing_V.of # 0 => doing_V.of \in Container
  BY <1>1, <1>2 DEF V!Idle
<1>4. QED
  BY <1>1, <1>3, JobFacts

LEMMA VolumeInvInit ==
  ASSUME V!Parameters, V!Init
  PROVE  VolumeInv
<1> USE DEF V!Init, V!Parameters
<1>1. VolumeTyped
  <2>1. V!TypeOK
    BY DEF V!TypeOK, V!Lifecycle
  <2>2. tasks_V \in Seq(Job)
    OBVIOUS
  <2>3. used \in 0..now_V
    OBVIOUS
  <2>4. volume \in BOOLEAN /\ unseen \in BOOLEAN /\ doing_V = V!Idle /\ reader = "none"
    BY Zenon
  <2>5. QED
    BY <2>1, <2>2, <2>3, <2>4 DEF VolumeTyped
<1>2. OneEach /\ NoneMade /\ Emptied /\ Ends /\ InDate /\ V!KeptForRetention
  BY DEF OneEach, NoneMade, Emptied, Ends, InDate, V!KeptForRetention, V!Removing, V!Removals,
         ByLoop, V!Idle
<1>3. RemovalDated
  BY DEF RemovalDated, V!Present
<1>4. QED
  BY <1>1, <1>2, <1>3 DEF VolumeInv

(* A task that is taken out leaves the others, and none of its container.  *)
LEMMA TaskTaken ==
  ASSUME V!Parameters, VolumeInv, NEW i \in DOMAIN tasks_V, tasks_V' = V!Without(i)
  PROVE  /\ tasks_V' \in Seq(Job)
         /\ \A j \in DOMAIN tasks_V' : \E k \in DOMAIN tasks_V : k # i /\ tasks_V'[j] = tasks_V[k]
         /\ \A k \in DOMAIN tasks_V : k # i => \E j \in DOMAIN tasks_V' : tasks_V'[j] = tasks_V[k]
         /\ \A j, k \in DOMAIN tasks_V' :
              tasks_V'[j].of = tasks_V'[k].of /\ tasks_V'[j].of # 0 => j = k
         /\ \A j \in DOMAIN tasks_V' : tasks_V'[j].of = tasks_V[i].of => tasks_V[i].of = 0
<1>1. tasks_V \in Seq(Job)
  BY DEF VolumeInv, VolumeTyped
<1>2. tasks_V' = SubSeq(tasks_V, 1, i - 1) \o SubSeq(tasks_V, i + 1, Len(tasks_V))
  BY DEF V!Without
<1>3. tasks_V' \in Seq(Job) /\ Leaves(tasks_V', tasks_V, i)
  BY <1>1, <1>2, TakenOut
<1>4. \A k, j \in DOMAIN tasks_V : tasks_V[k].of = tasks_V[j].of /\ tasks_V[k].of # 0 => k = j
  BY DEF VolumeInv, OneEach
<1>5. ASSUME NEW j \in DOMAIN tasks_V', NEW l \in DOMAIN tasks_V', j # l,
             tasks_V'[j].of = tasks_V'[l].of, tasks_V'[j].of # 0
      PROVE  FALSE
  <2>1. PICK k, m \in DOMAIN tasks_V : k # m /\ tasks_V'[j] = tasks_V[k] /\ tasks_V'[l] = tasks_V[m]
    BY <1>3, <1>5 DEF Leaves
  <2>2. QED
    BY <1>4, <1>5, <2>1
<1>6. ASSUME NEW j \in DOMAIN tasks_V', tasks_V'[j].of = tasks_V[i].of PROVE tasks_V[i].of = 0
  <2>1. PICK k \in DOMAIN tasks_V : k # i /\ tasks_V'[j] = tasks_V[k]
    BY <1>3 DEF Leaves
  <2>2. QED
    BY <1>4, <1>6, <2>1
<1>7. /\ \A j \in DOMAIN tasks_V' : \E k \in DOMAIN tasks_V : k # i /\ tasks_V'[j] = tasks_V[k]
      /\ \A k \in DOMAIN tasks_V : k # i => \E j \in DOMAIN tasks_V' : tasks_V'[j] = tasks_V[k]
  BY <1>3 DEF Leaves
<1>8. QED
  BY <1>3, <1>5, <1>6, <1>7

-----------------------------------------------------------------------------
(* One lemma per action.                                                   *)

LEMMA CreateStep ==
  ASSUME V!Parameters, VolumeInv, NEW c \in Container, V!Create(c)
  PROVE  VolumeInv'
<1> USE DEF V!Create
<1>1. /\ tasks_V' \in Seq(Job) /\ DOMAIN tasks_V = 1..Len(tasks_V) /\ Len(tasks_V) \in Nat
      /\ \A j \in DOMAIN tasks_V : j \in DOMAIN tasks_V' /\ tasks_V'[j] = tasks_V[j]
      /\ Len(tasks_V) + 1 \in DOMAIN tasks_V' /\ tasks_V'[Len(tasks_V) + 1] = V!Task("create", c)
      /\ \A j \in DOMAIN tasks_V' : j \in DOMAIN tasks_V \/ j = Len(tasks_V) + 1
  <2>1. tasks_V \in Seq(Job) /\ V!Task("create", c) \in Job /\ tasks_V' = Append(tasks_V, V!Task("create", c))
    BY JobFacts DEF VolumeInv, VolumeTyped
  <2>2. QED
    BY <2>1, Added
<1>2. VolumeTyped'
  BY <1>1 DEF VolumeInv, VolumeTyped, V!TypeOK
<1>3. c \in Container /\ c # 0 /\ box_V[c] = "none" /\ box_V' = [box_V EXCEPT ![c] = "creating"]
      /\ box_V \in [Container -> {"none", "creating", "live", "deleting", "gone"}]
  BY DEF VolumeInv, VolumeTyped, V!TypeOK, V!Parameters
<1>4. (\A i \in DOMAIN tasks_V : tasks_V[i].of # c) /\ doing_V.of # c
  BY <1>3 DEF VolumeInv, OneEach, Fits
<1>5. OneEach'
  <2>1. \A i \in DOMAIN tasks_V' : tasks_V'[i].of # 0 => Fits(tasks_V[i])'
    BY <1>1, <1>3, <1>4, OfContainer DEF VolumeInv, OneEach, Fits, V!Task
  <2>2. doing_V'.of # 0 => Fits(doing_V)' \/ (forced' /\ box_V'[doing_V'.of] = "gone")
    BY <1>3, <1>4, OfContainer DEF VolumeInv, OneEach, Fits
  <2>3. \A i, j \in DOMAIN tasks_V' : tasks_V'[i].of = tasks_V'[j].of /\ tasks_V'[i].of # 0 => i = j
    BY <1>1, <1>3, <1>4 DEF VolumeInv, OneEach, V!Task
  <2>4. \A i \in DOMAIN tasks_V' : tasks_V'[i].of = doing_V'.of => doing_V'.of = 0
    BY <1>1, <1>3, <1>4 DEF VolumeInv, OneEach, V!Task
  <2>5. QED
    BY <2>1, <2>2, <2>3, <2>4 DEF OneEach
<1>6. V!Removing' <=> V!Removing
  BY <1>1 DEF V!Removing, V!Removals, V!Task
<1>7. row_V'.status = "active" /\ row_V'.lifecycle = row_V.lifecycle /\ row_V'.cleanup = row_V.cleanup
  BY DEF VolumeInv, VolumeTyped, V!TypeOK
<1>8. NoneMade' /\ Emptied' /\ Ends'
  BY <1>6, <1>7 DEF VolumeInv, NoneMade, Emptied, Ends
<1>9. c \in V!Present'
  BY <1>3 DEF V!Present
<1>10. RemovalDated'
  BY <1>9 DEF RemovalDated
<1>11. InDate'
  <2>1. ByLoop' => V!Removing
    BY <1>1 DEF ByLoop, V!Removing, V!Removals, V!Task
  <2>2. QED
    BY <2>1 DEF InDate
<1>12. V!KeptForRetention'
  BY DEF VolumeInv, V!KeptForRetention
<1>13. QED
  BY <1>2, <1>5, <1>8, <1>10, <1>11, <1>12 DEF VolumeInv

LEMMA DeleteStep ==
  ASSUME V!Parameters, VolumeInv, NEW c \in Container, V!Delete(c)
  PROVE  VolumeInv'
<1> USE DEF V!Delete, V!history
<1>1. /\ tasks_V' \in Seq(Job) /\ DOMAIN tasks_V = 1..Len(tasks_V) /\ Len(tasks_V) \in Nat
      /\ \A j \in DOMAIN tasks_V : j \in DOMAIN tasks_V' /\ tasks_V'[j] = tasks_V[j]
      /\ Len(tasks_V) + 1 \in DOMAIN tasks_V' /\ tasks_V'[Len(tasks_V) + 1] = V!Task("delete", c)
      /\ \A j \in DOMAIN tasks_V' : j \in DOMAIN tasks_V \/ j = Len(tasks_V) + 1
  <2>1. tasks_V \in Seq(Job) /\ V!Task("delete", c) \in Job /\ tasks_V' = Append(tasks_V, V!Task("delete", c))
    BY JobFacts DEF VolumeInv, VolumeTyped
  <2>2. QED
    BY <2>1, Added
<1>2. VolumeTyped'
  BY <1>1 DEF VolumeInv, VolumeTyped, V!TypeOK
<1>3. c \in Container /\ c # 0 /\ box_V[c] = "live" /\ box_V' = [box_V EXCEPT ![c] = "deleting"]
      /\ box_V \in [Container -> {"none", "creating", "live", "deleting", "gone"}]
  BY DEF VolumeInv, VolumeTyped, V!TypeOK, V!Parameters
<1>4. (\A i \in DOMAIN tasks_V : tasks_V[i].of # c) /\ doing_V.of # c
  BY <1>3 DEF VolumeInv, OneEach, Fits
<1>5. OneEach'
  <2>1. \A i \in DOMAIN tasks_V' : tasks_V'[i].of # 0 => Fits(tasks_V[i])'
    BY <1>1, <1>3, <1>4, OfContainer DEF VolumeInv, OneEach, Fits, V!Task
  <2>2. doing_V'.of # 0 => Fits(doing_V)' \/ (forced' /\ box_V'[doing_V'.of] = "gone")
    BY <1>3, <1>4, OfContainer DEF VolumeInv, OneEach, Fits
  <2>3. \A i, j \in DOMAIN tasks_V' : tasks_V'[i].of = tasks_V'[j].of /\ tasks_V'[i].of # 0 => i = j
    BY <1>1, <1>3, <1>4 DEF VolumeInv, OneEach, V!Task
  <2>4. \A i \in DOMAIN tasks_V' : tasks_V'[i].of = doing_V'.of => doing_V'.of = 0
    BY <1>1, <1>3, <1>4 DEF VolumeInv, OneEach, V!Task
  <2>5. QED
    BY <2>1, <2>2, <2>3, <2>4 DEF OneEach
<1>6. (V!Removing' <=> V!Removing) /\ (ByLoop' <=> ByLoop)
  BY <1>1 DEF V!Removing, ByLoop, V!Removals, V!Task
<1>7. NoneMade' /\ Emptied' /\ Ends'
  BY <1>1, <1>6 DEF VolumeInv, NoneMade, Emptied, Ends, V!Task
<1>8. c \in V!Present /\ c \in V!Present'
  BY <1>3 DEF V!Present
<1>9. RemovalDated' /\ InDate'
  BY <1>6, <1>8 DEF VolumeInv, RemovalDated, InDate
<1>10. V!KeptForRetention'
  BY DEF VolumeInv, V!KeptForRetention
<1>11. QED
  BY <1>2, <1>5, <1>7, <1>9, <1>10 DEF VolumeInv

LEMMA ForceDeleteStep ==
  ASSUME V!Parameters, VolumeInv, NEW c \in Container, V!ForceDelete(c)
  PROVE  VolumeInv'
<1> USE DEF V!ForceDelete
<1>1. /\ c # 0 /\ box_V' = [box_V EXCEPT ![c] = "gone"] /\ forced'
      /\ box_V \in [Container -> {"none", "creating", "live", "deleting", "gone"}]
  BY DEF VolumeInv, VolumeTyped, V!TypeOK, V!Parameters
<1>2. /\ tasks_V' \in Seq(Job)
      /\ \A j \in DOMAIN tasks_V' : tasks_V'[j].of # c /\ \E k \in DOMAIN tasks_V : tasks_V'[j] = tasks_V[k]
      /\ \A k \in DOMAIN tasks_V : tasks_V[k].of # c => \E j \in DOMAIN tasks_V' : tasks_V'[j] = tasks_V[k]
      /\ \A j, k \in DOMAIN tasks_V' : tasks_V'[j].of = tasks_V'[k].of /\ tasks_V'[j].of # 0 => j = k
  <2>1. CASE (\A i \in DOMAIN tasks_V : tasks_V[i].of # c) /\ UNCHANGED tasks_V
    BY <2>1 DEF VolumeInv, VolumeTyped, OneEach
  <2>2. CASE \E i \in DOMAIN tasks_V : tasks_V[i].of = c /\ tasks_V' = V!Without(i)
    <3>1. PICK i \in DOMAIN tasks_V : tasks_V[i].of = c /\ tasks_V' = V!Without(i)
      BY <2>2
    <3>2. /\ tasks_V' \in Seq(Job)
          /\ \A j \in DOMAIN tasks_V' : tasks_V'[j].of # c
          /\ \A j \in DOMAIN tasks_V' : \E k \in DOMAIN tasks_V : k # i /\ tasks_V'[j] = tasks_V[k]
          /\ \A k \in DOMAIN tasks_V : k # i => \E j \in DOMAIN tasks_V' : tasks_V'[j] = tasks_V[k]
          /\ \A j, k \in DOMAIN tasks_V' : tasks_V'[j].of = tasks_V'[k].of /\ tasks_V'[j].of # 0 => j = k
      BY <1>1, <3>1, TaskTaken
    <3>3. QED
      BY <3>1, <3>2
  <2>3. QED
    BY <2>1, <2>2
<1>3. VolumeTyped'
  BY <1>1, <1>2 DEF VolumeInv, VolumeTyped, V!TypeOK
<1>4. OneEach'
  <2>1. \A i \in DOMAIN tasks_V' : tasks_V'[i].of # 0 => Fits(tasks_V[i])'
    BY <1>1, <1>2, OfContainer DEF VolumeInv, OneEach, Fits
  <2>2. doing_V'.of # 0 => Fits(doing_V)' \/ (forced' /\ box_V'[doing_V'.of] = "gone")
    BY <1>1, OfContainer DEF VolumeInv, OneEach, Fits
  <2>3. \A i \in DOMAIN tasks_V' : tasks_V'[i].of = doing_V'.of => doing_V'.of = 0
    BY <1>2 DEF VolumeInv, OneEach
  <2>4. QED
    BY <1>2, <2>1, <2>2, <2>3 DEF OneEach
<1>5. V!Removing => V!Removing'
  <2>1. \A k \in DOMAIN tasks_V : tasks_V[k].op \in V!Removals => tasks_V[k].of # c
    BY <1>1, JobFacts
  <2>2. QED
    BY <1>2, <2>1 DEF V!Removing
<1>6. NoneMade' /\ Emptied' /\ Ends' /\ RemovalDated' /\ InDate' /\ V!KeptForRetention'
  BY <1>1, <1>5 DEF VolumeInv, NoneMade, Emptied, Ends, RemovalDated, InDate, V!KeptForRetention
<1>7. QED
  BY <1>3, <1>4, <1>6 DEF VolumeInv

LEMMA ReadsStep ==
  ASSUME V!Parameters, VolumeInv, NEW who \in V!Removals, V!Reads(who)
  PROVE  VolumeInv'
<1> USE DEF V!Reads, V!history
<1>1. VolumeTyped'
  BY DEF VolumeInv, VolumeTyped, V!TypeOK, V!Parameters
<1>2. OneEach'
  BY DEF VolumeInv, OneEach, Fits
<1>3. Ends' /\ Emptied' /\ V!KeptForRetention'
  BY DEF VolumeInv, Ends, Emptied, V!KeptForRetention, V!Removing
<1>4. \A i \in DOMAIN tasks_V : tasks_V[i].op = "create" => \E c \in V!Present : box_V[c] = "creating"
  <2>1. \A i \in DOMAIN tasks_V : tasks_V[i].op = "create" =>
          tasks_V[i].of \in Container /\ box_V[tasks_V[i].of] = "creating"
    BY JobFacts DEF VolumeInv, OneEach, Fits
  <2>2. QED
    BY <2>1 DEF V!Present
<1>5. doing_V.op = "create" => forced \/ \E c \in V!Present : box_V[c] = "creating"
  <2>1. doing_V.op = "create" => doing_V.of \in Container /\ doing_V.of # 0
    <3>1. doing_V \in Job \/ doing_V = V!Idle
      BY JobFacts
    <3>2. \A t \in Job : t.op = "create" => t.of \in Container /\ t.of # 0
      BY JobFacts
    <3>3. QED
      BY <3>1, <3>2 DEF V!Idle
  <2>2. doing_V.op = "create" => forced \/ box_V[doing_V.of] = "creating"
    BY <2>1 DEF VolumeInv, OneEach, Fits
  <2>3. QED
    BY <2>1, <2>2 DEF V!Present
<1>6. NoneMade'
  <2>1. \A c \in V!Present : box_V[c] # "creating"
    BY DEF V!Expired, V!Removals
  <2>2. QED
    BY <1>4, <1>5, <2>1 DEF NoneMade
<1>7. RemovalDated'
  BY DEF VolumeInv, RemovalDated, V!Present
<1>8. InDate'
  <2>1. CASE who = "loop"
    <3>1. /\ row_V.lifecycle = "temporary" /\ row_V.cleanup \in 1..now_V /\ V!Present = {}
      BY <2>1 DEF V!Expired
    <3>2. ~forced => used # 0 /\ row_V.cleanup = used + Retention
      BY <3>1 DEF VolumeInv, RemovalDated
    <3>3. ~forced => now_V >= used + Retention
      BY <3>1, <3>2
    <3>4. QED
      BY <3>1, <3>3 DEF InDate, V!Present
  <2>2. CASE who = "admin"
    <3>1. ByLoop' => ByLoop
      BY <2>2 DEF ByLoop
    <3>2. QED
      BY <3>1 DEF VolumeInv, InDate, V!Present
  <2>3. QED
    BY <2>1, <2>2 DEF V!Removals
<1>9. QED
  BY <1>1, <1>2, <1>3, <1>6, <1>7, <1>8 DEF VolumeInv

LEMMA VolumeWritesStep ==
  ASSUME V!Parameters, VolumeInv, V!Writes
  PROVE  VolumeInv'
<1> USE DEF V!Writes, V!history
<1>1. /\ tasks_V' \in Seq(Job) /\ DOMAIN tasks_V = 1..Len(tasks_V) /\ Len(tasks_V) \in Nat
      /\ \A j \in DOMAIN tasks_V : j \in DOMAIN tasks_V' /\ tasks_V'[j] = tasks_V[j]
      /\ Len(tasks_V) + 1 \in DOMAIN tasks_V' /\ tasks_V'[Len(tasks_V) + 1] = V!Task(reader, 0)
      /\ \A j \in DOMAIN tasks_V' : j \in DOMAIN tasks_V \/ j = Len(tasks_V) + 1
  <2>1. tasks_V \in Seq(Job) /\ V!Task(reader, 0) \in Job /\ tasks_V' = Append(tasks_V, V!Task(reader, 0))
    BY JobFacts DEF VolumeInv, VolumeTyped
  <2>2. QED
    BY <2>1, Added
<1>2. reader \in V!Removals /\ V!Task(reader, 0).op = reader /\ V!Task(reader, 0).of = 0
  BY DEF VolumeInv, VolumeTyped, V!Task
<1>3. VolumeTyped'
  BY <1>1 DEF VolumeInv, VolumeTyped, V!TypeOK
<1>4. OneEach'
  <2>1. \A i \in DOMAIN tasks_V' : tasks_V'[i].of # 0 => i \in DOMAIN tasks_V /\ tasks_V'[i] = tasks_V[i]
    BY <1>1, <1>2
  <2>2. \A i \in DOMAIN tasks_V' : tasks_V'[i].of # 0 => Fits(tasks_V[i])'
    BY <2>1 DEF VolumeInv, OneEach, Fits
  <2>3. doing_V'.of # 0 => Fits(doing_V)' \/ (forced' /\ box_V'[doing_V'.of] = "gone")
    BY DEF VolumeInv, OneEach, Fits
  <2>4. \A i, j \in DOMAIN tasks_V' : tasks_V'[i].of = tasks_V'[j].of /\ tasks_V'[i].of # 0 => i = j
    BY <2>1 DEF VolumeInv, OneEach
  <2>5. \A i \in DOMAIN tasks_V' : tasks_V'[i].of = doing_V'.of => doing_V'.of = 0
    BY <2>1 DEF VolumeInv, OneEach
  <2>6. QED
    BY <2>2, <2>3, <2>4, <2>5 DEF OneEach
<1>5. V!Removing /\ V!Removing'
  BY <1>1, <1>2 DEF V!Removing
<1>6. row_V'.status = "removing" /\ row_V'.lifecycle = row_V.lifecycle /\ row_V'.cleanup = row_V.cleanup
  BY DEF VolumeInv, VolumeTyped, V!TypeOK
<1>7. NoneMade'
  BY <1>1, <1>2, <1>5 DEF VolumeInv, NoneMade, V!Removals
<1>8. Ends' /\ Emptied' /\ V!KeptForRetention' /\ RemovalDated'
  BY <1>5, <1>6 DEF VolumeInv, Ends, Emptied, V!KeptForRetention, RemovalDated, V!Present
<1>9. ByLoop' => ByLoop
  BY <1>1, <1>2 DEF ByLoop
<1>10. InDate'
  BY <1>9 DEF VolumeInv, InDate, V!Present
<1>11. QED
  BY <1>3, <1>4, <1>7, <1>8, <1>10 DEF VolumeInv

(* A task that is started, whatever becomes of it: what concerns tasks.    *)
LEMMA Started ==
  ASSUME V!Parameters, VolumeInv, NEW i \in DOMAIN tasks_V, NEW ok \in BOOLEAN,
         V!Start(i), V!Done(i, ok), UNCHANGED <<row_V, box_V, reader, raced, forced, used, now_V>>
  PROVE  /\ tasks_V' \in Seq(Job) /\ doing_V' \in Job /\ doing_V.op = "none"
         /\ doing_V'.op = tasks_V[i].op /\ doing_V'.of = tasks_V[i].of /\ doing_V'.ok = ok
         /\ OneEach' /\ NoneMade' /\ Ends' /\ InDate' /\ RemovalDated'
<1>1. tasks_V' = V!Without(i) /\ doing_V.op = "none" /\ tasks_V[i] \in Job
  BY JobFacts DEF V!Start
<1>2. doing_V' \in Job /\ doing_V'.op = tasks_V[i].op /\ doing_V'.of = tasks_V[i].of /\ doing_V'.ok = ok
  <2>1. \A t \in Job : /\ [t EXCEPT !.ok = ok] \in Job
                       /\ [t EXCEPT !.ok = ok].op = t.op
                       /\ [t EXCEPT !.ok = ok].of = t.of
                       /\ [t EXCEPT !.ok = ok].ok = ok
    BY JobFacts
  <2>2. doing_V' = [tasks_V[i] EXCEPT !.ok = ok]
    BY DEF V!Done
  <2>3. QED
    BY <1>1, <2>1, <2>2
<1>3. /\ tasks_V' \in Seq(Job)
      /\ \A j \in DOMAIN tasks_V' : \E k \in DOMAIN tasks_V : k # i /\ tasks_V'[j] = tasks_V[k]
      /\ \A k \in DOMAIN tasks_V : k # i => \E j \in DOMAIN tasks_V' : tasks_V'[j] = tasks_V[k]
      /\ \A j, k \in DOMAIN tasks_V' : tasks_V'[j].of = tasks_V'[k].of /\ tasks_V'[j].of # 0 => j = k
      /\ \A j \in DOMAIN tasks_V' : tasks_V'[j].of = tasks_V[i].of => tasks_V[i].of = 0
  BY <1>1, TaskTaken
<1>4. OneEach'
  <2>1. \A j \in DOMAIN tasks_V' : tasks_V'[j].of # 0 => Fits(tasks_V[j])'
    BY <1>3 DEF VolumeInv, OneEach, Fits
  <2>2. doing_V'.of # 0 => Fits(doing_V)'
    BY <1>2 DEF VolumeInv, OneEach, Fits
  <2>3. QED
    BY <1>2, <1>3, <2>1, <2>2 DEF OneEach
<1>5. (V!Removing' <=> V!Removing) /\ (ByLoop' <=> ByLoop)
  BY <1>1, <1>2, <1>3 DEF V!Removing, ByLoop, V!Removals
<1>6. NoneMade'
  BY <1>2, <1>3, <1>5 DEF VolumeInv, NoneMade
<1>7. Ends' /\ InDate' /\ RemovalDated'
  BY <1>5 DEF VolumeInv, Ends, InDate, RemovalDated, V!Present
<1>8. QED
  BY <1>1, <1>2, <1>3, <1>4, <1>6, <1>7

(* A removal that comes to the volume.                                     *)
LEMMA EmptiesStep ==
  ASSUME V!Parameters, VolumeInv, NEW i \in DOMAIN tasks_V, NEW ok \in BOOLEAN,
         tasks_V[i].op \in V!Removals, V!Start(i), V!Done(i, ok), V!Empties(tasks_V[i].op),
         ok => ~V!LeftBehind, faults_V' \in 0..MaxFaults,
         UNCHANGED <<now_V, row_V, box_V, reader, asked_V, used, raced, forced>>
  PROVE  VolumeInv'
<1> DEFINE t == tasks_V[i]
<1>1. t \in Job /\ volume \in BOOLEAN /\ inst \subseteq Container /\ (inst # {} => volume)
  BY JobFacts DEF VolumeInv, VolumeTyped, V!TypeOK
<1>2. /\ volume' = V!LeftBehind /\ unseen' = (unseen /\ V!LeftBehind) /\ UNCHANGED inst
      /\ early' = (early \/ (t.op = "loop" /\ volume /\ inst = {} /\ now_V < used + Retention))
  BY DEF V!Empties
<1>3. V!LeftBehind \in BOOLEAN /\ (V!LeftBehind <=> inst # {}) /\ (V!LeftBehind => volume)
  BY <1>1 DEF V!LeftBehind
<1>4. /\ tasks_V' \in Seq(Job) /\ doing_V' \in Job /\ doing_V.op = "none"
      /\ doing_V'.op = t.op /\ doing_V'.ok = ok
      /\ OneEach' /\ NoneMade' /\ Ends' /\ InDate' /\ RemovalDated'
  BY Started
<1>5. VolumeTyped'
  BY <1>1, <1>2, <1>3, <1>4 DEF VolumeInv, VolumeTyped, V!TypeOK
<1>6. Emptied'
  <2>1. doing_V'.ok => ~volume'
    BY <1>2, <1>4
  <2>2. row_V.status = "removed" /\ ~raced /\ ~forced /\ ~unseen' => ~volume'
    BY <1>2, <1>3 DEF VolumeInv, Emptied
  <2>3. QED
    BY <2>1, <2>2 DEF Emptied
<1>7. V!KeptForRetention'
  <2>1. t.op = "loop" => raced \/ forced \/ now_V >= used + Retention
    BY DEF VolumeInv, InDate, ByLoop
  <2>2. now_V \in Nat /\ used \in Nat /\ Retention \in Nat
    BY DEF VolumeInv, VolumeTyped, V!TypeOK, V!Parameters
  <2>3. t.op = "loop" /\ now_V < used + Retention => raced \/ forced
    BY <2>1, <2>2
  <2>4. early' => early \/ (t.op = "loop" /\ now_V < used + Retention)
    BY <1>2
  <2>5. early => raced \/ forced
    BY DEF VolumeInv, V!KeptForRetention
  <2>6. QED
    BY <2>3, <2>4, <2>5 DEF V!KeptForRetention
<1>8. QED
  BY <1>4, <1>5, <1>6, <1>7 DEF VolumeInv

(* What does not touch the volume, or makes one for a create.              *)
LEMMA VolumeStays ==
  ASSUME V!Parameters, VolumeInv, NEW i \in DOMAIN tasks_V, NEW ok \in BOOLEAN,
         V!Start(i), V!Done(i, ok), faults_V' \in 0..MaxFaults,
         UNCHANGED <<now_V, row_V, box_V, reader, asked_V, used, raced, forced, early>>,
         \/ tasks_V[i].op = "create" /\ volume' = TRUE /\ inst' \in {inst, inst \cup {tasks_V[i].of}}
         \/ tasks_V[i].op = "delete" /\ volume' = volume /\ inst' = inst \ {tasks_V[i].of}
         \/ UNCHANGED <<volume, inst>>,
         unseen' \in BOOLEAN, unseen => unseen',
         tasks_V[i].op \in V!Removals /\ ok /\ ~unseen' => ~volume
  PROVE  VolumeInv'
<1> DEFINE t == tasks_V[i]
<1>1. t \in Job /\ (t.op \in {"create", "delete"} => t.of \in Container)
      /\ t.op \in {"create", "delete"} \cup V!Removals
  BY JobFacts
<1>2. /\ tasks_V' \in Seq(Job) /\ doing_V' \in Job /\ doing_V'.op = t.op /\ doing_V'.ok = ok
      /\ OneEach' /\ NoneMade' /\ Ends' /\ InDate' /\ RemovalDated'
  BY Started
<1>3. inst \subseteq Container /\ (inst # {} => volume) /\ volume \in BOOLEAN
  BY DEF VolumeInv, VolumeTyped, V!TypeOK
<1>4. inst' \subseteq Container /\ (inst' # {} => volume') /\ volume' \in BOOLEAN
  <2>1. CASE t.op = "create" /\ volume' = TRUE /\ inst' \in {inst, inst \cup {t.of}}
    BY <1>1, <1>3, <2>1
  <2>2. CASE volume' = volume /\ inst' = inst \ {t.of}
    BY <1>3, <2>2
  <2>3. CASE UNCHANGED <<volume, inst>>
    BY <1>3, <2>3
  <2>4. QED
    BY <2>1, <2>2, <2>3
<1>5. VolumeTyped'
  BY <1>2, <1>4 DEF VolumeInv, VolumeTyped, V!TypeOK
<1>6. row_V.status = "removed" /\ ~raced /\ ~forced => t.op # "create"
  BY DEF VolumeInv, NoneMade
<1>7. t.op # "create" => volume' = volume
  OBVIOUS
<1>8. Emptied' /\ V!KeptForRetention'
  BY <1>2, <1>6, <1>7 DEF VolumeInv, Emptied, V!KeptForRetention, V!Removals
<1>9. QED
  BY <1>2, <1>5, <1>8 DEF VolumeInv

LEMMA ExecuteStep ==
  ASSUME V!Parameters, VolumeInv, NEW i \in DOMAIN tasks_V, V!Execute(i)
  PROVE  VolumeInv'
<1> DEFINE t == tasks_V[i]
<1>1. V!Start(i) /\ UNCHANGED <<now_V, row_V, box_V, reader, asked_V, faults_V, used, raced, forced>>
  BY DEF V!Execute
<1>2. faults_V' \in 0..MaxFaults /\ unseen \in BOOLEAN /\ volume \in BOOLEAN
  BY <1>1 DEF VolumeInv, VolumeTyped, V!TypeOK
<1>3. CASE /\ t.op = "create" /\ V!Done(i, TRUE)
           /\ volume' = TRUE /\ inst' = inst \cup {t.of} /\ UNCHANGED <<early, unseen>>
  BY <1>1, <1>2, <1>3, VolumeStays DEF V!Removals
<1>4. CASE /\ t.op = "delete" /\ V!Done(i, TRUE)
           /\ inst' = inst \ {t.of} /\ UNCHANGED <<volume, early, unseen>>
  BY <1>1, <1>2, <1>4, VolumeStays DEF V!Removals
<1>5. CASE t.op \in V!Removals /\ V!Done(i, ~V!LeftBehind) /\ V!Empties(t.op)
  <2>1. (~V!LeftBehind) \in BOOLEAN
    BY <1>2 DEF V!LeftBehind
  <2>2. QED
    BY <1>1, <1>2, <1>5, <2>1, EmptiesStep
<1>6. QED
  BY <1>3, <1>4, <1>5 DEF V!Execute

LEMMA ExecuteBlindStep ==
  ASSUME V!Parameters, VolumeInv, NEW i \in DOMAIN tasks_V, V!ExecuteBlind(i)
  PROVE  VolumeInv'
<1> USE DEF V!ExecuteBlind
<1>1. faults_V' \in 0..MaxFaults
  BY DEF V!Fault, VolumeInv, VolumeTyped, V!TypeOK, V!Parameters
<1>2. /\ V!Start(i) /\ V!Done(i, TRUE)
      /\ UNCHANGED <<now_V, row_V, box_V, inst, volume, reader, asked_V, used, raced, forced, early>>
  OBVIOUS
<1>3. unseen' \in BOOLEAN /\ (unseen => unseen')
      /\ (tasks_V[i].op \in V!Removals /\ ~unseen' => ~volume)
  BY DEF VolumeInv, VolumeTyped
<1>4. QED
  BY <1>1, <1>2, <1>3, VolumeStays

LEMMA ExecuteFailsStep ==
  ASSUME V!Parameters, VolumeInv, NEW i \in DOMAIN tasks_V, V!ExecuteFails(i)
  PROVE  VolumeInv'
<1> DEFINE t == tasks_V[i]
<1>1. /\ V!Start(i) /\ V!Done(i, FALSE)
      /\ UNCHANGED <<now_V, row_V, box_V, reader, asked_V, used, raced, forced>>
  BY DEF V!ExecuteFails
<1>2. faults_V' \in 0..MaxFaults /\ unseen \in BOOLEAN
  BY DEF V!ExecuteFails, V!Fault, VolumeInv, VolumeTyped, V!TypeOK, V!Parameters
<1>3. CASE UNCHANGED <<volume, inst, early, unseen>>
  BY <1>1, <1>2, <1>3, VolumeStays
<1>4. CASE /\ t.op = "create" /\ UNCHANGED <<early, unseen>>
           /\ volume' = TRUE /\ inst' \in {inst, inst \cup {t.of}}
  BY <1>1, <1>2, <1>4, VolumeStays
<1>5. CASE /\ t.op = "delete" /\ UNCHANGED <<volume, early, unseen>> /\ inst' = inst \ {t.of}
  BY <1>1, <1>2, <1>5, VolumeStays
<1>6. CASE t.op \in V!Removals /\ V!Empties(t.op)
  BY <1>1, <1>2, <1>6, EmptiesStep
<1>7. QED
  BY <1>3, <1>4, <1>5, <1>6 DEF V!ExecuteFails

LEMMA ReportStep ==
  ASSUME V!Parameters, VolumeInv, V!Report
  PROVE  VolumeInv'
<1>1. /\ doing_V.op # "none" /\ doing_V' = V!Idle /\ doing_V \in Job
      /\ UNCHANGED <<now_V, inst, volume, tasks_V, reader, asked_V, faults_V, raced, forced, early, unseen>>
  <2>1. doing_V \in Job \/ doing_V = V!Idle
    BY JobFacts
  <2>2. QED
    BY <2>1 DEF V!Report, V!Idle
<1>2. /\ box_V \in [Container -> {"none", "creating", "live", "deleting", "gone"}]
      /\ row_V \in [status : {"none", "active", "removing", "removed", "failed"},
                  lifecycle : V!Lifecycle, cleanup : 0..(MaxTime + Retention)]
      /\ now_V \in 1..MaxTime /\ used \in 0..now_V /\ MaxTime \in Nat /\ Retention \in Nat
  BY DEF VolumeInv, VolumeTyped, V!TypeOK, V!Parameters
<1>3. /\ V!Idle.op = "none" /\ V!Idle.of = 0
      /\ \A i \in DOMAIN tasks_V : tasks_V[i].of = doing_V.of => doing_V.of = 0
  BY DEF V!Idle, VolumeInv, OneEach
<1>4. V!KeptForRetention'
  BY <1>1 DEF VolumeInv, V!KeptForRetention
<1>5. ByLoop' => ByLoop
  BY <1>1, <1>3 DEF ByLoop
<1>6. CASE doing_V.op \in V!Removals /\ V!RemovalEnds
  <2>1. row_V' = [row_V EXCEPT !.status = IF doing_V.ok THEN "removed" ELSE "failed"]
        /\ UNCHANGED <<box_V, used>>
    BY <1>6 DEF V!RemovalEnds
  <2>2. VolumeTyped'
    BY <1>1, <1>2, <2>1 DEF VolumeInv, VolumeTyped, V!TypeOK
  <2>3. OneEach'
    BY <1>1, <1>3, <2>1, OfContainer DEF VolumeInv, OneEach, Fits, V!Parameters
  <2>4. NoneMade'
    <3>1. V!Removing
      BY <1>6 DEF V!Removing
    <3>2. QED
      BY <1>1, <1>3, <3>1 DEF VolumeInv, NoneMade
  <2>5. Emptied' /\ Ends'
    <3>1. row_V'.status = "removed" => doing_V.ok
      BY <1>1, <1>2, <2>1
    <3>2. doing_V.ok /\ ~unseen => ~volume
      BY <1>6 DEF VolumeInv, Emptied
    <3>3. row_V'.status # "removing"
      BY <1>2, <2>1
    <3>4. QED
      BY <1>1, <1>3, <3>1, <3>2, <3>3 DEF Emptied, Ends, V!Removals
  <2>6. RemovalDated' /\ InDate'
    BY <1>1, <1>2, <1>5, <2>1 DEF VolumeInv, RemovalDated, InDate, V!Present
  <2>7. QED
    BY <1>4, <2>2, <2>3, <2>4, <2>5, <2>6 DEF VolumeInv
<1>7. ASSUME doing_V.op \in {"create", "delete"}, doing_V.of \in Container, doing_V.of # 0,
             NEW s \in {"live", "gone"}, box_V[doing_V.of] \in {"creating", "deleting"},
             V!Becomes(doing_V.of, s), row_V'.status = row_V.status, VolumeTyped', RemovalDated'
      PROVE  VolumeInv'
  <2>1. box_V' = [box_V EXCEPT ![doing_V.of] = s]
    BY <1>7 DEF V!Becomes
  <2>2. OneEach'
    BY <1>1, <1>2, <1>3, <1>7, <2>1, OfContainer DEF VolumeInv, OneEach, Fits
  <2>3. V!Removing' <=> V!Removing
    BY <1>1, <1>3, <1>7 DEF V!Removing, V!Removals
  <2>4. NoneMade' /\ Emptied' /\ Ends'
    BY <1>1, <1>3, <1>7, <2>3 DEF VolumeInv, NoneMade, Emptied, Ends, V!Removals
  <2>5. V!Present # {}
    BY <1>7 DEF V!Present
  <2>6. InDate'
    BY <1>1, <1>5, <2>5 DEF VolumeInv, InDate
  <2>7. QED
    BY <1>4, <1>7, <2>2, <2>4, <2>6 DEF VolumeInv
<1>8. doing_V.op \in {"create", "delete"} => doing_V.of \in Container /\ doing_V.of # 0
  BY <1>1, JobFacts
<1>9. CASE /\ doing_V.op = "create" /\ box_V[doing_V.of] = "creating"
           /\ V!Becomes(doing_V.of, "live") /\ UNCHANGED <<row_V, used>>
  <2>1. VolumeTyped'
    BY <1>1, <1>2, <1>8, <1>9 DEF VolumeInv, VolumeTyped, V!TypeOK, V!Becomes
  <2>2. doing_V.of \in V!Present'
    BY <1>2, <1>8, <1>9 DEF V!Present, V!Becomes
  <2>3. RemovalDated'
    BY <2>2 DEF RemovalDated
  <2>4. QED
    BY <1>7, <1>8, <1>9, <2>1, <2>3
<1>10. CASE /\ doing_V.op = "delete" /\ box_V[doing_V.of] = "deleting" /\ ~doing_V.ok
            /\ V!Becomes(doing_V.of, "live") /\ UNCHANGED <<row_V, used>>
  <2>1. VolumeTyped'
    BY <1>1, <1>2, <1>8, <1>10 DEF VolumeInv, VolumeTyped, V!TypeOK, V!Becomes
  <2>2. doing_V.of \in V!Present'
    BY <1>2, <1>8, <1>10 DEF V!Present, V!Becomes
  <2>3. RemovalDated'
    BY <2>2 DEF RemovalDated
  <2>4. QED
    BY <1>7, <1>8, <1>10, <2>1, <2>3
<1>11. CASE /\ doing_V.op = "delete" /\ box_V[doing_V.of] = "deleting" /\ doing_V.ok
            /\ V!Becomes(doing_V.of, "gone")
            /\ IF V!Last(doing_V.of) THEN V!Retain ELSE UNCHANGED row_V
            /\ used' = now_V
  <2>1. \/ row_V' = row_V
        \/ row_V.lifecycle = "temporary" /\ row_V' = [row_V EXCEPT !.cleanup = now_V + Retention]
    BY <1>11 DEF V!Retain
  <2>2. now_V + Retention \in 0..(MaxTime + Retention)
    BY <1>2
  <2>3. /\ row_V'.status = row_V.status /\ row_V'.lifecycle = row_V.lifecycle
        /\ row_V' \in [status : {"none", "active", "removing", "removed", "failed"},
                     lifecycle : V!Lifecycle, cleanup : 0..(MaxTime + Retention)]
    BY <1>2, <2>1, <2>2
  <2>4. VolumeTyped'
    BY <1>1, <1>2, <1>8, <1>11, <2>3 DEF VolumeInv, VolumeTyped, V!TypeOK, V!Becomes
  <2>5. RemovalDated'
    <3>1. V!Present' = V!Present \ {doing_V.of}
      BY <1>2, <1>8, <1>11 DEF V!Present, V!Becomes
    <3>2. V!Present' = {} => V!Last(doing_V.of)
      BY <3>1 DEF V!Last
    <3>3. V!Present' = {} /\ row_V'.lifecycle = "temporary" => row_V'.cleanup = now_V + Retention
      BY <1>2, <1>11, <2>3, <3>2 DEF V!Retain
    <3>4. used' = now_V /\ now_V # 0
      BY <1>2, <1>11
    <3>5. QED
      BY <3>3, <3>4 DEF RemovalDated
  <2>6. QED
    BY <1>7, <1>8, <1>11, <2>3, <2>4, <2>5
<1>12. CASE doing_V.of # 0 /\ box_V[doing_V.of] = "gone" /\ UNCHANGED <<row_V, box_V, used>>
  <2>1. VolumeTyped'
    BY <1>1, <1>12 DEF VolumeInv, VolumeTyped, V!TypeOK
  <2>2. OneEach'
    BY <1>1, <1>3, <1>12, OfContainer DEF VolumeInv, OneEach, Fits, V!Parameters
  <2>3. doing_V.op \notin V!Removals
    BY <1>1, <1>12, JobFacts
  <2>4. V!Removing' <=> V!Removing
    BY <1>1, <1>3, <1>12, <2>3 DEF V!Removing, V!Removals
  <2>5. NoneMade' /\ Emptied' /\ Ends' /\ RemovalDated'
    BY <1>1, <1>3, <1>12, <2>4 DEF VolumeInv, NoneMade, Emptied, Ends, V!Removals, RemovalDated,
       V!Present
  <2>6. InDate'
    BY <1>1, <1>5, <1>12 DEF VolumeInv, InDate, V!Present
  <2>7. QED
    BY <1>4, <2>1, <2>2, <2>5, <2>6 DEF VolumeInv
<1>13. doing_V.ok \in BOOLEAN
  BY <1>1, JobFacts
<1>14. QED
  BY <1>6, <1>9, <1>10, <1>11, <1>12, <1>13 DEF V!Report

LEMMA ReportLostStep ==
  ASSUME V!Parameters, VolumeInv, V!ReportLost
  PROVE  VolumeInv'
<1> USE DEF V!ReportLost, V!history
<1> DEFINE retried == [doing_V EXCEPT !.lost = TRUE, !.ok = TRUE]
<1>1. doing_V \in Job /\ doing_V.op # "none" /\ doing_V' = V!Idle /\ V!Idle.op = "none" /\ V!Idle.of = 0
      /\ UNCHANGED <<now_V, row_V, box_V, inst, volume, reader, asked_V, V!history>>
  <2>1. doing_V \in Job \/ doing_V = V!Idle
    BY JobFacts
  <2>2. QED
    BY <2>1 DEF V!Idle
<1>2. retried \in Job /\ retried.op = doing_V.op /\ retried.of = doing_V.of
  BY <1>1, JobFacts
<1>3. faults_V' \in 0..MaxFaults
  BY DEF V!Fault, VolumeInv, VolumeTyped, V!TypeOK, V!Parameters
<1>4. CASE doing_V.of # 0 /\ box_V[doing_V.of] = "gone" /\ tasks_V' = tasks_V
  <2>1. VolumeTyped'
    BY <1>1, <1>3, <1>4 DEF VolumeInv, VolumeTyped, V!TypeOK
  <2>2. OneEach'
    BY <1>1, <1>4, OfContainer DEF VolumeInv, OneEach, Fits, V!Parameters
  <2>3. doing_V.op \notin V!Removals
    BY <1>1, <1>4, JobFacts
  <2>4. (V!Removing' <=> V!Removing) /\ (ByLoop' => ByLoop)
    BY <1>1, <1>4, <2>3 DEF V!Removing, ByLoop, V!Removals
  <2>5. NoneMade' /\ Emptied' /\ Ends' /\ RemovalDated'
    BY <1>1, <1>4, <2>4 DEF VolumeInv, NoneMade, Emptied, Ends, V!Removals, RemovalDated, V!Present
  <2>6. InDate' /\ V!KeptForRetention'
    BY <1>1, <1>4, <2>4 DEF VolumeInv, InDate, V!Present, V!KeptForRetention
  <2>7. QED
    BY <2>1, <2>2, <2>5, <2>6 DEF VolumeInv
<1>5. CASE ~(doing_V.of # 0 /\ box_V[doing_V.of] = "gone") /\ tasks_V' = <<retried>> \o tasks_V
  <2> HIDE DEF retried
  <2>1. /\ tasks_V' \in Seq(Job) /\ DOMAIN tasks_V = 1..Len(tasks_V) /\ Len(tasks_V) \in Nat
        /\ 1 \in DOMAIN tasks_V' /\ tasks_V'[1] = retried
        /\ \A j \in DOMAIN tasks_V : j + 1 \in DOMAIN tasks_V' /\ tasks_V'[j + 1] = tasks_V[j]
        /\ \A j \in DOMAIN tasks_V' : j = 1 \/ (j - 1 \in DOMAIN tasks_V /\ tasks_V'[j] = tasks_V[j - 1])
        /\ DOMAIN tasks_V' = 1..(Len(tasks_V) + 1)
    <3>1. tasks_V \in Seq(Job)
      BY DEF VolumeInv, VolumeTyped
    <3>2. QED
      BY <1>2, <1>5, <3>1, PutInFront
  <2>2. VolumeTyped'
    BY <1>1, <1>3, <2>1 DEF VolumeInv, VolumeTyped, V!TypeOK
  <2>3. OneEach'
    <3>1. \A j \in DOMAIN tasks_V' : tasks_V'[j].of # 0 => Fits(tasks_V[j])'
      <4> TAKE j \in DOMAIN tasks_V'
      <4>1. CASE j = 1
        BY <1>1, <1>2, <1>5, <2>1, <4>1 DEF VolumeInv, OneEach, Fits
      <4>2. CASE j - 1 \in DOMAIN tasks_V /\ tasks_V'[j] = tasks_V[j - 1]
        BY <1>1, <4>2 DEF VolumeInv, OneEach, Fits
      <4>3. QED
        BY <2>1, <4>1, <4>2
    <3>2. ASSUME NEW i \in DOMAIN tasks_V', NEW j \in DOMAIN tasks_V',
                 tasks_V'[i].of = tasks_V'[j].of, tasks_V'[i].of # 0
          PROVE  i = j
      <4>1. CASE i = 1 /\ j = 1
        BY <4>1
      <4>2. CASE i = 1 /\ j # 1
        BY <1>2, <2>1, <3>2, <4>2 DEF VolumeInv, OneEach
      <4>3. CASE i # 1 /\ j = 1
        BY <1>2, <2>1, <3>2, <4>3 DEF VolumeInv, OneEach
      <4>4. CASE i # 1 /\ j # 1
        <5>1. i - 1 \in DOMAIN tasks_V /\ j - 1 \in DOMAIN tasks_V
              /\ tasks_V[i - 1].of = tasks_V[j - 1].of /\ tasks_V[i - 1].of # 0
          BY <2>1, <3>2, <4>4
        <5>2. i - 1 = j - 1
          BY <5>1 DEF VolumeInv, OneEach
        <5>3. i \in Nat /\ j \in Nat
          BY <2>1
        <5>4. QED
          BY <5>2, <5>3
      <4>5. QED
        BY <4>1, <4>2, <4>3, <4>4
    <3>3. QED
      BY <1>1, <3>1, <3>2 DEF OneEach
  <2>4. (V!Removing' <=> V!Removing) /\ (ByLoop' <=> ByLoop)
    <3>1. ASSUME NEW o, \E i \in DOMAIN tasks_V' : tasks_V'[i].op = o
          PROVE  doing_V.op = o \/ \E i \in DOMAIN tasks_V : tasks_V[i].op = o
      BY <1>2, <2>1, <3>1
    <3>2. ASSUME NEW o, doing_V.op = o \/ \E i \in DOMAIN tasks_V : tasks_V[i].op = o
          PROVE  \E i \in DOMAIN tasks_V' : tasks_V'[i].op = o
      <4>1. CASE doing_V.op = o
        BY <1>2, <2>1, <4>1
      <4>2. CASE \E i \in DOMAIN tasks_V : tasks_V[i].op = o
        <5>1. PICK i \in DOMAIN tasks_V : tasks_V[i].op = o
          BY <4>2
        <5>2. i + 1 \in DOMAIN tasks_V' /\ tasks_V'[i + 1].op = o
          BY <2>1, <5>1
        <5>3. QED
          BY <5>2
      <4>3. QED
        BY <3>2, <4>1, <4>2
    <3>3. V!Removing' <=> V!Removing
      <4>1. V!Removing <=> reader # "none" \/ \E o \in V!Removals : doing_V.op = o
                          \/ \E i \in DOMAIN tasks_V : tasks_V[i].op = o
        BY DEF V!Removing
      <4>2. V!Removing' <=> reader # "none" \/ \E o \in V!Removals :
                                               \E i \in DOMAIN tasks_V' : tasks_V'[i].op = o
        BY <1>1 DEF V!Removing, V!Removals
      <4>3. QED
        BY <3>1, <3>2, <4>1, <4>2
    <3>4. ByLoop' <=> ByLoop
      BY <1>1, <3>1, <3>2, Zenon DEF ByLoop
    <3>5. QED
      BY <3>3, <3>4
  <2>5. NoneMade'
    BY <1>1, <1>2, <2>1, <2>4 DEF VolumeInv, NoneMade
  <2>6. Emptied' /\ Ends' /\ RemovalDated'
    BY <1>1, <2>4 DEF VolumeInv, Emptied, Ends, V!Removals, RemovalDated, V!Present
  <2>7. InDate' /\ V!KeptForRetention'
    BY <1>1, <2>4 DEF VolumeInv, InDate, V!Present, V!KeptForRetention
  <2>8. QED
    BY <2>2, <2>3, <2>5, <2>6, <2>7 DEF VolumeInv
<1>6. QED
  BY <1>4, <1>5

LEMMA VolumeTickStep ==
  ASSUME V!Parameters, VolumeInv, V!Tick
  PROVE  VolumeInv'
<1> USE DEF V!Tick, V!history
<1>1. now_V \in Nat /\ now_V' = now_V + 1 /\ used \in Nat /\ Retention \in Nat /\ now_V < MaxTime
  BY DEF VolumeInv, VolumeTyped, V!TypeOK, V!Parameters
<1>2. VolumeTyped'
  BY <1>1 DEF VolumeInv, VolumeTyped, V!TypeOK, V!Parameters
<1>3. OneEach' /\ NoneMade' /\ Emptied' /\ Ends' /\ V!KeptForRetention'
  BY DEF VolumeInv, OneEach, Fits, NoneMade, Emptied, Ends, V!KeptForRetention, V!Removing
<1>4. RemovalDated' /\ InDate'
  BY <1>1 DEF VolumeInv, RemovalDated, InDate, ByLoop, V!Present
<1>5. QED
  BY <1>2, <1>3, <1>4 DEF VolumeInv

LEMMA VolumeInvStep ==
  ASSUME V!Parameters, VolumeInv, [V!Next]_(V!vars)
  PROVE  VolumeInv'
<1>1. CASE UNCHANGED V!vars
  BY <1>1 DEF V!vars, VolumeInv, VolumeTyped, V!TypeOK, OneEach, Fits, NoneMade, Emptied, Ends,
              V!KeptForRetention, V!Removing, RemovalDated, InDate, ByLoop, V!Present
<1>2. CASE V!Next
  BY <1>2, CreateStep, DeleteStep, ForceDeleteStep, ReadsStep, VolumeWritesStep, ExecuteStep,
     ExecuteBlindStep, ExecuteFailsStep, ReportStep, ReportLostStep, VolumeTickStep DEF V!Next
<1>3. QED
  BY <1>1, <1>2

-----------------------------------------------------------------------------
LEMMA VolumeMove == Spec => V!Spec
<1>1. Init => V!Init
  BY DEF Init
<1>2. [Next]_vars => [V!Next]_(V!vars)
  BY DEF Next, vars, directories, rules, volumes, hotMounts, ports, updates, waits,
         V!vars
<1>3. QED
  BY <1>1, <1>2, PTL DEF Spec, V!Spec

LEMMA VolumeAlways == Spec => []VolumeInv
<1>1. V!Init => VolumeInv
  BY PlatformAssumption, VolumeInvInit
<1>2. VolumeInv /\ [V!Next]_(V!vars) => VolumeInv'
  BY PlatformAssumption, VolumeInvStep
<1>3. QED
  BY <1>1, <1>2, VolumeMove, PTL DEF V!Spec

(* An unused volume is cleaned up only when its user's last container was  *)
(* deleted Retention ago (the query of the cleanup loop), unless a create  *)
(* came in the middle of a removal or a row was removed by force.          *)
THEOREM VolumesAreKept == Spec => []KeptForRetention
<1>1. VolumeInv => KeptForRetention
  BY DEF VolumeInv, KeptForRetention
<1>2. QED
  BY <1>1, VolumeAlways, PTL

(* A row that says removing has a removal under way, and one that says     *)
(* removed has no volume (_finalize_workspace_volume_removal), unless a    *)
(* create or a force delete came between, or the removal could not list    *)
(* the pool, which is reported as done (executeRemoveUserWorkspaceVolume). *)
THEOREM RemovedMeansGone == Spec => []RowIsTrue
<1>1. VolumeInv => RowIsTrue
  BY DEF VolumeInv, Ends, Emptied, V!RowIsTrue, RowIsTrue
<1>2. QED
  BY <1>1, VolumeAlways, PTL

(* Types of the volume's row, the clock and the containers; an instance    *)
(* has its volume in the pool.                                             *)
THEOREM VolumeTypeOK == Spec => []V!TypeOK
<1>1. VolumeInv => V!TypeOK
  BY DEF VolumeInv, VolumeTyped
<1>2. QED
  BY <1>1, VolumeAlways, PTL
=============================================================================
