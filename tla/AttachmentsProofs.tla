-------------------------- MODULE AttachmentsProofs --------------------------
(***************************************************************************)
(* Theorems about what is attached to a container while it lives, and      *)
(* their proofs: the mounts of shared resources and the node's cache of    *)
(* them (Mounts, in Platform Y), then the ports (Ports, P).                *)
(***************************************************************************)
EXTENDS NodeProofs, UserDataProofs, Naturals, SequencesExt, FiniteSetTheorems, SequenceTheorems, TLAPS

(* Sequence r is s without the element at i; the later ones move up.       *)
MovesUp(r, s, i) ==
  /\ DOMAIN r = 1..(Len(s) - 1)
  /\ DOMAIN s = 1..Len(s) /\ Len(s) \in Nat /\ i \in 1..Len(s)
  /\ \A j \in 1..(Len(s) - 1) : r[j] = s[IF j < i THEN j ELSE j + 1]

LEMMA MovedUp ==
  ASSUME NEW T, NEW s \in Seq(T), NEW i \in DOMAIN s,
         NEW r, r = SubSeq(s, 1, i - 1) \o SubSeq(s, i + 1, Len(s))
  PROVE  r \in Seq(T) /\ MovesUp(r, s, i)
<1> DEFINE a == SubSeq(s, 1, i - 1)
           b == SubSeq(s, i + 1, Len(s))
<1>1. /\ Len(s) \in Nat /\ i \in 1..Len(s) /\ i \in Nat /\ DOMAIN s = 1..Len(s)
      /\ \A j \in 1..Len(s) : s[j] \in T
  BY LenProperties, ElementOfSeq
<1>2. /\ a \in Seq(T) /\ Len(a) = i - 1
      /\ \A j \in 1..(i - 1) : a[j] = s[j]
  <2>1. /\ a \in Seq(T) /\ Len(a) = IF 1 <= i - 1 THEN i - 1 - 1 + 1 ELSE 0
        /\ \A j \in 1..(i - 1 - 1 + 1) : a[j] = s[1 + j - 1]
    BY <1>1, SubSeqProperties
  <2>2. QED
    BY <1>1, <2>1
<1>3. /\ b \in Seq(T) /\ Len(b) = Len(s) - i
      /\ \A j \in 1..(Len(s) - i) : b[j] = s[i + j]
  <2>1. /\ b \in Seq(T) /\ Len(b) = IF i + 1 <= Len(s) THEN Len(s) - (i + 1) + 1 ELSE 0
        /\ \A j \in 1..(Len(s) - (i + 1) + 1) : b[j] = s[i + 1 + j - 1]
    BY <1>1, SubSeqProperties
  <2>2. QED
    BY <1>1, <2>1
<1>4. /\ r \in Seq(T) /\ Len(r) = Len(s) - 1
      /\ \A j \in 1..(Len(s) - 1) : r[j] = IF j <= i - 1 THEN a[j] ELSE b[j - (i - 1)]
  <2>1. /\ a \o b \in Seq(T) /\ Len(a \o b) = Len(a) + Len(b)
        /\ \A j \in 1..(Len(a) + Len(b)) :
             (a \o b)[j] = IF j <= Len(a) THEN a[j] ELSE b[j - Len(a)]
    BY <1>2, <1>3, ConcatProperties
  <2>2. r = a \o b
    OBVIOUS
  <2>3. Len(a) + Len(b) = Len(s) - 1 /\ Len(a) = i - 1
    BY <1>1, <1>2, <1>3
  <2> HIDE DEF a, b
  <2>4. QED
    BY <2>1, <2>2, <2>3
<1>5. DOMAIN r = 1..(Len(s) - 1)
  BY <1>4, LenProperties
<1> HIDE DEF a, b
<1>6. ASSUME NEW j \in 1..(Len(s) - 1)
      PROVE  r[j] = s[IF j < i THEN j ELSE j + 1]
  <2>1. CASE j < i
    BY <1>1, <1>2, <1>4, <2>1
  <2>2. CASE ~(j < i)
    <3>1. j - (i - 1) \in 1..(Len(s) - i) /\ i + (j - (i - 1)) = j + 1 /\ ~(j <= i - 1)
      BY <1>1, <2>2
    <3>2. r[j] = s[j + 1]
      BY <1>3, <1>4, <3>1
    <3>3. QED
      BY <1>1, <2>2, <3>2
  <2>3. QED
    BY <2>1, <2>2
<1>7. QED
  BY <1>1, <1>4, <1>5, <1>6 DEF MovesUp

(* Sequence r is s with m after it.                                        *)
Lengthens(r, s, m) ==
  /\ \A j \in DOMAIN s : j \in DOMAIN r /\ r[j] = s[j]
  /\ \A j \in DOMAIN r \ DOMAIN s : /\ \E l \in DOMAIN m : r[j] = m[l]
                                    /\ \A x \in DOMAIN s : x < j
  /\ \A l \in DOMAIN m : \E j \in DOMAIN r \ DOMAIN s : r[j] = m[l]

LEMMA Prolonged ==
  ASSUME NEW T, NEW s \in Seq(T), NEW m \in Seq(T), NEW r, r = s \o m
  PROVE  r \in Seq(T) /\ Lengthens(r, s, m)
<1>1. /\ Len(s) \in Nat /\ DOMAIN s = 1..Len(s) /\ Len(m) \in Nat /\ DOMAIN m = 1..Len(m)
  BY LenProperties
<1>2. /\ r \in Seq(T) /\ Len(r) = Len(s) + Len(m)
      /\ \A j \in 1..(Len(s) + Len(m)) : r[j] = IF j <= Len(s) THEN s[j] ELSE m[j - Len(s)]
  BY ConcatProperties
<1>3. DOMAIN r = 1..(Len(s) + Len(m))
  BY <1>2, LenProperties
<1>4. \A j \in DOMAIN s : j \in DOMAIN r /\ r[j] = s[j]
  BY <1>1, <1>2, <1>3
<1>5. ASSUME NEW j \in DOMAIN r \ DOMAIN s
      PROVE  /\ \E l \in DOMAIN m : r[j] = m[l]
             /\ \A x \in DOMAIN s : x < j
  <2>1. j - Len(s) \in DOMAIN m /\ ~(j <= Len(s)) /\ \A x \in DOMAIN s : x < j
    BY <1>1, <1>3, <1>5
  <2>2. r[j] = m[j - Len(s)]
    BY <1>2, <1>3, <2>1
  <2>3. QED
    BY <2>1, <2>2
<1>6. ASSUME NEW l \in DOMAIN m
      PROVE  \E j \in DOMAIN r \ DOMAIN s : r[j] = m[l]
  <2>1. l + Len(s) \in DOMAIN r \ DOMAIN s /\ ~(l + Len(s) <= Len(s)) /\ l + Len(s) - Len(s) = l
    BY <1>1, <1>3
  <2>2. r[l + Len(s)] = m[l]
    BY <1>2, <1>3, <2>1
  <2>3. QED
    BY <2>1, <2>2
<1>7. QED
  BY <1>2, <1>4, <1>5, <1>6 DEF Lengthens

-----------------------------------------------------------------------------
(* Mounts and the cache of shared resources                                *)

-----------------------------------------------------------------------------
Waiting == [res : Resource, of : Container \cup {0}, at : {"waiting"}]
Working == [res : Resource, of : Container \cup {0}, at : {"copying", "copied", "broken"}]

CacheTyped ==
  /\ cache \in [Resource -> {"none", "syncing", "ready", "failed"}]
  /\ whole \subseteq Resource
  /\ box_M \in [Container -> {"up", "busy", "gone"}]
  /\ copies \in Seq(Waiting)
  /\ doing_M \in [M!Worker -> Working \cup {M!NoCopy}]

(* A copy is for a container that is there, or it is known to be muddled;  *)
(* and one that ended well is complete, unless another has overlapped it.  *)
CopiesFit ==
  /\ \A i \in DOMAIN copies : copies[i].of = 0 \/ box_M[copies[i].of] # "gone"
  /\ \A w \in M!Worker : M!Busy(w) =>
       /\ doing_M[w].of = 0 \/ box_M[doing_M[w].of] # "gone" \/ doing_M[w].res \in muddled
       /\ doing_M[w].at = "copied" => doing_M[w].res \in whole \cup muddled

CacheInv == CacheTyped /\ CopiesFit /\ M!CacheIsTrue

LEMMA CacheKept ==
  ASSUME CacheInv, UNCHANGED <<cache, whole, box_M, copies, doing_M, muddled>>
  PROVE  CacheInv'
BY DEF CacheInv, CacheTyped, CopiesFit, M!CacheIsTrue, M!OpenCopy, M!Copying, M!Busy

LEMMA AtWork ==
  ASSUME CacheInv, NEW w \in M!Worker, M!Busy(w)
  PROVE  doing_M[w] \in Working
BY DEF CacheInv, CacheTyped, M!Busy, M!NoCopy

LEMMA CopiesTyped ==
  ASSUME CacheInv
  PROVE  \A i \in DOMAIN copies : copies[i] \in Waiting /\ copies[i].of \in Container \cup {0}
<1>1. copies \in Seq(Waiting)
  BY DEF CacheInv, CacheTyped
<1>2. \A i \in DOMAIN copies : copies[i] \in Waiting
  BY <1>1, ElementOfSeq, LenProperties
<1>3. QED
  BY <1>2 DEF Waiting

LEMMA Counts ==
  ASSUME M!Parameters, asked_M \in 0..MaxAsked_M, faults_M \in 0..MaxFaults
  PROVE  /\ M!Ask => asked_M' \in 0..MaxAsked_M
         /\ M!Fault => faults_M' \in 0..MaxFaults
BY DEF M!Parameters, M!Ask, M!Fault

-----------------------------------------------------------------------------
(* The node's cache *)

(* One or two more copies of r, at the end.                                *)
LEMMA SyncResourceStep ==
  ASSUME CacheInv, NEW r \in Resource, NEW c \in Container \cup {0}, M!SyncResource(r, c)
  PROVE  CacheInv'
<1> DEFINE one == M!Copy(r, c)
<1>1. /\ c = 0 \/ box_M[c] # "gone"
      /\ cache' = [cache EXCEPT ![r] = "syncing"]
      /\ copies' = Append(copies, one) \/ copies' = copies \o <<one, one>>
      /\ UNCHANGED <<whole, box_M, doing_M, muddled>>
  BY DEF M!SyncResource
<1>2. one \in Waiting /\ one.res = r /\ one.of = c
  BY DEF Waiting, M!Copy
<1>3. copies \in Seq(Waiting) /\ cache \in [Resource -> {"none", "syncing", "ready", "failed"}]
  BY DEF CacheInv, CacheTyped
<1> HIDE DEF one
<1>4. <<one>> \in Seq(Waiting) /\ <<one, one>> \in Seq(Waiting)
  BY <1>2
<1>5. PICK more \in Seq(Waiting) :
        /\ copies' = copies \o more
        /\ DOMAIN more # {} /\ \A l \in DOMAIN more : more[l] = one
  <2>1. Append(copies, one) = copies \o <<one>>
    BY <1>2, <1>3, AppendIsConcat
  <2>2. /\ DOMAIN <<one>> # {} /\ \A l \in DOMAIN <<one>> : <<one>>[l] = one
        /\ DOMAIN <<one, one>> # {} /\ \A l \in DOMAIN <<one, one>> : <<one, one>>[l] = one
    OBVIOUS
  <2>3. CASE copies' = copies \o <<one>>
    BY <1>4, <2>2, <2>3
  <2>4. CASE copies' = copies \o <<one, one>>
    BY <1>4, <2>2, <2>4
  <2>5. QED
    BY <1>1, <2>1, <2>3, <2>4
<1>6. copies' \in Seq(Waiting) /\ Lengthens(copies', copies, more)
  BY <1>3, <1>5, Prolonged
<1>7. /\ \A j \in DOMAIN copies : j \in DOMAIN copies' /\ copies'[j] = copies[j]
      /\ \A j \in DOMAIN copies' : j \in DOMAIN copies \/ copies'[j] = one
      /\ \E j \in DOMAIN copies' : copies'[j] = one
  <2>1. PICK l \in DOMAIN more : more[l] = one
    BY <1>5
  <2>2. QED
    BY <1>5, <1>6, <2>1 DEF Lengthens
<1>8. CacheTyped'
  BY <1>1, <1>3, <1>6 DEF CacheInv, CacheTyped
<1>9. CopiesFit'
  BY <1>1, <1>2, <1>7 DEF CacheInv, CopiesFit, M!Busy
<1>10. M!OpenCopy(r)' /\ \A q \in Resource : M!OpenCopy(q) => M!OpenCopy(q)'
  BY <1>1, <1>2, <1>7 DEF M!OpenCopy, M!Copying, M!Busy
<1>11. \A q \in Resource : q # r => cache'[q] = cache[q]
  BY <1>1, <1>3
<1>12. M!CacheIsTrue'
  BY <1>1, <1>10, <1>11 DEF CacheInv, M!CacheIsTrue
<1>13. QED
  BY <1>8, <1>9, <1>12 DEF CacheInv

LEMMA ClearCacheStep ==
  ASSUME CacheInv, NEW r \in Resource, M!ClearCache(r)
  PROVE  CacheInv'
<1>1. /\ cache' = [cache EXCEPT ![r] = "none"]
      /\ UNCHANGED <<whole, box_M, copies, doing_M, muddled>>
  BY DEF M!ClearCache
<1>2. CacheTyped' /\ CopiesFit'
  BY <1>1 DEF CacheInv, CacheTyped, CopiesFit, M!Busy
<1>3. \A q \in Resource : M!OpenCopy(q)' <=> M!OpenCopy(q)
  BY <1>1 DEF M!OpenCopy, M!Copying, M!Busy
<1>4. \A q \in Resource : cache'[q] = "none" \/ cache'[q] = cache[q]
  BY <1>1 DEF CacheInv, CacheTyped
<1>5. M!CacheIsTrue'
  BY <1>1, <1>3, <1>4 DEF CacheInv, M!CacheIsTrue
<1>6. QED
  BY <1>2, <1>5 DEF CacheInv

LEMMA CopyStartsStep ==
  ASSUME CacheInv, NEW w \in M!Worker, M!CopyStarts(w)
  PROVE  CacheInv'
<1> DEFINE h == Head(copies)
           one == [h EXCEPT !.at = "copying"]
<1>1. copies \in Seq(Waiting) /\ copies # <<>>
  BY DEF M!CopyStarts, CacheInv, CacheTyped
<1>2. /\ h \in Waiting /\ h = copies[1] /\ 1 \in DOMAIN copies
      /\ Tail(copies) \in Seq(Waiting)
      /\ \A i \in DOMAIN Tail(copies) : i + 1 \in DOMAIN copies /\ Tail(copies)[i] = copies[i + 1]
      /\ \A i \in DOMAIN copies : i = 1 \/ (i - 1 \in DOMAIN Tail(copies) /\ Tail(copies)[i - 1] = copies[i])
  <2>1. Len(copies) \in Nat \ {0} /\ DOMAIN copies = 1..Len(copies)
    BY <1>1, EmptySeq, LenProperties
  <2>2. /\ Tail(copies) \in Seq(Waiting) /\ Len(Tail(copies)) = Len(copies) - 1
        /\ \A i \in 1..Len(Tail(copies)) : Tail(copies)[i] = copies[i + 1]
        /\ Head(copies) = copies[1] /\ Head(copies) \in Waiting
    BY <1>1, HeadTailProperties
  <2>3. DOMAIN Tail(copies) = 1..(Len(copies) - 1)
    BY <2>2, LenProperties
  <2>4. \A i \in DOMAIN Tail(copies) : i + 1 \in DOMAIN copies /\ Tail(copies)[i] = copies[i + 1]
    BY <2>1, <2>2, <2>3
  <2>5. ASSUME NEW i \in DOMAIN copies, i # 1
        PROVE  i - 1 \in DOMAIN Tail(copies) /\ Tail(copies)[i - 1] = copies[i]
    <3>1. i - 1 \in 1..Len(Tail(copies)) /\ i - 1 + 1 = i
      BY <2>1, <2>2, <2>5
    <3>2. QED
      BY <2>2, <2>3, <3>1
  <2>6. QED
    BY <2>1, <2>2, <2>4, <2>5
<1>3. /\ ~M!Busy(w) /\ doing_M' = [doing_M EXCEPT ![w] = one]
      /\ whole' = whole \ {h.res}
      /\ muddled' = IF M!Copying(h.res) THEN muddled \cup {h.res} ELSE muddled
      /\ copies' = Tail(copies) /\ UNCHANGED <<cache, box_M>>
  BY DEF M!CopyStarts
<1>4. one \in Working /\ one.res = h.res /\ one.of = h.of /\ one.at = "copying"
  BY <1>2 DEF Waiting, Working
<1>5. h.of = 0 \/ box_M[h.of] # "gone"
  BY <1>2 DEF CacheInv, CopiesFit
<1>6. doing_M \in [M!Worker -> Working \cup {M!NoCopy}]
  BY DEF CacheInv, CacheTyped
<1> HIDE DEF h, one
<1>15. PICK r \in Resource : r = h.res
  BY <1>2 DEF Waiting
<1>7. CacheTyped'
  BY <1>2, <1>3, <1>4, <1>6 DEF CacheInv, CacheTyped
<1>8. ASSUME NEW v \in M!Worker, M!Busy(v)'
      PROVE  /\ doing_M'[v].of = 0 \/ box_M'[doing_M'[v].of] # "gone" \/ doing_M'[v].res \in muddled'
             /\ doing_M'[v].at = "copied" => doing_M'[v].res \in whole' \cup muddled'
  <2>1. CASE v = w
    BY <1>3, <1>4, <1>5, <1>6, <2>1
  <2>2. CASE v # w
    <3>1. doing_M'[v] = doing_M[v] /\ M!Busy(v)
      BY <1>3, <1>6, <1>8, <2>2 DEF M!Busy
    <3>2. doing_M[v].res = h.res => h.res \in muddled'
      BY <1>3, <3>1 DEF M!Copying
    <3>3. muddled \subseteq muddled'
      BY <1>3
    <3>4. QED
      BY <1>3, <3>1, <3>2, <3>3 DEF CacheInv, CopiesFit
  <2>3. QED
    BY <2>1, <2>2
<1>9. CopiesFit'
  BY <1>2, <1>3, <1>8 DEF CacheInv, CopiesFit
<1>10. M!Copying(r)'
  BY <1>3, <1>4, <1>6, <1>15 DEF M!Copying, M!Busy
<1>11. \A v \in M!Worker : M!Busy(v) => M!Busy(v)' /\ doing_M'[v] = doing_M[v]
  BY <1>3, <1>6 DEF M!Busy
<1>12. ASSUME NEW q \in Resource, M!OpenCopy(q) PROVE M!OpenCopy(q)'
  <2>1. CASE q = r
    BY <1>10, <2>1 DEF M!OpenCopy
  <2>2. CASE q # r /\ M!Copying(q)
    BY <1>11, <2>2 DEF M!OpenCopy, M!Copying
  <2>3. CASE q # r /\ \E i \in DOMAIN copies : copies[i].res = q
    BY <1>2, <1>3, <1>15, <2>3 DEF M!OpenCopy
  <2>4. QED
    BY <1>12, <2>1, <2>2, <2>3 DEF M!OpenCopy
<1>13. M!CacheIsTrue'
  <2> SUFFICES ASSUME NEW q \in Resource \ muddled'
               PROVE  /\ cache'[q] = "syncing" => M!OpenCopy(q)'
                      /\ cache'[q] = "ready" => q \in whole' \/ M!OpenCopy(q)'
    BY DEF M!CacheIsTrue
  <2>1. q \notin muddled
    BY <1>3
  <2>2. M!OpenCopy(r)'
    BY <1>10 DEF M!OpenCopy
  <2>3. QED
    BY <1>3, <1>12, <1>15, <2>1, <2>2 DEF CacheInv, M!CacheIsTrue
<1>14. QED
  BY <1>7, <1>9, <1>13 DEF CacheInv

LEMMA CopyEndsStep ==
  ASSUME CacheInv, NEW w \in M!Worker, M!CopyEnds(w)
  PROVE  CacheInv'
<1> DEFINE r == doing_M[w].res
<1>1. M!Busy(w) /\ doing_M[w].at = "copying"
  BY DEF M!CopyEnds, M!Busy
<1>2. doing_M[w] \in Working /\ r \in Resource
  BY <1>1, AtWork DEF Working
<1>3. PICK a \in {"copied", "broken"} : /\ doing_M' = [doing_M EXCEPT ![w].at = a]
                                        /\ a = "copied" => whole' = whole \cup {r}
                                        /\ a = "broken" => whole' = whole
  BY DEF M!CopyEnds
<1>4. UNCHANGED <<cache, box_M, copies, muddled>>
  BY DEF M!CopyEnds
<1>5. doing_M \in [M!Worker -> Working \cup {M!NoCopy}]
  BY DEF CacheInv, CacheTyped
<1>6. /\ doing_M' \in [M!Worker -> Working \cup {M!NoCopy}]
      /\ \A v \in M!Worker : v # w => doing_M'[v] = doing_M[v]
      /\ doing_M'[w].res = r /\ doing_M'[w].of = doing_M[w].of /\ doing_M'[w].at = a
  BY <1>2, <1>3, <1>5 DEF Working
<1>7. whole \subseteq whole' /\ whole' \subseteq Resource
  BY <1>2, <1>3 DEF CacheInv, CacheTyped
<1>8. CacheTyped'
  BY <1>4, <1>6, <1>7 DEF CacheInv, CacheTyped
<1>9. CopiesFit'
  BY <1>1, <1>3, <1>4, <1>6, <1>7 DEF CacheInv, CopiesFit, M!Busy
<1>10. \A q \in Resource : M!OpenCopy(q) => M!OpenCopy(q)'
  BY <1>1, <1>4, <1>6 DEF M!OpenCopy, M!Copying, M!Busy
<1>11. M!CacheIsTrue'
  BY <1>4, <1>7, <1>10 DEF CacheInv, M!CacheIsTrue
<1>12. QED
  BY <1>8, <1>9, <1>11 DEF CacheInv

(* A worker is done with its copy: the row has said so, or is muddled.     *)
LEMMA WorkerFree ==
  ASSUME CacheInv, NEW w \in M!Worker, M!Busy(w), doing_M' = [doing_M EXCEPT ![w] = M!NoCopy],
         UNCHANGED <<whole, box_M, copies, muddled>>,
         cache' \in [Resource -> {"none", "syncing", "ready", "failed"}],
         \A q \in Resource : q # doing_M[w].res => cache'[q] = cache[q],
         \/ doing_M[w].res \in muddled
         \/ cache'[doing_M[w].res] \in {"none", "failed"}
         \/ doing_M[w].res \in whole /\ cache'[doing_M[w].res] # "syncing"
  PROVE  CacheInv'
<1> DEFINE r == doing_M[w].res
<1>1. doing_M \in [M!Worker -> Working \cup {M!NoCopy}] /\ r \in Resource
  BY AtWork DEF CacheInv, CacheTyped, Working
<1>2. /\ doing_M' \in [M!Worker -> Working \cup {M!NoCopy}]
      /\ \A v \in M!Worker : v # w => doing_M'[v] = doing_M[v]
      /\ ~M!Busy(w)'
  BY <1>1 DEF M!Busy, M!NoCopy
<1>3. CacheTyped'
  BY <1>2 DEF CacheInv, CacheTyped
<1>4. CopiesFit'
  BY <1>2 DEF CacheInv, CopiesFit, M!Busy
<1>5. \A q \in Resource : q # r /\ M!OpenCopy(q) => M!OpenCopy(q)'
  BY <1>2 DEF M!OpenCopy, M!Copying, M!Busy
<1>6. ASSUME NEW q \in Resource \ muddled
      PROVE  /\ cache'[q] = "syncing" => M!OpenCopy(q)'
             /\ cache'[q] = "ready" => q \in whole \/ M!OpenCopy(q)'
  <2>1. CASE q = r
    BY <1>6, <2>1
  <2>2. CASE q # r
    BY <1>5, <1>6, <2>2 DEF CacheInv, M!CacheIsTrue
  <2>3. QED
    BY <2>1, <2>2
<1>7. M!CacheIsTrue'
  BY <1>6 DEF M!CacheIsTrue
<1>8. QED
  BY <1>3, <1>4, <1>7 DEF CacheInv

LEMMA CopyFailsStep ==
  ASSUME CacheInv, NEW w \in M!Worker, M!CopyFails(w)
  PROVE  CacheInv'
<1>1. /\ M!Busy(w) /\ cache' = M!Update(doing_M[w].res, "failed")
      /\ doing_M' = [doing_M EXCEPT ![w] = M!NoCopy]
      /\ UNCHANGED <<whole, box_M, copies, muddled>>
  BY DEF M!CopyFails, M!Busy
<1>2. doing_M[w].res \in Resource /\ cache \in [Resource -> {"none", "syncing", "ready", "failed"}]
  BY <1>1, AtWork DEF Working, CacheInv, CacheTyped
<1>3. /\ cache' \in [Resource -> {"none", "syncing", "ready", "failed"}]
      /\ \A q \in Resource : q # doing_M[w].res => cache'[q] = cache[q]
      /\ cache'[doing_M[w].res] \in {"none", "failed"}
  BY <1>1, <1>2 DEF M!Update
<1>4. QED
  BY <1>1, <1>3, WorkerFree

LEMMA CopyRefusedStep ==
  ASSUME CacheInv, NEW w \in M!Worker, M!CopyRefused(w)
  PROVE  CacheInv'
<1>1. /\ M!Busy(w) /\ ~M!Kept(w) /\ doing_M' = [doing_M EXCEPT ![w] = M!NoCopy]
      /\ UNCHANGED <<cache, whole, box_M, copies, muddled>>
  BY DEF M!CopyRefused, M!Busy
<1>2. doing_M[w].of \in Container \cup {0}
  BY <1>1, AtWork DEF Working
<1>3. doing_M[w].res \in muddled
  BY <1>1, <1>2 DEF M!Kept, CacheInv, CopiesFit
<1>4. cache' \in [Resource -> {"none", "syncing", "ready", "failed"}]
  BY <1>1 DEF CacheInv, CacheTyped
<1>5. QED
  BY <1>1, <1>3, <1>4, WorkerFree

LEMMA CopySucceedsCache ==
  ASSUME CacheInv, NEW w \in M!Worker, M!CopySucceeds(w)
  PROVE  CacheInv'
<1>1. /\ M!Busy(w) /\ doing_M[w].at = "copied" /\ cache' = M!Update(doing_M[w].res, "ready")
      /\ doing_M' = [doing_M EXCEPT ![w] = M!NoCopy]
      /\ UNCHANGED <<whole, box_M, copies, muddled>>
  BY DEF M!CopySucceeds, M!Busy
<1>2. doing_M[w].res \in Resource /\ cache \in [Resource -> {"none", "syncing", "ready", "failed"}]
  BY <1>1, AtWork DEF Working, CacheInv, CacheTyped
<1>3. /\ cache' \in [Resource -> {"none", "syncing", "ready", "failed"}]
      /\ \A q \in Resource : q # doing_M[w].res => cache'[q] = cache[q]
      /\ cache'[doing_M[w].res] \in {"none", "ready"}
  BY <1>1, <1>2 DEF M!Update
<1>4. doing_M[w].res \in whole \/ doing_M[w].res \in muddled
  BY <1>1 DEF CacheInv, CopiesFit
<1>5. QED
  BY <1>1, <1>3, <1>4, WorkerFree

LEMMA CopyReportLostStep ==
  ASSUME CacheInv, NEW w \in M!Worker, M!CopyReportLost(w)
  PROVE  CacheInv'
<1> DEFINE one == [doing_M[w] EXCEPT !.at = "waiting"]
<1>1. /\ M!Busy(w) /\ M!Kept(w)
      /\ copies' = <<one>> \o copies
      /\ doing_M' = [doing_M EXCEPT ![w] = M!NoCopy]
      /\ UNCHANGED <<cache, whole, box_M, muddled>>
  BY DEF M!CopyReportLost, M!Busy
<1>2. doing_M[w] \in Working
  BY <1>1, AtWork
<1>3. one \in Waiting /\ one.res = doing_M[w].res /\ one.of = doing_M[w].of
  BY <1>2 DEF Waiting, Working
<1>4. one.of = 0 \/ box_M[one.of] # "gone"
  BY <1>1, <1>3 DEF M!Kept
<1> HIDE DEF one
<1>5. <<one>> \in Seq(Waiting) /\ copies \in Seq(Waiting)
  BY <1>3 DEF CacheInv, CacheTyped
<1>6. copies' \in Seq(Waiting) /\ Lengthens(copies', <<one>>, copies)
  BY <1>1, <1>5, Prolonged
<1>7. DOMAIN <<one>> = {1} /\ <<one>>[1] = one
  OBVIOUS
<1>8. /\ \E j \in DOMAIN copies' : copies'[j] = one
      /\ \A j \in DOMAIN copies' : copies'[j] = one \/ \E i \in DOMAIN copies : copies'[j] = copies[i]
      /\ \A i \in DOMAIN copies : \E j \in DOMAIN copies' : copies'[j] = copies[i]
  BY <1>6, <1>7 DEF Lengthens
<1>9. doing_M \in [M!Worker -> Working \cup {M!NoCopy}]
  BY DEF CacheInv, CacheTyped
<1>10. /\ doing_M' \in [M!Worker -> Working \cup {M!NoCopy}]
       /\ \A v \in M!Worker : v # w => doing_M'[v] = doing_M[v]
       /\ ~M!Busy(w)'
  BY <1>1, <1>9 DEF M!Busy, M!NoCopy
<1>11. CacheTyped'
  BY <1>1, <1>6, <1>10 DEF CacheInv, CacheTyped
<1>12. CopiesFit'
  <2>1. \A j \in DOMAIN copies' : copies'[j].of = 0 \/ box_M'[copies'[j].of] # "gone"
    BY <1>1, <1>4, <1>8 DEF CacheInv, CopiesFit
  <2>2. \A v \in M!Worker : M!Busy(v)' =>
          /\ doing_M'[v].of = 0 \/ box_M'[doing_M'[v].of] # "gone" \/ doing_M'[v].res \in muddled'
          /\ doing_M'[v].at = "copied" => doing_M'[v].res \in whole' \cup muddled'
    BY <1>1, <1>10 DEF CacheInv, CopiesFit, M!Busy
  <2>3. QED
    BY <2>1, <2>2 DEF CopiesFit
<1>13. ASSUME NEW q \in Resource, M!OpenCopy(q) PROVE M!OpenCopy(q)'
  <2>1. CASE \E i \in DOMAIN copies : copies[i].res = q
    BY <1>8, <2>1 DEF M!OpenCopy
  <2>2. CASE doing_M[w].res = q
    BY <1>3, <1>8, <2>2 DEF M!OpenCopy
  <2>3. CASE \E v \in M!Worker \ {w} : M!Busy(v) /\ doing_M[v].res = q
    BY <1>10, <2>3 DEF M!OpenCopy, M!Copying, M!Busy
  <2>4. QED
    BY <1>13, <2>1, <2>2, <2>3 DEF M!OpenCopy, M!Copying
<1>14. M!CacheIsTrue'
  BY <1>1, <1>13 DEF CacheInv, M!CacheIsTrue
<1>15. QED
  BY <1>11, <1>12, <1>14 DEF CacheInv

LEMMA OperateStep ==
  ASSUME CacheInv, NEW c \in Container, M!Operate(c)
  PROVE  CacheInv'
<1>1. /\ box_M[c] \in {"up", "busy"}
      /\ \E s \in {"up", "busy"} : box_M' = [box_M EXCEPT ![c] = s]
      /\ UNCHANGED <<cache, whole, copies, doing_M, muddled>>
  BY DEF M!Operate
<1>2. /\ box_M' \in [Container -> {"up", "busy", "gone"}]
      /\ \A k \in Container : box_M'[k] = "gone" <=> box_M[k] = "gone"
  BY <1>1 DEF CacheInv, CacheTyped
<1>3. \A i \in DOMAIN copies : copies[i].of \in Container \cup {0}
  BY CopiesTyped
<1>4. \A v \in M!Worker : M!Busy(v) => doing_M[v].of \in Container \cup {0}
  BY AtWork DEF Working
<1>5. CacheTyped'
  BY <1>1, <1>2 DEF CacheInv, CacheTyped
<1>6. CopiesFit'
  BY <1>1, <1>2, <1>3, <1>4 DEF CacheInv, CopiesFit, M!Busy
<1>7. M!CacheIsTrue'
  BY <1>1 DEF CacheInv, M!CacheIsTrue, M!OpenCopy, M!Copying, M!Busy
<1>8. QED
  BY <1>5, <1>6, <1>7 DEF CacheInv

-----------------------------------------------------------------------------
(* What Mounts and Ports have from the standard modules is what is used    *)
(* here.                                                                   *)
LEMMA SameLists ==
  /\ \A Q : (M!IsFiniteSet(Q) <=> IsFiniteSet(Q)) /\ (P!IsFiniteSet(Q) <=> IsFiniteSet(Q))
  /\ \A Q : M!SetToSeqs(Q) = SetToSeqs(Q) /\ P!SetToSeqs(Q) = SetToSeqs(Q)
<1>1. \A Q : (M!IsFiniteSet(Q) <=> IsFiniteSet(Q)) /\ (P!IsFiniteSet(Q) <=> IsFiniteSet(Q))
  BY DEF M!IsFiniteSet, P!IsFiniteSet, IsFiniteSet
<1>2. ASSUME NEW Q PROVE M!SetToSeqs(Q) = SetToSeqs(Q) /\ P!SetToSeqs(Q) = SetToSeqs(Q)
  <2>1. M!Cardinality(Q) = Cardinality(Q) /\ P!Cardinality(Q) = Cardinality(Q)
    BY DEF M!Cardinality, P!Cardinality, Cardinality
  <2>2. QED
    BY <2>1 DEF M!SetToSeqs, P!SetToSeqs, SetToSeqs
<1>3. QED
  BY <1>1, <1>2

(* A list of the elements of a finite set has each of them.                *)
LEMMA ListsAll ==
  ASSUME NEW Q, IsFiniteSet(Q), NEW f \in SetToSeqs(Q)
  PROVE  /\ Cardinality(Q) \in Nat /\ f \in [1..Cardinality(Q) -> Q]
         /\ \A x \in Q : \E i \in 1..Cardinality(Q) : f[i] = x
<1> DEFINE n == Cardinality(Q)
<1>1. n \in Nat
  BY FS_CardinalityType
<1>2. f \in [1..n -> Q] /\ \A i, j \in 1..n : i # j => f[i] # f[j]
  BY DEF SetToSeqs
<1>3. f \in Injection(1..n, Q)
  BY <1>2 DEF Injection, IsInjective
<1>4. IsFiniteSet(1..n) /\ Cardinality(1..n) = n
  <2>1. IsFiniteSet(1..n) /\ Cardinality(1..n) = IF 1 > n THEN 0 ELSE n - 1 + 1
    BY <1>1, FS_Interval
  <2>2. QED
    BY <1>1, <2>1
<1>5. f \in Surjection(1..n, Q)
  BY <1>3, <1>4, FS_Injection
<1>6. QED
  BY <1>1, <1>2, <1>5 DEF Surjection

(* Sequence r is s without the elements of c.                              *)
Spares(r, s, c) ==
  /\ \A j \in DOMAIN r : \E k \in M!Others(s, c) :
       /\ r[j] = s[k]
       /\ \A m \in M!Others(s, c) : m > k => \E i \in DOMAIN r : i > j /\ r[i] = s[m]
  /\ \A k \in M!Others(s, c) : \E j \in DOMAIN r : r[j] = s[k]

LEMMA SparedOthers ==
  ASSUME NEW T, NEW s \in Seq(T), NEW c, NEW r \in M!Spared(s, c)
  PROVE  r \in Seq(T) /\ Spares(r, s, c)
<1> DEFINE Q == M!Others(s, c)
           n == Cardinality(Q)
<1>1. Q \subseteq 1..Len(s) /\ Len(s) \in Nat /\ \A k \in Q : s[k] \in T /\ k \in Nat
  BY LenProperties, ElementOfSeq DEF M!Others
<1>2. IsFiniteSet(Q)
  <2>1. IsFiniteSet(1..Len(s))
    BY <1>1, FS_Interval
  <2>2. QED
    BY <1>1, <2>1, FS_Subset
<1>3. PICK f \in SetToSeqs(Q) : M!InOrder(f) /\ r = [i \in DOMAIN f |-> s[f[i]]]
  BY SameLists DEF M!Spared
<1>4. n \in Nat /\ f \in [1..n -> Q] /\ \A x \in Q : \E i \in 1..n : f[i] = x
  BY <1>2, ListsAll
<1> HIDE DEF n
<1>5. r \in [1..n -> T] /\ \A i \in 1..n : r[i] = s[f[i]]
  BY <1>1, <1>3, <1>4
<1> HIDE DEF Q
<1>6. r \in Seq(T) /\ DOMAIN r = 1..n
  BY <1>4, <1>5, SeqDef
<1>7. ASSUME NEW j \in 1..n, NEW m \in Q, m > f[j]
      PROVE  \E i \in 1..n : i > j /\ r[i] = s[m]
  <2>1. PICK i \in 1..n : f[i] = m
    BY <1>4
  <2>2. i < j => f[i] < f[j]
    BY <1>3, <1>4 DEF M!InOrder
  <2>3. f[i] \in Nat /\ f[j] \in Nat
    BY <1>1, <1>4
  <2>4. i > j
    BY <1>7, <2>1, <2>2, <2>3
  <2>5. QED
    BY <1>5, <2>1, <2>4
<1>8. \A k \in Q : \E j \in 1..n : r[j] = s[k]
  BY <1>4, <1>5
<1>9. \A j \in 1..n : f[j] \in Q /\ r[j] = s[f[j]]
  BY <1>4, <1>5
<1>10. \A j \in 1..n : \E k \in Q :
         /\ r[j] = s[k]
         /\ \A m \in Q : m > k => \E i \in 1..n : i > j /\ r[i] = s[m]
  BY <1>7, <1>9
<1>11. Spares(r, s, c)
  <2>1. \A j \in DOMAIN r : \E k \in Q :
          /\ r[j] = s[k]
          /\ \A m \in Q : m > k => \E i \in DOMAIN r : i > j /\ r[i] = s[m]
    BY <1>6, <1>10
  <2>2. \A k \in Q : \E j \in DOMAIN r : r[j] = s[k]
    BY <1>6, <1>8
  <2>3. QED
    BY <2>1, <2>2, Zenon DEF Spares, Q
<1>12. QED
  BY <1>6, <1>11

LEMMA RemoveContainerCache ==
  ASSUME CacheInv, NEW c \in Container, M!RemoveContainer(c), 0 \notin Container
  PROVE  CacheInv'
<1>1. /\ box_M' = [box_M EXCEPT ![c] = "gone"] /\ copies' \in M!Spared(copies, c)
      /\ muddled' = muddled \cup {copies[i].res : i \in {j \in DOMAIN copies : copies[j].of = c}}
                            \cup {doing_M[w].res : w \in {v \in M!Worker : M!Busy(v) /\ doing_M[v].of = c}}
      /\ UNCHANGED <<cache, whole, doing_M>>
  BY DEF M!RemoveContainer
<1>2. copies \in Seq(Waiting) /\ copies' \in Seq(Waiting) /\ Spares(copies', copies, c)
  BY <1>1, SparedOthers DEF CacheInv, CacheTyped
<1>3. /\ \A j \in DOMAIN copies' : \E k \in DOMAIN copies : copies'[j] = copies[k] /\ copies[k].of # c
      /\ \A k \in DOMAIN copies : copies[k].of # c => \E j \in DOMAIN copies' : copies'[j] = copies[k]
  BY <1>2 DEF Spares, M!Others
<1>4. /\ box_M' \in [Container -> {"up", "busy", "gone"}]
      /\ \A k \in Container \cup {0} : k # c => box_M'[k] = box_M[k]
  BY <1>1 DEF CacheInv, CacheTyped
<1>5. muddled \subseteq muddled'
  BY <1>1
<1>6. CacheTyped'
  BY <1>1, <1>2, <1>4 DEF CacheInv, CacheTyped
<1>7. \A i \in DOMAIN copies : copies[i].of \in Container \cup {0}
  BY CopiesTyped
<1>8. \A j \in DOMAIN copies' : copies'[j].of = 0 \/ box_M'[copies'[j].of] # "gone"
  <2> SUFFICES ASSUME NEW j \in DOMAIN copies'
               PROVE  copies'[j].of = 0 \/ box_M'[copies'[j].of] # "gone"
    OBVIOUS
  <2>1. PICK k \in DOMAIN copies : copies'[j] = copies[k] /\ copies[k].of # c
    BY <1>3
  <2>2. QED
    BY <1>4, <1>7, <2>1 DEF CacheInv, CopiesFit
<1>9. ASSUME NEW v \in M!Worker, M!Busy(v)
      PROVE  /\ doing_M[v].of = 0 \/ box_M'[doing_M[v].of] # "gone" \/ doing_M[v].res \in muddled'
             /\ doing_M[v].at = "copied" => doing_M[v].res \in whole \cup muddled'
  <2>1. doing_M[v].of \in Container \cup {0}
    BY <1>9, AtWork DEF Working
  <2>2. doing_M[v].of = c => doing_M[v].res \in muddled'
    BY <1>1, <1>9
  <2>3. QED
    BY <1>4, <1>5, <1>9, <2>1, <2>2 DEF CacheInv, CopiesFit
<1>10. CopiesFit'
  BY <1>1, <1>8, <1>9 DEF CopiesFit, M!Busy
<1>11. ASSUME NEW q \in Resource \ muddled', M!OpenCopy(q)
       PROVE  M!OpenCopy(q)'
  <2>1. CASE M!Copying(q)
    BY <1>1, <2>1 DEF M!OpenCopy, M!Copying, M!Busy
  <2>2. CASE \E i \in DOMAIN copies : copies[i].res = q
    <3>1. PICK i \in DOMAIN copies : copies[i].res = q
      BY <2>2
    <3>2. copies[i].of # c
      BY <1>1, <1>11, <3>1
    <3>3. QED
      BY <1>3, <3>1, <3>2 DEF M!OpenCopy
  <2>3. QED
    BY <1>11, <2>1, <2>2 DEF M!OpenCopy
<1>12. M!CacheIsTrue'
  BY <1>1, <1>5, <1>11 DEF CacheInv, M!CacheIsTrue
<1>13. QED
  BY <1>6, <1>10, <1>12 DEF CacheInv

-----------------------------------------------------------------------------
(* The devices *)

Sets(Q) == UNION {[X -> Q] : X \in SUBSET Resource}
Order == [of : Container, set : Sets(M!Source), lost : BOOLEAN]
Request ==
  [of : Container, was : [Resource -> M!Source], set : [Resource -> M!Source],
   keep : Sets({"none", "nfs", "cache"}), add : SUBSET Resource, drop : SUBSET Resource,
   todo : Sets(M!Source)]

DevicesTyped ==
  /\ mounts \in [Container -> [Resource -> M!Source]]
  /\ managed \in [Container -> [Resource -> {"none", "nfs", "cache"}]]
  /\ linked \in [Container -> SUBSET Resource]
  /\ device_M \in [Container -> [Resource -> M!Source]]
  /\ tasks_M \in Seq(Order) /\ drafts_M \subseteq Request

(* What a request changes of the list that it has read is what its task    *)
(* sets.                                                                   *)
RequestsFit ==
  \A d \in drafts_M : \A r \in Resource :
    d.set[r] = IF r \in DOMAIN d.todo THEN d.todo[r] ELSE d.was[r]

(* The open tasks that set the mount r of c, of which the newest sets what *)
(* is listed.                                                              *)
Settings(c, r) == {i \in DOMAIN tasks_M : tasks_M[i].of = c /\ r \in DOMAIN tasks_M[i].set}
NewestSets(c, r, l) ==
  \A i \in Settings(c, r) : tasks_M[i].set[r] = l \/ \E j \in Settings(c, r) : j > i
Follows(c, r) ==
  /\ Settings(c, r) = {} => device_M[c][r] = mounts[c][r]
  /\ NewestSets(c, r, mounts[c][r])
ListsFollowed == \A c \in Container, r \in Resource : <<c, r>> \in astray_M \/ Follows(c, r)

DeviceInv == DevicesTyped /\ RequestsFit /\ ListsFollowed

LEMMA DevicesKept ==
  ASSUME DeviceInv, UNCHANGED <<mounts, managed, linked, device_M, tasks_M, drafts_M, astray_M>>
  PROVE  DeviceInv'
BY DEF DeviceInv, DevicesTyped, RequestsFit, ListsFollowed, Follows, NewestSets, Settings

LEMMA FollowedKept ==
  ASSUME ListsFollowed, UNCHANGED <<mounts, device_M, tasks_M, astray_M>>
  PROVE  ListsFollowed'
<1>1. \A c \in Container, r \in Resource : Settings(c, r)' = Settings(c, r)
  BY DEF Settings
<1>2. ASSUME NEW c \in Container, NEW r \in Resource, Follows(c, r) PROVE Follows(c, r)'
  BY <1>1, <1>2 DEF Follows, NewestSets
<1>3. QED
  BY <1>2 DEF ListsFollowed

LEMMA TasksTyped ==
  ASSUME DeviceInv
  PROVE  /\ tasks_M \in Seq(Order)
         /\ \A i \in DOMAIN tasks_M : tasks_M[i] \in Order /\ i \in Nat
<1>1. tasks_M \in Seq(Order)
  BY DEF DeviceInv, DevicesTyped
<1>2. QED
  BY <1>1, ElementOfSeq, LenProperties

(* More tasks at the end.                                                  *)
Told(more, c, r) == {i \in DOMAIN more : more[i].of = c /\ r \in DOMAIN more[i].set}

LEMMA TasksAdded ==
  ASSUME DeviceInv, NEW more \in Seq(Order), tasks_M' = tasks_M \o more,
         NEW c, NEW r, NEW l,
         \A i \in Told(more, c, r) : more[i].set[r] = l,
         NewestSets(c, r, l) \/ Told(more, c, r) # {}
  PROVE  /\ tasks_M' \in Seq(Order) /\ NewestSets(c, r, l)'
         /\ Settings(c, r)' = {} => Settings(c, r) = {} /\ Told(more, c, r) = {}
<1>1. tasks_M' \in Seq(Order) /\ Lengthens(tasks_M', tasks_M, more)
  BY TasksTyped, Prolonged
<1>2. /\ \A j \in DOMAIN tasks_M : j \in DOMAIN tasks_M' /\ tasks_M'[j] = tasks_M[j]
      /\ \A j \in DOMAIN tasks_M' \ DOMAIN tasks_M : /\ \E i \in DOMAIN more : tasks_M'[j] = more[i]
                                                 /\ \A x \in DOMAIN tasks_M : x < j
      /\ \A i \in DOMAIN more : \E j \in DOMAIN tasks_M' \ DOMAIN tasks_M : tasks_M'[j] = more[i]
  BY <1>1 DEF Lengthens
<1>3. \A j \in Settings(c, r) : j \in Settings(c, r)' /\ tasks_M'[j] = tasks_M[j]
  BY <1>2 DEF Settings
<1>4. \A j \in Settings(c, r)' : j \in Settings(c, r) \/ (j \notin DOMAIN tasks_M /\ tasks_M'[j].set[r] = l)
  BY <1>2 DEF Settings, Told
<1>5. Told(more, c, r) # {} => \E j \in Settings(c, r)' : j \notin DOMAIN tasks_M
  <2> SUFFICES ASSUME NEW i \in Told(more, c, r)
               PROVE  \E j \in Settings(c, r)' : j \notin DOMAIN tasks_M
    OBVIOUS
  <2>1. PICK j \in DOMAIN tasks_M' \ DOMAIN tasks_M : tasks_M'[j] = more[i]
    BY <1>2 DEF Told
  <2>2. j \in Settings(c, r)'
    BY <2>1 DEF Settings, Told
  <2>3. QED
    BY <2>1, <2>2
<1>6. \A j \in DOMAIN tasks_M' \ DOMAIN tasks_M : \A x \in Settings(c, r) : x < j
  BY <1>2 DEF Settings
<1>7. \A x, j \in DOMAIN tasks_M' : x < j => j > x
  BY <1>1, LenProperties
<1>8. NewestSets(c, r, l)'
  <2> SUFFICES ASSUME NEW x \in Settings(c, r)', tasks_M'[x].set[r] # l
               PROVE  \E j \in Settings(c, r)' : j > x
    BY DEF NewestSets
  <2>1. x \in Settings(c, r) /\ tasks_M[x].set[r] # l
    BY <1>3, <1>4
  <2>2. CASE NewestSets(c, r, l)
    BY <1>3, <2>1, <2>2 DEF NewestSets
  <2>3. CASE Told(more, c, r) # {}
    <3>1. PICK j \in Settings(c, r)' : j \notin DOMAIN tasks_M
      BY <1>5, <2>3
    <3>2. j \in DOMAIN tasks_M' /\ x \in DOMAIN tasks_M'
      BY DEF Settings
    <3>3. x < j
      BY <1>6, <2>1, <3>1, <3>2
    <3>4. QED
      BY <1>7, <3>1, <3>2, <3>3
  <2>4. QED
    BY <2>2, <2>3
<1>9. QED
  BY <1>1, <1>3, <1>5, <1>8

(* Task i was taken out of the queue; of those that set the mount r of c   *)
(* it is the oldest, or none.                                              *)
FirstOf(c, r, i) == i \notin Settings(c, r) \/ \A j \in Settings(c, r) : i <= j

LEMMA TaskTakenOut ==
  ASSUME DeviceInv, NEW i \in DOMAIN tasks_M, tasks_M' = M!Without(i), NEW c, NEW r, NEW l,
         FirstOf(c, r, i), NewestSets(c, r, l)
  PROVE  (Settings(c, r)' = {} => Settings(c, r) \subseteq {i}) /\ NewestSets(c, r, l)'
<1>2. /\ DOMAIN tasks_M' = 1..(Len(tasks_M) - 1) /\ DOMAIN tasks_M = 1..Len(tasks_M)
      /\ Len(tasks_M) \in Nat /\ i \in 1..Len(tasks_M)
      /\ \A j \in 1..(Len(tasks_M) - 1) : tasks_M'[j] = tasks_M[IF j < i THEN j ELSE j + 1]
  <2>1. tasks_M' \in Seq(Order) /\ MovesUp(tasks_M', tasks_M, i)
    BY TasksTyped, MovedUp DEF M!Without
  <2>2. QED
    BY <2>1 DEF MovesUp
<1> DEFINE from(j) == IF j < i THEN j ELSE j + 1
           to(k) == IF k < i THEN k ELSE k - 1
<1>3. \A j \in DOMAIN tasks_M' : from(j) \in DOMAIN tasks_M /\ from(j) # i /\ tasks_M'[j] = tasks_M[from(j)]
  BY <1>2
<1>4. \A k \in DOMAIN tasks_M : k # i => to(k) \in DOMAIN tasks_M' /\ from(to(k)) = k
  BY <1>2
<1>5. \A j \in DOMAIN tasks_M', k \in DOMAIN tasks_M : k > from(j) /\ k # i => to(k) > j
  BY <1>2
<1>6. DOMAIN tasks_M \subseteq Nat /\ i \in Nat
  BY <1>2
<1> HIDE DEF from, to
<1>7. \A k \in Settings(c, r) : k # i => to(k) \in Settings(c, r)'
  BY <1>3, <1>4 DEF Settings
<1>8. ASSUME NEW k \in Settings(c, r)', tasks_M'[k].set[r] # l
      PROVE  \E j \in Settings(c, r)' : j > k
  <2>1. from(k) \in Settings(c, r) /\ tasks_M[from(k)].set[r] # l /\ from(k) # i
    BY <1>3, <1>8 DEF Settings
  <2>2. PICK j \in Settings(c, r) : j > from(k)
    BY <2>1 DEF NewestSets
  <2>3. j # i
    BY <1>6, <2>1, <2>2 DEF FirstOf, Settings
  <2>4. to(j) \in Settings(c, r)' /\ to(j) > k
    BY <1>5, <1>7, <2>2, <2>3 DEF Settings
  <2>5. QED
    BY <2>4
<1>9. QED
  BY <1>7, <1>8 DEF NewestSets

LEMMA SetsOf ==
  ASSUME NEW Q
  PROVE  /\ \A X \in SUBSET Resource : \A f \in [X -> Q] : f \in Sets(Q)
         /\ \A f \in Sets(Q) : DOMAIN f \subseteq Resource /\ \A r \in DOMAIN f : f[r] \in Q
BY DEF Sets

LEMMA OverTyped ==
  ASSUME NEW Q, NEW new \in Sets(Q), NEW old \in [Resource -> Q]
  PROVE  /\ M!Over(new, old) \in [Resource -> Q]
         /\ \A r \in Resource : M!Over(new, old)[r] = IF r \in DOMAIN new THEN new[r] ELSE old[r]
BY SetsOf DEF M!Over

LEMMA CopySucceedsDevices ==
  ASSUME M!Parameters, CacheInv, DeviceInv, NEW w \in M!Worker, M!CopySucceeds(w)
  PROVE  DeviceInv'
<1>1. doing_M[w] \in Working
  BY AtWork DEF M!CopySucceeds, M!Busy
<1>2. PICK r \in Resource : r = doing_M[w].res
  BY <1>1 DEF Working
<1>3. PICK k : k = doing_M[w].of
  OBVIOUS
<1> DEFINE Q == M!Switched(r, k)
<1>4. /\ mounts' = [c \in Container |-> IF c \in Q THEN [mounts[c] EXCEPT ![r] = "cache"]
                                               ELSE mounts[c]]
      /\ \E more \in M!TasksFor(r, k) : tasks_M' = tasks_M \o more
      /\ UNCHANGED <<managed, linked, device_M, drafts_M, astray_M>>
  BY <1>2, <1>3 DEF M!CopySucceeds
<1>5. Q \subseteq Container /\ IsFiniteSet(Q)
  BY FS_Subset, SameLists DEF M!Switched, M!Parameters
<1>6. PICK cs \in SetToSeqs(Q) :
        tasks_M' = tasks_M \o [i \in DOMAIN cs |-> M!Task(cs[i], [q \in {r} |-> "cache"])]
  BY <1>4, SameLists DEF M!TasksFor
<1> DEFINE n == Cardinality(Q)
           more == [i \in DOMAIN cs |-> M!Task(cs[i], [q \in {r} |-> "cache"])]
<1>7. n \in Nat /\ cs \in [1..n -> Q] /\ \A c \in Q : \E i \in 1..n : cs[i] = c
  BY <1>5, ListsAll
<1> HIDE DEF n, Q
<1>8. [q \in {r} |-> "cache"] \in Sets(M!Source)
  <2>1. [q \in {r} |-> "cache"] \in [{r} -> M!Source] /\ {r} \in SUBSET Resource
    BY DEF M!Source
  <2>2. QED
    BY <2>1, SetsOf
<1>9. /\ DOMAIN more = 1..n /\ \A i \in 1..n : more[i] \in Order /\ more[i].of = cs[i]
      /\ \A i \in 1..n : DOMAIN more[i].set = {r} /\ more[i].set[r] = "cache"
  BY <1>5, <1>7, <1>8 DEF M!Task, Order
<1>10. more \in Seq(Order)
  <2>1. more \in [1..n -> Order]
    BY <1>9
  <2>2. QED
    BY <1>7, <2>1, SeqDef
<1> HIDE DEF more
<1>11. tasks_M' = tasks_M \o more
  BY <1>6 DEF more
<1>12. mounts \in [Container -> [Resource -> M!Source]]
  BY DEF DeviceInv, DevicesTyped
<1>13. /\ mounts' \in [Container -> [Resource -> M!Source]]
       /\ \A c \in Container, q \in Resource :
            mounts'[c][q] = IF c \in Q /\ q = r THEN "cache" ELSE mounts[c][q]
  BY <1>4, <1>12 DEF M!Source
<1>14. \A c \in Container, q \in Resource : Told(more, c, q) # {} <=> c \in Q /\ q = r
  BY <1>7, <1>9 DEF Told
<1>15. \A c, q : \A i \in Told(more, c, q) : more[i].set[q] = "cache"
  BY <1>9 DEF Told
<1>16. ASSUME NEW c \in Container, NEW q \in Resource, <<c, q>> \notin astray_M
       PROVE  Follows(c, q)'
  <2>1. PICK l : l = mounts'[c][q]
    OBVIOUS
  <2>2. Follows(c, q)
    BY <1>16 DEF DeviceInv, ListsFollowed
  <2>3. NewestSets(c, q, l) \/ Told(more, c, q) # {}
    BY <1>13, <1>14, <2>1, <2>2 DEF Follows
  <2>4. \A i \in Told(more, c, q) : more[i].set[q] = l
    BY <1>13, <1>14, <1>15, <2>1
  <2>5. /\ NewestSets(c, q, l)'
        /\ Settings(c, q)' = {} => Settings(c, q) = {} /\ Told(more, c, q) = {}
    BY <1>10, <1>11, <2>3, <2>4, TasksAdded
  <2>6. Settings(c, q)' = {} => device_M[c][q] = l
    BY <1>13, <1>14, <2>1, <2>2, <2>5 DEF Follows
  <2>7. QED
    BY <1>4, <2>1, <2>5, <2>6 DEF Follows
<1>17. ListsFollowed'
  BY <1>4, <1>16 DEF ListsFollowed
<1>18. tasks_M' \in Seq(Order)
  BY <1>10, <1>11, TasksTyped, ConcatProperties
<1>19. DevicesTyped' /\ RequestsFit'
  BY <1>4, <1>13, <1>18 DEF DeviceInv, DevicesTyped, RequestsFit
<1>20. QED
  BY <1>17, <1>19 DEF DeviceInv

-----------------------------------------------------------------------------
(* Requests *)

LEMMA ReadsDevices ==
  ASSUME DeviceInv, NEW c \in Container,
         NEW set \in Sets(M!Source), NEW keep \in Sets({"none", "nfs", "cache"}),
         NEW add \in SUBSET Resource, NEW drop \in SUBSET Resource, NEW todo \in Sets(M!Source),
         M!Reads(c, set, keep, add, drop, todo),
         \A r \in DOMAIN todo : r \in DOMAIN set /\ todo[r] = set[r],
         \A r \in DOMAIN set \ DOMAIN todo : set[r] = mounts[c][r]
  PROVE  DeviceInv'
<1> DEFINE e == [of |-> c, was |-> mounts[c], set |-> M!Over(set, mounts[c]), keep |-> keep,
                 add |-> add, drop |-> drop, todo |-> todo]
<1>1. /\ drafts_M' = drafts_M \cup {e}
      /\ UNCHANGED <<mounts, managed, linked, device_M, tasks_M, astray_M>>
  BY DEF M!Reads, M!lists
<1>2. mounts[c] \in [Resource -> M!Source]
  BY DEF DeviceInv, DevicesTyped
<1>3. /\ M!Over(set, mounts[c]) \in [Resource -> M!Source]
      /\ \A r \in Resource :
           M!Over(set, mounts[c])[r] = IF r \in DOMAIN set THEN set[r] ELSE mounts[c][r]
  BY <1>2, OverTyped
<1>4. e \in Request
  BY <1>2, <1>3 DEF Request
<1>5. \A r \in Resource : e.set[r] = IF r \in DOMAIN e.todo THEN e.todo[r] ELSE e.was[r]
  BY <1>3
<1> HIDE DEF e
<1>6. RequestsFit'
  BY <1>1, <1>5 DEF DeviceInv, RequestsFit
<1>7. DevicesTyped'
  BY <1>1, <1>4 DEF DeviceInv, DevicesTyped
<1>8. ListsFollowed'
  BY <1>1, FollowedKept DEF DeviceInv
<1>9. QED
  BY <1>6, <1>7, <1>8 DEF DeviceInv

LEMMA ManagedTyped ==
  ASSUME DeviceInv, NEW c \in Container, NEW new \in Sets({"none", "nfs", "cache"})
  PROVE  M!Over(new, managed[c]) \in Sets({"none", "nfs", "cache"})
<1> DEFINE Y == {"none", "nfs", "cache"}
<1>1. managed[c] \in [Resource -> Y]
  BY DEF DeviceInv, DevicesTyped
<1> HIDE DEF Y
<1>2. new \in Sets(Y)
  BY DEF Y
<1>3. M!Over(new, managed[c]) \in [Resource -> Y]
  BY <1>1, <1>2, OverTyped
<1>4. M!Over(new, managed[c]) \in Sets(Y)
  BY <1>3, SetsOf
<1>5. QED
  BY <1>4 DEF Y

LEMMA MountPublicStep ==
  ASSUME DeviceInv, NEW c \in Container, NEW set \in M!Resources, M!MountPublic(c, set)
  PROVE  DeviceInv'
<1> DEFINE new == [r \in set |-> M!Best(r)]
           todo == {r \in set : mounts[c][r] # new[r] \/ managed[c][r] # new[r]}
           new2 == [r \in todo |-> new[r]]
<1>1. M!Reads(c, new, M!Over(new, managed[c]), set, {}, new2)
  BY DEF M!MountPublic
<1>2. set \in SUBSET Resource /\ todo \in SUBSET Resource
  BY DEF M!Resources
<1>3. new \in [set -> {"nfs", "cache"}] /\ new2 \in [todo -> {"nfs", "cache"}]
  BY DEF M!Best
<1>4. /\ new \in [set -> M!Source] /\ new2 \in [todo -> M!Source]
      /\ new \in [set -> {"none", "nfs", "cache"}]
  BY <1>3 DEF M!Source
<1>5. \A r \in DOMAIN new2 : r \in DOMAIN new /\ new2[r] = new[r]
  OBVIOUS
<1>6. \A r \in DOMAIN new \ DOMAIN new2 : new[r] = mounts[c][r]
  OBVIOUS
<1> HIDE DEF new, new2, todo
<1>7. new \in Sets(M!Source) /\ new2 \in Sets(M!Source) /\ new \in Sets({"none", "nfs", "cache"})
  BY <1>2, <1>4, SetsOf
<1>8. M!Over(new, managed[c]) \in Sets({"none", "nfs", "cache"})
  BY <1>7, ManagedTyped
<1>9. {} \in SUBSET Resource
  OBVIOUS
<1>10. QED
  BY <1>1, <1>2, <1>5, <1>6, <1>7, <1>8, <1>9, ReadsDevices

LEMMA UntouchedTyped == M!Untouched \in Sets({"none", "nfs", "cache"})
<1>1. M!Untouched \in [{} -> {"none", "nfs", "cache"}]
  BY DEF M!Untouched
<1>2. QED
  BY <1>1, SetsOf

LEMMA MountNodeCacheStep ==
  ASSUME DeviceInv, NEW c \in Container, NEW set \in M!Resources, M!MountNodeCache(c, set)
  PROVE  DeviceInv'
<1> DEFINE new == [r \in set |-> "cache"]
           todo == {r \in set : mounts[c][r] # "cache"}
           new2 == [r \in todo |-> "cache"]
<1>1. M!Reads(c, new, M!Untouched, set, {}, new2)
  BY DEF M!MountNodeCache
<1>2. set \in SUBSET Resource /\ todo \in SUBSET Resource
  BY DEF M!Resources
<1>3. new \in [set -> M!Source] /\ new2 \in [todo -> M!Source]
  BY DEF M!Source
<1>4. \A r \in DOMAIN new2 : r \in DOMAIN new /\ new2[r] = new[r]
  OBVIOUS
<1>5. \A r \in DOMAIN new \ DOMAIN new2 : new[r] = mounts[c][r]
  OBVIOUS
<1> HIDE DEF new, new2, todo
<1>6. new \in Sets(M!Source) /\ new2 \in Sets(M!Source)
  BY <1>2, <1>3, SetsOf
<1>7. {} \in SUBSET Resource
  OBVIOUS
<1>8. QED
  BY <1>1, <1>2, <1>4, <1>5, <1>6, <1>7, UntouchedTyped, ReadsDevices

LEMMA ApplyNodeCacheStep ==
  ASSUME DeviceInv, NEW c \in Container, M!ApplyNodeCache(c)
  PROVE  DeviceInv'
<1> DEFINE todo == {r \in Resource : mounts[c][r] = "path" /\ M!Cached(r)}
           new == [r \in todo |-> "cache"]
<1>1. M!Reads(c, new, M!Untouched, {}, {}, new)
  BY DEF M!ApplyNodeCache
<1>2. todo \in SUBSET Resource
  OBVIOUS
<1>3. new \in [todo -> M!Source]
  BY DEF M!Source
<1> HIDE DEF new, todo
<1>4. new \in Sets(M!Source)
  BY <1>2, <1>3, SetsOf
<1>5. {} \in SUBSET Resource
  OBVIOUS
<1>6. QED
  BY <1>1, <1>4, <1>5, UntouchedTyped, ReadsDevices

LEMMA UnmountStep ==
  ASSUME DeviceInv, NEW c \in Container, NEW set \in M!Resources, M!Unmount(c, set)
  PROVE  DeviceInv'
<1> DEFINE gone == {r \in set : managed[c][r] # "none"}
           new == [r \in gone |-> "none"]
<1>1. M!Reads(c, new, M!Over(new, managed[c]), {}, gone, new)
  BY DEF M!Unmount
<1>2. gone \in SUBSET Resource
  BY DEF M!Resources
<1>3. new \in [gone -> M!Source] /\ new \in [gone -> {"none", "nfs", "cache"}]
  BY DEF M!Source
<1> HIDE DEF new, gone
<1>4. new \in Sets(M!Source) /\ new \in Sets({"none", "nfs", "cache"})
  BY <1>2, <1>3, SetsOf
<1>5. M!Over(new, managed[c]) \in Sets({"none", "nfs", "cache"})
  BY <1>4, ManagedTyped
<1>6. {} \in SUBSET Resource
  OBVIOUS
<1>7. QED
  BY <1>1, <1>2, <1>4, <1>5, <1>6, ReadsDevices

LEMMA MountsWriteStep ==
  ASSUME DeviceInv, NEW d \in drafts_M, M!Writes(d)
  PROVE  DeviceInv'
<1> DEFINE t == M!Task(d.of, d.todo)
<1>1. /\ mounts' = [mounts EXCEPT ![d.of] = d.set]
      /\ managed' = [managed EXCEPT ![d.of] = M!Over(d.keep, managed[d.of])]
      /\ linked' = [linked EXCEPT ![d.of] = (linked[d.of] \cup d.add) \ d.drop]
      /\ tasks_M' = Append(tasks_M, t)
      /\ astray_M' = astray_M \cup {<<d.of, r>> : r \in {p \in Resource : mounts[d.of][p] # d.was[p]}}
      /\ drafts_M' = drafts_M \ {d} /\ UNCHANGED device_M
  BY DEF M!Writes
<1>2. /\ d.of \in Container /\ d.was \in [Resource -> M!Source] /\ d.set \in [Resource -> M!Source]
      /\ d.keep \in Sets({"none", "nfs", "cache"}) /\ d.add \in SUBSET Resource
      /\ d.drop \in SUBSET Resource /\ d.todo \in Sets(M!Source)
  BY DEF DeviceInv, DevicesTyped, Request
<1>3. t \in Order /\ t.of = d.of /\ t.set = d.todo
  BY <1>2 DEF M!Task, Order
<1> HIDE DEF t
<1>4. /\ mounts \in [Container -> [Resource -> M!Source]]
      /\ managed \in [Container -> [Resource -> {"none", "nfs", "cache"}]]
      /\ linked \in [Container -> SUBSET Resource]
  BY DEF DeviceInv, DevicesTyped
<1>5. /\ mounts' \in [Container -> [Resource -> M!Source]]
      /\ \A c \in Container : mounts'[c] = IF c = d.of THEN d.set ELSE mounts[c]
  BY <1>1, <1>2, <1>4
<1>6. managed' \in [Container -> [Resource -> {"none", "nfs", "cache"}]]
  <2> DEFINE Y == {"none", "nfs", "cache"}
  <2>1. managed[d.of] \in [Resource -> Y] /\ d.keep \in Sets(Y)
    BY <1>2, <1>4
  <2> HIDE DEF Y
  <2>2. M!Over(d.keep, managed[d.of]) \in [Resource -> Y]
    BY <2>1, OverTyped
  <2>3. managed \in [Container -> [Resource -> Y]]
    BY <1>4 DEF Y
  <2>4. managed' \in [Container -> [Resource -> Y]]
    BY <1>1, <1>2, <2>2, <2>3
  <2>5. QED
    BY <2>4 DEF Y
<1>7. linked' \in [Container -> SUBSET Resource]
  BY <1>1, <1>2, <1>4
<1> DEFINE more == <<t>>
<1>8. /\ more \in Seq(Order) /\ DOMAIN more = {1} /\ more[1] = t
  BY <1>3
<1> HIDE DEF more
<1>9. tasks_M' = tasks_M \o more
  BY <1>1, <1>3, TasksTyped, AppendIsConcat DEF more
<1>10. tasks_M' \in Seq(Order)
  BY <1>8, <1>9, TasksTyped, ConcatProperties
<1>11. \A r \in Resource : d.set[r] = IF r \in DOMAIN d.todo THEN d.todo[r] ELSE d.was[r]
  BY DEF DeviceInv, RequestsFit
<1>12. ASSUME NEW c \in Container, NEW r \in Resource, <<c, r>> \notin astray_M'
       PROVE  Follows(c, r)'
  <2>1. PICK l : l = mounts'[c][r]
    OBVIOUS
  <2>2. Follows(c, r)
    BY <1>1, <1>12 DEF DeviceInv, ListsFollowed
  <2>3. Told(more, c, r) # {} <=> c = d.of /\ r \in DOMAIN d.todo
    BY <1>3, <1>8 DEF Told
  <2>4. \A i \in Told(more, c, r) : more[i].set[r] = l
    BY <1>3, <1>5, <1>8, <1>11, <2>1 DEF Told
  <2>5. Told(more, c, r) = {} => l = mounts[c][r]
    BY <1>1, <1>5, <1>11, <1>12, <2>1, <2>3
  <2>6. NewestSets(c, r, l) \/ Told(more, c, r) # {}
    BY <2>2, <2>5 DEF Follows
  <2>7. /\ NewestSets(c, r, l)'
        /\ Settings(c, r)' = {} => Settings(c, r) = {} /\ Told(more, c, r) = {}
    BY <1>8, <1>9, <2>4, <2>6, TasksAdded
  <2>8. Settings(c, r)' = {} => device_M[c][r] = l
    BY <2>2, <2>5, <2>7 DEF Follows
  <2>9. QED
    BY <1>1, <2>1, <2>7, <2>8 DEF Follows
<1>13. ListsFollowed'
  BY <1>12 DEF ListsFollowed
<1>14. DevicesTyped' /\ RequestsFit'
  BY <1>1, <1>5, <1>6, <1>7, <1>10 DEF DeviceInv, DevicesTyped, RequestsFit
<1>15. QED
  BY <1>13, <1>14 DEF DeviceInv

LEMMA WritesFailStep ==
  ASSUME DeviceInv, NEW d \in drafts_M, M!WritesFail(d)
  PROVE  DeviceInv'
<1>1. drafts_M' = drafts_M \ {d} /\ UNCHANGED <<mounts, managed, linked, device_M, tasks_M, astray_M>>
  BY DEF M!WritesFail, M!lists
<1>2. DevicesTyped' /\ RequestsFit'
  BY <1>1 DEF DeviceInv, DevicesTyped, RequestsFit
<1>3. QED
  BY <1>1, <1>2, FollowedKept DEF DeviceInv

LEMMA RemoveContainerDevices ==
  ASSUME DeviceInv, NEW c \in Container, M!RemoveContainer(c)
  PROVE  DeviceInv'
<1> DEFINE none == [r \in Resource |-> "none"]
<1>1. /\ tasks_M' \in M!Spared(tasks_M, c)
      /\ mounts' = [mounts EXCEPT ![c] = none] /\ managed' = [managed EXCEPT ![c] = none]
      /\ linked' = [linked EXCEPT ![c] = {}] /\ device_M' = [device_M EXCEPT ![c] = none]
      /\ UNCHANGED <<drafts_M, astray_M>>
  BY DEF M!RemoveContainer
<1>2. none \in [Resource -> M!Source] /\ none \in [Resource -> {"none", "nfs", "cache"}]
      /\ \A r \in Resource : none[r] = "none"
  BY DEF M!Source
<1> HIDE DEF none
<1>3. tasks_M' \in Seq(Order) /\ Spares(tasks_M', tasks_M, c)
  BY <1>1, TasksTyped, SparedOthers
<1>4. DevicesTyped' /\ RequestsFit'
  BY <1>1, <1>2, <1>3 DEF DeviceInv, DevicesTyped, RequestsFit
<1>5. /\ mounts \in [Container -> [Resource -> M!Source]] /\ device_M \in [Container -> [Resource -> M!Source]]
  BY DEF DeviceInv, DevicesTyped
<1>6. \A k \in Container, r \in Resource :
        /\ mounts'[k][r] = IF k = c THEN "none" ELSE mounts[k][r]
        /\ device_M'[k][r] = IF k = c THEN "none" ELSE device_M[k][r]
  BY <1>1, <1>2, <1>5
<1>7. /\ \A j \in DOMAIN tasks_M' : \E k \in M!Others(tasks_M, c) :
           /\ tasks_M'[j] = tasks_M[k]
           /\ \A m \in M!Others(tasks_M, c) : m > k => \E i \in DOMAIN tasks_M' : i > j /\ tasks_M'[i] = tasks_M[m]
      /\ \A k \in M!Others(tasks_M, c) : \E j \in DOMAIN tasks_M' : tasks_M'[j] = tasks_M[k]
  BY <1>3 DEF Spares
<1>8. ASSUME NEW r \in Resource PROVE Settings(c, r)' = {}
  BY <1>7 DEF Settings, M!Others
<1>9. ASSUME NEW k \in Container, NEW r \in Resource, k # c, NEW l, NewestSets(k, r, l)
      PROVE  /\ NewestSets(k, r, l)'
             /\ Settings(k, r)' = {} => Settings(k, r) = {}
  <2>1. Settings(k, r) \subseteq M!Others(tasks_M, c)
    BY <1>9 DEF Settings, M!Others
  <2>2. Settings(k, r)' = {} => Settings(k, r) = {}
    BY <1>7, <2>1 DEF Settings
  <2>3. ASSUME NEW j \in Settings(k, r)', tasks_M'[j].set[r] # l
        PROVE  \E i \in Settings(k, r)' : i > j
    <3>1. PICK x \in M!Others(tasks_M, c) :
            /\ tasks_M'[j] = tasks_M[x]
            /\ \A m \in M!Others(tasks_M, c) : m > x => \E i \in DOMAIN tasks_M' : i > j /\ tasks_M'[i] = tasks_M[m]
      BY <1>7 DEF Settings
    <3>2. x \in Settings(k, r) /\ tasks_M[x].set[r] # l
      BY <2>3, <3>1 DEF Settings, M!Others
    <3>3. PICK m \in Settings(k, r) : m > x
      BY <1>9, <3>2 DEF NewestSets
    <3>4. PICK i \in DOMAIN tasks_M' : i > j /\ tasks_M'[i] = tasks_M[m]
      BY <2>1, <3>1, <3>3
    <3>5. i \in Settings(k, r)'
      BY <3>3, <3>4 DEF Settings
    <3>6. QED
      BY <3>4, <3>5
  <2>4. QED
    BY <2>2, <2>3 DEF NewestSets
<1>10. ASSUME NEW k \in Container, NEW r \in Resource, <<k, r>> \notin astray_M
       PROVE  Follows(k, r)'
  <2>1. CASE k = c
    BY <1>6, <1>8, <2>1 DEF Follows, NewestSets
  <2>2. CASE k # c
    <3>1. PICK l : l = mounts[k][r]
      OBVIOUS
    <3>2. NewestSets(k, r, l) /\ (Settings(k, r) = {} => device_M[k][r] = mounts[k][r])
      BY <1>10, <3>1 DEF DeviceInv, ListsFollowed, Follows
    <3>3. /\ NewestSets(k, r, l)'
          /\ Settings(k, r)' = {} => Settings(k, r) = {}
      BY <1>9, <2>2, <3>2
    <3>4. QED
      BY <1>6, <2>2, <3>1, <3>2, <3>3 DEF Follows
  <2>3. QED
    BY <2>1, <2>2
<1>11. ListsFollowed'
  BY <1>1, <1>10 DEF ListsFollowed
<1>12. QED
  BY <1>4, <1>11 DEF DeviceInv

-----------------------------------------------------------------------------
(* The agent *)

LEMMA PluggedTyped ==
  ASSUME DeviceInv, NEW t \in Order, NEW done \in SUBSET DOMAIN t.set
  PROVE  /\ M!Plugged(t, done) \in [Container -> [Resource -> M!Source]]
         /\ \A c \in Container, r \in Resource :
              M!Plugged(t, done)[c][r] = IF c = t.of /\ r \in done THEN t.set[r] ELSE device_M[c][r]
<1> DEFINE set == [r \in done |-> t.set[r]]
<1>1. t.of \in Container /\ t.set \in Sets(M!Source)
  BY DEF Order
<1>2. DOMAIN t.set \subseteq Resource /\ \A r \in DOMAIN t.set : t.set[r] \in M!Source
  BY <1>1, SetsOf
<1>3. device_M \in [Container -> [Resource -> M!Source]]
  BY DEF DeviceInv, DevicesTyped
<1>4. set \in [done -> M!Source] /\ done \in SUBSET Resource
  BY <1>2
<1>5. /\ M!Plugged(t, done) = [device_M EXCEPT ![t.of] = M!Over(set, device_M[t.of])]
      /\ DOMAIN set = done /\ \A r \in done : set[r] = t.set[r]
  BY DEF M!Plugged
<1> HIDE DEF set
<1>6. set \in Sets(M!Source)
  BY <1>4, SetsOf
<1>7. device_M[t.of] \in [Resource -> M!Source]
  BY <1>1, <1>3
<1>8. /\ M!Over(set, device_M[t.of]) \in [Resource -> M!Source]
      /\ \A r \in Resource : M!Over(set, device_M[t.of])[r] = IF r \in done THEN t.set[r] ELSE device_M[t.of][r]
  BY <1>5, <1>6, <1>7, OverTyped
<1>9. QED
  BY <1>1, <1>3, <1>5, <1>8

LEMMA MountsExecuteStep ==
  ASSUME DeviceInv, NEW i \in DOMAIN tasks_M, M!Execute(i)
  PROVE  DeviceInv'
<1>1. tasks_M[i] \in Order
  BY TasksTyped
<1>2. PICK t \in Order : t = tasks_M[i]
  BY <1>1
<1>3. /\ device_M' = M!Plugged(t, DOMAIN t.set) /\ tasks_M' = M!Without(i)
      /\ astray_M' = astray_M \cup M!Overtaken(i)
      /\ UNCHANGED <<mounts, managed, linked, drafts_M>>
  BY <1>2 DEF M!Execute, M!lists
<1>4. /\ device_M' \in [Container -> [Resource -> M!Source]]
      /\ \A c \in Container, r \in Resource :
           device_M'[c][r] = IF c = t.of /\ r \in DOMAIN t.set THEN t.set[r] ELSE device_M[c][r]
  BY <1>3, PluggedTyped
<1>5. tasks_M' \in Seq(Order)
  BY <1>3, TasksTyped, MovedUp DEF M!Without
<1>6. DevicesTyped' /\ RequestsFit'
  BY <1>3, <1>4, <1>5 DEF DeviceInv, DevicesTyped, RequestsFit
<1>7. ASSUME NEW c \in Container, NEW r \in Resource, <<c, r>> \notin astray_M'
      PROVE  Follows(c, r)'
  <2>1. PICK l : l = mounts[c][r]
    OBVIOUS
  <2>2. NewestSets(c, r, l) /\ (Settings(c, r) = {} => device_M[c][r] = mounts[c][r])
    BY <1>3, <1>7, <2>1 DEF DeviceInv, ListsFollowed, Follows
  <2>3. i \in Settings(c, r) <=> c = t.of /\ r \in DOMAIN t.set
    BY <1>2 DEF Settings
  <2>4. FirstOf(c, r, i)
    <3>1. ASSUME NEW j \in Settings(c, r), i \in Settings(c, r), ~(i <= j) PROVE FALSE
      <4>1. j \in 1..(i - 1)
        <5>1. j \in 1..Len(tasks_M) /\ i \in 1..Len(tasks_M) /\ Len(tasks_M) \in Nat
          BY TasksTyped, LenProperties DEF Settings
        <5>2. QED
          BY <3>1, <5>1
      <4>2. <<c, r>> \in M!Touched(tasks_M[j]) /\ <<c, r>> \in M!Touched(tasks_M[i])
        BY <3>1 DEF M!Touched, Settings
      <4>3. <<c, r>> \in M!Overtaken(i)
        <5>1. M!Touched(tasks_M[j]) \in {M!Touched(tasks_M[x]) : x \in 1..(i - 1)}
          BY <4>1
        <5>2. <<c, r>> \in UNION {M!Touched(tasks_M[x]) : x \in 1..(i - 1)}
          BY <4>2, <5>1
        <5>3. QED
          BY <4>2, <5>2 DEF M!Overtaken
      <4>4. QED
        BY <1>3, <1>7, <4>3
    <3>2. QED
      BY <3>1 DEF FirstOf
  <2>5. /\ Settings(c, r)' = {} => Settings(c, r) \subseteq {i}
        /\ NewestSets(c, r, l)'
    BY <1>3, <2>2, <2>4, TaskTakenOut
  <2>6. ASSUME Settings(c, r)' = {} PROVE device_M'[c][r] = l
    <3>1. CASE i \in Settings(c, r)
      <4>1. Settings(c, r) = {i} /\ ~(i > i)
        BY <2>5, <2>6, <3>1, TasksTyped
      <4>2. tasks_M[i].set[r] = l
        BY <2>2, <4>1 DEF NewestSets
      <4>3. QED
        BY <1>2, <1>4, <2>3, <3>1, <4>2
    <3>2. CASE i \notin Settings(c, r)
      BY <1>4, <2>1, <2>2, <2>3, <2>5, <2>6, <3>2
    <3>3. QED
      BY <3>1, <3>2
  <2>7. QED
    BY <1>3, <2>1, <2>5, <2>6 DEF Follows
<1>8. ListsFollowed'
  BY <1>7 DEF ListsFollowed
<1>9. QED
  BY <1>6, <1>8 DEF DeviceInv

LEMMA MountsExecuteFailsStep ==
  ASSUME DeviceInv, NEW i \in DOMAIN tasks_M, M!ExecuteFails(i)
  PROVE  DeviceInv'
<1>1. tasks_M[i] \in Order
  BY TasksTyped
<1>2. PICK t \in Order : t = tasks_M[i]
  BY <1>1
<1>3. /\ tasks_M' = M!Without(i) /\ astray_M' = astray_M \cup M!Touched(t)
      /\ UNCHANGED <<mounts, managed, linked, drafts_M>>
  BY <1>2 DEF M!ExecuteFails, M!lists
<1>4. PICK done \in SUBSET DOMAIN t.set :
        \/ device_M' = M!Plugged(t, done)
        \/ \E r \in DOMAIN t.set \ done : device_M' = M!Plugged([t EXCEPT !.set[r] = "none"], done \cup {r})
  BY <1>2 DEF M!ExecuteFails
<1>5. /\ device_M' \in [Container -> [Resource -> M!Source]]
      /\ \A c \in Container, r \in Resource :
           ~(c = t.of /\ r \in DOMAIN t.set) => device_M'[c][r] = device_M[c][r]
  <2>1. CASE device_M' = M!Plugged(t, done)
    BY <2>1, PluggedTyped
  <2>2. ASSUME NEW r \in DOMAIN t.set \ done,
               device_M' = M!Plugged([t EXCEPT !.set[r] = "none"], done \cup {r})
        PROVE  /\ device_M' \in [Container -> [Resource -> M!Source]]
               /\ \A c \in Container, q \in Resource :
                    ~(c = t.of /\ q \in DOMAIN t.set) => device_M'[c][q] = device_M[c][q]
    <3> DEFINE u == [t EXCEPT !.set[r] = "none"]
    <3>1. t.set \in Sets(M!Source)
      BY DEF Order
    <3>2. DOMAIN t.set \in SUBSET Resource /\ t.set \in [DOMAIN t.set -> M!Source]
      BY <3>1 DEF Sets
    <3>3. [t.set EXCEPT ![r] = "none"] \in [DOMAIN t.set -> M!Source]
      BY <3>2 DEF M!Source
    <3>4. [t.set EXCEPT ![r] = "none"] \in Sets(M!Source)
      BY <3>2, <3>3, SetsOf
    <3>5. u \in Order /\ u.of = t.of /\ DOMAIN u.set = DOMAIN t.set
      BY <3>2, <3>4 DEF Order
    <3>6. device_M' = M!Plugged(u, done \cup {r}) /\ done \cup {r} \in SUBSET DOMAIN u.set
      BY <2>2, <3>5
    <3> HIDE DEF u
    <3>7. QED
      BY <3>5, <3>6, PluggedTyped
  <2>3. QED
    BY <1>4, <2>1, <2>2
<1>6. tasks_M' \in Seq(Order)
  BY <1>3, TasksTyped, MovedUp DEF M!Without
<1>7. DevicesTyped' /\ RequestsFit'
  BY <1>3, <1>5, <1>6 DEF DeviceInv, DevicesTyped, RequestsFit
<1>8. ASSUME NEW c \in Container, NEW r \in Resource, <<c, r>> \notin astray_M'
      PROVE  Follows(c, r)'
  <2>1. PICK l : l = mounts[c][r]
    OBVIOUS
  <2>2. NewestSets(c, r, l) /\ (Settings(c, r) = {} => device_M[c][r] = mounts[c][r])
    BY <1>3, <1>8, <2>1 DEF DeviceInv, ListsFollowed, Follows
  <2>3. ~(c = t.of /\ r \in DOMAIN t.set)
    BY <1>3, <1>8 DEF M!Touched
  <2>4. i \notin Settings(c, r)
    BY <1>2, <2>3 DEF Settings
  <2>5. /\ Settings(c, r)' = {} => Settings(c, r) \subseteq {i}
        /\ NewestSets(c, r, l)'
    <3>1. FirstOf(c, r, i)
      BY <2>4 DEF FirstOf
    <3>2. QED
      BY <1>3, <2>2, <3>1, TaskTakenOut
  <2>6. Settings(c, r)' = {} => device_M'[c][r] = l
    BY <1>5, <2>1, <2>2, <2>3, <2>4, <2>5
  <2>7. QED
    BY <1>3, <2>1, <2>5, <2>6 DEF Follows
<1>9. ListsFollowed'
  BY <1>8 DEF ListsFollowed
<1>10. QED
  BY <1>7, <1>9 DEF DeviceInv

LEMMA ExecuteUnheardStep ==
  ASSUME DeviceInv, NEW i \in DOMAIN tasks_M, M!ExecuteUnheard(i)
  PROVE  DeviceInv'
<1>1. tasks_M[i] \in Order
  BY TasksTyped
<1>2. PICK t \in Order : t = tasks_M[i]
  BY <1>1
<1> DEFINE u == [t EXCEPT !.lost = TRUE]
<1>3. u \in Order /\ u.of = t.of /\ u.set = t.set
  BY DEF Order
<1>4. /\ device_M' = M!Plugged(t, DOMAIN t.set) /\ tasks_M' = [tasks_M EXCEPT ![i] = u]
      /\ UNCHANGED <<mounts, managed, linked, drafts_M, astray_M>>
  BY <1>2 DEF M!ExecuteUnheard, M!lists
<1> HIDE DEF u
<1>5. /\ device_M' \in [Container -> [Resource -> M!Source]]
      /\ \A c \in Container, r \in Resource :
           device_M'[c][r] = IF c = t.of /\ r \in DOMAIN t.set THEN t.set[r] ELSE device_M[c][r]
  BY <1>4, PluggedTyped
<1>6. tasks_M' \in Seq(Order) /\ DOMAIN tasks_M' = DOMAIN tasks_M
  BY <1>3, <1>4, TasksTyped, ExceptSeq
<1>7. \A j \in DOMAIN tasks_M : tasks_M'[j].of = tasks_M[j].of /\ tasks_M'[j].set = tasks_M[j].set
  BY <1>2, <1>3, <1>4, TasksTyped
<1>8. DevicesTyped' /\ RequestsFit'
  BY <1>4, <1>5, <1>6 DEF DeviceInv, DevicesTyped, RequestsFit
<1>9. \A c \in Container, r \in Resource : Settings(c, r)' = Settings(c, r)
  BY <1>6, <1>7 DEF Settings
<1>10. ASSUME NEW c \in Container, NEW r \in Resource, <<c, r>> \notin astray_M
       PROVE  Follows(c, r)'
  <2>1. Follows(c, r)
    BY <1>10 DEF DeviceInv, ListsFollowed
  <2>2. Settings(c, r) = {} => device_M'[c][r] = device_M[c][r]
    BY <1>2, <1>5 DEF Settings
  <2>3. \A j \in Settings(c, r) : tasks_M'[j].set = tasks_M[j].set
    BY <1>7 DEF Settings
  <2>4. QED
    BY <1>4, <1>9, <2>1, <2>2, <2>3 DEF Follows, NewestSets
<1>11. ListsFollowed'
  BY <1>4, <1>10 DEF ListsFollowed
<1>12. QED
  BY <1>8, <1>11 DEF DeviceInv

-----------------------------------------------------------------------------
MountsInv == CacheInv /\ DeviceInv /\ asked_M \in 0..MaxAsked_M /\ faults_M \in 0..MaxFaults

LEMMA MountsInit ==
  ASSUME M!Parameters, M!Init
  PROVE  MountsInv
<1>1. PICK s \in {"none", "path", "nfs"}, r \in Resource :
        /\ s = "nfs" => r \in Exported
        /\ mounts = [c \in Container |-> [q \in Resource |->
                       IF c = 1 /\ q = r THEN s ELSE "none"]]
        /\ managed = [c \in Container |-> [q \in Resource |->
                        IF c = 1 /\ q = r /\ s = "nfs" THEN s ELSE "none"]]
        /\ linked = [c \in Container |-> IF c = 1 /\ s # "none" THEN {r} ELSE {}]
        /\ device_M = mounts
  BY DEF M!Init
<1>2. /\ cache = [q \in Resource |-> "none"] /\ whole = {}
      /\ box_M = [c \in Container |-> "up"] /\ drafts_M = {}
      /\ tasks_M = <<>> /\ copies = <<>> /\ doing_M = [w \in M!Worker |-> M!NoCopy]
      /\ asked_M = 0 /\ faults_M = 0
  BY DEF M!Init
<1>3. tasks_M \in Seq(Order) /\ copies \in Seq(Waiting) /\ DOMAIN tasks_M = {} /\ DOMAIN copies = {}
  BY <1>2
<1>4. /\ mounts \in [Container -> [Resource -> M!Source]]
      /\ linked \in [Container -> SUBSET Resource]
  BY <1>1 DEF M!Source
<1>5. managed \in [Container -> [Resource -> {"none", "nfs", "cache"}]]
  <2>1. \A c \in Container, q \in Resource :
          (IF c = 1 /\ q = r /\ s = "nfs" THEN s ELSE "none") \in {"none", "nfs", "cache"}
    OBVIOUS
  <2>2. QED
    BY <1>1, <2>1
<1>6. DeviceInv
  <2>1. DevicesTyped
    BY <1>1, <1>2, <1>3, <1>4, <1>5 DEF DevicesTyped
  <2>2. RequestsFit
    BY <1>2 DEF RequestsFit
  <2>3. ListsFollowed
    BY <1>1, <1>3 DEF ListsFollowed, Follows, NewestSets, Settings
  <2>4. QED
    BY <2>1, <2>2, <2>3 DEF DeviceInv
<1>7. \A w \in M!Worker : ~M!Busy(w)
  BY <1>2 DEF M!Busy, M!NoCopy
<1>8. CacheInv
  <2>1. CacheTyped
    BY <1>2, <1>3 DEF CacheTyped
  <2>2. CopiesFit /\ M!CacheIsTrue
    BY <1>2, <1>3, <1>7 DEF CopiesFit, M!CacheIsTrue
  <2>3. QED
    BY <2>1, <2>2 DEF CacheInv
<1>9. QED
  BY <1>2, <1>6, <1>8 DEF MountsInv, M!Parameters

(* Steps that are about the cache only, and steps that are not.            *)
LEMMA CacheOnly ==
  ASSUME M!Parameters, MountsInv, CacheInv',
         UNCHANGED <<mounts, managed, linked, device_M, tasks_M, drafts_M, astray_M>>,
         UNCHANGED asked_M \/ M!Ask, UNCHANGED faults_M \/ M!Fault
  PROVE  MountsInv'
BY DevicesKept, Counts DEF MountsInv

LEMMA DevicesOnly ==
  ASSUME M!Parameters, MountsInv, DeviceInv',
         UNCHANGED <<cache, whole, box_M, copies, doing_M, muddled>>,
         UNCHANGED asked_M \/ M!Ask, UNCHANGED faults_M \/ M!Fault
  PROVE  MountsInv'
BY CacheKept, Counts DEF MountsInv

LEMMA MountsStep ==
  ASSUME M!Parameters, MountsInv, [M!Next]_(M!vars)
  PROVE  MountsInv'
<1>1. CacheInv /\ DeviceInv
  BY DEF MountsInv
<1>2. ASSUME NEW r \in Resource, M!ClearCache(r) PROVE MountsInv'
  BY <1>1, <1>2, ClearCacheStep, CacheOnly DEF M!ClearCache, M!lists
<1>3. ASSUME NEW r \in Resource, NEW c \in Container \cup {0}, M!SyncResource(r, c) PROVE MountsInv'
  BY <1>1, <1>3, SyncResourceStep, CacheOnly DEF M!SyncResource, M!lists
<1>4. ASSUME NEW w \in M!Worker, M!CopyStarts(w) PROVE MountsInv'
  BY <1>1, <1>4, CopyStartsStep, CacheOnly DEF M!CopyStarts, M!lists
<1>5. ASSUME NEW w \in M!Worker, M!CopyEnds(w) PROVE MountsInv'
  BY <1>1, <1>5, CopyEndsStep, CacheOnly DEF M!CopyEnds, M!lists
<1>6. ASSUME NEW w \in M!Worker, M!CopySucceeds(w) PROVE MountsInv'
  <2>1. UNCHANGED <<asked_M, faults_M>>
    BY <1>6 DEF M!CopySucceeds
  <2>2. QED
    BY <1>1, <1>6, <2>1, CopySucceedsCache, CopySucceedsDevices DEF MountsInv
<1>7. ASSUME NEW w \in M!Worker, M!CopyFails(w) PROVE MountsInv'
  BY <1>1, <1>7, CopyFailsStep, CacheOnly DEF M!CopyFails, M!lists
<1>8. ASSUME NEW w \in M!Worker, M!CopyRefused(w) PROVE MountsInv'
  BY <1>1, <1>8, CopyRefusedStep, CacheOnly DEF M!CopyRefused, M!lists
<1>9. ASSUME NEW w \in M!Worker, M!CopyReportLost(w) PROVE MountsInv'
  BY <1>1, <1>9, CopyReportLostStep, CacheOnly DEF M!CopyReportLost, M!lists
<1>10. ASSUME NEW c \in Container, NEW set \in M!Resources, M!MountPublic(c, set) PROVE MountsInv'
  <2>1. M!Ask /\ UNCHANGED <<cache, whole, box_M, copies, doing_M, muddled, faults_M>>
    BY <1>10 DEF M!MountPublic, M!Reads
  <2>2. QED
    BY <1>1, <1>10, <2>1, MountPublicStep, DevicesOnly
<1>11. ASSUME NEW c \in Container, NEW set \in M!Resources, M!MountNodeCache(c, set) PROVE MountsInv'
  <2>1. M!Ask /\ UNCHANGED <<cache, whole, box_M, copies, doing_M, muddled, faults_M>>
    BY <1>11 DEF M!MountNodeCache, M!Reads
  <2>2. QED
    BY <1>1, <1>11, <2>1, MountNodeCacheStep, DevicesOnly
<1>12. ASSUME NEW c \in Container, NEW set \in M!Resources, M!Unmount(c, set) PROVE MountsInv'
  <2>1. M!Ask /\ UNCHANGED <<cache, whole, box_M, copies, doing_M, muddled, faults_M>>
    BY <1>12 DEF M!Unmount, M!Reads
  <2>2. QED
    BY <1>1, <1>12, <2>1, UnmountStep, DevicesOnly
<1>13. ASSUME NEW c \in Container, M!ApplyNodeCache(c) PROVE MountsInv'
  <2>1. M!Ask /\ UNCHANGED <<cache, whole, box_M, copies, doing_M, muddled, faults_M>>
    BY <1>13 DEF M!ApplyNodeCache, M!Reads
  <2>2. QED
    BY <1>1, <1>13, <2>1, ApplyNodeCacheStep, DevicesOnly
<1>14. ASSUME NEW d \in drafts_M, M!Writes(d) PROVE MountsInv'
  BY <1>1, <1>14, MountsWriteStep, DevicesOnly DEF M!Writes
<1>15. ASSUME NEW d \in drafts_M, M!WritesFail(d) PROVE MountsInv'
  BY <1>1, <1>15, WritesFailStep, DevicesOnly DEF M!WritesFail
<1>16. ASSUME NEW c \in Container, M!Operate(c) PROVE MountsInv'
  BY <1>1, <1>16, OperateStep, CacheOnly DEF M!Operate, M!lists
<1>17. ASSUME NEW c \in Container, M!RemoveContainer(c) PROVE MountsInv'
  <2>1. UNCHANGED <<asked_M, faults_M>>
    BY <1>17 DEF M!RemoveContainer
  <2>2. QED
    BY <1>1, <1>17, <2>1, RemoveContainerCache, RemoveContainerDevices DEF MountsInv, M!Parameters
<1>18. ASSUME NEW i \in DOMAIN tasks_M, M!Execute(i) PROVE MountsInv'
  BY <1>1, <1>18, MountsExecuteStep, DevicesOnly DEF M!Execute
<1>19. ASSUME NEW i \in DOMAIN tasks_M, M!ExecuteFails(i) PROVE MountsInv'
  BY <1>1, <1>19, MountsExecuteFailsStep, DevicesOnly DEF M!ExecuteFails
<1>20. ASSUME NEW i \in DOMAIN tasks_M, M!ExecuteUnheard(i) PROVE MountsInv'
  BY <1>1, <1>20, ExecuteUnheardStep, DevicesOnly DEF M!ExecuteUnheard
<1>21. CASE UNCHANGED M!vars
  BY <1>1, <1>21, CacheKept, CacheOnly DEF M!vars, M!lists
<1>22. QED
  BY <1>2, <1>3, <1>4, <1>5, <1>6, <1>7, <1>8, <1>9, <1>10, <1>11, <1>12, <1>13, <1>14, <1>15,
     <1>16, <1>17, <1>18, <1>19, <1>20, <1>21 DEF M!Next

LEMMA MountsMove == Spec => M!Spec
<1>1. Init => M!Init
  BY DEF Init
<1>2. [Next]_vars => [M!Next]_(M!vars)
  BY DEF Next, vars, directories, rules, volumes, hotMounts, ports, updates, waits,
         M!vars
<1>3. QED
  BY <1>1, <1>2, PTL DEF Spec, M!Spec

LEMMA MountsAlways == Spec => []MountsInv
<1>1. M!Init => MountsInv
  BY PlatformAssumption, MountsInit
<1>2. MountsInv /\ [M!Next]_(M!vars) => MountsInv'
  BY PlatformAssumption, MountsStep
<1>3. QED
  BY <1>1, <1>2, MountsMove, PTL DEF M!Spec

(* Types of the cache rows, the copies, the lists of mounts and the tasks  *)
(* that set them.                                                          *)
THEOREM MountsTypeOK == Spec => []M!TypeOK
<1>1. ASSUME MountsInv PROVE M!TypeOK
  <2>1. \A w \in M!Worker : doing_M[w].at \in {"none", "copying", "copied", "broken"}
    BY <1>1 DEF MountsInv, CacheInv, CacheTyped, Working, M!NoCopy
  <2>2. QED
    BY <1>1, <2>1 DEF MountsInv, CacheInv, CacheTyped, DeviceInv, DevicesTyped, M!TypeOK
<1>2. QED
  BY <1>1, MountsAlways, PTL

(* Once nothing is queued, the devices of an instance are what its row     *)
(* lists (apply_node_cache_mount and the hot mount endpoints), unless a    *)
(* failed or unheard command is known to have set them apart.              *)
THEOREM InstancesFollow == Spec => []DevicesFollowLists
<1>1. ASSUME MountsInv, tasks_M = <<>>, NEW c \in Container, NEW r \in Resource, <<c, r>> \notin astray_M
      PROVE  device_M[c][r] = mounts[c][r]
  <2>1. Settings(c, r) = {}
    BY <1>1 DEF Settings
  <2>2. QED
    BY <1>1, <2>1 DEF MountsInv, DeviceInv, ListsFollowed, Follows
<1>2. MountsInv => DevicesFollowLists
  BY <1>1 DEF DevicesFollowLists, M!DevicesFollowLists
<1>3. QED
  BY <1>2, MountsAlways, PTL

(* A cache row that says ready has its copy on the node, and one that says *)
(* syncing a task that will settle it (node_resource_cache).               *)
THEOREM CacheRowsAreTrue == Spec => []CacheIsTrue
<1>1. MountsInv => CacheIsTrue
  BY DEF MountsInv, CacheInv, CacheIsTrue
<1>2. QED
  BY <1>1, MountsAlways, PTL

-----------------------------------------------------------------------------
(* Ports                                                                   *)

-----------------------------------------------------------------------------
Sync == [of : Container, list : SUBSET P!Mapping, lost : BOOLEAN]
Draft == [of : Container, was : SUBSET P!Mapping, old : SUBSET P!Mapping, new : SUBSET P!Mapping]

PortsTyped ==
  /\ P!TypeOK
  /\ tasks_P \in Seq(Sync) /\ drafts_P \subseteq Draft
  /\ router \in [at : {"idle", "closing", "waiting"}, seen : SUBSET P!Route]

(* A transaction is about one container, and adds one row at most.         *)
DraftsFit ==
  \A d \in drafts_P : /\ \A m \in d.was \cup d.old \cup d.new : m.of = d.of
                    /\ \A m, o \in d.new : m = o

HostsDiffer == /\ \A m, o \in row_P : m.host = o.host => m = o
               /\ \A m, o \in router.seen : m.host = o.host => m = o

(* The instance has the proxies of its rows, and others only when the last *)
(* sync could not remove them.                                             *)
Serves(c) == P!RowsOf(c) \subseteq device_P[c] /\ (c \notin cluttered => device_P[c] = P!RowsOf(c))

(* The newest of the open syncs of a container lists its rows.             *)
NewestIsTrue ==
  \A c \in Container \ astray_P :
    /\ P!OpenSync(c) = {} => Serves(c)
    /\ \A i \in P!OpenSync(c) : tasks_P[i].list = P!RowsOf(c) \/ \E j \in P!OpenSync(c) : j > i

Heard(m) == m.host \in deaf \/ m \in router.seen \cap listens
Listening == router.at = "idle" => \A m \in router.seen \cup listens : Heard(m)

PortsInv == PortsTyped /\ DraftsFit /\ HostsDiffer /\ NewestIsTrue /\ Listening /\ P!AccessSettles

LEMMA PortsInit ==
  ASSUME P!Parameters, P!Init
  PROVE  PortsInv
<1>1. tasks_P = <<>> /\ DOMAIN tasks_P = {} /\ tasks_P \in Seq(Sync)
  BY DEF P!Init
<1>2. \A c \in Container : P!OpenSync(c) = {} /\ P!RowsOf(c) = {} /\ device_P[c] = {} /\ access[c] = "ready"
  BY <1>1 DEF P!Init, P!OpenSync, P!RowsOf
<1>3. router = [at |-> "idle", seen |-> {}] /\ router.seen = {} /\ listens = {} /\ row_P = {} /\ drafts_P = {}
  BY DEF P!Init
<1>4. router \in [at : {"idle", "closing", "waiting"}, seen : SUBSET P!Route]
  BY <1>3
<1>5. P!TypeOK
  BY <1>3 DEF P!Init, P!TypeOK, P!Parameters
<1>6. QED
  BY <1>1, <1>2, <1>3, <1>4, <1>5 DEF PortsInv, PortsTyped, DraftsFit, HostsDiffer, NewestIsTrue,
     Serves, Listening, P!AccessSettles

-----------------------------------------------------------------------------
(* Steps that leave the rows, the syncs and the devices alone.             *)
LEMMA SyncsKept ==
  ASSUME PortsInv, UNCHANGED <<row_P, device_P, tasks_P, astray_P, cluttered>>
  PROVE  NewestIsTrue'
BY DEF PortsInv, NewestIsTrue, Serves, P!OpenSync, P!RowsOf

LEMMA AccessKept ==
  ASSUME PortsInv, UNCHANGED <<access, tasks_P>>
  PROVE  P!AccessSettles'
BY DEF PortsInv, P!AccessSettles, P!OpenSync, P!HasSsh

LEMMA ListeningKept ==
  ASSUME PortsInv, UNCHANGED <<router, listens, deaf>>
  PROVE  Listening'
BY DEF PortsInv, Listening, Heard

LEMMA AskTyped ==
  ASSUME P!Parameters, PortsTyped, P!Ask
  PROVE  asked_P' \in 0..MaxAsked_P
BY DEF P!Parameters, PortsTyped, P!TypeOK, P!Ask

LEMMA CostTyped ==
  ASSUME P!Parameters, PortsTyped, NEW n \in Nat, P!Costs(n)
  PROVE  faults_P' \in 0..MaxFaults
BY DEF P!Parameters, PortsTyped, P!TypeOK, P!Costs

LEMMA FaultTyped ==
  ASSUME P!Parameters, PortsTyped, P!Fault
  PROVE  faults_P' \in 0..MaxFaults
BY CostTyped DEF P!Fault

-----------------------------------------------------------------------------
(* Requests *)

LEMMA PortsReadStep ==
  ASSUME P!Parameters, PortsInv, NEW c \in Container, NEW old \in SUBSET P!Mapping, NEW new \in SUBSET P!Mapping,
         P!Reads(c, old, new), ids' \in {0} \cup Port,
         \A m \in old \cup new : m.of = c, \A m, o \in new : m = o
  PROVE  PortsInv'
<1> DEFINE e == [of |-> c, was |-> P!RowsOf(c), old |-> old, new |-> new]
<1>1. /\ P!Ask /\ drafts_P' = drafts_P \cup {e}
      /\ UNCHANGED <<row_P, box_P, access, device_P, tasks_P, P!proxy, faults_P, astray_P, cluttered>>
  BY DEF P!Reads
<1>2. UNCHANGED <<router, listens, clients, deaf>>
  BY <1>1 DEF P!proxy
<1>3. P!RowsOf(c) \subseteq P!Mapping /\ \A m \in P!RowsOf(c) : m.of = c
  BY DEF P!RowsOf, PortsInv, PortsTyped, P!TypeOK
<1>4. e \in Draft /\ e.of = c /\ e.was = P!RowsOf(c) /\ e.old = old /\ e.new = new
  BY <1>3 DEF Draft
<1> HIDE DEF e
<1>5. PortsTyped'
  BY <1>1, <1>2, <1>4, AskTyped DEF PortsInv, PortsTyped, P!TypeOK
<1>6. DraftsFit'
  <2> SUFFICES ASSUME NEW d \in drafts_P'
               PROVE  /\ \A m \in d.was \cup d.old \cup d.new : m.of = d.of
                      /\ \A m, o \in d.new : m = o
    BY DEF DraftsFit
  <2>1. CASE d = e
    BY <1>3, <1>4, <2>1
  <2>2. CASE d \in drafts_P
    BY <2>2 DEF PortsInv, DraftsFit
  <2>3. QED
    BY <1>1, <2>1, <2>2
<1>7. HostsDiffer'
  BY <1>1, <1>2 DEF PortsInv, HostsDiffer
<1>8. QED
  BY <1>1, <1>2, <1>5, <1>6, <1>7, SyncsKept, AccessKept, ListeningKept DEF PortsInv

LEMMA AddPortStep ==
  ASSUME P!Parameters, PortsInv, NEW c \in Container, NEW to \in P!Inside, P!AddPort(c, to)
  PROVE  PortsInv'
<1>1. PICK h \in HostPort, n \in NodePort :
        P!Reads(c, {}, {[id |-> ids', of |-> c, to |-> to, host |-> h, node |-> n]})
  BY DEF P!AddPort
<1>2. ids' \in Port
  BY DEF P!AddPort
<1> DEFINE m == [id |-> ids', of |-> c, to |-> to, host |-> h, node |-> n]
<1>3. m \in P!Mapping /\ m.of = c
  BY <1>2 DEF P!Mapping
<1> HIDE DEF m
<1>4. P!Reads(c, {}, {m})
  BY <1>1 DEF m
<1>5. {} \in SUBSET P!Mapping /\ {m} \in SUBSET P!Mapping
  BY <1>3
<1>6. \A x \in {} \cup {m} : x.of = c
  BY <1>3
<1>7. \A x, o \in {m} : x = o
  OBVIOUS
<1>8. QED
  BY <1>2, <1>4, <1>5, <1>6, <1>7, PortsReadStep

LEMMA UpdatePortStep ==
  ASSUME P!Parameters, PortsInv, NEW m \in row_P, NEW to \in P!Inside, P!UpdatePort(m, to)
  PROVE  PortsInv'
<1>1. m \in P!Mapping /\ ids \in {0} \cup Port
  BY DEF PortsInv, PortsTyped, P!TypeOK
<1> DEFINE n == [m EXCEPT !.to = to]
<1>2. n \in P!Mapping /\ n.of = m.of /\ m.of \in Container
  BY <1>1 DEF P!Mapping
<1>3. P!Reads(m.of, {m}, {n}) /\ ids' = ids
  BY DEF P!UpdatePort
<1> HIDE DEF n
<1>4. {m} \in SUBSET P!Mapping /\ {n} \in SUBSET P!Mapping
  BY <1>1, <1>2
<1>5. \A x \in {m} \cup {n} : x.of = m.of
  BY <1>2
<1>6. \A x, o \in {n} : x = o
  OBVIOUS
<1>7. QED
  BY <1>1, <1>2, <1>3, <1>4, <1>5, <1>6, PortsReadStep

LEMMA DeletePortStep ==
  ASSUME P!Parameters, PortsInv, NEW m \in row_P, P!DeletePort(m)
  PROVE  PortsInv'
<1>1. m \in P!Mapping /\ ids \in {0} \cup Port
  BY DEF PortsInv, PortsTyped, P!TypeOK
<1>2. m.of \in Container
  BY <1>1 DEF P!Mapping
<1>3. P!Reads(m.of, {m}, {}) /\ ids' = ids
  BY DEF P!DeletePort
<1>4. {m} \in SUBSET P!Mapping /\ {} \in SUBSET P!Mapping /\ \A x \in {m} \cup {} : x.of = m.of
  BY <1>1
<1>5. \A x, o \in {} : x = o
  OBVIOUS
<1>6. QED
  BY <1>1, <1>2, <1>3, <1>4, <1>5, PortsReadStep

LEMMA CommitsStep ==
  ASSUME P!Parameters, PortsInv, NEW d \in drafts_P, P!Commits(d)
  PROVE  PortsInv'
<1> DEFINE list == (d.was \ d.old) \cup d.new
           running == box_P[d.of] = "running"
           k == P!Task(d.of, list)
<1>1. d \in Draft /\ d.of \in Container /\ d.was \in SUBSET P!Mapping /\ d.old \in SUBSET P!Mapping
      /\ d.new \in SUBSET P!Mapping
  BY DEF PortsInv, PortsTyped, Draft
<1>2. \A m \in d.was \cup d.old \cup d.new : m.of = d.of
  BY DEF PortsInv, DraftsFit
<1>3. \A m, o \in d.new : m = o
  BY DEF PortsInv, DraftsFit
<1>4. /\ d.old \subseteq row_P /\ row_P' = (row_P \ d.old) \cup d.new
      /\ \A m \in d.new : \A o \in row_P \ d.old : o.host # m.host
      /\ tasks_P' = IF running THEN Append(tasks_P, k) ELSE tasks_P
      /\ access' = IF running /\ P!HasSsh(list) THEN [access EXCEPT ![d.of] = "pending"] ELSE access
      /\ astray_P' = IF running /\ P!RowsOf(d.of) = d.was THEN astray_P ELSE astray_P \cup {d.of}
      /\ drafts_P' = drafts_P \ {d}
      /\ UNCHANGED <<ids, box_P, device_P, asked_P, faults_P, cluttered>>
      /\ UNCHANGED <<router, listens, clients, deaf>>
  BY DEF P!Commits, P!proxy
<1>5. list \in SUBSET P!Mapping /\ k \in Sync /\ k.of = d.of /\ k.list = list
  BY <1>1 DEF P!Task, Sync
<1> HIDE DEF k
<1>6. /\ tasks_P' \in Seq(Sync)
      /\ \A j \in DOMAIN tasks_P : j \in DOMAIN tasks_P' /\ tasks_P'[j] = tasks_P[j]
      /\ running => \E n \in DOMAIN tasks_P' : /\ tasks_P'[n] = k /\ \A j \in DOMAIN tasks_P : j < n
                                          /\ \A j \in DOMAIN tasks_P' : j \in DOMAIN tasks_P \/ j = n
      /\ ~running => tasks_P' = tasks_P
  <2>1. tasks_P \in Seq(Sync)
    BY DEF PortsInv, PortsTyped
  <2>2. CASE ~running
    BY <1>4, <2>1, <2>2
  <2>3. CASE running
    <3>1. tasks_P' = Append(tasks_P, k)
      BY <1>4, <2>3
    <3>2. Len(tasks_P) \in Nat /\ DOMAIN tasks_P = 1..Len(tasks_P)
      BY <2>1, LenProperties
    <3>3. /\ tasks_P' \in Seq(Sync) /\ Len(tasks_P') = Len(tasks_P) + 1
          /\ \A j \in 1..Len(tasks_P) : tasks_P'[j] = tasks_P[j]
          /\ tasks_P'[Len(tasks_P) + 1] = k
      BY <1>5, <2>1, <3>1, AppendProperties
    <3>4. DOMAIN tasks_P' = 1..(Len(tasks_P) + 1)
      BY <3>3, LenProperties
    <3>5. /\ Len(tasks_P) + 1 \in DOMAIN tasks_P' /\ \A j \in DOMAIN tasks_P : j < Len(tasks_P) + 1
          /\ \A j \in DOMAIN tasks_P' : j \in DOMAIN tasks_P \/ j = Len(tasks_P) + 1
          /\ \A j \in DOMAIN tasks_P : j \in DOMAIN tasks_P' /\ tasks_P'[j] = tasks_P[j]
      BY <3>2, <3>3, <3>4
    <3>6. QED
      BY <2>3, <3>3, <3>5
  <2>4. QED
    BY <2>2, <2>3
<1>7. /\ row_P \in SUBSET P!Mapping /\ access \in [Container -> {"pending", "ready", "failed"}]
  BY DEF PortsInv, PortsTyped, P!TypeOK
<1>8. PortsTyped'
  <2>1. row_P' \subseteq P!Mapping /\ access' \in [Container -> {"pending", "ready", "failed"}]
    BY <1>1, <1>4, <1>7
  <2>2. QED
    BY <1>4, <1>6, <2>1 DEF PortsInv, PortsTyped, P!TypeOK
<1>9. DraftsFit'
  BY <1>4 DEF PortsInv, DraftsFit
<1>10. HostsDiffer'
  BY <1>3, <1>4 DEF PortsInv, HostsDiffer
<1> HIDE DEF running, list
<1>11. ASSUME NEW c \in Container \ astray_P'
       PROVE  /\ P!OpenSync(c)' = {} => Serves(c)'
              /\ \A i \in P!OpenSync(c)' : tasks_P'[i].list = P!RowsOf(c)' \/ \E j \in P!OpenSync(c)' : j > i
  <2>1. CASE c = d.of
    <3>1. running /\ P!RowsOf(c) = d.was
      BY <1>4, <1>11, <2>1
    <3>2. P!RowsOf(c)' = list
      BY <1>2, <1>4, <2>1, <3>1 DEF P!RowsOf, list
    <3>3. PICK n \in DOMAIN tasks_P' : /\ tasks_P'[n] = k /\ \A j \in DOMAIN tasks_P : j < n
                                     /\ \A j \in DOMAIN tasks_P' : j \in DOMAIN tasks_P \/ j = n
      BY <1>6, <3>1
    <3>4. n \in P!OpenSync(c)' /\ tasks_P'[n].list = P!RowsOf(c)'
      BY <1>5, <2>1, <3>2, <3>3 DEF P!OpenSync
    <3>5. n \in Nat /\ DOMAIN tasks_P \subseteq Nat
      BY <1>6, LenProperties DEF PortsInv, PortsTyped
    <3>6. \A i \in P!OpenSync(c)' : i = n \/ n > i
      BY <3>3, <3>5 DEF P!OpenSync
    <3>7. QED
      BY <3>4, <3>6
  <2>2. CASE c # d.of
    <3>1. c \notin astray_P
      BY <1>4, <1>11
    <3>2. P!RowsOf(c)' = P!RowsOf(c)
      BY <1>2, <1>4, <2>2 DEF P!RowsOf
    <3>3. P!OpenSync(c)' = P!OpenSync(c) /\ \A i \in P!OpenSync(c) : tasks_P'[i] = tasks_P[i]
      BY <1>5, <1>6, <2>2 DEF P!OpenSync
    <3>4. Serves(c)' <=> Serves(c)
      BY <1>4, <3>2 DEF Serves
    <3>5. QED
      BY <3>1, <3>2, <3>3, <3>4 DEF PortsInv, NewestIsTrue
  <2>3. QED
    BY <2>1, <2>2
<1>12. NewestIsTrue'
  BY <1>11 DEF NewestIsTrue
<1>13. P!AccessSettles'
  <2> SUFFICES ASSUME NEW c \in Container, access'[c] = "pending"
               PROVE  \E i \in P!OpenSync(c)' : P!HasSsh(tasks_P'[i].list)
    BY DEF P!AccessSettles, P!HasSsh
  <2>1. CASE access[c] = "pending"
    <3>1. PICK i \in P!OpenSync(c) : P!HasSsh(tasks_P[i].list)
      BY <2>1 DEF PortsInv, P!AccessSettles
    <3>2. i \in P!OpenSync(c)' /\ tasks_P'[i] = tasks_P[i]
      BY <1>6, <3>1 DEF P!OpenSync
    <3>3. QED
      BY <3>1, <3>2
  <2>2. CASE access[c] # "pending"
    <3>1. c = d.of /\ running /\ P!HasSsh(list)
      BY <1>4, <1>7, <2>2
    <3>2. PICK n \in DOMAIN tasks_P' : tasks_P'[n] = k
      BY <1>6, <3>1
    <3>3. n \in P!OpenSync(c)' /\ tasks_P'[n].list = list
      BY <1>5, <3>1, <3>2 DEF P!OpenSync
    <3>4. QED
      BY <3>1, <3>3
  <2>3. QED
    BY <2>1, <2>2
<1>14. QED
  BY <1>4, <1>8, <1>9, <1>10, <1>12, <1>13, ListeningKept DEF PortsInv

LEMMA RollsBackStep ==
  ASSUME P!Parameters, PortsInv, NEW d \in drafts_P, P!RollsBack(d)
  PROVE  PortsInv'
<1>1. /\ drafts_P' = drafts_P \ {d}
      /\ UNCHANGED <<row_P, ids, box_P, access, device_P, tasks_P, asked_P, faults_P, astray_P, cluttered>>
      /\ UNCHANGED <<router, listens, clients, deaf>>
  BY DEF P!RollsBack, P!proxy
<1>2. PortsTyped' /\ DraftsFit' /\ HostsDiffer'
  BY <1>1 DEF PortsInv, PortsTyped, P!TypeOK, DraftsFit, HostsDiffer
<1>3. QED
  BY <1>1, <1>2, SyncsKept, AccessKept, ListeningKept DEF PortsInv

LEMMA PortsRestartStep ==
  ASSUME P!Parameters, PortsInv, P!Restart
  PROVE  PortsInv'
<1>0. PICK claimed \in 0..1 : \E cs \in SetToSeqs(P!Unserved(claimed)) :
        tasks_P' = tasks_P \o [i \in DOMAIN cs |-> P!Task(cs[i], P!RowsOf(cs[i]))]
  BY SameLists DEF P!Restart
<1>1. PICK cs \in SetToSeqs(P!Unserved(claimed)) :
        tasks_P' = tasks_P \o [i \in DOMAIN cs |-> P!Task(cs[i], P!RowsOf(cs[i]))]
  BY <1>0
<1>2. /\ P!Ask /\ UNCHANGED <<row_P, ids, box_P, access, device_P, drafts_P, faults_P, astray_P, cluttered>>
      /\ UNCHANGED <<router, listens, clients, deaf>>
  BY DEF P!Restart, P!proxy
<1> DEFINE n == Cardinality(P!Unserved(claimed))
           more == [i \in DOMAIN cs |-> P!Task(cs[i], P!RowsOf(cs[i]))]
<1>3. n \in Nat
  <2>1. P!Unserved(claimed) \subseteq Container
    BY DEF P!Unserved
  <2>2. QED
    BY <2>1, SameLists, FS_Subset, FS_CardinalityType DEF P!Parameters
<1>4. cs \in [1..n -> P!Unserved(claimed)]
  BY DEF SetToSeqs
<1> HIDE DEF n
<1>5. /\ more \in Seq(Sync) /\ DOMAIN more = 1..n
      /\ \A l \in DOMAIN more : more[l].list = P!RowsOf(more[l].of)
  <2>1. \A i \in 1..n : cs[i] \in Container
    BY <1>4 DEF P!Unserved
  <2>2. \A c \in Container : P!RowsOf(c) \in SUBSET P!Mapping
    BY DEF P!RowsOf, PortsInv, PortsTyped, P!TypeOK
  <2>3. \A i \in 1..n : P!Task(cs[i], P!RowsOf(cs[i])) \in Sync
    BY <2>1, <2>2 DEF P!Task, Sync
  <2>4. more \in [1..n -> Sync]
    BY <1>4, <2>3
  <2>5. QED
    BY <1>3, <2>4, SeqDef DEF P!Task
<1> HIDE DEF more
<1>6. tasks_P' = tasks_P \o more
  BY <1>1 DEF more
<1>7. tasks_P \in Seq(Sync)
  BY DEF PortsInv, PortsTyped
<1>8. /\ tasks_P' \in Seq(Sync)
      /\ \A j \in DOMAIN tasks_P : j \in DOMAIN tasks_P' /\ tasks_P'[j] = tasks_P[j]
      /\ \A j \in DOMAIN tasks_P' \ DOMAIN tasks_P : tasks_P'[j].list = P!RowsOf(tasks_P'[j].of)
  <2>1. more \in Seq(Sync)
    BY <1>5
  <2>2. /\ tasks_P' \in Seq(Sync)
        /\ \A j \in DOMAIN tasks_P : j \in DOMAIN tasks_P' /\ tasks_P'[j] = tasks_P[j]
        /\ \A j \in DOMAIN tasks_P' \ DOMAIN tasks_P : \E l \in DOMAIN more : tasks_P'[j] = more[l]
    <3>1. tasks_P' \in Seq(Sync) /\ Lengthens(tasks_P', tasks_P, more)
      BY <1>6, <1>7, <2>1, Prolonged
    <3>2. QED
      BY <3>1 DEF Lengthens
  <2>3. QED
    BY <1>5, <2>2
<1>9. PortsTyped' /\ DraftsFit' /\ HostsDiffer'
  BY <1>2, <1>8, AskTyped DEF PortsInv, PortsTyped, P!TypeOK, DraftsFit, HostsDiffer
<1>10. ASSUME NEW c \in Container \ astray_P
       PROVE  /\ P!OpenSync(c)' = {} => Serves(c)
              /\ \A i \in P!OpenSync(c)' : tasks_P'[i].list = P!RowsOf(c) \/ \E j \in P!OpenSync(c)' : j > i
  <2>1. \A i \in P!OpenSync(c) : i \in P!OpenSync(c)' /\ tasks_P'[i] = tasks_P[i]
    BY <1>8 DEF P!OpenSync
  <2>2. \A i \in P!OpenSync(c)' : i \in P!OpenSync(c) \/ tasks_P'[i].list = P!RowsOf(c)
    BY <1>8 DEF P!OpenSync
  <2>3. QED
    BY <1>10, <2>1, <2>2 DEF PortsInv, NewestIsTrue
<1>11. NewestIsTrue'
  BY <1>2, <1>10 DEF NewestIsTrue, Serves, P!RowsOf
<1>12. P!AccessSettles'
  BY <1>2, <1>8 DEF PortsInv, P!AccessSettles, P!OpenSync, P!HasSsh
<1>13. QED
  BY <1>2, <1>9, <1>11, <1>12, ListeningKept DEF PortsInv

-----------------------------------------------------------------------------
(* The node *)

LEMMA TurnStep ==
  ASSUME P!Parameters, PortsInv, NEW c \in Container, P!Turn(c)
  PROVE  PortsInv'
<1>1. /\ P!Ask /\ UNCHANGED <<row_P, ids, access, device_P, drafts_P, tasks_P, faults_P, astray_P, cluttered>>
      /\ UNCHANGED <<router, listens, clients, deaf>>
      /\ box_P' \in [Container -> {"running", "stopped"}]
  BY DEF P!Turn, P!proxy, PortsInv, PortsTyped, P!TypeOK
<1>2. PortsTyped' /\ DraftsFit' /\ HostsDiffer'
  BY <1>1, AskTyped DEF PortsInv, PortsTyped, P!TypeOK, DraftsFit, HostsDiffer
<1>3. QED
  BY <1>1, <1>2, SyncsKept, AccessKept, ListeningKept DEF PortsInv

(* The newest of the open syncs of container c lists l.                    *)
Newest(c, l) == \A k \in P!OpenSync(c) : tasks_P[k].list = l \/ \E j \in P!OpenSync(c) : j > k
Oldest(c, i) == tasks_P[i].of # c \/ \A j \in P!OpenSync(c) : i <= j

(* Sync i was taken out of the queue; of those of container c it is the    *)
(* oldest, or none.                                                        *)
LEMMA SyncTakenOut ==
  ASSUME PortsInv, NEW i \in DOMAIN tasks_P, tasks_P' = P!Without(i), NEW c \in Container, NEW l,
         Oldest(c, i), Newest(c, l)
  PROVE  (P!OpenSync(c)' = {} => P!OpenSync(c) \subseteq {i}) /\ Newest(c, l)'
<1>1. tasks_P \in Seq(Sync)
  BY DEF PortsInv, PortsTyped
<1>2. /\ DOMAIN tasks_P' = 1..(Len(tasks_P) - 1) /\ DOMAIN tasks_P = 1..Len(tasks_P)
      /\ Len(tasks_P) \in Nat /\ i \in 1..Len(tasks_P)
      /\ \A j \in 1..(Len(tasks_P) - 1) : tasks_P'[j] = tasks_P[IF j < i THEN j ELSE j + 1]
  <2>1. tasks_P' \in Seq(Sync) /\ MovesUp(tasks_P', tasks_P, i)
    BY <1>1, MovedUp DEF P!Without
  <2>2. QED
    BY <2>1 DEF MovesUp
<1> DEFINE from(j) == IF j < i THEN j ELSE j + 1
           to(k) == IF k < i THEN k ELSE k - 1
<1>3. \A j \in DOMAIN tasks_P' : from(j) \in DOMAIN tasks_P /\ from(j) # i /\ tasks_P'[j] = tasks_P[from(j)]
  BY <1>2
<1>4. \A k \in DOMAIN tasks_P : k # i => to(k) \in DOMAIN tasks_P' /\ from(to(k)) = k
  BY <1>2
<1>5. \A j \in DOMAIN tasks_P', k \in DOMAIN tasks_P : k > from(j) /\ k # i => to(k) > j
  BY <1>2
<1>6. DOMAIN tasks_P \subseteq Nat /\ i \in Nat
  BY <1>2
<1> HIDE DEF from, to
<1>7. \A k \in P!OpenSync(c) : k # i => to(k) \in P!OpenSync(c)'
  BY <1>3, <1>4 DEF P!OpenSync
<1>8. ASSUME NEW k \in P!OpenSync(c)', tasks_P'[k].list # l
      PROVE  \E j \in P!OpenSync(c)' : j > k
  <2>1. from(k) \in P!OpenSync(c) /\ tasks_P[from(k)].list # l /\ from(k) # i
    BY <1>3, <1>8 DEF P!OpenSync
  <2>2. PICK j \in P!OpenSync(c) : j > from(k)
    BY <2>1 DEF Newest
  <2>3. j # i
    BY <1>6, <2>1, <2>2 DEF Oldest, P!OpenSync
  <2>4. to(j) \in P!OpenSync(c)' /\ to(j) > k
    BY <1>5, <1>7, <2>2, <2>3 DEF P!OpenSync
  <2>5. QED
    BY <2>4
<1>9. QED
  BY <1>7, <1>8 DEF Newest

LEMMA EndsStep ==
  ASSUME PortsInv, NEW i \in DOMAIN tasks_P, NEW s \in {"ready", "failed"}, P!Ends(i, s)
  PROVE  /\ tasks_P' = P!Without(i) /\ tasks_P' \in Seq(Sync) /\ tasks_P[i] \in Sync
         /\ access' \in [Container -> {"pending", "ready", "failed"}]
         /\ P!AccessSettles'
<1>1. tasks_P \in Seq(Sync)
  BY DEF PortsInv, PortsTyped
<1>2. tasks_P' = P!Without(i) /\ tasks_P[i] \in Sync /\ tasks_P[i].of \in Container
  <2>1. tasks_P[i] \in Sync
    BY <1>1, ElementOfSeq, LenProperties
  <2>2. QED
    BY <2>1 DEF P!Ends, Sync
<1>3. /\ tasks_P' \in Seq(Sync) /\ DOMAIN tasks_P' = 1..(Len(tasks_P) - 1) /\ DOMAIN tasks_P = 1..Len(tasks_P)
      /\ Len(tasks_P) \in Nat /\ i \in 1..Len(tasks_P)
      /\ \A j \in 1..(Len(tasks_P) - 1) : tasks_P'[j] = tasks_P[IF j < i THEN j ELSE j + 1]
  <2>1. tasks_P' = SubSeq(tasks_P, 1, i - 1) \o SubSeq(tasks_P, i + 1, Len(tasks_P))
    BY <1>2 DEF P!Without
  <2>2. tasks_P' \in Seq(Sync) /\ MovesUp(tasks_P', tasks_P, i)
    BY <1>1, <2>1, MovedUp
  <2>3. QED
    BY <2>2 DEF MovesUp
<1>4. access \in [Container -> {"pending", "ready", "failed"}]
  BY DEF PortsInv, PortsTyped, P!TypeOK
<1>5. access' = IF P!HasSsh(tasks_P[i].list) THEN [access EXCEPT ![tasks_P[i].of] = s] ELSE access
  BY DEF P!Ends
<1>6. \A k \in DOMAIN tasks_P : k # i => \E j \in DOMAIN tasks_P' : tasks_P'[j] = tasks_P[k]
  <2> SUFFICES ASSUME NEW k \in DOMAIN tasks_P, k # i
               PROVE  \E j \in DOMAIN tasks_P' : tasks_P'[j] = tasks_P[k]
    OBVIOUS
  <2>1. CASE k < i
    <3>1. k \in DOMAIN tasks_P' /\ tasks_P'[k] = tasks_P[k]
      BY <1>3, <2>1
    <3>2. QED
      BY <3>1
  <2>2. CASE ~(k < i)
    <3>1. k - 1 \in DOMAIN tasks_P' /\ ~(k - 1 < i) /\ k - 1 + 1 = k
      BY <1>3, <2>2
    <3>2. tasks_P'[k - 1] = tasks_P[k]
      BY <1>3, <3>1
    <3>3. QED
      BY <3>1, <3>2
  <2>3. QED
    BY <2>1, <2>2
<1>7. ASSUME NEW c \in Container, access'[c] = "pending"
      PROVE  \E j \in P!OpenSync(c)' : P!HasSsh(tasks_P'[j].list)
  <2>1. access[c] = "pending" /\ (P!HasSsh(tasks_P[i].list) => c # tasks_P[i].of)
    BY <1>2, <1>4, <1>5, <1>7
  <2>2. PICK k \in P!OpenSync(c) : P!HasSsh(tasks_P[k].list)
    BY <2>1 DEF PortsInv, P!AccessSettles
  <2>3. k \in DOMAIN tasks_P /\ k # i /\ tasks_P[k].of = c
    BY <2>1, <2>2 DEF P!OpenSync
  <2>4. PICK j \in DOMAIN tasks_P' : tasks_P'[j] = tasks_P[k]
    BY <1>6, <2>3
  <2>5. j \in P!OpenSync(c)'
    BY <2>3, <2>4 DEF P!OpenSync
  <2>6. QED
    BY <2>2, <2>4, <2>5
<1>8. access' \in [Container -> {"pending", "ready", "failed"}]
  BY <1>2, <1>4, <1>5
<1>9. P!AccessSettles'
  BY <1>7 DEF P!AccessSettles, P!HasSsh
<1>10. QED
  BY <1>2, <1>3, <1>8, <1>9

LEMMA PortsExecuteStep ==
  ASSUME P!Parameters, PortsInv, NEW i \in DOMAIN tasks_P, P!Execute(i)
  PROVE  PortsInv'
<1> DEFINE t == tasks_P[i]
<1>0. PICK kept \in P!Kept(i) : P!Proxies(t.of, t.list, kept) /\ P!Costs(P!ForKept(kept))
  BY DEF P!Execute
<1>1. /\ device_P' = [device_P EXCEPT ![t.of] = t.list \cup kept]
      /\ cluttered' = IF kept = {} THEN cluttered \ {t.of} ELSE cluttered \cup {t.of}
      /\ astray_P' = IF P!Overtaken(i) THEN astray_P \cup {t.of}
                   ELSE IF t.list = P!RowsOf(t.of) /\ P!OpenSync(t.of) = {i}
                        THEN astray_P \ {t.of} ELSE astray_P
      /\ P!Ends(i, "ready")
      /\ UNCHANGED <<row_P, ids, box_P, drafts_P, asked_P>>
      /\ UNCHANGED <<router, listens, clients, deaf>>
  BY <1>0 DEF P!Execute, P!proxy, P!Proxies
<1>2. /\ tasks_P' = P!Without(i) /\ tasks_P' \in Seq(Sync) /\ t \in Sync
      /\ access' \in [Container -> {"pending", "ready", "failed"}]
      /\ P!AccessSettles'
  BY <1>1, EndsStep
<1>3. t.of \in Container /\ t.list \in SUBSET P!Mapping /\ device_P \in [Container -> SUBSET P!Mapping]
  BY <1>2 DEF Sync, PortsInv, PortsTyped, P!TypeOK
<1>4. device_P' \in [Container -> SUBSET P!Mapping] /\ faults_P' \in 0..MaxFaults
  <2>1. kept \subseteq device_P[t.of]
    BY <1>0 DEF P!Kept
  <2>2. device_P' \in [Container -> SUBSET P!Mapping]
    BY <1>1, <1>3, <2>1
  <2>3. P!ForKept(kept) \in 0..1
    BY DEF P!ForKept
  <2>4. QED
    BY <1>0, <2>2, <2>3, CostTyped DEF PortsInv
<1>5. PortsTyped' /\ DraftsFit' /\ HostsDiffer'
  BY <1>1, <1>2, <1>4 DEF PortsInv, PortsTyped, P!TypeOK, DraftsFit, HostsDiffer
<1>6. DOMAIN tasks_P \subseteq Nat
  BY LenProperties DEF PortsInv, PortsTyped
<1>7. ASSUME NEW c \in Container \ astray_P'
      PROVE  /\ P!OpenSync(c)' = {} => Serves(c)'
             /\ \A k \in P!OpenSync(c)' : tasks_P'[k].list = P!RowsOf(c) \/ \E j \in P!OpenSync(c)' : j > k
  <2>0. PICK l : l = P!RowsOf(c)
    OBVIOUS
  <2>1. CASE c # t.of
    <3>1. c \notin astray_P /\ (Serves(c)' <=> Serves(c)) /\ i \notin P!OpenSync(c)
      BY <1>1, <1>3, <1>7, <2>1 DEF P!OpenSync, P!RowsOf, Serves
    <3>2. /\ P!OpenSync(c) = {} => Serves(c)
          /\ Newest(c, l)
      BY <2>0, <3>1 DEF PortsInv, NewestIsTrue, Newest
    <3>3. Oldest(c, i)
      BY <2>1 DEF Oldest
    <3>4. /\ P!OpenSync(c)' = {} => P!OpenSync(c) \subseteq {i}
          /\ Newest(c, l)'
      BY <1>2, <3>2, <3>3, SyncTakenOut
    <3>5. QED
      BY <2>0, <3>1, <3>2, <3>4 DEF Newest
  <2>2. CASE c = t.of
    <3>1. i \in P!OpenSync(c) /\ ~P!Overtaken(i)
      BY <1>1, <1>7, <2>2 DEF P!OpenSync
    <3>2. Oldest(c, i)
      <4>1. ASSUME NEW j \in P!OpenSync(c), ~(i <= j) PROVE FALSE
        <5>1. j \in 1..(i - 1) /\ tasks_P[j].of = tasks_P[i].of
          <6>1. tasks_P \in Seq(Sync)
            BY DEF PortsInv, PortsTyped
          <6>2. j \in 1..Len(tasks_P) /\ i \in 1..Len(tasks_P) /\ Len(tasks_P) \in Nat
            BY <6>1, LenProperties DEF P!OpenSync
          <6>3. QED
            BY <2>2, <4>1, <6>2 DEF P!OpenSync
        <5>2. QED
          BY <3>1, <5>1 DEF P!Overtaken
      <4>2. QED
        BY <4>1 DEF Oldest
    <3>3. t.list = P!RowsOf(c) => Serves(c)'
      BY <1>1, <1>3, <2>2 DEF Serves, P!RowsOf
    <3>4. CASE t.list = P!RowsOf(c) /\ P!OpenSync(c) = {i}
      <4>1. Newest(c, l)
        BY <2>0, <3>4 DEF Newest
      <4>2. Newest(c, l)'
        BY <1>2, <3>2, <4>1, SyncTakenOut
      <4>3. QED
        BY <2>0, <3>3, <3>4, <4>2 DEF Newest
    <3>5. CASE ~(t.list = P!RowsOf(c) /\ P!OpenSync(c) = {i})
      <4>1. c \notin astray_P
        BY <1>1, <1>7, <2>2, <3>1, <3>5
      <4>2. Newest(c, l)
        BY <2>0, <4>1 DEF PortsInv, NewestIsTrue, Newest
      <4>3. /\ P!OpenSync(c)' = {} => P!OpenSync(c) \subseteq {i}
            /\ Newest(c, l)'
        BY <1>2, <3>2, <4>2, SyncTakenOut
      <4>4. ~(P!OpenSync(c) \subseteq {i})
        <5>1. i \in Nat /\ ~(i > i)
          BY <1>6
        <5>2. QED
          BY <2>0, <3>1, <3>5, <4>2, <5>1 DEF Newest
      <4>5. QED
        BY <2>0, <4>3, <4>4 DEF Newest
    <3>6. QED
      BY <3>4, <3>5
  <2>3. QED
    BY <2>1, <2>2
<1>8. NewestIsTrue'
  BY <1>1, <1>7 DEF NewestIsTrue, P!RowsOf
<1>9. QED
  BY <1>1, <1>2, <1>5, <1>8, ListeningKept DEF PortsInv

LEMMA PortsExecuteFailsStep ==
  ASSUME P!Parameters, PortsInv, NEW i \in DOMAIN tasks_P, P!ExecuteFails(i)
  PROVE  PortsInv'
<1> DEFINE t == tasks_P[i]
<1>1. PICK kept \in P!Kept(i), some \in SUBSET t.list :
        /\ P!Proxies(t.of, some, kept)
        /\ P!Costs(IF P!Clash(t.of, t.list) THEN P!ForKept(kept) ELSE 1)
  BY DEF P!ExecuteFails, P!Stops
<1>2. /\ device_P' = [device_P EXCEPT ![t.of] = some \cup kept]
      /\ cluttered' = IF kept = {} THEN cluttered \ {t.of} ELSE cluttered \cup {t.of}
      /\ astray_P' = astray_P \cup {t.of}
      /\ P!Ends(i, "failed")
      /\ UNCHANGED <<row_P, ids, box_P, drafts_P, asked_P>>
      /\ UNCHANGED <<router, listens, clients, deaf>>
  BY <1>1 DEF P!ExecuteFails, P!Stops, P!proxy, P!Proxies
<1>3. /\ tasks_P' = P!Without(i) /\ tasks_P' \in Seq(Sync) /\ t \in Sync
      /\ access' \in [Container -> {"pending", "ready", "failed"}]
      /\ P!AccessSettles'
  BY <1>2, EndsStep
<1>4. t.of \in Container /\ t.list \in SUBSET P!Mapping /\ device_P \in [Container -> SUBSET P!Mapping]
  BY <1>3 DEF Sync, PortsInv, PortsTyped, P!TypeOK
<1>5. device_P' \in [Container -> SUBSET P!Mapping]
  <2>1. kept \subseteq device_P[t.of]
    BY <1>1 DEF P!Kept
  <2>2. QED
    BY <1>2, <1>4, <2>1
<1>6. faults_P' \in 0..MaxFaults
  <2>1. (IF P!Clash(t.of, t.list) THEN P!ForKept(kept) ELSE 1) \in 0..1
    BY DEF P!ForKept
  <2>2. QED
    BY <1>1, <2>1, CostTyped DEF PortsInv
<1>7. PortsTyped' /\ DraftsFit' /\ HostsDiffer'
  BY <1>2, <1>3, <1>5, <1>6 DEF PortsInv, PortsTyped, P!TypeOK, DraftsFit, HostsDiffer
<1>8. ASSUME NEW c \in Container \ astray_P'
      PROVE  /\ P!OpenSync(c)' = {} => Serves(c)'
             /\ \A k \in P!OpenSync(c)' : tasks_P'[k].list = P!RowsOf(c) \/ \E j \in P!OpenSync(c)' : j > k
  <2>0. PICK l : l = P!RowsOf(c)
    OBVIOUS
  <2>1. c \notin astray_P /\ (Serves(c)' <=> Serves(c)) /\ tasks_P[i].of # c
    BY <1>2, <1>4, <1>8 DEF Serves, P!RowsOf
  <2>2. /\ P!OpenSync(c) = {} => Serves(c)
        /\ Newest(c, l)
    BY <2>0, <2>1 DEF PortsInv, NewestIsTrue, Newest
  <2>3. /\ P!OpenSync(c)' = {} => P!OpenSync(c) \subseteq {i}
        /\ Newest(c, l)'
    <3>1. Oldest(c, i)
      BY <2>1 DEF Oldest
    <3>2. QED
      BY <1>3, <2>2, <3>1, SyncTakenOut
  <2>4. i \notin P!OpenSync(c)
    BY <2>1 DEF P!OpenSync
  <2>5. QED
    BY <2>0, <2>1, <2>2, <2>3, <2>4 DEF Newest
<1>9. NewestIsTrue'
  BY <1>2, <1>8 DEF NewestIsTrue, P!RowsOf
<1>10. QED
  BY <1>2, <1>3, <1>7, <1>9, ListeningKept DEF PortsInv

LEMMA PortsExecuteUnheardStep ==
  ASSUME P!Parameters, PortsInv, NEW i \in DOMAIN tasks_P, P!ExecuteUnheard(i)
  PROVE  PortsInv'
<1> DEFINE t == tasks_P[i]
<1>0. PICK kept \in P!Kept(i) : P!Proxies(t.of, t.list, kept) /\ P!Costs(1 + P!ForKept(kept))
  BY DEF P!ExecuteUnheard
<1>1. /\ device_P' = [device_P EXCEPT ![t.of] = t.list \cup kept]
      /\ cluttered' = IF kept = {} THEN cluttered \ {t.of} ELSE cluttered \cup {t.of}
      /\ tasks_P' = [tasks_P EXCEPT ![i].lost = TRUE]
      /\ UNCHANGED <<row_P, ids, box_P, access, drafts_P, asked_P, astray_P>>
      /\ UNCHANGED <<router, listens, clients, deaf>>
  BY <1>0 DEF P!ExecuteUnheard, P!proxy, P!Proxies
<1>2. tasks_P \in Seq(Sync) /\ t \in Sync
  BY ElementOfSeq, LenProperties DEF PortsInv, PortsTyped
<1>3. t.of \in Container /\ t.list \in SUBSET P!Mapping /\ device_P \in [Container -> SUBSET P!Mapping]
  BY <1>2 DEF Sync, PortsInv, PortsTyped, P!TypeOK
<1> DEFINE u == [t EXCEPT !.lost = TRUE]
<1>4. u \in Sync /\ u.of = t.of /\ u.list = t.list
  BY <1>2 DEF Sync
<1>5. tasks_P' = [tasks_P EXCEPT ![i] = u]
  BY <1>1
<1> HIDE DEF u
<1>6. tasks_P' \in Seq(Sync) /\ DOMAIN tasks_P' = DOMAIN tasks_P
  BY <1>2, <1>4, <1>5, ExceptSeq
<1>7. \A j \in DOMAIN tasks_P : tasks_P'[j].of = tasks_P[j].of /\ tasks_P'[j].list = tasks_P[j].list
  BY <1>2, <1>4, <1>5
<1>8. \A c \in Container : P!OpenSync(c)' = P!OpenSync(c)
  BY <1>6, <1>7 DEF P!OpenSync
<1>9. device_P' \in [Container -> SUBSET P!Mapping] /\ faults_P' \in 0..MaxFaults
  <2>1. kept \subseteq device_P[t.of]
    BY <1>0 DEF P!Kept
  <2>2. device_P' \in [Container -> SUBSET P!Mapping]
    BY <1>1, <1>3, <2>1
  <2>3. 1 + P!ForKept(kept) \in Nat
    BY DEF P!ForKept
  <2>4. QED
    BY <1>0, <2>2, <2>3, CostTyped DEF PortsInv
<1>10. PortsTyped' /\ DraftsFit' /\ HostsDiffer'
  BY <1>1, <1>6, <1>9 DEF PortsInv, PortsTyped, P!TypeOK, DraftsFit, HostsDiffer
<1>11. \A c \in Container : (Serves(c)' <=> Serves(c)) \/ i \in P!OpenSync(c)
  BY <1>1, <1>3 DEF P!OpenSync, P!RowsOf, Serves
<1>12. \A c \in Container : \A k \in P!OpenSync(c) : tasks_P'[k].list = tasks_P[k].list
  BY <1>7 DEF P!OpenSync
<1>13. ASSUME NEW c \in Container \ astray_P
       PROVE  /\ P!OpenSync(c)' = {} => Serves(c)'
              /\ \A k \in P!OpenSync(c)' : tasks_P'[k].list = P!RowsOf(c) \/ \E j \in P!OpenSync(c)' : j > k
  BY <1>8, <1>11, <1>12 DEF PortsInv, NewestIsTrue
<1>14. NewestIsTrue'
  BY <1>1, <1>13 DEF NewestIsTrue, P!RowsOf
<1>15. P!AccessSettles'
  BY <1>1, <1>8, <1>12 DEF PortsInv, P!AccessSettles, P!HasSsh
<1>16. QED
  BY <1>1, <1>10, <1>14, <1>15, ListeningKept DEF PortsInv

-----------------------------------------------------------------------------
(* The router *)

(* A step of the router leaves everything else alone.                      *)
LEMMA RouterSteps ==
  ASSUME P!Parameters, PortsInv, UNCHANGED <<row_P, ids, box_P, access, device_P, drafts_P, tasks_P, astray_P, cluttered>>,
         faults_P' \in 0..MaxFaults, asked_P' \in 0..MaxAsked_P,
         router' \in [at : {"idle", "closing", "waiting"}, seen : SUBSET P!Route],
         listens' \subseteq P!Route, clients' \subseteq HostPort,
         \A m, o \in router'.seen : m.host = o.host => m = o,
         Listening'
  PROVE  PortsInv'
<1>1. /\ router'.at \in {"idle", "closing", "waiting"} /\ router'.seen \subseteq P!Route
  OBVIOUS
<1>2. P!TypeOK'
  BY <1>1 DEF PortsInv, PortsTyped, P!TypeOK
<1>3. PortsTyped' /\ DraftsFit' /\ HostsDiffer'
  BY <1>2 DEF PortsInv, PortsTyped, DraftsFit, HostsDiffer
<1>4. QED
  BY <1>3, SyncsKept, AccessKept DEF PortsInv

LEMMA RouterTyped ==
  ASSUME PortsInv
  PROVE  /\ router \in [at : {"idle", "closing", "waiting"}, seen : SUBSET P!Route]
         /\ router.seen \in SUBSET P!Route /\ listens \subseteq P!Route /\ clients \subseteq HostPort
         /\ faults_P \in 0..MaxFaults /\ asked_P \in 0..MaxAsked_P
         /\ \A m, o \in router.seen : m.host = o.host => m = o
BY DEF PortsInv, PortsTyped, P!TypeOK, HostsDiffer

LEMMA RoutesFit ==
  ASSUME PortsInv
  PROVE  /\ P!Routes \subseteq P!Route
         /\ \A m, o \in P!Routes : m.host = o.host => m = o
<1>1. row_P \subseteq P!Mapping /\ \A m, o \in row_P : m.host = o.host => m = o
  BY DEF PortsInv, PortsTyped, P!TypeOK, HostsDiffer
<1>2. \A m \in row_P : [m EXCEPT !.id = 0] \in P!Route /\ [m EXCEPT !.id = 0].host = m.host
  BY <1>1 DEF P!Mapping, P!Route
<1>3. \A r \in P!Routes : \E m \in row_P : r = [m EXCEPT !.id = 0]
  BY DEF P!Routes
<1>4. ASSUME NEW r \in P!Routes, NEW q \in P!Routes, r.host = q.host PROVE r = q
  <2>1. PICK m \in row_P : r = [m EXCEPT !.id = 0]
    BY <1>3
  <2>2. PICK o \in row_P : q = [o EXCEPT !.id = 0]
    BY <1>3
  <2>3. r.host = m.host /\ q.host = o.host
    BY <1>2, <2>1, <2>2
  <2>4. m = o
    BY <1>1, <1>4, <2>3
  <2>5. QED
    BY <2>1, <2>2, <2>4
<1>5. P!Routes \subseteq P!Route
  BY <1>2, <1>3
<1>6. QED
  BY <1>4, <1>5

LEMMA FetchStep ==
  ASSUME P!Parameters, PortsInv, P!Fetch
  PROVE  PortsInv'
<1>1. /\ router' = [at |-> "closing", seen |-> P!Routes]
      /\ UNCHANGED <<listens, clients, asked_P, deaf>>
      /\ UNCHANGED <<row_P, ids, box_P, access, device_P, drafts_P, tasks_P, faults_P, astray_P, cluttered>>
  BY DEF P!Fetch, P!rest
<1>2. /\ router' \in [at : {"idle", "closing", "waiting"}, seen : SUBSET P!Route]
      /\ router'.seen = P!Routes /\ router'.at = "closing"
  BY <1>1, RoutesFit
<1>3. Listening'
  BY <1>2 DEF Listening
<1>4. QED
  BY <1>1, <1>2, <1>3, RouterTyped, RoutesFit, RouterSteps

LEMMA CloseListenerStep ==
  ASSUME P!Parameters, PortsInv, NEW m \in listens, P!CloseListener(m)
  PROVE  PortsInv'
<1>1. /\ router.at = "closing" /\ listens' = listens \ {m}
      /\ router' = IF m.host \in clients THEN [router EXCEPT !.at = "waiting"] ELSE router
      /\ UNCHANGED <<clients, asked_P, deaf>>
      /\ UNCHANGED <<row_P, ids, box_P, access, device_P, drafts_P, tasks_P, faults_P, astray_P, cluttered>>
  BY DEF P!CloseListener, P!rest
<1>2. /\ router' \in [at : {"idle", "closing", "waiting"}, seen : SUBSET P!Route]
      /\ router'.seen = router.seen /\ router'.at # "idle"
  BY <1>1, RouterTyped
<1>3. Listening'
  BY <1>2 DEF Listening
<1>4. listens' \subseteq P!Route
  BY <1>1, RouterTyped
<1>5. QED
  BY <1>1, <1>2, <1>3, <1>4, RouterTyped, RouterSteps

LEMMA OpenListenersStep ==
  ASSUME P!Parameters, PortsInv, P!OpenListeners
  PROVE  PortsInv'
<1> DEFINE new == {m \in router.seen : \A o \in listens : o.host # m.host}
<1>1. /\ \A m \in listens : m \in router.seen
      /\ router' = [router EXCEPT !.at = "idle"]
      /\ \/ listens' = listens \cup new /\ UNCHANGED faults_P
         \/ \E m \in new : /\ listens' = listens \cup (new \ {m})
                           /\ deaf' = {m.host} /\ P!Fault
      /\ UNCHANGED <<row_P, ids, box_P, access, device_P, drafts_P, tasks_P, astray_P, cluttered,
                   clients, asked_P>>
  BY DEF P!OpenListeners, P!Outdated
<1>2. /\ router' \in [at : {"idle", "closing", "waiting"}, seen : SUBSET P!Route]
      /\ router'.seen = router.seen
  BY <1>1, RouterTyped
<1>3. listens \subseteq router.seen /\ new \subseteq router.seen
  BY <1>1
<1>4. \A m \in router.seen : m \in new \/ m \in listens
  BY <1>3, RouterTyped
<1> HIDE DEF new
<1>5. faults_P' \in 0..MaxFaults
  BY <1>1, RouterTyped, FaultTyped DEF PortsInv
<1>6. \A m \in router.seen \cup listens' : m.host \in deaf' \/ m \in router.seen \cap listens'
  <2>1. CASE listens' = listens \cup new
    BY <1>3, <1>4, <2>1
  <2>2. ASSUME NEW m \in new, listens' = listens \cup (new \ {m}), deaf' = {m.host}
        PROVE  \A o \in router.seen \cup listens' : o.host \in deaf' \/ o \in router.seen \cap listens'
    BY <1>3, <1>4, <2>2
  <2>3. QED
    BY <1>1, <2>1, <2>2
<1>7. Listening'
  BY <1>2, <1>6 DEF Listening, Heard
<1>8. listens' \subseteq P!Route
  BY <1>1, <1>3, RouterTyped
<1>9. QED
  BY <1>1, <1>2, <1>5, <1>7, <1>8, RouterTyped, RouterSteps

LEMMA ConnectStep ==
  ASSUME P!Parameters, PortsInv, NEW m \in listens, P!Connect(m)
  PROVE  PortsInv'
<1>1. /\ P!Ask /\ clients' = clients \cup {m.host}
      /\ UNCHANGED <<router, listens, deaf>>
      /\ UNCHANGED <<row_P, ids, box_P, access, device_P, drafts_P, tasks_P, faults_P, astray_P, cluttered>>
  BY DEF P!Connect, P!rest
<1>2. m \in P!Route
  BY RouterTyped
<1>3. clients' \subseteq HostPort
  BY <1>1, <1>2, RouterTyped DEF P!Route
<1>4. QED
  BY <1>1, <1>3, AskTyped, RouterTyped, ListeningKept, RouterSteps DEF PortsInv

LEMMA HangupStep ==
  ASSUME P!Parameters, PortsInv, NEW h \in HostPort, P!Hangup(h)
  PROVE  PortsInv'
<1>1. /\ clients' = clients \ {h}
      /\ router' = IF router.at = "waiting" /\ \A m \in listens : m.host # h
                   THEN [router EXCEPT !.at = "closing"] ELSE router
      /\ UNCHANGED <<listens, asked_P, deaf>>
      /\ UNCHANGED <<row_P, ids, box_P, access, device_P, drafts_P, tasks_P, faults_P, astray_P, cluttered>>
  BY DEF P!Hangup, P!rest
<1>2. /\ router' \in [at : {"idle", "closing", "waiting"}, seen : SUBSET P!Route]
      /\ router'.seen = router.seen /\ (router'.at = "idle" => router' = router)
  BY <1>1, RouterTyped
<1>3. Listening'
  BY <1>1, <1>2 DEF PortsInv, Listening, Heard
<1>4. clients' \subseteq HostPort
  BY <1>1, RouterTyped
<1>5. QED
  BY <1>1, <1>2, <1>3, <1>4, RouterTyped, RouterSteps

-----------------------------------------------------------------------------
LEMMA PortsStutter ==
  ASSUME PortsInv, UNCHANGED P!vars
  PROVE  PortsInv'
<1>1. UNCHANGED <<row_P, ids, box_P, access, device_P, drafts_P, tasks_P, faults_P, astray_P, cluttered, asked_P>>
      /\ UNCHANGED <<router, listens, clients, deaf>>
  BY DEF P!vars
<1>2. PortsTyped' /\ DraftsFit' /\ HostsDiffer'
  BY <1>1 DEF PortsInv, PortsTyped, P!TypeOK, DraftsFit, HostsDiffer
<1>3. QED
  BY <1>1, <1>2, SyncsKept, AccessKept, ListeningKept DEF PortsInv

LEMMA PortsStep ==
  ASSUME P!Parameters, PortsInv, [P!Next]_(P!vars)
  PROVE  PortsInv'
<1>1. CASE \E c \in Container : P!Turn(c) \/ \E to \in P!Inside : P!AddPort(c, to)
  BY <1>1, TurnStep, AddPortStep
<1>2. CASE \E m \in row_P : P!DeletePort(m) \/ \E to \in P!Inside : P!UpdatePort(m, to)
  BY <1>2, DeletePortStep, UpdatePortStep
<1>3. CASE \E d \in drafts_P : P!Commits(d) \/ P!RollsBack(d)
  BY <1>3, CommitsStep, RollsBackStep
<1>4. CASE P!Restart
  BY <1>4, PortsRestartStep
<1>5. CASE \E i \in DOMAIN tasks_P : P!Execute(i) \/ P!ExecuteFails(i) \/ P!ExecuteUnheard(i)
  BY <1>5, PortsExecuteStep, PortsExecuteFailsStep, PortsExecuteUnheardStep
<1>6. CASE P!Fetch \/ P!OpenListeners
  BY <1>6, FetchStep, OpenListenersStep
<1>7. CASE \E m \in listens : P!CloseListener(m) \/ P!Connect(m)
  BY <1>7, CloseListenerStep, ConnectStep
<1>8. CASE \E h \in HostPort : P!Hangup(h)
  BY <1>8, HangupStep
<1>9. CASE UNCHANGED P!vars
  BY <1>9, PortsStutter
<1>10. QED
  BY <1>1, <1>2, <1>3, <1>4, <1>5, <1>6, <1>7, <1>8, <1>9 DEF P!Next

LEMMA PortsMove == Spec => P!Spec
<1>1. Init => P!Init
  BY DEF Init
<1>2. [Next]_vars => [P!Next]_(P!vars)
  BY DEF Next, vars, directories, rules, volumes, hotMounts, ports, updates, waits,
         P!vars
<1>3. QED
  BY <1>1, <1>2, PTL DEF Spec, P!Spec

LEMMA PortsAlways == Spec => []PortsInv
<1>1. P!Init => PortsInv
  BY PlatformAssumption, PortsInit
<1>2. PortsInv /\ [P!Next]_(P!vars) => PortsInv'
  BY PlatformAssumption, PortsStep
<1>3. QED
  BY <1>1, <1>2, PortsMove, PTL DEF P!Spec

(* Types of the rows, the syncs under way, and what the router holds.      *)
THEOREM PortsTypeOK == Spec => []P!TypeOK
<1>1. PortsInv => P!TypeOK
  BY DEF PortsInv, PortsTyped
<1>2. QED
  BY <1>1, PortsAlways, PTL

(* Once its syncs are done, an instance has the proxies of its rows, and   *)
(* no others unless the last sync could not remove them; and a             *)
(* router at rest that has seen the rows listens for them and no others.   *)
THEOREM MappingsLeadHome == Spec => []PortsLeadHome
<1>1. ASSUME PortsInv PROVE PortsLeadHome
  <2>1. \A c \in Container : P!OpenSync(c) = {} /\ c \notin astray_P => Serves(c)
    BY <1>1 DEF PortsInv, NewestIsTrue
  <2>2. router.at = "idle" /\ router.seen = P!Routes =>
          \A m \in P!Routes \cup listens : m.host \in deaf \/ m \in P!Routes \cap listens
    BY <1>1 DEF PortsInv, Listening, Heard
  <2>3. QED
    BY <2>1, <2>2 DEF PortsLeadHome, P!PortsLeadHome, Serves
<1>2. QED
  BY <1>1, PortsAlways, PTL

(* access_status says pending only while a sync that will settle it is     *)
(* open.                                                                   *)
THEOREM PendingAccessEnds == Spec => []AccessSettles
<1>1. PortsInv => AccessSettles
  BY DEF PortsInv, AccessSettles
<1>2. QED
  BY <1>1, PortsAlways, PTL

-----------------------------------------------------------------------------
(* Every part keeps its types, whichever of them moves.                    *)
THEOREM PlatformTypeOK == Spec => []TypeOK
<1>1. D!TypeOK /\ S!TypeOK /\ V!TypeOK /\ M!TypeOK /\ P!TypeOK /\ A!TypeOK /\ E!TypeOK => TypeOK
  BY DEF TypeOK
<1>2. QED
  BY <1>1, DirectoriesTypeOK, RulesTypeOK, VolumeTypeOK, MountsTypeOK, PortsTypeOK, AgentTypeOK,
     TaskEventsTypeOK, PTL
=============================================================================
