-------------------------- MODULE OpenShellHoldProofs --------------------------
(***************************************************************************)
(* Theorems about OpenShellHold for any requests and denials, at any times,*)
(* any limit on the held and any batches: one denial excuses one request,  *)
(* and a request that waited is judged only when none is left for it.      *)
(***************************************************************************)
EXTENDS OpenShellHold, FiniteSetTheorems, TLAPS

IngestStep(failing, r, w)  == Ingest(r, w, failing)
ReleaseStep(failing, r, w) == ReleaseOne(r, w, failing)
InsertStep(none, d, kept)  == Insert(kept, d)

Ingesting == INSTANCE Folding WITH Op <- IngestStep
Releasing == INSTANCE Folding WITH Op <- ReleaseStep
Inserting == INSTANCE Folding WITH Op <- InsertStep

IsWaiting(f) == f \in {"held", "overdue"}

Works == [fate : [Requests -> Fate], stored : Seq(Denials), used : SUBSET Denials,
          failed : BOOLEAN, excusedBy : [Requests -> Denials \cup {NoDenial}]]

(* A denial a request was dropped for is marked used, or retention has     *)
(* deleted it for good; of no two requests is it the same.                 *)
ExcusedOK(w, old) ==
    /\ \A r \in Requests : w.excusedBy[r] # NoDenial =>
          w.excusedBy[r] \in w.used \cup (old \ ToSet(w.stored))
    /\ \A r1, r2 \in Requests :
          (r1 # r2 /\ w.excusedBy[r1] # NoDenial) => w.excusedBy[r1] # w.excusedBy[r2]

(* What every transaction leaves, old being the denials past retention.    *)
GoodWork(w, old) ==
    /\ w \in Works
    /\ IsInjective(w.stored) /\ w.used \subseteq ToSet(w.stored)
    /\ Cardinality(Waiting(w)) <= HeldMax
    /\ Waiting(w) # {} => guarded
    /\ ExcusedOK(w, old)

HoldInv ==
    /\ GoodWork(Work, aged)
    /\ aged \subseteq Denials /\ guarded \in BOOLEAN /\ reporting \in BOOLEAN

(* w after steps on some requests, the others' as they were: what is stored*)
(* stays, what is used stays used.                                         *)
Onward(w, v) == v.stored = w.stored /\ w.used \subseteq v.used
-----------------------------------------------------------------------------
(* The nearest denial is one of those found.                               *)
LEMMA NearestFound ==
    ASSUME NEW w \in Works, NEW r \in Requests, Found(w, r) # {}
    PROVE  Nearest(w, r) \in Found(w, r)
<1> DEFINE far(n) == Apart(r, w.stored[n])
           Far == {far(n) : n \in Found(w, r)}
<1>1. \A n \in Found(w, r) : n \in Nat /\ far(n) \in Nat
  <2> SUFFICES ASSUME NEW n \in Found(w, r) PROVE n \in Nat /\ far(n) \in Nat
    OBVIOUS
  <2>1. n \in DOMAIN w.stored /\ w.stored \in Seq(Denials)
    BY DEF Found, Works
  <2>2. n \in Nat /\ w.stored[n] \in Denials
    BY <2>1
  <2> QED BY <2>2, TimeAssumption DEF Apart
<1> HIDE DEF far
<1>2. PICK a \in Far : \A b \in Far : a <= b
  BY <1>1, Inserting!LeastNat
<1> DEFINE Near == {n \in Found(w, r) : far(n) = a}
<1>3. PICK m \in Near : \A n \in Near : m <= n
  <2>1. Near \subseteq Nat /\ Near # {}
    BY <1>1, <1>2
  <2> QED BY <2>1, Inserting!LeastNat
<1>4. \A n \in Found(w, r) : far(m) < far(n) \/ (far(m) = far(n) /\ m <= n)
  BY <1>1, <1>2, <1>3
<1> QED BY <1>3, <1>4 DEF Nearest, far

(* A request that is no longer waiting leaves the limit as it was.         *)
LEMMA FewerWaiting ==
    ASSUME NEW w \in Works, NEW v \in Works, Cardinality(Waiting(w)) <= HeldMax,
           Waiting(w) # {} => guarded, Waiting(v) \subseteq Waiting(w)
    PROVE  Cardinality(Waiting(v)) <= HeldMax /\ (Waiting(v) # {} => guarded)
<1>1. IsFiniteSet(Waiting(w))
  BY RequestAssumption, FS_Subset DEF Waiting
<1>2. Cardinality(Waiting(v)) <= Cardinality(Waiting(w))
  BY <1>1, FS_Subset
<1> QED BY <1>1, <1>2, FS_Subset, FS_CardinalityType, BoundAssumption

(* An excused request takes the nearest denial that fits, which excuses no *)
(* other.                                                                  *)
LEMMA ExcuseOK ==
    ASSUME NEW old, NEW w, GoodWork(w, old), NEW r \in Requests, Found(w, r) # {}
    PROVE  /\ GoodWork(Excuse(w, r), old) /\ Onward(w, Excuse(w, r))
           /\ Excuse(w, r).fate = [w.fate EXCEPT ![r] = "excused"]
<1> DEFINE d == w.stored[Nearest(w, r)]
           v == Excuse(w, r)
<1>1. w \in Works
  BY DEF GoodWork
<1>2. d \in ToSet(w.stored) /\ d \in Denials /\ d \notin w.used
  <2>1. Nearest(w, r) \in Found(w, r)
    BY <1>1, NearestFound
  <2> QED BY <1>1, <2>1 DEF Found, Works, ToSet
<1>3. v = [w EXCEPT !.fate[r] = "excused", !.excusedBy[r] = d, !.used = @ \cup {d}]
  BY DEF Excuse
<1> HIDE DEF d, v
<1>4. /\ v.fate = [w.fate EXCEPT ![r] = "excused"] /\ v.used = w.used \cup {d}
      /\ v.excusedBy = [w.excusedBy EXCEPT ![r] = d] /\ v.stored = w.stored
      /\ v \in Works
  BY <1>1, <1>2, <1>3 DEF Works, Fate
<1>5. Waiting(v) \subseteq Waiting(w)
  BY <1>1, <1>4 DEF Waiting, Works
<1>6. ExcusedOK(v, old)
  <2>1. \A q \in Requests : w.excusedBy[q] # NoDenial => w.excusedBy[q] # d
    BY <1>2 DEF GoodWork, ExcusedOK
  <2> QED BY <1>1, <1>2, <1>4, <2>1, TimeAssumption DEF GoodWork, ExcusedOK, Works
<1>7. Cardinality(Waiting(v)) <= HeldMax /\ (Waiting(v) # {} => guarded)
  BY <1>1, <1>4, <1>5, FewerWaiting DEF GoodWork
<1> QED BY <1>2, <1>4, <1>6, <1>7 DEF GoodWork, Onward, v

(* Only a request's fate changed.                                          *)
Fated(w, v, r, f) ==
    /\ v \in Works /\ v.fate = [w.fate EXCEPT ![r] = f]
    /\ v.used = w.used /\ v.excusedBy = w.excusedBy /\ v.stored = w.stored

(* A request settled without a denial.                                     *)
LEMMA SettledOK ==
    ASSUME NEW old, NEW w, GoodWork(w, old), NEW r \in Requests,
           NEW f \in Fate, ~IsWaiting(f), NEW v, Fated(w, v, r, f)
    PROVE  GoodWork(v, old) /\ Onward(w, v)
<1>1. w \in Works
  BY DEF GoodWork
<1>2. Waiting(v) \subseteq Waiting(w)
  BY <1>1 DEF Waiting, Works, IsWaiting, Fated
<1>3. Cardinality(Waiting(v)) <= HeldMax /\ (Waiting(v) # {} => guarded)
  BY <1>1, <1>2, FewerWaiting DEF GoodWork, Fated
<1> QED BY <1>3 DEF GoodWork, ExcusedOK, Onward, Fated

(* One request judged, or lost: nothing but its fate changes.              *)
LEMMA JudgeOK ==
    ASSUME NEW old, NEW w, GoodWork(w, old), NEW r \in Requests, NEW failing
    PROVE  /\ GoodWork(Judge(w, r, failing), old) /\ Onward(w, Judge(w, r, failing))
           /\ \E f \in {"lost", "judged"} : Fated(w, Judge(w, r, failing), r, f)
<1>1. w \in Works
  BY DEF GoodWork
<1>2. \E f \in {"lost", "judged"} : Fated(w, Judge(w, r, failing), r, f)
  BY <1>1 DEF Judge, Fated, Works, Fate
<1>3. \A f \in {"lost", "judged"} : f \in Fate /\ ~IsWaiting(f)
  BY DEF Fate, IsWaiting
<1> QED BY <1>2, <1>3, SettledOK

(* A check that fails leaves its request unjudged, and takes no denial.    *)
LEMMA UnjudgedOK ==
    ASSUME NEW old, NEW w, GoodWork(w, old), NEW r \in Requests,
           NEW v, v = [w EXCEPT !.fate[r] = "unjudged"]
    PROVE  GoodWork(v, old) /\ Onward(w, v) /\ Fated(w, v, r, "unjudged")
<1>1. w \in Works
  BY DEF GoodWork
<1>2. Fated(w, v, r, "unjudged") /\ "unjudged" \in Fate /\ ~IsWaiting("unjudged")
  BY <1>1 DEF Fated, Works, Fate, IsWaiting
<1> QED BY <1>2, SettledOK

(* A request is held while fewer than HeldMax are.                         *)
LEMMA HeldOK ==
    ASSUME NEW old, NEW w, GoodWork(w, old), NEW r \in Requests,
           guarded, ~(Cardinality(Waiting(w)) >= HeldMax),
           NEW v, v = [w EXCEPT !.fate[r] = "held"]
    PROVE  GoodWork(v, old) /\ Onward(w, v) /\ Fated(w, v, r, "held")
<1>1. w \in Works
  BY DEF GoodWork
<1>2. Fated(w, v, r, "held")
  BY <1>1 DEF Fated, Works, Fate
<1>3. Waiting(v) = Waiting(w) \cup {r}
  BY <1>1, <1>2 DEF Waiting, Works, Fated
<1>4. IsFiniteSet(Waiting(w)) /\ Cardinality(Waiting(w)) \in Nat
  BY RequestAssumption, FS_Subset, FS_CardinalityType DEF Waiting
<1>5. Cardinality(Waiting(w) \cup {r}) = IF r \in Waiting(w) THEN Cardinality(Waiting(w))
                                         ELSE Cardinality(Waiting(w)) + 1
  BY <1>4, FS_AddElement
<1>6. Cardinality(Waiting(v)) <= HeldMax
  <2> DEFINE n == Cardinality(Waiting(w))
  <2>1. n \in Nat /\ ~(n >= HeldMax) /\ Cardinality(Waiting(v)) \in {n, n + 1}
    BY <1>3, <1>4, <1>5
  <2> HIDE DEF n
  <2> QED BY <2>1, BoundAssumption
<1> QED BY <1>2, <1>6 DEF GoodWork, ExcusedOK, Onward, Fated

(* Denials once used are found no more.                                    *)
LEMMA FoundShrinks ==
    ASSUME NEW w, NEW v, Onward(w, v), NEW r PROVE Found(v, r) \subseteq Found(w, r)
BY DEF Found, Onward

Becomes(w, v, r, f) == v.fate = [w.fate EXCEPT ![r] = f]

(* One request ingested: those that waited before stay as they are.        *)
LEMMA IngestOK ==
    ASSUME NEW old, NEW w, GoodWork(w, old), NEW r \in Requests, NEW failing
    PROVE  /\ GoodWork(Ingest(r, w, failing), old) /\ Onward(w, Ingest(r, w, failing))
           /\ \E f \in Fate : Becomes(w, Ingest(r, w, failing), r, f)
<1>1. CASE ~guarded
  BY <1>1, UnjudgedOK DEF Ingest, Fated, Fate, Becomes
<1>2. CASE guarded /\ ~reporting
  BY <1>2, JudgeOK DEF Ingest, Fated, Fate, Becomes
<1>3. CASE guarded /\ reporting /\ Found(w, r) # {}
  BY <1>3, ExcuseOK DEF Ingest, Fate, Becomes
<1>4. CASE guarded /\ reporting /\ Found(w, r) = {}
  <2>1. CASE Cardinality(Waiting(w)) >= HeldMax
    BY <1>4, <2>1, JudgeOK DEF Ingest, Fated, Fate, Becomes
  <2>2. CASE ~(Cardinality(Waiting(w)) >= HeldMax)
    <3> DEFINE v == [w EXCEPT !.fate[r] = "held"]
    <3>1. Ingest(r, w, failing) = v
      BY <1>4, <2>2 DEF Ingest
    <3>2. GoodWork(v, old) /\ Onward(w, v) /\ Fated(w, v, r, "held")
      BY <1>4, <2>2, HeldOK
    <3> HIDE DEF v
    <3> QED BY <3>1, <3>2 DEF Fated, Fate, Becomes
  <2> QED BY <2>1, <2>2
<1> QED BY <1>1, <1>2, <1>3, <1>4

(* One round of the release: judged only when overdue and nothing is found.*)
LEMMA ReleaseOneOK ==
    ASSUME NEW old, NEW w, GoodWork(w, old), NEW r \in Requests, IsWaiting(w.fate[r]), NEW failing
    PROVE  LET v == ReleaseOne(r, w, failing)
           IN /\ GoodWork(v, old) /\ Onward(w, v)
              /\ \E f \in Fate : /\ v.fate = [w.fate EXCEPT ![r] = f]
                                 /\ f = "judged" => w.fate[r] = "overdue" /\ Found(v, r) = {}
<1>1. CASE Found(w, r) # {}
  BY <1>1, ExcuseOK DEF ReleaseOne, Fate
<1>2. CASE Found(w, r) = {} /\ w.fate[r] = "held"
  <2>1. w.fate = [w.fate EXCEPT ![r] = "held"] /\ "held" \in Fate
    BY <1>2 DEF GoodWork, Works, Fate
  <2> QED BY <1>2, <2>1 DEF ReleaseOne, Onward
<1>3. CASE Found(w, r) = {} /\ w.fate[r] # "held"
  <2>1. w.fate[r] = "overdue"
    BY <1>3 DEF IsWaiting
  <2>2. CASE guarded
    <3> DEFINE v == Judge(w, r, failing)
    <3>1. GoodWork(v, old) /\ Onward(w, v) /\ \E f \in {"lost", "judged"} : Fated(w, v, r, f)
      BY JudgeOK
    <3>2. ReleaseOne(r, w, failing) = v
      BY <1>3, <2>2 DEF ReleaseOne
    <3> HIDE DEF v
    <3>3. Found(v, r) = {}
      BY <1>3, <3>1, FoundShrinks
    <3> QED BY <2>1, <3>1, <3>2, <3>3 DEF Fated, Fate
  <2>3. CASE ~guarded
    <3> DEFINE v == [w EXCEPT !.fate[r] = "unjudged"]
    <3>1. GoodWork(v, old) /\ Onward(w, v) /\ Fated(w, v, r, "unjudged")
      BY UnjudgedOK
    <3>2. ReleaseOne(r, w, failing) = v
      BY <1>3, <2>3 DEF ReleaseOne
    <3> HIDE DEF v
    <3> QED BY <3>1, <3>2 DEF Fated, Fate
  <2> QED BY <2>2, <2>3
<1> QED BY <1>1, <1>2, <1>3
-----------------------------------------------------------------------------
(* Every finite set of naturals has its elements in order.                 *)
LEMMA ByIdOrders ==
    ASSUME NEW S, S \subseteq Nat, IsFiniteSet(S)
    PROVE  /\ Cardinality(S) \in Nat /\ ById(S) \in [1..Cardinality(S) -> S]
           /\ \A m, n \in 1..Cardinality(S) : m < n => ById(S)[m] < ById(S)[n]
<1> DEFINE Ordered(s) == \E seq \in [1..Cardinality(s) -> s] :
                            \A m, n \in DOMAIN seq : m < n => seq[m] < seq[n]
           P == {s \in SUBSET S : Ordered(s)}
<1>1. \A s \in SUBSET S : IsFiniteSet(s) /\ Cardinality(s) \in Nat
  BY FS_Subset, FS_CardinalityType
<1>2. ASSUME NEW s \in SUBSET S, \A x \in s : s \ {x} \in P PROVE s \in P
  <2>1. CASE s = {}
    <3>1. Cardinality(s) = 0
      BY <2>1, FS_EmptySet, Zenon
    <3> DEFINE seq == [n \in 1..0 |-> 0]
    <3>2. seq \in [1..Cardinality(s) -> s] /\ DOMAIN seq = {}
      BY <3>1
    <3> QED BY <3>2
  <2>2. CASE s # {}
    <3>1. PICK x \in s : \A y \in s : x <= y
      BY <2>2, Inserting!LeastNat
    <3>2. PICK rest \in [1..Cardinality(s \ {x}) -> s \ {x}] :
             \A m, n \in DOMAIN rest : m < n => rest[m] < rest[n]
      BY <1>2
    <3>3. Cardinality(s) \in Nat /\ Cardinality(s \ {x}) = Cardinality(s) - 1
      BY <1>1, FS_RemoveElement
    <3> DEFINE N == Cardinality(s)
               seq == [n \in 1..N |-> IF n = 1 THEN x ELSE rest[n - 1]]
    <3> HIDE DEF N
    <3>4. N \in Nat /\ rest \in [1..(N - 1) -> s \ {x}] /\ s \subseteq Nat
      BY <3>3 DEF N
    <3>5. \A n \in 1..N : n # 1 => n - 1 \in 1..(N - 1)
      BY <3>4
    <3>6. seq \in [1..N -> s]
      BY <3>4, <3>5
    <3>7. seq[1] = x \/ N = 0
      BY <3>4
    <3>8. \A n \in 1..N : n # 1 => seq[n] = rest[n - 1]
      OBVIOUS
    <3> HIDE DEF seq
    <3>9. ASSUME NEW m \in 1..N, NEW n \in 1..N, m < n PROVE seq[m] < seq[n]
      <4>1. m \in Nat /\ n \in Nat /\ n # 1
        BY <3>4, <3>9
      <4>2. seq[n] = rest[n - 1] /\ rest[n - 1] \in s \ {x}
        BY <3>4, <3>5, <3>8, <4>1
      <4>3. CASE m = 1
        <5>1. seq[m] = x
          BY <3>4, <3>7, <4>1, <4>3
        <5>2. x <= rest[n - 1] /\ x # rest[n - 1] /\ x \in Nat /\ rest[n - 1] \in Nat
          BY <3>1, <3>4, <4>2
        <5>3. x < rest[n - 1]
          BY <5>2
        <5> QED BY <4>2, <5>1, <5>3
      <4>4. CASE m # 1
        <5>1. m - 1 \in 1..(N - 1) /\ n - 1 \in 1..(N - 1) /\ m - 1 < n - 1
          BY <3>4, <3>5, <3>9, <4>1, <4>4
        <5>2. rest[m - 1] < rest[n - 1]
          BY <3>2, <3>4, <5>1
        <5> QED BY <3>8, <4>2, <4>4, <5>2
      <4> QED BY <4>3, <4>4
    <3>10. seq \in [1..Cardinality(s) -> s] /\ \A m, n \in DOMAIN seq : m < n => seq[m] < seq[n]
      BY <3>6, <3>9 DEF N
    <3> QED BY <3>10
  <2> QED BY <2>1, <2>2
<1> HIDE DEF P
<1>3. SUBSET S \subseteq P
  BY <1>2, Inserting!SubsetInduction DEF IsFiniteSet, Inserting!IsFiniteSet
<1>4. Ordered(S)
  BY <1>3 DEF P
<1> QED BY <1>1, <1>4 DEF ById
-----------------------------------------------------------------------------
(* A release keeps what every transaction leaves, and judges of those that *)
(* wait only the overdue for which nothing is found.                       *)
LEMMA ReleaseOK ==
    ASSUME NEW old, NEW w, GoodWork(w, old), NEW failing, NEW undone
    PROVE  LET v == Release(w, failing, undone)
           IN /\ GoodWork(v, old) /\ Onward(w, v)
              /\ \A r \in Requests :
                    (IsWaiting(w.fate[r]) /\ v.fate[r] = "judged")
                        => w.fate[r] = "overdue" /\ Found(v, r) = {}
<1>1. CASE undone
  BY <1>1 DEF Release, GoodWork, Works, Onward, ExcusedOK, IsWaiting, Waiting
<1>2. CASE ~undone
  <2> DEFINE waiting == ById(Waiting(w))
             last == IF Len(waiting) < ReleaseBatch THEN Len(waiting) ELSE ReleaseBatch
             seq == SubSeq(waiting, 1, last)
             v == Releasing!OfSeq(failing, w, seq)
             N == Cardinality(Waiting(w))
             SettledBy(u, r) == (IsWaiting(w.fate[r]) /\ u.fate[r] = "judged")
                                 => w.fate[r] = "overdue" /\ Found(u, r) = {}
             Turn(n, r) == \E m \in n + 1 .. last : seq[m] = r
             Good(n, u) == /\ GoodWork(u, old) /\ Onward(w, u)
                           /\ \A r \in Requests : SettledBy(u, r)
                           /\ \A r \in Requests : Turn(n, r) => u.fate[r] = w.fate[r]
             P == [n \in 0..last |-> {u \in Works : Good(n, u)}]
  <2>1. /\ Waiting(w) \subseteq Nat /\ Waiting(w) \subseteq Requests /\ IsFiniteSet(Waiting(w))
        /\ \A r \in Waiting(w) : IsWaiting(w.fate[r])
    BY RequestAssumption, FS_Subset DEF Waiting, IsWaiting
  <2>2. /\ N \in Nat /\ waiting \in [1..N -> Waiting(w)]
        /\ \A m, n \in 1..N : m < n => waiting[m] < waiting[n]
    BY <2>1, ByIdOrders
  <2> HIDE DEF waiting, N
  <2>3. Len(waiting) = N
    BY <2>2
  <2>4. last \in 0..N
    BY <2>2, <2>3, BoundAssumption
  <2> HIDE DEF last
  <2>5. last \in Nat /\ DOMAIN seq = 1..last /\ \A n \in 1..last : seq[n] = waiting[n]
    BY <2>2, <2>4
  <2> HIDE DEF seq
  <2>6. /\ \A n \in 1..last : seq[n] \in Waiting(w)
        /\ \A m, n \in 1..last : m < n => seq[m] # seq[n]
    <3>1. \A n \in 1..last : n \in 1..N
      BY <2>2, <2>4
    <3>2. ASSUME NEW m \in 1..last, NEW n \in 1..last, m < n PROVE seq[m] # seq[n]
      <4>1. waiting[m] < waiting[n] /\ waiting[m] \in Nat /\ waiting[n] \in Nat
        BY <2>1, <2>2, <3>1, <3>2
      <4> QED BY <2>5, <4>1
    <3> QED BY <2>2, <2>5, <3>1, <3>2
  <2>7. Release(w, failing, undone) = v
    BY <1>2 DEF Release, ReleaseStep, Releasing!OfSeq, FoldLeft, Releasing!FoldLeft,
                MapThenFoldSet, Releasing!MapThenFoldSet, Max, Releasing!Max,
                waiting, last, seq
  <2>8. w \in P[0]
    <3>1. w \in Works /\ \A r \in Requests : SettledBy(w, r)
      BY DEF GoodWork, IsWaiting
    <3>2. 0 \in 0..last
      BY <2>5
    <3> QED BY <3>1, <3>2 DEF Onward
  <2>9. ASSUME NEW n \in 1..last, NEW u \in P[n - 1]
        PROVE  ReleaseStep(failing, seq[n], u) \in P[n]
    <3> DEFINE req == seq[n]
               aft == ReleaseOne(req, u, failing)
    <3>1. n - 1 \in 0..last /\ n \in 0..last /\ (n - 1) + 1 = n /\ n \in n..last
      BY <2>5
    <3>2. u \in Works /\ Good(n - 1, u)
      BY <3>1
    <3>3. req \in Requests /\ IsWaiting(w.fate[req]) /\ u.fate[req] = w.fate[req]
      <4>1. Turn(n - 1, req)
        BY <3>1
      <4> QED BY <2>1, <2>6, <3>2, <4>1
    <3>4. /\ GoodWork(aft, old) /\ Onward(u, aft)
          /\ \E f \in Fate : /\ aft.fate = [u.fate EXCEPT ![req] = f]
                             /\ f = "judged" => u.fate[req] = "overdue" /\ Found(aft, req) = {}
      BY <3>2, <3>3, ReleaseOneOK
    <3>5. \A q \in Requests : Turn(n, q) => q # req /\ Turn(n - 1, q)
      <4> SUFFICES ASSUME NEW q \in Requests, NEW m \in n + 1 .. last, seq[m] = q
                   PROVE  q # req /\ m \in (n - 1) + 1 .. last
        OBVIOUS
      <4>1. m \in 1..last /\ n < m /\ m \in (n - 1) + 1 .. last
        BY <2>5
      <4> QED BY <2>6, <4>1
    <3> HIDE DEF req, aft, Turn
    <3>6. aft \in Works /\ Onward(w, aft)
      BY <3>2, <3>4 DEF GoodWork, Onward
    <3>7. PICK f \in Fate : /\ aft.fate = [u.fate EXCEPT ![req] = f]
                            /\ f = "judged" => u.fate[req] = "overdue" /\ Found(aft, req) = {}
      BY <3>4
    <3>8. /\ \A q \in Requests : SettledBy(u, q)
          /\ \A q \in Requests : Turn(n - 1, q) => u.fate[q] = w.fate[q]
          /\ u.fate \in [Requests -> Fate]
      BY <3>2 DEF Works
    <3> HIDE DEF P, Good
    <3>9. aft.fate[req] = f /\ \A q \in Requests : q # req => aft.fate[q] = u.fate[q]
      <4>1. u.fate \in [Requests -> Fate] /\ req \in Requests /\ aft.fate = [u.fate EXCEPT ![req] = f]
        BY <3>3, <3>7, <3>8
      <4> QED BY <4>1
    <3>10. ASSUME NEW q \in Requests PROVE SettledBy(aft, q)
      <4>1. CASE q = req
        <5>1. aft.fate[q] = f /\ u.fate[q] = w.fate[q]
          BY <3>3, <3>9, <4>1
        <5> QED BY <3>7, <4>1, <5>1
      <4>2. CASE q # req
        <5>1. Found(aft, q) \subseteq Found(u, q)
          BY <3>4, FoundShrinks
        <5> QED BY <3>8, <3>9, <4>2, <5>1
      <4> QED BY <4>1, <4>2
    <3>11. ASSUME NEW q \in Requests, Turn(n, q) PROVE aft.fate[q] = w.fate[q]
      BY <3>5, <3>8, <3>9, <3>11
    <3> HIDE DEF SettledBy
    <3>12. Good(n, aft)
      BY <3>4, <3>6, <3>10, <3>11 DEF Good
    <3> QED BY <3>1, <3>6, <3>12 DEF ReleaseStep, aft, req, P
  <2> HIDE DEF P
  <2>10. v \in P[last]
    BY <2>5, <2>8, <2>9, Releasing!SeqFoldKeeps
  <2>11. Good(last, v)
    BY <2>5, <2>10 DEF P
  <2> HIDE DEF v
  <2> QED BY <2>7, <2>11
<1> QED BY <1>1, <1>2

IngestAll(failing, w, batch) == FoldLeft(LAMBDA u, r : Ingest(r, u, failing), w, batch)
InsertAll(lines)             == FoldLeft(Insert, <<>>, lines)

(* A batch ingested: those not of it stay as they were.                    *)
LEMMA IngestAllOK ==
    ASSUME NEW old, NEW w, GoodWork(w, old), NEW failing, NEW batch \in Seq(Requests)
    PROVE  LET v == IngestAll(failing, w, batch)
           IN /\ GoodWork(v, old) /\ Onward(w, v)
              /\ \A q \in Requests : q \notin ToSet(batch) => v.fate[q] = w.fate[q]
<1> DEFINE v == Ingesting!OfSeq(failing, w, batch)
           N == Len(batch)
           Good(u) == /\ GoodWork(u, old) /\ Onward(w, u)
                      /\ \A q \in Requests : q \notin ToSet(batch) => u.fate[q] = w.fate[q]
           P == [n \in 0..N |-> {u \in Works : Good(u)}]
<1>1. N \in Nat /\ DOMAIN batch = 1..N /\ \A n \in 1..N : batch[n] \in Requests \cap ToSet(batch)
  BY DEF ToSet
<1>2. IngestAll(failing, w, batch) = v
  BY DEF IngestAll, IngestStep, Ingesting!OfSeq, FoldLeft, Ingesting!FoldLeft,
         MapThenFoldSet, Ingesting!MapThenFoldSet, Max, Ingesting!Max
<1> HIDE DEF N
<1>3. w \in P[0]
  <2>1. w \in Works /\ Good(w) /\ 0 \in 0..N
    BY <1>1 DEF GoodWork, Onward
  <2> HIDE DEF Good
  <2> QED BY <2>1
<1>4. ASSUME NEW n \in 1..N, NEW u \in P[n - 1]
      PROVE  IngestStep(failing, batch[n], u) \in P[n]
  <2> DEFINE x == Ingest(batch[n], u, failing)
  <2>1. n - 1 \in 0..N /\ n \in 0..N
    BY <1>1
  <2>2. u \in Works /\ Good(u)
    BY <2>1
  <2>3. /\ GoodWork(x, old) /\ Onward(u, x)
        /\ \E f \in Fate : x.fate = [u.fate EXCEPT ![batch[n]] = f]
    <3>1. GoodWork(u, old) /\ batch[n] \in Requests
      BY <1>1, <2>2
    <3>2. GoodWork(x, old) /\ Onward(u, x) /\ \E f \in Fate : Becomes(u, x, batch[n], f)
      BY <3>1, IngestOK
    <3> HIDE DEF x
    <3> QED BY <3>2 DEF Becomes
  <2> HIDE DEF x
  <2>4. u.fate \in [Requests -> Fate]
    BY <2>2 DEF Works
  <2>5. \A q \in Requests : q \notin ToSet(batch) => x.fate[q] = u.fate[q]
    BY <1>1, <2>3, <2>4
  <2>6. Good(x) /\ x \in Works
    BY <2>2, <2>3, <2>5 DEF Onward, GoodWork
  <2> HIDE DEF Good
  <2> QED BY <2>1, <2>6 DEF IngestStep, x
<1> HIDE DEF P
<1>5. v \in P[N]
  BY <1>1, <1>3, <1>4, Ingesting!SeqFoldKeeps
<1>6. Good(v)
  BY <1>1, <1>5 DEF P
<1> HIDE DEF v
<1> QED BY <1>2, <1>6

(* A log with a batch inserted: every line once, none past retention, and  *)
(* every line it had that is not past it.                                  *)
LEMMA InsertAllOK ==
    ASSUME NEW lines \in Seq(Denials)
    PROVE  LET kept == InsertAll(lines)
           IN /\ kept \in Seq(Denials) /\ IsInjective(kept)
              /\ ToSet(kept) = ToSet(lines) \ aged
<1> DEFINE none == {}
           kept == Inserting!OfSeq(none, <<>>, lines)
           N == Len(lines)
           Part(n) == {lines[m] : m \in 1..n}
           Good(n, k) == IsInjective(k) /\ ToSet(k) = Part(n) \ aged
           P == [n \in 0..N |-> {k \in Seq(Denials) : Good(n, k)}]
<1>1. N \in Nat /\ DOMAIN lines = 1..N /\ ToSet(lines) = Part(N)
  BY DEF ToSet
<1>2. InsertAll(lines) = kept
  BY DEF InsertAll, InsertStep, Inserting!OfSeq, FoldLeft, Inserting!FoldLeft,
         MapThenFoldSet, Inserting!MapThenFoldSet, Max, Inserting!Max
<1>3. \A n \in 1..N : lines[n] \in Denials
  OBVIOUS
<1> HIDE DEF N
<1>4. <<>> \in P[0]
  <2>1. IsInjective(<<>>) /\ ToSet(<<>>) = {} /\ Part(0) = {} /\ 0 \in 0..N
    BY <1>1 DEF IsInjective, ToSet
  <2> HIDE DEF Part
  <2> QED BY <2>1
<1>5. ASSUME NEW n \in 1..N, NEW k \in P[n - 1] PROVE InsertStep(none, lines[n], k) \in P[n]
  <2> DEFINE d == lines[n]
             x == Insert(k, d)
  <2>1. n - 1 \in 0..N /\ n \in 0..N /\ Part(n) = Part(n - 1) \cup {d}
    <3>1. n \in Nat /\ 1..n = 1..(n - 1) \cup {n}
      BY <1>1
    <3> QED BY <1>1, <3>1
  <2>2. k \in Seq(Denials) /\ Good(n - 1, k)
    BY <2>1
  <2>3. d \in Denials
    BY <1>3
  <2> HIDE DEF d, Part
  <2>4. CASE d \in aged \cup ToSet(k)
    <3>1. x = k
      BY <2>4 DEF Insert
    <3>2. Good(n, k)
      BY <2>1, <2>2, <2>4
    <3> QED BY <2>1, <2>2, <3>1, <3>2 DEF InsertStep, d
  <2>5. CASE d \notin aged \cup ToSet(k)
    <3>1. x = Append(k, d)
      BY <2>5 DEF Insert
    <3>2. x \in Seq(Denials) /\ DOMAIN x = DOMAIN k \cup {Len(k) + 1} /\ x[Len(k) + 1] = d
          /\ \A m \in DOMAIN k : x[m] = k[m] /\ m # Len(k) + 1
      BY <2>2, <2>3, <3>1
    <3> HIDE DEF x
    <3>3. ToSet(x) = ToSet(k) \cup {d}
      BY <3>2 DEF ToSet
    <3>4. \A m \in DOMAIN k : k[m] # d
      BY <2>5 DEF ToSet
    <3>5. IsInjective(x)
      BY <2>2, <3>2, <3>4 DEF IsInjective
    <3>6. Good(n, x)
      BY <2>1, <2>2, <2>5, <3>3, <3>5
    <3> HIDE DEF Good
    <3> QED BY <2>1, <3>2, <3>6 DEF InsertStep, d, x
  <2> QED BY <2>4, <2>5
<1> HIDE DEF P
<1>6. kept \in P[N]
  BY <1>1, <1>4, <1>5, Inserting!SeqFoldKeeps
<1>7. kept \in Seq(Denials) /\ Good(N, kept)
  BY <1>1, <1>6 DEF P
<1> HIDE DEF kept
<1> QED BY <1>1, <1>2, <1>7
-----------------------------------------------------------------------------
(* The small batches are sequences.                                        *)
LEMMA BatchesAreSequences ==
    ASSUME NEW S, NEW batch \in SmallBatches(S)
    PROVE  batch \in Seq(S)
<1>1. PICK s \in SUBSET S : IsFiniteSet(s) /\ batch \in SetToSeqs(s)
  BY DEF SmallBatches
<1>2. Cardinality(s) \in Nat
  BY <1>1, FS_CardinalityType
<1>3. batch \in [1..Cardinality(s) -> S]
  BY <1>1 DEF SetToSeqs
<1> QED BY <1>2, <1>3

(* A transaction starts from the tables as they were.                      *)
LEMMA WorkIs == Work.fate = fate /\ Work.stored = stored /\ Work.used = used
BY DEF Work

(* A committed transaction.                                                *)
LEMMA Committed ==
    ASSUME HoldInv, NEW v, GoodWork(v, aged), Commit(v), UNCHANGED <<guarded, reporting, aged>>
    PROVE  HoldInv' /\ Work' = v
<1>1. Work' = v
  BY DEF GoodWork, Works, Commit, Work
<1> QED BY <1>1 DEF HoldInv, GoodWork, ExcusedOK, Waiting

(* With no request stored and no denial reported the invariant holds.      *)
LEMMA InitOK == Init => HoldInv
<1> SUFFICES ASSUME Init PROVE HoldInv
  OBVIOUS
<1>1. Work \in Works
  <2>1. /\ fate \in [Requests -> Fate] /\ stored \in Seq(Denials) /\ used \in SUBSET Denials
        /\ failed \in BOOLEAN /\ excusedBy \in [Requests -> Denials \cup {NoDenial}]
    <3>1. <<>> \in Seq(Denials)
      OBVIOUS
    <3>2. fate \in [Requests -> Fate]
      BY DEF Init, Fate
    <3>3. excusedBy \in [Requests -> Denials \cup {NoDenial}]
      BY DEF Init
    <3> QED BY <3>1, <3>2, <3>3 DEF Init
  <2> QED BY <2>1 DEF Work, Works
<1>2. Waiting(Work) = {}
  BY DEF Init, Work, Waiting
<1>3. Cardinality(Waiting(Work)) <= HeldMax
  <2>1. Cardinality(Waiting(Work)) = 0
    BY <1>2, FS_EmptySet
  <2> QED BY <2>1, BoundAssumption
<1>4. IsInjective(Work.stored) /\ Work.used \subseteq ToSet(Work.stored) /\ ExcusedOK(Work, aged)
  BY DEF Init, Work, IsInjective, ExcusedOK
<1> QED BY <1>1, <1>2, <1>3, <1>4 DEF HoldInv, GoodWork, Init

(* The judged of a step, as the property has them.                         *)
Judging == \A r \in Requests :
              (fate[r] \in {"held", "overdue"} /\ fate'[r] = "judged")
                  => fate[r] = "overdue" /\ Found(Work', r) = {}

(* Requests that arrive are held, judged or excused, and keep what the     *)
(* tables promise.                                                         *)
LEMMA AddOK ==
    ASSUME HoldInv, NEW failing, NEW undone, NEW batch \in RequestBatches,
           AddInteractions(batch, failing, undone)
    PROVE  HoldInv' /\ Judging
<1> DEFINE w == IngestAll(failing, Work, batch)
           v == Release(w, failing, undone)
<1>1. batch \in Seq(Requests) /\ \A r \in ToSet(batch) : fate[r] = "coming"
  BY BatchesAreSequences DEF RequestBatches, AddInteractions
<1>2. GoodWork(Work, aged)
  BY DEF HoldInv
<1>3. /\ GoodWork(w, aged)
      /\ \A q \in Requests : q \notin ToSet(batch) => w.fate[q] = Work.fate[q]
  BY <1>1, <1>2, IngestAllOK
<1>4. Commit(v) /\ UNCHANGED <<guarded, reporting, aged>>
  BY DEF AddInteractions, IngestAll
<1> HIDE DEF w
<1>5. /\ GoodWork(v, aged)
      /\ \A r \in Requests : (IsWaiting(w.fate[r]) /\ v.fate[r] = "judged")
                                  => w.fate[r] = "overdue" /\ Found(v, r) = {}
  BY <1>3, ReleaseOK
<1> HIDE DEF v
<1>6. HoldInv' /\ Work' = v
  BY <1>4, <1>5, Committed
<1>7. fate' = v.fate
  BY <1>4 DEF Commit
<1> QED BY <1>1, <1>3, <1>5, <1>6, <1>7, WorkIs DEF Judging, IsWaiting

(* So do denials, whichever held requests they excuse and whichever older  *)
(* denials they push out.                                                  *)
LEMMA DenialsOK ==
    ASSUME HoldInv, NEW failing, NEW undone, NEW batch \in DenialBatches,
           RecordDenials(batch, failing, undone)
    PROVE  HoldInv' /\ Judging
<1> DEFINE kept == InsertAll(stored \o batch)
           w == [Work EXCEPT !.stored = kept, !.used = @ \cap ToSet(kept)]
           v == Release(w, failing, undone)
<1>1. GoodWork(Work, aged) /\ Work \in Works
  BY DEF HoldInv, GoodWork
<1>2. batch \in Seq(Denials) /\ stored \in Seq(Denials)
  BY <1>1, WorkIs, BatchesAreSequences DEF DenialBatches, Works
<1>3. kept \in Seq(Denials) /\ IsInjective(kept) /\ ToSet(kept) = ToSet(stored \o batch) \ aged
  <2>1. stored \o batch \in Seq(Denials)
    BY <1>2
  <2> QED BY <2>1, InsertAllOK
<1>4. ToSet(stored) \subseteq ToSet(stored \o batch)
  BY <1>2 DEF ToSet
<1>5. Commit(v) /\ UNCHANGED <<guarded, reporting, aged>>
  BY DEF RecordDenials, InsertAll
<1> HIDE DEF kept
<1>6. /\ w \in Works /\ w.fate = Work.fate /\ w.stored = kept
      /\ w.used = Work.used \cap ToSet(kept) /\ w.excusedBy = Work.excusedBy
  BY <1>1, <1>3 DEF Works
<1> HIDE DEF w
<1>7. GoodWork(w, aged)
  <2>1. Waiting(w) = Waiting(Work)
    BY <1>6 DEF Waiting
  <2>2. ExcusedOK(w, aged)
    <3>1. Work.used \subseteq ToSet(stored) /\ ExcusedOK(Work, aged)
      BY <1>1, WorkIs DEF GoodWork
    <3> QED BY <1>3, <1>4, <1>6, <3>1 DEF ExcusedOK
  <2> QED BY <1>1, <1>3, <1>6, <2>1, <2>2 DEF GoodWork
<1>8. /\ GoodWork(v, aged)
      /\ \A r \in Requests : (IsWaiting(w.fate[r]) /\ v.fate[r] = "judged")
                                  => w.fate[r] = "overdue" /\ Found(v, r) = {}
  BY <1>7, ReleaseOK
<1> HIDE DEF v
<1>9. HoldInv' /\ Work' = v
  BY <1>5, <1>8, Committed
<1>10. fate' = v.fate
  BY <1>5 DEF Commit
<1> QED BY <1>6, <1>8, <1>9, <1>10, WorkIs DEF Judging, IsWaiting

(* So does a heartbeat, which judges what was held too long.               *)
LEMMA HeartbeatOK ==
    ASSUME HoldInv, NEW failing, NEW undone, Heartbeat(failing, undone)
    PROVE  HoldInv' /\ Judging
<1> DEFINE v == Release(Work, failing, undone)
<1>1. Commit(v) /\ UNCHANGED <<guarded, reporting, aged>>
  BY DEF Heartbeat
<1>2. /\ GoodWork(v, aged)
      /\ \A r \in Requests : (IsWaiting(Work.fate[r]) /\ v.fate[r] = "judged")
                                  => Work.fate[r] = "overdue" /\ Found(v, r) = {}
  BY ReleaseOK DEF HoldInv
<1> HIDE DEF v
<1>3. HoldInv' /\ Work' = v /\ fate' = v.fate
  BY <1>1, <1>2, Committed DEF Commit
<1> QED BY <1>2, <1>3, WorkIs DEF Judging, IsWaiting

(* What no transaction of the releasing ones changes.                      *)
LEMMA OtherOK ==
    ASSUME HoldInv, \/ RecordPolicy \/ TurnOn \/ TurnOff \/ UNCHANGED vars
                    \/ \E r \in Requests : HoldPasses(r)
                    \/ \E d \in Denials : DenialAges(d)
    PROVE  HoldInv' /\ Judging
<1>0. GoodWork(Work, aged) /\ Work \in Works /\ fate \in [Requests -> Fate]
  BY WorkIs DEF HoldInv, GoodWork, Works
<1>1. CASE RecordPolicy \/ TurnOn \/ UNCHANGED vars
  <2>1. /\ UNCHANGED <<tables, aged>> /\ guarded' \in BOOLEAN /\ reporting' \in BOOLEAN
        /\ guarded => guarded'
    BY <1>1 DEF RecordPolicy, TurnOn, vars, HoldInv
  <2>2. Work' = Work
    BY <2>1 DEF Work, tables
  <2>3. GoodWork(Work, aged)'
    BY <1>0, <2>1, <2>2 DEF GoodWork
  <2> QED BY <1>0, <2>1, <2>2, <2>3 DEF HoldInv, Judging, tables
<1>2. ASSUME NEW r \in Requests, HoldPasses(r) PROVE HoldInv' /\ Judging
  <2>1. /\ fate[r] = "held" /\ fate' = [fate EXCEPT ![r] = "overdue"]
        /\ UNCHANGED <<stored, used, failed, excusedBy, guarded, reporting, aged>>
    BY <1>2 DEF HoldPasses
  <2>2. /\ Work' \in Works /\ Work'.fate = fate' /\ Work'.stored = Work.stored
        /\ Work'.used = Work.used /\ Work'.excusedBy = Work.excusedBy
    BY <1>0, <2>1 DEF Work, Works, Fate
  <2>3. Waiting(Work') = Waiting(Work)
    BY <1>0, <2>1, <2>2, WorkIs DEF Waiting
  <2>4. GoodWork(Work, aged)'
    BY <1>0, <2>1, <2>2, <2>3 DEF GoodWork, ExcusedOK
  <2>5. Judging
    BY <1>0, <2>1 DEF Judging
  <2> QED BY <2>1, <2>4, <2>5 DEF HoldInv
<1>3. ASSUME NEW d \in Denials, DenialAges(d) PROVE HoldInv' /\ Judging
  <2>1. UNCHANGED tables /\ guarded' = guarded /\ reporting' = reporting /\ aged' = aged \cup {d}
    BY <1>3 DEF DenialAges
  <2>2. Work' = Work /\ fate' = fate
    BY <2>1 DEF Work, tables
  <2>3. GoodWork(Work, aged)'
    BY <1>0, <2>1, <2>2 DEF GoodWork, ExcusedOK
  <2> QED BY <2>1, <2>2, <2>3 DEF HoldInv, Judging
<1>4. CASE TurnOff
  <2>1. /\ fate' = [r \in Requests |-> IF r \in Waiting(Work) THEN "unjudged" ELSE fate[r]]
        /\ UNCHANGED <<stored, used, failed, excusedBy, reporting, aged>> /\ guarded' = FALSE
    BY <1>4 DEF TurnOff
  <2>2. /\ Work' \in Works /\ Work'.fate = fate' /\ Work'.stored = Work.stored
        /\ Work'.used = Work.used /\ Work'.excusedBy = Work.excusedBy
    BY <1>0, <2>1 DEF Work, Works, Fate
  <2>3. Waiting(Work') = {}
    BY <2>1, <2>2, WorkIs DEF Waiting
  <2>4. Cardinality(Waiting(Work')) <= HeldMax
    BY <2>3, FS_EmptySet, BoundAssumption
  <2>5. GoodWork(Work, aged)'
    BY <1>0, <2>1, <2>2, <2>3, <2>4 DEF GoodWork, ExcusedOK
  <2>6. \A r \in Requests : fate[r] \in {"held", "overdue"} => fate'[r] = "unjudged"
    BY <2>1, WorkIs DEF Waiting
  <2>7. Judging
    BY <2>6 DEF Judging
  <2> QED BY <2>1, <2>5, <2>7 DEF HoldInv
<1> QED BY <1>1, <1>2, <1>3, <1>4

(* Every step keeps the invariant, and judges no request a denial would    *)
(* have excused.                                                           *)
LEMMA StepOK ==
    ASSUME HoldInv, [Next]_vars
    PROVE  HoldInv' /\ Judging
BY AddOK, DenialsOK, HeartbeatOK, OtherOK DEF Next
-----------------------------------------------------------------------------
(* The tables keep their shape, whatever is delivered, aged or switched.   *)
THEOREM HoldInvariant == Spec => []HoldInv
<1>1. Init => HoldInv
  BY InitOK
<1>2. HoldInv /\ [Next]_vars => HoldInv'
  BY StepOK
<1> QED BY <1>1, <1>2, PTL DEF Spec

(* The types of the tables, and never more requests held than the limit.   *)
THEOREM TypesHold == Spec => []TypeOK
<1>1. HoldInv => TypeOK
  <2> SUFFICES ASSUME HoldInv PROVE TypeOK
    OBVIOUS
  <2>1. Work \in Works
    BY DEF HoldInv, GoodWork
  <2>2. /\ fate \in [Requests -> Fate] /\ stored \in Seq(Denials) /\ failed \in BOOLEAN
        /\ excusedBy \in [Requests -> Denials \cup {NoDenial}]
    BY <2>1 DEF Work, Works
  <2>3. ToSet(stored) \subseteq Denials
    BY <2>2 DEF ToSet
  <2> QED BY <2>2, <2>3, WorkIs DEF TypeOK, HoldInv, GoodWork
<1> QED BY <1>1, HoldInvariant, PTL

(* "One denial excuses one request" (_use_openshell_denial_locked), though *)
(* denials come in any order, twice, and again after retention took them.  *)
THEOREM ADenialExcusesOne == Spec => []OneDenialOneRequest
<1>1. HoldInv => OneDenialOneRequest
  <2>1. Work.excusedBy = excusedBy
    BY DEF Work
  <2> QED BY <2>1 DEF HoldInv, GoodWork, ExcusedOK, OneDenialOneRequest
<1> QED BY <1>1, HoldInvariant, PTL

(* A request that waited is judged only when it is overdue and no stored   *)
(* denial is left for it (_release_held_requests_locked).                  *)
THEOREM JudgedUnexcused == Spec => JudgedOnlyUnexcused
<1>1. HoldInv /\ [Next]_vars => [Judging]_vars
  BY StepOK
<1> QED BY <1>1, HoldInvariant, PTL DEF Spec, JudgedOnlyUnexcused, Judging
=============================================================================
