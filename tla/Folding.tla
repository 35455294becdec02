------------------------------- MODULE Folding -------------------------------
(***************************************************************************)
(* Induction over naturals and over finite sets, stated with sets in place *)
(* of predicates, and what it gives of folds.  Op is the step of a fold: a *)
(* proof about one takes this module by INSTANCE, with its step for Op.    *)
(***************************************************************************)
EXTENDS Integers, Sequences, SequencesExt, FiniteSetTheorems, WellFoundedInduction, TLAPS

CONSTANT Op(_, _, _)   \* of a context, the element taken and the value so far

(* Every nonempty set of naturals has a least element.                     *)
LEMMA LeastNat ==
    ASSUME NEW S, S \subseteq Nat, S # {}
    PROVE  \E n \in S : \A m \in S : n <= m
<1> DEFINE R == OpToRel(<, Nat)
<1>1. IsWellFoundedOn(R, Nat)
  BY NatLessThanWellFounded
<1> HIDE DEF R
<1>2. PICK n \in S : \A m \in S : <<m, n>> \notin R
  BY <1>1, WFMin
<1>3. \A m \in Nat : m < n => <<m, n>> \in R
  BY DEF R, OpToRel
<1>4. ASSUME NEW m \in S PROVE n <= m
  <2>1. m \in Nat /\ n \in Nat
    OBVIOUS
  <2>2. ~(m < n)
    BY <1>2, <1>3, <2>1
  <2> QED BY <2>1, <2>2
<1> QED BY <1>4

(* Induction over the naturals: the set of those a formula holds for.      *)
LEMMA NatSetInduction ==
    ASSUME NEW S, 0 \in S, \A n \in Nat : n \in S => n + 1 \in S
    PROVE  Nat \subseteq S
<1> SUFFICES ASSUME NEW k \in Nat, k \notin S PROVE FALSE
  OBVIOUS
<1>1. PICK n \in Nat \ S : \A m \in Nat \ S : n <= m
  BY LeastNat
<1>2. n # 0 /\ n - 1 \in Nat
  BY <1>1
<1>3. n - 1 \in S
  BY <1>1, <1>2
<1> QED BY <1>1, <1>2, <1>3

(* The same up to some natural.                                            *)
LEMMA StepsTo ==
    ASSUME NEW N \in Nat, NEW S, 0 \in S, \A n \in 1..N : n - 1 \in S => n \in S
    PROVE  N \in S
<1> DEFINE T == {n \in Nat : n <= N => n \in S}
<1>1. \A n \in Nat : n \in T => n + 1 \in T
  <2> SUFFICES ASSUME NEW n \in Nat, n \in T, n + 1 <= N PROVE n + 1 \in S
    OBVIOUS
  <2>1. n + 1 \in 1..N /\ (n + 1) - 1 = n /\ n \in S
    OBVIOUS
  <2> QED BY <2>1
<1>2. Nat \subseteq T
  BY <1>1, NatSetInduction
<1> QED BY <1>2

(* Induction over the subsets of a finite set, one element at a time.      *)
LEMMA SubsetInduction ==
    ASSUME NEW D, IsFiniteSet(D), NEW P,
           \A s \in SUBSET D : (\A x \in s : s \ {x} \in P) => s \in P
    PROVE  SUBSET D \subseteq P
<1> DEFINE B == {n \in Nat : \A s \in SUBSET D : Cardinality(s) = n => s \in P}
<1>1. \A s \in SUBSET D : IsFiniteSet(s) /\ Cardinality(s) \in Nat
  BY FS_Subset, FS_CardinalityType
<1>2. 0 \in B
  <2> SUFFICES ASSUME NEW s \in SUBSET D, Cardinality(s) = 0 PROVE s = {}
    OBVIOUS
  <2> QED BY <1>1, FS_EmptySet
<1>3. ASSUME NEW n \in Nat, n \in B PROVE n + 1 \in B
  <2> SUFFICES ASSUME NEW s \in SUBSET D, Cardinality(s) = n + 1, NEW x \in s
               PROVE  s \ {x} \in P
    OBVIOUS
  <2>1. Cardinality(s \ {x}) = Cardinality(s) - 1
    BY <1>1, FS_RemoveElement, Zenon
  <2> QED BY <1>3, <2>1
<1> HIDE DEF B
<1>4. Nat \subseteq B
  BY <1>2, <1>3, NatSetInduction
<1> QED BY <1>1, <1>4 DEF B

-----------------------------------------------------------------------------
(* g is defined by recursion over the subsets of D, taking pick[s] off s.  *)
Recursion(g, c, base, val, D, pick) ==
    /\ g = [s \in SUBSET D |-> g[s]]
    /\ \A s \in SUBSET D :
          g[s] = IF s = {} THEN base ELSE Op(c, val[pick[s]], g[s \ {pick[s]}])

(* A recursion over the subsets of a finite set defines a function.        *)
THEOREM SubsetRecursion ==
    ASSUME NEW c, NEW base, NEW val, NEW D, IsFiniteSet(D),
           NEW pick, \A s \in SUBSET D : s # {} => pick[s] \in s
    PROVE  \E g : Recursion(g, c, base, val, D, pick)
<1> DEFINE Small(n) == {s \in SUBSET D : Cardinality(s) <= n}
           Val(g, s) == IF s = {} THEN base ELSE Op(c, val[pick[s]], g[s \ {pick[s]}])
           B == {n \in Nat : \E g : \A s \in Small(n) : g[s] = Val(g, s)}
<1>1. \A s \in SUBSET D : IsFiniteSet(s) /\ Cardinality(s) \in Nat
  BY FS_Subset, FS_CardinalityType
<1>2. \A s \in SUBSET D : s # {} => /\ s \ {pick[s]} \in SUBSET D
                                   /\ Cardinality(s \ {pick[s]}) = Cardinality(s) - 1
  BY <1>1, FS_RemoveElement
<1>3. 0 \in B
  <2>1. \A s \in Small(0) : s = {}
    BY <1>1, FS_EmptySet
  <2> DEFINE g == [s \in Small(0) |-> base]
  <2>2. \A s \in Small(0) : g[s] = Val(g, s)
    BY <2>1
  <2> HIDE DEF g, Val, Small
  <2> QED BY <2>2
<1>4. ASSUME NEW n \in Nat, n \in B PROVE n + 1 \in B
  <2>1. PICK g : \A s \in Small(n) : g[s] = Val(g, s)
    BY <1>4
  <2> DEFINE h == [s \in Small(n + 1) |-> Val(g, s)]
  <2>2. \A s \in Small(n + 1) : s # {} => s \ {pick[s]} \in Small(n)
    BY <1>1, <1>2
  <2>3. \A s \in Small(n) : s \in Small(n + 1)
    BY <1>1
  <2>4. \A s \in Small(n) : h[s] = g[s]
    <3> HIDE DEF Small, Val
    <3> QED BY <2>1, <2>3
  <2>5. \A s \in Small(n + 1) : h[s] = Val(h, s)
    <3> SUFFICES ASSUME NEW s \in Small(n + 1) PROVE Val(g, s) = Val(h, s)
      BY DEF h
    <3> HIDE DEF h, Small
    <3>1. s # {} => h[s \ {pick[s]}] = g[s \ {pick[s]}]
      BY <2>2, <2>4
    <3> QED BY <3>1
  <2> HIDE DEF h, Small, Val
  <2> QED BY <2>5 DEF B
<1> HIDE DEF B
<1>5. Cardinality(D) \in Nat /\ Cardinality(D) \in B
  BY <1>1, <1>3, <1>4, NatSetInduction
<1>6. Small(Cardinality(D)) = SUBSET D
  BY <1>1, FS_Subset
<1> HIDE DEF Small, Val
<1>7. PICK g : \A s \in SUBSET D : g[s] = Val(g, s)
  BY <1>5, <1>6 DEF B
<1> DEFINE f == [s \in SUBSET D |-> g[s]]
<1>8. \A s \in SUBSET D : f[s] = Val(f, s)
  <2> SUFFICES ASSUME NEW s \in SUBSET D PROVE Val(f, s) = Val(g, s)
    BY <1>7
  <2>1. s # {} => f[s \ {pick[s]}] = g[s \ {pick[s]}]
    BY <1>2
  <2> HIDE DEF f
  <2> QED BY <2>1 DEF Val
<1>9. f = [s \in SUBSET D |-> f[s]]
  OBVIOUS
<1> HIDE DEF f
<1> QED BY <1>8, <1>9 DEF Val, Recursion

(* The greatest of some first naturals.                                    *)
LEMMA MaxFirst ==
    ASSUME NEW N \in Nat
    PROVE  /\ \A s \in SUBSET (1..N) : s # {} => Max(s) \in s
           /\ \A n \in 1..N : Max(1..n) = n /\ (1..n) \ {n} = 1..(n - 1)
<1>1. ASSUME NEW s \in SUBSET (1..N), s # {} PROVE Max(s) \in s
  <2> DEFINE back == {N - x : x \in s}
  <2>1. back \subseteq Nat /\ back # {}
    BY <1>1
  <2>2. PICK b \in back : \A m \in back : b <= m
    BY <2>1, LeastNat
  <2>3. PICK x \in s : b = N - x
    OBVIOUS
  <2>4. \A y \in s : x >= y
    BY <2>2, <2>3
  <2> QED BY <2>4 DEF Max
<1>2. ASSUME NEW n \in 1..N PROVE Max(1..n) = n /\ (1..n) \ {n} = 1..(n - 1)
  <2>1. n \in 1..n /\ \A y \in 1..n : n >= y
    OBVIOUS
  <2>2. \A m \in 1..n : (\A y \in 1..n : m >= y) => m = n
    BY <2>1
  <2>3. Max(1..n) = n
    BY <2>1, <2>2 DEF Max
  <2> QED BY <2>3
<1> QED BY <1>1, <1>2

(* A fold over a sequence.                                                 *)
OfSeq(c, base, seq) == FoldLeft(LAMBDA w, x : Op(c, x, w), base, seq)

(* The values of a fold over a sequence, from the first to the last.       *)
Folded(c, base, seq, N) ==
    \E a : /\ OfSeq(c, base, seq) = a[N]
           /\ a[0] = base /\ \A n \in 1..N : a[n] = Op(c, seq[n], a[n - 1])

(* A fold over a sequence is the last of the values it passes through.     *)
THEOREM SeqFold ==
    ASSUME NEW c, NEW base, NEW seq, NEW N \in Nat, DOMAIN seq = 1..N
    PROVE  Folded(c, base, seq, N)
<1> DEFINE D     == 1..N
           pick  == [s \in SUBSET D |-> Max(s)]
           It(g) == [s \in SUBSET D |-> IF s = {} THEN base
                                       ELSE Op(c, seq[Max(s)], g[s \ {Max(s)}])]
           g     == CHOOSE h : h = It(h)
           a     == [n \in 0..N |-> g[1..n]]
<1>1. OfSeq(c, base, seq) = g[D]
  BY DEF OfSeq, FoldLeft, MapThenFoldSet
<1>2. \E h : h = It(h)
  <2>1. IsFiniteSet(D)
    BY FS_Interval
  <2>2. \A s \in SUBSET D : s # {} => pick[s] \in s
    BY MaxFirst
  <2> HIDE DEF D, pick
  <2>3. PICK h : Recursion(h, c, base, seq, D, pick)
    BY <2>1, <2>2, SubsetRecursion, Zenon
  <2>4. \A s \in SUBSET D : pick[s] = Max(s)
    BY DEF pick
  <2>5. h = [s \in SUBSET D |-> h[s]] /\ It(h) = [s \in SUBSET D |-> h[s]]
    BY <2>3, <2>4 DEF Recursion
  <2> HIDE DEF It
  <2>6. h = It(h)
    BY <2>5
  <2> QED BY <2>6
<1>3. g = It(g)
  <2> HIDE DEF It
  <2> QED BY <1>2
<1> HIDE DEF g
<1>4. \A s \in SUBSET D : g[s] = IF s = {} THEN base ELSE Op(c, seq[Max(s)], g[s \ {Max(s)}])
  BY <1>3
<1>5. a[0] = base /\ a[N] = g[D]
  <2>1. 1..0 = {} /\ 0 \in 0..N /\ N \in 0..N
    OBVIOUS
  <2> QED BY <1>4, <2>1
<1>6. ASSUME NEW n \in 1..N PROVE a[n] = Op(c, seq[n], a[n - 1])
  <2>1. /\ 1..n \in SUBSET D /\ 1..n # {} /\ n \in 0..N /\ n - 1 \in 0..N
        /\ Max(1..n) = n /\ (1..n) \ {n} = 1..(n - 1)
    BY MaxFirst
  <2> QED BY <1>4, <2>1
<1> HIDE DEF a
<1> QED BY <1>1, <1>5, <1>6 DEF Folded

(* What holds of the first value, and of each after its step, holds of the *)
(* last.                                                                   *)
THEOREM SeqFoldKeeps ==
    ASSUME NEW c, NEW base, NEW seq, NEW N \in Nat, DOMAIN seq = 1..N,
           NEW P, base \in P[0], \A n \in 1..N : \A w \in P[n - 1] : Op(c, seq[n], w) \in P[n]
    PROVE  OfSeq(c, base, seq) \in P[N]
<1>1. PICK a : /\ OfSeq(c, base, seq) = a[N]
               /\ a[0] = base /\ \A n \in 1..N : a[n] = Op(c, seq[n], a[n - 1])
  BY SeqFold DEF Folded
<1> DEFINE B == {n \in Nat : n <= N => a[n] \in P[n]}
<1>2. 0 \in B
  BY <1>1
<1>3. ASSUME NEW n \in Nat, n \in B PROVE n + 1 \in B
  <2> SUFFICES ASSUME n + 1 <= N PROVE a[n + 1] \in P[n + 1]
    OBVIOUS
  <2>1. n + 1 \in 1..N /\ (n + 1) - 1 = n /\ a[n] \in P[n]
    BY <1>3
  <2> QED BY <1>1, <2>1
<1> HIDE DEF B
<1>4. N \in B
  BY <1>2, <1>3, NatSetInduction
<1> QED BY <1>1, <1>4 DEF B

(* A fold over a set, and the values it may pass through.                  *)
OfSet(c, base, S) == FoldSet(LAMBDA x, w : Op(c, x, w), base, S)

Through(g, c, base, S) ==
    g[{}] = base /\ \A s \in SUBSET S : s # {} => \E x \in s : g[s] = Op(c, x, g[s \ {x}])

(* A fold over a set takes its elements in some order.                     *)
THEOREM SetFold ==
    ASSUME NEW c, NEW base, NEW S, IsFiniteSet(S)
    PROVE  \E g : OfSet(c, base, S) = g[S] /\ Through(g, c, base, S)
<1> DEFINE pick  == [s \in SUBSET S |-> CHOOSE x \in s : TRUE]
           Val(g, s) == IF s = {} THEN base
                        ELSE Op(c, CHOOSE x \in s : TRUE, g[s \ {CHOOSE x \in s : TRUE}])
           It(g) == [s \in SUBSET S |-> Val(g, s)]
           g     == CHOOSE h : h = It(h)
<1>1. OfSet(c, base, S) = g[S]
  BY DEF OfSet, FoldSet, MapThenFoldSet
<1>2. \E h : h = It(h)
  <2> DEFINE val == [x \in S |-> x]
  <2>1. \A s \in SUBSET S : s # {} => pick[s] \in s
    OBVIOUS
  <2> HIDE DEF pick, val
  <2>2. PICK h : Recursion(h, c, base, val, S, pick)
    BY <2>1, SubsetRecursion, Zenon
  <2>3. \A s \in SUBSET S : s # {} => pick[s] = (CHOOSE x \in s : TRUE) /\ val[pick[s]] = pick[s]
    BY <2>1 DEF pick, val
  <2>4. h = [s \in SUBSET S |-> h[s]]
    BY <2>2 DEF Recursion
  <2>5. \A s \in SUBSET S : Val(h, s) = h[s]
    <3> SUFFICES ASSUME NEW s \in SUBSET S PROVE Val(h, s) = h[s]
      OBVIOUS
    <3>1. h[s] = IF s = {} THEN base ELSE Op(c, val[pick[s]], h[s \ {pick[s]}])
      BY <2>2 DEF Recursion
    <3>2. CASE s = {}
      BY <3>1, <3>2
    <3>3. CASE s # {}
      <4>1. h[s] = Op(c, pick[s], h[s \ {pick[s]}])
        BY <2>3, <3>1, <3>3
      <4> QED BY <2>3, <3>3, <4>1
    <3> QED BY <3>2, <3>3
  <2> HIDE DEF Val
  <2>6. h = It(h)
    BY <2>4, <2>5
  <2> HIDE DEF It
  <2> QED BY <2>6
<1>3. g = It(g)
  <2> HIDE DEF It
  <2> QED BY <1>2
<1> HIDE DEF g
<1>4. \A s \in SUBSET S : g[s] = Val(g, s)
  <2> HIDE DEF Val
  <2> QED BY <1>3
<1>5. ASSUME NEW s \in SUBSET S, s # {}
      PROVE  \E x \in s : g[s] = Op(c, x, g[s \ {x}])
  <2>1. (CHOOSE x \in s : TRUE) \in s
    BY <1>5
  <2> QED BY <1>4, <1>5, <2>1
<1>6. g[{}] = base
  BY <1>4
<1> HIDE DEF Val
<1> QED BY <1>1, <1>5, <1>6 DEF Through
(* The same of a fold over a set.                                          *)
THEOREM SetFoldKeeps ==
    ASSUME NEW c, NEW base, NEW S, IsFiniteSet(S),
           NEW P, base \in P, \A x \in S : \A w \in P : Op(c, x, w) \in P
    PROVE  OfSet(c, base, S) \in P
<1>1. PICK g : OfSet(c, base, S) = g[S] /\ Through(g, c, base, S)
  BY SetFold
<1> DEFINE B == {s \in SUBSET S : g[s] \in P}
<1>2. ASSUME NEW s \in SUBSET S, \A x \in s : s \ {x} \in B PROVE s \in B
  <2>1. CASE s = {}
    BY <1>1, <2>1 DEF Through
  <2>2. CASE s # {}
    <3>1. PICK x \in s : g[s] = Op(c, x, g[s \ {x}])
      BY <1>1, <2>2 DEF Through
    <3> QED BY <1>2, <3>1
  <2> QED BY <2>1, <2>2
<1> HIDE DEF B
<1>3. SUBSET S \subseteq B
  BY <1>2, SubsetInduction
<1> QED BY <1>1, <1>3 DEF B

-----------------------------------------------------------------------------
(* Sums: a fold whose step adds the element's weight.                      *)
Total(c, S) == OfSet(c, 0, S)

Additive(c, weight, D) ==
    \A x \in D : weight[x] \in Nat /\ \A w \in Nat : Op(c, x, w) = weight[x] + w

(* Whichever element is taken first, the sum is the same.                  *)
THEOREM SumTake ==
    ASSUME NEW c, NEW weight, NEW D, IsFiniteSet(D), Additive(c, weight, D)
    PROVE  /\ Total(c, {}) = 0
           /\ \A S \in SUBSET D : /\ Total(c, S) \in Nat
                                /\ \A x \in S : Total(c, S) = weight[x] + Total(c, S \ {x})
<1> DEFINE IsSum(g, S) == Through(g, c, 0, S)
           Adds(g, s) == g[s] \in Nat /\ \A y \in s : g[s] = weight[y] + g[s \ {y}]
<1>1. \A S \in SUBSET D : IsFiniteSet(S)
  BY FS_Subset
<1>2. \A S \in SUBSET D : \E g : Total(c, S) = g[S] /\ IsSum(g, S)
  BY <1>1, SetFold DEF Total
<1>3. ASSUME NEW S \in SUBSET D, NEW g, IsSum(g, S)
      PROVE  \A s \in SUBSET S : Adds(g, s)
  <2>0. \A s \in SUBSET S : g[s] \in Nat
    <3> DEFINE N == {s \in SUBSET S : g[s] \in Nat}
    <3>1. ASSUME NEW s \in SUBSET S, \A x \in s : s \ {x} \in N PROVE s \in N
      <4>1. CASE s = {}
        BY <1>3, <4>1 DEF Through
      <4>2. CASE s # {}
        <5>1. PICK x \in s : g[s] = Op(c, x, g[s \ {x}])
          BY <1>3, <4>2 DEF Through
        <5>2. g[s \ {x}] \in Nat /\ x \in D
          BY <3>1
        <5>3. Op(c, x, g[s \ {x}]) \in Nat
          BY <5>2 DEF Additive
        <5> QED BY <5>1, <5>3
      <4> QED BY <4>1, <4>2
    <3> HIDE DEF N
    <3>2. SUBSET S \subseteq N
      BY <1>1, <3>1, SubsetInduction
    <3> QED BY <3>2 DEF N
  <2> DEFINE P == {s \in SUBSET S : \A y \in s : g[s] = weight[y] + g[s \ {y}]}
  <2>1. ASSUME NEW s \in SUBSET S, \A x \in s : s \ {x} \in P PROVE s \in P
    <3> SUFFICES ASSUME NEW y \in s PROVE g[s] = weight[y] + g[s \ {y}]
      OBVIOUS
    <3>1. PICK x \in s : g[s] = Op(c, x, g[s \ {x}])
      BY <1>3 DEF Through
    <3>2. weight[x] \in Nat /\ weight[y] \in Nat /\ g[s] = weight[x] + g[s \ {x}]
      BY <2>0, <3>1 DEF Additive
    <3>3. CASE y = x
      BY <3>2, <3>3
    <3>4. CASE y # x
      <4> DEFINE z == (s \ {x}) \ {y}
      <4>1. y \in s \ {x} /\ x \in s \ {y} /\ (s \ {y}) \ {x} = z /\ z \in SUBSET S
        BY <3>4
      <4>2. g[s \ {x}] = weight[y] + g[z] /\ g[s \ {y}] = weight[x] + g[z]
        <5>1. g[s \ {x}] = weight[y] + g[(s \ {x}) \ {y}]
          BY <2>1, <4>1
        <5>2. g[s \ {y}] = weight[x] + g[(s \ {y}) \ {x}]
          BY <2>1, <4>1
        <5> QED BY <4>1, <5>1, <5>2
      <4>3. g[z] \in Nat
        BY <2>0, <4>1
      <4> HIDE DEF z
      <4> QED BY <3>2, <4>2, <4>3
    <3> QED BY <3>3, <3>4
  <2> HIDE DEF P
  <2>2. SUBSET S \subseteq P
    BY <1>1, <2>1, SubsetInduction
  <2> QED BY <2>0, <2>2 DEF P
<1> HIDE DEF IsSum, Adds
<1>4. ASSUME NEW S \in SUBSET D, NEW g, IsSum(g, S), NEW T \in SUBSET S, NEW h, IsSum(h, T)
      PROVE  h[T] = g[T]
  <2> DEFINE P == {t \in SUBSET T : h[t] = g[t]}
  <2>1. \A t \in SUBSET T : Adds(g, t) /\ Adds(h, t)
    <3>1. SUBSET T \subseteq SUBSET S /\ T \in SUBSET D
      OBVIOUS
    <3> QED BY <1>3, <1>4, <3>1
  <2>2. ASSUME NEW t \in SUBSET T, \A x \in t : t \ {x} \in P PROVE t \in P
    <3>1. CASE t = {}
      BY <1>4, <3>1 DEF IsSum, Through
    <3>2. CASE t # {}
      <4>1. PICK x \in t : TRUE
        BY <3>2
      <4> QED BY <2>1, <2>2, <4>1 DEF Adds
    <3> QED BY <3>1, <3>2
  <2> HIDE DEF P
  <2>3. SUBSET T \subseteq P
    BY <1>1, <1>4, <2>2, SubsetInduction
  <2> QED BY <2>3 DEF P
<1>5. Total(c, {}) = 0
  BY <1>2 DEF IsSum, Through
<1>6. ASSUME NEW S \in SUBSET D
      PROVE  Total(c, S) \in Nat /\ \A x \in S : Total(c, S) = weight[x] + Total(c, S \ {x})
  <2>1. PICK g : Total(c, S) = g[S] /\ IsSum(g, S)
    BY <1>2
  <2>2. Adds(g, S)
    BY <1>3, <2>1
  <2>3. ASSUME NEW x \in S PROVE Total(c, S \ {x}) = g[S \ {x}]
    <3>1. PICK h : Total(c, S \ {x}) = h[S \ {x}] /\ IsSum(h, S \ {x})
      BY <1>2
    <3> QED BY <1>4, <2>1, <3>1
  <2> QED BY <2>1, <2>2, <2>3 DEF Adds
<1> QED BY <1>5, <1>6

(* What it is to be the sums over the parts of a set, of the elements'      *)
(* weights.                                                                *)
Sums(g, weight, D) ==
    /\ g[{}] = 0
    /\ \A S \in SUBSET D : g[S] \in Nat /\ \A x \in S : g[S] = weight[x] + g[S \ {x}]

(* A fold that adds weights is that.                                       *)
THEOREM TotalSums ==
    ASSUME NEW c, NEW weight, NEW D, IsFiniteSet(D), Additive(c, weight, D)
    PROVE  Sums([S \in SUBSET D |-> Total(c, S)], weight, D)
<1> DEFINE g == [S \in SUBSET D |-> Total(c, S)]
<1>1. \A S \in SUBSET D : g[S] = Total(c, S) /\ \A x \in S : S \ {x} \in SUBSET D
  OBVIOUS
<1>2. {} \in SUBSET D
  OBVIOUS
<1> HIDE DEF g
<1> QED BY <1>1, <1>2, SumTake DEF Sums, g

(* A part of a set adds up to no more than the set.                        *)
THEOREM SumPart ==
    ASSUME NEW g, NEW weight, NEW D, IsFiniteSet(D), Sums(g, weight, D),
           \A x \in D : weight[x] \in Nat, NEW T \in SUBSET D
    PROVE  g[T] <= g[D]
<1> DEFINE P == {s \in SUBSET D : T \subseteq s => g[T] <= g[s]}
<1>1. ASSUME NEW s \in SUBSET D, \A x \in s : s \ {x} \in P PROVE s \in P
  <2>1. CASE s \subseteq T
    <3>1. T \subseteq s => T = s
      BY <2>1
    <3>2. g[s] \in Nat
      BY DEF Sums
    <3> QED BY <3>1, <3>2
  <2>2. CASE ~(s \subseteq T)
    <3>1. PICK x \in s : x \notin T
      BY <2>2
    <3>2. /\ T \subseteq s => T \subseteq s \ {x}
          /\ s \ {x} \in P
      BY <1>1, <3>1
    <3>3. g[s] = weight[x] + g[s \ {x}] /\ g[s \ {x}] \in Nat /\ g[T] \in Nat
      BY DEF Sums
    <3> QED BY <3>2, <3>3
  <2> QED BY <2>1, <2>2
<1> HIDE DEF P
<1>2. SUBSET D \subseteq P
  BY <1>1, SubsetInduction
<1> QED BY <1>2 DEF P

(* Sets whose elements pair off, each with one of its weight or more, add  *)
(* up in that order.                                                       *)
THEOREM SumPaired ==
    ASSUME NEW g, NEW weight, NEW D, IsFiniteSet(D), Sums(g, weight, D),
           NEW h, NEW weight2, NEW E, IsFiniteSet(E), Sums(h, weight2, E),
           \A x \in D : weight[x] \in Nat, \A y \in E : weight2[y] \in Nat,
           NEW f \in [D -> E],
           \A x \in D : weight[x] <= weight2[f[x]],
           \A x, y \in D : f[x] = f[y] => x = y
    PROVE  g[D] <= h[E]
<1> DEFINE Image(s) == {f[x] : x \in s}
           P == {s \in SUBSET D : g[s] <= h[Image(s)]}
<1>1. ASSUME NEW s \in SUBSET D, \A x \in s : s \ {x} \in P PROVE s \in P
  <2>1. CASE s = {}
    <3>1. Image(s) = {}
      BY <2>1
    <3> HIDE DEF Image
    <3> QED BY <2>1, <3>1 DEF Sums
  <2>2. CASE s # {}
    <3>1. PICK x \in s : TRUE
      BY <2>2
    <3>2. Image(s) \in SUBSET E /\ f[x] \in Image(s) /\ Image(s \ {x}) = Image(s) \ {f[x]}
      OBVIOUS
    <3>3. g[s \ {x}] <= h[Image(s) \ {f[x]}]
      BY <1>1, <3>1, <3>2
    <3> HIDE DEF Image
    <3>4. g[s] = weight[x] + g[s \ {x}] /\ g[s \ {x}] \in Nat
      BY DEF Sums
    <3>5. Image(s) \ {f[x]} \in SUBSET E
      BY <3>2
    <3>6. /\ h[Image(s)] = weight2[f[x]] + h[Image(s) \ {f[x]}]
          /\ h[Image(s) \ {f[x]}] \in Nat
      BY <3>2, <3>5 DEF Sums
    <3>7. weight[x] \in Nat /\ weight2[f[x]] \in Nat /\ weight[x] <= weight2[f[x]]
      BY <3>2
    <3> QED BY <3>3, <3>4, <3>6, <3>7
  <2> QED BY <2>1, <2>2
<1>2. Image(D) \in SUBSET E
  OBVIOUS
<1> HIDE DEF P, Image
<1>3. SUBSET D \subseteq P
  BY <1>1, SubsetInduction
<1>4. g[D] <= h[Image(D)]
  BY <1>3 DEF P
<1>5. h[Image(D)] <= h[E]
  BY <1>2, SumPart
<1>6. g[D] \in Nat /\ h[Image(D)] \in Nat /\ h[E] \in Nat
  BY <1>2 DEF Sums
<1> QED BY <1>4, <1>5, <1>6
-----------------------------------------------------------------------------
(* A finite set of integers has a greatest.                                *)
LEMMA FiniteMax ==
    ASSUME NEW S \in SUBSET Int, IsFiniteSet(S), S # {}
    PROVE  Max(S) \in S /\ \A x \in S : x <= Max(S)
<1> DEFINE P == {s \in SUBSET S : s # {} => \E m \in s : \A x \in s : m >= x}
<1>1. ASSUME NEW s \in SUBSET S, \A x \in s : s \ {x} \in P PROVE s \in P
  <2> SUFFICES ASSUME s # {} PROVE \E m \in s : \A x \in s : m >= x
    OBVIOUS
  <2>1. PICK y \in s : TRUE
    OBVIOUS
  <2>2. CASE s \ {y} = {}
    <3>1. \A x \in s : x = y
      BY <2>2
    <3>2. \A x \in s : y >= x
      BY <3>1
    <3> QED BY <3>2
  <2>3. CASE s \ {y} # {}
    <3>1. PICK m \in s \ {y} : \A x \in s \ {y} : m >= x
      BY <1>1, <2>3
    <3>2. y \in Int /\ m \in Int /\ \A x \in s : x \in Int /\ (x = y \/ m >= x)
      BY <3>1
    <3>3. CASE m >= y
      BY <3>2, <3>3
    <3>4. CASE y >= m
      <4>1. \A x \in s : y >= x
        BY <3>2, <3>4
      <4> QED BY <4>1
    <3> QED BY <3>2, <3>3, <3>4
  <2> QED BY <2>2, <2>3
<1> HIDE DEF P
<1>2. SUBSET S \subseteq P
  BY <1>1, SubsetInduction
<1>3. PICK m \in S : \A x \in S : m >= x
  BY <1>2 DEF P
<1>4. Max(S) \in S /\ \A x \in S : Max(S) >= x
  BY <1>3 DEF Max
<1> QED BY <1>4
=============================================================================
