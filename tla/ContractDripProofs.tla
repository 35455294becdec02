-------------------------- MODULE ContractDripProofs --------------------------
(***************************************************************************)
(* Theorems about ContractLife's judging, for any requests, in any order of*)
(* their times, under any versions: over no day do the bytes passed as     *)
(* parameters go past the largest bound a version gave, no row that a      *)
(* version allows hides a request that breaks it, and what is listed of a  *)
(* proposal is what the window before it would break.                      *)
(***************************************************************************)
EXTENDS ContractLifeProofs

(* What is counted of a body that passed.                                  *)
CountOf(j) == [id |-> j.request.id, keys |-> KeysOf(j), at |-> j.when, kib |-> BytesOf(j)]

(* The sums of passed bodies' bytes, and of counted ones, are folds.       *)
AddBytes(c, j, sum) == BytesOf(j) + sum
AddKib(c, b, sum)   == b.kib + sum

Bodies == INSTANCE Folding WITH Op <- AddBytes
Tallies == INSTANCE Folding WITH Op <- AddKib

(* No version's budget is below zero, and its size caps are numbers.       *)
Budgeted(r) ==
    /\ r.agentBudget \in Nat
    /\ \A key \in DOMAIN r.budgets : r.budgets[key] \in Nat
    /\ \A key \in DOMAIN r.caps : r.caps[key] \in Int

BudgetsOK   == \A n \in DOMAIN versions : Budgeted(versions[n])

(* Ids count the requests, and each is held or judged once at most.        *)
BodyOK(body) == body \in {NoBody, Unreadable} \/ body.kib \in Nat

IdsOK ==
    /\ IsFiniteSet(requests)
    /\ \A q \in requests : q.id \in 1..Cardinality(requests)
    /\ \A h \in held : /\ h.request \in requests /\ active # 0
                       /\ h.request.at \in Int /\ BodyOK(h.request.body)
    /\ \A j \in judged : j.request \in requests
    /\ \A g, h \in held : g.request.id = h.request.id => g = h
    /\ \A i, j \in judged : i.request.id = j.request.id => i = j
    /\ \A h \in held, j \in judged : h.request.id # j.request.id

(* Nothing was held, or a version activated, later than now.               *)
TimesOK ==
    /\ clock \in Nat
    /\ activatedAt \in Nat /\ activatedAt <= clock
    /\ \A h \in held : h.at \in Nat /\ h.at <= clock

(* What is counted passed, and what passed in the last two days is counted.*)
CountedOK ==
    /\ IsFiniteSet(judged) /\ IsFiniteSet(drip)
    /\ \A j \in Passed : j.when \in Int /\ BytesOf(j) \in Nat
    /\ \A c \in drip : \E j \in Passed : c = CountOf(j)
    /\ \A j \in Passed : j.when >= clock - 2 * Day => CountOf(j) \in drip

DripInv == LifeInv /\ BudgetsOK /\ IdsOK /\ TimesOK /\ CountedOK /\ DripBounded
-----------------------------------------------------------------------------
(* The bytes of any passed bodies, and of any counted, are sums.           *)
LEMMA BytesAddUp ==
    ASSUME NEW D, IsFiniteSet(D), \A j \in D : BytesOf(j) \in Nat
    PROVE  Bodies!Sums([S \in SUBSET D |-> SumBytes(S)], [j \in D |-> BytesOf(j)], D)
<1>1. \A S : Bodies!Total(0, S) = SumBytes(S)
  BY DEF Bodies!Total, Bodies!OfSet, Bodies!FoldSet, SumBytes, MapThenSumSet, MapThenFoldSet,
         Bodies!MapThenFoldSet, AddBytes
<1>2. Bodies!Additive(0, [j \in D |-> BytesOf(j)], D)
  BY DEF Bodies!Additive, AddBytes
<1> HIDE DEF Bodies!Additive
<1>3. Bodies!Sums([S \in SUBSET D |-> Bodies!Total(0, S)], [j \in D |-> BytesOf(j)], D)
  <2>1. Bodies!IsFiniteSet(D)
    BY DEF IsFiniteSet, Bodies!IsFiniteSet
  <2> QED BY <1>2, <2>1, Bodies!TotalSums
<1> QED BY <1>1, <1>3

(* The KiB of a set of requests add up, request by request.                *)
LEMMA KibAddUp ==
    ASSUME NEW D, IsFiniteSet(D), \A c \in D : c.kib \in Nat
    PROVE  Tallies!Sums([S \in SUBSET D |-> Spent(S)], [c \in D |-> c.kib], D)
<1>1. \A S : Tallies!Total(0, S) = Spent(S)
  BY DEF Tallies!Total, Tallies!OfSet, Tallies!FoldSet, Spent, MapThenSumSet, MapThenFoldSet,
         Tallies!MapThenFoldSet, AddKib
<1>2. Tallies!Additive(0, [c \in D |-> c.kib], D)
  BY DEF Tallies!Additive, AddKib
<1> HIDE DEF Tallies!Additive
<1>3. Tallies!Sums([S \in SUBSET D |-> Tallies!Total(0, S)], [c \in D |-> c.kib], D)
  <2>1. Tallies!IsFiniteSet(D)
    BY DEF IsFiniteSet, Tallies!IsFiniteSet
  <2> QED BY <1>2, <2>1, Tallies!TotalSums
<1> QED BY <1>1, <1>3

(* One body's bytes and the rest's.                                        *)
LEMMA BytesSplit ==
    ASSUME NEW D, IsFiniteSet(D), \A j \in D : BytesOf(j) \in Nat
    PROVE  /\ SumBytes(D) \in Nat
           /\ \A j \in D : SumBytes(D) = BytesOf(j) + SumBytes(D \ {j})
<1> DEFINE g == [S \in SUBSET D |-> SumBytes(S)]
           w == [j \in D |-> BytesOf(j)]
<1>1. Bodies!Sums(g, w, D)
  BY BytesAddUp
<1>2. g[D] = SumBytes(D) /\ \A j \in D : g[D \ {j}] = SumBytes(D \ {j}) /\ w[j] = BytesOf(j)
  OBVIOUS
<1> HIDE DEF g, w
<1>3. g[D] \in Nat /\ \A j \in D : g[D] = w[j] + g[D \ {j}]
  BY <1>1 DEF Bodies!Sums
<1> QED BY <1>2, <1>3

(* Bodies that are all counted sum to no more than what is spent.          *)
LEMMA SpentCovers ==
    ASSUME NEW D, IsFiniteSet(D), NEW E, IsFiniteSet(E),
           \A j \in D : BytesOf(j) \in Nat /\ CountOf(j) \in E,
           \A c \in E : c.kib \in Nat,
           \A i, j \in D : i.request.id = j.request.id => i = j
    PROVE  Spent(E) \in Nat /\ SumBytes(D) <= Spent(E)
<1> DEFINE g  == [S \in SUBSET D |-> SumBytes(S)]
           w  == [j \in D |-> BytesOf(j)]
           h  == [S \in SUBSET E |-> Spent(S)]
           w2 == [c \in E |-> c.kib]
           f  == [j \in D |-> CountOf(j)]
<1>1. Bodies!Sums(g, w, D)
  BY BytesAddUp
<1>2. Bodies!Sums(h, w2, E)
  <2>1. Tallies!Sums(h, w2, E)
    BY KibAddUp
  <2> HIDE DEF h, w2
  <2> QED BY <2>1 DEF Tallies!Sums, Bodies!Sums
<1>3. /\ \A j \in D : w[j] \in Nat
      /\ \A c \in E : w2[c] \in Nat
      /\ f \in [D -> E]
      /\ \A j \in D : w[j] <= w2[f[j]]
      /\ \A i, j \in D : f[i] = f[j] => i = j
  <2>1. ASSUME NEW j \in D PROVE w[j] = BytesOf(j) /\ w2[f[j]] = BytesOf(j) /\ f[j].id = j.request.id
    BY DEF CountOf
  <2>2. f \in [D -> E]
    OBVIOUS
  <2>3. \A c \in E : w2[c] \in Nat
    OBVIOUS
  <2> HIDE DEF f, w, w2
  <2> QED BY <2>1, <2>2, <2>3
<1>4. g[D] = SumBytes(D) /\ h[E] = Spent(E)
  OBVIOUS
<1>5. Bodies!IsFiniteSet(D) /\ Bodies!IsFiniteSet(E)
  BY DEF IsFiniteSet, Bodies!IsFiniteSet
<1> HIDE DEF g, w, h, w2, f
<1>6. g[D] <= h[E]
  BY <1>1, <1>2, <1>3, <1>5, Bodies!SumPaired
<1>7. h[E] \in Nat
  BY <1>2 DEF Bodies!Sums
<1> QED BY <1>4, <1>6, <1>7

(* A version's own budgets are within the largest, and the largest are some*)
(* version's.                                                              *)
AgentBoundsOf(vs)      == {vs[n].agentBudget : n \in DOMAIN vs}
EntryBoundsOf(vs, key) == {EntryBudget(vs[n].budgets, key) : n \in DOMAIN vs}

(* The largest of finitely many numbers is one of them and none exceeds it.*)
LEMMA Largest ==
    ASSUME NEW D, IsFiniteSet(D), D # {}, NEW b, \A m \in D : b[m] \in Nat
    PROVE  /\ \A n \in D : b[n] <= Max({b[m] : m \in D})
           /\ Max({b[m] : m \in D}) \in Nat /\ \E n \in D : Max({b[m] : m \in D}) = b[n]
<1> DEFINE B == {b[m] : m \in D}
           f == [m \in D |-> b[m]]
<1>1. f \in Surjection(D, B)
  BY DEF Surjection
<1>2. IsFiniteSet(B)
  <2> HIDE DEF f, B
  <2> QED BY <1>1, FS_Surjection
<1>3. B \in SUBSET Int /\ B # {} /\ B \subseteq Nat
  OBVIOUS
<1> HIDE DEF B
<1>4. Bodies!IsFiniteSet(B)
  BY <1>2 DEF IsFiniteSet, Bodies!IsFiniteSet
<1>5. Bodies!Max(B) = Max(B)
  BY DEF Max, Bodies!Max
<1>6. Max(B) \in B /\ \A x \in B : x <= Max(B)
  BY <1>3, <1>4, <1>5, Bodies!FiniteMax
<1> QED BY <1>3, <1>6 DEF B

(* The largest budgets of a history of versions bound the budgets of each, *)
(* and each is some version's.                                             *)
LEMMA BoundsOf ==
    ASSUME NEW vs, NEW N \in Nat, DOMAIN vs = 1..N, N > 0, \A n \in DOMAIN vs : Budgeted(vs[n])
    PROVE  /\ Max(AgentBoundsOf(vs)) \in Nat
           /\ \A n \in DOMAIN vs : vs[n].agentBudget <= Max(AgentBoundsOf(vs))
           /\ \E n \in DOMAIN vs : Max(AgentBoundsOf(vs)) = vs[n].agentBudget
           /\ \A key : LET most == Max(EntryBoundsOf(vs, key))
                       IN /\ most \in Nat
                          /\ \A n \in DOMAIN vs : EntryBudget(vs[n].budgets, key) <= most
                          /\ \E n \in DOMAIN vs : most = EntryBudget(vs[n].budgets, key)
<1> DEFINE D == DOMAIN vs
<1>1. IsFiniteSet(D) /\ D # {}
  <2>1. IsFiniteSet(1..N) /\ 1 \in 1..N
    BY FS_Interval
  <2> QED BY <2>1
<1> HIDE DEF D
<1>2. /\ Max(AgentBoundsOf(vs)) \in Nat
      /\ \A n \in D : vs[n].agentBudget <= Max(AgentBoundsOf(vs))
      /\ \E n \in D : Max(AgentBoundsOf(vs)) = vs[n].agentBudget
  <2> DEFINE b == [m \in D |-> vs[m].agentBudget]
  <2>1. \A m \in D : b[m] = vs[m].agentBudget /\ b[m] \in Nat
    BY DEF Budgeted, D
  <2>2. {b[m] : m \in D} = AgentBoundsOf(vs)
    BY <2>1 DEF AgentBoundsOf, D
  <2> HIDE DEF b
  <2>3. /\ \A n \in D : b[n] <= Max({b[m] : m \in D})
        /\ Max({b[m] : m \in D}) \in Nat /\ \E n \in D : Max({b[m] : m \in D}) = b[n]
    BY <1>1, <2>1, Largest
  <2> QED BY <2>1, <2>2, <2>3
<1>3. ASSUME NEW key
      PROVE  /\ Max(EntryBoundsOf(vs, key)) \in Nat
             /\ \A n \in D : EntryBudget(vs[n].budgets, key) <= Max(EntryBoundsOf(vs, key))
             /\ \E n \in D : Max(EntryBoundsOf(vs, key)) = EntryBudget(vs[n].budgets, key)
  <2> DEFINE b == [m \in D |-> EntryBudget(vs[m].budgets, key)]
  <2>1. \A m \in D : b[m] = EntryBudget(vs[m].budgets, key) /\ b[m] \in Nat
    BY BudgetAssumption DEF Budgeted, EntryBudget, D
  <2>2. {b[m] : m \in D} = EntryBoundsOf(vs, key)
    BY <2>1 DEF EntryBoundsOf, D
  <2> HIDE DEF b
  <2>3. /\ \A n \in D : b[n] <= Max({b[m] : m \in D})
        /\ Max({b[m] : m \in D}) \in Nat /\ \E n \in D : Max({b[m] : m \in D}) = b[n]
    BY <1>1, <2>1, Largest
  <2> QED BY <2>1, <2>2, <2>3
<1> QED BY <1>2, <1>3 DEF D

(* No version's budget exceeds the largest the policy ever had.            *)
LEMMA WithinBounds ==
    ASSUME VersionsOK, BudgetsOK, NEW n \in DOMAIN versions
    PROVE  /\ versions[n].agentBudget \in Nat
           /\ versions[n].agentBudget <= Max(AgentBounds) /\ Max(AgentBounds) \in Nat
           /\ \A key : /\ EntryBudget(versions[n].budgets, key) \in Nat
                       /\ EntryBudget(versions[n].budgets, key) <= Max(EntryBounds(key))
                       /\ Max(EntryBounds(key)) \in Nat
<1>1. /\ DOMAIN versions = 1..Len(versions) /\ Len(versions) \in Nat /\ Len(versions) > 0
      /\ \A m \in DOMAIN versions : Budgeted(versions[m])
  BY DEF VersionsOK, BudgetsOK
<1>2. AgentBounds = AgentBoundsOf(versions) /\ \A key : EntryBounds(key) = EntryBoundsOf(versions, key)
  BY DEF AgentBounds, AgentBoundsOf, EntryBounds, EntryBoundsOf
<1>3. /\ versions[n].agentBudget \in Nat
      /\ \A key : EntryBudget(versions[n].budgets, key) \in Nat
  BY <1>1, BudgetAssumption DEF Budgeted, EntryBudget
<1> QED BY <1>1, <1>2, <1>3, BoundsOf

(* With a version more, no bound is lower.                                 *)
LEMMA BoundsGrow ==
    ASSUME VersionsOK, VersionsOK', BudgetsOK, BudgetsOK', DOMAIN versions # {},
           \A n \in DOMAIN versions : n \in DOMAIN versions' /\ versions'[n] = versions[n]
    PROVE  /\ Max(AgentBounds) \in Nat /\ Max(AgentBounds') \in Nat
           /\ Max(AgentBounds) <= Max(AgentBounds')
           /\ \A key : /\ Max(EntryBounds(key)) \in Nat /\ Max(EntryBounds(key)') \in Nat
                       /\ Max(EntryBounds(key)) <= Max(EntryBounds(key)')
<1>1. /\ DOMAIN versions = 1..Len(versions) /\ Len(versions) \in Nat /\ Len(versions) > 0
      /\ \A m \in DOMAIN versions : Budgeted(versions[m])
  BY DEF VersionsOK, BudgetsOK
<1>2. /\ DOMAIN versions' = 1..Len(versions') /\ Len(versions') \in Nat /\ Len(versions') > 0
      /\ \A m \in DOMAIN versions' : Budgeted(versions'[m])
  <2>1. DOMAIN versions' = 1..Len(versions') /\ Len(versions') \in Nat
    BY DEF VersionsOK
  <2>2. Len(versions') > 0
    <3>1. PICK n \in DOMAIN versions : n \in DOMAIN versions'
      OBVIOUS
    <3> QED BY <2>1, <3>1
  <2>3. \A m \in DOMAIN versions' : Budgeted(versions'[m])
    BY DEF BudgetsOK
  <2> QED BY <2>1, <2>2, <2>3
<1>3. AgentBounds = AgentBoundsOf(versions) /\ \A key : EntryBounds(key) = EntryBoundsOf(versions, key)
  BY DEF AgentBounds, AgentBoundsOf, EntryBounds, EntryBoundsOf
<1>4. /\ AgentBounds' = AgentBoundsOf(versions')
      /\ \A key : EntryBounds(key)' = EntryBoundsOf(versions', key)
  BY DEF AgentBounds, AgentBoundsOf, EntryBounds, EntryBoundsOf
<1>5. Max(AgentBoundsOf(versions)) \in Nat /\ Max(AgentBoundsOf(versions')) \in Nat
  BY <1>1, <1>2, BoundsOf
<1>6. Max(AgentBoundsOf(versions)) <= Max(AgentBoundsOf(versions'))
  <2>1. PICK n \in DOMAIN versions : Max(AgentBoundsOf(versions)) = versions[n].agentBudget
    BY <1>1, BoundsOf
  <2>2. versions'[n].agentBudget <= Max(AgentBoundsOf(versions'))
    BY <1>2, BoundsOf
  <2> QED BY <2>1, <2>2
<1>7. ASSUME NEW key
      PROVE  /\ Max(EntryBoundsOf(versions, key)) \in Nat
             /\ Max(EntryBoundsOf(versions', key)) \in Nat
             /\ Max(EntryBoundsOf(versions, key)) <= Max(EntryBoundsOf(versions', key))
  <2>1. /\ Max(EntryBoundsOf(versions, key)) \in Nat
        /\ \E n \in DOMAIN versions :
              Max(EntryBoundsOf(versions, key)) = EntryBudget(versions[n].budgets, key)
    BY <1>1, BoundsOf
  <2>2. /\ Max(EntryBoundsOf(versions', key)) \in Nat
        /\ \A n \in DOMAIN versions' :
              EntryBudget(versions'[n].budgets, key) <= Max(EntryBoundsOf(versions', key))
    BY <1>2, BoundsOf
  <2> QED BY <2>1, <2>2
<1> QED BY <1>3, <1>4, <1>5, <1>6, <1>7

-----------------------------------------------------------------------------
(* A capture's time is within the day before its check's.                  *)
LEMMA ClampedTime ==
    ASSUME NEW at \in Int, NEW clk \in Nat
    PROVE  Clamped(at, clk) \in Int /\ clk - Day <= Clamped(at, clk) /\ Clamped(at, clk) <= clk
<1>1. Day \in Nat
  BY DayAssumption
<1>2. CASE at > clk
  BY <1>1, <1>2 DEF Clamped
<1>3. CASE ~(at > clk) /\ at >= clk - Day
  <2>1. at \in {at, clk - Day} /\ \A x \in {at, clk - Day} : at >= x
    BY <1>1, <1>3
  <2>2. \A m \in {at, clk - Day} : (\A x \in {at, clk - Day} : m >= x) => m = at
    BY <1>1, <1>3
  <2>3. Max({at, clk - Day}) = at
    BY <2>1, <2>2 DEF Max
  <2> QED BY <1>1, <1>3, <2>3 DEF Clamped
<1>4. CASE ~(at > clk) /\ ~(at >= clk - Day)
  <2>1. clk - Day \in {at, clk - Day} /\ \A x \in {at, clk - Day} : clk - Day >= x
    BY <1>1, <1>4
  <2>2. \A m \in {at, clk - Day} : (\A x \in {at, clk - Day} : m >= x) => m = clk - Day
    BY <1>1, <1>4
  <2>3. Max({at, clk - Day}) = clk - Day
    BY <2>1, <2>2 DEF Max
  <2> QED BY <1>1, <1>4, <2>3 DEF Clamped
<1> QED BY <1>2, <1>3, <1>4

(* A body's kind is of as many bytes as the body.                          *)
LEMMA KindBytes ==
    ASSUME NEW body, BodyOK(body), CarriesBody(body), NEW host, NEW overrides, NEW spec
    PROVE  RequestBodyKind(body, host, overrides, spec).kib \in Nat
<1>1. CASE body = Unreadable
  BY <1>1 DEF RequestBodyKind
<1>2. CASE body # Unreadable
  <2>1. body.kib \in Nat
    BY <1>2 DEF BodyOK, CarriesBody
  <2>2. \A answers : Classify(body, answers, spec).kib = body.kib
    BY DEF Classify, Decided
  <2> QED BY <1>2, <2>1, <2>2 DEF RequestBodyKind
<1> QED BY <1>1, <1>2

(* A body passes and is counted, within the budgets of the version in force*)
PassesNow(new, clk) ==
    /\ Passed' = Passed \cup {new} /\ BytesOf(new) \in Nat
    /\ drip' = {c \in drip : c.at >= clk - 2 * Day} \cup {CountOf(new)}
    /\ ~OverBudget(DayBefore({c \in drip : c.at >= clk - 2 * Day}, new.when), BytesOf(new),
                   KeysOf(new), Rules.budgets, Rules.agentBudget)

(* What judging one body leaves: it passes so, or nothing is added.        *)
LEMMA DripOutcome ==
    ASSUME NEW q, BodyOK(q.body), NEW clk, Judge(q, clk)
    PROVE  \E new :
              /\ judged' = judged \cup {new}
              /\ new.request = q /\ new.version = active
              /\ new.when = Clamped(q.at, clk) /\ new.late = (clk # clock)
              /\ \/ PassesNow(new, clk)
                 \/ /\ Passed' = Passed
                    /\ \/ drip' = drip
                       \/ drip' = {c \in drip : c.at >= clk - 2 * Day}
<1> DEFINE r     == Rules
           asked == RequestBodyKind(q.body, q.host, r.overrides, q.specUploads)
           check == DripCheck(r, q, asked, clk)
           read  == kindsOn /\ CarriesBody(q.body)
           kind  == IF read THEN {check.kind} ELSE {}
           when  == Clamped(q.at, clk)
           kept  == {c \in drip : c.at >= clk - 2 * Day}
           keys  == DripKeys(q.host, r.callHosts)
           over  == OverBudget(DayBefore(kept, when), asked.kib, keys, r.budgets, r.agentBudget)
<1>0. PICK hits : judged' = judged \cup {[request |-> q, version |-> active, kind |-> kind,
                                          when |-> when, late |-> clk # clock, hits |-> hits]}
  BY DEF Judge
<1> DEFINE new == [request |-> q, version |-> active, kind |-> kind, when |-> when,
                   late |-> clk # clock, hits |-> hits]
<1>1. judged' = judged \cup {new} /\ drip' = IF read THEN check.drip ELSE drip
  BY <1>0 DEF Judge
<1>2. /\ new.request = q /\ new.version = active /\ new.kind = kind
      /\ new.when = when /\ new.late = (clk # clock)
  OBVIOUS
<1>3. read => asked.kib \in Nat
  BY KindBytes
<1>4. check = IF asked.kind # "parameters" \/ q.host = NoHost THEN [kind |-> asked, drip |-> drip]
              ELSE IF over THEN [kind |-> Dripped(asked, DayBefore(kept, when), keys), drip |-> kept]
              ELSE [kind |-> asked,
                    drip |-> kept \cup {[id |-> q.id, keys |-> keys, at |-> when,
                                         kib |-> asked.kib]}]
  BY DEF DripCheck
<1>5. ASSUME NEW k, NEW c, NEW ks PROVE Dripped(k, c, ks).kind = "upload" \/ "kind" \notin DOMAIN k
  BY DEF Dripped
<1>6. "kind" \in DOMAIN asked
  BY DEF RequestBodyKind, Classify, Decided
<1> HIDE DEF new, check, asked, over
<1>7. Passed' = Passed \cup (IF \E k \in kind : k.kind = "parameters" /\ q.host # NoHost
                             THEN {new} ELSE {})
  BY <1>1, <1>2 DEF Passed
<1>8. CASE read /\ asked.kind = "parameters" /\ q.host # NoHost /\ ~over
  <2>1. /\ check.kind = asked
        /\ check.drip = kept \cup {[id |-> q.id, keys |-> keys, at |-> when, kib |-> asked.kib]}
    BY <1>4, <1>8
  <2>2. kind = {asked} /\ BytesOf(new) = asked.kib
    BY <1>2, <1>8, <2>1 DEF BytesOf
  <2>3. KeysOf(new) = keys
    BY <1>2 DEF KeysOf, Rules
  <2>4. CountOf(new) = [id |-> q.id, keys |-> keys, at |-> when, kib |-> asked.kib]
    BY <1>2, <2>2, <2>3 DEF CountOf
  <2>5. Passed' = Passed \cup {new}
    BY <1>7, <1>8, <2>2
  <2>6. PassesNow(new, clk)
    BY <1>1, <1>2, <1>3, <1>8, <2>1, <2>2, <2>3, <2>4, <2>5 DEF PassesNow, over
  <2> QED BY <1>1, <1>2, <2>6
<1>9. CASE ~(read /\ asked.kind = "parameters" /\ q.host # NoHost /\ ~over)
  <2>1. \A k \in kind : ~(k.kind = "parameters" /\ q.host # NoHost)
    <3>1. CASE ~read
      BY <3>1
    <3>2. CASE read /\ (asked.kind # "parameters" \/ q.host = NoHost)
      BY <1>4, <3>2
    <3>3. CASE read /\ asked.kind = "parameters" /\ q.host # NoHost /\ over
      <4>1. check.kind.kind = "upload"
        BY <1>4, <1>5, <1>6, <3>3
      <4> QED BY <4>1
    <3> QED BY <1>9, <3>1, <3>2, <3>3
  <2>2. Passed' = Passed
    BY <1>7, <2>1
  <2>3. drip' = drip \/ drip' = kept
    BY <1>1, <1>4, <1>9
  <2> QED BY <1>1, <1>2, <2>2, <2>3
<1> QED BY <1>8, <1>9
-----------------------------------------------------------------------------
(* DripBounded, of one day of some bodies that passed.                     *)
DayIn(passed, last) == {j \in passed : last.when - Day < j.when /\ j.when <= last.when}

BoundedDay(passed, last) ==
    (\A j \in DayIn(passed, last) : ~j.late) =>
        /\ SumBytes(DayIn(passed, last)) <= Max(AgentBounds)
        /\ \A key \in KeysOf(last) :
              SumBytes({j \in DayIn(passed, last) : key \in KeysOf(j)}) <= Max(EntryBounds(key))

(* DripBounded says it of every day, now and after a step that makes no    *)
(* version.                                                                *)
LEMMA EveryDay ==
    /\ DripBounded <=> \A last \in Passed : BoundedDay(Passed, last)
    /\ versions' = versions =>
          (DripBounded' <=> \A last \in Passed' : BoundedDay(Passed', last))
<1>1. DripBounded <=> \A last \in Passed : BoundedDay(Passed, last)
  BY DEF DripBounded, BoundedDay, DayIn, DayOf, OnKey
<1>2. ASSUME versions' = versions
      PROVE  DripBounded' <=> \A last \in Passed' : BoundedDay(Passed', last)
  <2>1. \A j : KeysOf(j)' = KeysOf(j)
    BY <1>2 DEF KeysOf
  <2>2. AgentBounds' = AgentBounds /\ \A key : EntryBounds(key)' = EntryBounds(key)
    BY <1>2 DEF AgentBounds, EntryBounds
  <2>3. /\ \A last : DayOf(last)' = DayIn(Passed', last)
        /\ \A last, key : OnKey(DayOf(last), key)' = {j \in DayIn(Passed', last) : key \in KeysOf(j)}
    BY <2>1 DEF DayOf, DayIn, OnKey
  <2>4. DripBounded' <=>
          \A last \in Passed' :
              (\A j \in DayOf(last)' : ~j.late) =>
                 /\ SumBytes(DayOf(last)') <= Max(AgentBounds')
                 /\ \A key \in KeysOf(last)' :
                       SumBytes(OnKey(DayOf(last), key)') <= Max(EntryBounds(key)')
    BY DEF DripBounded
  <2> QED BY <2>1, <2>2, <2>3, <2>4 DEF BoundedDay
<1> QED BY <1>1, <1>2

(* A body that passes on time keeps every day it is in within the bounds:  *)
(* all that passed since a day before it is still counted.                 *)
LEMMA PassingBounded ==
    ASSUME LifeInv, BudgetsOK, CountedOK, clock \in Nat,
           NEW passed, passed = Passed, NEW new, new \notin passed,
           new.version = active, active # 0, new.when \in Int,
           new.when >= clock - Day, BytesOf(new) \in Nat,
           \A i, j \in judged : i.request.id = j.request.id => i = j,
           NEW counted, counted = DayBefore({c \in drip : c.at >= clock - 2 * Day}, new.when),
           ~OverBudget(counted, BytesOf(new), KeysOf(new), Rules.budgets, Rules.agentBudget),
           NEW last \in passed \cup {new}, last.when \in Int,
           new \in DayIn(passed \cup {new}, last),
           BoundedDay(passed, last) \/ last = new
    PROVE  BoundedDay(passed \cup {new}, last)
<1> DEFINE D == DayIn(passed \cup {new}, last)
           r == Rules
<1> SUFFICES ASSUME \A j \in D : ~j.late
             PROVE  /\ SumBytes(D) <= Max(AgentBounds)
                    /\ \A key \in KeysOf(last) :
                          SumBytes({j \in D : key \in KeysOf(j)}) <= Max(EntryBounds(key))
  BY DEF BoundedDay
<1>1. /\ IsFiniteSet(D) /\ new \in D /\ \A j \in D : BytesOf(j) \in Nat /\ j.when \in Int
      /\ \A j \in D \ {new} : j \in passed /\ j \in judged /\ j.when > new.when - Day
  <2>1. IsFiniteSet(judged) /\ passed \subseteq judged
    BY DEF CountedOK, Passed
  <2>2. IsFiniteSet(judged \cup {new}) /\ D \subseteq judged \cup {new}
    BY <2>1, FS_AddElement DEF DayIn
  <2>3. IsFiniteSet(D)
    BY <2>2, FS_Subset
  <2>4. \A j \in D : j = new \/ j \in Passed
    BY DEF DayIn
  <2>5. Day \in Nat /\ new.when <= last.when
    BY DayAssumption DEF DayIn
  <2> QED BY <2>1, <2>3, <2>4, <2>5 DEF CountedOK, DayIn
<1>2. /\ IsFiniteSet(counted) /\ \A c \in counted : c.kib \in Nat
      /\ \A j \in D \ {new} : CountOf(j) \in counted
  <2>1. IsFiniteSet(counted) /\ counted \subseteq drip
    BY FS_Subset DEF CountedOK, DayBefore
  <2>2. \A c \in counted : c.kib \in Nat
    BY <2>1 DEF CountedOK, CountOf
  <2>3. ASSUME NEW j \in D \ {new} PROVE CountOf(j) \in counted
    <3>1. Day \in Nat /\ j.when \in Int /\ j.when > new.when - Day
      BY <1>1, DayAssumption
    <3>2. j.when >= clock - 2 * Day
      BY <3>1
    <3>3. CountOf(j) \in drip /\ CountOf(j).at = j.when
      BY <1>1, <3>2 DEF CountedOK, CountOf
    <3> QED BY <3>1, <3>2, <3>3 DEF DayBefore
  <2> QED BY <2>1, <2>2, <2>3
<1>3. /\ r.agentBudget \in Nat /\ r.agentBudget <= Max(AgentBounds) /\ Max(AgentBounds) \in Nat
      /\ \A key : /\ EntryBudget(r.budgets, key) \in Nat
                  /\ EntryBudget(r.budgets, key) <= Max(EntryBounds(key))
                  /\ Max(EntryBounds(key)) \in Nat
  <2>1. active \in DOMAIN versions
    BY DEF LifeInv, VersionsOK
  <2> QED BY <2>1, WithinBounds DEF LifeInv, Rules
<1>4. /\ ~(Spent(counted) + BytesOf(new) > r.agentBudget)
      /\ \A key \in KeysOf(new) :
            ~(SpentOn(counted, key) + BytesOf(new) > EntryBudget(r.budgets, key))
  BY DEF OverBudget
<1> HIDE DEF D, r
(* What is left of some of them without the new body is counted.           *)
<1>5. ASSUME NEW S \in SUBSET D, new \in S, NEW E \in SUBSET counted,
             \A j \in S \ {new} : CountOf(j) \in E, NEW bound \in Nat,
             ~(Spent(E) + BytesOf(new) > bound)
      PROVE  SumBytes(S) <= bound
  <2>1. /\ IsFiniteSet(S) /\ IsFiniteSet(S \ {new}) /\ IsFiniteSet(E)
        /\ \A j \in S : BytesOf(j) \in Nat
    BY <1>1, <1>2, FS_Subset
  <2>2. SumBytes(S) = BytesOf(new) + SumBytes(S \ {new})
    BY <1>5, <2>1, BytesSplit
  <2>3. SumBytes(S \ {new}) \in Nat
    BY <2>1, BytesSplit
  <2>4. \A i, j \in S \ {new} : i.request.id = j.request.id => i = j
    BY <1>1
  <2>5. Spent(E) \in Nat /\ SumBytes(S \ {new}) <= Spent(E)
    BY <1>2, <1>5, <2>1, <2>4, SpentCovers
  <2> QED BY <1>5, <2>2, <2>3, <2>5
<1>6. SumBytes(D) <= Max(AgentBounds)
  <2>1. SumBytes(D) <= r.agentBudget
    BY <1>1, <1>2, <1>3, <1>4, <1>5
  <2>2. SumBytes(D) \in Nat
    BY <1>1, BytesSplit
  <2> QED BY <1>3, <2>1, <2>2
<1>7. ASSUME NEW key \in KeysOf(last)
      PROVE  SumBytes({j \in D : key \in KeysOf(j)}) <= Max(EntryBounds(key))
  <2> DEFINE S == {j \in D : key \in KeysOf(j)}
  <2>1. CASE key \in KeysOf(new)
    <3> DEFINE E == {c \in counted : key \in c.keys}
    <3>1. \A j \in S \ {new} : CountOf(j) \in E
      BY <1>2 DEF CountOf
    <3>2. ~(Spent(E) + BytesOf(new) > EntryBudget(r.budgets, key))
      BY <1>4, <2>1 DEF SpentOn
    <3>3. new \in S /\ S \in SUBSET D /\ E \in SUBSET counted
      BY <1>1, <2>1
    <3> HIDE DEF S, E
    <3>4. SumBytes(S) <= EntryBudget(r.budgets, key)
      BY <1>3, <1>5, <3>1, <3>2, <3>3
    <3>5. SumBytes(S) \in Nat
      BY <1>1, <3>3, FS_Subset, BytesSplit
    <3> QED BY <1>3, <3>4, <3>5 DEF S
  <2>2. CASE key \notin KeysOf(new)
    <3>1. last # new /\ BoundedDay(passed, last)
      BY <2>2
    <3>2. S = {j \in DayIn(passed, last) : key \in KeysOf(j)} /\ DayIn(passed, last) \subseteq D
      BY <2>2 DEF DayIn, D
    <3> QED BY <3>1, <3>2 DEF BoundedDay
  <2> QED BY <2>1, <2>2
<1> QED BY <1>6, <1>7

(* Judging a request, on time or as of when it was held, keeps what is     *)
(* counted and every day's bound.                                          *)
LEMMA DripJudged ==
    ASSUME LifeInv, BudgetsOK, IdsOK, CountedOK, DripBounded, clock \in Nat,
           NEW q, BodyOK(q.body), q.at \in Int, \A j \in judged : j.request.id # q.id,
           NEW clk \in Nat, clk <= clock, active # 0, Judge(q, clk),
           clock' = clock, versions' = versions
    PROVE  CountedOK' /\ DripBounded'
<1>1. PICK new : /\ judged' = judged \cup {new}
                 /\ new.request = q /\ new.version = active
                 /\ new.when = Clamped(q.at, clk) /\ new.late = (clk # clock)
                 /\ \/ PassesNow(new, clk)
                    \/ /\ Passed' = Passed
                       /\ \/ drip' = drip
                          \/ drip' = {c \in drip : c.at >= clk - 2 * Day}
  BY DripOutcome
<1>2. new.when \in Int /\ clk - Day <= new.when /\ new.when <= clk /\ Day \in Nat /\ Day > 0
  <2>1. new.when = Clamped(q.at, clk)
    BY <1>1
  <2>2. /\ Clamped(q.at, clk) \in Int
        /\ clk - Day <= Clamped(q.at, clk) /\ Clamped(q.at, clk) <= clk
    BY ClampedTime
  <2>3. Day \in Nat /\ Day > 0
    BY DayAssumption
  <2> QED BY <2>1, <2>2, <2>3
<1>3. \A j : CountOf(j)' = CountOf(j) /\ CountOf(j).at = j.when
  BY DEF CountOf, KeysOf
<1>4. /\ IsFiniteSet(judged') /\ IsFiniteSet({c \in drip : c.at >= clk - 2 * Day})
      /\ \A c \in drip : c.at \in Int
  <2>1. \A c \in drip : c.at \in Int
    BY DEF CountedOK, CountOf
  <2>2. IsFiniteSet(judged') /\ IsFiniteSet({c \in drip : c.at >= clk - 2 * Day})
    BY <1>1, FS_AddElement, FS_Subset DEF CountedOK
  <2> QED BY <2>1, <2>2
<1>5. CASE Passed' = Passed /\ (drip' = drip \/ drip' = {c \in drip : c.at >= clk - 2 * Day})
  <2>1. CountedOK'
    <3>1. IsFiniteSet(judged') /\ IsFiniteSet(drip')
      BY <1>4, <1>5 DEF CountedOK
    <3>2. \A j \in Passed' : j.when \in Int /\ BytesOf(j)' \in Nat
      BY <1>5 DEF CountedOK, BytesOf
    <3>3. \A c \in drip' : \E j \in Passed' : c = CountOf(j)'
      BY <1>3, <1>5 DEF CountedOK
    <3>4. ASSUME NEW j \in Passed', j.when >= clock - 2 * Day PROVE CountOf(j)' \in drip'
      <4>1. CountOf(j) \in drip /\ j.when >= clk - 2 * Day
        BY <1>2, <1>5, <3>4 DEF CountedOK
      <4> QED BY <1>3, <1>5, <4>1
    <3> QED BY <3>1, <3>2, <3>3, <3>4 DEF CountedOK
  <2>2. DripBounded'
    BY <1>5, EveryDay
  <2> QED BY <2>1, <2>2
<1>6. CASE PassesNow(new, clk)
  <2> DEFINE kept == {c \in drip : c.at >= clk - 2 * Day}
  <2>1. /\ Passed' = Passed \cup {new} /\ BytesOf(new) \in Nat
        /\ drip' = kept \cup {CountOf(new)}
        /\ ~OverBudget(DayBefore(kept, new.when), BytesOf(new), KeysOf(new),
                       Rules.budgets, Rules.agentBudget)
    BY <1>6 DEF PassesNow
  <2>2. CountedOK'
    <3>1. IsFiniteSet(judged') /\ IsFiniteSet(drip')
      BY <1>4, <2>1, FS_AddElement
    <3>2. \A j \in Passed' : j.when \in Int /\ BytesOf(j)' \in Nat
      BY <1>2, <2>1 DEF CountedOK, BytesOf
    <3>3. \A c \in drip' : \E j \in Passed' : c = CountOf(j)'
      BY <1>3, <2>1 DEF CountedOK
    <3>4. ASSUME NEW j \in Passed', j.when >= clock - 2 * Day PROVE CountOf(j)' \in drip'
      <4>1. CASE j = new
        BY <1>3, <2>1, <4>1
      <4>2. CASE j \in Passed
        <5>1. CountOf(j) \in drip /\ j.when >= clk - 2 * Day
          BY <1>2, <3>4, <4>2 DEF CountedOK
        <5> QED BY <1>3, <2>1, <5>1
      <4> QED BY <2>1, <4>1, <4>2
    <3> QED BY <3>1, <3>2, <3>3, <3>4 DEF CountedOK
  <2>3. new \notin Passed
    BY <1>1 DEF Passed
  <2>4. ASSUME NEW last \in Passed' PROVE BoundedDay(Passed', last)
    <3>1. last.when \in Int /\ (last = new \/ (last \in Passed /\ BoundedDay(Passed, last)))
      BY <1>2, <2>1, <2>4, EveryDay DEF CountedOK
    <3>2. CASE new \notin DayIn(Passed \cup {new}, last)
      <4>1. last # new
        BY <1>2, <3>2 DEF DayIn
      <4>2. DayIn(Passed \cup {new}, last) = DayIn(Passed, last)
        BY <3>2 DEF DayIn
      <4> QED BY <2>1, <3>1, <4>1, <4>2 DEF BoundedDay
    <3>3. CASE new \in DayIn(Passed \cup {new}, last) /\ new.late
      BY <2>1, <3>3 DEF BoundedDay
    <3>4. CASE new \in DayIn(Passed \cup {new}, last) /\ ~new.late
      <4>1. clk = clock
        BY <1>1, <3>4
      <4>2. last \in Passed \cup {new} /\ (BoundedDay(Passed, last) \/ last = new)
        BY <2>1, <3>1
      <4>3. ~OverBudget(DayBefore({c \in drip : c.at >= clock - 2 * Day}, new.when),
                        BytesOf(new), KeysOf(new), Rules.budgets, Rules.agentBudget)
        BY <2>1, <4>1
      <4>4. new.when >= clock - Day /\ \A i, j \in judged : i.request.id = j.request.id => i = j
        BY <1>2, <4>1 DEF IdsOK
      <4>5. BoundedDay(Passed \cup {new}, last)
        BY <1>1, <1>2, <2>1, <2>3, <3>1, <3>4, <4>2, <4>3, <4>4, PassingBounded
      <4> QED BY <2>1, <4>5
    <3> QED BY <3>2, <3>3, <3>4
  <2>5. DripBounded'
    BY <2>4, EveryDay
  <2> QED BY <2>2, <2>5
<1> QED BY <1>1, <1>5, <1>6
-----------------------------------------------------------------------------
(* A step that makes no version and judges nothing: of the requests, at    *)
(* most one is new and at most one more held.                              *)
LEMMA NothingJudged ==
    ASSUME DripInv, versions' = versions, judged' = judged, drip' = drip,
           clock' \in Nat, clock <= clock'
    PROVE  BudgetsOK' /\ CountedOK' /\ DripBounded'
<1> USE DEF DripInv
<1>1. Passed' = Passed /\ \A j : CountOf(j)' = CountOf(j) /\ BytesOf(j)' = BytesOf(j)
  BY DEF Passed, CountOf, KeysOf, BytesOf
<1>2. BudgetsOK'
  BY DEF BudgetsOK
<1>3. CountedOK'
  <2>1. \A j \in Passed : j.when >= clock' - 2 * Day => j.when >= clock - 2 * Day
    BY DayAssumption DEF CountedOK, TimesOK
  <2> QED BY <1>1, <2>1 DEF CountedOK
<1>4. DripBounded'
  BY <1>1, EveryDay
<1> QED BY <1>2, <1>3, <1>4

(* A new version, none of whose budgets is below zero: the bounds only     *)
(* grow.                                                                   *)
LEMMA VersionMade ==
    ASSUME DripInv, NEW r, DOMAIN r = RuleNames, Budgeted(r), CreateVersion(r), UNCHANGED Around,
           LifeInv'
    PROVE  DripInv'
<1> USE DEF DripInv
<1>1. /\ active' = Len(versions) + 1
      /\ active' \in DOMAIN versions' /\ versions'[active'] = r
      /\ \A n \in DOMAIN versions : n \in DOMAIN versions' /\ versions'[n] = versions[n]
  BY NewVersion DEF LifeInv
<1>2. /\ clock' = clock /\ requests' = requests /\ held' = held /\ judged' = judged /\ drip' = drip
      /\ Len(versions) \in Nat /\ activatedAt' = clock /\ versions' = Append(versions, r)
  BY DEF Around, checkVars, LifeInv, VersionsOK, CreateVersion
<1>3. \A n \in DOMAIN versions' : n \in DOMAIN versions \/ n = active'
  <2>1. versions \in Seq(ToSet(versions)) /\ DOMAIN versions = 1..Len(versions)
    BY DEF LifeInv, VersionsOK
  <2>2. DOMAIN versions' = 1..(Len(versions) + 1)
    BY <1>2, <2>1
  <2> QED BY <1>1, <1>2, <2>1, <2>2
<1>4. BudgetsOK'
  BY <1>1, <1>3 DEF BudgetsOK
<1>5. IdsOK' /\ TimesOK'
  BY <1>1, <1>2 DEF IdsOK, TimesOK
<1>6. Passed' = Passed /\ \A j \in Passed : j.version \in DOMAIN versions
  BY <1>2 DEF Passed, LifeInv, RequestsOK
<1>7. \A j \in Passed : KeysOf(j)' = KeysOf(j) /\ CountOf(j)' = CountOf(j) /\ BytesOf(j)' = BytesOf(j)
  BY <1>1, <1>6 DEF KeysOf, CountOf, BytesOf
<1>8. CountedOK'
  BY <1>2, <1>6, <1>7 DEF CountedOK
<1>9. DripBounded'
  <2> SUFFICES ASSUME NEW last \in Passed, \A j \in DayOf(last) : ~j.late
               PROVE  /\ SumBytes(DayOf(last)) <= Max(AgentBounds')
                      /\ \A key \in KeysOf(last) :
                            SumBytes(OnKey(DayOf(last), key)) <= Max(EntryBounds(key)')
    <3>1. \A last \in Passed : /\ DayOf(last)' = DayOf(last)
                               /\ \A key : OnKey(DayOf(last), key)' = OnKey(DayOf(last), key)
      BY <1>6, <1>7 DEF DayOf, OnKey
    <3>2. DripBounded' <=>
            \A last \in Passed' :
                (\A j \in DayOf(last)' : ~j.late) =>
                   /\ SumBytes(DayOf(last)') <= Max(AgentBounds')
                   /\ \A key \in KeysOf(last)' :
                         SumBytes(OnKey(DayOf(last), key)') <= Max(EntryBounds(key)')
      BY DEF DripBounded
    <3> QED BY <1>6, <1>7, <3>1, <3>2
  <2>1. last.version \in DOMAIN versions
    BY <1>6
  <2>2. /\ Max(AgentBounds) \in Nat /\ Max(AgentBounds') \in Nat
        /\ Max(AgentBounds) <= Max(AgentBounds')
        /\ \A key : /\ Max(EntryBounds(key)) \in Nat /\ Max(EntryBounds(key)') \in Nat
                    /\ Max(EntryBounds(key)) <= Max(EntryBounds(key)')
    <3>1. VersionsOK /\ VersionsOK' /\ DOMAIN versions # {}
      BY <2>1 DEF LifeInv
    <3> QED BY <1>1, <1>4, <3>1, BoundsGrow
  <2>3. /\ SumBytes(DayOf(last)) \in Nat
        /\ \A key : SumBytes(OnKey(DayOf(last), key)) \in Nat
    <3>1. IsFiniteSet(DayOf(last)) /\ \A j \in DayOf(last) : BytesOf(j) \in Nat
      <4>1. DayOf(last) \subseteq judged
        BY DEF DayOf, Passed
      <4> QED BY <4>1, FS_Subset DEF CountedOK, DayOf
    <3>2. \A key : OnKey(DayOf(last), key) \subseteq DayOf(last)
      BY DEF OnKey
    <3> QED BY <3>1, <3>2, FS_Subset, BytesSplit
  <2>4. /\ SumBytes(DayOf(last)) <= Max(AgentBounds)
        /\ \A key \in KeysOf(last) : SumBytes(OnKey(DayOf(last), key)) <= Max(EntryBounds(key))
    BY DEF DripBounded
  <2> QED BY <2>2, <2>3, <2>4
<1> QED BY <1>4, <1>5, <1>8, <1>9
-----------------------------------------------------------------------------
(* Nothing has arrived when an agent's life begins.                        *)
LEMMA DripInit == Init => DripInv
<1> SUFFICES ASSUME Init PROVE DripInv
  OBVIOUS
<1>1. LifeInv
  BY InitOK
<1>2. BudgetsOK
  BY DEF Init, BudgetsOK
<1>3. IdsOK
  BY ClockAssumption DEF Init, IdsOK
<1>4. TimesOK
  BY DayAssumption DEF Init, TimesOK
<1>5. Passed = {}
  BY DEF Init, Passed
<1>6. CountedOK
  BY <1>5, FS_EmptySet DEF Init, CountedOK
<1>7. DripBounded
  BY <1>5 DEF DripBounded
<1> QED BY <1>1, <1>2, <1>3, <1>4, <1>6, <1>7 DEF DripInv

(* A captured request's id is the next one.                                *)
LEMMA NextId ==
    ASSUME DripInv, NEW shape \in world.shapes, NEW lag \in world.lags,
           NEW q, q = Captured(shape, lag), requests' = requests \cup {q}
    PROVE  /\ IsFiniteSet(requests') /\ requests \subseteq requests'
           /\ \A p \in requests' : p.id \in 1..Cardinality(requests')
           /\ \A p \in requests : p.id # q.id
           /\ q \in requests' /\ BodyOK(q.body) /\ q.at \in Int
<1>1. /\ IsFiniteSet(requests) /\ Cardinality(requests) \in Nat
      /\ \A p \in requests : p.id \in 1..Cardinality(requests)
  BY FS_CardinalityType DEF DripInv, IdsOK
<1>2. q.id = Cardinality(requests) + 1 /\ q.body = shape.body /\ q.at = clock - lag
  BY DEF Captured
<1>3. \A p \in requests : p.id # q.id
  BY <1>1, <1>2
<1>4. IsFiniteSet(requests') /\ Cardinality(requests') = Cardinality(requests) + 1
  BY <1>1, <1>3, FS_AddElement
<1>5. \A p \in requests' : p.id \in 1..Cardinality(requests')
  BY <1>1, <1>2, <1>4
<1>6. world \in Worlds
  BY DEF DripInv, LifeInv, RequestsOK
<1>7. BodyOK(q.body)
  BY <1>2, <1>6, ShapeAssumption DEF BodyOK, Body
<1>8. q.at \in Int
  BY <1>2, <1>6, WorldAssumption DEF DripInv, TimesOK
<1> QED BY <1>3, <1>4, <1>5, <1>7, <1>8

(* A request arrives, and is judged, too old to be, or held.               *)
LEMMA DripArrives ==
    ASSUME DripInv, LifeInv', NEW shape \in world.shapes, NEW lag \in world.lags,
           Arrive(shape, lag) \/ ArriveHeld(shape, lag)
    PROVE  DripInv'
<1> DEFINE q == Captured(shape, lag)
<1>1. /\ requests' = requests \cup {q} /\ clock' = clock /\ versions' = versions /\ active' = active
      /\ activatedAt' = activatedAt
  BY DEF Arrive, ArriveHeld, policyVars
<1>2. clock \in Nat /\ activatedAt \in Nat /\ activatedAt <= clock
  BY DEF DripInv, TimesOK
<1> HIDE DEF q
<1>3. /\ IsFiniteSet(requests') /\ requests \subseteq requests'
      /\ \A p \in requests' : p.id \in 1..Cardinality(requests')
      /\ \A p \in requests : p.id # q.id
      /\ q \in requests' /\ BodyOK(q.body) /\ q.at \in Int
  BY <1>1, NextId DEF q
<1>4. CASE Arrive(shape, lag) /\ UNCHANGED checkVars
  <2>1. held' = held /\ judged' = judged /\ drip' = drip
    BY <1>4 DEF Arrive, checkVars
  <2>2. BudgetsOK' /\ CountedOK' /\ DripBounded'
    BY <1>1, <1>2, <2>1, NothingJudged
  <2>3. IdsOK' /\ TimesOK'
    BY <1>1, <1>3, <2>1 DEF DripInv, IdsOK, TimesOK
  <2> QED BY <2>2, <2>3 DEF DripInv
<1>5. CASE Arrive(shape, lag) /\ active # 0 /\ Judge(q, clock)
  <2>1. held' = held
    BY <1>5 DEF Arrive
  <2>2. \A j \in judged : j.request.id # q.id
    BY <1>3 DEF DripInv, IdsOK
  <2>3. CountedOK' /\ DripBounded'
    BY <1>1, <1>2, <1>3, <1>5, <2>2, DripJudged DEF DripInv
  <2>4. PICK new : judged' = judged \cup {new} /\ new.request = q
    BY <1>3, <1>5, DripOutcome
  <2>5. IdsOK'
    BY <1>1, <1>3, <2>1, <2>2, <2>4 DEF DripInv, IdsOK
  <2>6. TimesOK' /\ BudgetsOK'
    BY <1>1, <2>1 DEF DripInv, TimesOK, BudgetsOK
  <2> QED BY <2>3, <2>5, <2>6 DEF DripInv
<1>6. CASE ArriveHeld(shape, lag)
  <2>1. /\ held' = held \cup {[request |-> q, at |-> clock]} /\ active # 0
        /\ judged' = judged /\ drip' = drip
    BY <1>6 DEF ArriveHeld, checkVars, q
  <2>2. BudgetsOK' /\ CountedOK' /\ DripBounded'
    BY <1>1, <1>2, <2>1, NothingJudged
  <2> DEFINE g == [request |-> q, at |-> clock]
  <2>3. g.request = q /\ g.at = clock /\ held' = held \cup {g}
    BY <2>1
  <2> HIDE DEF g
  <2>4. /\ \A h \in held : h.request.id # q.id
        /\ \A j \in judged : j.request.id # q.id
    BY <1>3 DEF DripInv, IdsOK
  <2>5. IdsOK'
    BY <1>1, <1>3, <2>1, <2>3, <2>4 DEF DripInv, IdsOK
  <2>6. TimesOK'
    BY <1>1, <1>2, <2>3 DEF DripInv, TimesOK
  <2> QED BY <2>2, <2>5, <2>6 DEF DripInv
<1> QED BY <1>4, <1>5, <1>6 DEF Arrive, q

(* A held request is judged as of when it was held, or dropped.            *)
LEMMA DripReleases ==
    ASSUME DripInv, LifeInv', NEW h \in held, NEW denied \in BOOLEAN, Release(h, denied)
    PROVE  DripInv'
<1>1. /\ requests' = requests /\ clock' = clock /\ versions' = versions /\ active' = active
      /\ activatedAt' = activatedAt /\ held' = held \ {h}
  BY DEF Release, policyVars
<1>2. /\ clock \in Nat /\ h.at \in Nat /\ h.at <= clock /\ active # 0
      /\ h.request.at \in Int /\ BodyOK(h.request.body) /\ h.request \in requests
      /\ \A j \in judged : j.request.id # h.request.id
      /\ \A g \in held' : g.request.id # h.request.id
  BY <1>1 DEF DripInv, TimesOK, IdsOK
<1>3. TimesOK' /\ BudgetsOK'
  BY <1>1 DEF DripInv, TimesOK, BudgetsOK
<1>4. CASE UNCHANGED checkVars
  <2>1. judged' = judged /\ drip' = drip
    BY <1>4 DEF checkVars
  <2>2. CountedOK' /\ DripBounded'
    BY <1>1, <1>2, <2>1, NothingJudged
  <2>3. IdsOK'
    BY <1>1, <2>1 DEF DripInv, IdsOK
  <2> QED BY <1>3, <2>2, <2>3 DEF DripInv
<1>5. CASE Judge(h.request, h.at)
  <2>1. CountedOK' /\ DripBounded'
    BY <1>1, <1>2, <1>5, DripJudged DEF DripInv
  <2>2. PICK new : judged' = judged \cup {new} /\ new.request = h.request
    BY <1>2, <1>5, DripOutcome
  <2>3. IdsOK'
    BY <1>1, <1>2, <2>2 DEF DripInv, IdsOK
  <2> QED BY <1>3, <2>1, <2>3 DEF DripInv
<1> QED BY <1>4, <1>5 DEF Release
-----------------------------------------------------------------------------
(* Every version's budgets are those of the one before, of the proposal,   *)
(* or an edit's.                                                           *)
LEMMA RulesBudgeted ==
    ASSUME DripInv, active # 0
    PROVE  Budgeted(Rules) /\ DOMAIN Rules = RuleNames
<1>1. active \in DOMAIN versions
  BY DEF DripInv, LifeInv, VersionsOK
<1> QED BY <1>1, RulesOK DEF DripInv, BudgetsOK, Rules

(* An edit leaves every budget a natural number.                           *)
LEMMA EditedBudgets ==
    ASSUME DripInv, NEW edit, edit \in world.edits \/ edit = <<>>, NEW r,
           Budgeted(r), DOMAIN r = RuleNames
    PROVE  Budgeted(Edited(r, edit)) /\ DOMAIN Edited(r, edit) = RuleNames
<1>1. world \in Worlds
  BY DEF DripInv, LifeInv, RequestsOK
<1>2. /\ "agentBudget" \in DOMAIN edit => edit.agentBudget \in Nat
      /\ "budgets" \in DOMAIN edit => \A key \in DOMAIN edit.budgets : edit.budgets[key] \in Nat
      /\ "caps" \in DOMAIN edit => \A key \in DOMAIN edit.caps : edit.caps[key] \in Int
  <2>1. CASE edit \in world.edits
    BY <1>1, <2>1, EditAssumption
  <2>2. CASE edit = <<>>
    BY <2>2
  <2> QED BY <2>1, <2>2
<1>3. "agentBudget" \in RuleNames /\ "budgets" \in RuleNames /\ "caps" \in RuleNames
  BY DEF RuleNames
<1>4. /\ Edited(r, edit).agentBudget \in {edit.agentBudget, r.agentBudget}
      /\ Edited(r, edit).agentBudget = IF "agentBudget" \in DOMAIN edit THEN edit.agentBudget
                                       ELSE r.agentBudget
      /\ Edited(r, edit).budgets = IF "budgets" \in DOMAIN edit THEN edit.budgets ELSE r.budgets
      /\ Edited(r, edit).caps = IF "caps" \in DOMAIN edit THEN edit.caps ELSE r.caps
      /\ DOMAIN Edited(r, edit) = RuleNames
  BY <1>3 DEF Edited
<1> QED BY <1>2, <1>4 DEF Budgeted

(* A clicked Allow changes no budget.                                      *)
LEMMA AllowedBudgets ==
    ASSUME NEW r, DOMAIN r = RuleNames, NEW row, RowOK(row)
    PROVE  /\ WithItemAllowed(r, row).agentBudget = r.agentBudget
           /\ WithItemAllowed(r, row).budgets = r.budgets
           /\ WithItemAllowed(r, row).caps = r.caps
<1>1. CASE row.detail.form = "tool_call"
  BY <1>1 DEF WithItemAllowed, RuleNames
<1>2. CASE row.detail.form = "mcp_server"
  BY <1>2 DEF WithItemAllowed, RuleNames
<1>3. CASE row.detail.form = "host" /\ row.rule = "out_of_spec_calls"
  BY <1>3 DEF WithItemAllowed, RuleNames
<1>4. CASE row.detail.form = "host" /\ row.rule = "uploads"
  BY <1>4 DEF WithItemAllowed, RuleNames
<1> QED BY <1>1, <1>2, <1>3, <1>4 DEF RowOK, HostRow

(* Adoption and edits: of the proposal's budgets, or the edit's.           *)
LEMMA DripEdits ==
    ASSUME DripInv, LifeInv', NEW edit, edit \in world.edits \/ edit = <<>>,
           Adopt(edit) \/ (Edit(edit) /\ edit \in world.edits)
    PROVE  DripInv'
<1>1. CASE Adopt(edit)
  <2> DEFINE p == ProposedRules(world.bundle, Baseline, policy, kindsOn)
  <2>1. DOMAIN p = RuleNames /\ p.agentBudget = AGENT_BUDGET /\ p.budgets = <<>> /\ p.caps = <<>>
    BY DEF ProposedRules, RuleNames
  <2>2. Budgeted(p)
    BY <2>1, BudgetAssumption DEF Budgeted
  <2>3. CreateVersion(Edited(p, edit)) /\ UNCHANGED Around
    BY <1>1 DEF Adopt, Unchecked
  <2> HIDE DEF p
  <2> QED BY <2>1, <2>2, <2>3, EditedBudgets, VersionMade
<1>2. CASE Edit(edit)
  <2> DEFINE e == Edited(Rules, edit)
             r == [e EXCEPT !.seenHosts = @ \cup Rules.seenHosts,
                            !.seenServers = @ \cup Rules.seenServers]
  <2>1. Budgeted(e) /\ DOMAIN e = RuleNames
    BY <1>2, RulesBudgeted, EditedBudgets DEF Edit
  <2>2. CreateVersion(r) /\ UNCHANGED Around
    BY <1>2 DEF Edit, Unchecked
  <2> HIDE DEF e
  <2>3. /\ DOMAIN r = RuleNames
        /\ r.agentBudget = e.agentBudget /\ r.budgets = e.budgets /\ r.caps = e.caps
    BY <2>1 DEF RuleNames
  <2>4. Budgeted(r)
    BY <2>1, <2>3 DEF Budgeted
  <2> HIDE DEF r
  <2> QED BY <2>2, <2>3, <2>4, VersionMade
<1> QED BY <1>1, <1>2

(* Every other way to a version keeps the budgets of the one in force.     *)
LEMMA DripChanges ==
    ASSUME DripInv, LifeInv',
           \/ \E row \in rows : AllowRow(row)
           \/ active # 0 /\ \E chosen : AllowRows(chosen)
           \/ \E hosts : NarrowUploads(hosts)
           \/ \E offer : \E allow \in BOOLEAN : ChooseDeclared(offer, allow)
           \/ \E level : RequireContainment(level)
    PROVE  DripInv'
<1>1. ASSUME NEW r, active # 0, DOMAIN r = RuleNames,
             r.agentBudget = Rules.agentBudget, r.budgets = Rules.budgets, r.caps = Rules.caps,
             CreateVersion(r), UNCHANGED Around
      PROVE  DripInv'
  <2>1. Budgeted(r)
    BY <1>1, RulesBudgeted DEF Budgeted
  <2> QED BY <1>1, <2>1, VersionMade
<1>2. active # 0 => DOMAIN Rules = RuleNames
  BY RulesBudgeted
<1>3. ASSUME NEW row \in rows, AllowRow(row) PROVE DripInv'
  <2>1. active # 0 /\ CreateVersion(WithItemAllowed(Rules, row)) /\ UNCHANGED Around
    BY <1>3 DEF AllowRow, Unchecked
  <2>2. RowOK(row)
    BY <1>3 DEF DripInv, LifeInv, RowsOK
  <2>3. DOMAIN WithItemAllowed(Rules, row) = RuleNames
    BY <1>2, <2>1, <2>2, AllowedIsContract
  <2>4. /\ WithItemAllowed(Rules, row).agentBudget = Rules.agentBudget
        /\ WithItemAllowed(Rules, row).budgets = Rules.budgets
        /\ WithItemAllowed(Rules, row).caps = Rules.caps
    BY <1>2, <2>1, <2>2, AllowedBudgets
  <2> QED BY <1>1, <2>1, <2>3, <2>4
<1>4. ASSUME active # 0, NEW chosen, AllowRows(chosen) PROVE DripInv'
  <2>1. CreateVersion(RowsAllowed(chosen)) /\ UNCHANGED Around
    BY <1>4 DEF AllowRows, Unchecked
  <2>2. \A a, b, c, d, e :
           LET r == [Rules EXCEPT !.uploads = a, !.parametersOnly = b, !.deniedTools = c,
                                  !.callHosts = d, !.servers = e]
           IN /\ DOMAIN r = RuleNames
              /\ r.agentBudget = Rules.agentBudget /\ r.budgets = Rules.budgets /\ r.caps = Rules.caps
    BY <1>2, <1>4 DEF RuleNames
  <2>3. /\ DOMAIN RowsAllowed(chosen) = RuleNames
        /\ RowsAllowed(chosen).agentBudget = Rules.agentBudget
        /\ RowsAllowed(chosen).budgets = Rules.budgets
        /\ RowsAllowed(chosen).caps = Rules.caps
    BY <2>2 DEF RowsAllowed
  <2> QED BY <1>1, <1>4, <2>1, <2>3
<1>5. ASSUME NEW hosts, NarrowUploads(hosts) PROVE DripInv'
  <2>1. active # 0 /\ CreateVersion(Narrowed(Rules, hosts)) /\ UNCHANGED Around
    BY <1>5 DEF NarrowUploads, Unchecked
  <2>2. /\ DOMAIN Narrowed(Rules, hosts) = RuleNames
        /\ Narrowed(Rules, hosts).agentBudget = Rules.agentBudget
        /\ Narrowed(Rules, hosts).budgets = Rules.budgets
        /\ Narrowed(Rules, hosts).caps = Rules.caps
    BY <1>2, <2>1 DEF Narrowed, RuleNames
  <2> QED BY <1>1, <2>1, <2>2
<1>6. ASSUME NEW offer, NEW allow \in BOOLEAN, ChooseDeclared(offer, allow) PROVE DripInv'
  <2> DEFINE r == WithDeclaredChoice(Rules, offer, allow)
  <2>1. active # 0 /\ CreateVersion(r) /\ UNCHANGED Around
    BY <1>6 DEF ChooseDeclared, Offers, Unchecked
  <2>2. /\ DOMAIN r = RuleNames
        /\ r.agentBudget = Rules.agentBudget /\ r.budgets = Rules.budgets /\ r.caps = Rules.caps
    <3>1. CASE offer.kind = "host"
      BY <1>2, <2>1, <3>1 DEF WithDeclaredChoice, RuleNames
    <3>2. CASE offer.kind # "host"
      BY <1>2, <2>1, <3>2 DEF WithDeclaredChoice, RuleNames
    <3> QED BY <3>1, <3>2
  <2> HIDE DEF r
  <2> QED BY <1>1, <2>1, <2>2
<1>7. ASSUME NEW level, RequireContainment(level) PROVE DripInv'
  <2> DEFINE r == [Rules EXCEPT !.require = {level}]
  <2>1. active # 0 /\ CreateVersion(r) /\ UNCHANGED Around
    BY <1>7 DEF RequireContainment, Unchecked
  <2>2. /\ DOMAIN r = RuleNames
        /\ r.agentBudget = Rules.agentBudget /\ r.budgets = Rules.budgets /\ r.caps = Rules.caps
    BY <1>2, <2>1 DEF RuleNames
  <2> HIDE DEF r
  <2> QED BY <1>1, <2>1, <2>2
<1> QED BY <1>3, <1>4, <1>5, <1>6, <1>7

(* Nothing else makes a version or judges anything.                        *)
LEMMA DripOthers ==
    ASSUME DripInv, LifeInv',
           \/ \E host : DismissNarrow(host)
           \/ \E n \in DOMAIN versions : Switch(n)
           \/ TurnOff \/ Restart \/ Tick \/ UNCHANGED vars
           \/ \E asp : NewAsp(asp)
           \/ \E p : ImportPolicy(p)
    PROVE  DripInv'
<1>1. /\ versions' = versions /\ judged' = judged /\ drip' = drip /\ requests' = requests
      /\ held' \subseteq held /\ clock' \in Nat /\ clock <= clock'
      /\ active' # 0 \/ held' = {} \/ active' = active
      /\ activatedAt' \in {activatedAt, clock}
  <2>0. clock \in Nat /\ world \in Worlds
    BY DEF DripInv, TimesOK, LifeInv, RequestsOK
  <2>1. ASSUME \E host : DismissNarrow(host)
        PROVE  /\ UNCHANGED <<versions, judged, drip, requests, held, clock, active, activatedAt>>
    BY <2>1 DEF DismissNarrow, Around, policyVars, checkVars
  <2>2. ASSUME NEW n \in DOMAIN versions, Switch(n)
        PROVE  /\ UNCHANGED <<versions, judged, drip, requests, held, clock>>
               /\ active' = n /\ activatedAt' = clock
    BY <2>2 DEF Switch, Around, checkVars
  <2>3. ASSUME TurnOff
        PROVE  UNCHANGED <<versions, judged, drip, requests, clock, activatedAt>> /\ held' = {}
    BY <2>3 DEF TurnOff, checkVars
  <2>4. ASSUME Restart \/ UNCHANGED vars
        PROVE  UNCHANGED <<versions, judged, drip, requests, held, clock, active, activatedAt>>
    BY <2>4 DEF Restart, vars, policyVars, checkVars
  <2>5. ASSUME Tick
        PROVE  /\ UNCHANGED <<versions, judged, drip, requests, held, active, activatedAt>>
               /\ clock' \in world.times /\ clock' > clock
    BY <2>5 DEF Tick, policyVars, checkVars
  <2>6. ASSUME (\E asp : NewAsp(asp)) \/ (\E p : ImportPolicy(p))
        PROVE  UNCHANGED <<versions, judged, drip, requests, held, clock, active, activatedAt>>
    BY <2>6 DEF NewAsp, ImportPolicy, policyVars, checkVars
  <2>7. \A n \in DOMAIN versions : n # 0
    BY DEF DripInv, LifeInv, VersionsOK
  <2>8. world.times \subseteq Nat
    BY <2>0, ClockAssumption
  <2> QED BY <2>0, <2>1, <2>2, <2>3, <2>4, <2>5, <2>6, <2>7, <2>8
<1>2. BudgetsOK' /\ CountedOK' /\ DripBounded'
  BY <1>1, NothingJudged
<1>3. IdsOK'
  BY <1>1 DEF DripInv, IdsOK
<1>4. TimesOK'
  <2>1. \A t \in {activatedAt, clock} : t \in Nat /\ t <= clock'
    BY <1>1 DEF DripInv, TimesOK
  <2>2. \A h \in held' : h.at \in Nat /\ h.at <= clock'
    BY <1>1 DEF DripInv, TimesOK
  <2> QED BY <1>1, <2>1, <2>2 DEF TimesOK
<1> QED BY <1>2, <1>3, <1>4 DEF DripInv

(* Every step keeps the debits within the largest budgets: an arrival may  *)
(* drip only into what is left, and a newer version never spends what an   *)
(* older one allowed.                                                      *)
LEMMA DripStep == DripInv /\ [Next]_vars => DripInv'
<1> SUFFICES ASSUME DripInv, [Next]_vars PROVE DripInv'
  OBVIOUS
<1>0. LifeInv'
  BY StepOK DEF DripInv
<1>1. ASSUME NEW shape \in world.shapes, NEW lag \in world.lags,
             Arrive(shape, lag) \/ ArriveHeld(shape, lag)
      PROVE  DripInv'
  BY <1>0, <1>1, DripArrives
<1>2. ASSUME NEW h \in held, NEW denied \in BOOLEAN, Release(h, denied) PROVE DripInv'
  BY <1>0, <1>2, DripReleases
<1>3. ASSUME NEW edit \in world.edits, Adopt(edit) \/ Edit(edit) PROVE DripInv'
  BY <1>0, <1>3, DripEdits
<1>4. CASE Adopt(<<>>)
  BY <1>0, <1>4, DripEdits
<1>5. CASE \/ \E row \in rows : AllowRow(row)
           \/ active # 0 /\ \E chosen \in AllowableSets : AllowRows(chosen)
  <2>1. \/ \E row \in rows : AllowRow(row)
        \/ active # 0 /\ \E chosen : AllowRows(chosen)
    BY <1>5
  <2> QED BY <1>0, <2>1, DripChanges
<1>6. ASSUME NEW hosts, NarrowUploads(hosts) PROVE DripInv'
  BY <1>0, <1>6, DripChanges
<1>7. ASSUME NEW offer, NEW allow \in BOOLEAN, ChooseDeclared(offer, allow) PROVE DripInv'
  BY <1>0, <1>7, DripChanges
<1>8. ASSUME NEW level, RequireContainment(level) PROVE DripInv'
  BY <1>0, <1>8, DripChanges
<1>9. CASE \/ active # 0 /\ \E host \in Rules.uploads : DismissNarrow(host)
           \/ \E n \in DOMAIN versions : Switch(n)
           \/ TurnOff \/ Restart \/ Tick \/ UNCHANGED vars
           \/ \E asp \in world.asps : NewAsp(asp)
           \/ \E p \in world.policies : ImportPolicy(p)
  BY <1>0, <1>9, DripOthers
<1> QED BY <1>1, <1>2, <1>3, <1>4, <1>5, <1>6, <1>7, <1>8, <1>9 DEF Next
-----------------------------------------------------------------------------
(* The parts hold together in every state of every agent's life.           *)
THEOREM DripInvariant == Spec => []DripInv
<1> QED BY DripInit, DripStep, PTL DEF Spec

(* Over no day of the captures' own times, in whatever order they came, do *)
(* the bytes passed as parameters go past the largest bound any version    *)
(* gave the agent, or an entry (_drip_check_locked).                       *)
THEOREM DripIsBounded == Spec => []DripBounded
<1>1. DripInv => DripBounded
  BY DEF DripInv
<1> QED BY <1>1, DripInvariant, PTL
-----------------------------------------------------------------------------
(* Turns, the clock and the policy stay in the world's bounds.             *)
WorldOK == turns \in 0..world.turns /\ clock \in {Day} \cup world.times /\ Cardinality(policy) <= 1

(* A step takes a turn, moves the clock, brings one policy, or none of them*)
LEMMA WorldStep ==
    ASSUME [Next]_vars
    PROVE  /\ world' = world
           /\ turns' = turns \/ Turn
           /\ clock' = clock \/ clock' \in world.times
           /\ policy' = policy \/ \E p : policy' = {p}
<1> DEFINE Same == UNCHANGED <<world, turns, clock, policy>>
<1>1. ASSUME NEW shape, NEW lag, Arrive(shape, lag) \/ ArriveHeld(shape, lag) PROVE Same
  BY <1>1 DEF Arrive, ArriveHeld
<1>2. ASSUME NEW h, NEW denied \in BOOLEAN, Release(h, denied) PROVE Same
  BY <1>2 DEF Release
<1>3. ASSUME NEW edit, Adopt(edit) \/ Edit(edit) PROVE Same
  BY <1>3 DEF Adopt, Edit, Unchecked, Around
<1>4. ASSUME NEW row, AllowRow(row) PROVE Same
  BY <1>4 DEF AllowRow, Unchecked, Around
<1>5. ASSUME NEW chosen, AllowRows(chosen) \/ NarrowUploads(chosen) PROVE Same
  BY <1>5 DEF AllowRows, NarrowUploads, Unchecked, Around
<1>6. ASSUME NEW offer, NEW allow \in BOOLEAN, ChooseDeclared(offer, allow) PROVE Same
  BY <1>6 DEF ChooseDeclared, Unchecked, Around
<1>7. ASSUME NEW level, RequireContainment(level) PROVE Same
  BY <1>7 DEF RequireContainment, Unchecked, Around
<1>8. ASSUME (\E host : DismissNarrow(host)) \/ (\E n : Switch(n)) \/ TurnOff
      PROVE  Turn /\ UNCHANGED <<world, clock, policy>>
  BY <1>8 DEF DismissNarrow, Switch, TurnOff, Around
<1>9. ASSUME (\E asp : NewAsp(asp)) \/ Restart
      PROVE  Turn /\ UNCHANGED <<world, clock, policy>>
  BY <1>9 DEF NewAsp, Restart
<1>10. ASSUME NEW p, ImportPolicy(p)
       PROVE  Turn /\ policy' = {p} /\ UNCHANGED <<world, clock>>
  BY <1>10 DEF ImportPolicy
<1>11. ASSUME Tick PROVE UNCHANGED <<world, turns, policy>> /\ clock' \in world.times
  BY <1>11 DEF Tick
<1>12. ASSUME UNCHANGED vars PROVE Same
  BY <1>12 DEF vars
<1> HIDE DEF Same
<1>13. Same \/ (Turn /\ UNCHANGED <<world, clock, policy>>) \/ (\E p : ImportPolicy(p)) \/ Tick
  BY <1>1, <1>2, <1>3, <1>4, <1>5, <1>6, <1>7, <1>8, <1>9, <1>12 DEF Next
<1> QED BY <1>10, <1>11, <1>13 DEF Same

(* The types of the tables.  A request is held only while a version is in  *)
(* force to judge it by, and the bytes counted are of bodies that passed.  *)
THEOREM LifeTypes == Spec => []TypeOK
<1>1. Init => WorldOK
  BY ClockAssumption DEF Init, WorldOK
<1>2. DripInv /\ WorldOK /\ [Next]_vars => WorldOK'
  <2> SUFFICES ASSUME DripInv, WorldOK, [Next]_vars PROVE WorldOK'
    OBVIOUS
  <2>1. world \in Worlds /\ world.turns \in Nat
    BY ClockAssumption DEF DripInv, LifeInv, RequestsOK
  <2>2. world' = world /\ (turns' = turns \/ Turn) /\ (clock' = clock \/ clock' \in world.times)
        /\ (policy' = policy \/ \E p : policy' = {p})
    BY WorldStep
  <2>3. turns' \in 0..world.turns
    BY <2>1, <2>2 DEF WorldOK, Turn
  <2>4. Cardinality(policy') <= 1
    <3>1. CASE policy' = policy
      BY <3>1 DEF WorldOK
    <3>2. ASSUME NEW p, policy' = {p} PROVE Cardinality(policy') <= 1
      <4>1. Cardinality({p}) = 1
        BY FS_Singleton
      <4> QED BY <3>2, <4>1
    <3> QED BY <2>2, <3>1, <3>2
  <2> QED BY <2>2, <2>3, <2>4 DEF WorldOK
<1>3. DripInv /\ WorldOK => TypeOK
  <2> SUFFICES ASSUME DripInv, WorldOK PROVE TypeOK
    OBVIOUS
  <2>1. world \in Worlds /\ kindsOn \in BOOLEAN /\ active \in 0..Len(versions)
    BY DEF DripInv, LifeInv, RequestsOK, VersionsOK
  <2>2. /\ activatedAt <= clock
        /\ \A h \in held : h.request \in requests /\ active # 0
    BY DEF DripInv, TimesOK, IdsOK
  <2>3. \A n \in DOMAIN versions :
           /\ versions[n].agentBudget \in Nat
           /\ \A key \in DOMAIN versions[n].budgets : versions[n].budgets[key] \in Nat
    BY DEF DripInv, BudgetsOK, Budgeted
  <2>4. \A c \in drip : \E j \in Passed : j.request.id = c.id /\ j.when = c.at
    BY DEF DripInv, CountedOK, CountOf
  <2> QED BY <2>1, <2>2, <2>3, <2>4 DEF TypeOK, WorldOK
<1> QED BY <1>1, <1>2, <1>3, DripInvariant, PTL DEF Spec
-----------------------------------------------------------------------------
(* What a row keeps of its requests *)

KindFields == {"kind", "source", "step", "method", "template", "kib", "drip"}

DripOK(d) ==
    /\ DOMAIN d = {"entries", "agent", "kib", "over"}
    /\ d.agent \in Nat /\ d.over \in Nat /\ d.kib \in Nat
    /\ \A key \in DOMAIN d.entries : d.entries[key] \in Nat

(* A body's kind is the classifier's under some answers, or the drip       *)
(* check's of one that was to pass.                                        *)
KindOK(q, k) ==
    /\ DOMAIN k = KindFields /\ k.kib \in Nat
    /\ \/ k.step # STEP_DRIP /\ \E o : k = RequestBodyKind(q.body, q.host, o, q.specUploads)
       \/ k.step = STEP_DRIP /\ DripOK(k.drip) /\ k.drip.over = k.kib

(* A request has one kind of body, or none when it sent no body or kinds   *)
(* were not read.                                                          *)
KindsRight(j) ==
    \/ j.kind = {}
    \/ \E k : j.kind = {k} /\ KindOK(j.request, k) /\ CarriesBody(j.request.body)

Like(others, k) == {o \in others : \E x \in o.kind : BodyKey(x) = BodyKey(k)}

(* A row's drip sums are no less than a body's, and hold every byte of the *)
(* bodies like it.                                                         *)
DripTold(told, d, sum) ==
    /\ DripOK(told)
    /\ \A key \in DOMAIN d.entries :
          key \in DOMAIN told.entries /\ d.entries[key] <= told.entries[key]
    /\ d.agent <= told.agent /\ sum <= told.over

BodyTold(kept, k, sum) ==
    BodyKey(kept) = BodyKey(k) /\ (k.step = STEP_DRIP => DripTold(kept.drip, k.drip, sum))

RowBody(kept) == DOMAIN kept = KindFields /\ (kept.step = STEP_DRIP => DripOK(kept.drip))

BodiesTold(d, others) ==
    \A j \in others :
        /\ CarriesBody(j.request.body) => j.kind # {}
        /\ \A k \in j.kind : \E kept \in d.bodies :
              BodyTold(kept, k, SumBytes(Like(others, k)))

SizesTold(d, others) ==
    \A j \in others :
        /\ CarriesBody(j.request.body) => j.request.size # {}
        /\ \A n \in j.request.size : \E m \in d.size : n <= m

(* What a host's uploads row keeps of the requests that hit it: that one   *)
(* had a body, the largest size or that one is not known, and each body, or*)
(* that some are not.                                                      *)
SizeOK(size) == IsFiniteSet(size) /\ size \subseteq Nat

Told(d, others) ==
    /\ HostRow(d) /\ SizeOK(d.size)
    /\ \A kept \in d.bodies : RowBody(kept)
    /\ \A j \in others : CarriesBody(j.request.body) => d.carries
    /\ (d.carries /\ d.size = {}) \/ SizesTold(d, others)
    /\ d.overflow \/ KindsUnread(d) \/ BodiesTold(d, others)
-----------------------------------------------------------------------------
(* The bytes of the bodies like one, with a request more.                  *)
LEMMA LikeGrows ==
    ASSUME NEW others, IsFiniteSet(others), \A o \in others : KindsRight(o),
           NEW j, KindsRight(j), NEW k
    PROVE  /\ SumBytes(Like(others, k)) \in Nat
           /\ SumBytes(Like(others \cup {j}, k)) \in Nat
           /\ Like(others, k) = {} => SumBytes(Like(others, k)) = 0
           /\ (\A x \in j.kind : BodyKey(x) # BodyKey(k)) =>
                 SumBytes(Like(others \cup {j}, k)) = SumBytes(Like(others, k))
           /\ \A x \in j.kind :
                 SumBytes(Like(others \cup {j}, k)) <= SumBytes(Like(others, k)) + x.kib
<1> DEFINE all == others \cup {j}
           D   == Like(all, k)
           C   == Like(others, k)
<1>1. \A o \in all : KindsRight(o)
  OBVIOUS
<1>2. ASSUME NEW o, KindsRight(o), NEW x \in o.kind
      PROVE  BytesOf(o) = x.kib /\ BytesOf(o) \in Nat
  BY <1>2 DEF KindsRight, BytesOf, KindOK
<1>3. /\ IsFiniteSet(D) /\ IsFiniteSet(C)
      /\ (\A o \in D : BytesOf(o) \in Nat) /\ (\A o \in C : BytesOf(o) \in Nat)
  <2>1. IsFiniteSet(all) /\ D \subseteq all /\ C \subseteq others
    BY FS_AddElement DEF Like
  <2>2. \A o \in D : KindsRight(o) /\ \E x \in o.kind : TRUE
    BY <1>1 DEF Like
  <2>3. \A o \in C : KindsRight(o) /\ \E x \in o.kind : TRUE
    BY DEF Like
  <2> HIDE DEF D, C, all
  <2> QED BY <1>2, <2>1, <2>2, <2>3, FS_Subset
<1>4. SumBytes(D) \in Nat /\ SumBytes(C) \in Nat
      /\ \A o \in D : SumBytes(D) = BytesOf(o) + SumBytes(D \ {o})
  <2> HIDE DEF C, D
  <2> QED BY <1>3, BytesSplit
<1>5. SumBytes({}) = 0
  <2> DEFINE g == [S \in SUBSET {} |-> SumBytes(S)]
  <2>1. Bodies!Sums(g, [o \in {} |-> BytesOf(o)], {})
    BY BytesAddUp, FS_EmptySet
  <2>2. g[{}] = SumBytes({})
    OBVIOUS
  <2> HIDE DEF g
  <2> QED BY <2>1, <2>2 DEF Bodies!Sums
<1>6. j \in others \/ j \notin D => D = C
  BY DEF Like
<1>7. j \notin others => D \ {j} = C
  BY DEF Like
<1>8. (\A x \in j.kind : BodyKey(x) # BodyKey(k)) => D = C
  BY DEF Like
<1>9. ASSUME NEW x \in j.kind PROVE SumBytes(D) <= SumBytes(C) + x.kib
  <2>1. BytesOf(j) = x.kib /\ BytesOf(j) \in Nat
    BY <1>2
  <2> HIDE DEF D, C
  <2>2. CASE D = C
    BY <1>4, <2>1, <2>2
  <2>3. CASE D # C
    <3>1. j \in D /\ D \ {j} = C
      BY <1>6, <1>7, <2>3
    <3>2. SumBytes(D) = BytesOf(j) + SumBytes(C)
      BY <1>4, <3>1
    <3> QED BY <1>4, <2>1, <3>2
  <2> QED BY <2>2, <2>3
<1> HIDE DEF D, C
<1> QED BY <1>4, <1>5, <1>8, <1>9 DEF C, D
-----------------------------------------------------------------------------
(* The larger of two numbers.                                              *)
LEMMA MaxOfTwo ==
    ASSUME NEW a \in Nat, NEW b \in Nat
    PROVE  Max({a, b}) \in Nat /\ a <= Max({a, b}) /\ b <= Max({a, b})
<1>1. CASE a >= b
  <2>1. a \in {a, b} /\ \A x \in {a, b} : a >= x
    BY <1>1
  <2>2. \A m \in {a, b} : (\A x \in {a, b} : m >= x) => m = a
    BY <1>1
  <2>3. Max({a, b}) = a
    BY <2>1, <2>2 DEF Max
  <2> QED BY <1>1, <2>3
<1>2. CASE ~(a >= b)
  <2>1. b \in {a, b} /\ \A x \in {a, b} : b >= x
    BY <1>2
  <2>2. \A m \in {a, b} : (\A x \in {a, b} : m >= x) => m = b
    BY <1>2
  <2>3. Max({a, b}) = b
    BY <2>1, <2>2 DEF Max
  <2> QED BY <1>2, <2>3
<1> QED BY <1>1, <1>2

(* Merged drip sums are no less than either's, and hold every byte of both *)
LEMMA MergedDripTells ==
    ASSUME NEW old, DripOK(old), NEW new, DripOK(new)
    PROVE  LET m == MergedDrip(old, new)
           IN /\ DripOK(m) /\ m.over = old.over + new.over
              /\ \A key \in DOMAIN old.entries :
                    key \in DOMAIN m.entries /\ old.entries[key] <= m.entries[key]
              /\ \A key \in DOMAIN new.entries :
                    key \in DOMAIN m.entries /\ new.entries[key] <= m.entries[key]
              /\ old.agent <= m.agent /\ new.agent <= m.agent
<1> DEFINE m == MergedDrip(old, new)
           Ours(key) == IF key \in DOMAIN old.entries THEN {old.entries[key]} ELSE {}
           Theirs(key) == IF key \in DOMAIN new.entries THEN {new.entries[key]} ELSE {}
<1>1. /\ DOMAIN m = {"entries", "agent", "kib", "over"}
      /\ DOMAIN m.entries = DOMAIN old.entries \cup DOMAIN new.entries
      /\ m.over = old.over + new.over
      /\ m.agent = Max({old.agent, new.agent})
      /\ m.kib = Max({old.kib, new.kib})
      /\ \A key \in DOMAIN old.entries \cup DOMAIN new.entries :
            m.entries[key] = Max(Ours(key) \cup Theirs(key))
  BY DEF MergedDrip
<1>2. /\ m.agent \in Nat /\ old.agent <= m.agent /\ new.agent <= m.agent
      /\ m.kib \in Nat /\ m.over \in Nat
  <2>1. /\ old.agent \in Nat /\ new.agent \in Nat /\ old.kib \in Nat /\ new.kib \in Nat
        /\ old.over \in Nat /\ new.over \in Nat
    BY DEF DripOK
  <2> HIDE DEF m
  <2>2. /\ Max({old.agent, new.agent}) \in Nat
        /\ old.agent <= Max({old.agent, new.agent}) /\ new.agent <= Max({old.agent, new.agent})
    BY <2>1, MaxOfTwo
  <2>3. Max({old.kib, new.kib}) \in Nat
    BY <2>1, MaxOfTwo
  <2>4. old.over + new.over \in Nat
    BY <2>1
  <2> QED BY <1>1, <2>2, <2>3, <2>4
<1>3. ASSUME NEW key \in DOMAIN old.entries \cup DOMAIN new.entries
      PROVE  /\ m.entries[key] \in Nat
             /\ key \in DOMAIN old.entries => old.entries[key] <= m.entries[key]
             /\ key \in DOMAIN new.entries => new.entries[key] <= m.entries[key]
  <2> HIDE DEF m
  <2>1. /\ key \in DOMAIN old.entries => old.entries[key] \in Nat
        /\ key \in DOMAIN new.entries => new.entries[key] \in Nat
    BY DEF DripOK
  <2>2. CASE key \in DOMAIN old.entries /\ key \in DOMAIN new.entries
    <3>1. Ours(key) \cup Theirs(key) = {old.entries[key], new.entries[key]}
      BY <2>2
    <3>2. m.entries[key] = Max({old.entries[key], new.entries[key]})
      BY <1>1, <3>1
    <3>3. old.entries[key] \in Nat /\ new.entries[key] \in Nat
      BY <2>1, <2>2
    <3> HIDE DEF Ours, Theirs
    <3>4. /\ Max({old.entries[key], new.entries[key]}) \in Nat
          /\ old.entries[key] <= Max({old.entries[key], new.entries[key]})
          /\ new.entries[key] <= Max({old.entries[key], new.entries[key]})
      BY <3>3, MaxOfTwo
    <3> QED BY <2>2, <3>2, <3>4
  <2>3. CASE key \in DOMAIN old.entries /\ key \notin DOMAIN new.entries
    <3>1. Ours(key) \cup Theirs(key) = {old.entries[key], old.entries[key]}
      BY <2>3
    <3>2. m.entries[key] = Max({old.entries[key], old.entries[key]})
      BY <1>1, <3>1
    <3>3. old.entries[key] \in Nat /\ old.entries[key] \in Nat
      BY <2>1, <2>3
    <3> HIDE DEF Ours, Theirs
    <3>4. /\ Max({old.entries[key], old.entries[key]}) \in Nat
          /\ old.entries[key] <= Max({old.entries[key], old.entries[key]})
          /\ old.entries[key] <= Max({old.entries[key], old.entries[key]})
      BY <3>3, MaxOfTwo
    <3> QED BY <2>3, <3>2, <3>4
  <2>4. CASE key \notin DOMAIN old.entries /\ key \in DOMAIN new.entries
    <3>1. Ours(key) \cup Theirs(key) = {new.entries[key], new.entries[key]}
      BY <2>4
    <3>2. m.entries[key] = Max({new.entries[key], new.entries[key]})
      BY <1>1, <3>1
    <3>3. new.entries[key] \in Nat /\ new.entries[key] \in Nat
      BY <2>1, <2>4
    <3> HIDE DEF Ours, Theirs
    <3>4. /\ Max({new.entries[key], new.entries[key]}) \in Nat
          /\ new.entries[key] <= Max({new.entries[key], new.entries[key]})
          /\ new.entries[key] <= Max({new.entries[key], new.entries[key]})
      BY <3>3, MaxOfTwo
    <3> QED BY <2>4, <3>2, <3>4
  <2> QED BY <2>2, <2>3, <2>4
<1> HIDE DEF m
<1>4. DripOK(m)
  BY <1>1, <1>2, <1>3 DEF DripOK
<1>5. /\ \A key \in DOMAIN old.entries : key \in DOMAIN m.entries /\ old.entries[key] <= m.entries[key]
      /\ \A key \in DOMAIN new.entries : key \in DOMAIN m.entries /\ new.entries[key] <= m.entries[key]
  BY <1>1, <1>3
<1> QED BY <1>1, <1>2, <1>4, <1>5 DEF m
-----------------------------------------------------------------------------
HitOf(j, d) ==
    /\ HostRow(d) /\ d.carries = CarriesBody(j.request.body) /\ d.size = j.request.size
    /\ d.bodies = j.kind /\ d.overflow = FALSE

(* The size a row keeps.                                                   *)
LEMMA MergedSizeTells ==
    ASSUME NEW old, NEW others, Told(old, others), \A o \in others : SizeOK(o.request.size),
           NEW j, SizeOK(j.request.size),
           NEW new, HitOf(j, new)
    PROVE  LET d == MergedDetail(old, new)
           IN SizeOK(d.size) /\ ((d.carries /\ d.size = {}) \/ SizesTold(d, others \cup {j}))
<1> DEFINE d == MergedDetail(old, new)
           sizes == old.size \cup new.size
           unknown == (old.carries /\ old.size = {}) \/ (new.carries /\ new.size = {})
<1>1. /\ d.size = IF unknown \/ sizes = {} THEN {} ELSE {Max(sizes)}
      /\ d.carries = (old.carries \/ new.carries)
  BY DEF MergedDetail, Told, HostRow, HitOf
<1>2. IsFiniteSet(sizes) /\ sizes \subseteq Nat
  BY FS_Union DEF Told, SizeOK, HitOf
<1> SUFFICES SizeOK(d.size) /\ ((d.carries /\ d.size = {}) \/ SizesTold(d, others \cup {j}))
  OBVIOUS
<1> HIDE DEF d
<1>3. CASE unknown
  BY <1>1, <1>3, FS_EmptySet DEF SizeOK
<1>4. CASE ~unknown
  <2>1. SizesTold(old, others)
    BY <1>4 DEF Told
  <2>2. CASE sizes = {}
    <3>1. d.size = {} /\ old.size = {} /\ new.size = {}
      BY <1>1, <2>2
    <3>2. SizesTold(d, others \cup {j})
      BY <1>4, <2>1, <3>1 DEF SizesTold, HitOf
    <3> QED BY <3>1, <3>2, FS_EmptySet DEF SizeOK
  <2>3. CASE sizes # {}
    <3> HIDE DEF sizes
    <3>1. d.size = {Max(sizes)}
      BY <1>1, <1>4, <2>3
    <3>2. Bodies!IsFiniteSet(sizes) /\ Bodies!Max(sizes) = Max(sizes) /\ sizes \in SUBSET Int
      BY <1>2 DEF IsFiniteSet, Bodies!IsFiniteSet, Max, Bodies!Max
    <3>3. Max(sizes) \in sizes /\ \A n \in sizes : n <= Max(sizes)
      BY <2>3, <3>2, Bodies!FiniteMax
    <3>4. SizeOK(d.size)
      BY <1>2, <3>1, <3>3, FS_Singleton DEF SizeOK
    <3>5. ASSUME NEW o \in others \cup {j}
          PROVE  /\ CarriesBody(o.request.body) => o.request.size # {}
                 /\ \A n \in o.request.size : \E m \in d.size : n <= m
      <4>1. CASE o = j
        BY <1>4, <3>1, <3>3, <4>1 DEF HitOf, sizes
      <4>2. CASE o \in others
        <5>1. CarriesBody(o.request.body) => o.request.size # {}
          BY <2>1, <4>2 DEF SizesTold
        <5>2. ASSUME NEW n \in o.request.size PROVE n <= Max(sizes)
          <6>1. PICK m \in old.size : n <= m
            BY <2>1, <4>2 DEF SizesTold
          <6>2. m \in sizes /\ m <= Max(sizes) /\ m \in Nat /\ Max(sizes) \in Nat
            BY <1>2, <3>3 DEF sizes
          <6>3. n \in Nat
            BY <4>2 DEF SizeOK
          <6> QED BY <6>1, <6>2, <6>3
        <5> QED BY <3>1, <5>1, <5>2
      <4> QED BY <4>1, <4>2
    <3> QED BY <3>4, <3>5 DEF SizesTold
  <2> QED BY <2>2, <2>3
<1> QED BY <1>3, <1>4

(* A stored body merged with the repeat's.                                 *)
LEMMA MergedBodyTells ==
    ASSUME NEW kept, RowBody(kept), NEW j, KindsRight(j)
    PROVE  LET m == MergedBody(kept, j.kind)
           IN /\ RowBody(m) /\ BodyKey(m) = BodyKey(kept)
              /\ (\A x \in j.kind : BodyKey(x) # BodyKey(kept)) => m = kept
              /\ kept.step = STEP_DRIP =>
                    \A x \in j.kind : BodyKey(x) = BodyKey(kept) =>
                       m.drip = MergedDrip(kept.drip, x.drip) /\ DripOK(x.drip) /\ x.drip.over = x.kib
<1> DEFINE m == MergedBody(kept, j.kind)
           same == {n \in j.kind : BodyKey(n) = BodyKey(kept)}
<1>1. CASE kept.step # STEP_DRIP
  BY <1>1 DEF MergedBody
<1>2. CASE kept.step = STEP_DRIP /\ same = {}
  BY <1>2 DEF MergedBody
<1>3. CASE kept.step = STEP_DRIP /\ same # {}
  <2>1. PICK x : j.kind = {x} /\ KindOK(j.request, x)
    BY <1>3 DEF KindsRight
  <2>2. same = {x} /\ BodyKey(x) = BodyKey(kept) /\ (CHOOSE n \in same : TRUE) = x
    BY <1>3, <2>1
  <2>3. x.step = STEP_DRIP
    BY <1>3, <2>2 DEF BodyKey
  <2>4. DripOK(x.drip) /\ x.drip.over = x.kib
    BY <2>1, <2>3 DEF KindOK
  <2>5. m = [kept EXCEPT !.drip = MergedDrip(kept.drip, x.drip)]
    BY <1>3, <2>2 DEF MergedBody
  <2>6. /\ DOMAIN m = KindFields /\ m.drip = MergedDrip(kept.drip, x.drip)
        /\ BodyKey(m) = BodyKey(kept) /\ m.step = kept.step
    BY <2>5 DEF RowBody, BodyKey, KindFields
  <2>7. DripOK(MergedDrip(kept.drip, x.drip))
    BY <1>3, <2>4, MergedDripTells DEF RowBody
  <2> HIDE DEF m, same
  <2>8. RowBody(m)
    BY <2>6, <2>7 DEF RowBody
  <2>9. \A y \in j.kind : y = x
    BY <2>1
  <2>10. ~(\A y \in j.kind : BodyKey(y) # BodyKey(kept))
    BY <2>1, <2>2
  <2> QED BY <2>4, <2>6, <2>8, <2>9, <2>10 DEF m
<1> QED BY <1>1, <1>2, <1>3

(* A body that a row told of before is told of with a request more.        *)
LEMMA KeptBodyTells ==
    ASSUME NEW others, IsFiniteSet(others), \A o \in others : KindsRight(o),
           NEW j, KindsRight(j), NEW k, k.step = STEP_DRIP => DripOK(k.drip),
           NEW kept, RowBody(kept),
           BodyTold(kept, k, SumBytes(Like(others, k)))
    PROVE  BodyTold(MergedBody(kept, j.kind), k, SumBytes(Like(others \cup {j}, k)))
<1> DEFINE m == MergedBody(kept, j.kind)
           before == SumBytes(Like(others, k))
           after == SumBytes(Like(others \cup {j}, k))
<1>1. /\ RowBody(m) /\ BodyKey(m) = BodyKey(kept)
      /\ (\A x \in j.kind : BodyKey(x) # BodyKey(kept)) => m = kept
      /\ kept.step = STEP_DRIP =>
            \A x \in j.kind : BodyKey(x) = BodyKey(kept) =>
               m.drip = MergedDrip(kept.drip, x.drip) /\ DripOK(x.drip) /\ x.drip.over = x.kib
  BY MergedBodyTells
<1>2. /\ before \in Nat /\ after \in Nat
      /\ (\A x \in j.kind : BodyKey(x) # BodyKey(k)) => after = before
      /\ \A x \in j.kind : after <= before + x.kib
  BY LikeGrows
<1>3. BodyKey(kept) = BodyKey(k)
  BY DEF BodyTold
<1> HIDE DEF m, before, after
<1>4. CASE \A x \in j.kind : BodyKey(x) # BodyKey(kept)
  BY <1>1, <1>2, <1>3, <1>4 DEF BodyTold, m, before, after
<1>5. ASSUME NEW x \in j.kind, BodyKey(x) = BodyKey(kept), k.step = STEP_DRIP
      PROVE  DripTold(m.drip, k.drip, after)
  <2>1. kept.step = STEP_DRIP /\ DripTold(kept.drip, k.drip, before)
    BY <1>3, <1>5 DEF BodyTold, BodyKey, before
  <2>2. m.drip = MergedDrip(kept.drip, x.drip) /\ DripOK(x.drip) /\ x.drip.over = x.kib
    BY <1>1, <1>5, <2>1
  <2>3. DripOK(kept.drip)
    BY <2>1 DEF DripTold
  <2>4. /\ DripOK(m.drip) /\ m.drip.over = kept.drip.over + x.drip.over
        /\ \A key \in DOMAIN kept.drip.entries :
              key \in DOMAIN m.drip.entries /\ kept.drip.entries[key] <= m.drip.entries[key]
        /\ kept.drip.agent <= m.drip.agent
    BY <2>2, <2>3, MergedDripTells
  <2>5. after <= m.drip.over
    <3>1. before <= kept.drip.over /\ after <= before + x.kib
      BY <1>2, <2>1 DEF DripTold
    <3>2. kept.drip.over \in Nat /\ x.kib \in Nat
      BY <2>2, <2>3 DEF DripOK
    <3> QED BY <1>2, <2>2, <2>4, <3>1, <3>2
  <2>6. SUFFICES ASSUME TRUE
                 PROVE  /\ k.drip.agent <= m.drip.agent
                        /\ \A key \in DOMAIN k.drip.entries :
                              /\ key \in DOMAIN m.drip.entries
                              /\ k.drip.entries[key] <= m.drip.entries[key]
    BY <2>4, <2>5 DEF DripTold
  <2>7. k.drip.agent <= m.drip.agent
    BY <1>5, <2>1, <2>3, <2>4 DEF DripTold, DripOK
  <2>8. ASSUME NEW key \in DOMAIN k.drip.entries
        PROVE  key \in DOMAIN m.drip.entries /\ k.drip.entries[key] <= m.drip.entries[key]
    <3>1. key \in DOMAIN kept.drip.entries /\ k.drip.entries[key] <= kept.drip.entries[key]
      BY <2>1 DEF DripTold
    <3>2. key \in DOMAIN m.drip.entries /\ kept.drip.entries[key] <= m.drip.entries[key]
      BY <2>4, <3>1
    <3>3. /\ k.drip.entries[key] \in Nat /\ kept.drip.entries[key] \in Nat
          /\ m.drip.entries[key] \in Nat
      BY <1>5, <2>3, <2>4, <3>1, <3>2 DEF DripOK
    <3> QED BY <3>1, <3>2, <3>3
  <2> QED BY <2>7, <2>8
<1> QED BY <1>1, <1>3, <1>4, <1>5 DEF BodyTold, m, before, after

(* The bodies a row keeps.                                                 *)
LEMMA MergedBodiesTell ==
    ASSUME NEW old, NEW others, IsFiniteSet(others), \A o \in others : KindsRight(o),
           Told(old, others), NEW j, KindsRight(j), NEW new, HitOf(j, new)
    PROVE  LET d == MergedDetail(old, new)
           IN /\ \A kept \in d.bodies : RowBody(kept)
              /\ d.overflow \/ KindsUnread(d) \/ BodiesTold(d, others \cup {j})
<1> DEFINE d      == MergedDetail(old, new)
           added  == {n \in new.bodies : \A k \in old.bodies : BodyKey(k) # BodyKey(n)}
           room   == MAX_ROW_BODIES - Cardinality(old.bodies)
           unread == KindsUnread(old) \/ KindsUnread(new)
           kept   == {MergedBody(k, new.bodies) : k \in old.bodies}
           bodies == kept \cup (IF Cardinality(added) <= room THEN added ELSE {})
           all    == others \cup {j}
<1> SUFFICES /\ \A k \in d.bodies : RowBody(k)
             /\ d.overflow \/ KindsUnread(d) \/ BodiesTold(d, all)
  OBVIOUS
<1>1. /\ d.carries = (old.carries \/ new.carries)
      /\ d.bodies = IF unread THEN {} ELSE bodies
      /\ d.overflow = IF unread THEN FALSE
                      ELSE old.overflow \/ new.overflow \/ Cardinality(added) > room
  BY DEF MergedDetail, MergeRowBodies, HitOf, Told, HostRow
<1>2. Cardinality(added) \in Nat /\ room \in Int
  <2>1. IsFiniteSet(new.bodies) /\ IsFiniteSet(old.bodies)
    BY DEF HostRow, HitOf, Told
  <2> QED BY <2>1, FS_Subset, FS_CardinalityType, RowBodiesAssumption
<1>3. new.bodies = j.kind
  BY DEF HitOf
<1>4. \A k \in j.kind : j.kind = {k} /\ KindOK(j.request, k) /\ RowBody(k)
  BY DEF KindsRight, KindOK, RowBody
<1>5. \A k \in old.bodies : RowBody(k) /\ RowBody(MergedBody(k, j.kind))
  BY MergedBodyTells DEF Told
<1>6. \A k \in d.bodies : RowBody(k)
  BY <1>1, <1>3, <1>4, <1>5
<1>7. CASE unread
  BY <1>1, <1>6, <1>7 DEF KindsUnread
<1>8. CASE ~unread /\ (old.overflow \/ Cardinality(added) > room)
  BY <1>1, <1>6, <1>8
<1>9. CASE ~unread /\ ~old.overflow /\ ~(Cardinality(added) > room)
  <2>1. BodiesTold(old, others) /\ d.bodies = kept \cup added
    BY <1>1, <1>2, <1>9 DEF Told
  <2> HIDE DEF d, unread, room
  <2>2. ASSUME NEW o \in others, NEW k \in o.kind
        PROVE  \E b \in d.bodies : BodyTold(b, k, SumBytes(Like(all, k)))
    <3>1. PICK b \in old.bodies : BodyTold(b, k, SumBytes(Like(others, k)))
      BY <2>1 DEF BodiesTold
    <3>2. k.step = STEP_DRIP => DripOK(k.drip)
      BY DEF KindsRight, KindOK
    <3>3. BodyTold(MergedBody(b, j.kind), k, SumBytes(Like(all, k)))
      BY <1>5, <3>1, <3>2, KeptBodyTells
    <3>4. MergedBody(b, j.kind) \in d.bodies
      BY <1>3, <2>1
    <3> QED BY <3>3, <3>4
  <2>3. ASSUME NEW k \in j.kind
        PROVE  \E b \in d.bodies : BodyTold(b, k, SumBytes(Like(all, k)))
    <3> DEFINE before == SumBytes(Like(others, k))
               after  == SumBytes(Like(all, k))
    <3>1. /\ before \in Nat /\ after \in Nat /\ after <= before + k.kib
          /\ Like(others, k) = {} => before = 0
      BY LikeGrows
    <3>2. /\ KindOK(j.request, k)
          /\ k.step = STEP_DRIP => DripOK(k.drip) /\ k.drip.over = k.kib
      BY <1>4 DEF KindOK
    <3> HIDE DEF before, after
    <3> DEFINE StillThere ==
                 \E b \in old.bodies :
                    /\ BodyKey(b) = BodyKey(k)
                    /\ k.step = STEP_DRIP => before <= b.drip.over
    <3>3. ASSUME NEW o \in others, NEW x \in o.kind, BodyKey(x) = BodyKey(k) PROVE StillThere
      <4>1. PICK b \in old.bodies : BodyTold(b, x, SumBytes(Like(others, x)))
        BY <2>1 DEF BodiesTold
      <4>2. Like(others, x) = Like(others, k)
        BY <3>3 DEF Like
      <4>3. BodyKey(b) = BodyKey(k) /\ (k.step = STEP_DRIP => x.step = STEP_DRIP)
        BY <3>3, <4>1 DEF BodyTold, BodyKey
      <4>4. k.step = STEP_DRIP => before <= b.drip.over
        BY <4>1, <4>2, <4>3 DEF BodyTold, DripTold, before
      <4> QED BY <4>3, <4>4
    <3>4. CASE \A b \in old.bodies : BodyKey(b) # BodyKey(k)
      <4>1. Like(others, k) = {}
        <5>1. ASSUME NEW o \in Like(others, k) PROVE FALSE
          <6>1. PICK x \in o.kind : o \in others /\ BodyKey(x) = BodyKey(k)
            BY DEF Like
          <6> HIDE DEF StillThere
          <6>2. StillThere
            BY <3>3, <6>1
          <6> QED BY <3>4, <6>2 DEF StillThere
        <5> QED BY <5>1
      <4>2. k \in d.bodies
        BY <1>3, <2>1, <3>4
      <4>3. ASSUME k.step = STEP_DRIP PROVE DripTold(k.drip, k.drip, after)
        <5>1. DripOK(k.drip) /\ after <= k.drip.over
          BY <3>1, <3>2, <4>1, <4>3 DEF DripOK
        <5> QED BY <5>1 DEF DripTold, DripOK
      <4> QED BY <4>2, <4>3 DEF BodyTold, after
    <3>5. CASE \E b \in old.bodies : BodyKey(b) = BodyKey(k)
      <4>1. PICK b \in old.bodies :
                    /\ BodyKey(b) = BodyKey(k)
                    /\ k.step = STEP_DRIP => (before <= b.drip.over \/ before = 0)
        <5>1. CASE Like(others, k) = {}
          BY <3>1, <3>5, <5>1
        <5>2. CASE Like(others, k) # {}
          <6>1. PICK o \in others : \E x \in o.kind : BodyKey(x) = BodyKey(k)
            BY <5>2 DEF Like
          <6>2. PICK x \in o.kind : BodyKey(x) = BodyKey(k)
            BY <6>1
          <6> HIDE DEF StillThere
          <6>3. StillThere
            BY <3>3, <6>2
          <6> QED BY <6>3 DEF StillThere
        <5> QED BY <5>1, <5>2
      <4> DEFINE m == MergedBody(b, j.kind)
      <4>2. m \in d.bodies
        BY <1>3, <2>1
      <4>3. /\ BodyKey(m) = BodyKey(k)
            /\ b.step = STEP_DRIP => m.drip = MergedDrip(b.drip, k.drip)
        BY <1>5, <4>1, MergedBodyTells
      <4> HIDE DEF m
      <4>4. ASSUME k.step = STEP_DRIP PROVE DripTold(m.drip, k.drip, after)
        <5>1. b.step = STEP_DRIP /\ DripOK(b.drip) /\ DripOK(k.drip) /\ k.drip.over = k.kib
          BY <1>5, <3>2, <4>1, <4>4 DEF RowBody, BodyKey
        <5>2. /\ DripOK(m.drip) /\ m.drip.over = b.drip.over + k.drip.over
              /\ \A key \in DOMAIN k.drip.entries :
                    key \in DOMAIN m.drip.entries /\ k.drip.entries[key] <= m.drip.entries[key]
              /\ k.drip.agent <= m.drip.agent
          BY <4>3, <5>1, MergedDripTells
        <5>3. after <= m.drip.over
          <6>1. before <= b.drip.over \/ before = 0
            BY <4>1, <4>4
          <6>2. b.drip.over \in Nat /\ k.kib \in Nat
            BY <5>1 DEF DripOK
          <6> QED BY <3>1, <5>1, <5>2, <6>1, <6>2
        <5> QED BY <5>2, <5>3 DEF DripTold
      <4> QED BY <4>2, <4>3, <4>4 DEF BodyTold, after
    <3> QED BY <3>4, <3>5
  <2>4. \A o \in all : CarriesBody(o.request.body) => o.kind # {}
    BY <1>3, <1>9, <2>1 DEF BodiesTold, KindsUnread, HitOf, unread
  <2> QED BY <1>6, <2>2, <2>3, <2>4 DEF BodiesTold
<1> QED BY <1>2, <1>7, <1>8, <1>9

(* A hit merged into its row.                                              *)
LEMMA MergedTells ==
    ASSUME NEW old, NEW others, IsFiniteSet(others),
           \A o \in others : KindsRight(o) /\ SizeOK(o.request.size),
           Told(old, others), NEW j, KindsRight(j), SizeOK(j.request.size),
           NEW new, HitOf(j, new)
    PROVE  Told(MergedDetail(old, new), others \cup {j})
<1> DEFINE d == MergedDetail(old, new)
<1>1. HostRow(d)
  BY MergeKeepsHard DEF Told, HitOf
<1>2. SizeOK(d.size) /\ ((d.carries /\ d.size = {}) \/ SizesTold(d, others \cup {j}))
  BY MergedSizeTells
<1>3. /\ \A kept \in d.bodies : RowBody(kept)
      /\ d.overflow \/ KindsUnread(d) \/ BodiesTold(d, others \cup {j})
  BY MergedBodiesTell
<1>4. d.carries = (old.carries \/ new.carries)
  BY DEF MergedDetail, HitOf, Told, HostRow
<1>5. \A o \in others \cup {j} : CarriesBody(o.request.body) => d.carries
  BY <1>4 DEF Told, HitOf
<1> HIDE DEF d
<1> QED BY <1>1, <1>2, <1>3, <1>5 DEF Told, d

(* A hit that opens its row.                                               *)
LEMMA FirstTells ==
    ASSUME NEW j, KindsRight(j), SizeOK(j.request.size), NEW new, HitOf(j, new)
    PROVE  Told(new, {j})
<1>1. ASSUME NEW k \in j.kind
      PROVE  RowBody(k) /\ BodyTold(k, k, SumBytes(Like({j}, k)))
  <2> DEFINE after == SumBytes(Like({j}, k))
  <2>1. KindOK(j.request, k)
    BY DEF KindsRight
  <2>2. after \in Nat /\ after <= k.kib
    <3>1. {} \cup {j} = {j} /\ Like({}, k) = {} /\ \A o \in {} : KindsRight(o)
      BY DEF Like
    <3>2. /\ SumBytes(Like({}, k)) \in Nat /\ SumBytes(Like({} \cup {j}, k)) \in Nat
          /\ Like({}, k) = {} => SumBytes(Like({}, k)) = 0
          /\ SumBytes(Like({} \cup {j}, k)) <= SumBytes(Like({}, k)) + k.kib
      BY <3>1, FS_EmptySet, LikeGrows
    <3>3. k.kib \in Nat
      BY <2>1 DEF KindOK
    <3>4. SumBytes(Like({} \cup {j}, k)) = after
      BY <3>1
    <3> HIDE DEF after
    <3> QED BY <3>1, <3>2, <3>3, <3>4
  <2> HIDE DEF after
  <2>3. k.step = STEP_DRIP => DripTold(k.drip, k.drip, after)
    BY <2>1, <2>2 DEF DripTold, DripOK, KindOK
  <2> QED BY <2>1, <2>3 DEF BodyTold, RowBody, KindOK, after
<1>2. KindsUnread(new) \/ BodiesTold(new, {j})
  BY <1>1 DEF BodiesTold, HitOf, KindsUnread
<1>3. (new.carries /\ new.size = {}) \/ SizesTold(new, {j})
  BY DEF SizesTold, HitOf, SizeOK
<1> QED BY <1>1, <1>2, <1>3 DEF Told, HitOf
-----------------------------------------------------------------------------
(* A row judged again, in place of its requests *)

(* A body no step counts under a version, told by the answer a row keeps of*)
(* it, is classified afresh under that version as one that does not count. *)
LEMMA CountsAgain ==
    ASSUME NEW q, NEW k, KindOK(q, k), k.step # STEP_DRIP,
           NEW kept, BodyKey(kept) = BodyKey(k), NEW r, ~BodyCounts(kept, q.host, r)
    PROVE  ~BodyCounts(RequestBodyKind(q.body, q.host, r.overrides, q.specUploads), q.host, r)
<1> USE DEF STEP_NOT_REST, STEP_HARD, STEP_OVERRIDE, STEP_SPEC, STEP_SHAPE, STEP_OTHER, STEP_DRIP
<1>1. PICK o : k = RequestBodyKind(q.body, q.host, o, q.specUploads)
  BY DEF KindOK
<1>2. /\ kept.kind = k.kind /\ kept.step = k.step
      /\ kept.method = k.method /\ kept.template = k.template
  BY DEF BodyKey
<1> DEFINE old     == Overrides(o, q.host, q.body.method, q.body.template)
           answers == Overrides(r.overrides, q.host, q.body.method, q.body.template)
           again   == Classify(q.body, answers, q.specUploads)
<1>3. q.body # Unreadable
  <2> SUFFICES ASSUME q.body = Unreadable PROVE FALSE
    OBVIOUS
  <2>1. k.step = STEP_HARD /\ k.kind = "unknown"
    BY <1>1 DEF RequestBodyKind
  <2>2. kept.step = STEP_HARD /\ kept.kind = "unknown"
    BY <1>2, <2>1
  <2>3. kept.step # STEP_DRIP /\ kept.step \notin Overridable
    BY <2>2 DEF Overridable
  <2> QED BY <2>2, <2>3 DEF BodyCounts
<1>4. /\ k = Classify(q.body, old, q.specUploads)
      /\ RequestBodyKind(q.body, q.host, r.overrides, q.specUploads) = again
  BY <1>1, <1>3 DEF RequestBodyKind
<1> HIDE DEF old, answers
<1>5. /\ k.method = q.body.method /\ k.template = q.body.template
      /\ again.method = q.body.method /\ again.template = q.body.template
  BY <1>4 DEF Classify, Decided
<1>6. /\ q.body.kept \notin {"model", "jsonrpc"} /\ ~HardSignal(q.body)
      /\ k.step \in Overridable
  BY <1>2, <1>4 DEF Classify, Decided, BodyCounts, Overridable
<1>7. CASE answers # {}
  <2>1. "parameters" \in answers
    BY <1>2, <1>5, <1>6, <1>7 DEF BodyCounts, answers
  <2>2. again.step = STEP_OVERRIDE
    BY <1>6, <1>7 DEF Classify, Decided
  <2> QED BY <1>4, <1>5, <2>1, <2>2 DEF BodyCounts, Overridable, answers
<1>8. CASE answers = {}
  <2>1. k.step # STEP_OVERRIDE /\ k.kind = "parameters"
    BY <1>2, <1>5, <1>6, <1>8 DEF BodyCounts, answers
  <2>2. old = {} /\ again = k
    BY <1>4, <1>6, <1>8, <2>1 DEF Classify, Decided
  <2> QED BY <1>2, <1>4, <1>5, <1>6, <1>8, <2>1, <2>2 DEF BodyCounts, answers
<1> QED BY <1>7, <1>8

(* Bytes that a row's sums let fit a version's budgets fit them by the sums*)
(* of each of its requests.                                                *)
LEMMA DripFitsAgain ==
    ASSUME NEW d, DripOK(d), NEW told, NEW sum \in Nat, DripTold(told, d, sum),
           NEW r, Budgeted(r), DripFits(told, r)
    PROVE  DripFits([d EXCEPT !.over = sum], r)
<1> DEFINE e == [d EXCEPT !.over = sum]
<1>1. /\ DOMAIN e = DOMAIN d /\ e.over = sum /\ e.agent = d.agent /\ e.entries = d.entries
  BY DEF DripOK
<1>2. e # NoDrip
  BY <1>1 DEF NoDrip, DripOK
<1>3. /\ r.agentBudget \in Nat
      /\ \A key : EntryBudget(r.budgets, key) \in Nat
  BY BudgetAssumption DEF Budgeted, EntryBudget
<1>4. /\ d.agent \in Nat /\ told.agent \in Nat /\ told.over \in Nat
      /\ d.agent <= told.agent /\ sum <= told.over
  BY DEF DripOK, DripTold
<1>5. told.agent + told.over <= r.agentBudget
  BY DEF DripFits
<1>6. e.agent + e.over <= r.agentBudget
  <2> HIDE DEF e
  <2> QED BY <1>1, <1>3, <1>4, <1>5
<1>7. ASSUME NEW key \in DOMAIN e.entries
      PROVE  e.entries[key] + e.over <= EntryBudget(r.budgets, key)
  <2> HIDE DEF e
  <2>1. /\ key \in DOMAIN told.entries /\ d.entries[key] <= told.entries[key]
        /\ d.entries[key] \in Nat /\ told.entries[key] \in Nat
    BY <1>1 DEF DripTold, DripOK
  <2>2. told.entries[key] + told.over <= EntryBudget(r.budgets, key)
    BY <2>1 DEF DripFits
  <2>3. EntryBudget(r.budgets, key) \in Nat
    BY <1>3
  <2> QED BY <1>1, <1>4, <2>1, <2>2, <2>3
<1> HIDE DEF e
<1> QED BY <1>2, <1>6, <1>7 DEF DripFits, e

(* What an allowed row says of its host's sizes.                           *)
LEMMA SizesAllowed ==
    ASSUME NEW d, NEW others, Told(d, others), NEW j \in others, SizeOK(j.request.size),
           NEW r, Budgeted(r), NEW host, ~OverCap(r, host, d.size),
           ~(d.carries /\ d.size = {} /\ CapsOver(r, host) # {})
    PROVE  /\ ~(CapsOver(r, host) # {} /\ j.request.size = {} /\ CarriesBody(j.request.body))
           /\ ~OverCap(r, host, j.request.size)
<1>1. CASE d.carries /\ d.size = {}
  BY <1>1 DEF OverCap
<1>2. CASE SizesTold(d, others)
  <2>1. CarriesBody(j.request.body) => j.request.size # {}
    BY <1>2 DEF SizesTold
  <2>2. ASSUME NEW p \in CapsOver(r, host), NEW n \in j.request.size, n > r.caps[p] PROVE FALSE
    <3>1. PICK m \in d.size : n <= m
      BY <1>2 DEF SizesTold
    <3>2. ~(m > r.caps[p])
      BY <3>1 DEF OverCap
    <3>3. n \in Nat /\ m \in Nat /\ r.caps[p] \in Int
      BY DEF Told, SizeOK, Budgeted, CapsOver
    <3> QED BY <2>2, <3>1, <3>2, <3>3
  <2> QED BY <2>1, <2>2 DEF OverCap
<1> QED BY <1>1, <1>2 DEF Told

(* What a body of the row is judged to be again does not count.            *)
LEMMA BodyAllowed ==
    ASSUME NEW d, NEW others, IsFiniteSet(others), \A o \in others : KindsRight(o),
           Told(d, others), NEW j \in others, CarriesBody(j.request.body),
           NEW r, Budgeted(r), kindsOn, ~RowUploads(d, j.request.host, r, kindsOn)
    PROVE  /\ Again(j, r, others) # {}
           /\ \A k \in Again(j, r, others) : ~BodyCounts(k, j.request.host, r)
<1>1. /\ ~d.overflow /\ d.bodies # {}
      /\ \A b \in d.bodies : ~BodyCounts(b, j.request.host, r)
  BY DEF RowUploads
<1>2. BodiesTold(d, others)
  BY <1>1 DEF Told, KindsUnread
<1>3. PICK k : j.kind = {k} /\ KindOK(j.request, k)
  BY <1>2 DEF BodiesTold, KindsRight
<1> DEFINE sum == SumBytes(Like(others, k))
<1>4. PICK b \in d.bodies : BodyTold(b, k, sum)
  BY <1>2, <1>3 DEF BodiesTold
<1>5. sum \in Nat
  BY LikeGrows
<1> HIDE DEF sum
<1>6. CASE k.step # STEP_DRIP
  <2>1. Again(j, r, others) = {RequestBodyKind(j.request.body, j.request.host, r.overrides,
                                               j.request.specUploads)}
    BY <1>3, <1>6 DEF Again, DrippedKind
  <2>2. ~BodyCounts(b, j.request.host, r) /\ BodyKey(b) = BodyKey(k)
    BY <1>1, <1>4 DEF BodyTold
  <2> QED BY <1>3, <1>6, <2>1, <2>2, CountsAgain
<1>7. CASE k.step = STEP_DRIP
  <2> DEFINE again == [k EXCEPT !.drip.over = sum]
  <2>1. Again(j, r, others) = {again}
    BY <1>3, <1>7 DEF Again, DrippedKind, Like, sum
  <2>2. again.step = STEP_DRIP /\ again.drip = [k.drip EXCEPT !.over = sum]
    BY <1>3, <1>7 DEF KindOK, KindFields
  <2>3. b.step = STEP_DRIP /\ DripTold(b.drip, k.drip, sum) /\ DripOK(k.drip)
    BY <1>3, <1>4, <1>7 DEF BodyTold, BodyKey, KindOK
  <2>4. DripFits(b.drip, r)
    BY <1>1, <2>3 DEF BodyCounts
  <2>5. DripFits([k.drip EXCEPT !.over = sum], r)
    BY <1>5, <2>3, <2>4, DripFitsAgain
  <2> HIDE DEF again
  <2> QED BY <2>1, <2>2, <2>5 DEF BodyCounts
<1> QED BY <1>6, <1>7

(* An allowed row's host has no reason against any of its requests.        *)
LEMMA ReasonsAllowed ==
    ASSUME NEW d, NEW others, IsFiniteSet(others),
           \A o \in others : KindsRight(o) /\ SizeOK(o.request.size),
           Told(d, others), NEW j \in others, NEW host, host = j.request.host, NEW r, Budgeted(r),
           \/ ~d.carries
           \/ ~RowUploads(d, host, r, kindsOn)
           \/ HostAllowed(host, UploadHosts(r, kindsOn)),
           ~OverCap(r, host, d.size),
           ~(d.carries /\ d.size = {} /\ CapsOver(r, host) # {}),
           host # NoHost
    PROVE  Reasons(r, host, CarriesBody(j.request.body), Again(j, r, others),
                   j.request.size, kindsOn) = {}
<1> DEFINE carries == CarriesBody(j.request.body)
           again   == Again(j, r, others)
<1>1. /\ ~(CapsOver(r, host) # {} /\ j.request.size = {} /\ carries)
      /\ ~OverCap(r, host, j.request.size)
  BY SizesAllowed
<1>2. ASSUME carries, again = {} \/ \E k \in again : BodyCounts(k, host, r)
      PROVE  HostAllowed(host, UploadHosts(r, kindsOn))
  <2> SUFFICES ASSUME ~HostAllowed(host, UploadHosts(r, kindsOn)) PROVE FALSE
    OBVIOUS
  <2>1. d.carries
    BY <1>2 DEF Told
  <2>2. ~RowUploads(d, host, r, kindsOn) /\ kindsOn
    BY <2>1 DEF RowUploads
  <2>3. again # {} /\ \A k \in again : ~BodyCounts(k, host, r)
    BY <1>2, <2>2, BodyAllowed
  <2> QED BY <1>2, <2>3
<1> HIDE DEF again, carries
<1>3. Reasons(r, host, carries, again, j.request.size, kindsOn) = {}
  BY <1>1, <1>2 DEF Reasons
<1> QED BY <1>3 DEF again, carries
-----------------------------------------------------------------------------
(* Every row tells of what hit it *)

HitsIn(all, row) == {j \in all : \E h \in j.hits : SameRow(h, row)}

(* A request judged left a row for each of its hits.                       *)
JudgedRight(j) == KindsRight(j) /\ SizeOK(j.request.size)
LeftRows(all, table) == \A j \in all : \A h \in j.hits : \E row \in table : Item(row) = Item(h)

(* A denied tool's call left a row of this text, whose host it hid.        *)
ToolIn(all, item) == \E j \in all : \E h \in j.hits : h.detail.form = "tool_call" /\ h.item = item

TellsAll(all, table) ==
    \A row \in table : row.rule = "uploads" =>
        /\ row.detail.form = "tool_call" => ToolIn(all, row.item)
        /\ row.detail.form = "host" => ToolIn(all, row.item) \/ Told(row.detail, HitsIn(all, row))

ToldInv == (\A j \in judged : JudgedRight(j)) /\ LeftRows(judged, rows) /\ TellsAll(judged, rows)

(* The kind a body is judged to be.                                        *)
LEMMA KindJudged ==
    ASSUME DripInv, NEW q, BodyOK(q.body), CarriesBody(q.body), NEW clk, NEW r
    PROVE  KindOK(q, DripCheck(r, q, RequestBodyKind(q.body, q.host, r.overrides, q.specUploads),
                               clk).kind)
<1> DEFINE asked == RequestBodyKind(q.body, q.host, r.overrides, q.specUploads)
           kept  == {c \in drip : c.at >= clk - 2 * Day}
           seen  == DayBefore(kept, Clamped(q.at, clk))
           keys  == DripKeys(q.host, r.callHosts)
           check == DripCheck(r, q, asked, clk)
<1>1. /\ DOMAIN asked = KindFields /\ asked.kib \in Nat /\ asked.step # STEP_DRIP
  <2>1. asked.kib \in Nat
    BY KindBytes
  <2>2. DOMAIN asked = KindFields /\ asked.step # STEP_DRIP
    BY DEF RequestBodyKind, Classify, Decided, KindFields, STEP_NOT_REST, STEP_HARD,
           STEP_OVERRIDE, STEP_SPEC, STEP_SHAPE, STEP_OTHER, STEP_DRIP
  <2> QED BY <2>1, <2>2
<1>2. check.kind = asked \/ check.kind = Dripped(asked, seen, keys)
  BY DEF DripCheck
<1>3. KindOK(q, asked)
  BY <1>1 DEF KindOK
<1>4. ASSUME NEW S, S \subseteq drip PROVE Spent(S) \in Nat
  <2>1. IsFiniteSet(S) /\ \A c \in S : c.kib \in Nat
    BY <1>4, FS_Subset DEF DripInv, CountedOK, CountOf
  <2>2. Tallies!Sums([T \in SUBSET S |-> Spent(T)], [c \in S |-> c.kib], S)
    BY <2>1, KibAddUp
  <2> DEFINE g == [T \in SUBSET S |-> Spent(T)]
  <2>3. g[S] = Spent(S)
    OBVIOUS
  <2> HIDE DEF g
  <2>4. g[S] \in Nat
    BY <2>2 DEF Tallies!Sums, g
  <2> QED BY <2>3, <2>4
<1>5. seen \subseteq drip
  BY DEF DayBefore
<1> HIDE DEF asked, seen, keys, check
<1>6. KindOK(q, Dripped(asked, seen, keys))
  <2> DEFINE k == Dripped(asked, seen, keys)
  <2>1. /\ DOMAIN k = KindFields /\ k.kib = asked.kib /\ k.step = STEP_DRIP
        /\ k.drip = [entries |-> [key \in keys |-> SpentOn(seen, key)], agent |-> Spent(seen),
                     kib |-> asked.kib, over |-> asked.kib]
    BY <1>1 DEF Dripped, KindFields
  <2>2. Spent(seen) \in Nat
    BY <1>4, <1>5
  <2>3. \A key : SpentOn(seen, key) \in Nat
    <3>1. \A key : {c \in seen : key \in c.keys} \subseteq drip
      BY <1>5
    <3> QED BY <1>4, <3>1 DEF SpentOn
  <2> HIDE DEF k
  <2>4. DripOK(k.drip) /\ k.drip.over = k.kib
    BY <1>1, <2>1, <2>2, <2>3 DEF DripOK
  <2> QED BY <1>1, <2>1, <2>4 DEF KindOK, k
<1> QED BY <1>2, <1>3, <1>6 DEF check, asked

(* Recording a judged request's hits keeps every row telling of all it was *)
(* hit by.                                                                 *)
LEMMA RecordedTells ==
    ASSUME NEW all, IsFiniteSet(all), \A j \in all : JudgedRight(j),
           NEW table, LeftRows(all, table), TellsAll(all, table), \A row \in table : RowOK(row),
           NEW new, JudgedRight(new),
           \A h \in new.hits : h = [rule |-> h.rule, item |-> h.item, detail |-> h.detail],
           \A h \in new.hits : h.rule = "uploads" /\ h.detail.form = "host" =>
                                  HitOf(new, h.detail)
    PROVE  LET rest == Recorded(table, new.hits)
           IN LeftRows(all \cup {new}, rest) /\ TellsAll(all \cup {new}, rest)
<1> DEFINE rest == Recorded(table, new.hits)
           now  == all \cup {new}
<1>1. /\ \A row \in rest :
            \/ row \in table /\ \A h \in new.hits : Item(h) # Item(row)
            \/ row \in new.hits /\ \A o \in table : Item(o) # Item(row)
            \/ \E h \in new.hits, o \in table :
                  /\ Item(o) = Item(h)
                  /\ row = [h EXCEPT !.detail = MergedDetail(o.detail, h.detail)]
      /\ \A h \in new.hits : \E row \in rest : Item(row) = Item(h)
      /\ \A o \in table : \E row \in rest : Item(row) = Item(o)
  BY RecordedRows
<1> HIDE DEF rest
<1>2. LeftRows(now, rest)
  <2>1. ASSUME NEW j \in now, NEW h \in j.hits PROVE \E row \in rest : Item(row) = Item(h)
    <3>1. CASE j \in all
      <4>1. PICK o \in table : Item(o) = Item(h)
        BY <3>1 DEF LeftRows
      <4> QED BY <1>1, <4>1
    <3>2. CASE j = new
      BY <1>1, <3>2
    <3> QED BY <3>1, <3>2
  <2> QED BY <2>1 DEF LeftRows
<1>3. ASSUME NEW row \in rest, row.rule = "uploads", row.detail.form = "host",
             ~ToolIn(now, row.item)
      PROVE  Told(row.detail, HitsIn(now, row))
  <2>0. ~ToolIn(all, row.item)
    BY <1>3 DEF ToolIn
  <2>1. CASE row \in table /\ \A h \in new.hits : Item(h) # Item(row)
    <3>1. HitsIn(now, row) = HitsIn(all, row)
      BY <2>1 DEF HitsIn, SameRow
    <3> QED BY <1>3, <2>0, <2>1, <3>1 DEF TellsAll
  <2>2. CASE row \in new.hits /\ \A o \in table : Item(o) # Item(row)
    <3>1. HitsIn(all, row) = {}
      BY <2>2 DEF HitsIn, SameRow, LeftRows
    <3>2. HitsIn(now, row) = {new}
      BY <1>3, <2>2, <3>1 DEF HitsIn, SameRow
    <3>3. HitOf(new, row.detail)
      BY <1>3, <2>2
    <3> QED BY <3>2, <3>3, FirstTells DEF JudgedRight
  <2>3. ASSUME NEW h \in new.hits, NEW o \in table, Item(o) = Item(h),
               row = [h EXCEPT !.detail = MergedDetail(o.detail, h.detail)]
        PROVE  Told(row.detail, HitsIn(now, row))
    <3>1. /\ row.rule = h.rule /\ row.item = h.item
          /\ row.detail = MergedDetail(o.detail, h.detail)
          /\ o.rule = h.rule /\ o.item = h.item
      BY <2>3 DEF Item
    <3>2. h.detail.form = "host"
      <4>1. CASE h.detail.form # "host"
        BY <1>3, <3>1, <4>1 DEF MergedDetail
      <4> QED BY <4>1
    <3>3. HitOf(new, h.detail)
      BY <1>3, <3>1, <3>2
    <3>4. HostRow(o.detail) /\ o.detail.form = "host"
      <4>1. o.detail.form # "tool_call"
        BY <1>3, <2>0, <3>1 DEF TellsAll
      <4> QED BY <1>3, <3>1, <4>1 DEF RowOK, HostRow
    <3>5. Told(o.detail, HitsIn(all, o))
      BY <1>3, <2>0, <3>1, <3>4 DEF TellsAll
    <3>6. \A g : SameRow(g, row) <=> SameRow(g, o)
      BY <1>3, <3>1, <3>4 DEF SameRow, Item
    <3>7. SameRow(h, row)
      BY <1>3, <3>1, <3>2 DEF SameRow, Item
    <3>8. HitsIn(now, row) = HitsIn(all, o) \cup {new}
      BY <3>6, <3>7 DEF HitsIn
    <3>9. IsFiniteSet(HitsIn(all, o)) /\ \A j \in HitsIn(all, o) : JudgedRight(j)
      <4>1. HitsIn(all, o) \subseteq all
        BY DEF HitsIn
      <4> QED BY <4>1, FS_Subset
    <3>10. Told(MergedDetail(o.detail, h.detail), HitsIn(all, o) \cup {new})
      BY <3>3, <3>5, <3>9, MergedTells DEF JudgedRight
    <3> QED BY <3>1, <3>8, <3>10
  <2> QED BY <1>1, <2>1, <2>2, <2>3
<1>4. ASSUME NEW row \in rest, row.rule = "uploads", row.detail.form = "tool_call"
      PROVE  ToolIn(now, row.item)
  <2>1. CASE row \in table
    BY <1>4, <2>1 DEF TellsAll, ToolIn
  <2>2. CASE row \in new.hits
    BY <1>4, <2>2 DEF ToolIn
  <2>3. ASSUME NEW h \in new.hits, NEW o \in table, Item(o) = Item(h),
               row = [h EXCEPT !.detail = MergedDetail(o.detail, h.detail)]
        PROVE  ToolIn(now, row.item)
    <3>1. h.detail.form = "tool_call" /\ row.item = h.item
      <4>1. /\ row.item = h.item /\ row.detail = MergedDetail(o.detail, h.detail)
        BY <1>1, <2>3
      <4> QED BY <1>4, <4>1 DEF MergedDetail
    <3> QED BY <3>1 DEF ToolIn
  <2> QED BY <1>1, <2>1, <2>2, <2>3
<1> QED BY <1>2, <1>3, <1>4 DEF TellsAll, rest

(* A request is judged.                                                    *)
LEMMA JudgeTells ==
    ASSUME DripInv, ToldInv, NEW q, FromShape(q), BodyOK(q.body), NEW clk, Judge(q, clk)
    PROVE  ToldInv'
<1> DEFINE check == DripCheck(Rules, q,
                       RequestBodyKind(q.body, q.host, Rules.overrides, q.specUploads), clk)
           read  == kindsOn /\ CarriesBody(q.body)
           kind  == IF read THEN {check.kind} ELSE {}
<1>0. PICK hits \in OnePerRow(EvaluateRequest(Rules, q, kind, kindsOn)) :
         /\ rows' = Recorded(rows, hits)
         /\ judged' = judged \cup {[request |-> q, version |-> active, kind |-> kind,
                                    when |-> Clamped(q.at, clk), late |-> clk # clock,
                                    hits |-> hits]}
  BY DEF Judge
<1> DEFINE new == [request |-> q, version |-> active, kind |-> kind,
                   when |-> Clamped(q.at, clk), late |-> clk # clock, hits |-> hits]
<1>1. rows' = Recorded(rows, hits) /\ judged' = judged \cup {new}
  BY <1>0
<1>2. new.request = q /\ new.kind = kind /\ new.hits = hits
  OBVIOUS
<1>3. kind = {} \/ \E k : kind = {k} /\ KindOK(q, k) /\ CarriesBody(q.body)
  BY KindJudged
<1>4. /\ kindsOn \in BOOLEAN /\ world \in Worlds
      /\ IsFiniteSet(judged) /\ \A row \in rows : RowOK(row)
  BY DEF DripInv, LifeInv, RequestsOK, RowsOK, CountedOK
<1>5. SizeOK(q.size)
  BY <1>4, ShapeAssumption DEF FromShape, SizeOK
<1> HIDE DEF kind, check
<1>6. \A h \in hits :
         /\ h = [rule |-> h.rule, item |-> h.item, detail |-> h.detail]
         /\ h.rule = "uploads" /\ h.detail.form = "host" =>
               /\ h.item = HostItem(q.host)
               /\ h.detail = HostDetail(Reasons(Rules, q.host, CarriesBody(q.body), kind, q.size, kindsOn),
                                        CarriesBody(q.body), kind, q.size)
  <2>1. hits \subseteq EvaluateRequest(Rules, q, kind, kindsOn)
    BY <1>0 DEF OnePerRow
  <2> QED BY <1>4, <2>1, Hits
<1> HIDE DEF new
<1>7. IsFiniteSet(kind) /\ CarriesBody(q.body) \in BOOLEAN
  BY <1>3, FS_EmptySet, FS_Singleton DEF CarriesBody
<1>8. \A reasons : HitOf(new, HostDetail(reasons, CarriesBody(q.body), kind, q.size))
  BY <1>2, <1>7 DEF HitOf, HostDetail, HostRow
<1>9. JudgedRight(new)
  BY <1>2, <1>3, <1>5 DEF JudgedRight, KindsRight
<1>10. \A h \in new.hits :
          /\ h = [rule |-> h.rule, item |-> h.item, detail |-> h.detail]
          /\ h.rule = "uploads" /\ h.detail.form = "host" => HitOf(new, h.detail)
  BY <1>2, <1>6, <1>8
<1>11. /\ LeftRows(judged \cup {new}, Recorded(rows, new.hits))
       /\ TellsAll(judged \cup {new}, Recorded(rows, new.hits))
  BY <1>4, <1>9, <1>10, RecordedTells DEF ToldInv
<1>12. \A j \in judged' : JudgedRight(j)
  BY <1>1, <1>9 DEF ToldInv
<1> QED BY <1>1, <1>2, <1>11, <1>12 DEF ToldInv

(* A step judges one request, or leaves the rows and the judged as they are*)
LEMMA JudgedOrNot ==
    ASSUME DripInv, [Next]_vars
    PROVE  \/ UNCHANGED <<rows, judged>>
           \/ \E q, clk : FromShape(q) /\ BodyOK(q.body) /\ Judge(q, clk)
<1> DEFINE Same == UNCHANGED <<rows, judged>>
           Judged == \E q, clk : FromShape(q) /\ BodyOK(q.body) /\ Judge(q, clk)
<1>1. ASSUME NEW shape \in world.shapes, NEW lag, Arrive(shape, lag) PROVE Same \/ Judged
  <2>1. FromShape(Captured(shape, lag))
    BY DEF FromShape, Captured
  <2>2. BodyOK(Captured(shape, lag).body)
    <3>1. world \in Worlds
      BY DEF DripInv, LifeInv, RequestsOK
    <3> QED BY <3>1, ShapeAssumption DEF BodyOK, Body, Captured
  <2>3. Same \/ Judge(Captured(shape, lag), clock)
    BY <1>1 DEF Arrive, checkVars
  <2> QED BY <2>1, <2>2, <2>3
<1>2. ASSUME NEW shape, NEW lag, ArriveHeld(shape, lag) PROVE Same
  BY <1>2 DEF ArriveHeld, checkVars
<1>3. ASSUME NEW h \in held, NEW denied \in BOOLEAN, Release(h, denied) PROVE Same \/ Judged
  <2>1. FromShape(h.request) /\ BodyOK(h.request.body)
    BY DEF DripInv, LifeInv, RequestsOK, IdsOK
  <2>2. Same \/ Judge(h.request, h.at)
    BY <1>3 DEF Release, checkVars
  <2> QED BY <2>1, <2>2
<1>4. ASSUME NEW edit, Adopt(edit) \/ Edit(edit) PROVE Same
  BY <1>4 DEF Adopt, Edit, Unchecked, Around, checkVars
<1>5. ASSUME NEW row, AllowRow(row) PROVE Same
  BY <1>5 DEF AllowRow, Unchecked, Around, checkVars
<1>6. ASSUME NEW chosen, AllowRows(chosen) \/ NarrowUploads(chosen) PROVE Same
  BY <1>6 DEF AllowRows, NarrowUploads, Unchecked, Around, checkVars
<1>7. ASSUME NEW offer, NEW allow \in BOOLEAN, ChooseDeclared(offer, allow) PROVE Same
  BY <1>7 DEF ChooseDeclared, Unchecked, Around, checkVars
<1>8. ASSUME NEW level, RequireContainment(level) PROVE Same
  BY <1>8 DEF RequireContainment, Unchecked, Around, checkVars
<1>9. ASSUME \/ \E host : DismissNarrow(host)
             \/ \E n : Switch(n)
             \/ TurnOff \/ Restart \/ Tick \/ UNCHANGED vars
             \/ \E asp : NewAsp(asp)
             \/ \E p : ImportPolicy(p)
      PROVE  Same
  BY <1>9 DEF DismissNarrow, Switch, TurnOff, Restart, Tick, NewAsp, ImportPolicy, Around,
              checkVars, vars
<1> HIDE DEF Same, Judged
<1>10. Same \/ Judged
  BY <1>1, <1>2, <1>3, <1>4, <1>5, <1>6, <1>7, <1>8, <1>9 DEF Next
<1> QED BY <1>10 DEF Same, Judged

(* What a request broke under a version that allows its row, it does not   *)
(* break when it is judged again under that version.                       *)
LEMMA ToldHidesNothing == DripInv /\ ToldInv => RowsHideNothing
<1> SUFFICES ASSUME DripInv, ToldInv,
                    NEW n \in DOMAIN versions, NEW row \in rows,
                    ItemAllowed(versions[n], row, kindsOn), ~SharedRow(row),
                    NEW j \in HitsOf(row),
                    NEW v \in EvaluateRequest(versions[n], j.request,
                                              Again(j, versions[n], HitsOf(row)), kindsOn),
                    SameRow(v, row)
             PROVE  FALSE
  BY DEF RowsHideNothing
<1> DEFINE r      == versions[n]
           q      == j.request
           others == HitsOf(row)
           again  == Again(j, r, others)
<1>1. /\ row.rule = v.rule /\ row.item = v.item /\ v.detail.form = row.detail.form
      /\ v.detail.form = "mcp_server" => v.detail.server = row.detail.server
  BY DEF SameRow, Item
<1>2. /\ kindsOn \in BOOLEAN /\ Budgeted(r)
      /\ others = HitsIn(judged, row) /\ others \subseteq judged /\ IsFiniteSet(others)
      /\ \A o \in others : JudgedRight(o)
  <2>1. others = HitsIn(judged, row) /\ others \subseteq judged
    BY DEF HitsOf, HitsIn
  <2>2. kindsOn \in BOOLEAN /\ Budgeted(r) /\ IsFiniteSet(judged)
    BY DEF DripInv, LifeInv, RequestsOK, BudgetsOK, CountedOK
  <2> HIDE DEF others
  <2> QED BY <2>1, <2>2, FS_Subset DEF ToldInv
<1> HIDE DEF r, others, again
<1>3. \/ /\ v.rule = "uploads" /\ v.detail.form = "host" /\ v.item = HostItem(q.host)
         /\ Reasons(r, q.host, CarriesBody(q.body), again, q.size, kindsOn) # {}
      \/ /\ v.rule = "uploads" /\ v.detail.form = "tool_call"
         /\ \E t \in r.deniedTools : v.item = ToolText[t]
      \/ /\ v.rule = "out_of_spec_calls" /\ v.detail.form = "host" /\ v.item = HostItem(q.host)
         /\ ~HostAllowed(q.host, r.callHosts)
      \/ v.detail.form = "mcp_server" /\ v.detail.server \notin (r.servers \ {NoServer})
  BY DEF EvaluateRequest, Violation, HostDetail, r, again, others
<1>4. ItemAllowed(r, row, kindsOn)
  BY DEF r
<1>5. CASE v.detail.form = "tool_call" /\ \E t \in r.deniedTools : v.item = ToolText[t]
  BY <1>1, <1>4, <1>5 DEF ItemAllowed
<1>6. CASE v.detail.form = "mcp_server" /\ v.detail.server \notin (r.servers \ {NoServer})
  BY <1>1, <1>4, <1>6 DEF ItemAllowed
<1>7. ASSUME v.detail.form = "host", v.item = HostItem(q.host)
      PROVE  row.item # UNKNOWN_HOST /\ q.host # NoHost /\ row.item = q.host
  <2>1. row.item # UNKNOWN_HOST
    BY <1>1, <1>4, <1>7 DEF ItemAllowed
  <2> QED BY <1>1, <1>7, <2>1 DEF HostItem
<1>8. CASE /\ v.rule = "out_of_spec_calls" /\ v.detail.form = "host" /\ v.item = HostItem(q.host)
           /\ ~HostAllowed(q.host, r.callHosts)
  BY <1>1, <1>4, <1>7, <1>8 DEF ItemAllowed
<1>9. CASE /\ v.rule = "uploads" /\ v.detail.form = "host" /\ v.item = HostItem(q.host)
           /\ Reasons(r, q.host, CarriesBody(q.body), again, q.size, kindsOn) # {}
  <2>1. row.item # UNKNOWN_HOST /\ q.host # NoHost /\ row.item = q.host
    BY <1>7, <1>9
  <2> DEFINE d == row.detail
             host == q.host
  <2>2. /\ \/ ~d.carries
           \/ ~RowUploads(d, host, r, kindsOn)
           \/ HostAllowed(host, UploadHosts(r, kindsOn))
        /\ ~OverCap(r, host, d.size)
        /\ ~(d.carries /\ d.size = {} /\ CapsOver(r, host) # {})
    BY <1>1, <1>4, <1>9, <2>1 DEF ItemAllowed
  <2>3. Told(d, others)
    <3>1. ~ToolIn(judged, row.item)
      BY <1>1, <1>9 DEF SharedRow, ToolNamed, ToolIn
    <3> QED BY <1>1, <1>2, <1>9, <3>1 DEF ToldInv, TellsAll
  <2>4. j \in others
    BY DEF others
  <2>5. Reasons(r, host, CarriesBody(j.request.body), Again(j, r, others),
                j.request.size, kindsOn) = {}
    <3> HIDE DEF d
    <3> QED BY <1>2, <2>1, <2>2, <2>3, <2>4, ReasonsAllowed DEF JudgedRight
  <2> QED BY <1>9, <2>5 DEF again
<1> QED BY <1>3, <1>5, <1>6, <1>8, <1>9

(* Every row tells of all it was hit by, whatever was judged since.        *)
THEOREM RowsTell == Spec => []ToldInv
<1>1. Init => ToldInv
  BY DEF Init, ToldInv, LeftRows, TellsAll
<1>2. DripInv /\ ToldInv /\ [Next]_vars => ToldInv'
  <2> SUFFICES ASSUME DripInv, ToldInv, [Next]_vars PROVE ToldInv'
    OBVIOUS
  <2>1. CASE UNCHANGED <<rows, judged>>
    BY <2>1 DEF ToldInv
  <2>2. ASSUME NEW q, NEW clk, FromShape(q), BodyOK(q.body), Judge(q, clk) PROVE ToldInv'
    BY <2>2, JudgeTells
  <2> QED BY <2>1, <2>2, JudgedOrNot
<1> QED BY <1>1, <1>2, DripInvariant, PTL DEF Spec

(* A row some version allows hides no request: judged again under that     *)
(* version, from what the row kept, none it was hit by breaks it           *)
(* (item_allowed, merge_row_bodies).                                       *)
THEOREM NoRowHides == Spec => []RowsHideNothing
<1> QED BY ToldHidesNothing, RowsTell, DripInvariant, PTL
-----------------------------------------------------------------------------
(* The window drip-checked in order (window_body_kinds) *)

(* What requests have, in any window.                                      *)
Windowed(R) ==
    /\ IsFiniteSet(R)
    /\ \A q \in R : BodyOK(q.body) /\ q.at \in Int /\ q.id \in Nat
    /\ \A p, q \in R : p.id = q.id => p = q

(* Of two requests, one comes before the other.                            *)
LEMMA BeforeOrders ==
    ASSUME NEW R, Windowed(R)
    PROVE  /\ \A a, b \in R : a # b => Before(a, b) \/ Before(b, a)
           /\ \A a, b \in R : Before(a, b) => a # b /\ ~Before(b, a)
           /\ \A a, b, c \in R : Before(a, b) /\ Before(b, c) => Before(a, c)
<1>1. \A q \in R : q.at \in Int /\ q.id \in Nat
  BY DEF Windowed
<1>2. \A p, q \in R : p.id = q.id => p = q
  BY DEF Windowed
<1>3. ASSUME NEW a \in R, NEW b \in R, a # b PROVE Before(a, b) \/ Before(b, a)
  BY <1>1, <1>2, <1>3 DEF Before
<1>4. ASSUME NEW a \in R, NEW b \in R, Before(a, b) PROVE a # b /\ ~Before(b, a)
  BY <1>1, <1>4 DEF Before
<1>5. ASSUME NEW a \in R, NEW b \in R, NEW c \in R, Before(a, b), Before(b, c)
      PROVE  Before(a, c)
  BY <1>1, <1>5 DEF Before
<1> QED BY <1>3, <1>4, <1>5

(* One of finitely many requests comes last.                               *)
LEMMA ComesLast ==
    ASSUME NEW R, Windowed(R)
    PROVE  \A s \in SUBSET R : s # {} => \E m \in s : \A x \in s \ {m} : Before(x, m)
<1> DEFINE P == {s \in SUBSET R : s # {} => \E m \in s : \A x \in s \ {m} : Before(x, m)}
<1>1. ASSUME NEW s \in SUBSET R, \A x \in s : s \ {x} \in P PROVE s \in P
  <2> SUFFICES ASSUME s # {} PROVE \E m \in s : \A x \in s \ {m} : Before(x, m)
    OBVIOUS
  <2>1. PICK y \in s : TRUE
    OBVIOUS
  <2>2. CASE s \ {y} = {}
    BY <2>2
  <2>3. CASE s \ {y} # {}
    <3>1. s \ {y} \in P
      BY <1>1
    <3>2. PICK m \in s \ {y} : \A x \in (s \ {y}) \ {m} : Before(x, m)
      BY <2>3, <3>1
    <3>3. CASE Before(y, m)
      BY <3>2, <3>3
    <3>4. CASE Before(m, y)
      <4>1. \A x \in s \ {y} : Before(x, y)
        BY <3>2, <3>4, BeforeOrders
      <4> QED BY <4>1
    <3> QED BY <3>2, <3>3, <3>4, BeforeOrders
  <2> QED BY <2>2, <2>3
<1>2. IsFiniteSet(R)
  BY DEF Windowed
<1>3. Bodies!IsFiniteSet(R)
  BY <1>2 DEF IsFiniteSet, Bodies!IsFiniteSet
<1> HIDE DEF P
<1>4. SUBSET R \subseteq P
  BY <1>1, <1>3, Bodies!SubsetInduction
<1> QED BY <1>4 DEF P

(* Each place of the order has a request.                                  *)
LEMMA EveryPlace ==
    ASSUME NEW R, Windowed(R)
    PROVE  /\ Cardinality(R) \in Nat
           /\ \A n \in 1..Cardinality(R) :
                 \E q \in R : Cardinality({p \in R : Before(p, q)}) = n - 1
<1> DEFINE Earlier(s, q) == {p \in s : Before(p, q)}
           Filled(s) == \A n \in 1..Cardinality(s) : \E q \in s : Cardinality(Earlier(s, q)) = n - 1
           P == {s \in SUBSET R : Filled(s)}
<1>1. \A s \in SUBSET R : IsFiniteSet(s) /\ Cardinality(s) \in Nat
  BY FS_Subset, FS_CardinalityType DEF Windowed
<1>2. ASSUME NEW s \in SUBSET R, \A x \in s : s \ {x} \in P PROVE s \in P
  <2> SUFFICES ASSUME NEW n \in 1..Cardinality(s)
               PROVE  \E q \in s : Cardinality(Earlier(s, q)) = n - 1
    OBVIOUS
  <2>1. s # {}
    BY FS_EmptySet
  <2>2. PICK m \in s : \A x \in s \ {m} : Before(x, m)
    BY <2>1, ComesLast
  <2>3. Cardinality(s \ {m}) = Cardinality(s) - 1 /\ Cardinality(s) \in Nat
    BY <1>1, FS_RemoveElement
  <2>4. CASE n = Cardinality(s)
    <3>1. Earlier(s, m) = s \ {m}
      BY <2>2, BeforeOrders
    <3> QED BY <2>3, <2>4, <3>1
  <2>5. CASE n # Cardinality(s)
    <3>0. s \ {m} \in P
      BY <1>2
    <3> DEFINE t == s \ {m}
    <3>1. n \in 1..Cardinality(t)
      BY <2>3, <2>5
    <3>4. Filled(t)
      BY <3>0
    <3>2. PICK q \in s \ {m} : Cardinality(Earlier(s \ {m}, q)) = n - 1
      BY <3>1, <3>4
    <3>3. Earlier(s \ {m}, q) = Earlier(s, q)
      BY <2>2, BeforeOrders
    <3> QED BY <3>2, <3>3
  <2> QED BY <2>4, <2>5
<1>3. Bodies!IsFiniteSet(R)
  BY <1>1 DEF IsFiniteSet, Bodies!IsFiniteSet
<1>4. SUBSET R \subseteq P
  <2> HIDE DEF P
  <2> QED BY <1>2, <1>3, Bodies!SubsetInduction
<1>5. Filled(R)
  BY <1>4
<1> QED BY <1>1, <1>5

(* A window in order lists its requests, oldest first.                     *)
LEMMA OrderLists ==
    ASSUME NEW R, Windowed(R)
    PROVE  /\ Cardinality(R) \in Nat /\ DOMAIN InOrder(R) = 1..Cardinality(R)
           /\ \A n \in 1..Cardinality(R) : InOrder(R)[n] \in R
<1> DEFINE At(n) == CHOOSE q \in R : Cardinality({p \in R : Before(p, q)}) = n - 1
<1>1. \A n \in 1..Cardinality(R) : At(n) \in R
  BY EveryPlace
<1>2. InOrder(R) = [n \in 1..Cardinality(R) |-> At(n)]
  BY DEF InOrder
<1> HIDE DEF At
<1> QED BY <1>1, <1>2, EveryPlace
-----------------------------------------------------------------------------
Observed(view, q, state) == ObserveNext(view, state, q)

Observing == INSTANCE Folding WITH Op <- Observed

(* A window as it is classified, and the budgets it is checked against.    *)
Viewed(view, R) ==
    /\ view.agentBudget \in Nat
    /\ \A key \in DOMAIN view.budgets : view.budgets[key] \in Nat
    /\ DOMAIN view.kinds = R
    /\ \A q \in R : view.kinds[q] # {} =>
          \E k : view.kinds[q] = {k} /\ DOMAIN k = KindFields /\ k.kib \in Nat

(* A body that went past a budget does not fit it.                         *)
Over(view, k) == k.step = STEP_DRIP /\ ~DripFits(k.drip, view)

(* The drip check over a window, between two of its requests.              *)
Checked(view, R, state) ==
    /\ IsFiniteSet(state.budget.seen) /\ \A c \in state.budget.seen : c.kib \in Nat
    /\ DOMAIN state.kinds = R
    /\ \A q \in R : \/ state.kinds[q] = view.kinds[q]
                     \/ /\ view.kinds[q] # {} /\ q.host # NoHost
                        /\ \E k : state.kinds[q] = {k} /\ Over(view, k)

(* Bytes past a budget never fit it.                                       *)
LEMMA DripsOver ==
    ASSUME NEW view, view.agentBudget \in Nat,
           \A key \in DOMAIN view.budgets : view.budgets[key] \in Nat,
           NEW c, IsFiniteSet(c), \A b \in c : b.kib \in Nat,
           NEW kind, DOMAIN kind = KindFields, kind.kib \in Nat, NEW keys,
           OverBudget(c, kind.kib, keys, view.budgets, view.agentBudget)
    PROVE  Over(view, Dripped(kind, c, keys))
<1> DEFINE k == Dripped(kind, c, keys)
<1>1. /\ k.step = STEP_DRIP
      /\ k.drip = [entries |-> [key \in keys |-> SpentOn(c, key)], agent |-> Spent(c),
                   kib |-> kind.kib, over |-> kind.kib]
  BY DEF Dripped, KindFields
<1>2. \A S : S \subseteq c => Spent(S) \in Nat
  <2> SUFFICES ASSUME NEW S, S \subseteq c PROVE Spent(S) \in Nat
    OBVIOUS
  <2>1. IsFiniteSet(S) /\ \A b \in S : b.kib \in Nat
    BY FS_Subset
  <2>2. Tallies!Sums([T \in SUBSET S |-> Spent(T)], [b \in S |-> b.kib], S)
    BY <2>1, KibAddUp
  <2> DEFINE g == [T \in SUBSET S |-> Spent(T)]
  <2>3. g[S] = Spent(S)
    OBVIOUS
  <2> HIDE DEF g
  <2>4. g[S] \in Nat
    BY <2>2 DEF Tallies!Sums, g
  <2> QED BY <2>3, <2>4
<1>3. Spent(c) \in Nat /\ \A key : SpentOn(c, key) \in Nat
  <2>1. \A key : {b \in c : key \in b.keys} \subseteq c
    OBVIOUS
  <2> QED BY <1>2, <2>1 DEF SpentOn
<1>4. \A key : EntryBudget(view.budgets, key) \in Nat
  BY BudgetAssumption DEF EntryBudget
<1> HIDE DEF k
<1>5. k.drip.agent = Spent(c) /\ k.drip.over = kind.kib
      /\ DOMAIN k.drip.entries = keys /\ \A key \in keys : k.drip.entries[key] = SpentOn(c, key)
  BY <1>1
<1>6. ASSUME Spent(c) + kind.kib > view.agentBudget PROVE Over(view, k)
  BY <1>1, <1>3, <1>5, <1>6 DEF Over, DripFits
<1>7. ASSUME NEW key \in keys, SpentOn(c, key) + kind.kib > EntryBudget(view.budgets, key)
      PROVE  Over(view, k)
  BY <1>1, <1>3, <1>4, <1>5, <1>7 DEF Over, DripFits
<1> QED BY <1>6, <1>7 DEF OverBudget, k

(* One request more.                                                       *)
LEMMA OneMoreChecked ==
    ASSUME NEW view, NEW R, Viewed(view, R), NEW state, Checked(view, R, state), NEW q \in R
    PROVE  Checked(view, R, ObserveNext(view, state, q))
<1>1. CASE view.kinds[q] = {} \/ q.host = NoHost
  BY <1>1 DEF ObserveNext
<1>2. CASE view.kinds[q] # {} /\ q.host # NoHost
  <2>1. PICK k : view.kinds[q] = {k} /\ DOMAIN k = KindFields /\ k.kib \in Nat
    BY <1>2 DEF Viewed
  <2> DEFINE keys   == DripKeys(q.host, view.callHosts)
             latest == Max({state.budget.latest, q.at})
             old    == {c \in state.budget.seen : c.at + Day > latest}
             seen   == Observe(state.budget, k, keys, q.at, view.budgets, view.agentBudget)
             new    == [n |-> Cardinality(old), keys |-> keys, at |-> latest, kib |-> k.kib]
  <2>2. (CHOOSE x \in view.kinds[q] : TRUE) = k
    BY <2>1
  <2>3. ObserveNext(view, state, q)
          = [budget |-> seen.budget, kinds |-> [state.kinds EXCEPT ![q] = {seen.kind}]]
    BY <1>2, <2>2 DEF ObserveNext
  <2>4. /\ seen.budget.seen = old \/ seen.budget.seen = old \cup {new}
        /\ \/ seen.kind = k
           \/ /\ OverBudget(old, k.kib, keys, view.budgets, view.agentBudget)
              /\ seen.kind = Dripped(k, old, keys)
    BY DEF Observe
  <2>5. IsFiniteSet(old) /\ \A c \in old : c.kib \in Nat
    BY FS_Subset DEF Checked
  <2>6. new.kib = k.kib
    OBVIOUS
  <2> HIDE DEF keys, latest, old, seen, new
  <2>7. IsFiniteSet(seen.budget.seen) /\ \A c \in seen.budget.seen : c.kib \in Nat
    <3>1. IsFiniteSet(old \cup {new})
      BY <2>5, FS_AddElement
    <3> QED BY <2>1, <2>4, <2>5, <2>6, <3>1
  <2>8. seen.kind = k \/ Over(view, seen.kind)
    BY <2>1, <2>4, <2>5, DripsOver DEF Viewed
  <2> DEFINE next == ObserveNext(view, state, q)
  <2>9. /\ next.budget = seen.budget /\ DOMAIN next.kinds = R /\ next.kinds[q] = {seen.kind}
        /\ \A p \in R : p # q => next.kinds[p] = state.kinds[p]
    BY <2>3 DEF Checked
  <2> HIDE DEF next
  <2>10. ASSUME NEW p \in R
         PROVE  \/ next.kinds[p] = view.kinds[p]
                \/ /\ view.kinds[p] # {} /\ p.host # NoHost
                   /\ \E x : next.kinds[p] = {x} /\ Over(view, x)
    <3>1. CASE p = q
      BY <1>2, <2>1, <2>8, <2>9, <3>1
    <3>2. CASE p # q
      BY <2>9, <3>2 DEF Checked
    <3> QED BY <3>1, <3>2
  <2>11. Checked(view, R, next)
    BY <2>7, <2>9, <2>10 DEF Checked
  <2> QED BY <2>11 DEF next
<1> QED BY <1>1, <1>2

AskedKinds(R, overrides) ==
    [q \in R |-> IF CarriesBody(q.body)
                 THEN {RequestBodyKind(q.body, q.host, overrides, q.specUploads)} ELSE {}]

(* Over a whole window, each body's kind is what was asked of it, or it    *)
(* went past a budget.                                                     *)
LEMMA WindowChecked ==
    ASSUME NEW R, Windowed(R), NEW overrides, NEW calls, NEW budgets, NEW agent \in Nat,
           \A key \in DOMAIN budgets : budgets[key] \in Nat,
           NEW view, view = [kinds |-> AskedKinds(R, overrides), callHosts |-> calls,
                             budgets |-> budgets, agentBudget |-> agent],
           NEW kinds, kinds = WindowBodyKinds(R, overrides, calls, budgets, agent)
    PROVE  \A q \in R : \/ kinds[q] = view.kinds[q]
                        \/ /\ view.kinds[q] # {} /\ q.host # NoHost
                           /\ \E k : kinds[q] = {k} /\ Over(view, k)
<1> DEFINE seq   == InOrder(R)
           N     == Cardinality(R)
           first == [budget |-> [seen |-> {}, latest |-> 0], kinds |-> view.kinds]
<1>1. N \in Nat /\ DOMAIN seq = 1..N /\ \A n \in 1..N : seq[n] \in R
  BY OrderLists
<1>2. kinds = Observing!OfSeq(view, first, seq).kinds
  BY DEF WindowBodyKinds, AskedKinds, Observing!OfSeq, Observed, Observing!FoldLeft, FoldLeft,
         MapThenFoldSet, Observing!MapThenFoldSet, Max, Observing!Max
<1>3. Viewed(view, R)
  <2>1. view.agentBudget = agent /\ view.budgets = budgets /\ view.kinds = AskedKinds(R, overrides)
    OBVIOUS
  <2>2. ASSUME NEW q \in R, view.kinds[q] # {}
        PROVE  \E k : view.kinds[q] = {k} /\ DOMAIN k = KindFields /\ k.kib \in Nat
    <3> DEFINE k == RequestBodyKind(q.body, q.host, overrides, q.specUploads)
    <3>1. CarriesBody(q.body) /\ view.kinds[q] = {k}
      BY <2>1, <2>2 DEF AskedKinds
    <3>2. k.kib \in Nat
      BY <3>1, KindBytes DEF Windowed
    <3>3. DOMAIN k = KindFields
      BY DEF RequestBodyKind, Classify, Decided, KindFields
    <3> QED BY <3>1, <3>2, <3>3
  <2> QED BY <2>1, <2>2 DEF Viewed, AskedKinds
<1>4. Checked(view, R, first)
  BY <1>3, FS_EmptySet DEF Checked, Viewed
<1> HIDE DEF seq, N, first
<1>5. PICK a : /\ Observing!OfSeq(view, first, seq) = a[N] /\ a[0] = first
               /\ \A n \in 1..N : a[n] = Observed(view, seq[n], a[n - 1])
  <2>1. Observing!Folded(view, first, seq, N)
    BY <1>1, Observing!SeqFold
  <2> QED BY <2>1 DEF Observing!Folded
<1> DEFINE S == {n \in Nat : Checked(view, R, a[n])}
<1>6. 0 \in S
  BY <1>4, <1>5
<1>7. ASSUME NEW n \in 1..N, n - 1 \in S PROVE n \in S
  BY <1>1, <1>3, <1>5, <1>7, OneMoreChecked DEF Observed
<1> HIDE DEF S
<1>8. N \in S
  BY <1>1, <1>6, <1>7, Observing!StepsTo
<1> QED BY <1>2, <1>5, <1>8 DEF S, Checked
-----------------------------------------------------------------------------
(* What the baseline would break under the guardrail proposed *)

(* A body's kind, as the proposal reads it: none, one asked of it and not  *)
(* the user's answer, or one that went past its budgets.                   *)
ReadAs(r, q, kind, on) ==
    \/ kind = {} /\ (on => ~CarriesBody(q.body))
    \/ /\ on /\ CarriesBody(q.body)
       /\ \E k : kind = {k} /\ k.step \notin {STEP_DRIP, STEP_OVERRIDE}
    \/ /\ on /\ CarriesBody(q.body) /\ q.host # NoHost
       /\ \E k : kind = {k} /\ k.step = STEP_DRIP /\ BodyCounts(k, q.host, r)

(* The rules as proposed, of what requests are judged by.                  *)
AsProposed(r) == /\ r.caps = <<>> /\ r.overrides = {} /\ r.budgets = <<>> /\ r.deniedTools = {}
                 /\ r.agentBudget = AGENT_BUDGET

(* The drip check leaves the proposal nothing else to read.                *)
LEMMA ProposalReads ==
    ASSUME NEW R, Windowed(R), NEW on \in BOOLEAN, NEW from, NEW pol, NEW r, AsProposed(r),
           NEW kinds, kinds = ProposalKinds(from, R, pol, on)
    PROVE  \A q \in R : ReadAs(r, q, kinds[q], on)
<1>1. CASE ~on
  BY <1>1 DEF ProposalKinds, ReadAs
<1>2. CASE on
  <2> DEFINE calls == DeclaredHosts(from) \cup (IF Enforced(from) THEN SeedHosts(pol) ELSE {})
             view  == [kinds |-> AskedKinds(R, {}), callHosts |-> calls,
                       budgets |-> <<>>, agentBudget |-> AGENT_BUDGET]
  <2>1. kinds = WindowBodyKinds(R, {}, calls, <<>>, AGENT_BUDGET)
    BY <1>2 DEF ProposalKinds
  <2>2. AGENT_BUDGET \in Nat /\ \A key \in DOMAIN <<>> : <<>>[key] \in Nat
    BY BudgetAssumption
  <2> HIDE DEF calls
  <2>3. \A q \in R : \/ kinds[q] = view.kinds[q]
                     \/ /\ view.kinds[q] # {} /\ q.host # NoHost
                        /\ \E k : kinds[q] = {k} /\ Over(view, k)
    BY <2>1, <2>2, WindowChecked
  <2> SUFFICES ASSUME NEW q \in R PROVE ReadAs(r, q, kinds[q], on)
    OBVIOUS
  <2> DEFINE asked == RequestBodyKind(q.body, q.host, {}, q.specUploads)
  <2>4. view.kinds[q] = IF CarriesBody(q.body) THEN {asked} ELSE {}
    BY DEF AskedKinds
  <2>5. asked.step \notin {STEP_DRIP, STEP_OVERRIDE}
    <3>1. \A m, t : Overrides({}, q.host, m, t) = {}
      BY DEF Overrides
    <3> QED BY <3>1 DEF RequestBodyKind, Classify, Decided, STEP_NOT_REST, STEP_HARD,
                        STEP_OVERRIDE, STEP_SPEC, STEP_SHAPE, STEP_OTHER, STEP_DRIP
  <2>6. \A k : Over(view, k) => k.step = STEP_DRIP /\ BodyCounts(k, q.host, r)
    BY DEF Over, BodyCounts, DripFits, AsProposed
  <2> HIDE DEF view, asked
  <2>7. CASE kinds[q] = view.kinds[q]
    BY <1>2, <2>4, <2>5, <2>7 DEF ReadAs
  <2>8. CASE view.kinds[q] # {} /\ q.host # NoHost /\ \E k : kinds[q] = {k} /\ Over(view, k)
    BY <1>2, <2>4, <2>6, <2>8 DEF ReadAs
  <2> QED BY <2>3, <2>7, <2>8
<1> QED BY <1>1, <1>2

(* Every path written in the baseline is one the proposal saves.           *)
LEMMA FilesSeeded ==
    ASSUME NEW from, \A f \in from.files.items : f.path.sqlite => f.path.kind = "(none)",
           from.files.status \in {"ANSWERED", "PARTIAL"}
    PROVE  FileViolations(from, SeedFiles(from)) = {}
<1> SUFFICES ASSUME NEW e \in from.files.items, e.write
             PROVE  SavedFileAllowed(e.path, SeedFiles(from))
  BY DEF FileViolations
<1>1. CASE SavedFileAllowed(e.path, {BytecodeCacheEntry})
  <2>1. BytecodeCacheEntry \in SeedFiles(from)
    BY DEF SeedFiles
  <2> QED BY <1>1, <2>1 DEF SavedFileAllowed
<1>2. CASE ~SavedFileAllowed(e.path, {BytecodeCacheEntry})
  <2> DEFINE entry == SavedFileEntry(e.path)
  <2>1. entry \in SeedFiles(from)
    BY <1>2 DEF SeedFiles
  <2>2. \/ entry.by = "literal" /\ entry.of = e.path.text /\ entry.kinds = {}
        \/ entry.by = "glob" /\ entry.of = e.path.folded
           /\ (entry.kinds = {} \/ e.path.kind \in entry.kinds)
    BY DEF SavedFileEntry
  <2> HIDE DEF entry
  <2> QED BY <2>1, <2>2 DEF SavedFileAllowed
<1> QED BY <1>1, <1>2

(* What an attribute's rule was broken by, evidence or none.               *)
LEMMA AttributeBreaks ==
    ASSUME NEW attribute, NEW violations, NEW stale, NEW complete
    PROVE  AttributeRule(attribute, violations, stale, complete).violations
             = IF attribute.status \in {"ANSWERED", "PARTIAL"} THEN violations ELSE {}
BY DEF AttributeRule, Blind, NotVerified, Held

(* Of the baseline's ASP the proposal breaks only at its listeners: what   *)
(* it wrote is saved, and containment is required only where it was seen.  *)
LEMMA AspBreaks ==
    ASSUME NEW from, ~MultiAgent(from),
           \A f \in from.files.items : f.path.sqlite => f.path.kind = "(none)",
           NEW r, r.files = SeedFiles(from),
           r.require = IF Contained(from) THEN {"contained"} ELSE {}
    PROVE  AspViolations(r, from)
             = IF from.listeners.status \in {"ANSWERED", "PARTIAL"}
               THEN ListenerViolations(from, r.ports) ELSE {}
<1> DEFINE names  == AspRuleNames(r)
           all    == EvaluateAsp(r, from, FALSE)
           broken == IF from.listeners.status \in {"ANSWERED", "PARTIAL"}
                     THEN ListenerViolations(from, r.ports) ELSE {}
<1>1. AspViolations(r, from) = UNION {all[rule].violations : rule \in names}
  BY DEF AspViolations
<1>2. names \subseteq {"service_ports", "saved_files", "egress_containment"}
      /\ "service_ports" \in names /\ ("egress_containment" \in names => Contained(from))
  BY DEF AspRuleNames
<1>3. "service_ports" \in names => all["service_ports"].violations = broken
  BY AttributeBreaks DEF EvaluateAsp
<1>4. "saved_files" \in names => all["saved_files"].violations = {}
  <2> SUFFICES ASSUME "saved_files" \in names PROVE all["saved_files"].violations = {}
    OBVIOUS
  <2> DEFINE found == FileViolations(from, r.files)
  <2>1. all["saved_files"] = AttributeRule(from.files, found, FALSE, from.files.readsOnly)
    BY DEF EvaluateAsp
  <2>2. from.files.status \in {"ANSWERED", "PARTIAL"} => found = {}
    BY FilesSeeded
  <2> HIDE DEF found
  <2>3. AttributeRule(from.files, found, FALSE, from.files.readsOnly).violations = {}
    BY <2>2 DEF AttributeRule, Blind, NotVerified, Held
  <2> QED BY <2>1, <2>3
<1>5. "egress_containment" \in names => all["egress_containment"].violations = {}
  <2> SUFFICES ASSUME "egress_containment" \in names
               PROVE  all["egress_containment"].violations = {}
    OBVIOUS
  <2>1. Contained(from) /\ (CHOOSE q \in r.require : TRUE) = "contained"
    BY <1>2
  <2>2. EgressRule(from, "contained", FALSE).violations = {}
    BY <2>1 DEF Contained, EgressRule, EgressMeets, NotVerified, Held, Blind
  <2>3. all["egress_containment"] = EgressRule(from, CHOOSE q \in r.require : TRUE, FALSE)
    BY DEF EvaluateAsp
  <2> QED BY <2>1, <2>2, <2>3
<1> HIDE DEF names, all, broken
<1>6. \A rule \in names : all[rule].violations = IF rule = "service_ports" THEN broken ELSE {}
  BY <1>2, <1>3, <1>4, <1>5
<1> QED BY <1>1, <1>2, <1>6 DEF broken

(* A list's entry matches what is written like it.                         *)
LEMMA MatchesItself ==
    ASSUME NEW h \in Seq(Label), h # NoHost
    PROVE  HostMatches(h, h)
<1>1. CASE ~Wild(h)
  BY <1>1 DEF HostMatches
<1>2. CASE Wild(h)
  <2> DEFINE t == Tail(h)
  <2>1. h # <<>> /\ Len(h) \in Nat /\ Len(h) >= 1
    BY DEF NoHost
  <2>2. t \in Seq(Label) /\ Len(t) = Len(h) - 1 /\ \A i \in 1..Len(t) : t[i] = h[i + 1]
    BY <2>1
  <2> HIDE DEF t
  <2>3. /\ DOMAIN Reverse(t) = 1..Len(t) /\ DOMAIN Reverse(h) = 1..Len(h)
        /\ \A i \in 1..Len(t) : Reverse(t)[i] = t[Len(t) - i + 1]
        /\ \A i \in 1..Len(h) : Reverse(h)[i] = h[Len(h) - i + 1]
    BY DEF Reverse
  <2>4. \A i \in 1..Len(t) : Reverse(t)[i] = Reverse(h)[i]
    <3> SUFFICES ASSUME NEW i \in 1..Len(t) PROVE Reverse(t)[i] = Reverse(h)[i]
      OBVIOUS
    <3>1. Len(t) - i + 1 \in 1..Len(t) /\ (Len(t) - i + 1) + 1 = Len(h) - i + 1 /\ i \in 1..Len(h)
      BY <2>1, <2>2
    <3> QED BY <2>2, <2>3, <3>1
  <2>5. Len(Reverse(t)) = Len(t) /\ Len(Reverse(h)) = Len(h)
    BY <2>1, <2>2, <2>3
  <2>6. SubSeq(Reverse(t), 1, Len(t)) = [i \in 1..Len(t) |-> Reverse(t)[i]]
        /\ SubSeq(Reverse(h), 1, Len(t)) = [i \in 1..Len(t) |-> Reverse(h)[i]]
    BY <2>1, <2>2
  <2>7. SubSeq(Reverse(t), 1, Len(t)) = SubSeq(Reverse(h), 1, Len(t))
    BY <2>4, <2>6
  <2>8. IsStrictSuffix(t, h)
    BY <2>1, <2>2, <2>5, <2>7 DEF IsStrictSuffix, IsSuffix, IsPrefix
  <2> QED BY <1>2, <2>8 DEF HostMatches, t
<1> QED BY <1>1, <1>2

(* A body sent as an upload to a host that isn't listed for it.            *)
Unlisted(r, q, kind, on) ==
    /\ CarriesBody(q.body)
    /\ kind = {} \/ q.host = NoHost \/ \E k \in kind : BodyCounts(k, q.host, r)
    /\ ~HostAllowed(q.host, UploadHosts(r, on))

UnlistedHit(q, kind) ==
    Violation("uploads", HostItem(q.host),
              HostDetail({"body_to_unlisted_host"}, CarriesBody(q.body), kind, q.size))

(* Of the rules as proposed, a request breaks the calls', or that.         *)
LEMMA RequestBreaks ==
    ASSUME NEW r, AsProposed(r), NEW q, NEW kind, NEW on
    PROVE  \A v : (v \in EvaluateRequest(r, q, kind, on) /\ v.rule # "out_of_spec_calls")
                    <=> (Unlisted(r, q, kind, on) /\ v = UnlistedHit(q, kind))
<1> DEFINE reasons == Reasons(r, q.host, CarriesBody(q.body), kind, q.size, on)
           hit     == Violation("uploads", HostItem(q.host),
                                HostDetail(reasons, CarriesBody(q.body), kind, q.size))
           all     == EvaluateRequest(r, q, kind, on)
<1>1. reasons = IF Unlisted(r, q, kind, on) THEN {"body_to_unlisted_host"} ELSE {}
  <2>1. CapsOver(r, q.host) = {} /\ ~OverCap(r, q.host, q.size)
    BY DEF AsProposed, CapsOver, OverCap
  <2> QED BY <2>1 DEF Reasons, Unlisted
<1> HIDE DEF reasons
<1>2. q.tools \cap r.deniedTools = {}
  BY DEF AsProposed
<1>3. \A v \in all : v.rule = "out_of_spec_calls" \/ (reasons # {} /\ v = hit)
  BY <1>2 DEF EvaluateRequest, reasons, Violation
<1>4. reasons # {} => hit \in all /\ hit.rule = "uploads"
  BY DEF EvaluateRequest, reasons, Violation
<1>5. reasons # {} => hit = UnlistedHit(q, kind)
  BY <1>1 DEF UnlistedHit
<1> HIDE DEF hit, all
<1> QED BY <1>1, <1>3, <1>4, <1>5 DEF all

(* What is listed of a window's requests, piece by piece (WouldBe): calls  *)
(* nothing declared, bodies past the drip check, bodies withheld by the    *)
(* policy, and bodies to a host no list can write.                         *)
OutOfSpec(r, R, kinds, on) ==
    UNION {{Item(v) : v \in {w \in EvaluateRequest(r, q, kinds[q], on) :
                                w.rule = "out_of_spec_calls"}} : q \in R}

DrippedUploads(r, R, kinds) ==
    {<<"uploads", q.host>> : q \in {p \in R : /\ DrippedKind(kinds[p])
                                              /\ ~HostAllowed(p.host, r.uploads)}}

HitsOn(r, q, kind, on) == {v \in EvaluateRequest(r, q, kind, on) :
                              v.rule = "uploads" /\ v.detail.form = "host"}

WithheldUploads(from, pol, r, R, kinds, on) ==
    UNION {{Item(v) : v \in HitsOn(r, q, kinds[q], on)} :
             q \in {p \in R : /\ Uploading(p, kinds[p])
                              /\ IsHostPattern(p.host) /\ Refused(from, pol, p.host)}}

UnlistableUploads(R, kinds) ==
    {<<"uploads", HostItem(q.host)>> :
        q \in {p \in R : Uploading(p, kinds[p]) /\ ~IsHostPattern(p.host)}}

(* All that is listed of requests, and all that they break.                *)
AllListed(from, pol, r, R, kinds, on) ==
    OutOfSpec(r, R, kinds, on) \cup DrippedUploads(r, R, kinds)
      \cup WithheldUploads(from, pol, r, R, kinds, on) \cup UnlistableUploads(R, kinds)

AllBroken(r, R, kinds, on) ==
    UNION {{Item(v) : v \in EvaluateRequest(r, q, kinds[q], on)} : q \in R}

(* A body that counts, past the drip check, is one the proposal reads as an*)
(* upload.                                                                 *)
LEMMA CountedUploads ==
    ASSUME NEW r, AsProposed(r), NEW q, NEW on \in BOOLEAN, NEW kind, ReadAs(r, q, kind, on),
           Unlisted(r, q, kind, on), ~DrippedKind(kind)
    PROVE  Uploading(q, kind)
<1>1. CASE kind = {} \/ q.host = NoHost
  BY <1>1 DEF Uploading, Unlisted
<1>2. CASE kind # {} /\ q.host # NoHost
  <2>1. PICK k : kind = {k} /\ k.step \notin {STEP_DRIP, STEP_OVERRIDE}
    BY <1>2 DEF ReadAs, DrippedKind
  <2>2. BodyCounts(k, q.host, r)
    BY <1>2, <2>1 DEF Unlisted
  <2>3. \A m, t : Overrides(r.overrides, q.host, m, t) = {}
    BY DEF Overrides, AsProposed
  <2>4. k.kind # "parameters"
    BY <2>1, <2>2, <2>3 DEF BodyCounts
  <2> QED BY <2>1, <2>4 DEF Uploading, Unlisted
<1> QED BY <1>1, <1>2

(* A request past the drip check breaks the rules as proposed.             *)
LEMMA DrippedBreaks ==
    ASSUME NEW r, NEW q, NEW on \in BOOLEAN, NEW kind, ReadAs(r, q, kind, on), DrippedKind(kind)
    PROVE  /\ on /\ q.host # NoHost
           /\ Unlisted(r, q, kind, on) <=> ~HostAllowed(q.host, r.uploads)
<1>1. PICK k : kind = {k} /\ k.step = STEP_DRIP
  BY DEF ReadAs, DrippedKind
<1>2. on /\ CarriesBody(q.body) /\ q.host # NoHost /\ BodyCounts(k, q.host, r)
  BY <1>1 DEF ReadAs
<1>3. UploadHosts(r, on) = r.uploads
  BY <1>2 DEF UploadHosts
<1> QED BY <1>1, <1>2, <1>3 DEF Unlisted

(* What is listed of a window's requests, and what they break.             *)
LEMMA RequestsListed ==
    ASSUME NEW R, \A q \in R : q.host \in Seq(Label), NEW on \in BOOLEAN, NEW from, NEW pol,
           NEW kinds, NEW r, AsProposed(r), \A q \in R : ReadAs(r, q, kinds[q], on),
           r.uploads = {h \in BodyHosts(from, R, kinds) : ~Refused(from, pol, h)},
           NEW breaks, breaks = AllBroken(r, R, kinds, on),
           NEW listed, listed = AllListed(from, pol, r, R, kinds, on)
    PROVE  /\ breaks \subseteq listed
           /\ \A item \in listed \ breaks : item[1] = "uploads" /\ ~IsHostPattern(item[2])
<1>0. listed = OutOfSpec(r, R, kinds, on) \cup DrippedUploads(r, R, kinds)
                 \cup WithheldUploads(from, pol, r, R, kinds, on) \cup UnlistableUploads(R, kinds)
  BY DEF AllListed
<1>1. ASSUME NEW q \in R, NEW v \in EvaluateRequest(r, q, kinds[q], on) PROVE Item(v) \in listed
  <2>1. CASE v.rule = "out_of_spec_calls"
    <3>1. Item(v) \in OutOfSpec(r, R, kinds, on)
      BY <2>1 DEF OutOfSpec
    <3> QED BY <1>0, <3>1
  <2>2. CASE v.rule # "out_of_spec_calls"
    <3>1. Unlisted(r, q, kinds[q], on) /\ v = UnlistedHit(q, kinds[q])
      BY <2>2, RequestBreaks
    <3>2. Item(v) = <<"uploads", HostItem(q.host)>> /\ v.rule = "uploads" /\ v.detail.form = "host"
      BY <3>1 DEF Item, UnlistedHit, Violation, HostDetail
    <3>3. CASE DrippedKind(kinds[q])
      <4>1. q.host # NoHost /\ ~HostAllowed(q.host, r.uploads)
        BY <3>1, <3>3, DrippedBreaks
      <4>2. Item(v) \in DrippedUploads(r, R, kinds)
        BY <3>2, <3>3, <4>1 DEF DrippedUploads, HostItem
      <4> QED BY <1>0, <4>2
    <3>4. CASE ~DrippedKind(kinds[q])
      <4>1. Uploading(q, kinds[q])
        BY <3>1, <3>4, CountedUploads
      <4>2. CASE ~IsHostPattern(q.host)
        <5>1. Item(v) \in UnlistableUploads(R, kinds)
          BY <3>2, <4>1, <4>2 DEF UnlistableUploads
        <5> QED BY <1>0, <5>1
      <4>3. CASE IsHostPattern(q.host) /\ Refused(from, pol, q.host)
        <5>1. v \in HitsOn(r, q, kinds[q], on)
          BY <3>2 DEF HitsOn
        <5>2. Item(v) \in WithheldUploads(from, pol, r, R, kinds, on)
          BY <4>1, <4>3, <5>1 DEF WithheldUploads
        <5> QED BY <1>0, <5>2
      <4>4. CASE IsHostPattern(q.host) /\ ~Refused(from, pol, q.host)
        <5>1. q.host \in r.uploads
          BY <4>1, <4>4 DEF BodyHosts
        <5>2. q.host # NoHost
          BY <4>4 DEF IsHostPattern, Wild, NoHost
        <5>3. HostAllowed(q.host, UploadHosts(r, on))
          BY <5>1, <5>2, MatchesItself DEF HostAllowed, UploadHosts
        <5> QED BY <3>1, <5>3 DEF Unlisted
      <4> QED BY <4>2, <4>3, <4>4
    <3> QED BY <3>3, <3>4
  <2> QED BY <2>1, <2>2
<1>2. ASSUME NEW q \in R, Unlisted(r, q, kinds[q], on)
      PROVE  <<"uploads", HostItem(q.host)>> \in breaks
  <2> DEFINE v == UnlistedHit(q, kinds[q])
  <2>1. v.rule = "uploads" /\ Item(v) = <<"uploads", HostItem(q.host)>>
    BY DEF Item, UnlistedHit, Violation
  <2> HIDE DEF v
  <2>2. v \in EvaluateRequest(r, q, kinds[q], on)
    BY <1>2, <2>1, RequestBreaks DEF v
  <2> QED BY <2>1, <2>2 DEF AllBroken
<1>3. OutOfSpec(r, R, kinds, on) \subseteq breaks
  BY DEF OutOfSpec, AllBroken
<1>4. DrippedUploads(r, R, kinds) \subseteq breaks
  <2> SUFFICES ASSUME NEW q \in R, DrippedKind(kinds[q]), ~HostAllowed(q.host, r.uploads)
               PROVE  <<"uploads", q.host>> \in breaks
    BY DEF DrippedUploads
  <2> QED BY <1>2, DrippedBreaks DEF HostItem
<1>5. WithheldUploads(from, pol, r, R, kinds, on) \subseteq breaks
  BY DEF WithheldUploads, HitsOn, AllBroken
<1>6. ASSUME NEW item \in UnlistableUploads(R, kinds), item \notin breaks
      PROVE  item[1] = "uploads" /\ ~IsHostPattern(item[2])
  <2>1. PICK q \in R : /\ item = <<"uploads", HostItem(q.host)>>
                       /\ Uploading(q, kinds[q]) /\ ~IsHostPattern(q.host)
    BY DEF UnlistableUploads
  <2>2. q.host # NoHost
    <3> SUFFICES ASSUME q.host = NoHost PROVE FALSE
      OBVIOUS
    <3>1. Unlisted(r, q, kinds[q], on)
      BY <2>1 DEF Unlisted, Uploading, HostAllowed
    <3> QED BY <1>2, <1>6, <2>1, <3>1
  <2> QED BY <2>1, <2>2 DEF HostItem
<1>7. breaks \subseteq listed
  BY <1>1 DEF AllBroken
<1> QED BY <1>0, <1>3, <1>4, <1>5, <1>6, <1>7
-----------------------------------------------------------------------------
(* The requests kept make a window.                                        *)
WindowOK == Windowed(requests) /\ \A q \in requests : q.host \in Seq(Label)

(* A step captures one request, or none.                                   *)
LEMMA CapturesOne ==
    ASSUME [Next]_vars
    PROVE  \/ requests' = requests
           \/ \E shape \in world.shapes, lag \in world.lags :
                 requests' = requests \cup {Captured(shape, lag)}
<1> DEFINE Same == requests' = requests
           More == \E shape \in world.shapes, lag \in world.lags :
                      requests' = requests \cup {Captured(shape, lag)}
<1>1. ASSUME NEW shape \in world.shapes, NEW lag \in world.lags,
             Arrive(shape, lag) \/ ArriveHeld(shape, lag)
      PROVE  More
  BY <1>1 DEF Arrive, ArriveHeld
<1>2. ASSUME NEW h, NEW denied \in BOOLEAN, Release(h, denied) PROVE Same
  BY <1>2 DEF Release
<1>3. ASSUME NEW edit, Adopt(edit) \/ Edit(edit) PROVE Same
  BY <1>3 DEF Adopt, Edit, Unchecked, Around
<1>4. ASSUME NEW row, AllowRow(row) PROVE Same
  BY <1>4 DEF AllowRow, Unchecked, Around
<1>5. ASSUME NEW chosen, AllowRows(chosen) \/ NarrowUploads(chosen) PROVE Same
  BY <1>5 DEF AllowRows, NarrowUploads, Unchecked, Around
<1>6. ASSUME NEW offer, NEW allow \in BOOLEAN, ChooseDeclared(offer, allow) PROVE Same
  BY <1>6 DEF ChooseDeclared, Unchecked, Around
<1>7. ASSUME NEW level, RequireContainment(level) PROVE Same
  BY <1>7 DEF RequireContainment, Unchecked, Around
<1>8. ASSUME \/ \E host : DismissNarrow(host)
             \/ \E n : Switch(n)
             \/ TurnOff \/ Restart \/ Tick \/ UNCHANGED vars
             \/ \E asp : NewAsp(asp)
             \/ \E p : ImportPolicy(p)
      PROVE  Same
  BY <1>8 DEF DismissNarrow, Switch, TurnOff, Restart, Tick, NewAsp, ImportPolicy, Around, vars
<1> HIDE DEF Same, More
<1>9. Same \/ More
  BY <1>1, <1>2, <1>3, <1>4, <1>5, <1>6, <1>7, <1>8 DEF Next
<1> QED BY <1>9 DEF Same, More

(* Whatever arrived, each request kept has a time, an id of its own and a  *)
(* host made of labels.                                                    *)
THEOREM WindowsAreRight == Spec => []WindowOK
<1>1. Init => WindowOK
  <2> SUFFICES ASSUME Init PROVE WindowOK
    OBVIOUS
  <2>1. world \in Worlds /\ requests = world.window
    BY DEF Init
  <2>2. /\ IsFiniteSet(requests) /\ Cardinality(requests) \in Nat
        /\ \A q \in requests : q.at \in Nat /\ q.id \in 1..Cardinality(requests)
        /\ \A p, q \in requests : p.id = q.id => p = q
    BY <2>1, ClockAssumption, FS_CardinalityType
  <2>3. \A q \in requests : BodyOK(q.body)
    BY <2>1, ShapeAssumption DEF BodyOK, Body
  <2>4. \A q \in requests : q.host \in Seq(Label)
    BY <2>1, HostsAssumption, StringLabels
  <2> QED BY <2>2, <2>3, <2>4 DEF WindowOK, Windowed
<1>2. DripInv /\ WindowOK /\ [Next]_vars => WindowOK'
  <2> SUFFICES ASSUME DripInv, WindowOK, [Next]_vars PROVE WindowOK'
    OBVIOUS
  <2>1. CASE requests' = requests
    BY <2>1 DEF WindowOK
  <2>2. ASSUME NEW shape \in world.shapes, NEW lag \in world.lags,
               requests' = requests \cup {Captured(shape, lag)}
        PROVE  WindowOK'
    <3> DEFINE q == Captured(shape, lag)
    <3>1. q.host \in Seq(Label)
      <4>1. world \in Worlds
        BY DEF DripInv, LifeInv, RequestsOK
      <4>2. q.host = shape.host
        BY DEF Captured
      <4> HIDE DEF q
      <4> QED BY <4>1, <4>2, HostsAssumption, StringLabels
    <3> HIDE DEF q
    <3>2. /\ IsFiniteSet(requests')
          /\ \A p \in requests' : p.id \in 1..Cardinality(requests')
          /\ \A p \in requests : p.id # q.id
          /\ BodyOK(q.body) /\ q.at \in Int
      BY <2>2, NextId DEF q
    <3>3. Cardinality(requests') \in Nat
      BY <3>2, FS_CardinalityType
    <3>4. Windowed(requests')
      BY <2>2, <3>2, <3>3 DEF WindowOK, Windowed, q
    <3> QED BY <2>2, <3>1, <3>4 DEF WindowOK, q
  <2> QED BY <2>1, <2>2, CapturesOne
<1> QED BY <1>1, <1>2, DripInvariant, PTL DEF Spec

(* What the page lists of a baseline, and what it would break.             *)
LEMMA ListsItsBreaks == DripInv /\ WindowOK => WouldBeComplete
<1> SUFFICES ASSUME DripInv, WindowOK, ~MultiAgent(world.bundle)
             PROVE  WouldBeComplete
  BY DEF WouldBeComplete
<1> DEFINE from   == world.bundle
           R      == Baseline
           kinds  == ProposalKinds(from, R, policy, kindsOn)
           r      == ProposedRules(from, R, policy, kindsOn)
           listed == WouldBe(from, R, policy, kindsOn)
           breaks == Broken(r, from, R, kinds, kindsOn)
           asked  == AllListed(from, policy, r, R, kinds, kindsOn)
           broken == AllBroken(r, R, kinds, kindsOn)
           heard  == IF from.listeners.status \in {"ANSWERED", "PARTIAL"}
                     THEN {Item(v) : v \in ListenerViolations(from, r.ports)} ELSE {}
<1>1. /\ world \in Worlds /\ kindsOn \in BOOLEAN
      /\ Windowed(R) /\ \A q \in R : q.host \in Seq(Label)
  <2>1. R \subseteq requests
    BY DEF Baseline, OwnedRequests, Captures
  <2>2. IsFiniteSet(R)
    BY <2>1, FS_Subset DEF WindowOK, Windowed
  <2> HIDE DEF R
  <2> QED BY <2>1, <2>2 DEF WindowOK, Windowed, DripInv, LifeInv, RequestsOK
<1>2. /\ AsProposed(r) /\ r.files = SeedFiles(from)
      /\ r.require = (IF Contained(from) THEN {"contained"} ELSE {})
      /\ r.uploads = {h \in BodyHosts(from, R, kinds) : ~Refused(from, policy, h)}
  BY DEF ProposedRules, AsProposed
<1>3. listed = heard \cup asked
  <2>1. listed = heard \cup OutOfSpec(r, R, kinds, kindsOn) \cup DrippedUploads(r, R, kinds)
                   \cup WithheldUploads(from, policy, r, R, kinds, kindsOn)
                   \cup UnlistableUploads(R, kinds)
    BY DEF WouldBe, HitsOn, OutOfSpec, DrippedUploads, WithheldUploads, UnlistableUploads
  <2> HIDE DEF listed, heard, kinds, r, R, from
  <2> QED BY <2>1 DEF AllListed
<1> HIDE DEF R, r, listed
<1>4. \A q \in R : ReadAs(r, q, kinds[q], kindsOn)
  BY <1>1, <1>2, ProposalReads
<1>5. \A f \in from.files.items : f.path.sqlite => f.path.kind = "(none)"
  BY <1>1, FilesAssumption
<1>6. {Item(v) : v \in AspViolations(r, from)} = heard
  BY <1>2, <1>5, AspBreaks
<1> HIDE DEF kinds, from
<1>7. breaks = heard \cup broken
  BY <1>6 DEF Broken, AllBroken
<1> HIDE DEF breaks, asked, broken, heard
<1>8. /\ broken \subseteq asked
      /\ \A item \in asked \ broken : item[1] = "uploads" /\ ~IsHostPattern(item[2])
  BY <1>1, <1>2, <1>4, RequestsListed DEF asked, broken
<1>9. /\ breaks \subseteq listed
      /\ \A item \in listed \ breaks : item[1] = "uploads" /\ ~IsHostPattern(item[2])
  BY <1>3, <1>7, <1>8
<1> QED BY <1>9 DEF WouldBeComplete, breaks, listed, r, R, kinds, from

(* What the page says a proposal would break is all that it would break,   *)
(* and no more than that but for hosts no list can write                   *)
(* (would_be_violations).                                                  *)
THEOREM WouldBeListed == Spec => []WouldBeComplete
<1> QED BY ListsItsBreaks, WindowsAreRight, DripInvariant, PTL
=============================================================================
