------------------------- MODULE GuardrailRowsProofs -------------------------
(***************************************************************************)
(* Theorems about GuardrailRows for every value of its constants: its      *)
(* types, that failing checks are never shown held, that the states shown  *)
(* agree, and what recording and re-checking may do to a row.              *)
(***************************************************************************)
EXTENDS GuardrailRows, FiniteSetTheorems, TLAPS

(* Stamps are of the past, and a failing check has one no older than the   *)
(* version in force.                                                       *)
FailureStamped ==
    /\ activatedAt <= now
    /\ checkFailed # Never => checkFailed <= now
    /\ unjudged => checkFailed # Never /\ checkFailed >= activatedAt

(* The last ASP that arrived is newer than every other one, and only items *)
(* of ASP rules are judged on it.                                          *)
LatestIsNewest ==
    /\ \A n \in DOMAIN asps : n <= latest
    /\ \A i \in Items \ AspItems : latest \notin hitBy[i]

(* While it is stored, a row of an item it was judged to show names it.    *)
LatestIsSource ==
    latest \in DOMAIN asps =>
        \A i \in Items : (rows[i] # NoRow /\ latest \in hitBy[i]) => rows[i].source = latest

RowsInv == TypeOK /\ FailureStamped /\ LatestIsNewest /\ LatestIsSource
-----------------------------------------------------------------------------
(* What _record_violations does to the row of an item that is hit: a       *)
(* repeat from other evidence counts and is open afterwards; a new item    *)
(* gets an open row or is left to the overflow row.                        *)
RowAfterHit(i, n, recheck) ==
    \/ rows[i] # NoRow /\ rows[i].source = n /\ rows'[i] = Kept(rows[i])
    \/ /\ rows[i] # NoRow /\ rows[i].source # n
       /\ rows'[i] = [hits |-> rows[i].hits + 1, source |-> n, open |-> TRUE,
                      lastSeen |-> now]
    \/ /\ rows[i] = NoRow
       /\ rows'[i] = [hits |-> 1, source |-> n, open |-> TRUE, lastSeen |-> now]
    \/ /\ rows[i] = NoRow /\ rows'[i] = NoRow
       /\ \/ overflow' \in Row /\ overflow'.open
          \/ recheck /\ overflow # NoRow

(* The row of what did not fit is a row, and is open while anything was    *)
(* refused.                                                                *)
LEMMA OverflowType ==
    ASSUME TypeOK, NEW refused \in SUBSET Items, NEW n \in Nat, NEW recheck \in BOOLEAN
    PROVE  LET o == Overflowed(refused, n, recheck)
           IN /\ o \in Row \cup {NoRow}
              /\ o # overflow => o \in Row /\ o.open
              /\ (overflow # NoRow /\ overflow.open) =>
                    o \in Row /\ o.open /\ o.hits >= overflow.hits
              /\ refused # {} => \/ o \in Row /\ o.open
                                 \/ recheck /\ overflow # NoRow
  <1>1. Cardinality(refused) \in Nat
    BY ItemAssumption, FS_Subset, FS_CardinalityType
  <1>2. overflow \in Row \cup {NoRow} /\ now \in Nat
    BY DEF TypeOK
  <1>3. NoRow \notin Row
    BY AbsentAssumption DEF Row
  <1>4. CASE refused = {} \/ (recheck /\ overflow # NoRow)
    BY <1>2, <1>3, <1>4 DEF Overflowed, Row
  <1>5. CASE refused # {} /\ recheck /\ overflow = NoRow
    BY <1>2, <1>3, <1>5 DEF Overflowed, Row
  <1>6. CASE refused # {} /\ ~recheck
    <2> DEFINE hits == Cardinality(refused) + (IF overflow = NoRow THEN 0 ELSE overflow.hits)
    <2>1. Overflowed(refused, n, recheck)
            = [hits |-> hits, source |-> n, open |-> TRUE, lastSeen |-> now]
      BY <1>6 DEF Overflowed
    <2>2. hits \in Nat /\ (overflow # NoRow => hits >= overflow.hits)
      BY <1>1, <1>2 DEF Row
    <2> HIDE DEF hits
    <2>3. QED
      BY <2>1, <2>2, <1>2, <1>3 DEF Row
  <1>7. QED
    BY <1>4, <1>5, <1>6

(* What it does altogether.                                                *)
Effect(hit, n, recheck) ==
    /\ \A i \in hit : RowAfterHit(i, n, recheck)
    /\ \A i \in Items \ hit : rows'[i] = Kept(rows[i])
    /\ rows' \in [Items -> Row \cup {NoRow}]
    /\ overflow' \in Row \cup {NoRow}
    /\ (overflow # NoRow /\ overflow.open) =>
          overflow' # NoRow /\ overflow'.open /\ overflow'.hits >= overflow.hits
    /\ hitBy' = [i \in Items |-> IF i \in hit THEN hitBy[i] \cup {n} ELSE hitBy[i]]

(* What recording a set of violations does: each is listed as its own row  *)
(* or counted in the overflow row, and no other row changes.               *)
LEMMA Recorded ==
    ASSUME TypeOK, NEW hit \in SUBSET Items, NEW n \in Nat, NEW recheck \in BOOLEAN,
           RecordViolations(hit, n, recheck)
    PROVE  Effect(hit, n, recheck)
  <1> DEFINE repeated == {i \in hit : rows[i] # NoRow /\ ~SameSource(i, n)}
             new      == {i \in hit : rows[i] = NoRow}
             Hit(hits) == [hits |-> hits, source |-> n, open |-> TRUE, lastSeen |-> now]
  <1>1. PICK listed \in SUBSET new :
          /\ rows' = [i \in Items |-> Kept(CASE i \in repeated -> Hit(rows[i].hits + 1)
                                             [] i \in listed   -> Hit(1)
                                             [] OTHER          -> rows[i])]
          /\ overflow' = Kept(Overflowed(new \ listed, n, recheck))
          /\ hitBy' = [i \in Items |-> IF i \in hit THEN hitBy[i] \cup {n} ELSE hitBy[i]]
    BY DEF RecordViolations
  <1>2. NoRow \notin Row /\ rows \in [Items -> Row \cup {NoRow}] /\ now \in Nat
    BY AbsentAssumption DEF Row, TypeOK
  <1>3. \A hits \in Nat : Hit(hits) \in Row /\ Hit(hits).open
    BY <1>2 DEF Row
  <1>4. /\ \A r \in Row : r.open => Kept(r) = r
        /\ \A hits \in Nat : Kept(Hit(hits)) = Hit(hits)
        /\ \A i \in Items : rows[i] # NoRow => rows[i] \in Row /\ rows[i].hits + 1 \in Nat
    BY <1>2, <1>3 DEF Kept, Expired, Row
  <1>5. Kept(NoRow) = NoRow /\ \A r \in Row : Kept(r) \in {r, NoRow}
    BY DEF Kept, Expired
  <1> HIDE DEF Hit
  <1>6. \A i \in Items :
          rows'[i] = CASE i \in repeated -> Hit(rows[i].hits + 1)
                       [] i \in listed   -> Hit(1)
                       [] OTHER          -> Kept(rows[i])
    <2> SUFFICES ASSUME NEW i \in Items
                 PROVE  rows'[i] = CASE i \in repeated -> Hit(rows[i].hits + 1)
                                     [] i \in listed   -> Hit(1)
                                     [] OTHER          -> Kept(rows[i])
      OBVIOUS
    <2>1. rows[i] \in Row \cup {NoRow}
      BY <1>2
    <2>2. CASE i \in repeated
      BY <1>1, <1>4, <2>2
    <2>3. CASE i \in listed /\ i \notin repeated
      BY <1>1, <1>4, <2>3
    <2>4. CASE i \notin listed /\ i \notin repeated
      BY <1>1, <2>4
    <2>5. QED
      BY <2>2, <2>3, <2>4
  <1>7. /\ overflow' \in Row \cup {NoRow}
        /\ (overflow # NoRow /\ overflow.open) =>
              overflow' # NoRow /\ overflow'.open /\ overflow'.hits >= overflow.hits
        /\ new \ listed # {} => \/ overflow' \in Row /\ overflow'.open
                                \/ recheck /\ overflow # NoRow
    <2> DEFINE o == Overflowed(new \ listed, n, recheck)
    <2>1. new \ listed \in SUBSET Items
      OBVIOUS
    <2>2. /\ o \in Row \cup {NoRow}
          /\ (overflow # NoRow /\ overflow.open) =>
                o \in Row /\ o.open /\ o.hits >= overflow.hits
          /\ new \ listed # {} => \/ o \in Row /\ o.open
                                  \/ recheck /\ overflow # NoRow
      BY <2>1, OverflowType
    <2>3. overflow' = Kept(o)
      BY <1>1
    <2> HIDE DEF o, new
    <2>4. QED
      BY <1>2, <1>4, <1>5, <2>2, <2>3
  <1>8. ASSUME NEW i \in hit PROVE RowAfterHit(i, n, recheck)
    <2>1. CASE i \in repeated
      BY <1>6, <2>1 DEF RowAfterHit, SameSource, Hit
    <2>2. CASE i \in listed
      BY <1>6, <2>2 DEF RowAfterHit, Hit
    <2>3. CASE i \in new \ listed
      BY <1>5, <1>6, <1>7, <2>3 DEF RowAfterHit
    <2>4. CASE rows[i] # NoRow /\ SameSource(i, n)
      BY <1>6, <2>4 DEF RowAfterHit, SameSource
    <2>5. QED
      BY <2>1, <2>2, <2>3, <2>4
  <1>9. rows' \in [Items -> Row \cup {NoRow}]
    <2>1. \A i \in Items : rows'[i] \in Row \cup {NoRow}
      <3> SUFFICES ASSUME NEW i \in Items PROVE rows'[i] \in Row \cup {NoRow}
        OBVIOUS
      <3>1. CASE i \in repeated
        BY <1>3, <1>4, <1>6, <3>1
      <3>2. CASE i \in listed /\ i \notin repeated
        BY <1>3, <1>6, <3>2
      <3>3. CASE i \notin listed /\ i \notin repeated
        BY <1>2, <1>5, <1>6, <3>3
      <3>4. QED
        BY <3>1, <3>2, <3>3
    <2>2. QED
      BY <1>1, <2>1
  <1>10. \A i \in Items \ hit : rows'[i] = Kept(rows[i])
    BY <1>6
  <1>11. QED
    BY <1>1, <1>7, <1>8, <1>9, <1>10 DEF Effect

(* A row left afterwards is the hit's or it is the one before.             *)
LEMMA RowSources ==
    ASSUME TypeOK, NEW hit \in SUBSET Items, NEW n \in Nat, NEW recheck \in BOOLEAN,
           RecordViolations(hit, n, recheck), NEW i \in Items, rows'[i] # NoRow
    PROVE  \/ i \in hit /\ rows'[i].source = n
           \/ rows'[i] = rows[i] /\ (i \in hit => rows[i].source = n)
  <1>1. CASE i \in hit
    <2>1. Effect(hit, n, recheck)
      BY Recorded
    <2>2. RowAfterHit(i, n, recheck)
      BY <1>1, <2>1 DEF Effect
    <2>3. Kept(rows[i]) \in {rows[i], NoRow}
      BY DEF Kept
    <2>4. QED
      BY <1>1, <2>2, <2>3 DEF RowAfterHit
  <1>2. CASE i \notin hit
    <2>1. Effect(hit, n, recheck)
      BY Recorded
    <2>2. rows'[i] = Kept(rows[i])
      BY <1>2, <2>1 DEF Effect
    <2>3. QED
      BY <1>2, <2>2 DEF Kept
  <1>3. QED
    BY <1>1, <1>2
-----------------------------------------------------------------------------
(* Adopt, Edit, Allow this, Allow all and Switch have this in common.      *)
PolicyChange(version) ==
    /\ version \in Version
    /\ versions' = versions \cup {version}
    /\ Activate(version)

(* The steps, with the loads and the versions spelt out.                   *)
LEMMA NextCases ==
    ASSUME TypeOK, Next
    PROVE  \/ \E items \in SUBSET AspItems, fails \in BOOLEAN : LoadAsp(items, fails)
           \/ \E items \in SUBSET (Items \ AspItems), fails \in BOOLEAN :
                 LoadRequest(items, fails)
           \/ PruneAsps
           \/ \E version \in Version : PolicyChange(version)
           \/ TurnOff
           \/ \E i \in Items : Acknowledge(i)
           \/ AcknowledgeOverflow
           \/ Tick
  <1>1. ASSUME NEW allowed \in SUBSET Items, CreateVersion(allowed)
        PROVE  \E version \in Version : PolicyChange(version)
    <2>1. [allows |-> allowed] \in Version
      BY DEF Version
    <2>2. QED
      BY <1>1, <2>1 DEF CreateVersion, PolicyChange
  <1>2. active # NoVersion => active.allows \in SUBSET Items
    BY DEF TypeOK, Version
  <1>3. ASSUME NEW allowed \in Policies, Adopt(allowed) \/ Edit(allowed)
        PROVE  \E version \in Version : PolicyChange(version)
    BY <1>1, <1>3, RuleAssumption DEF Adopt, Edit
  <1>4. ASSUME NEW i \in Items, AllowRow(i)
        PROVE  \E version \in Version : PolicyChange(version)
    <2>1. active.allows \cup {i} \in SUBSET Items
      BY <1>2, <1>4 DEF AllowRow
    <2>2. QED
      BY <1>1, <1>4, <2>1 DEF AllowRow
  <1>5. ASSUME NEW chosen \in SUBSET Items, AllowRows(chosen)
        PROVE  \E version \in Version : PolicyChange(version)
    <2>1. active # NoVersion
      BY <1>5 DEF AllowRows, Counts
    <2>2. active.allows \cup chosen \in SUBSET Items
      BY <1>2, <2>1
    <2>3. QED
      BY <1>1, <1>5, <2>2 DEF AllowRows
  <1>6. ASSUME NEW version \in versions, Switch(version)
        PROVE  \E w \in Version : PolicyChange(w)
    <2>1. version \in Version /\ versions \cup {version} = versions
      BY DEF TypeOK
    <2>2. QED
      BY <1>6, <2>1 DEF Switch, PolicyChange
  <1>7. QED
    BY <1>3, <1>4, <1>5, <1>6 DEF Next

(* The newest ASP is the last one that arrived, as long as that is stored. *)
LEMMA NewestIsLatest ==
    ASSUME TypeOK, LatestIsNewest, latest \in DOMAIN asps, NEW n \in NewestAsp(asps)
    PROVE  n = latest
  <1>1. n \in Nat /\ latest \in Nat /\ n <= latest /\ latest <= n
    BY DEF TypeOK, LatestIsNewest, NewestAsp
  <1>2. QED
    BY <1>1
-----------------------------------------------------------------------------
(* A step of a hook: evidence that arrives and is judged, or fails to be.  *)
LEMMA JudgeStep ==
    ASSUME RowsInv, NEW hit \in SUBSET Items, NEW fails \in BOOLEAN, received' = received + 1,
           \/ Judge(hit, received + 1, fails)
           \/ UNCHANGED <<rows, overflow, hitBy, checkFailed, unjudged>>,
           UNCHANGED <<policyVars, now>>
    PROVE  /\ rows' \in [Items -> Row \cup {NoRow}]
           /\ \A i \in Items : rows'[i] # NoRow =>
                 \/ i \in hit /\ rows'[i].source = received'
                 \/ rows'[i] = rows[i] /\ received' \notin hitBy'[i]
           /\ overflow' \in Row \cup {NoRow}
           /\ \A i \in Items : hitBy'[i] \in {hitBy[i], hitBy[i] \cup {received'}}
           /\ \A i \in Items : received' \in hitBy'[i] => i \in hit
           /\ hitBy' \in [Items -> SUBSET (1..received')]
           /\ checkFailed' \in Nat \cup {Never} /\ unjudged' \in BOOLEAN
           /\ FailureStamped'
  <1>1. /\ received \in Nat /\ received + 1 \in Nat
        /\ \A i \in Items : hitBy[i] \in SUBSET (1..received) /\ received + 1 \notin hitBy[i]
        /\ \A i \in Items : rows[i] # NoRow => rows[i].source # received + 1
    BY DEF RowsInv, TypeOK
  <1>2. CASE UNCHANGED <<rows, overflow, hitBy, checkFailed, unjudged>>
    <2>1. RowsInv /\ rows' = rows /\ overflow' = overflow /\ hitBy' = hitBy
      BY <1>2
    <2>2. FailureStamped'
      BY <1>2 DEF RowsInv, FailureStamped, policyVars
    <2>3. QED
      BY <1>1, <1>2, <2>2 DEF RowsInv, TypeOK
  <1>3. CASE Judge(hit, received + 1, fails) /\ fails
    <2>1. /\ UNCHANGED <<rows, overflow, hitBy>>
          /\ checkFailed' = now /\ unjudged' = TRUE
      BY <1>3 DEF Judge, MarkFailed
    <2>2. FailureStamped'
      BY <2>1, AbsentAssumption DEF RowsInv, TypeOK, FailureStamped, policyVars
    <2>3. QED
      BY <1>1, <2>1, <2>2 DEF RowsInv, TypeOK
  <1>4. CASE Judge(hit, received + 1, fails) /\ ~fails
    <2> DEFINE shown == hit \ active.allows
    <2>1. /\ RecordViolations(shown, received + 1, FALSE)
          /\ UNCHANGED <<checkFailed, unjudged>>
      BY <1>4 DEF Judge
    <2>2. shown \in SUBSET Items /\ shown \subseteq hit
      OBVIOUS
    <2> HIDE DEF shown
    <2>3. /\ rows' \in [Items -> Row \cup {NoRow}]
          /\ overflow' \in Row \cup {NoRow}
          /\ hitBy' = [i \in Items |-> IF i \in shown THEN hitBy[i] \cup {received + 1}
                                       ELSE hitBy[i]]
      BY <1>1, <2>1, <2>2, Recorded DEF RowsInv, Effect
    <2>4. \A i \in Items : rows'[i] # NoRow =>
             \/ i \in shown /\ rows'[i].source = received + 1
             \/ rows'[i] = rows[i] /\ (i \in shown => rows[i].source = received + 1)
      BY <1>1, <2>1, <2>2, RowSources DEF RowsInv
    <2>5. FailureStamped'
      BY <2>1 DEF RowsInv, FailureStamped, policyVars
    <2>6. \A i \in Items : rows'[i] # NoRow =>
             \/ i \in hit /\ rows'[i].source = received'
             \/ rows'[i] = rows[i] /\ received' \notin hitBy'[i]
      BY <1>1, <2>2, <2>3, <2>4
    <2>7. /\ \A i \in Items : hitBy'[i] \in {hitBy[i], hitBy[i] \cup {received'}}
          /\ \A i \in Items : received' \in hitBy'[i] => i \in hit
          /\ hitBy' \in [Items -> SUBSET (1..received')]
      BY <1>1, <2>2, <2>3
    <2>8. QED
      BY <2>1, <2>3, <2>5, <2>6, <2>7 DEF RowsInv, TypeOK
  <1>5. QED
    BY <1>2, <1>3, <1>4
-----------------------------------------------------------------------------
(* Without a version, a capture or a row the invariant holds.              *)
LEMMA RowsInit == Init => RowsInv
  <1> SUFFICES ASSUME Init PROVE RowsInv
    OBVIOUS
  <1>1. /\ DOMAIN asps = {} /\ received = 0 /\ latest = 0
        /\ \A i \in Items : rows[i] = NoRow /\ hitBy[i] = {}
    BY DEF Init
  <1>2. TypeOK
    <2>1. rows \in [Items -> Row \cup {NoRow}] /\ hitBy \in [Items -> SUBSET (1..received)]
      BY DEF Init
    <2>2. /\ versions \subseteq Version /\ active \in versions \cup {NoVersion}
          /\ DOMAIN asps \subseteq 1..received /\ overflow \in Row \cup {NoRow}
          /\ checkFailed \in Nat \cup {Never} /\ unjudged \in BOOLEAN
      BY <1>1 DEF Init
    <2>3. now \in Nat /\ activatedAt \in Nat /\ received \in Nat /\ latest \in 0..received
      BY <1>1 DEF Init
    <2>4. QED
      BY <1>1, <2>1, <2>2, <2>3 DEF TypeOK
  <1>3. FailureStamped
    BY DEF Init, FailureStamped
  <1>4. LatestIsNewest /\ LatestIsSource
    BY <1>1 DEF LatestIsNewest, LatestIsSource
  <1>5. QED
    BY <1>2, <1>3, <1>4 DEF RowsInv

(* A stored ASP is judged, or marks a failed check, and the invariant      *)
(* holds.                                                                  *)
LEMMA LoadAspInv ==
    ASSUME RowsInv, NEW items \in SUBSET AspItems, NEW fails \in BOOLEAN, LoadAsp(items, fails)
    PROVE  RowsInv'
  <1>1. received' = received + 1 /\ latest' = received' /\ UNCHANGED <<policyVars, now>>
    BY DEF LoadAsp
  <1>2. \/ Judge(items, received + 1, fails)
        \/ UNCHANGED <<rows, overflow, hitBy, checkFailed, unjudged>>
    BY DEF LoadAsp
  <1>3. items \in SUBSET Items
    BY DEF AspItems
  <1>4. /\ rows' \in [Items -> Row \cup {NoRow}]
        /\ \A i \in Items : rows'[i] # NoRow =>
              \/ i \in items /\ rows'[i].source = received'
              \/ rows'[i] = rows[i] /\ received' \notin hitBy'[i]
        /\ overflow' \in Row \cup {NoRow}
        /\ \A i \in Items : received' \in hitBy'[i] => i \in items
        /\ hitBy' \in [Items -> SUBSET (1..received')]
        /\ checkFailed' \in Nat \cup {Never} /\ unjudged' \in BOOLEAN
        /\ FailureStamped'
    BY <1>1, <1>2, <1>3, JudgeStep, ZenonT(30)
  <1>5. received \in Nat /\ \A i \in Items : rows[i] # NoRow => rows[i].source \in 1..received
    BY DEF RowsInv, TypeOK
  <1>6. PICK kept \in SUBSET DOMAIN asps :
           asps' = [m \in kept \cup {received + 1} |-> IF m = received + 1 THEN items ELSE asps[m]]
    BY DEF LoadAsp
  <1>7. /\ DOMAIN asps' \subseteq 1..received'
        /\ \A n \in DOMAIN asps' : asps'[n] \subseteq AspItems
    BY <1>1, <1>5, <1>6 DEF RowsInv, TypeOK
  <1>8. TypeOK'
    BY <1>1, <1>4, <1>5, <1>7 DEF RowsInv, TypeOK, policyVars
  <1>9. LatestIsNewest'
    BY <1>1, <1>4, <1>5, <1>7 DEF LatestIsNewest, AspItems
  <1>10. LatestIsSource'
    BY <1>1, <1>4 DEF LatestIsSource
  <1>11. QED
    BY <1>4, <1>8, <1>9, <1>10 DEF RowsInv

(* So it does after a stored request.                                      *)
LEMMA LoadRequestInv ==
    ASSUME RowsInv, NEW items \in SUBSET (Items \ AspItems), NEW fails \in BOOLEAN,
           LoadRequest(items, fails)
    PROVE  RowsInv'
  <1>1. /\ received' = received + 1 /\ Judge(items, received + 1, fails)
        /\ UNCHANGED <<policyVars, now, latest, asps>>
    BY DEF LoadRequest
  <1>2. items \in SUBSET Items
    OBVIOUS
  <1>3. UNCHANGED <<policyVars, now>>
    BY <1>1
  <1>4. /\ rows' \in [Items -> Row \cup {NoRow}]
        /\ \A i \in Items : rows'[i] # NoRow =>
              \/ i \in items /\ rows'[i].source = received'
              \/ rows'[i] = rows[i] /\ received' \notin hitBy'[i]
        /\ overflow' \in Row \cup {NoRow}
        /\ \A i \in Items : hitBy'[i] \in {hitBy[i], hitBy[i] \cup {received'}}
        /\ \A i \in Items : received' \in hitBy'[i] => i \in items
        /\ hitBy' \in [Items -> SUBSET (1..received')]
        /\ checkFailed' \in Nat \cup {Never} /\ unjudged' \in BOOLEAN
        /\ FailureStamped'
    BY <1>1, <1>2, <1>3, JudgeStep, ZenonT(30)
  <1>5. /\ received \in Nat /\ latest \in 0..received
        /\ \A i \in Items : rows[i] # NoRow => rows[i].source \in 1..received
    BY DEF RowsInv, TypeOK
  <1>6. latest' = latest /\ latest # received' /\ asps' = asps
    BY <1>1, <1>5
  <1>7. TypeOK'
    BY <1>1, <1>4, <1>5 DEF RowsInv, TypeOK, policyVars
  <1>8. LatestIsNewest'
    BY <1>4, <1>6 DEF RowsInv, LatestIsNewest, AspItems
  <1>9. LatestIsSource'
    <2> SUFFICES ASSUME latest \in DOMAIN asps, NEW i \in Items, rows'[i] # NoRow,
                        latest \in hitBy'[i]
                 PROVE  rows'[i].source = latest
      BY <1>6 DEF LatestIsSource
    <2>1. latest \in hitBy[i] /\ i \in AspItems
      BY <1>4, <1>6 DEF RowsInv, LatestIsNewest
    <2>2. rows'[i] = rows[i]
      BY <1>4, <2>1
    <2>3. QED
      BY <2>1, <2>2 DEF RowsInv, LatestIsSource
  <1>10. QED
    BY <1>4, <1>7, <1>8, <1>9 DEF RowsInv

(* A new version judges the newest ASP again and keeps what the rows say.  *)
LEMMA PolicyChangeInv ==
    ASSUME RowsInv, NEW version \in Version, PolicyChange(version)
    PROVE  RowsInv'
  <1>1. /\ versions' = versions \cup {version} /\ active' = version /\ activatedAt' = now
        /\ unjudged' = FALSE /\ RecheckNewest(version)
        /\ UNCHANGED <<asps, checkFailed, now, received, latest>>
    BY DEF PolicyChange, Activate
  <1>2. FailureStamped'
    BY <1>1 DEF RowsInv, TypeOK, FailureStamped
  <1>3. CASE UNCHANGED <<rows, overflow, hitBy>>
    <2>1. TypeOK'
      BY <1>1, <1>3 DEF RowsInv, TypeOK
    <2>2. LatestIsNewest' /\ LatestIsSource'
      BY <1>1, <1>3 DEF RowsInv, LatestIsNewest, LatestIsSource
    <2>3. QED
      BY <1>2, <2>1, <2>2 DEF RowsInv
  <1>4. ASSUME NEW n \in NewestAsp(asps), RecordViolations(asps[n] \ version.allows, n, TRUE)
        PROVE  RowsInv'
    <2> DEFINE hit == asps[n] \ version.allows
    <2>1. /\ n \in DOMAIN asps /\ n \in 1..received /\ n \in Nat
          /\ hit \in SUBSET Items /\ hit \subseteq AspItems
      BY DEF RowsInv, TypeOK, NewestAsp, AspItems
    <2>2. RecordViolations(hit, n, TRUE)
      BY <1>4
    <2> HIDE DEF hit
    <2>3. /\ rows' \in [Items -> Row \cup {NoRow}]
          /\ overflow' \in Row \cup {NoRow}
          /\ hitBy' = [i \in Items |-> IF i \in hit THEN hitBy[i] \cup {n} ELSE hitBy[i]]
      BY <2>1, <2>2, Recorded DEF RowsInv, Effect
    <2>4. \A i \in Items : rows'[i] # NoRow =>
             \/ i \in hit /\ rows'[i].source = n
             \/ rows'[i] = rows[i] /\ (i \in hit => rows[i].source = n)
      BY <2>1, <2>2, RowSources DEF RowsInv
    <2>5. latest \in DOMAIN asps => n = latest
      BY NewestIsLatest DEF RowsInv
    <2>6. TypeOK'
      BY <1>1, <2>1, <2>3, <2>4 DEF RowsInv, TypeOK
    <2>7. LatestIsNewest'
      BY <1>1, <2>1, <2>3 DEF RowsInv, TypeOK, LatestIsNewest
    <2>8. LatestIsSource'
      BY <1>1, <2>3, <2>4, <2>5 DEF RowsInv, LatestIsSource
    <2>9. QED
      BY <1>2, <2>6, <2>7, <2>8 DEF RowsInv
  <1>5. QED
    BY <1>1, <1>3, <1>4 DEF RecheckNewest

(* Pruning, turning off, acknowledging and time passing keep what is left. *)
LEMMA OtherStepsInv ==
    ASSUME RowsInv,
           \/ PruneAsps \/ TurnOff \/ AcknowledgeOverflow \/ Tick \/ UNCHANGED vars
           \/ \E i \in Items : Acknowledge(i)
    PROVE  RowsInv'
  <1>1. CASE PruneAsps
    <2>1. /\ DOMAIN asps' \subseteq DOMAIN asps /\ \A n \in DOMAIN asps' : asps'[n] = asps[n]
          /\ UNCHANGED <<policyVars, rows, overflow, checkFailed, now, received, historyVars>>
      BY <1>1 DEF PruneAsps
    <2>2. QED
      BY <2>1 DEF RowsInv, TypeOK, FailureStamped, LatestIsNewest, LatestIsSource,
                  policyVars, historyVars
  <1>2. CASE TurnOff
    BY <1>2 DEF TurnOff, RowsInv, TypeOK, FailureStamped, LatestIsNewest, LatestIsSource, historyVars
  <1>3. CASE AcknowledgeOverflow
    <2>1. overflow \in Row
      BY <1>3 DEF AcknowledgeOverflow, RowsInv, TypeOK
    <2>2. overflow' \in Row
      BY <1>3, <2>1 DEF AcknowledgeOverflow, Row
    <2>3. QED
      BY <1>3, <2>2 DEF AcknowledgeOverflow, RowsInv, TypeOK, FailureStamped, LatestIsNewest,
                        LatestIsSource, policyVars, historyVars
  <1>4. CASE Tick
    BY <1>4, AbsentAssumption
    DEF Tick, RowsInv, TypeOK, FailureStamped, LatestIsNewest, LatestIsSource,
        policyVars, historyVars
  <1>5. CASE UNCHANGED vars
    BY <1>5 DEF vars, RowsInv, TypeOK, FailureStamped, LatestIsNewest, LatestIsSource
  <1>6. ASSUME NEW i \in Items, Acknowledge(i)
        PROVE  RowsInv'
    <2>1. /\ rows[i] # NoRow /\ rows[i] \in Row
          /\ rows' = [rows EXCEPT ![i].open = FALSE]
          /\ UNCHANGED <<policyVars, asps, overflow, checkFailed, now, received, historyVars>>
      BY <1>6 DEF Acknowledge, Open, RowsInv, TypeOK
    <2>2. NoRow \notin Row
      BY AbsentAssumption DEF Row
    <2>3. /\ rows' \in [Items -> Row \cup {NoRow}]
          /\ \A j \in Items : rows'[j] # NoRow =>
                rows[j] # NoRow /\ rows'[j].source = rows[j].source
      BY <2>1, <2>2 DEF RowsInv, TypeOK, Row
    <2>4. QED
      BY <2>1, <2>3 DEF RowsInv, TypeOK, FailureStamped, LatestIsNewest, LatestIsSource,
                        policyVars, historyVars
  <1>7. QED
    BY <1>1, <1>2, <1>3, <1>4, <1>5, <1>6

(* The inductive invariant of the guardrail's rows.                        *)
THEOREM RowsInvariant == Spec => []RowsInv
  <1>1. RowsInv /\ [Next]_vars => RowsInv'
    <2> SUFFICES ASSUME RowsInv, [Next]_vars
                 PROVE  RowsInv'
      OBVIOUS
    <2>1. CASE UNCHANGED vars
      BY <2>1, OtherStepsInv
    <2>2. CASE Next
      <3>1. TypeOK
        BY DEF RowsInv
      <3>2. QED
        BY <2>2, <3>1, NextCases, LoadAspInv, LoadRequestInv, PolicyChangeInv, OtherStepsInv
    <2>3. QED
      BY <2>1, <2>2
  <1>2. QED
    BY RowsInit, <1>1, PTL DEF Spec
-----------------------------------------------------------------------------
(* What is shown *)

(* The types of the tables.                                                *)
THEOREM TypeCorrect == Spec => []TypeOK
  <1>1. RowsInv => TypeOK
    BY DEF RowsInv
  <1>2. QED
    BY <1>1, RowsInvariant, PTL

(* A check that failed under the version in force keeps the agent from     *)
(* being shown held.                                                       *)
THEOREM FailingChecksShown == Spec => []FailsClosed
  <1>1. RowsInv => FailsClosed
    <2> SUFFICES ASSUME RowsInv, active # NoVersion, unjudged,
                        NEW stale \in BOOLEAN, NEW quiet \in BOOLEAN
                 PROVE  AgentState(stale, quiet) # "held"
      BY DEF FailsClosed
    <2>1. CheckFailed
      BY DEF RowsInv, FailureStamped, CheckFailed
    <2>2. \A rule \in Rules : ~RuleResult(rule, stale, quiet).verified
      BY <2>1 DEF RuleResult, Result
    <2>3. \E rule \in Rules : ~RuleResult(rule, stale, quiet).verified
      BY <2>2, RuleAssumption
    <2>4. QED
      BY <2>3 DEF AgentState
  <1>2. QED
    BY <1>1, RowsInvariant, PTL

(* The agent's state and its rules' states do not contradict each other.   *)
THEOREM StatesAgree == Spec => []ShownAgrees
  <1>1. RowsInv => ShownAgrees
    <2> SUFFICES ASSUME active # NoVersion, NEW stale \in BOOLEAN, NEW quiet \in BOOLEAN
                 PROVE  /\ AgentState(stale, quiet) = "held" =>
                              \A rule \in Rules : ShownState(rule, stale, quiet) = "held"
                        /\ AgentState(stale, quiet) = "unverified" =>
                              /\ \E rule \in Rules : ShownState(rule, stale, quiet) = "unverified"
                              /\ \A rule \in Rules : ShownState(rule, stale, quiet) # "violated"
      BY DEF ShownAgrees
    <2>1. CASE OverflowCounts \/ \E i \in Items : Counts(i)
      BY <2>1 DEF AgentState
    <2>2. CASE ~(OverflowCounts \/ \E i \in Items : Counts(i))
      <3>1. \A rule \in Rules : ShownState(rule, stale, quiet)
              = IF RuleResult(rule, stale, quiet).verified THEN "held" ELSE "unverified"
        BY <2>2 DEF ShownState
      <3>2. AgentState(stale, quiet)
              = IF \E rule \in Rules : ~RuleResult(rule, stale, quiet).verified
                THEN "unverified" ELSE "held"
        BY <2>2 DEF AgentState
      <3>3. QED
        BY <3>1, <3>2
    <2>3. QED
      BY <2>1, <2>2
  <1>2. QED
    BY <1>1, RowsInvariant, PTL
-----------------------------------------------------------------------------
(* What a step may do to the rows *)

(* An open row is never dropped as expired.                                *)
LEMMA OpenIsKept ==
    ASSUME TypeOK, NEW i \in Items, i \in Open(rows)
    PROVE  rows[i] \in Row /\ rows[i] # NoRow /\ rows[i].open /\ Kept(rows[i]) = rows[i]
  BY DEF TypeOK, Open, Kept, Expired

(* A hit leaves an open row open and never counts down; one that is not    *)
(* listed is in the overflow row, or is of a capture acknowledged already. *)
LEMMA OpenAfterHit ==
    ASSUME TypeOK, NEW n \in Nat, NEW recheck \in BOOLEAN, NEW i \in Items,
           rows' \in [Items -> Row \cup {NoRow}], RowAfterHit(i, n, recheck)
    PROVE  /\ i \in Open(rows) => i \in Open(rows') /\ rows'[i].hits >= rows[i].hits
           /\ \/ i \in Open(rows')
              \/ overflow' \in Row /\ overflow'.open
              \/ recheck /\ overflow # NoRow
              \/ rows[i] # NoRow /\ ~rows[i].open /\ rows[i].source = n
  <1>1. NoRow \notin Row /\ now \in Nat /\ rows[i] \in Row \cup {NoRow}
    BY AbsentAssumption DEF Row, TypeOK
  <1>2. DOMAIN rows = Items /\ DOMAIN rows' = Items
    BY DEF TypeOK
  <1>3. \A hits \in Nat :
          [hits |-> hits, source |-> n, open |-> TRUE, lastSeen |-> now] \in Row
    BY <1>1 DEF Row
  <1>4. CASE rows[i] # NoRow /\ rows[i].source = n /\ rows'[i] = Kept(rows[i])
    BY <1>1, <1>2, <1>4 DEF Open, Kept, Expired, Row
  <1>5. CASE /\ rows[i] # NoRow /\ rows[i].source # n
             /\ rows'[i] = [hits |-> rows[i].hits + 1, source |-> n, open |-> TRUE,
                            lastSeen |-> now]
    <2>1. rows'[i].open /\ rows'[i].hits = rows[i].hits + 1 /\ rows[i].hits \in Nat
      BY <1>1, <1>5 DEF Row
    <2>2. rows'[i] # NoRow
      BY <1>1, <1>5, <1>3, <2>1
    <2>3. QED
      BY <1>2, <2>1, <2>2 DEF Open
  <1>6. CASE /\ rows[i] = NoRow
             /\ rows'[i] = [hits |-> 1, source |-> n, open |-> TRUE, lastSeen |-> now]
    <2>1. rows'[i] # NoRow /\ rows'[i].open
      BY <1>1, <1>6, <1>3
    <2>2. QED
      BY <1>2, <1>6, <2>1 DEF Open
  <1>7. CASE /\ rows[i] = NoRow /\ rows'[i] = NoRow
             /\ \/ overflow' \in Row /\ overflow'.open
                \/ recheck /\ overflow # NoRow
    BY <1>2, <1>7 DEF Open
  <1>8. QED
    BY <1>4, <1>5, <1>6, <1>7 DEF RowAfterHit

(* Recording closes no open row and lowers no count.                       *)
LEMMA RecordingKeepsOpen ==
    ASSUME TypeOK, NEW hit \in SUBSET Items, NEW n \in Nat, NEW recheck \in BOOLEAN,
           RecordViolations(hit, n, recheck)
    PROVE  /\ \A i \in Open(rows) : i \in Open(rows') /\ rows'[i].hits >= rows[i].hits
           /\ (overflow # NoRow /\ overflow.open) =>
                 overflow' # NoRow /\ overflow'.open /\ overflow'.hits >= overflow.hits
  <1>1. Effect(hit, n, recheck)
    BY Recorded
  <1>2. \A i \in Items \ hit : rows'[i] = Kept(rows[i])
    BY <1>1 DEF Effect
  <1>3. rows' \in [Items -> Row \cup {NoRow}]
    BY <1>1 DEF Effect
  <1>4. (overflow # NoRow /\ overflow.open) =>
              overflow' # NoRow /\ overflow'.open /\ overflow'.hits >= overflow.hits
    BY <1>1 DEF Effect
  <1>5. SUFFICES ASSUME NEW i \in Open(rows)
                 PROVE  i \in Open(rows') /\ rows'[i].hits >= rows[i].hits
    BY <1>4
  <1>6. i \in Items
    BY DEF Open, TypeOK
  <1>7. CASE i \in hit
    BY <1>1, <1>3, <1>6, <1>7, OpenAfterHit DEF Effect
  <1>8. CASE i \notin hit
    <2>1. rows[i] \in Row /\ rows[i] # NoRow /\ rows[i].open /\ rows'[i] = rows[i]
      BY <1>2, <1>6, <1>8, OpenIsKept
    <2>2. QED
      BY <1>3, <1>6, <2>1 DEF Open, Row
  <1>9. QED
    BY <1>7, <1>8

(* Fresh evidence leaves each item it shows, and the version in force      *)
(* disallows, counted.                                                     *)
THEOREM FreshHitsAlwaysCount == Spec => FreshHitsCount
  <1> DEFINE Counted == \A i \in Items : (received' # received /\ received' \in hitBy'[i]) =>
                          i \in Open(rows') \/ (overflow' # NoRow /\ overflow'.open)
  <1>1. ASSUME RowsInv, NEW hit \in SUBSET Items, NEW fails \in BOOLEAN,
               received' = received + 1, Judge(hit, received + 1, fails)
        PROVE  Counted
    <2>1. /\ received + 1 \in Nat
          /\ \A i \in Items : received + 1 \notin hitBy[i]
          /\ \A i \in Items : rows[i] # NoRow => rows[i].source # received + 1
          /\ NoRow \notin Row
      BY <1>1, AbsentAssumption DEF RowsInv, TypeOK, Row
    <2>2. CASE fails
      BY <1>1, <2>1, <2>2 DEF Judge
    <2>3. CASE ~fails
      <3> DEFINE shown == hit \ active.allows
      <3>1. RecordViolations(shown, received + 1, FALSE) /\ shown \in SUBSET Items
        BY <1>1, <2>3 DEF Judge
      <3> HIDE DEF shown
      <3>2. /\ \A i \in shown : RowAfterHit(i, received + 1, FALSE)
            /\ rows' \in [Items -> Row \cup {NoRow}]
            /\ hitBy' = [i \in Items |-> IF i \in shown THEN hitBy[i] \cup {received + 1}
                                         ELSE hitBy[i]]
        BY <1>1, <2>1, <3>1, Recorded DEF RowsInv, Effect
      <3>3. SUFFICES ASSUME NEW i \in Items, received' \in hitBy'[i]
                     PROVE  i \in Open(rows') \/ (overflow' # NoRow /\ overflow'.open)
        OBVIOUS
      <3>4. i \in shown
        BY <1>1, <2>1, <3>2, <3>3
      <3>5. \/ i \in Open(rows')
            \/ overflow' \in Row /\ overflow'.open
            \/ rows[i] # NoRow /\ ~rows[i].open /\ rows[i].source = received + 1
        BY <1>1, <2>1, <3>2, <3>4, OpenAfterHit DEF RowsInv
      <3>6. QED
        BY <2>1, <3>5
    <2>4. QED
      BY <2>2, <2>3
  <1>2. ASSUME RowsInv, Next
        PROVE  Counted
    <2>1. \/ received' = received
          \/ /\ received' = received + 1
             /\ \E hit \in SUBSET Items, fails \in BOOLEAN : Judge(hit, received + 1, fails)
          \/ received' = received + 1 /\ UNCHANGED hitBy
      <3>1. ASSUME NEW items \in SUBSET AspItems, NEW fails \in BOOLEAN, LoadAsp(items, fails)
            PROVE  /\ received' = received + 1
                   /\ Judge(items, received + 1, fails) \/ UNCHANGED hitBy
                   /\ items \in SUBSET Items
        BY <3>1 DEF LoadAsp, AspItems
      <3>2. ASSUME NEW items \in SUBSET (Items \ AspItems), NEW fails \in BOOLEAN,
                   LoadRequest(items, fails)
            PROVE  /\ received' = received + 1 /\ Judge(items, received + 1, fails)
                   /\ items \in SUBSET Items
        BY <3>2 DEF LoadRequest
      <3>3. ASSUME NEW version \in Version, PolicyChange(version)
            PROVE  received' = received
        BY <3>3 DEF PolicyChange, Activate
      <3>4. ASSUME \/ PruneAsps \/ TurnOff \/ AcknowledgeOverflow \/ Tick
                   \/ \E i \in Items : Acknowledge(i)
            PROVE  received' = received
        BY <3>4 DEF PruneAsps, TurnOff, AcknowledgeOverflow, Tick, Acknowledge
      <3>5. QED
        BY <1>2, <3>1, <3>2, <3>3, <3>4, NextCases DEF RowsInv
    <2>2. \A i \in Items : received + 1 \notin hitBy[i]
      BY <1>2 DEF RowsInv, TypeOK
    <2>3. QED
      BY <1>1, <1>2, <2>1, <2>2
  <1>3. RowsInv /\ [Next]_vars => [Counted]_vars
    BY <1>2
  <1>4. QED
    BY <1>3, RowsInvariant, PTL DEF Spec, FreshHitsCount
-----------------------------------------------------------------------------
(* Steps of the other operations leave these alone.                        *)
LEMMA NoPolicyChange ==
    ASSUME \/ \E items \in SUBSET Items, fails \in BOOLEAN :
                 LoadAsp(items, fails) \/ LoadRequest(items, fails)
           \/ PruneAsps \/ AcknowledgeOverflow \/ Tick \/ TurnOff
           \/ \E i \in Items : Acknowledge(i)
    PROVE  active' = active \/ active' = NoVersion
  BY DEF LoadAsp, LoadRequest, PruneAsps, AcknowledgeOverflow, Tick, TurnOff, Acknowledge,
         policyVars

(* A policy change re-checks the newest ASP, with nothing left out.        *)
THEOREM RecheckComplete == Spec => RecheckMissesNothing
  <1> DEFINE Rechecked ==
               \A n \in NewestAsp(asps) : (active' # active /\ active' # NoVersion) =>
                  \A i \in asps[n] \ active'.allows :
                     \/ i \in Open(rows') \/ overflow' # NoRow \/ overflow # NoRow
                     \/ rows[i] # NoRow /\ ~rows[i].open /\ rows[i].source = n
  <1>1. ASSUME RowsInv, NEW version \in Version, PolicyChange(version)
        PROVE  Rechecked
    <2> SUFFICES ASSUME NEW n \in NewestAsp(asps), NEW i \in asps[n] \ active'.allows
                 PROVE  \/ i \in Open(rows') \/ overflow' # NoRow \/ overflow # NoRow
                        \/ rows[i] # NoRow /\ ~rows[i].open /\ rows[i].source = n
      OBVIOUS
    <2>1. active' = version /\ RecheckNewest(version)
      BY <1>1 DEF PolicyChange, Activate
    <2>2. n \in DOMAIN asps /\ n \in Nat /\ \A m \in NewestAsp(asps) : m = n
      <3>1. \A m \in NewestAsp(asps) : m \in Nat /\ m \in DOMAIN asps
        BY <1>1 DEF NewestAsp, RowsInv, TypeOK
      <3>2. \A m \in NewestAsp(asps) : m <= n /\ n <= m
        BY <3>1 DEF NewestAsp
      <3>3. QED
        BY <3>1, <3>2
    <2> DEFINE hit == asps[n] \ version.allows
    <2>3. RecordViolations(hit, n, TRUE)
      BY <2>1, <2>2 DEF RecheckNewest
    <2>4. hit \in SUBSET Items /\ i \in hit /\ i \in Items
      BY <1>1, <2>1, <2>2 DEF RowsInv, TypeOK, AspItems
    <2> HIDE DEF hit
    <2>5. (\A j \in hit : RowAfterHit(j, n, TRUE)) /\ rows' \in [Items -> Row \cup {NoRow}]
      BY <1>1, <2>2, <2>3, <2>4, Recorded DEF RowsInv, Effect
    <2>6. \/ i \in Open(rows')
          \/ overflow' \in Row /\ overflow'.open
          \/ overflow # NoRow
          \/ rows[i] # NoRow /\ ~rows[i].open /\ rows[i].source = n
      BY <1>1, <2>2, <2>4, <2>5, OpenAfterHit DEF RowsInv
    <2>7. NoRow \notin Row
      BY AbsentAssumption DEF Row
    <2>8. QED
      BY <2>6, <2>7
  <1>2. ASSUME RowsInv, Next
        PROVE  Rechecked
    <2>1. AspItems \subseteq Items /\ TypeOK
      BY <1>2 DEF AspItems, RowsInv
    <2>2. \/ \E version \in Version : PolicyChange(version)
          \/ active' = active \/ active' = NoVersion
      BY <1>2, <2>1, NextCases, NoPolicyChange
    <2>3. QED
      BY <1>1, <1>2, <2>2
  <1>3. RowsInv /\ [Next]_vars => [Rechecked]_vars
    BY <1>2
  <1>4. QED
    BY <1>3, RowsInvariant, PTL DEF Spec, RecheckMissesNothing

(* An open row stays open, and its count does not go down, until it is     *)
(* acknowledged.                                                           *)
THEOREM OpenRowsStay == Spec => OpenUntilAcknowledged
  <1> DEFINE RowsStay ==
               \A i \in Open(rows) :
                  \/ i \in Open(rows') /\ rows'[i].hits >= rows[i].hits
                  \/ /\ rows' = [rows EXCEPT ![i].open = FALSE]
                     /\ UNCHANGED <<policyVars, asps, overflow>>
             OverflowStays ==
               overflow # NoRow /\ overflow.open =>
                  \/ overflow' # NoRow /\ overflow'.open /\ overflow'.hits >= overflow.hits
                  \/ UNCHANGED <<policyVars, asps, rows>>
  <1>1. ASSUME TypeOK, UNCHANGED <<rows, overflow>>
        PROVE  RowsStay /\ OverflowStays
    BY <1>1 DEF TypeOK, Open, Row
  <1>2. ASSUME TypeOK, NEW hit \in SUBSET Items, NEW n \in Nat, NEW recheck \in BOOLEAN,
               RecordViolations(hit, n, recheck)
        PROVE  RowsStay /\ OverflowStays
    BY <1>2, RecordingKeepsOpen
  <1>3. ASSUME TypeOK, NEW items \in SUBSET Items, NEW fails \in BOOLEAN,
               LoadAsp(items, fails) \/ LoadRequest(items, fails)
        PROVE  RowsStay /\ OverflowStays
    <2>1. \/ UNCHANGED <<rows, overflow>>
          \/ RecordViolations(items \ active.allows, received + 1, FALSE)
      BY <1>3 DEF LoadAsp, LoadRequest, Judge
    <2>2. items \ active.allows \in SUBSET Items /\ received + 1 \in Nat
      BY <1>3 DEF TypeOK
    <2>3. QED
      BY <1>1, <1>2, <1>3, <2>1, <2>2
  <1>4. ASSUME TypeOK, NEW version \in Version, PolicyChange(version)
        PROVE  RowsStay /\ OverflowStays
    <2>1. \/ UNCHANGED <<rows, overflow>>
          \/ \E n \in NewestAsp(asps) : RecordViolations(asps[n] \ version.allows, n, TRUE)
      BY <1>4 DEF PolicyChange, Activate, RecheckNewest
    <2>2. \A n \in NewestAsp(asps) : n \in Nat /\ asps[n] \ version.allows \in SUBSET Items
      BY <1>4 DEF TypeOK, NewestAsp, AspItems
    <2>3. QED
      BY <1>1, <1>2, <1>4, <2>1, <2>2
  <1>5. ASSUME TypeOK, PruneAsps \/ TurnOff \/ Tick
        PROVE  RowsStay /\ OverflowStays
    <2>1. UNCHANGED <<rows, overflow>>
      BY <1>5 DEF PruneAsps, TurnOff, Tick
    <2>2. QED
      BY <1>1, <1>5, <2>1
  <1>6. ASSUME TypeOK, AcknowledgeOverflow
        PROVE  RowsStay /\ OverflowStays
    <2>1. UNCHANGED <<policyVars, asps, rows>>
      BY <1>6 DEF AcknowledgeOverflow
    <2>2. QED
      BY <1>6, <2>1 DEF TypeOK, Open, Row
  <1>7. ASSUME TypeOK, NEW j \in Items, Acknowledge(j)
        PROVE  RowsStay /\ OverflowStays
    <2>1. /\ rows' = [rows EXCEPT ![j].open = FALSE]
          /\ UNCHANGED <<policyVars, asps, overflow>>
      BY <1>7 DEF Acknowledge
    <2>2. \A i \in Open(rows) \ {j} : i \in Open(rows') /\ rows'[i].hits >= rows[i].hits
      BY <1>7, <2>1 DEF TypeOK, Open, Row
    <2>3. RowsStay
      BY <2>1, <2>2
    <2>4. OverflowStays
      BY <1>7, <2>1 DEF TypeOK, Row
    <2>5. QED
      BY <2>3, <2>4
  <1> HIDE DEF RowsStay, OverflowStays
  <1>8. ASSUME RowsInv, Next
        PROVE  RowsStay /\ OverflowStays
    <2>1. TypeOK /\ AspItems \subseteq Items
      BY <1>8 DEF RowsInv, AspItems
    <2>2. QED
      BY <1>3, <1>4, <1>5, <1>6, <1>7, <1>8, <2>1, NextCases
  <1>9. RowsInv /\ [Next]_vars => [RowsStay /\ OverflowStays]_vars
    BY <1>8
  <1>10. QED
    BY <1>9, RowsInvariant, PTL DEF Spec, OpenUntilAcknowledged, RowsStay, OverflowStays

(* While the newest ASP is the last one that arrived, nothing counts the   *)
(* same evidence twice for a row.                                          *)
THEOREM NothingCountedTwice == Spec => CountedOnce
  <1> DEFINE Once ==
               \A i \in Items :
                  (latest \in DOMAIN asps /\ rows[i] # NoRow /\ rows'[i] # NoRow
                     /\ rows'[i].source \in hitBy[i]) =>
                        /\ rows'[i].hits = rows[i].hits
                        /\ rows'[i].open => rows[i].open
  <1>1. ASSUME RowsInv, NEW hit \in SUBSET Items, NEW n \in Nat, NEW recheck \in BOOLEAN,
               RecordViolations(hit, n, recheck),
               \/ n = received + 1
               \/ latest \in DOMAIN asps => n = latest
        PROVE  Once
    <2> SUFFICES ASSUME NEW i \in Items, latest \in DOMAIN asps, rows[i] # NoRow,
                        rows'[i] # NoRow, rows'[i].source \in hitBy[i]
                 PROVE  rows'[i] = rows[i]
      OBVIOUS
    <2>1. TypeOK /\ rows[i] \in Row
      BY <1>1 DEF RowsInv, TypeOK
    <2>2. /\ \A j \in hit : RowAfterHit(j, n, recheck)
          /\ \A j \in Items \ hit : rows'[j] = Kept(rows[j])
      BY <1>1, <2>1, Recorded DEF Effect
    <2>3. CASE i \notin hit
      <3>1. rows'[i] = Kept(rows[i])
        BY <2>2, <2>3
      <3>2. QED
        BY <3>1 DEF Kept
    <2>4. CASE i \in hit
      <3>1. RowAfterHit(i, n, recheck)
        BY <2>2, <2>4
      <3>2. CASE rows[i].source = n /\ rows'[i] = Kept(rows[i])
        BY <3>2 DEF Kept
      <3>3. CASE rows[i].source # n /\ rows'[i].source = n
        <4>1. received + 1 \notin hitBy[i] /\ n \in hitBy[i]
          BY <1>1, <3>3 DEF RowsInv, TypeOK
        <4>2. n = latest /\ rows[i].source = latest
          BY <1>1, <4>1 DEF RowsInv, LatestIsSource
        <4>3. QED
          BY <3>3, <4>2
      <3>4. QED
        BY <3>1, <3>2, <3>3 DEF RowAfterHit
    <2>5. QED
      BY <2>3, <2>4
  <1>2. ASSUME UNCHANGED rows
        PROVE  Once
    BY <1>2
  <1>3. ASSUME RowsInv, NEW items \in SUBSET Items, NEW fails \in BOOLEAN,
               LoadAsp(items, fails) \/ LoadRequest(items, fails)
        PROVE  Once
    <2>1. \/ UNCHANGED rows
          \/ RecordViolations(items \ active.allows, received + 1, FALSE)
      BY <1>3 DEF LoadAsp, LoadRequest, Judge
    <2>2. items \ active.allows \in SUBSET Items /\ received + 1 \in Nat
      BY <1>3 DEF RowsInv, TypeOK
    <2>3. QED
      BY <1>1, <1>2, <1>3, <2>1, <2>2
  <1>4. ASSUME RowsInv, NEW version \in Version, PolicyChange(version)
        PROVE  Once
    <2>1. \/ UNCHANGED rows
          \/ \E n \in NewestAsp(asps) : RecordViolations(asps[n] \ version.allows, n, TRUE)
      BY <1>4 DEF PolicyChange, Activate, RecheckNewest
    <2>2. \A n \in NewestAsp(asps) :
             /\ n \in Nat /\ asps[n] \ version.allows \in SUBSET Items
             /\ latest \in DOMAIN asps => n = latest
      BY <1>4, NewestIsLatest DEF RowsInv, TypeOK, NewestAsp, AspItems
    <2>3. ASSUME NEW n \in NewestAsp(asps),
                 RecordViolations(asps[n] \ version.allows, n, TRUE)
          PROVE  Once
      <3>1. /\ n \in Nat /\ asps[n] \ version.allows \in SUBSET Items
            /\ latest \in DOMAIN asps => n = latest
        BY <2>2
      <3> HIDE DEF Once
      <3>2. QED
        BY <1>1, <1>4, <2>3, <3>1
    <2>4. QED
      BY <1>2, <2>1, <2>3
  <1>5. ASSUME PruneAsps \/ TurnOff \/ Tick \/ AcknowledgeOverflow
        PROVE  Once
    BY <1>2, <1>5 DEF PruneAsps, TurnOff, Tick, AcknowledgeOverflow
  <1>6. ASSUME RowsInv, NEW j \in Items, Acknowledge(j)
        PROVE  Once
    <2>1. rows' = [rows EXCEPT ![j].open = FALSE]
      BY <1>6 DEF Acknowledge
    <2>2. \A i \in Items : rows[i] # NoRow =>
             rows'[i].hits = rows[i].hits /\ (rows'[i].open => rows[i].open)
      BY <1>6, <2>1 DEF RowsInv, TypeOK, Row
    <2>3. QED
      BY <2>2
  <1> HIDE DEF Once
  <1>7. ASSUME RowsInv, Next
        PROVE  Once
    <2>1. TypeOK /\ AspItems \subseteq Items
      BY <1>7 DEF RowsInv, AspItems
    <2>2. QED
      BY <1>3, <1>4, <1>5, <1>6, <1>7, <2>1, NextCases
  <1>8. RowsInv /\ [Next]_vars => [Once]_vars
    BY <1>7
  <1>9. QED
    BY <1>8, RowsInvariant, PTL DEF Spec, CountedOnce, Once
=============================================================================
