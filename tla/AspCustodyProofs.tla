-------------------------- MODULE AspCustodyProofs --------------------------
(***************************************************************************)
(* Theorems about AspCustody for every value of its constants: its types,  *)
(* that locked evidence is kept, that an ASP is locked at most once, that  *)
(* replays are answered and no drift result misattributes, that only the   *)
(* deletion of an agent's newest ASP can leave the newest uncompared, and  *)
(* that the module implements AspArchive.                                  *)
(***************************************************************************)
EXTENDS AspCustody, WellFoundedInduction, TLAPS

(* Every identity on file was resolved from its bundle and the sender's    *)
(* key, under one precedence or the other.                                 *)
FiledAsResolved ==
    \A b \in DOMAIN asps :
        \E m \in BOOLEAN : asps[b].identity = ResolveIdentity(b, asps[b].sender, m)

(* Every drift result holds the verdict compare_alignment gives.           *)
VerdictsTrue == \A d \in drift : d.verdict = Verdict(d.asp, d.version)

CustodyInv ==
    TypeOK /\ EvidenceKept /\ LockedAtMostOnce /\ FiledAsResolved /\ VerdictsTrue
-----------------------------------------------------------------------------
(* resolve_identity returns an identity or raises.                         *)
LEMMA ResolveType ==
    ASSUME NEW b \in Bundles, NEW k \in Senders, NEW m \in BOOLEAN
    PROVE  ResolveIdentity(b, k, m) \in Identities \cup {NoIdentity}
  <1>1. Content[b] \in ContentType
    BY ContentAssumption
  <1>2. QED
    BY <1>1, KeyAssumption
    DEF ResolveIdentity, KeyIdentity, Identities, ContentType, LocalKey, ExplicitKey

(* Whether it raises does not depend on the precedence, but for a key that *)
(* cannot be used: the single-agent precedence may still find an identity. *)
LEMMA ResolveTotal ==
    ASSUME NEW b \in Bundles, NEW k \in Senders,
           NEW m \in BOOLEAN, NEW n \in BOOLEAN,
           ResolveIdentity(b, k, m) # NoIdentity, k \notin Unusable \/ ~n
    PROVE  ResolveIdentity(b, k, n) # NoIdentity
  <1>1. Content[b] \in ContentType
    BY ContentAssumption
  <1>2. \A x \in Identities : x # NoIdentity
    BY AbsentAssumption
  <1>3. \A x \in Keys : LocalKey(x) \in Identities
    BY DEF LocalKey, Identities
  <1>4. \A x \in Deployments : [kind |-> "deployment", value |-> x] \in Identities
    BY DEF Identities
  <1>5. \A x \in SUBSET Keys : [kind |-> "local_agent_keys", value |-> x] \in Identities
    BY DEF Identities
  <1>6. QED
    BY <1>1, <1>2, <1>3, <1>4, <1>5, KeyAssumption
    DEF ResolveIdentity, KeyIdentity, ContentType, ExplicitKey, Senders

(* An identity resolve_identity ever gave a bundle is what                 *)
(* compare_alignment resolves the bundle to from that identity alone.      *)
LEMMA ComparedAsFiled ==
    ASSUME NEW b \in Bundles, NEW k \in Senders, NEW m \in BOOLEAN,
           NEW i \in Identities, i = ResolveIdentity(b, k, m)
    PROVE  ComparedIdentity(b, i) = i
  <1>1. Content[b] \in ContentType
    BY ContentAssumption
  <1>2. i # NoIdentity
    BY AbsentAssumption
  <1>3. CASE i.kind = "local_agent_key"
    <2>1. i = LocalKey(k) /\ k \in Keys
      BY <1>1, <1>2, <1>3
      DEF ResolveIdentity, KeyIdentity, ContentType, LocalKey, ExplicitKey
    <2>2. i.value = k
      BY <2>1 DEF LocalKey
    <2>3. ComparedIdentity(b, i) = ResolveIdentity(b, k, TRUE)
      BY <1>3, <2>2 DEF ComparedIdentity
    <2>4. ResolveIdentity(b, k, TRUE) = LocalKey(k)
      BY <1>1, <1>3, <2>1, KeyAssumption
      DEF ResolveIdentity, KeyIdentity, ContentType, LocalKey, ExplicitKey
    <2>5. QED
      BY <2>1, <2>3, <2>4
  <1>4. CASE i.kind # "local_agent_key"
    <2>1. ComparedIdentity(b, i) = ResolveIdentity(b, NoKey, FALSE)
      BY <1>4 DEF ComparedIdentity
    <2>2. i # LocalKey(k)
      BY <1>4 DEF LocalKey
    <2>3. ResolveIdentity(b, NoKey, FALSE) = ResolveIdentity(b, k, m)
      BY <1>1, <1>2, <2>2, KeyAssumption
      DEF ResolveIdentity, KeyIdentity, ContentType, ExplicitKey
    <2>4. QED
      BY <2>1, <2>3
  <1>5. QED
    BY <1>3, <1>4

(* Retention deletes stored, unlocked ASPs only.                           *)
LEMMA PruneSparesLocked ==
    ASSUME NEW A, NEW bounds, NEW gone \in PruneChoices(A, bounds)
    PROVE  gone \subseteq DOMAIN A /\ \A v \in versions : v.asp \notin gone
  BY DEF PruneChoices, Unlocked

(* The comparisons of evidence with a version are well-typed and true.     *)
LEMMA ComparisonsType ==
    ASSUME NEW S \in SUBSET Bundles, NEW v \in Versions
    PROVE  /\ Comparisons(S, v) \subseteq Comparison
           /\ \A d \in Comparisons(S, v) : /\ d.asp \in S /\ d.version = v
                                           /\ d.verdict = Verdict(d.asp, d.version)
  BY DEF Comparisons, Comparison, Verdict
-----------------------------------------------------------------------------
(* With no evidence loaded and no version approved every part holds.       *)
LEMMA InitCustody == Init => CustodyInv
  BY AbsentAssumption, BoundAssumption
  DEF Init, CustodyInv, TypeOK, EvidenceKept, LockedAtMostOnce, FiledAsResolved,
      VerdictsTrue

(* A loaded ASP is filed under the identity it resolves to, and compared   *)
(* with the approved version its identity is locked to.                    *)
LEMMA LoadStep ==
    ASSUME CustodyInv, NEW b \in Bundles, NEW k \in Senders, LoadAsp(b, k)
    PROVE  CustodyInv'
  <1> DEFINE i == ResolveIdentity(b, k, MultiAgent(b))
             r == [identity |-> i, storedAt |-> now, row |-> loads, sender |-> SenderKept(b, k)]
             A == [c \in DOMAIN asps \cup {b} |-> IF c = b THEN r ELSE asps[c]]
             D == IF binding[i] = NoVersion THEN drift
                  ELSE drift \cup Comparisons({b}, binding[i])
  <1> USE DEF CustodyInv
  <1>1. PICK gone \in PruneChoices(A, retention) :
           asps' = Without(A, gone) /\ drift' = {d \in D : d.asp \notin gone}
    BY DEF LoadAsp
  <1>2. /\ gone \subseteq DOMAIN asps \cup {b}
        /\ \A v \in versions : v.asp \notin gone
    BY PruneSparesLocked
  <1>3. /\ UNCHANGED <<versions, binding, retention, now>>
        /\ loads' = loads + 1
        /\ b \notin DOMAIN asps
        /\ i # NoIdentity
    BY DEF LoadAsp, Identified
  <1>4. MultiAgent(b) \in BOOLEAN
    BY DEF MultiAgent, HasV2History
  <1>5. i \in Identities
    BY <1>3, <1>4, ResolveType
  <1>6. r \in AspRow
    BY <1>5 DEF AspRow, TypeOK, SenderKept, Senders
  <1>7. /\ DOMAIN asps' = (DOMAIN asps \cup {b}) \ gone
        /\ \A c \in DOMAIN asps' : asps'[c] = IF c = b THEN r ELSE asps[c]
    BY <1>1 DEF Without
  <1>8. \A d \in D : /\ d \in Comparison /\ d.version \in versions
                     /\ d.verdict = Verdict(d.asp, d.version)
                     /\ \/ d \in drift
                        \/ d.asp = b /\ d.version.identity = i
    <2>1. CASE binding[i] = NoVersion
      BY <2>1 DEF TypeOK, EvidenceKept, VerdictsTrue
    <2>2. CASE binding[i] # NoVersion
      <3>1. binding[i] \in versions /\ binding[i] \in Versions /\ binding[i].identity = i
        BY <1>5, <2>2 DEF TypeOK, EvidenceKept
      <3>2. QED
        BY <2>2, <3>1, ComparisonsType DEF TypeOK, EvidenceKept, VerdictsTrue
    <2>3. QED
      BY <2>1, <2>2
  <1>9. TypeOK'
    <2>1. DOMAIN asps' \subseteq Bundles /\ \A c \in DOMAIN asps' : asps'[c] \in AspRow
      BY <1>6, <1>7 DEF TypeOK
    <2>2. drift' \subseteq Comparison
      BY <1>1, <1>8
    <2>3. QED
      BY <1>3, <2>1, <2>2 DEF TypeOK
  <1>10. EvidenceKept'
    <2>1. \A v \in versions : v.asp \in DOMAIN asps' /\ asps'[v.asp].identity = v.identity
      BY <1>2, <1>3, <1>7 DEF EvidenceKept
    <2>2. ASSUME NEW d \in drift'
          PROVE  /\ d.version \in versions /\ d.asp \in DOMAIN asps'
                 /\ asps'[d.asp].identity = d.version.identity
      <3>1. d \in D /\ d.asp \notin gone
        BY <1>1
      <3>2. CASE d \in drift
        <4>1. d.asp \in DOMAIN asps /\ asps[d.asp].identity = d.version.identity
          BY <3>2 DEF EvidenceKept
        <4>2. d.asp \in DOMAIN asps' /\ asps'[d.asp] = asps[d.asp]
          BY <1>3, <1>7, <3>1, <4>1
        <4>3. QED
          BY <3>2, <4>1, <4>2 DEF EvidenceKept
      <3>3. CASE d.asp = b /\ d.version.identity = i
        <4>1. d.asp \in DOMAIN asps' /\ asps'[d.asp] = r
          BY <1>7, <3>1, <3>3
        <4>2. d.version \in versions
          BY <1>8, <3>1
        <4>3. QED
          BY <3>3, <4>1, <4>2
      <3>4. QED
        BY <1>8, <3>1, <3>2, <3>3
    <2>3. QED
      BY <1>3, <2>1, <2>2 DEF EvidenceKept
  <1>11. LockedAtMostOnce'
    BY <1>3 DEF LockedAtMostOnce
  <1>12. FiledAsResolved'
    <2>1. r.identity = ResolveIdentity(b, r.sender, MultiAgent(b))
      <3>1. CASE Content[b].version = 1
        BY <3>1 DEF SenderKept
      <3>2. CASE Content[b].version # 1
        <4>1. \A x : ResolveIdentity(b, x, MultiAgent(b)) = i
          BY <3>2, ContentAssumption DEF ResolveIdentity, ContentType
        <4>2. QED
          BY <4>1
      <3>3. QED
        BY <3>1, <3>2
    <2>2. \A c \in DOMAIN asps' : c # b => c \in DOMAIN asps /\ asps'[c] = asps[c]
      BY <1>7
    <2>3. \A c \in DOMAIN asps' : c = b => asps'[c] = r
      BY <1>7
    <2>4. QED
      BY <1>4, <2>1, <2>2, <2>3 DEF FiledAsResolved
  <1>13. VerdictsTrue'
    BY <1>1, <1>8 DEF VerdictsTrue, Verdict, ComparedIdentity, ResolveIdentity
  <1>14. QED
    BY <1>9, <1>10, <1>11, <1>12, <1>13

(* Deleting what retention chose, the whole of PruneAspHistory.            *)
LEMMA PruneStep ==
    ASSUME CustodyInv, NEW bounds \in Retentions, PruneAspHistory(bounds)
    PROVE  CustodyInv'
  <1> USE DEF CustodyInv
  <1>1. PICK gone \in PruneChoices(asps, bounds) :
           asps' = Without(asps, gone) /\ drift' = {d \in drift : d.asp \notin gone}
    BY DEF PruneAspHistory
  <1>2. \A v \in versions : v.asp \notin gone
    BY PruneSparesLocked
  <1>3. UNCHANGED <<versions, binding, retention, now, loads>>
    BY DEF PruneAspHistory
  <1>4. /\ DOMAIN asps' = DOMAIN asps \ gone
        /\ \A c \in DOMAIN asps' : asps'[c] = asps[c]
    BY <1>1 DEF Without
  <1>5. TypeOK'
    BY <1>1, <1>3, <1>4 DEF TypeOK
  <1>6. EvidenceKept'
    BY <1>1, <1>2, <1>3, <1>4 DEF EvidenceKept
  <1>7. LockedAtMostOnce' /\ FiledAsResolved'
    BY <1>3, <1>4 DEF LockedAtMostOnce, FiledAsResolved
  <1>8. VerdictsTrue'
    BY <1>1 DEF VerdictsTrue
  <1>9. QED
    BY <1>5, <1>6, <1>7, <1>8

(* _lock_locked adds one well-typed version of the ASP's own identity.     *)
LEMMA LockAdds ==
    ASSUME CustodyInv, NEW b \in DOMAIN asps, NEW label \in Labels,
           NotLockedYet(b), LockVersion(b, label)
    PROVE  LET v == [asp |-> b, label |-> label, identity |-> asps[b].identity]
           IN  /\ v \in Versions
               /\ versions' = versions \cup {v}
               /\ versions' \subseteq Versions
               /\ LockedAtMostOnce'
  <1> USE DEF CustodyInv
  <1> DEFINE v == [asp |-> b, label |-> label, identity |-> asps[b].identity]
  <1>1. versions' = versions \cup {v}
    BY DEF LockVersion
  <1>2. v \in Versions
    BY DEF TypeOK, AspRow, Versions
  <1>3. \A w \in versions : w.asp # b /\ (w.identity = asps[b].identity => w.label # label)
    BY DEF NotLockedYet, LockedVersionOf, LockVersion
  <1>4. LockedAtMostOnce'
    BY <1>1, <1>3 DEF LockedAtMostOnce
  <1>5. QED
    BY <1>1, <1>2, <1>4 DEF TypeOK

(* _switch_locked binds a version to its own identity and adds comparisons *)
(* of that identity's newest ASP with it.                                  *)
LEMMA BindKeeps ==
    ASSUME CustodyInv, NEW v \in Versions, v \in versions', BindAndCompare(v),
           v.asp \in DOMAIN asps, asps[v.asp].identity = v.identity,
           versions \subseteq versions', versions' \subseteq versions \cup {v}, LockedAtMostOnce',
           UNCHANGED <<asps, retention, now, loads>>
    PROVE  CustodyInv'
  <1> USE DEF CustodyInv
  <1> DEFINE C == Comparisons(Newest(asps, v.identity), v)
  <1>1. /\ binding' = [binding EXCEPT ![v.identity] = v]
        /\ drift' = drift \cup C
    BY DEF BindAndCompare
  <1>2. v.identity \in Identities
    BY DEF Versions
  <1>3. Newest(asps, v.identity) \subseteq {c \in DOMAIN asps : asps[c].identity = v.identity}
    BY DEF Newest
  <1>4. /\ C \subseteq Comparison
        /\ \A d \in C : /\ d.asp \in Newest(asps, v.identity) /\ d.version = v
                       /\ d.verdict = Verdict(d.asp, d.version)
    BY <1>3, ComparisonsType DEF TypeOK
  <1>5. TypeOK'
    <2>1. binding' \in [Identities -> versions' \cup {NoVersion}]
      BY <1>1, <1>2 DEF TypeOK
    <2>2. QED
      BY <1>1, <1>4, <2>1 DEF TypeOK
  <1>6. EvidenceKept'
    <2>1. \A w \in versions' : w.asp \in DOMAIN asps /\ asps[w.asp].identity = w.identity
      BY DEF EvidenceKept
    <2>2. \A d \in drift' : /\ d.version \in versions' /\ d.asp \in DOMAIN asps
                            /\ asps[d.asp].identity = d.version.identity
      BY <1>1, <1>3, <1>4 DEF EvidenceKept
    <2>3. \A i \in Identities : binding'[i] # NoVersion => binding'[i].identity = i
      BY <1>1, <1>2 DEF EvidenceKept, TypeOK
    <2>4. QED
      BY <2>1, <2>2, <2>3 DEF EvidenceKept
  <1>7. FiledAsResolved'
    BY DEF FiledAsResolved
  <1>8. VerdictsTrue'
    BY <1>1, <1>4 DEF VerdictsTrue
  <1>9. QED
    BY <1>5, <1>6, <1>7, <1>8
-----------------------------------------------------------------------------
(* Every step keeps the custody invariant.                                 *)
LEMMA NextCustody == CustodyInv /\ [Next]_vars => CustodyInv'
  <1> SUFFICES ASSUME CustodyInv, [Next]_vars PROVE CustodyInv'
    OBVIOUS
  <1> USE DEF CustodyInv
  <1>1. ASSUME NEW b \in Bundles, NEW k \in Senders, LoadAsp(b, k)
        PROVE  CustodyInv'
    BY <1>1, LoadStep
  <1>2. ASSUME NEW b \in Bundles, NEW label \in Labels, LockAlignment(b, label)
        PROVE  CustodyInv'
    <2> DEFINE v == [asp |-> b, label |-> label, identity |-> asps[b].identity]
    <2>1. /\ b \in DOMAIN asps /\ NotLockedYet(b) /\ LockVersion(b, label)
          /\ UNCHANGED <<asps, binding, drift, retention, now, loads>>
      BY <1>2 DEF LockAlignment
    <2>2. /\ versions' = versions \cup {v} /\ versions' \subseteq Versions
          /\ LockedAtMostOnce'
      BY <2>1, LockAdds
    <2>3. TypeOK'
      BY <2>1, <2>2 DEF TypeOK
    <2>4. EvidenceKept'
      BY <2>1, <2>2 DEF EvidenceKept
    <2>5. FiledAsResolved' /\ VerdictsTrue'
      BY <2>1 DEF FiledAsResolved, VerdictsTrue
    <2>6. QED
      BY <2>2, <2>3, <2>4, <2>5
  <1>3. ASSUME NEW v \in versions, SwitchAlignment(v)
        PROVE  CustodyInv'
    <2>1. v \in Versions /\ v.asp \in DOMAIN asps /\ asps[v.asp].identity = v.identity
      BY DEF TypeOK, EvidenceKept
    <2>2. BindAndCompare(v) /\ UNCHANGED <<asps, versions, retention, now, loads>>
      BY <1>3 DEF SwitchAlignment
    <2>3. LockedAtMostOnce'
      BY <2>2 DEF LockedAtMostOnce
    <2>4. QED
      BY <2>1, <2>2, <2>3, BindKeeps
  <1>4. ASSUME NEW b \in Bundles, NEW label \in Labels, LockAsBaseline(b, label)
        PROVE  CustodyInv'
    <2> DEFINE v == [asp |-> b, label |-> label, identity |-> asps[b].identity]
    <2>1. /\ b \in DOMAIN asps /\ NotLockedYet(b) /\ LockVersion(b, label)
          /\ BindAndCompare(v) /\ UNCHANGED <<asps, retention, now, loads>>
      BY <1>4 DEF LockAsBaseline
    <2>2. /\ v \in Versions /\ versions' = versions \cup {v}
          /\ LockedAtMostOnce'
      BY <2>1, LockAdds
    <2>3. v.asp = b /\ v.identity = asps[b].identity
      OBVIOUS
    <2> HIDE DEF v
    <2>4. QED
      BY <2>1, <2>2, <2>3, BindKeeps
  <1>5. ASSUME NEW b \in Bundles, RestoreBaseline(b)
        PROVE  CustodyInv'
    <2>1. PICK v \in LockedVersionOf(b) : BindAndCompare(v)
      BY <1>5 DEF RestoreBaseline
    <2>2. UNCHANGED <<asps, versions, retention, now, loads>>
      BY <1>5 DEF RestoreBaseline
    <2>3. /\ v \in versions /\ v \in Versions
          /\ v.asp \in DOMAIN asps /\ asps[v.asp].identity = v.identity
      BY DEF LockedVersionOf, TypeOK, EvidenceKept
    <2>4. LockedAtMostOnce'
      BY <2>2 DEF LockedAtMostOnce
    <2>5. QED
      BY <2>1, <2>2, <2>3, <2>4, BindKeeps
  <1>6. ASSUME NEW bounds \in Retentions, PruneAspHistory(bounds)
        PROVE  CustodyInv'
    BY <1>6, PruneStep
  <1>7. ASSUME NEW bounds \in Retentions, SetAspRetention(bounds)
        PROVE  CustodyInv'
    BY <1>7 DEF SetAspRetention, TypeOK, EvidenceKept, LockedAtMostOnce, FiledAsResolved,
                VerdictsTrue
  <1>8. CASE ClockMoves
    BY <1>8, BoundAssumption DEF ClockMoves, TypeOK, EvidenceKept, LockedAtMostOnce, FiledAsResolved,
                VerdictsTrue
  <1>9. CASE UNCHANGED vars
    BY <1>9 DEF vars, TypeOK, EvidenceKept, LockedAtMostOnce, FiledAsResolved,
                VerdictsTrue
  <1>10. QED
    BY <1>1, <1>2, <1>3, <1>4, <1>5, <1>6, <1>7, <1>8, <1>9 DEF Next

(* Evidence, locks, identities and verdicts stay right, whatever is loaded,*)
(* approved, removed or pruned, in whatever order.                         *)
THEOREM Custody == Spec => []CustodyInv
  BY InitCustody, NextCustody, PTL DEF Spec

(* The tables stay well-typed.                                             *)
THEOREM TypeCorrect == Spec => []TypeOK
  <1>1. CustodyInv => TypeOK
    BY DEF CustodyInv
  <1>2. QED
    BY <1>1, Custody, PTL

(* "Locked versions and their ASPs are never pruned", for any number of    *)
(* agents, bundles and retention bounds.                                   *)
THEOREM LockedEvidenceKept == Spec => []EvidenceKept
  <1>1. CustodyInv => EvidenceKept
    BY DEF CustodyInv
  <1>2. QED
    BY <1>1, Custody, PTL

(* An ASP is locked at most once and labels are unique per agent.          *)
THEOREM LockedOnce == Spec => []LockedAtMostOnce
  <1>1. CustodyInv => LockedAtMostOnce
    BY DEF CustodyInv
  <1>2. QED
    BY <1>1, Custody, PTL

(* The caller that stored a bundle gets its replay answered, unless its    *)
(* key cannot be used and the sandbox has v2 history now.                  *)
THEOREM ReplaysAnswered == Spec => []ReplayAnswered
  <1>1. CustodyInv => ReplayAnswered
    <2> SUFFICES ASSUME CustodyInv, NEW b \in DOMAIN asps,
                        asps[b].sender \notin Unusable \/ ~MultiAgent(b)
                 PROVE  ReplayAccepted(b, asps[b].sender)
      BY DEF ReplayAnswered
    <2> DEFINE k == asps[b].sender
               multi == MultiAgent(b)
    <2>1. b \in Bundles /\ k \in Senders /\ asps[b].identity \in Identities
      BY DEF CustodyInv, TypeOK, AspRow
    <2>2. multi \in BOOLEAN
      BY DEF MultiAgent, HasV2History
    <2>3. PICK m \in BOOLEAN : asps[b].identity = ResolveIdentity(b, k, m)
      BY DEF CustodyInv, FiledAsResolved
    <2>4. ResolveIdentity(b, k, multi) # NoIdentity
      BY <2>1, <2>2, <2>3, ResolveTotal, AbsentAssumption
    <2>5. asps[b].identity \in ReplayIdentities(b, k)
      <3>1. CASE Content[b].version = 1 /\ ExplicitKey(k)
        BY <2>2, <2>3, <3>1 DEF ReplayIdentities
      <3>2. CASE ~(Content[b].version = 1 /\ ExplicitKey(k))
        <4>1. ResolveIdentity(b, k, m) = ResolveIdentity(b, k, multi)
          BY <3>2 DEF ResolveIdentity
        <4>2. QED
          BY <2>3, <4>1 DEF ReplayIdentities
      <3>3. QED
        BY <3>1, <3>2
    <2>6. QED
      BY <2>4, <2>5 DEF ReplayAccepted
  <1>2. QED
    BY <1>1, Custody, PTL

(* No drift result ever blames the evidence for an identity the store      *)
(* itself chose.                                                           *)
THEOREM NothingMisattributed == Spec => []NoMisattribution
  <1>1. CustodyInv => NoMisattribution
    <2> SUFFICES ASSUME CustodyInv, NEW d \in drift
                 PROVE  d.verdict \in {"COMPARED", "CONTRACT_MISMATCH"}
      BY DEF NoMisattribution
    <2> DEFINE v == d.version
    <2>1. /\ v \in versions /\ v.identity \in Identities /\ v.asp \in DOMAIN asps
          /\ d.asp \in DOMAIN asps /\ asps[v.asp].identity = v.identity
          /\ asps[d.asp].identity = v.identity
      BY DEF CustodyInv, TypeOK, EvidenceKept, Versions
    <2>2. ASSUME NEW b \in DOMAIN asps, asps[b].identity = v.identity
          PROVE  ComparedIdentity(b, v.identity) = v.identity
      <3>1. b \in Bundles /\ asps[b].sender \in Senders
        BY DEF CustodyInv, TypeOK, AspRow
      <3>2. PICK m \in BOOLEAN : v.identity = ResolveIdentity(b, asps[b].sender, m)
        BY <2>2 DEF CustodyInv, FiledAsResolved
      <3>3. QED
        BY <2>1, <3>1, <3>2, ComparedAsFiled
    <2>3. ComparedIdentity(v.asp, v.identity) = v.identity
      BY <2>1, <2>2
    <2>4. ComparedIdentity(d.asp, v.identity) = v.identity
      BY <2>1, <2>2
    <2>5. d.verdict = Verdict(d.asp, v)
      BY DEF CustodyInv, VerdictsTrue
    <2>6. QED
      BY <2>3, <2>4, <2>5 DEF Verdict
  <1>2. QED
    BY <1>1, Custody, PTL
-----------------------------------------------------------------------------
(* While a sandbox has v2 history, a new v1 ASP of it is one agent's.      *)
THEOREM SharedSandboxesKeyed == Spec => SharedSandboxKeyed
  <1> DEFINE Keyed == \A b \in DOMAIN asps' \ DOMAIN asps :
                         MultiAgent(b) => \E k \in Keys \ {DefaultKey} :
                                             asps'[b].identity = LocalKey(k)
  <1>1. CustodyInv /\ [Next]_vars => [Keyed]_vars
    <2> SUFFICES ASSUME CustodyInv, [Next]_vars,
                        NEW b \in DOMAIN asps' \ DOMAIN asps, MultiAgent(b)
                 PROVE  \E k \in Keys \ {DefaultKey} : asps'[b].identity = LocalKey(k)
      OBVIOUS
    <2>1. ASSUME NEW c \in Bundles, NEW k \in Senders, LoadAsp(c, k)
          PROVE  \E x \in Keys \ {DefaultKey} : asps'[b].identity = LocalKey(x)
      <3> DEFINE i == ResolveIdentity(c, k, MultiAgent(c))
                 A == [x \in DOMAIN asps \cup {c} |->
                         IF x = c THEN [identity |-> i, storedAt |-> now,
                                        row |-> loads, sender |-> SenderKept(c, k)]
                                  ELSE asps[x]]
      <3>1. PICK gone \in PruneChoices(A, retention) : asps' = Without(A, gone)
        BY <2>1 DEF LoadAsp
      <3>2. b = c /\ asps'[b].identity = i
        BY <3>1 DEF Without
      <3>3. ExplicitKey(k) /\ Content[c].version = 1
        BY <2>1, <3>2 DEF LoadAsp, Identified, MultiAgent
      <3>4. i = LocalKey(k) /\ k \in Keys
        BY <2>1, <3>2, <3>3 DEF LoadAsp, Identified, ResolveIdentity, KeyIdentity
      <3>5. QED
        BY <3>2, <3>3, <3>4 DEF ExplicitKey
    <2>2. ASSUME NEW bounds \in Retentions, PruneAspHistory(bounds)
          PROVE  FALSE
      BY <2>2 DEF PruneAspHistory, Without
    <2>3. asps' = asps \/ (\E c \in Bundles, k \in Senders : LoadAsp(c, k))
                        \/ (\E bounds \in Retentions : PruneAspHistory(bounds))
      BY DEF Next, vars, LockAlignment, SwitchAlignment, LockAsBaseline, RestoreBaseline,
             SetAspRetention, ClockMoves
    <2>4. QED
      BY <2>1, <2>2, <2>3
  <1>2. QED
    BY <1>1, Custody, PTL DEF Spec, SharedSandboxKeyed
-----------------------------------------------------------------------------
(* The custody implements the archive: append-only versions, each backed   *)
(* by evidence kept for ever, and agents held to versions of their own.    *)
LEMMA InitRefines == Init => Archive!ArchiveInit
  BY DEF Init, Archive!ArchiveInit

(* Each step of the tables is a step of the archive, or leaves it as it    *)
(* was.                                                                    *)
LEMMA StepRefines ==
    ASSUME CustodyInv, [Next]_vars
    PROVE  [Archive!ArchiveNext]_(Archive!archiveVars)
  <1> DEFINE ev == [b \in DOMAIN asps |-> asps[b].identity]
  <1>1. CASE UNCHANGED vars
    BY <1>1 DEF vars, Archive!archiveVars
  <1>2. ASSUME NEW b \in Bundles, NEW k \in Senders, LoadAsp(b, k)
        PROVE  Archive!ArchiveNext
    <2> DEFINE i == ResolveIdentity(b, k, MultiAgent(b))
               A == [x \in DOMAIN asps \cup {b} |->
                       IF x = b THEN [identity |-> i, storedAt |-> now,
                                      row |-> loads, sender |-> SenderKept(b, k)]
                                ELSE asps[x]]
    <2>1. PICK gone \in PruneChoices(A, retention) : asps' = Without(A, gone)
      BY <1>2 DEF LoadAsp
    <2>2. \A v \in versions : v.asp \notin gone /\ v.asp \in DOMAIN asps
      BY PruneSparesLocked DEF CustodyInv, EvidenceKept
    <2>3. /\ UNCHANGED <<versions, binding>> /\ b \notin DOMAIN asps /\ i # NoIdentity
      BY <1>2 DEF LoadAsp, Identified
    <2>4. MultiAgent(b) \in BOOLEAN
      BY DEF MultiAgent, HasV2History
    <2>5. i \in Identities
      BY <2>3, <2>4, ResolveType
    <2>6. PICK x \in Identities : x = i
      BY <2>5
    <2> DEFINE kept == (DOMAIN asps \cup {b}) \ gone
    <2>7. [c \in DOMAIN asps' |-> asps'[c].identity]
            = [c \in kept |-> IF c = b THEN x ELSE ev[c]]
      BY <2>1, <2>3, <2>6 DEF Without
    <2>8. Archive!Kept \subseteq kept
      BY <2>2 DEF Archive!Kept
    <2>9. DOMAIN ev = DOMAIN asps /\ b \notin DOMAIN ev
      BY <2>3
    <2>10. Archive!Collect(b, x)
      BY <2>3, <2>7, <2>8, <2>9 DEF Archive!Collect
    <2>11. QED
      BY <2>6, <2>10 DEF Archive!ArchiveNext
  <1>3. ASSUME NEW bounds \in Retentions, PruneAspHistory(bounds)
        PROVE  Archive!ArchiveNext
    <2>1. PICK gone \in PruneChoices(asps, bounds) : asps' = Without(asps, gone)
      BY <1>3 DEF PruneAspHistory
    <2>2. \A v \in versions : v.asp \notin gone /\ v.asp \in DOMAIN asps
      BY PruneSparesLocked DEF CustodyInv, EvidenceKept
    <2> DEFINE kept == DOMAIN asps \ gone
    <2>3. [c \in DOMAIN asps' |-> asps'[c].identity] = [c \in kept |-> ev[c]]
      BY <2>1 DEF Without
    <2>4. Archive!Kept \subseteq kept
      BY <2>2 DEF Archive!Kept
    <2>5. UNCHANGED <<versions, binding>> /\ DOMAIN ev = DOMAIN asps
      BY <1>3 DEF PruneAspHistory
    <2>6. Archive!Retire
      BY <2>3, <2>4, <2>5 DEF Archive!Retire
    <2>7. QED
      BY <2>6 DEF Archive!ArchiveNext
  <1>4. ASSUME NEW b \in DOMAIN asps, NEW label \in Labels, NotLockedYet(b),
               LockVersion(b, label)
        PROVE  LET v == [asp |-> b, label |-> label, identity |-> asps[b].identity]
               IN  Archive!VersionOf(b, label) = v /\ Archive!Record(v)
    BY <1>4 DEF NotLockedYet, LockedVersionOf, LockVersion, Archive!VersionOf, Archive!Record
  <1>5. ASSUME NEW b \in Bundles, NEW label \in Labels, LockAlignment(b, label)
        PROVE  Archive!ArchiveNext
    <2> DEFINE v == [asp |-> b, label |-> label, identity |-> asps[b].identity]
    <2>1. b \in DOMAIN asps /\ NotLockedYet(b) /\ LockVersion(b, label)
          /\ UNCHANGED <<asps, binding>>
      BY <1>5 DEF LockAlignment
    <2>2. Archive!VersionOf(b, label) = v /\ Archive!Record(v)
      BY <2>1, <1>4
    <2>3. Archive!Lock(Archive!VersionOf(b, label))
      BY <2>1, <2>2 DEF Archive!Lock
    <2>4. QED
      BY <2>1, <2>3 DEF Archive!ArchiveNext
  <1>6. ASSUME NEW b \in Bundles, NEW label \in Labels, LockAsBaseline(b, label)
        PROVE  Archive!ArchiveNext
    <2> DEFINE v == [asp |-> b, label |-> label, identity |-> asps[b].identity]
    <2>1. b \in DOMAIN asps /\ NotLockedYet(b) /\ LockVersion(b, label)
          /\ BindAndCompare(v) /\ UNCHANGED asps
      BY <1>6 DEF LockAsBaseline
    <2>2. Archive!VersionOf(b, label) = v /\ Archive!Record(v)
      BY <2>1, <1>4
    <2>3. Archive!LockAndBind(Archive!VersionOf(b, label))
      BY <2>1, <2>2 DEF Archive!LockAndBind, Archive!Bind, BindAndCompare
    <2>4. QED
      BY <2>1, <2>3 DEF Archive!ArchiveNext
  <1>7. ASSUME NEW v \in versions, BindAndCompare(v), UNCHANGED <<asps, versions>>
        PROVE  Archive!ArchiveNext
    BY <1>7 DEF BindAndCompare, Archive!Bind, Archive!Activate, Archive!ArchiveNext
  <1>8. ASSUME NEW v \in versions, SwitchAlignment(v)
        PROVE  Archive!ArchiveNext
    BY <1>7, <1>8 DEF SwitchAlignment
  <1>9. ASSUME NEW b \in Bundles, RestoreBaseline(b)
        PROVE  Archive!ArchiveNext
    BY <1>7, <1>9 DEF RestoreBaseline, LockedVersionOf
  <1>10. CASE ClockMoves \/ \E bounds \in Retentions : SetAspRetention(bounds)
    BY <1>10 DEF ClockMoves, SetAspRetention, Archive!archiveVars
  <1>11. QED
    BY <1>1, <1>2, <1>3, <1>5, <1>6, <1>8, <1>9, <1>10 DEF Next

(* asp.py's tables do what the archive promises of evidence and of the     *)
(* version an agent is locked to.                                          *)
THEOREM ImplementsArchive == Spec => ArchiveKept
  BY InitRefines, StepRefines, Custody, PTL DEF Spec, ArchiveKept, Archive!ArchiveSpec
-----------------------------------------------------------------------------
(* The newest ASP and what it was compared with *)

(* Any set of naturals with an upper bound has a largest member.           *)
LEMMA LargestOf ==
    ASSUME NEW S, S \subseteq Nat, S # {}, NEW top \in Nat, \A n \in S : n <= top
    PROVE  \E m \in S : \A n \in S : n <= m
<1> DEFINE R == OpToRel(<, Nat)
           T == {k \in Nat : \E n \in S : k = top - n}
<1>1. IsWellFoundedOn(R, Nat)
  BY NatLessThanWellFounded
<1>2. T \subseteq Nat
  OBVIOUS
<1>3. T # {}
  <2>1. PICK n \in S : TRUE
    OBVIOUS
  <2>2. top - n \in T
    BY <2>1
  <2> QED BY <2>2
<1> HIDE DEF R
<1>4. PICK x \in T : \A y \in T : <<y, x>> \notin R
  BY <1>1, <1>2, <1>3, WFMin
<1>5. \A y \in Nat : y < x => <<y, x>> \in R
  BY <1>2 DEF R, OpToRel
<1>6. PICK m \in S : x = top - m
  OBVIOUS
<1>7. ASSUME NEW n \in S PROVE n <= m
  <2>1. top - n \in T /\ top - n \in Nat /\ n \in Nat /\ m \in Nat
    BY <1>7
  <2>2. ~ (top - n < x)
    BY <1>4, <1>5, <2>1
  <2> QED BY <1>6, <2>1, <2>2
<1> QED BY <1>7

(* Stored ASPs are numbered in the order they came, and none of them was   *)
(* stored later than the clock may say.                                    *)
Numbered ==
    /\ now <= MaxTime
    /\ \A b \in DOMAIN asps : asps[b].storedAt <= MaxTime /\ asps[b].row < loads
    /\ \A b, c \in DOMAIN asps : asps[b].row = asps[c].row => b = c

(* An agent with a stored ASP has a newest one, and only one.              *)
LEMMA OneNewest ==
    ASSUME NEW A, \A b \in DOMAIN A : A[b].storedAt \in Nat /\ A[b].row \in Nat,
           NEW latest \in Nat, NEW count \in Nat,
           \A b \in DOMAIN A : A[b].storedAt <= latest /\ A[b].row < count,
           \A b, c \in DOMAIN A : A[b].row = A[c].row => b = c,
           NEW i
    PROVE  /\ \A b, c \in Newest(A, i) : b = c
           /\ \A b \in DOMAIN A : A[b].identity = i => Newest(A, i) # {}
<1> DEFINE Its == {b \in DOMAIN A : A[b].identity = i}
<1>1. ASSUME NEW b \in Newest(A, i), NEW c \in Newest(A, i), b # c PROVE FALSE
  <2>1. Later(A, b, c) /\ Later(A, c, b) /\ b \in DOMAIN A /\ c \in DOMAIN A
    BY <1>1 DEF Newest
  <2> QED BY <2>1 DEF Later
<1>2. ASSUME Its # {} PROVE Newest(A, i) # {}
  <2> DEFINE times == {A[b].storedAt : b \in Its}
  <2>1. times \subseteq Nat /\ times # {} /\ \A n \in times : n <= latest
    BY <1>2
  <2>2. PICK t \in times : \A n \in times : n <= t
    BY <2>1, LargestOf
  <2> DEFINE last == {b \in Its : A[b].storedAt = t}
             rows == {A[b].row : b \in last}
  <2>3. rows \subseteq Nat /\ rows # {} /\ \A n \in rows : n <= count
    OBVIOUS
  <2> HIDE DEF rows
  <2>4. PICK r \in rows : \A n \in rows : n <= r
    BY <2>3, LargestOf
  <2>5. PICK b \in last : A[b].row = r
    BY DEF rows
  <2>6. ASSUME NEW c \in Its, c # b PROVE Later(A, b, c)
    <3>1. A[c].storedAt <= t /\ A[b].storedAt = t /\ A[c].storedAt \in Nat /\ t \in Nat
      BY <2>1, <2>2, <2>6
    <3>2. A[c].storedAt = t => A[c].row <= A[b].row
      BY <2>4, <2>5, <2>6 DEF rows
    <3>3. A[c].row # A[b].row /\ A[c].row \in Nat /\ A[b].row \in Nat
      BY <2>6
    <3> QED BY <3>1, <3>2, <3>3 DEF Later
  <2> QED BY <2>6 DEF Newest
<1> QED BY <1>1, <1>2
(* At the start nothing is stored.                                         *)
LEMMA NumberedInit == Init => Numbered
  BY BoundAssumption DEF Init, Numbered

(* Each ASP stored takes the next number and the time of the clock.        *)
LEMMA NumberedStep ==
    ASSUME TypeOK, Numbered, [Next]_vars
    PROVE  Numbered'
<1>0. now \in Nat /\ loads \in Nat /\ MaxTime \in Nat
  BY BoundAssumption DEF TypeOK
<1>1. ASSUME NEW gone, asps' = Without(asps, gone), UNCHANGED <<now, loads>>
      PROVE  Numbered'
  BY <1>1 DEF Numbered, Without
<1>2. ASSUME NEW b, NEW k, LoadAsp(b, k) PROVE Numbered'
  <2> DEFINE r == [identity |-> ResolveIdentity(b, k, MultiAgent(b)), storedAt |-> now,
                   row |-> loads, sender |-> SenderKept(b, k)]
             A == [c \in DOMAIN asps \cup {b} |-> IF c = b THEN r ELSE asps[c]]
  <2>1. PICK gone : asps' = Without(A, gone)
    BY <1>2 DEF LoadAsp
  <2>2. /\ b \notin DOMAIN asps /\ now' = now /\ loads' = loads + 1
        /\ r.storedAt = now /\ r.row = loads
    BY <1>2 DEF LoadAsp
  <2>3. /\ DOMAIN asps' \subseteq DOMAIN asps \cup {b}
        /\ \A c \in DOMAIN asps' : asps'[c] = IF c = b THEN r ELSE asps[c]
    BY <2>1 DEF Without
  <2> HIDE DEF r
  <2>4. \A c \in DOMAIN asps : /\ asps[c].storedAt \in Nat /\ asps[c].row \in Nat
                               /\ asps[c].storedAt <= MaxTime /\ asps[c].row < loads
    BY DEF Numbered, TypeOK, AspRow
  <2>5. \A c \in DOMAIN asps' : /\ asps'[c].storedAt <= MaxTime
                                /\ asps'[c].row < loads + 1
    BY <1>0, <2>2, <2>3, <2>4 DEF Numbered
  <2>6. \A c, d \in DOMAIN asps' : asps'[c].row = asps'[d].row => c = d
    BY <1>0, <2>2, <2>3, <2>4 DEF Numbered
  <2> QED BY <2>2, <2>5, <2>6 DEF Numbered
<1>3. ASSUME NEW bounds, PruneAspHistory(bounds) PROVE Numbered'
  BY <1>1, <1>3 DEF PruneAspHistory
<1>4. CASE ClockMoves
  BY <1>0, <1>4 DEF ClockMoves, Numbered
<1>5. CASE UNCHANGED <<asps, now, loads>>
  BY <1>5 DEF Numbered
<1> QED BY <1>2, <1>3, <1>4, <1>5
        DEF Next, vars, LockAlignment, SwitchAlignment, LockAsBaseline, RestoreBaseline,
            SetAspRetention

(* What a step may do to the comparisons of an agent it does not bind.     *)
StaysCompared(i) ==
    (binding'[i] # NoVersion /\ ~ActiveCompared(i)') =>
        /\ binding'[i] = binding[i]
        /\ \/ ~ActiveCompared(i)
           \/ \E b \in Newest(asps, i) : b \notin DOMAIN asps'

(* A step that keeps the verdicts of what stays stored, and compares what  *)
(* arrives, leaves the newest compared: it was the newest before, or came  *)
(* just now, unless the newest was deleted.                                *)
LEMMA NewestKept ==
    ASSUME TypeOK, Numbered, NEW i, binding'[i] = binding[i],
           \A c \in DOMAIN asps' \cap DOMAIN asps : asps'[c] = asps[c],
           \A d \in drift : d.asp \in DOMAIN asps' => d \in drift',
           \A c \in DOMAIN asps' \ DOMAIN asps :
              asps'[c].identity = i /\ binding[i] # NoVersion
                => \E d \in drift' : d.asp = c /\ d.version = binding[i]
    PROVE  StaysCompared(i)
<1> SUFFICES ASSUME binding[i] # NoVersion, ActiveCompared(i),
                    \A b \in Newest(asps, i) : b \in DOMAIN asps',
                    NEW n \in Newest(asps', i)
             PROVE  \E d \in drift' : d.asp = n /\ d.version = binding[i]
  BY DEF StaysCompared, ActiveCompared
<1>1. n \in DOMAIN asps' /\ asps'[n].identity = i
  BY DEF Newest
<1>2. CASE n \notin DOMAIN asps
  BY <1>1, <1>2
<1>3. CASE n \in DOMAIN asps
  <2>1. \A c \in DOMAIN asps : asps[c].storedAt \in Nat /\ asps[c].row \in Nat
    BY DEF TypeOK, AspRow
  <2>2. /\ MaxTime \in Nat /\ loads \in Nat
        /\ \A c \in DOMAIN asps : asps[c].storedAt <= MaxTime /\ asps[c].row < loads
        /\ \A b, c \in DOMAIN asps : asps[b].row = asps[c].row => b = c
    BY BoundAssumption DEF TypeOK, Numbered
  <2>3. Newest(asps, i) # {}
    BY <1>1, <1>3, <2>1, <2>2, OneNewest
  <2>4. PICK m \in Newest(asps, i) : TRUE
    BY <2>3
  <2>5. m \in DOMAIN asps /\ m \in DOMAIN asps' /\ asps[m].identity = i
    BY <2>4 DEF Newest
  <2>6. asps'[m] = asps[m] /\ asps'[n] = asps[n]
    BY <1>1, <1>3, <2>5
  <2>7. ASSUME m # n PROVE FALSE
    <3>1. Later(asps', n, m)
      BY <1>1, <2>5, <2>6, <2>7 DEF Newest
    <3>2. Later(asps, m, n)
      BY <1>1, <1>3, <2>4, <2>6, <2>7 DEF Newest
    <3> QED BY <1>3, <2>1, <2>5, <2>6, <3>1, <3>2 DEF Later
  <2>8. PICK d \in drift : d.asp = m /\ d.version = binding[i]
    BY <2>4 DEF ActiveCompared
  <2> QED BY <2>5, <2>7, <2>8
<1> QED BY <1>2, <1>3

(* A version activated is compared with the newest ASP of its agent in the *)
(* same step, and no other agent's comparisons change.                     *)
LEMMA BindCompares ==
    ASSUME TypeOK, Numbered, NEW v, v.identity \in Identities, BindAndCompare(v), asps' = asps,
           NEW i \in Identities
    PROVE  StaysCompared(i)
<1>1. /\ binding' = [binding EXCEPT ![v.identity] = v]
      /\ drift' = drift \cup Comparisons(Newest(asps, v.identity), v)
  BY DEF BindAndCompare
<1>2. CASE i = v.identity
  <2>1. binding'[i] = v
    BY <1>1, <1>2 DEF TypeOK
  <2>2. ASSUME NEW b \in Newest(asps', i)
        PROVE  \E d \in drift' : d.asp = b /\ d.version = binding'[i]
    <3> DEFINE d == [asp |-> b, version |-> v, verdict |-> Verdict(b, v)]
    <3>1. d \in drift'
      BY <1>1, <1>2 DEF Comparisons
    <3> QED BY <2>1, <3>1
  <2> QED BY <2>2 DEF StaysCompared, ActiveCompared
<1>3. CASE i # v.identity
  <2>1. binding'[i] = binding[i]
    BY <1>1, <1>3 DEF TypeOK
  <2> QED BY <1>1, <2>1, NewestKept
<1> QED BY <1>2, <1>3

(* An ASP that arrives is compared with its agent's active version, in the *)
(* step that stores it.                                                    *)
LEMMA LoadCompares ==
    ASSUME TypeOK, Numbered, NEW b, NEW k, LoadAsp(b, k), NEW i \in Identities
    PROVE  StaysCompared(i)
<1> DEFINE j == ResolveIdentity(b, k, MultiAgent(b))
           r == [identity |-> j, storedAt |-> now, row |-> loads, sender |-> SenderKept(b, k)]
           A == [c \in DOMAIN asps \cup {b} |-> IF c = b THEN r ELSE asps[c]]
           D == IF binding[j] = NoVersion THEN drift ELSE drift \cup Comparisons({b}, binding[j])
<1>1. PICK gone : asps' = Without(A, gone) /\ drift' = {d \in D : d.asp \notin gone}
  BY DEF LoadAsp
<1>2. b \notin DOMAIN asps /\ binding' = binding
  BY DEF LoadAsp
<1>3. /\ DOMAIN asps' = (DOMAIN asps \cup {b}) \ gone
      /\ \A c \in DOMAIN asps' : asps'[c] = IF c = b THEN r ELSE asps[c]
  BY <1>1 DEF Without
<1>4. drift \subseteq D /\ r.identity = j
  OBVIOUS
<1>5. ASSUME NEW c \in DOMAIN asps' \ DOMAIN asps, asps'[c].identity = i, binding[i] # NoVersion
      PROVE  \E d \in drift' : d.asp = c /\ d.version = binding[i]
  <2> DEFINE d == [asp |-> b, version |-> binding[j], verdict |-> Verdict(b, binding[j])]
  <2>1. c = b /\ j = i /\ b \notin gone
    BY <1>3, <1>4, <1>5
  <2>2. d \in D
    BY <1>5, <2>1 DEF Comparisons
  <2>3. d \in drift' /\ d.asp = b /\ d.version = binding[j]
    BY <1>1, <2>1, <2>2
  <2> QED BY <2>1, <2>3
<1>6. \A c \in DOMAIN asps' \cap DOMAIN asps : asps'[c] = asps[c]
  BY <1>2, <1>3
<1>7. \A d \in drift : d.asp \in DOMAIN asps' => d \in drift'
  BY <1>1, <1>3, <1>4
<1> HIDE DEF r, A, D, j
<1> QED BY <1>2, <1>5, <1>6, <1>7, NewestKept

(* Retention may leave the newest uncompared only by deleting the one that *)
(* was: the newest ASP of a bound agent is compared with the version it is *)
(* held to, whatever the clock does.                                       *)
THEOREM NewestIsCompared == Spec => NewestStaysCompared
<1>1. ASSUME CustodyInv, Numbered, [Next]_vars
      PROVE  [\A i \in Identities : StaysCompared(i)]_vars
  <2> SUFFICES ASSUME ~UNCHANGED vars, NEW i \in Identities PROVE StaysCompared(i)
    OBVIOUS
  <2>0. TypeOK /\ Next
    BY <1>1 DEF CustodyInv
  <2>1. ASSUME NEW b, NEW k, LoadAsp(b, k) PROVE StaysCompared(i)
    BY <1>1, <2>0, <2>1, LoadCompares
  <2>2. ASSUME NEW v \in versions, BindAndCompare(v), asps' = asps PROVE StaysCompared(i)
    <3>1. v.identity \in Identities
      BY <2>0 DEF TypeOK, Versions
    <3> QED BY <1>1, <2>0, <2>2, <3>1, BindCompares
  <2>3. ASSUME NEW b \in Bundles, NEW label, LockAsBaseline(b, label) PROVE StaysCompared(i)
    <3> DEFINE v == [asp |-> b, label |-> label, identity |-> asps[b].identity]
    <3>1. v.identity \in Identities /\ BindAndCompare(v) /\ asps' = asps
      BY <2>0, <2>3 DEF LockAsBaseline, TypeOK, AspRow
    <3> HIDE DEF v
    <3> QED BY <1>1, <2>0, <3>1, BindCompares
  <2>4. ASSUME NEW bounds, PruneAspHistory(bounds) PROVE StaysCompared(i)
    <3>1. PICK gone : asps' = Without(asps, gone) /\ drift' = {d \in drift : d.asp \notin gone}
      BY <2>4 DEF PruneAspHistory
    <3>2. /\ DOMAIN asps' = DOMAIN asps \ gone /\ \A c \in DOMAIN asps' : asps'[c] = asps[c]
          /\ binding' = binding
      BY <2>4, <3>1 DEF Without, PruneAspHistory
    <3> QED BY <1>1, <2>0, <3>1, <3>2, NewestKept
  <2>5. CASE UNCHANGED <<asps, binding, drift>>
    BY <1>1, <2>0, <2>5, NewestKept
  <2>6. ASSUME NEW v \in versions, SwitchAlignment(v) PROVE StaysCompared(i)
    BY <2>2, <2>6 DEF SwitchAlignment
  <2>7. ASSUME NEW b \in Bundles, RestoreBaseline(b) PROVE StaysCompared(i)
    <3>1. PICK v \in LockedVersionOf(b) : BindAndCompare(v)
      BY <2>7 DEF RestoreBaseline
    <3> QED BY <2>2, <2>7, <3>1 DEF RestoreBaseline, LockedVersionOf
  <2>8. ASSUME NEW b, NEW label, LockAlignment(b, label) PROVE StaysCompared(i)
    BY <2>5, <2>8 DEF LockAlignment
  <2> QED BY <2>0, <2>1, <2>3, <2>4, <2>5, <2>6, <2>7, <2>8
          DEF Next, SetAspRetention, ClockMoves
<1>2. CustodyInv => TypeOK
  BY DEF CustodyInv
<1>3. Spec => []Numbered
  BY <1>2, Custody, NumberedInit, NumberedStep, PTL DEF Spec
<1>4. [\A i \in Identities : StaysCompared(i)]_vars =>
        [\A i \in Identities :
          (binding'[i] # NoVersion /\ ~ActiveCompared(i)') =>
              /\ binding'[i] = binding[i]
              /\ \/ ~ActiveCompared(i)
                 \/ \E b \in Newest(asps, i) : b \notin DOMAIN asps']_vars
  BY DEF StaysCompared
<1> QED BY <1>1, <1>3, <1>4, Custody, PTL DEF Spec, NewestStaysCompared
=============================================================================
