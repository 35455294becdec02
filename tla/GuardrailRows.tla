---------------------------- MODULE GuardrailRows ----------------------------
(***************************************************************************)
(* The Data Guardrail of one agent: its versions, the active one, and the  *)
(* violation rows (raildash/guardrail_store.py), with the roll-up into the *)
(* state the dashboard shows (raildash/guardrail.py).                      *)
(*                                                                         *)
(* Every operation runs in one write transaction: collectors deliver ASPs  *)
(* and requests, operators change the policy and acknowledge rows, in any  *)
(* order.  A refused operation rolls back and is no step.  Evidence is     *)
(* numbered as it is stored; an ASP pruned and sent again is a new one.    *)
(* Requests held for OpenShell's word are another module's subject.        *)
(***************************************************************************)
EXTENDS Naturals, FiniteSets

CONSTANTS
    Items,         \* what rules may disallow: a port, a path, a host, ...
    Rules,         \* the rules of a contract
    AspRules,      \* those judged on the newest ASP; the others on requests
    RuleOf,        \* the rule an item falls under
    Policies,      \* the sets of items an operator writes in a version
    NoVersion,     \* no guardrail is active
    NoRow,         \* no row is kept for the item
    Never,         \* no check has failed yet
    MaxOpenRows,   \* RAILDASH_GUARDRAIL_MAX_OPEN_ROWS
    AckRetention,  \* RAILDASH_GUARDRAIL_ACK_RETENTION_DAYS
    MaxReceived,   \* bound on the evidence that arrives
    MaxVersions,   \* bound on the versions created
    MaxTime        \* bound on the wall clock, which is not set back

ASSUME RuleAssumption   == /\ RuleOf \in [Items -> Rules]
                           /\ AspRules \subseteq Rules /\ Rules # {}
                           /\ Policies \subseteq SUBSET Items
ASSUME ItemAssumption   == IsFiniteSet(Items)
ASSUME AbsentAssumption == /\ NoVersion \notin [allows : SUBSET Items]
                           /\ NoRow \notin [hits : Nat, source : Nat,
                                            open : BOOLEAN, lastSeen : Nat]
                           /\ Never \notin Nat
ASSUME BoundAssumption  == /\ MaxOpenRows \in Nat /\ AckRetention \in Nat
                           /\ MaxReceived \in Nat /\ MaxTime \in Nat
                           /\ MaxVersions \in Nat

(* A version of the contract, by the items its rules allow.                *)
Version == [allows : SUBSET Items]

AspItems == {i \in Items : RuleOf[i] \in AspRules}

VARIABLES
    versions,     \* table guardrail_versions
    active,       \* table guardrail_bindings: the version in force
    activatedAt,  \* and when it was made active
    asps,         \* the agent's stored ASPs: number |-> what it shows
    rows,         \* table guardrail_rows, one row per item
    overflow,     \* the agent's one overflow row
    checkFailed,  \* mark CHECK_FAILED: when a check last failed
    now,          \* the wall clock
    received,     \* how much evidence has arrived
    latest,       \* history: the last ASP that arrived, 0 before the first
    hitBy,        \* history: item |-> the evidence judged to show it
    unjudged      \* history: a check has failed since the last activation

policyVars  == <<versions, active, activatedAt>>
historyVars == <<latest, hitBy, unjudged>>
vars == <<versions, active, activatedAt, asps, rows, overflow, checkFailed,
          now, received, latest, hitBy, unjudged>>

(* The overflow row has no item; its source is the last one it counted.    *)
Row == [hits : Nat, source : Nat, open : BOOLEAN, lastSeen : Nat]

NewestAsp(A) == {n \in DOMAIN A : \A m \in DOMAIN A : m <= n}
-----------------------------------------------------------------------------
(* Recording what a check found *)

Open(R) == {i \in DOMAIN R : R[i] # NoRow /\ R[i].open}

(* Broken: a re-check of the evidence a row holds is counted again.        *)
NeverSame(i, n) == FALSE

(* The row already holds this very evidence: not a new hit.                *)
SameSource(i, n) == rows[i] # NoRow /\ rows[i].source = n

(* Broken: past the cap an item is not recorded at all.                    *)
OverflowLost(refused, n, recheck) == overflow

(* _record_overflow for every item in refused, one after the other: a      *)
(* re-check only ever creates the row.                                     *)
Overflowed(refused, n, recheck) ==
    CASE refused = {} \/ (recheck /\ overflow # NoRow) -> overflow
      [] refused # {} /\ recheck /\ overflow = NoRow ->
            [hits |-> 1, source |-> n, open |-> TRUE, lastSeen |-> now]
      [] OTHER ->
            [hits |-> Cardinality(refused)
                        + (IF overflow = NoRow THEN 0 ELSE overflow.hits),
             source |-> n, open |-> TRUE, lastSeen |-> now]

(* Broken: retention deletes old rows, acknowledged or not.                *)
OldRow(r) == r # NoRow /\ r.lastSeen + AckRetention < now

(* Deleted by _record_violations once everything is recorded.              *)
Expired(r) == r # NoRow /\ ~r.open /\ r.lastSeen + AckRetention < now

Kept(r) == IF Expired(r) THEN NoRow ELSE r

(* _record_violations: the items hit by evidence n, in whatever order the  *)
(* evidence lists them.  A repeat from other evidence counts and re-opens  *)
(* its row, whatever the cap; a new item gets a row while the open rows    *)
(* are below the cap, and otherwise counts in the overflow row.  If any    *)
(* new item was refused a row, the cap had been reached by then.           *)
RecordViolations(hit, n, recheck) ==
    LET repeated == {i \in hit : rows[i] # NoRow /\ ~SameSource(i, n)}
        reopened == repeated \ Open(rows)
        new      == {i \in hit : rows[i] = NoRow}
        Hit(hits) == [hits |-> hits, source |-> n, open |-> TRUE, lastSeen |-> now]
    IN \E listed \in SUBSET new :
          LET opened  == Cardinality(Open(rows)) + Cardinality(listed)
              refused == new \ listed
          IN /\ listed = {} \/ opened <= MaxOpenRows
             /\ refused = {} \/ opened + Cardinality(reopened) >= MaxOpenRows
             /\ rows' = [i \in Items |->
                           Kept(CASE i \in repeated -> Hit(rows[i].hits + 1)
                                  [] i \in listed   -> Hit(1)
                                  [] OTHER          -> rows[i])]
             /\ overflow' = Kept(Overflowed(refused, n, recheck))
             /\ hitBy' = [i \in Items |->
                            IF i \in hit THEN hitBy[i] \cup {n} ELSE hitBy[i]]

(* _check_asp_locked of the newest ASP under a version just activated.     *)
RecheckNewest(version) ==
    IF DOMAIN asps = {} THEN UNCHANGED <<rows, overflow, hitBy>>
    ELSE \E n \in NewestAsp(asps) :
            RecordViolations(asps[n] \ version.allows, n, TRUE)

(* _hook_guard: what the check did is undone, the evidence stays stored.   *)
MarkFailed == checkFailed' = now

(* A hook judges evidence n under the version in force, or it fails.       *)
Judge(hit, n, fails) ==
    IF fails THEN /\ MarkFailed
                  /\ unjudged' = TRUE
                  /\ UNCHANGED <<rows, overflow, hitBy>>
             ELSE /\ RecordViolations(hit \ active.allows, n, FALSE)
                  /\ UNCHANGED <<checkFailed, unjudged>>
-----------------------------------------------------------------------------
Init ==
    /\ versions = {}
    /\ active = NoVersion
    /\ activatedAt = 0
    /\ asps = [n \in {} |-> NoVersion]
    /\ rows = [i \in Items |-> NoRow]
    /\ overflow = NoRow
    /\ checkFailed = Never
    /\ now = 0
    /\ received = 0
    /\ latest = 0
    /\ hitBy = [i \in Items |-> {}]
    /\ unjudged = FALSE

(* Store.load_asp of new bytes: store, judge, prune others.                *)
LoadAsp(items, fails) ==
    LET n == received + 1
    IN /\ received < MaxReceived
       /\ received' = n
       /\ latest' = n
       /\ \E kept \in SUBSET DOMAIN asps :
             asps' = [m \in kept \cup {n} |-> IF m = n THEN items ELSE asps[m]]
       /\ IF active = NoVersion
          THEN ~fails /\ UNCHANGED <<rows, overflow, hitBy, checkFailed, unjudged>>
          ELSE Judge(items, n, fails)
       /\ UNCHANGED <<policyVars, now>>

(* Store.add_interactions of a request this agent owns.                    *)
LoadRequest(items, fails) ==
    LET n == received + 1
    IN /\ received < MaxReceived
       /\ active # NoVersion
       /\ received' = n
       /\ Judge(items, n, fails)
       /\ UNCHANGED <<policyVars, asps, now, latest>>

(* Retention by itself: any unlocked ASP may go, the newest one included   *)
(* (the newest unlocked one ages out while an older one is locked).        *)
PruneAsps ==
    /\ \E kept \in SUBSET DOMAIN asps :
          kept # DOMAIN asps /\ asps' = [m \in kept |-> asps[m]]
    /\ UNCHANGED <<policyVars, rows, overflow, checkFailed, now, received, historyVars>>

(* Broken: a new version takes effect without a look at the newest ASP.    *)
ActivateOnly(version) ==
    /\ active' = version
    /\ activatedAt' = now
    /\ unjudged' = FALSE
    /\ UNCHANGED <<rows, overflow, hitBy, asps, checkFailed, now, received, latest>>

(* _activate_locked: move the pointer, then re-check the newest ASP.  No   *)
(* hook guards this re-check: if it fails the activation is rolled back.   *)
Activate(version) ==
    /\ active' = version
    /\ activatedAt' = now
    /\ unjudged' = FALSE
    /\ RecheckNewest(version)
    /\ UNCHANGED <<asps, checkFailed, now, received, latest>>

(* Broken: the version takes effect without being stored.                  *)
UnstoredVersion(allowed) == UNCHANGED versions /\ Activate([allows |-> allowed])

CreateVersion(allowed) ==
    LET version == [allows |-> allowed]
    IN /\ Cardinality(versions) < MaxVersions \/ version \in versions
       /\ versions' = versions \cup {version}
       /\ Activate(version)

Adopt(allowed) == active = NoVersion /\ CreateVersion(allowed)

(* Edit, and a declared offer allowed or dismissed: from the version in    *)
(* force only; a page that still shows another one is refused.             *)
Edit(allowed) == active # NoVersion /\ CreateVersion(allowed)

(* A row counts while it is open and the version in force disallows it.    *)
Counts(i) == active # NoVersion /\ i \in Open(rows) /\ i \notin active.allows

(* Allow this, on any listed row.                                          *)
AllowRow(i) == /\ active # NoVersion /\ rows[i] # NoRow
               /\ CreateVersion(active.allows \cup {i})

(* Allow all: rows of one rule, every one of which still counts.           *)
AllowRows(chosen) ==
    /\ chosen # {}
    /\ \A i \in chosen : Counts(i)
    /\ \A i, j \in chosen : RuleOf[i] = RuleOf[j]
    /\ CreateVersion(active.allows \cup chosen)

Switch(version) == version \in versions /\ Activate(version) /\ UNCHANGED versions

TurnOff ==
    /\ active # NoVersion
    /\ active' = NoVersion
    /\ UNCHANGED <<versions, activatedAt, asps, rows, overflow, checkFailed,
                   now, received, historyVars>>

Acknowledge(i) ==
    /\ i \in Open(rows)
    /\ rows' = [rows EXCEPT ![i].open = FALSE]
    /\ UNCHANGED <<policyVars, asps, overflow, checkFailed, now, received, historyVars>>

(* The overflow row's count starts again from zero.                        *)
AcknowledgeOverflow ==
    /\ overflow # NoRow /\ overflow.open
    /\ overflow' = [overflow EXCEPT !.open = FALSE, !.hits = 0]
    /\ UNCHANGED <<policyVars, asps, rows, checkFailed, now, received, historyVars>>

Tick ==
    /\ now < MaxTime
    /\ now' = now + 1
    /\ UNCHANGED <<policyVars, asps, rows, overflow, checkFailed, received, historyVars>>

Next ==
    \/ \E items \in SUBSET AspItems, fails \in BOOLEAN : LoadAsp(items, fails)
    \/ \E items \in SUBSET (Items \ AspItems), fails \in BOOLEAN :
          LoadRequest(items, fails)
    \/ PruneAsps
    \/ \E allowed \in Policies : Adopt(allowed) \/ Edit(allowed)
    \/ \E i \in Items : AllowRow(i) \/ Acknowledge(i)
    \/ \E chosen \in SUBSET Items : AllowRows(chosen)
    \/ \E version \in versions : Switch(version)
    \/ TurnOff
    \/ AcknowledgeOverflow
    \/ Tick

Spec == Init /\ [][Next]_vars
-----------------------------------------------------------------------------
(* The state shown, computed when read: stale says the newest ASP is too   *)
(* old or, read PARTIAL, may have missed an item; quiet that the request   *)
(* rules' liveness has a gap.                                              *)

Result(state, verified) == [state |-> state, verified |-> verified]

(* Broken: a check that failed in the instant of an activation is lost.    *)
FailedAfter == checkFailed # Never /\ checkFailed > activatedAt

CheckFailed == checkFailed # Never /\ checkFailed >= activatedAt

(* evaluate_asp, request_rules_status and rule_states, for one rule.       *)
RuleResult(rule, stale, quiet) ==
    LET shown == UNION {asps[n] : n \in NewestAsp(asps)}
        broken == {i \in shown \ active.allows : RuleOf[i] = rule}
    IN CASE CheckFailed -> Result("unverified", FALSE)
         [] ~CheckFailed /\ rule \in AspRules /\ DOMAIN asps = {} ->
               Result("unverified", FALSE)
         [] ~CheckFailed /\ rule \in AspRules /\ DOMAIN asps # {} /\ broken # {} ->
               Result("violated", ~stale)
         [] ~CheckFailed /\ rule \in AspRules /\ DOMAIN asps # {} /\ broken = {} ->
               Result(IF stale THEN "unverified" ELSE "held", ~stale)
         [] OTHER -> Result(IF quiet THEN "unverified" ELSE "held", ~quiet)

OverflowCounts == active # NoVersion /\ overflow # NoRow /\ overflow.open

AgentState(stale, quiet) ==
    CASE active = NoVersion -> "no_guardrail"
      [] active # NoVersion /\ (OverflowCounts \/ \E i \in Items : Counts(i)) ->
            "violated"
      [] OTHER -> IF \E rule \in Rules : ~RuleResult(rule, stale, quiet).verified
                  THEN "unverified" ELSE "held"

(* Broken: what was violated on stale evidence is shown held once its rows *)
(* are acknowledged.                                                       *)
ShownWithoutReason(rule, stale, quiet) ==
    LET result == RuleResult(rule, stale, quiet)
    IN CASE \E i \in Items : Counts(i) /\ RuleOf[i] = rule -> "violated"
         [] OTHER -> IF result.state \in {"held", "violated"} THEN "held"
                     ELSE "unverified"

(* shown_rule_states: while the overflow row counts, an item of a rule     *)
(* violated on the newest ASP may be one of its "N more".                  *)
ShownState(rule, stale, quiet) ==
    LET result   == RuleResult(rule, stale, quiet)
        counting == \E i \in Items : Counts(i) /\ RuleOf[i] = rule
    IN IF counting \/ (OverflowCounts /\ result.state = "violated") THEN "violated"
       ELSE IF result.verified THEN "held" ELSE "unverified"
-----------------------------------------------------------------------------
(* The types of the tables; every row is of evidence that has arrived, and *)
(* counted at least once.                                                  *)
TypeOK ==
    /\ versions \subseteq Version
    /\ active \in versions \cup {NoVersion}
    /\ DOMAIN asps \subseteq 1..received
    /\ \A n \in DOMAIN asps : asps[n] \subseteq AspItems
    /\ rows \in [Items -> Row \cup {NoRow}]
    /\ \A i \in Items : rows[i] # NoRow => rows[i].source \in 1..received
    /\ overflow \in Row \cup {NoRow}
    /\ checkFailed \in Nat \cup {Never}
    /\ now \in Nat /\ activatedAt \in Nat /\ received \in Nat /\ latest \in 0..received
    /\ hitBy \in [Items -> SUBSET (1..received)]
    /\ unjudged \in BOOLEAN

(* "It fails closed" (guardrail_store.py): once a check has failed since   *)
(* the version in force was made active, the agent is never shown held,    *)
(* however fresh its evidence and whatever arrives later, until a version  *)
(* is made active again.                                                   *)
FailsClosed ==
    active # NoVersion /\ unjudged =>
        \A stale, quiet \in BOOLEAN : AgentState(stale, quiet) # "held"

(* The agent's state and its rules' states are read from the same rows and *)
(* results: a held agent has only held rules, an unverified one has an     *)
(* unverified rule and none violated, and a violated rule makes the agent  *)
(* violated.                                                               *)
ShownAgrees ==
    active # NoVersion =>
        \A stale, quiet \in BOOLEAN :
            LET shown == {ShownState(rule, stale, quiet) : rule \in Rules}
                state == AgentState(stale, quiet)
            IN /\ state = "held" => shown \subseteq {"held"}
               /\ state = "unverified" => "unverified" \in shown /\ "violated" \notin shown

(* Fresh evidence judged under a guardrail leaves nothing behind: each     *)
(* item it shows that the version in force disallows counts afterwards, in *)
(* its own row or in the overflow row, whatever the cap, earlier           *)
(* acknowledgements and retention.                                         *)
FreshHitsCount ==
    [][\A i \in Items :
          (received' # received /\ received' \in hitBy'[i]) =>
                i \in Open(rows') \/ (overflow' # NoRow /\ overflow'.open)]_vars

(* Adopt, edit, switch and Allow this re-check the newest ASP: an item of  *)
(* it that the new version disallows has a row, or the overflow row exists *)
(* (a re-check drops an item past the cap only when it did already); rows  *)
(* deleted in that very step had been acknowledged for the same ASP.       *)
RecheckMissesNothing ==
    [][\A n \in NewestAsp(asps) :
          (active' # active /\ active' # NoVersion) =>
              \A i \in asps[n] \ active'.allows :
                  \/ i \in Open(rows') \/ overflow' # NoRow \/ overflow # NoRow
                  \/ rows[i] # NoRow /\ ~rows[i].open /\ rows[i].source = n]_vars

(* A row that is open stays, and stays open, until it is acknowledged:     *)
(* "Unacknowledged rows are never pruned"; its count never goes down.      *)
OpenUntilAcknowledged ==
    [][/\ \A i \in Open(rows) :
             \/ i \in Open(rows') /\ rows'[i].hits >= rows[i].hits
             \/ /\ rows' = [rows EXCEPT ![i].open = FALSE]
                /\ UNCHANGED <<policyVars, asps, overflow>>
       /\ overflow # NoRow /\ overflow.open =>
             \/ overflow' # NoRow /\ overflow'.open /\ overflow'.hits >= overflow.hits
             \/ UNCHANGED <<policyVars, asps, rows>>]_vars

(* As long as the agent's newest ASP is the last one that arrived, no      *)
(* policy change counts an ASP for the same row twice or re-opens what was *)
(* acknowledged after that ASP was judged to show the item.                *)
CountedOnce ==
    [][\A i \in Items :
          (latest \in DOMAIN asps /\ rows[i] # NoRow /\ rows'[i] # NoRow
             /\ rows'[i].source \in hitBy[i]) =>
                /\ rows'[i].hits = rows[i].hits
                /\ rows'[i].open => rows[i].open]_vars

(* README: "RAILDASH_GUARDRAIL_MAX_OPEN_ROWS ... caps the unacknowledged   *)
(* rows per agent".                                                        *)
OpenRowsCapped == Cardinality(Open(rows)) <= MaxOpenRows

(* guardrail_store.py: the same ASP re-checked "neither counts again nor   *)
(* re-opens an acknowledged row (only a hit after the acknowledgement      *)
(* does)", with no word on what retention has deleted meanwhile.           *)
PolicyChangeReopensNothing ==
    [][\A i \in Items :
          (rows[i] # NoRow /\ rows'[i] # NoRow /\ rows'[i].source \in hitBy[i]) =>
              (rows'[i].open => rows[i].open)]_vars

(* guardrail.py: each rule is shown "the way agent_state reads the same    *)
(* results and rows, so the two never disagree": here with every check     *)
(* made and all evidence fresh.                                            *)
NeverDisagree ==
    ~CheckFailed /\ AgentState(FALSE, FALSE) = "violated" =>
        \E rule \in Rules : ShownState(rule, FALSE, FALSE) = "violated"
=============================================================================
