----------------------------- MODULE AspCustody -----------------------------
(***************************************************************************)
(* Custody of Agent Security Profiles (ASPs): raildash/store.py load_asp,  *)
(* lock_alignment, switch_alignment, make_baseline, prune_asp_history and  *)
(* the retention settings, with resolve_identity of raildash/asp.py.       *)
(*                                                                         *)
(* Every operation runs inside Store._write_transaction (BEGIN IMMEDIATE   *)
(* under the process lock), so each one is one action; the web server, the *)
(* CLI and the dashboard interleave between them.  An operation that       *)
(* raises rolls back: a refusal is a step that changes nothing.            *)
(***************************************************************************)
EXTENDS Naturals, FiniteSets

CONSTANTS
    Bundles,        \* exact evidence bundles, one per digest
    Content,        \* what each bundle says (see ContentType)
    Deployments,    \* deployment identities bundles may carry
    NoDeployment,   \* the bundle carries no complete deployment identity
    Keys,           \* well-formed agent keys
    DefaultKey,     \* the reserved compatibility key "default"
    Unusable,       \* explicit keys no identity has: padded, or too long
    NoKey,          \* no key, a blank one, or a padded "default"
    Sandboxes,      \* host_id + sandbox_name
    Labels,         \* version labels
    Retentions,     \* retention bounds somebody may set or prune with
    NoVersion,      \* no active binding
    NoIdentity,     \* resolve_identity raised IdentityRequiredError
    MaxTime,        \* bound on the wall clock
    MaxLoads        \* bound on the ASPs ever inserted

ContentType == [id : Bundles, version : {1, 2}, sandbox : Sandboxes,
                deployment : Deployments \cup {NoDeployment},
                agents : SUBSET Keys]

Identities == [kind : {"deployment"}, value : Deployments]
         \cup [kind : {"local_agent_key"}, value : Keys]
         \cup [kind : {"local_agent_keys"}, value : SUBSET Keys]

Versions == [asp : Bundles, label : Labels, identity : Identities]

ASSUME ContentAssumption == Content \in [Bundles -> ContentType]
ASSUME KeyAssumption     == /\ DefaultKey \in Keys
                            /\ Unusable \cap Keys = {}
                            /\ NoKey \notin Keys \cup Unusable
ASSUME AbsentAssumption  == /\ NoDeployment \notin Deployments
                            /\ NoIdentity \notin Identities
                            /\ NoVersion \notin Versions
ASSUME BoundAssumption   == /\ MaxTime \in Nat /\ MaxLoads \in Nat
                            /\ Retentions \subseteq [keep : Nat, age : Nat]

VARIABLES
    asps,       \* table asps: stored bundle |-> its row
    versions,   \* table alignment_versions (append-only, immutable)
    binding,    \* table active_bindings: identity |-> active version
    drift,      \* table drift_results: which ASP was compared with what
    retention,  \* the retention bounds in force (settings table)
    now,        \* the wall clock; it may be stepped either way
    loads       \* how many ASPs were ever inserted: the next rowid

vars == <<asps, versions, binding, drift, retention, now, loads>>

(* What a caller may send as the agent key: app.py and cli.py pass it on   *)
(* as it is.                                                               *)
Senders == Keys \cup Unusable \cup {NoKey}

(* sender is no column: it is the agent key the first caller gave, kept    *)
(* only so that ReplayAnswered can speak of that caller.  No key changes   *)
(* what a v2 bundle resolves to, so for one NoKey stands for every caller. *)
AspRow == [identity : Identities, storedAt : Nat, row : Nat,
           sender : Senders]

SenderKept(b, k) == IF Content[b].version = 1 THEN k ELSE NoKey
-----------------------------------------------------------------------------
(* Identity resolution *)

(* is_explicit_agent_key: the key names one agent, usable or not.          *)
ExplicitKey(k) == k \notin {NoKey, DefaultKey}

LocalKey(k)    == [kind |-> "local_agent_key", value |-> k]

(* _local_agent_key_identity: a key that is missing, padded or too long    *)
(* raises IdentityRequiredError.                                           *)
KeyIdentity(k) == IF k \in Keys THEN LocalKey(k) ELSE NoIdentity

(* Broken: a v1 bundle's deployment identity wins in a shared sandbox too. *)
DeploymentAlwaysWins(b, k, multi) ==
    LET c == Content[b]
    IN CASE c.deployment # NoDeployment ->
                [kind |-> "deployment", value |-> c.deployment]
         [] c.deployment = NoDeployment /\ c.version = 2 ->
                [kind |-> "local_agent_keys", value |-> c.agents]
         [] OTHER -> KeyIdentity(k)

ResolveIdentity(b, k, multi) ==
    LET c     == Content[b]
        keyed == multi /\ c.version = 1 /\ ExplicitKey(k)
    IN CASE keyed -> KeyIdentity(k)
         [] ~keyed /\ c.deployment # NoDeployment ->
                [kind |-> "deployment", value |-> c.deployment]
         [] ~keyed /\ c.deployment = NoDeployment /\ c.version = 2 ->
                [kind |-> "local_agent_keys", value |-> c.agents]
         [] OTHER -> KeyIdentity(k)

HasV2History(s) ==
    \E c \in DOMAIN asps : Content[c].sandbox = s /\ Content[c].version = 2

(* A v1 bundle of a sandbox that has sent v2 names one agent of several.   *)
MultiAgent(b) == Content[b].version = 1 /\ HasV2History(Content[b].sandbox)

(* Broken: a replay is matched under the precedence in force now only.     *)
CurrentPrecedenceOnly(b, k) == {ResolveIdentity(b, k, MultiAgent(b))}

(* The identities under which an exact replay of b by k is the same        *)
(* caller's: the one it resolves to now and, for a keyed v1 bundle, the    *)
(* one it would resolve to under the other precedence.                     *)
ReplayIdentities(b, k) ==
    {ResolveIdentity(b, k, MultiAgent(b))}
      \cup IF Content[b].version = 1 /\ ExplicitKey(k)
           THEN {ResolveIdentity(b, k, ~MultiAgent(b))} ELSE {}

ReplayAccepted(b, k) ==
    /\ ResolveIdentity(b, k, MultiAgent(b)) # NoIdentity
    /\ asps[b].identity \in ReplayIdentities(b, k)
-----------------------------------------------------------------------------
(* Comparison and retention *)

Later(A, b, c) == \/ A[b].storedAt > A[c].storedAt
                  \/ A[b].storedAt = A[c].storedAt /\ A[b].row > A[c].row

(* The newest rows of an identity: none, or exactly one.                   *)
Newest(A, i) ==
    {b \in DOMAIN A : /\ A[b].identity = i
                      /\ \A c \in DOMAIN A \ {b} :
                            A[c].identity = i => Later(A, b, c)}

(* Broken: both bundles are resolved as a single-agent sandbox's.          *)
ComparedAsSingleAgent(b, i) ==
    ResolveIdentity(b, IF i.kind = "local_agent_key" THEN i.value ELSE NoKey,
                    FALSE)

(* compare_alignment resolves both bundles again, from the identity alone. *)
ComparedIdentity(b, i) ==
    LET keyed == i.kind = "local_agent_key"
    IN ResolveIdentity(b, IF keyed THEN i.value ELSE NoKey, keyed)

Verdict(b, v) ==
    CASE Content[b].version # Content[v.asp].version -> "CONTRACT_MISMATCH"
      [] Content[b].version = Content[v.asp].version
           /\ ComparedIdentity(v.asp, v.identity) # v.identity ->
             "ALIGNMENT_INTEGRITY_FAILED"
      [] Content[b].version = Content[v.asp].version
           /\ ComparedIdentity(v.asp, v.identity) = v.identity
           /\ ComparedIdentity(b, v.identity) # v.identity ->
             "IDENTITY_MISMATCH"
      [] OTHER -> "COMPARED"

(* The comparisons of the ASPs S with version v: INSERT OR IGNORE, keyed   *)
(* by the pair, of a verdict that only depends on the pair.                *)
Comparisons(S, v) == {[asp |-> b, version |-> v, verdict |-> Verdict(b, v)] : b \in S}

(* Broken: retention forgets that locked evidence is exempt.               *)
AnyStored(A) == DOMAIN A

Unlocked(A) == {b \in DOMAIN A : \A v \in versions : v.asp # b}

(* The sets of rows _prune_asp_history_locked may delete: the keep-many    *)
(* unlocked rows newest by stored_at are spared (rows stored in the same   *)
(* instant come in no particular order), and of those only the young ones. *)
PruneChoices(A, bounds) ==
    LET U == Unlocked(A)
        Spared(K) == {b \in K : A[b].storedAt + bounds.age >= now}
        NewestFew == {K \in SUBSET U :
                        /\ \A b \in K, c \in U \ K : A[b].storedAt >= A[c].storedAt
                        /\ \/ Cardinality(K) = bounds.keep
                           \/ K = U /\ Cardinality(U) <= bounds.keep}
    IN {U \ Spared(K) : K \in NewestFew}

Without(A, gone) == [b \in DOMAIN A \ gone |-> A[b]]
-----------------------------------------------------------------------------
Init ==
    /\ asps = [b \in {} |-> NoVersion]
    /\ versions = {}
    /\ binding = [i \in Identities |-> NoVersion]
    /\ drift = {}
    /\ retention \in Retentions /\ retention.keep > 0 /\ retention.age > 0
    /\ now = 0
    /\ loads = 0

(* load_asp refuses a new v1 bundle of a shared sandbox that names no      *)
(* agent, and any bundle that resolves to no identity.                     *)
Identified(b, k) ==
    /\ MultiAgent(b) => ExplicitKey(k)
    /\ ResolveIdentity(b, k, MultiAgent(b)) # NoIdentity

(* load_asp of bytes not stored now: insert, compare with the active       *)
(* version, prune under the bounds in force.                               *)
LoadAsp(b, k) ==
    LET i  == ResolveIdentity(b, k, MultiAgent(b))
        A  == [c \in DOMAIN asps \cup {b} |->
                 IF c = b THEN [identity |-> i, storedAt |-> now,
                                row |-> loads, sender |-> SenderKept(b, k)]
                          ELSE asps[c]]
        D  == IF binding[i] = NoVersion THEN drift
              ELSE drift \cup Comparisons({b}, binding[i])
    IN /\ loads < MaxLoads
       /\ b \notin DOMAIN asps
       /\ Identified(b, k)
       /\ \A c \in DOMAIN asps : Content[c].id # Content[b].id
       /\ \E gone \in PruneChoices(A, retention) :
             /\ asps' = Without(A, gone)
             /\ drift' = {d \in D : d.asp \notin gone}
       /\ loads' = loads + 1
       /\ UNCHANGED <<versions, binding, retention, now>>

(* The version an ASP is locked as, if it is.                              *)
LockedVersionOf(b) == {v \in versions : v.asp = b}

(* Broken: an ASP can be locked again under another label.                 *)
NeverLocked(b) == TRUE

NotLockedYet(b) == LockedVersionOf(b) = {}

(* Broken: a label the agent uses already is accepted and records nothing. *)
LockSilently(b, label) ==
    LET i == asps[b].identity
        v == [asp |-> b, label |-> label, identity |-> i]
    IN versions' = IF \E w \in versions : w.identity = i /\ w.label = label
                   THEN versions ELSE versions \cup {v}

(* _lock_locked: a label new to the identity.  (Its identity_problems test *)
(* is defence in depth: ingest stores well-formed identities only.)        *)
LockVersion(b, label) ==
    LET i == asps[b].identity
        v == [asp |-> b, label |-> label, identity |-> i]
    IN /\ \A w \in versions : w.identity = i => w.label # label
       /\ versions' = versions \cup {v}

LockAlignment(b, label) ==
    /\ b \in DOMAIN asps
    /\ NotLockedYet(b)
    /\ LockVersion(b, label)
    /\ UNCHANGED <<asps, binding, drift, retention, now, loads>>

(* Broken: activating a version leaves the newest ASP uncompared.          *)
BindOnly(v) == /\ binding' = [binding EXCEPT ![v.identity] = v]
               /\ UNCHANGED drift

(* _switch_locked: bind, then compare the agent's newest ASP.              *)
BindAndCompare(v) ==
    /\ binding' = [binding EXCEPT ![v.identity] = v]
    /\ drift' = drift \cup Comparisons(Newest(asps, v.identity), v)

SwitchAlignment(v) ==
    /\ v \in versions
    /\ BindAndCompare(v)
    /\ UNCHANGED <<asps, versions, retention, now, loads>>

(* make_baseline of an ASP that still has to be locked.                    *)
LockAsBaseline(b, label) ==
    /\ b \in DOMAIN asps
    /\ NotLockedYet(b)
    /\ LockVersion(b, label)
    /\ BindAndCompare([asp |-> b, label |-> label, identity |-> asps[b].identity])
    /\ UNCHANGED <<asps, retention, now, loads>>

(* make_baseline of a locked ASP that is not active; when it is active     *)
(* already, the call changes nothing.                                      *)
RestoreBaseline(b) ==
    /\ b \in DOMAIN asps
    /\ \E v \in LockedVersionOf(b) :
          /\ binding[v.identity] # v
          /\ BindAndCompare(v)
    /\ UNCHANGED <<asps, versions, retention, now, loads>>

PruneAspHistory(bounds) ==
    /\ \E gone \in PruneChoices(asps, bounds) :
          /\ gone # {}
          /\ asps' = Without(asps, gone)
          /\ drift' = {d \in drift : d.asp \notin gone}
    /\ UNCHANGED <<versions, binding, retention, now, loads>>

SetAspRetention(bounds) ==
    /\ bounds.keep > 0 /\ bounds.age > 0
    /\ bounds # retention
    /\ retention' = bounds
    /\ UNCHANGED <<asps, versions, binding, drift, now, loads>>

(* The environment: time passes, or somebody sets the clock back.          *)
ClockMoves ==
    /\ \E t \in 0..MaxTime : t # now /\ now' = t
    /\ UNCHANGED <<asps, versions, binding, drift, retention, loads>>

Next ==
    \/ \E b \in Bundles, k \in Senders : LoadAsp(b, k)
    \/ \E b \in Bundles, label \in Labels : LockAlignment(b, label)
    \/ \E v \in versions : SwitchAlignment(v)
    \/ \E b \in Bundles, label \in Labels : LockAsBaseline(b, label)
    \/ \E b \in Bundles : RestoreBaseline(b)
    \/ \E bounds \in Retentions : PruneAspHistory(bounds)
    \/ \E bounds \in Retentions : SetAspRetention(bounds)
    \/ ClockMoves

Spec == Init /\ [][Next]_vars
-----------------------------------------------------------------------------
Comparison == [asp : Bundles, version : Versions,
               verdict : {"CONTRACT_MISMATCH", "ALIGNMENT_INTEGRITY_FAILED",
                          "IDENTITY_MISMATCH", "COMPARED"}]

(* The types of the tables, and what their foreign keys require: a drift   *)
(* result is of a stored ASP and a recorded version, and the active        *)
(* version of an agent is one of its own.                                  *)
TypeOK ==
    /\ DOMAIN asps \subseteq Bundles
    /\ \A b \in DOMAIN asps : asps[b] \in AspRow
    /\ versions \subseteq Versions
    /\ binding \in [Identities -> versions \cup {NoVersion}]
    /\ drift \subseteq Comparison
    /\ retention \in Retentions
    /\ now \in Nat
    /\ loads \in Nat

(* "Locked versions and their ASPs are never pruned" (README): whatever    *)
(* order loads, locks, switches and prunes of the server and the CLI come  *)
(* in, the evidence of every locked version is still stored under the      *)
(* version's own identity, and every drift result names a stored ASP of    *)
(* the same agent as the version it was compared with.                     *)
EvidenceKept ==
    /\ \A v \in versions : v.asp \in DOMAIN asps /\ asps[v.asp].identity = v.identity
    /\ \A d \in drift : /\ d.version \in versions
                        /\ d.asp \in DOMAIN asps
                        /\ asps[d.asp].identity = d.version.identity
    /\ \A i \in Identities : binding[i] # NoVersion => binding[i].identity = i

(* An ASP is locked at most once, and a label names one version of an      *)
(* agent, through lock_alignment and make_baseline alike.                  *)
LockedAtMostOnce ==
    \A v, w \in versions :
        v # w => v.asp # w.asp /\ (v.identity = w.identity => v.label # w.label)

(* An exact replay by the caller that stored the bundle is answered as a   *)
(* replay, never as a 409: also after its sandbox gained v2 history (the   *)
(* keyed identity now wins over the deployment one) or lost it again.  The *)
(* one exception: a caller whose explicit key cannot be used stored a v1   *)
(* bundle under its deployment, and is refused while the sandbox has v2    *)
(* history - the key, which now wins, is no identity (asp.py:454, 490).    *)
ReplayAnswered ==
    \A b \in DOMAIN asps :
        \/ ReplayAccepted(b, asps[b].sender)
        \/ asps[b].sender \in Unusable /\ MultiAgent(b)

(* compare_alignment resolves the identity of both bundles again, knowing  *)
(* neither the sandbox's history nor the caller; it never contradicts the  *)
(* identity the store filed them under, so no drift result blames the      *)
(* evidence (ALIGNMENT_INTEGRITY_FAILED, IDENTITY_MISMATCH).               *)
NoMisattribution ==
    \A d \in drift : d.verdict \in {"COMPARED", "CONTRACT_MISMATCH"}

ActiveCompared(i) ==
    \A b \in Newest(asps, i) : \E d \in drift : d.asp = b /\ d.version = binding[i]

(* The newest ASP of a bound agent has been compared with the version it   *)
(* is held to as soon as the version is activated, and it stays so; only   *)
(* retention, by deleting that very ASP, can leave an older uncompared one *)
(* as the newest (shown as ALIGNMENT_ACTIVE with no drift).                *)
NewestStaysCompared ==
    [][\A i \in Identities :
          (binding'[i] # NoVersion /\ ~ActiveCompared(i)') =>
              /\ binding'[i] = binding[i]
              /\ \/ ~ActiveCompared(i)
                 \/ \E b \in Newest(asps, i) : b \notin DOMAIN asps']_vars

(* While a sandbox has v2 history, a v1 bundle of it that becomes stored   *)
(* is filed under one agent's key, never under the deployment identity all *)
(* the agents of the container share (DR-234, DR-243).                     *)
SharedSandboxKeyed ==
    [][\A b \in DOMAIN asps' \ DOMAIN asps :
          MultiAgent(b) => \E k \in Keys \ {DefaultKey} :
                              asps'[b].identity = LocalKey(k)]_vars

(* README: "A sandbox that goes back to a single agent keeps refusing      *)
(* unkeyed v1, because its v2 history stays".                              *)
V2HistoryStays ==
    [][\A s \in Sandboxes : HasV2History(s) => HasV2History(s)']_vars
-----------------------------------------------------------------------------
(* The custody implements the archive: its tables are the archive's with   *)
(* receive times, comparisons, settings and the clock left out.            *)
Archive == INSTANCE AspArchive WITH
              evidence <- [b \in DOMAIN asps |-> asps[b].identity]

ArchiveKept == Archive!ArchiveSpec
=============================================================================
