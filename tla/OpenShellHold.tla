---------------------------- MODULE OpenShellHold ----------------------------
(***************************************************************************)
(* Requests answered 403 that wait for OpenShell's word                    *)
(* (raildash/guardrail_store.py, DR-261).  The collector delivers captured *)
(* requests and the denials it reads in the sandbox's log on independent   *)
(* paths, in any order, late or twice.  A request is held until a denial   *)
(* excuses it or OPENSHELL_HOLD passes, and is judged then.                *)
(*                                                                         *)
(* One agent, in one sandbox; every request has the host, method and path  *)
(* of every denial, so only the times of the two tell them apart.  Every   *)
(* operation runs in one write transaction.                                *)
(***************************************************************************)
EXTENDS Integers, Sequences, SequencesExt, FiniteSets

CONSTANTS
    Requests,      \* the 403s, by their interactions.id
    Denials,       \* the DENIED lines of the sandbox's log
    CapturedAt,    \* request |-> when it was captured
    LoggedAt,      \* denial |-> when it was logged
    BlockedBy,     \* request |-> the denial that is its own, or NoDenial
    NoDenial,
    Match,         \* OPENSHELL_DENIAL_MATCH
    HeldMax,       \* OPENSHELL_HELD_MAX
    ReleaseBatch,  \* OPENSHELL_RELEASE_BATCH
    MayFail,       \* the requests whose check may fail
    MaxBatch       \* bound on the requests, or denials, of one batch

ASSUME RequestAssumption == /\ Requests \subseteq Nat /\ IsFiniteSet(Requests)
                            /\ MayFail \subseteq Requests
ASSUME TimeAssumption    == /\ CapturedAt \in [Requests -> Int]
                            /\ LoggedAt \in [Denials -> Int]
                            /\ BlockedBy \in [Requests -> Denials \cup {NoDenial}]
                            /\ NoDenial \notin Denials
ASSUME BoundAssumption   == /\ Match \in Nat /\ HeldMax \in Nat
                            /\ ReleaseBatch \in Nat \ {0} /\ MaxBatch \in Nat

VARIABLES
    fate,       \* request |-> what has become of it
    stored,     \* table openshell_denials, in the order of denial_id
    used,       \* table openshell_denials_used
    failed,     \* mark CHECK_FAILED
    guarded,    \* the agent has a guardrail in force
    reporting,  \* the collector has posted the sandbox's policy
    aged,       \* denials older than OPENSHELL_DENIAL_RETENTION
    excusedBy   \* history: request |-> the denial it was dropped for

tables == <<fate, stored, used, failed, excusedBy>>
vars   == <<tables, guarded, reporting, aged>>

(* coming: not delivered yet; held: waiting, less than OPENSHELL_HOLD ago; *)
(* overdue: waiting, longer; excused: dropped for a denial; unjudged: no   *)
(* guardrail was in force when it came, or the guardrail was turned off    *)
(* while it waited; lost: its check failed.                                *)
Fate == {"coming", "held", "overdue", "judged", "excused", "unjudged", "lost"}

(* What a transaction works on.                                            *)
Work == [fate |-> fate, stored |-> stored, used |-> used, failed |-> failed,
         excusedBy |-> excusedBy]

Commit(w) ==
    /\ fate' = w.fate /\ stored' = w.stored /\ used' = w.used
    /\ failed' = w.failed /\ excusedBy' = w.excusedBy

Waiting(w) == {r \in Requests : w.fate[r] \in {"held", "overdue"}}
-----------------------------------------------------------------------------
(* _use_openshell_denial_locked *)

Apart(r, d) == LET apart == CapturedAt[r] - LoggedAt[d]
               IN IF apart < 0 THEN -apart ELSE apart

(* The places, in w.stored, of the denials that may excuse the request.    *)
Found(w, r) == {n \in DOMAIN w.stored : /\ w.stored[n] \notin w.used
                                        /\ Apart(r, w.stored[n]) <= Match}

(* The nearest one, and of those the first stored.                         *)
Nearest(w, r) ==
    LET Before(m, n) == \/ Apart(r, w.stored[m]) < Apart(r, w.stored[n])
                        \/ Apart(r, w.stored[m]) = Apart(r, w.stored[n]) /\ m <= n
    IN CHOOSE m \in Found(w, r) : \A n \in Found(w, r) : Before(m, n)

(* Broken: the denial a request was dropped for is not marked used.        *)
ExcuseUnmarked(w, r) ==
    LET d == w.stored[Nearest(w, r)]
    IN [w EXCEPT !.fate[r] = "excused", !.excusedBy[r] = d]

Excuse(w, r) ==
    LET d == w.stored[Nearest(w, r)]
    IN [w EXCEPT !.fate[r] = "excused", !.excusedBy[r] = d, !.used = @ \cup {d}]
-----------------------------------------------------------------------------
(* Judging, holding and releasing *)

(* One request checked, or failing: the failure is marked, the request is  *)
(* not looked at again.                                                    *)
Judge(w, r, failing) == IF r \in failing THEN [w EXCEPT !.fate[r] = "lost", !.failed = TRUE]
                                         ELSE [w EXCEPT !.fate[r] = "judged"]

(* Broken: the limit on held requests is checked after the insert.         *)
IngestPastLimit(r, w, failing) ==
    CASE ~guarded -> [w EXCEPT !.fate[r] = "unjudged"]
      [] guarded /\ (~reporting \/ Cardinality(Waiting(w)) > HeldMax) -> Judge(w, r, failing)
      [] OTHER -> IF Found(w, r) # {} THEN Excuse(w, r) ELSE [w EXCEPT !.fate[r] = "held"]

(* _hold_if_blocked_locked, under _guardrail_on_request: a request of an   *)
(* agent the collector reports on is dropped, held or, past the limit on   *)
(* held requests, judged at once.                                          *)
Ingest(r, w, failing) ==
    CASE ~guarded -> [w EXCEPT !.fate[r] = "unjudged"]
      [] guarded /\ ~reporting -> Judge(w, r, failing)
      [] guarded /\ reporting /\ Found(w, r) # {} -> Excuse(w, r)
      [] OTHER -> IF Cardinality(Waiting(w)) >= HeldMax THEN Judge(w, r, failing)
                  ELSE [w EXCEPT !.fate[r] = "held"]

(* Broken: an overdue request is judged whatever denials came meanwhile.   *)
ReleaseOverdueFirst(r, w, failing) ==
    CASE w.fate[r] = "overdue" /\ guarded -> Judge(w, r, failing)
      [] w.fate[r] = "overdue" /\ ~guarded -> [w EXCEPT !.fate[r] = "unjudged"]
      [] OTHER -> IF Found(w, r) # {} THEN Excuse(w, r) ELSE w

(* Broken: the savepoint of a failing request is opened before its row is  *)
(* deleted, so it is rolled back to waiting.                               *)
ReleaseKeepsFailing(r, w, failing) ==
    CASE Found(w, r) # {} -> Excuse(w, r)
      [] Found(w, r) = {} /\ w.fate[r] = "held" -> w
      [] OTHER -> CASE ~guarded -> [w EXCEPT !.fate[r] = "unjudged"]
                    [] guarded /\ r \in failing -> [w EXCEPT !.failed = TRUE]
                    [] OTHER -> [w EXCEPT !.fate[r] = "judged"]

(* One round of the loop of _release_held_requests_locked.                 *)
ReleaseOne(r, w, failing) ==
    CASE Found(w, r) # {} -> Excuse(w, r)
      [] Found(w, r) = {} /\ w.fate[r] = "held" -> w
      [] OTHER -> IF guarded THEN Judge(w, r, failing)
                  ELSE [w EXCEPT !.fate[r] = "unjudged"]

(* Requests in the order of their ids.                                     *)
ById(S) == CHOOSE seq \in [1..Cardinality(S) -> S] :
               \A m, n \in DOMAIN seq : m < n => seq[m] < seq[n]

(* _release_held_guarded: the first ReleaseBatch waiting requests by id,   *)
(* or, when the loop itself fails (undone), none and a mark.               *)
Release(w, failing, undone) ==
    LET waiting == ById(Waiting(w))
        last    == IF Len(waiting) < ReleaseBatch THEN Len(waiting) ELSE ReleaseBatch
    IN IF undone THEN [w EXCEPT !.failed = TRUE]
       ELSE FoldLeft(LAMBDA v, r : ReleaseOne(r, v, failing), w, SubSeq(waiting, 1, last))
-----------------------------------------------------------------------------
Init ==
    /\ fate = [r \in Requests |-> "coming"]
    /\ stored = <<>>
    /\ used = {}
    /\ failed = FALSE
    /\ guarded \in BOOLEAN
    /\ reporting = FALSE
    /\ aged = {}
    /\ excusedBy = [r \in Requests |-> NoDenial]

(* Store.add_interactions: a batch of requests in any order, an upgrade of *)
(* rows stored unauthenticated before included; then a release.            *)
AddInteractions(batch, failing, undone) ==
    /\ batch # <<>> /\ \A r \in ToSet(batch) : fate[r] = "coming"
    /\ Commit(Release(FoldLeft(LAMBDA w, r : Ingest(r, w, failing), Work, batch),
                      failing, undone))
    /\ UNCHANGED <<guarded, reporting, aged>>

(* INSERT OR IGNORE of a denial, and the DELETE of those past retention.   *)
Insert(kept, d) == IF d \in aged \cup ToSet(kept) THEN kept ELSE Append(kept, d)

(* record_openshell_denials: a line posted again is stored once, a line    *)
(* past retention not at all.                                              *)
RecordDenials(batch, failing, undone) ==
    LET kept == FoldLeft(Insert, <<>>, stored \o batch)
    IN /\ batch # <<>>
       /\ Commit(Release([Work EXCEPT !.stored = kept, !.used = @ \cap ToSet(kept)],
                         failing, undone))
       /\ UNCHANGED <<guarded, reporting, aged>>

(* record_heartbeat, and load_asp of new bytes: a release among other      *)
(* writes.                                                                 *)
Heartbeat(failing, undone) ==
    /\ Commit(Release(Work, failing, undone))
    /\ UNCHANGED <<guarded, reporting, aged>>

(* record_openshell_policy: the newest policies of a sandbox are kept.     *)
RecordPolicy ==
    /\ ~reporting
    /\ reporting' = TRUE
    /\ UNCHANGED <<tables, guarded, aged>>

(* adopt_guardrail of an agent without one: it releases nothing.           *)
TurnOn ==
    /\ ~guarded
    /\ guarded' = TRUE
    /\ UNCHANGED <<tables, reporting, aged>>

(* turn_off_guardrail: the agent's waiting requests have no guardrail left *)
(* to be judged against, and are deleted.                                  *)
TurnOff ==
    /\ guarded
    /\ guarded' = FALSE
    /\ fate' = [r \in Requests |-> IF r \in Waiting(Work) THEN "unjudged" ELSE fate[r]]
    /\ UNCHANGED <<stored, used, failed, excusedBy, reporting, aged>>

(* OPENSHELL_HOLD passes for a waiting request.                            *)
HoldPasses(r) ==
    /\ fate[r] = "held"
    /\ fate' = [fate EXCEPT ![r] = "overdue"]
    /\ UNCHANGED <<stored, used, failed, excusedBy, guarded, reporting, aged>>

(* A denial's week passes.                                                 *)
DenialAges(d) ==
    /\ d \notin aged
    /\ aged' = aged \cup {d}
    /\ UNCHANGED <<tables, guarded, reporting>>

SmallBatches(S) == UNION {SetToSeqs(s) : s \in {s \in SUBSET S : /\ IsFiniteSet(s)
                                                                /\ Cardinality(s) <= MaxBatch}}

RequestBatches == SmallBatches(Requests)
DenialBatches  == SmallBatches(Denials)

Next ==
    \/ \E failing \in SUBSET MayFail, undone \in BOOLEAN :
          \/ \E batch \in RequestBatches : AddInteractions(batch, failing, undone)
          \/ \E batch \in DenialBatches : RecordDenials(batch, failing, undone)
          \/ Heartbeat(failing, undone)
    \/ RecordPolicy
    \/ TurnOn
    \/ TurnOff
    \/ \E r \in Requests : HoldPasses(r)
    \/ \E d \in Denials : DenialAges(d)

(* A heartbeat arrives every minute while a tap is attached, and its       *)
(* release does not fail as a whole for good; the checks that may fail may *)
(* always fail.  Time passes.                                              *)
Fairness ==
    /\ WF_vars(Heartbeat(MayFail, FALSE))
    /\ \A r \in Requests : WF_vars(HoldPasses(r))

Spec     == Init /\ [][Next]_vars
FairSpec == Spec /\ Fairness
-----------------------------------------------------------------------------
(* The types of the tables, the limit on held requests, and that a request *)
(* waits only for the guardrail it was held under: none waits without one. *)
TypeOK ==
    /\ fate \in [Requests -> Fate]
    /\ ToSet(stored) \subseteq Denials /\ IsInjective(stored)
    /\ used \subseteq ToSet(stored)
    /\ failed \in BOOLEAN /\ guarded \in BOOLEAN /\ reporting \in BOOLEAN
    /\ aged \subseteq Denials
    /\ excusedBy \in [Requests -> Denials \cup {NoDenial}]
    /\ Cardinality(Waiting(Work)) <= HeldMax
    /\ Waiting(Work) # {} => guarded

(* "One denial excuses one request", on ingest or on release, and also     *)
(* when retention has deleted the denial and its use and it is posted      *)
(* again.                                                                  *)
OneDenialOneRequest ==
    \A r1, r2 \in Requests :
        (r1 # r2 /\ excusedBy[r1] # NoDenial) => excusedBy[r1] # excusedBy[r2]

(* A request that waited is judged only once OPENSHELL_HOLD has passed and *)
(* no stored denial is left that could excuse it, however late its turn    *)
(* comes.                                                                  *)
JudgedOnlyUnexcused ==
    [][\A r \in Requests :
          (fate[r] \in {"held", "overdue"} /\ fate'[r] = "judged")
              => fate[r] = "overdue" /\ Found(Work', r) = {}]_vars

(* Every held request is settled in the end, however many wait, whichever  *)
(* checks fail and whatever the guardrail does meanwhile.                  *)
Settled == \A r \in Requests : fate[r] = "held" ~> fate[r] \notin {"held", "overdue"}

(* README: "A request OpenShell refuses at L7 ... isn't judged either":    *)
(* once the denials of all requests are stored, each within Match of its   *)
(* own request, no request that waits is judged.                           *)
BlockedIsNotJudged ==
    [][\A r \in Requests :
          (fate[r] \in {"held", "overdue"} /\ \A q \in Requests : BlockedBy[q] \in ToSet(stored))
              => fate'[r] # "judged"]_vars
=============================================================================
