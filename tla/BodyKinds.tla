------------------------------ MODULE BodyKinds ------------------------------
(***************************************************************************)
(* Whether a request's body is an upload or only passes parameters         *)
(* (raildash/body_kinds.py), and the drip check's counter of the bytes     *)
(* that passed as parameters.                                              *)
(*                                                                         *)
(* A body is what the classifier can tell of it.  Sizes are in KiB, rounded*)
(* up, and times in days: the bounds are the code's.                       *)
(***************************************************************************)
EXTENDS Naturals, Sequences, FiniteSets, FiniteSetsExt, SequencesExt, Functions

CONSTANTS
    Methods,            \* of requests, upper-cased
    Templates,          \* path_template of the requests' paths
    ENTRY_BUDGET,       \* ENTRY_BUDGET_BYTES, in KiB
    AGENT_BUDGET,       \* AGENT_BUDGET_BYTES, in KiB
    Day                 \* DAY_SECONDS, in ticks of the clock

ASSUME BudgetAssumption == ENTRY_BUDGET \in Nat /\ AGENT_BUDGET \in Nat
ASSUME DayAssumption    == Day \in Nat \ {0}

MAX_BODY       == 16
MAX_PARAMETERS == 4
MAX_GRAPHQL    == 8

STEP_NOT_REST == 0
STEP_HARD     == 1
STEP_OVERRIDE == 2
STEP_SPEC     == 3
STEP_SHAPE    == 4
STEP_OTHER    == 5
STEP_DRIP     == 6

(* What the capture kept: a JSON object, one with GraphQL's members, a     *)
(* model request or a JSON-RPC message; other JSON, JSON that repeats a    *)
(* key, a form, any other text; or nothing, though a body was sent.        *)
Kept == {"object", "graphql", "model", "jsonrpc", "json", "repeated", "form",
         "text", "nothing"}

(* longString: a string over 1 KiB, a GraphQL query's own text apart;      *)
(* longQuery: that text is; queryOnly: it has query operations only and    *)
(* is at most 4 KiB; bounded: keys, values, depth and count in bounds;     *)
(* whole: all that was sent was kept.                                      *)
Body == [kept : Kept, media : SUBSET {"json", "form", "file"}, kib : Nat,
         longString : BOOLEAN, longQuery : BOOLEAN, queryOnly : BOOLEAN,
         bounded : BOOLEAN, encoded : BOOLEAN, sizeKnown : BOOLEAN,
         whole : BOOLEAN, method : Methods, template : Templates]

(* A request with no body, and one whose capture can't be read.            *)
NoBody     == [kept |-> "no body"]
Unreadable == [kept |-> "unreadable"]

(* _header/request_carries_body: unreadable is a body.                     *)
CarriesBody(body) == body # NoBody

(* The drip check's sums on a body it made an upload; none otherwise.      *)
NoDrip == [agent |-> 0]

(* The answer a row keeps of one body, _ROW_BODY_KEYS.                     *)
Decided(body, kind, source, step) ==
    [kind |-> kind, source |-> source, step |-> step, method |-> body.method,
     template |-> body.template, kib |-> body.kib, drip |-> NoDrip]

(* Step 1.  A GraphQL query's text is one more string unless step 4 bounds *)
(* it; a repeated key leaves text, which is one string.                    *)
HardSignal(body) ==
    \/ "file" \in body.media
    \/ body.kib > MAX_BODY
    \/ body.longString
    \/ body.kept = "graphql" /\ body.longQuery /\ ~body.queryOnly

(* _shape_steps: the shape is read only when the capture shows all of the  *)
(* body, as sent.                                                          *)
ShownAsSent(body) == /\ ~body.encoded /\ body.sizeKnown
                     /\ Cardinality(body.media) <= 1
                     /\ body.kept # "repeated" /\ body.whole

(* _shape: step 4's parameters, else step 5's unknown.                     *)
ParametersShape(body) ==
    \/ /\ body.kept = "form" /\ body.media = {"form"}
       /\ body.kib <= MAX_PARAMETERS /\ body.bounded
    \/ /\ body.kept = "object"
       /\ body.kib <= MAX_PARAMETERS /\ body.bounded
    \/ /\ body.kept = "graphql" /\ body.queryOnly
       /\ body.kib <= MAX_GRAPHQL /\ body.bounded

(* The user's answers for a host, method and template: none or one.        *)
Overrides(overrides, host, method, template) ==
    {o.kind : o \in {p \in overrides : /\ p.host = host
                                       /\ p.method = method
                                       /\ p.template = template}}

(* Broken: the user's answer is read before the hard signals.              *)
OverrideFirst(body, answers, specUploads) ==
    IF body.kept \in {"model", "jsonrpc"}
    THEN Decided(body, "upload", "traffic", STEP_NOT_REST)
    ELSE IF answers # {}
    THEN Decided(body, CHOOSE k \in answers : TRUE, "user", STEP_OVERRIDE)
    ELSE IF HardSignal(body)
    THEN Decided(body, "upload", "hard", STEP_HARD)
    ELSE IF specUploads
    THEN Decided(body, "upload", "spec", STEP_SPEC)
    ELSE IF ShownAsSent(body) /\ ParametersShape(body)
    THEN Decided(body, "parameters", "shape", STEP_SHAPE)
    ELSE Decided(body, "unknown", "shape", STEP_OTHER)

(* classify: the first step that decides wins.  A spec only ever makes a   *)
(* body an upload.                                                         *)
Classify(body, answers, specUploads) ==
    IF body.kept \in {"model", "jsonrpc"}
    THEN Decided(body, "upload", "traffic", STEP_NOT_REST)
    ELSE IF HardSignal(body)
    THEN Decided(body, "upload", "hard", STEP_HARD)
    ELSE IF answers # {}
    THEN Decided(body, CHOOSE k \in answers : TRUE, "user", STEP_OVERRIDE)
    ELSE IF specUploads
    THEN Decided(body, "upload", "spec", STEP_SPEC)
    ELSE IF ShownAsSent(body) /\ ParametersShape(body)
    THEN Decided(body, "parameters", "shape", STEP_SHAPE)
    ELSE Decided(body, "unknown", "shape", STEP_OTHER)

(* request_body_kind, the answers of a version to this host's requests     *)
(* given: an unreadable capture fails closed, past any override.           *)
RequestBodyKind(body, host, overrides, specUploads) ==
    IF body = Unreadable
    THEN [kind |-> "unknown", source |-> "hard", step |-> STEP_HARD,
          method |-> "", template |-> "/", kib |-> 0, drip |-> NoDrip]
    ELSE Classify(body, Overrides(overrides, host, body.method, body.template),
                  specUploads)
-----------------------------------------------------------------------------
(* The drip check *)

(* The bytes counted against a budget: entry |-> KiB, of the bodies whose  *)
(* keys it is one of; every body counts against the agent's.               *)
Spent(counted)         == MapThenSumSet(LAMBDA c : c.kib, counted)
SpentOn(counted, key)  == Spent({c \in counted : key \in c.keys})

EntryBudget(budgets, key) ==
    IF key \in DOMAIN budgets THEN budgets[key] ELSE ENTRY_BUDGET

(* Whether a body's bytes would take a budget past its day's bound.        *)
OverBudget(counted, kib, keys, budgets, agentBudget) ==
    \/ \E key \in keys : SpentOn(counted, key) + kib > EntryBudget(budgets, key)
    \/ Spent(counted) + kib > agentBudget

(* A parameters body the check makes an upload, with the sums it was       *)
(* judged on; it adds nothing to them.                                     *)
Dripped(kind, counted, keys) ==
    [kind EXCEPT !.kind = "upload", !.step = STEP_DRIP,
                 !.drip = [entries |-> [key \in keys |-> SpentOn(counted, key)],
                           agent |-> Spent(counted),
                           kib |-> kind.kib, over |-> kind.kib]]

(* ParametersBudget.observe: a window of one day that only moves on.  The  *)
(* state is what passed and the latest time seen.                          *)
Observe(budget, kind, keys, at, budgets, agentBudget) ==
    LET latest == Max({budget.latest, at})
        seen   == {c \in budget.seen : c.at + Day > latest}
        over   == OverBudget(seen, kind.kib, keys, budgets, agentBudget)
    IN IF kind.kind # "parameters"
       THEN [budget |-> [seen |-> seen, latest |-> latest], kind |-> kind]
       ELSE IF over
       THEN [budget |-> [seen |-> seen, latest |-> latest],
             kind |-> Dripped(kind, seen, keys)]
       ELSE [budget |-> [seen |-> seen \cup {[n |-> Cardinality(seen), keys |-> keys,
                                             at |-> latest, kib |-> kind.kib]},
                         latest |-> latest],
             kind |-> kind]
=============================================================================
