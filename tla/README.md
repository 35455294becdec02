# RailDash in TLA+

RailDash (`src/raildash/`) is a local dashboard that stores what an agent's
machine reports about it: Agent Security Profiles (ASPs, signed-off evidence
bundles) and captured HTTP requests. It keeps them in one SQLite file, compares
new ASPs with a reviewed baseline, and holds agents to a *Data Guardrail*: a
contract whose violations are counted in rows until somebody acknowledges them.
This directory models the parts of it whose correctness depends on the order of
things: what is stored, deleted, compared, judged, held back, counted and shown.

## The system

Everything goes through one `Store` object per process (`store.py`, with the
mixins of `guardrail_store.py` and `data_actions_store.py`): a process-wide
lock, and for writers `BEGIN IMMEDIATE`, so that an operation is one atomic
step. Concurrency comes from *between* the operations: the web server's
threads, the command line on the same file, a collector that posts captures,
ASPs, denials and heartbeats on independent paths and retries them, an operator
with an old page open, and one background thread that asks a language model.

| component | state | operations | talks to | what makes it hard |
|---|---|---|---|---|
| ASP custody (`store.py`, `asp.py`) | `asps`, `alignment_versions`, `active_bindings`, `drift_results`, retention settings | `load_asp`, `lock_alignment`, `switch_alignment`, `make_baseline`, `prune_asp_history`, `set_asp_retention` | drift comparison; the guardrail hook of `load_asp` | identity depends on history; retention against locks; replays; clock |
| drift comparison (`asp.py`, `asp_normalize.py`, `asp_spelling.py`) | none | `compare_alignment`, normalisation | custody | resolves identities again, from less information |
| guardrail rows, versions, state (`guardrail_store.py`, `guardrail.py`) | `guardrail_versions`, `_bindings`, `_rows`, `_marks` | adopt, edit, switch, turn off, Allow, Allow all, acknowledge; hooks on ASP and request ingest | custody (newest ASP), ingest | failing checks, re-checks, caps, two retentions, state computed twice |
| OpenShell hold (`guardrail_store.py`) | `openshell_denials`, `_used`, `_held_requests`, `_sandbox_policies` | ingest of a 403, posts of denials and policies, release on every write | ingest, guardrail rows | two unordered feeds matched by time only |
| classifier worker (`classifier_model.py`) | queue, marks, `tool_model_answers` | `lookup`, `drain_once` | the store lock, a model over HTTP | the only background thread; unlocked between read and write |
| capture ingest (`app.py`, `ingest.py`, `store.py`) | `interactions`, `sessions`, heartbeat, refusals | the webhook with the write token or without it, `add_interactions`, heartbeat | ownership, tools, guardrail | duplicates, a forged first copy, half-done batches |
| request ownership (`guardrail.py`) | none | `request_owner` | ingest, proposal | a request counts for one agent or for nobody |
| contract, proposal and offers (`guardrail.py`, `guardrail_store.py`) | the rules of a version | evaluate, propose, narrow, offer what was declared, allow by one click | ASPs, requests, policy, rows | a row stands for requests nobody can judge again |
| body kinds and the drip budget (`body_kinds.py`, `guardrail_store.py`) | `guardrail_parameters_bytes` | classify a body, `_drip_check_locked` | request rules | a sliding window, bodies judged late or held |
| OpenShell policy (`openshell_policy.py`) | the newest policy record | import, export with its gaps | proposal, contract | an exported file must open no more than the contract |
| tools and data actions (`tool_schemas.py`, `tool_calls.py`, `data_actions.py`, `data_actions_store.py`) | `tool_schemas`, `data_action_calls` | read schemas and calls off an exchange, classify, judge, propose | ingest, rows | bounded rows, untrusted lists, what can't be read |
| not-offered queue (`guardrail_store.py`, `data_actions_store.py`) | `data_action_pending` | queue a call, judge it after a delay | rows, heartbeat | judged under a later policy and later listings |
| freshness and liveness (`guardrail.py`, `store.py`) | heartbeats, refusals, receipts | record, `request_rules_status` | shown state | windows, receive times |
| store open and upgrade (`store.py`) | schema, `user_version`, backfill settings | upgrade passes | everything | crash between passes, two processes |
| drift details, API specs, read models (`asp.py`, `api_specs.py`, `store.py`) | none, or one row | compare, parse, query | custody, body kinds | pure functions |
| web app, CLI, dashboard (`app.py`, `cli.py`, `static/`) | none | routes and commands | the store | pure I/O |

`PROJECT.json` lists the same components with what is modelled of each, and the
hazards of the code line by line with the properties that cover them.

## The modules

| module | models | proved |
|---|---|---|
| `AspArchive` | what custody promises, abstractly | |
| `AspCustody` | ASP custody, one action per operation; implements `AspArchive` | `AspCustodyProofs` |
| `GuardrailRows` | one agent's guardrail: versions, rows, overflow row, shown state | `GuardrailRowsProofs` |
| `OpenShellHold` | 403s that wait for OpenShell's denial | `OpenShellHoldProofs` |
| `ClassifierWorker` | the background thread and its queue | `ClassifierWorkerProofs` |
| `Hosts` | hosts, patterns, what a pattern covers | |
| `BodyKinds` | whether a body is an upload or parameters, and the bytes counted | |
| `RequestRules` | what a request breaks, what its row keeps, how a row is judged again, Allow this | |
| `AspRules` | the rules judged on an ASP, and the roll-up of results | |
| `Proposal` | the proposed contract, narrowing, declared offers | |
| `PolicyExport` | a version written as an OpenShell policy, and its gaps | |
| `ContractLife` | one agent's contract over its life; composes the six above | `ContractLifeProofs`, `ContractDripProofs` |
| `ToolTraffic` | the tool schemas and calls of one exchange | |
| `DataActions` | what a tool does with data, and the rule about it | |
| `Captures` | captures on their way in, their tools, the not-offered queue; composes the two above | `CapturesProofs` |
| `Folding` | no code: induction over naturals and finite sets, folds and sums; the proofs rest on it | itself |
| `MC...` | values for the constants, symmetry | |

### AspCustody

The variables are the tables. A bundle is a model value; `Content` says what it
declares (its ASP id, contract version, sandbox, deployment identity, agent
keys). `LoadAsp` is the whole handler: the identity, the insert, the comparison
with the active version and the retention pass. `PruneChoices` is nondeterministic
where SQLite's `ORDER BY stored_at` is: among rows of the same instant. The clock
moves either way. An operation that raises rolls back, so refusals are no steps;
an exact replay changes nothing either, and whether it is *answered* as a replay is
the invariant `ReplayAnswered`. A caller sends any of `Senders`: a key, none, or one of
`Unusable`, an explicit key that nobody validates and no identity has (padded, too long).
Such a key passes for explicit and does no harm while the deployment names the agent;
once the sandbox has v2 history the key would win and the bundle is refused, its replay too, which
`ReplayAnswered` exempts. `AspArchive` forgets times, comparisons and
settings; `ArchiveKept` says that custody implements it.

### GuardrailRows

`Items` are the things a rule can disallow, a version is the set it allows, and a
piece of evidence is the set of items it shows, numbered by arrival.
`RecordViolations` is `_record_violations` with its re-opening, cap, overflow row
and retention; the order in which one piece of evidence lists its items decides
which new item takes the last free row, hence the `\E listed`. `Judge` is a hook in
its savepoint, which may fail; `Activate` re-checks the newest ASP. `RuleResult`,
`AgentState` and `ShownState` are the functions of `guardrail.py` that say what is
shown, with staleness and quiet feeds as parameters. Retention of ASPs is any
deletion here (`AspCustody` says which ones happen).

### OpenShellHold

One agent and one sandbox, whose requests and denials agree in host, method and
path, so that only times tell them apart: the hard case. A transaction is a
function on a record of the tables (`Work`), so that "ingest each, then release"
is a fold and still one step, as it is one transaction. What one agent and one sandbox
leave out: an agent with several sandboxes draws on all their denials, and the
release batch is shared by all agents. `TurnOff` deletes what waits, as
`turn_off_guardrail` does: a later adoption judges none of it (`TypeOK`: none waits without
a guardrail). The sandbox of the agent stays known, as it
does while one of its ASPs is locked. Requests captured before the guardrail's
activation are skipped by the code before they reach the hold and are left out.

### ClassifierWorker

`lookup` reads the table, marks and queues in three steps, the first two with the
locks the code takes; the worker takes, checks, asks, records and unmarks, each a
step of its own, because it holds no lock across them. With two `Servers` the
table is shared and nothing else is, as when `raildash` runs twice on one file.

### ContractLife and the rules under it

`Hosts`, `BodyKinds`, `RequestRules`, `AspRules`, `Proposal` and `PolicyExport` hold no
state: they are the functions of `guardrail.py`, `body_kinds.py` and
`openshell_policy.py` as operators. A host is the sequence of its labels and a tool
the sequence of its name's parts, so that patterns mean what they mean in the code; a
body is what its classifier can tell of it (kept form, media, size, hard signals);
paths and addresses are values. A row's `detail` keeps what `_merged_detail` keeps,
which is what a later version judges it by: `ItemAllowed` never sees the requests. A row's
item is a text, and the agent writes the Host header: `ToolText` gives each tool the host that is
written as its name, and `OnePerRow` drops the second hit of a request on one row.

`ContractLife` has the tables of one agent (captures are every agent's: `mine` tells whose, since the
limit on how many are read counts all): its versions, the one in force, rows,
counted bytes, held requests, the newest ASP and policy. `Judge` is
`_judge_request_locked` with the drip check, the evaluation and the merge of the rows;
`Release` judges a held request as of when it was held. Every way to a new version is
an action over the same `CreateVersion`. `Worlds` says what an agent begins with and
what may happen to it, so that one run covers several situations that have little to do
with one another, and each stays small. `judged` and `refused` are history.

### Captures and the modules under it

`ToolTraffic` reads schemas and calls off an exchange, whose content is a record of what
the parsers find in it; `DataActions` classifies a tool over the schemas known of it.
A capture's `marks` are what cheap substring tests find in its stored text: without one for tool
lists its lists, and without one for calls its calls, are not read (`MayCarryTools`,
`MayCarryCalls`), whatever the parsers would find. In `Captures`, `Receive` is the whole webhook: every copy of the batch is stored,
replaced or dropped, its tools recorded, its calls judged, and, with the token, the queue
of calls no listing had is run. Any one of the checks in it may fail in its savepoint.
`ReceiveFails` is a batch whose last copy raises: the rows before it stay in a transaction
nobody ends, the session and the queue are not touched, and until the next post ends it no
write transaction can begin (`open`). That the tables of `db` show the uncommitted rows is
what the process's one connection sees.

## The runs

| run | instance | what it shows |
|---|---|---|
| `asp_custody` | two like v1 bundles, one v2, one v1 that reuses the v2's ASP id; one sandbox, two keys and one unusable, two labels, two retentions, two instants, three inserts | the eight properties of `AspCustody` |
| `asp_v2_history` | the same | finding: retention forgets that a sandbox was shared |
| `guardrail_rows` | two items of an ASP rule, one of a request rule; one open row; two pieces of evidence; two versions; two instants | the seven properties of `GuardrailRows` |
| `guardrail_cap`, `guardrail_reopens`, `guardrail_disagree` | the same, with three pieces of evidence where needed | three disagreements of docs and code |
| `openshell_hold` | three 403s of which the middle one is near both denials, two held at most, one released at a time, one check that may fail, turned off and on at any time | the four properties of `OpenShellHold` |
| `openshell_blocked` | a call retried after ten seconds, a log six seconds behind | finding: a blocked call is judged |
| `classifier_worker` | one server, three schemas, a queue of one, one restart | at most one ask on its way, none before it is due, all settled |
| `classifier_two_servers` | two servers, two schemas | a usable answer is lost only to an ask already on its way when it was stored |
| `contract_life` | seven worlds: `dripping`, `blocked`, `mixed`, `crowded`, `busy`, `likeTool`, `declaring` | the nine properties of `ContractLife` |
| `captures` | five worlds: `forging`, `listing`, `hiding`, `sharing`, `proposing` | the seven properties of `Captures` |

What the properties of the last two say:

- `RowsHideNothing`: a row some version allows hides no request that hit it and still
  breaks that version. `FilesAlwaysCount`: a file, credential or unreadable body to an
  unlisted host leaves a row that only listing the host clears. (Both but for a host named as
  a denied tool the agent called, whose row the two share.) `DripBounded`: over any day
  of capture times, in any order of arrival, what passed as parameters stays within budget.
- `AllowClears`: Allow all stops every row it was given from counting and starts no other.
  `NarrowStartsNothing`: neither does narrowing, for any request of the agent's
  last day, read or not. `WouldBeComplete`: the list shown before a
  guardrail is adopted is all that adopting it would break of the ASP and of the requests *read* of
  its day, and nothing more but hosts that no list can write, which a wildcard may cover. (The
  newest `PROPOSAL_MAX_REQUESTS` captures are read, every agent's; an older request is in neither
  the proposal nor the list.) `OfferedOnce`: a dismissed offer is
  not made again. `ExportWithin`: the exported policy opens no more than the version,
  and closes nothing it lists, but for the gaps it names.
- `ForgeryLeavesNothing`: what came without the token leaves nothing once the collector's
  copy is in. `NotOfferedRight`: a call is flagged exactly when no listing of its time and
  no page of the newest had its tool. `CallsAccounted`: bounded rows lose no call.
  `NothingHiddenHeld`: `data_actions` is not shown held over a lost check or a hidden
  action of a request that is read for calls. `ProposalCoversWindow`: the proposed rule flags no
  call of the requests it was made from, whichever of one instant were read within the limit, but
  reads only their server vouches for. `NotOfferedJudged`: every queued call is judged or
  dropped.

**Bounds.** `MaxTime`, `MaxLoads`, `MaxReceived`, `MaxVersions`, `MaxRestarts`,
`MaxBatch` bound clocks, counters and inputs, in the guards and nowhere else. They are
as small as the interesting case allows: three inserts let a bundle be pruned and
come back beside a locked one; two pieces of evidence are a hit and its repeat, with
room for one row so that the other item overflows; two instants are before and after;
three held requests overrun a limit of two and a batch of one; three schemas
fill a queue of one with one in hand.

The worlds of `contract_life` bound requests (1 to 3), versions (2 or 3), the turns (changes
of the agent's surroundings) and the clock. `dripping` has a day of two ticks, queries that
exceed a budget by the second, late and held ones and a jump of the clock past the pruning;
`blocked` holds one query while the guardrail is switched or turned off; `mixed` has a body
of each kind and both settings of body kinds; `crowded` has more bodies than a row keeps;
`busy` has a day of more captures than are read, another agent's among them, the oldest with a file;
`likeTool` has a Host header that is the name of a denied tool, with a file, text and an override;
`declaring` has tools, declared hosts and servers, a shared sandbox and two policies. Those of
`captures` bound posts (2 to 4), turns (faults, versions) and the times: `until` is the last
time of a post, after which only heartbeats come. `forging` posts a forged copy before,
after and between the collector's, and a batch that breaks; `listing` has a call before,
between and after the listings with and without its tool, past both windows; `hiding` has
more calls than are read, undeclared arguments, a request that was cut and a reply whose calls no text is read for, with every check
failing; `sharing` two agents with requests that name one, both or none; `proposing` a
version without the rule. The bounds the code has (`MAX_ROW_BODIES`, `MAX_TOOLS`,
`MAX_CALLS`, `MAX_ROWS`, `ROW_SLACK`, `MAX_PENDING`, `RUN_LIMIT`, `PROPOSAL_MAX_REQUESTS`) are constants,
set to one or two (the last to six in `contract_life`, where seven captures fall into one day) so
that they are exceeded.

The theorems hold for every value of the constants their assumptions allow: any bounds,
worlds, bundles, bodies, versions and numbers of requests.

**Fairness.** Three runs check liveness. `ClassifierWorker`: the thread loops
for ever (`run_one` never lets an exception end it), a lookup only waits for
locks, every read of an agent's tools looks up every tool again, so a key is
looked up infinitely often (strong fairness, since the lock may be taken), and
neither the model nor the database fails for good, on whichever schema it works.
With one server and these, `Settled` is what a user relies on; without the last
assumption nothing can be promised. `OpenShellHold`: a heartbeat is posted every minute and
releases; the checks that can fail are allowed to fail every time.
`Captures`: the same heartbeat runs the queue, time passes, and the run of the queue does
not fail for good. `NotOfferedJudged` exempts a failed batch's open transaction, which a
heartbeat cannot write past: only the next post ends it.

**Deadlock** is checked except for the worker, which is rightly at rest when all is
answered, and for `contract_life` and `captures`, which end when their bounds on requests,
posts, turns and times are used up.

## Findings

Each has a run that violates the quoted sentence.

- `V2HistoryStays`: README.md says a sandbox that returns to one agent keeps
  refusing unkeyed v1 "because its v2 history stays". Retention deletes it.
- `OpenRowsCapped`: the cap on open rows does not hold for rows re-opened by a
  repeat.
- `PolicyChangeReopensNothing`: a row remembers its last source only, so
  when retention deleted that source, a policy change counts an older ASP again.
  `CountedOnce` states what does hold: while the newest ASP is the last one that arrived.
- `NeverDisagree`: an agent can be shown violated with every rule shown held, while
  its overflow row counts. `ShownAgrees` states what does hold.
- `BlockedIsNotJudged`: denials are given to requests one at a time, nearest
  first, which can leave a blocked request without its own. `OneDenialOneRequest`
  and `JudgedOnlyUnexcused` hold.

## The proofs

Every safety and action property that a passing run checks is also a theorem: 37 of the 40
properties. The other three are liveness (`Settled` of the worker and of the hold, and
`NotOfferedJudged`), which is out of the prover's reach and stays with TLC. The
refinement `ArchiveKept` is among the theorems.

Only the named `ASSUME`s are assumed. Most say what a constant is; those that say
something of the system are:

| assumption | says | because |
|---|---|---|
| `AbsentAssumption`, `KeyAssumption` | the marks for absent values are none of the values | they stand for SQL's NULL |
| `ContentAssumption` | every bundle has its declared fields | schema validation |
| `WorldAssumption`, `CaptureWorldAssumption` | a world has its fields; a contract is none or one | they are the instance's inputs |
| `ClockAssumption` | times are naturals; the window before the first version has distinct ids, counted from one | row ids of a table |
| `ShapeAssumption`, `CopiesAssumption` | a body is none, unreadable or what its classifier tells; lists are lists | what ingest stores |
| `EditAssumption` | an operator's lists are finite, budgets not below zero, hosts writable | `validate_guardrail` |
| `HostsAssumption` | hosts are lists of labels wherever they come from | `normalize_host` |
| `ToolTextAssumption` | two tools are written as two texts | a name is its text |
| `ReadLimitAssumption` | the limit on requests read is a number | `guardrail_store.py:109` |
| `FilesAssumption` | an SQLite temp file's path has no extension | `asp.py:857`, `guardrail.py:524` |
| `KindsAssumption`, `VerbsAssumption` | what a schema, an override or a verb says a tool does is one of the closed set of actions | `data_actions.py` |

**Custody.** `AspCustodyProofs`: `CustodyInv` adds to the types, `EvidenceKept` and
`LockedAtMostOnce` that each stored identity is what `resolve_identity` gave for its bundle and
*some* precedence (`FiledAsResolved`), and that a drift result holds what `compare_alignment`
computes for its pair (`VerdictsTrue`). Neither `ReplayAnswered` nor `NoMisattribution` is
inductive by itself: both follow from the first addition and the lemma `ComparedAsFiled`, that
comparing resolves a bundle to the identity any precedence filed it under. A sender whose key is no
identity is one of the cases of `ReplayAnswered`'s proof, and the one that needs its exemption. For
`NewestStaysCompared`, `Numbered` says that rows are numbered by arrival and times bounded, so that
an agent with an ASP has one newest (`OneNewest`, by well-founded minima) and a load or
a lock compares it. The refinement is one lemma per action: loads and prunes are `Collect` and
`Retire`, locks and switches themselves, settings and clock stutters.

**Rows.** `GuardrailRowsProofs`: with the types, `RowsInv` holds that a failed check is stamped no
earlier than the activation it belongs to (`FailureStamped`, for `FailsClosed`), that the last ASP
that arrived is newer than every other stored one (`LatestIsNewest`), and that while it is stored
every row of an item it hit names it as its source (`LatestIsSource`): the fact
`_record_violation` relies on when it takes a hit for a repeat, and the one that fails once
retention has deleted the newest ASP. `Recorded` says once what `_record_violations` does to
each row and to the overflow row, whatever the order of the items; `NextCases` reduces five actions
to one `PolicyChange`, so that every property is proved for two kinds of recording step and for the
steps that record nothing.

**Worker.** `ClassifierWorkerProofs`: `WorkerInv` says where each mark is (`OnItsWay`: in the
queue, in the call about to put it there or in the worker's hand, and in one of these only), what a
call and the worker hold (`KeyInHand`), and that an ask on its way while a usable answer is there was
overtaken by another server (`AskedBeforeAnswered`). `AskedWhenDue` is proved for one server, any
one: with two it fails, which is what `raced` is about.

**Hold.** `OpenShellHoldProofs`: the tables of one transaction are a record, `Work`, and a
transaction a fold over requests. `GoodWork` is kept by each step of each fold (`SetFoldKeeps`):
stored denials are distinct, those used are among them, no more wait than the limit, and the denial a
request was dropped for is either still marked used or deleted for good (`ExcusedOK`), and of no
two requests the same. That last disjunct is what makes `OneDenialOneRequest` inductive:
a denial deleted while marked must never come back unmarked. `JudgedOnlyUnexcused` follows the one
request through the fold: no other request's step gives it a denial or takes one back.

**Contracts.** `ContractLifeProofs`: `LifeInv` has `RefusedWereShown` (a dismissed offer is in the
record of some version, and versions only get added), for `OfferedOnce`, and `HardCounted`, for
`FilesAlwaysCount`: a body with a hard signal, judged where its host was not listed, left a row of
its host, and every row of that host keeps a body that counts, has overflowed or was never read, unless a denied tool of its
name was called: such a call's hit replaces the row's detail (`SharedRow`, `ToolNamed`). The
lemma `MergeKeepsHard` is the core of it: merging a hit into a row, in either order, with room or
without, keeps that. `AllowClears` and `NarrowStartsNothing` go by one relation:
a contract `Broader` than another judges bodies alike and allows every row the other did
(`BroaderAllows`). Each `with_item_allowed` is broader than before and allows its own row, so
Allow all, a fold over the rows, does too; a narrowing changes what the offered hosts take and
nothing else. `ExportWithin` needs `HostsOK`: every host in a row, list or policy is made of labels,
and every entry of a list is a pattern the export writes back as itself (`PatternIsItself`).

`ContractDripProofs`: `DripBounded` is about any day of capture times, while the code sums, for
each body that may pass, what is counted later than a day before it, in whatever order they arrive.
`CountedOK` ties the two: what is counted is a passed body's, and every passed body of the last two
days is counted. A capture's time is clamped to the last day, so whatever is within a day of it is
still there (`SumPaired`: the counted bytes are those of the passed bodies), and every day that
contains the new body is part of the sum it was checked with.
`ToldInv` carries `RowsHideNothing`: a row's detail tells of every hit of its host, whoever was
merged first: the largest size, the sums that did not fit, the bodies or that there were too
many (`Told`). What a later version allows by the detail is then allowed for each request.
`WouldBeComplete`: the window's requests have times and distinct ids (`WindowOK`), so its order exists
and is one (`Before`); checking in that order leaves each body's kind as asked or over budget, and
with that each host broken is seeded, withheld, unlistable or over budget, which are the
branches the list is made of.

**Captures.** `CapturesProofs`: `CaptureInv` speaks of one table at a time (`StoredOK`, `ReadOK`,
`CallsOK`, `PagesOK`, `QueueOK`, ...), and `Frame` says which tables a step leaves alone, so that a
post, a fold of ingests of which each runs five hooks that may fail, is followed only
through what it writes. `ForgeryLeavesNothing`, `CallsAccounted` and `NotOfferedRight` follow: what
the tables hold belongs to copies that came with the token, read calls are stored or counted as
dropped, and a verdict was given after the listings that could excuse it (queue times and
pages never lie past the clock). `HiddenInv` stands on top: a judged request's easily missed
actions are told by the agent's rows, unless the version it was judged by allowed them
(`AllTold`), and a check that was lost is marked at its time or later (`LostOK`).
`ProposalCoversWindow` needs no invariant: it is set algebra over the same calls.

**Folds.** `Folding` holds what all these folds need. A theorem with an operator parameter cannot
be used here, so induction is over *sets*: the least natural outside of the set where a
formula holds comes from the library's well-founded minimum. The step of a fold is the module's
constant `Op`, and a proof takes it by `INSTANCE Folding WITH Op <- ...`. `SeqFold` and `SetFold` give the
defining equations, `SeqFoldKeeps` and `SetFoldKeeps` an invariant of the step, `SumTake`, `SumPart` and
`SumPaired` the sums over finite sets. They are lemmas: they say nothing of the code by themselves.

**What the attempts corrected.** Some formulas that the small instances satisfied could not be
proved because they were not true of every instance, or not what the code does:

- An endpoint may write a wildcard as `**` where a list writes `*`; `ExportWithin` matched the
  endpoint's own writing, and now the form a list gives it (`endpoint_host_pattern`).
- `CalledTools` counted calls that `data_actions_store.py:599` skips as unreadable, and
  `HiddenActions` calls that the code never reads.
- `ProposalCoversWindow` must leave out names of calls that could not be read.
- `RowsHideNothing` compared rows by item where two kinds of row may share one (`SameRow`).
- `WouldBeComplete` claimed equality; a host that no list can write may still be covered by a
  captured wildcard, and the list is made in two branches (`guardrail.py:2246-2262`), not one.

Some definitions have the form they have so that they can be reasoned about: the held and the
stored denials inserted one by one (`Insert`), Allow all as one row after the other (`AllowNext`),
the order of a window as the number of requests before each (`Before`, `InOrder`), since the prover
knows no definition of `SortSeq`. `UNION` is parenthesised throughout because the prover's parser
takes more into its argument than TLC's does. `Label` adds two literals to `STRING`, which the
provers do not know to be strings.

## Where the code parts from its words, without a run

These were met while modelling; the properties leave them out by name, so that they say what
does hold.

- `evaluate_data_actions` (`guardrail.py:1898`) keeps one violation per item, so a later call of
  the same request adds no undeclared arguments to it, and an override can clear an upload
  that `guardrail.py:1846` says it never clears. `NothingHiddenHeld` excludes it (`RowMadeBefore`).
- A captured host that reads as a wildcard (`*.net`) is proposed as one, and then covers another
  captured host that no list can write (`a.*.net`). The page lists that one as would-be
  (`guardrail.py:2261`) though `evaluate_request` allows it. `WouldBeComplete` exempts such hosts.
- `openshell_policy.py:698`: "whatever couldn't be carried is a gap". An upload host under a
  wildcard of the calls is carried by that wildcard's endpoint and is no gap.
- `store.py:884-886`: an exact replay "is answered as a replay below, as before". With an explicit key
  that is no usable key (`is_explicit_agent_key` accepts padded and overlong ones, `app.py:1009` and
  `cli.py:131` pass them on) a v1 bundle is stored under its deployment, and once the sandbox has v2
  history its replay raises `IdentityRequiredError` (`asp.py:490`) before the stored row is
  compared. `ReplayAnswered` exempts it.
- `guardrail_store.py:107-108` reads "at most this many of the agent's requests"; the limit of the query
  (`guardrail_store.py:1156-1161`) counts every agent's, so that a busy neighbour takes requests out of a
  proposal. Narrowing refuses such a window (`guardrail_store.py:1385`), the proposal does not:
  `WouldBeComplete` is about the requests read.
- A host that is written like a denied tool shares its row under `uploads`, and `_merged_detail` keeps
  the newer hit's detail where the kinds differ: after the tool call, the host's file is no longer
  told. `body_kinds.py` lets nothing override such a file, but allowing the tool clears the row.
  `FilesAlwaysCount` and `RowsHideNothing` exempt such hosts (`ToolNamed`).
- `data_actions_store.py:594`: "no call can be in it", of a text without one of `_CALL_MARKERS`
  (lines 52-54). `tool_calls.py:329` takes a content block of type `tool_call` for a call, which
  holds none of them: such a call is neither recorded nor judged nor proposed, and nothing is marked
  failed. `NothingHiddenHeld` is about requests that are read (`CallsRead`).
- Two MCP tools whose names name no server share a row; `RowsHideNothing` compares rows of one
  kind and server (`SameRow`).
- Parameters of different methods or paths to one host keep separate sums in a row's drip detail
  (`guardrail.py:726`); `Again` sums bodies of one key only.
- A held request is judged by the day it was held in, of which rows may have been pruned since:
  `DripBounded` speaks of days without one.
- After a batch failed midway, the session's `first_seen` may stay a forged one and
  heartbeats fail until the next post: `ForgeryLeavesNothing` and `NotOfferedJudged` say so.
- A listing of more tools than are read makes the tools past the bound count as not offered later;
  `NotOfferedRight` is about what was read.

## Not modelled

- **Store open and upgrade.** Passes over old files, before anything else runs. A crash between two
  is a listed hazard; a model of it would be a list of flags.
- **Backfill, and the cache of ASP facts** in `data_actions_store.py`: `Captures` takes the
  declared servers and trusted hosts as given. The cache's key, `max(rowid)` and `count(*)`, can
  come back after a prune and an insert (a listed hazard).
- **Formats**: providers' messages and streams, OpenAPI documents, policy files, verb tables,
  schema sizes, the bytes a body's signals are read from. What they say is an input.
- **The attribute diff** of a comparison, spelling variants, acceptance labels; receipts of replayed ASPs.
- **Read models, web routes, command line, dashboard, tools**: queries and I/O around the
  operations above. That the command line runs beside a server is the interleaving of their steps.
- **A page that edits a version no longer in force** is refused by `_require_active`
  (`guardrail_store.py:1890`): the guard is in the actions, but what a page showed is no state of the
  program, so that no property is about it (a listed hazard).
- **Attribution states that ingest does not store**: the last branch of `request_owner`
  (`guardrail.py:1329`) is for states other than those `normalise` keeps (`ingest.py:563-565`).
- **A crash with an open transaction** is a rollback to the state before it, by SQLite.

What would come next: receipts of replayed ASPs and the receive times of heartbeats and refusals
(`store.py:1964`, a listed hazard), the cache of ASP facts as a state of its own, and the liveness
properties reduced to safety lemmas about each helpful step.
