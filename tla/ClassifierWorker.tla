--------------------------- MODULE ClassifierWorker ---------------------------
(***************************************************************************)
(* The opt-in model step of the tool classifier                            *)
(* (raildash/classifier_model.py): lookups read a cache table and queue    *)
(* what it misses; a thread asks the model about one queued schema at a    *)
(* time and stores its answer.                                             *)
(*                                                                         *)
(* A lookup runs with its server's store lock held, so the worker's reads  *)
(* and writes of the table wait for it, but the worker takes, asks and     *)
(* unmarks at any moment.  Servers is the set of processes serving one     *)
(* database: each has its own lock, queue and worker, and they share the   *)
(* table only.  A key is the hash of a model and a schema.                 *)
(***************************************************************************)
EXTENDS Naturals, Sequences, SequencesExt

CONSTANTS
    Keys,        \* the schemas looked up
    Servers,     \* the processes serving the database
    Nothing,     \* no key: no lookup is on its way, or no item is in hand
    MaxQueue,    \* MAX_QUEUE
    MaxRestarts  \* bound on the times a server is stopped and started

ASSUME KeyAssumption   == Nothing \notin Keys
ASSUME QueueAssumption == MaxQueue \in Nat \ {0} /\ MaxRestarts \in Nat

VARIABLES
    answers,   \* table tool_model_answers
    queue,     \* server |-> _queue
    marked,    \* server |-> _queued
    lookup,    \* server |-> the lookup that holds the store lock
    worker,    \* server |-> where its worker is, and on which key
    restarts,  \* how often a server has been restarted
    raced      \* history: server |-> another stored an answer to its worker's
               \* key since that worker found none usable

vars == <<answers, queue, marked, lookup, worker, restarts, raced>>

(* A failed ask and an answer outside the closed set are stored alike, and *)
(* are due again after RETRY_AFTER, INVALID_RETRY_AFTER.                   *)
Answer == {"none", "usable", "unusable", "due"}

Lookup == [key : Keys \cup {Nothing}, at : {"idle", "mark", "put"}]
Worker == [key : Keys \cup {Nothing},
           at : {"idle", "check", "ask", "record", "unmark"}, reply : Answer]

NoLookup == [key |-> Nothing, at |-> "idle"]
Idle     == [key |-> Nothing, at |-> "idle", reply |-> "none"]

(* No lookup holds the server's store lock.                                *)
StoreFree(s) == lookup[s] = NoLookup

Init ==
    /\ answers = [k \in Keys |-> "none"]
    /\ queue = [s \in Servers |-> <<>>]
    /\ marked = [s \in Servers |-> {}]
    /\ lookup = [s \in Servers |-> NoLookup]
    /\ worker = [s \in Servers |-> Idle]
    /\ restarts = 0
    /\ raced = [s \in Servers |-> FALSE]
-----------------------------------------------------------------------------
(* The classifier's side: ModelClassifierWorker.lookup *)

(* A usable answer, or one not yet due again, is returned at once.         *)
ReadAnswer(s, k) ==
    /\ StoreFree(s)
    /\ answers[k] \in {"none", "due"}
    /\ lookup' = [lookup EXCEPT ![s] = [key |-> k, at |-> "mark"]]
    /\ UNCHANGED <<answers, queue, marked, worker, restarts, raced>>

(* Broken: a key already on its way is queued once more.                   *)
MarkAgain(s) ==
    /\ lookup[s].at = "mark"
    /\ lookup' = [lookup EXCEPT ![s].at = "put"]
    /\ marked' = [marked EXCEPT ![s] = @ \cup {lookup[s].key}]
    /\ UNCHANGED <<answers, queue, worker, restarts, raced>>

(* Marked before it is queued; a key already marked is on its way.         *)
Mark(s) ==
    LET k == lookup[s].key
    IN /\ lookup[s].at = "mark"
       /\ lookup' = [lookup EXCEPT ![s] = IF k \in marked[s] THEN NoLookup
                                          ELSE [key |-> k, at |-> "put"]]
       /\ marked' = [marked EXCEPT ![s] = @ \cup {k}]
       /\ UNCHANGED <<answers, queue, worker, restarts, raced>>

(* Broken: a full queue leaves the key marked.                             *)
PutOrForget(s) ==
    LET full == Len(queue[s]) >= MaxQueue
    IN /\ lookup[s].at = "put"
       /\ lookup' = [lookup EXCEPT ![s] = NoLookup]
       /\ queue' = [queue EXCEPT ![s] = IF full THEN @ ELSE Append(@, lookup[s].key)]
       /\ UNCHANGED <<answers, marked, worker, restarts, raced>>

(* Broken: the queue has no limit.                                         *)
PutAlways(s) ==
    /\ lookup[s].at = "put"
    /\ lookup' = [lookup EXCEPT ![s] = NoLookup]
    /\ queue' = [queue EXCEPT ![s] = Append(@, lookup[s].key)]
    /\ UNCHANGED <<answers, marked, worker, restarts, raced>>

(* put_nowait: a key the full queue refuses is unmarked, and queued by a   *)
(* later lookup.                                                           *)
Put(s) ==
    LET k    == lookup[s].key
        full == Len(queue[s]) >= MaxQueue
    IN /\ lookup[s].at = "put"
       /\ lookup' = [lookup EXCEPT ![s] = NoLookup]
       /\ queue' = [queue EXCEPT ![s] = IF full THEN @ ELSE Append(@, k)]
       /\ marked' = [marked EXCEPT ![s] = IF full THEN @ \ {k} ELSE @]
       /\ UNCHANGED <<answers, worker, restarts, raced>>
-----------------------------------------------------------------------------
(* The worker's side: drain_once(block=True), under run_one *)

Take(s) ==
    /\ worker[s] = Idle
    /\ queue[s] # <<>>
    /\ worker' = [worker EXCEPT ![s] = [Idle EXCEPT !.key = Head(queue[s]), !.at = "check"]]
    /\ queue' = [queue EXCEPT ![s] = Tail(@)]
    /\ UNCHANGED <<answers, marked, lookup, restarts, raced>>

(* Broken: what was answered meanwhile is asked about again.               *)
CheckNothing(s) ==
    /\ worker[s].at = "check" /\ StoreFree(s)
    /\ worker' = [worker EXCEPT ![s].at = "ask"]
    /\ raced' = [raced EXCEPT ![s] = FALSE]
    /\ UNCHANGED <<answers, queue, marked, lookup, restarts>>

(* model_answer_fresh, with the store lock: answered meanwhile, it is      *)
(* skipped.  The model is asked after the lock is released.                *)
Check(s) ==
    /\ worker[s].at = "check" /\ StoreFree(s)
    /\ worker' = [worker EXCEPT ![s].at =
                     IF answers[worker[s].key] = "usable" THEN "unmark" ELSE "ask"]
    /\ raced' = [raced EXCEPT ![s] = FALSE]
    /\ UNCHANGED <<answers, queue, marked, lookup, restarts>>

(* The database refuses the read: the item is skipped.                     *)
CheckFails(s) ==
    /\ worker[s].at = "check" /\ StoreFree(s)
    /\ worker' = [worker EXCEPT ![s].at = "unmark"]
    /\ UNCHANGED <<answers, queue, marked, lookup, restarts, raced>>

(* _ask: the model's reply, or a failure, whenever it comes.               *)
Ask(s, reply) ==
    /\ worker[s].at = "ask"
    /\ worker' = [worker EXCEPT ![s].at = "record", ![s].reply = reply]
    /\ UNCHANGED <<answers, queue, marked, lookup, restarts, raced>>

(* record_model_answer replaces what is stored, whatever it is.            *)
Record(s) ==
    LET k == worker[s].key
    IN /\ worker[s].at = "record" /\ StoreFree(s)
       /\ answers' = [answers EXCEPT ![k] = worker[s].reply]
       /\ worker' = [worker EXCEPT ![s].at = "unmark"]
       /\ raced' = [t \in Servers |-> raced[t] \/ (t # s /\ worker[t].key = k)]
       /\ UNCHANGED <<queue, marked, lookup, restarts>>

(* The write fails (a busy database): the answer is lost.                  *)
RecordFails(s) ==
    /\ worker[s].at = "record" /\ StoreFree(s)
    /\ worker' = [worker EXCEPT ![s].at = "unmark"]
    /\ UNCHANGED <<answers, queue, marked, lookup, restarts, raced>>

(* Broken: an item whose write failed stays marked.                        *)
UnmarkStored(s) ==
    /\ worker[s].at = "unmark"
    /\ marked' = [marked EXCEPT ![s] = IF answers[worker[s].key] = "none" THEN @
                                       ELSE @ \ {worker[s].key}]
    /\ worker' = [worker EXCEPT ![s] = Idle]
    /\ UNCHANGED <<answers, queue, lookup, restarts, raced>>

(* The finally clause of drain_once.                                       *)
Unmark(s) ==
    /\ worker[s].at = "unmark"
    /\ marked' = [marked EXCEPT ![s] = @ \ {worker[s].key}]
    /\ worker' = [worker EXCEPT ![s] = Idle]
    /\ UNCHANGED <<answers, queue, lookup, restarts, raced>>
-----------------------------------------------------------------------------
(* The retry time of an unusable answer passes.                            *)
FallDue(k) ==
    /\ answers[k] = "unusable"
    /\ answers' = [answers EXCEPT ![k] = "due"]
    /\ UNCHANGED <<queue, marked, lookup, worker, restarts, raced>>

(* Only the table survives a server's restart; its worker is a daemon      *)
(* thread, and ends wherever it is.                                        *)
Restart(s) ==
    /\ restarts < MaxRestarts
    /\ restarts' = restarts + 1
    /\ queue' = [queue EXCEPT ![s] = <<>>]
    /\ marked' = [marked EXCEPT ![s] = {}]
    /\ lookup' = [lookup EXCEPT ![s] = NoLookup]
    /\ worker' = [worker EXCEPT ![s] = Idle]
    /\ raced' = [raced EXCEPT ![s] = FALSE]
    /\ UNCHANGED answers

LookupStep(s) == Mark(s) \/ Put(s)

WorkerStep(s) ==
    \/ Take(s) \/ Check(s) \/ CheckFails(s) \/ Record(s) \/ RecordFails(s) \/ Unmark(s)
    \/ \E reply \in {"usable", "unusable"} : Ask(s, reply)

Next ==
    \/ \E s \in Servers : LookupStep(s) \/ WorkerStep(s) \/ Restart(s)
    \/ \E s \in Servers, k \in Keys : ReadAnswer(s, k)
    \/ \E k \in Keys : FallDue(k)

(* The thread runs on, and a lookup runs to its end (it only waits for the *)
(* locks).  Every read of an agent's tools looks each of them up, so every *)
(* tool is looked up again and again; time passes; and neither the model   *)
(* nor the database is out of order for good.                              *)
Fairness ==
    /\ \A s \in Servers :
          /\ WF_vars(LookupStep(s))
          /\ SF_vars(WorkerStep(s))
          /\ SF_vars(Check(s))
          /\ SF_vars(Ask(s, "usable"))
          /\ SF_vars(Record(s) /\ worker[s].reply = "usable")
          /\ \A k \in Keys : SF_vars(ReadAnswer(s, k))
    /\ \A k \in Keys : WF_vars(FallDue(k))

Spec     == Init /\ [][Next]_vars
FairSpec == Spec /\ Fairness
-----------------------------------------------------------------------------
(* The types of the variables; a queue never exceeds MAX_QUEUE.            *)
TypeOK ==
    /\ answers \in [Keys -> Answer]
    /\ queue \in [Servers -> Seq(Keys)] /\ \A s \in Servers : Len(queue[s]) <= MaxQueue
    /\ marked \in [Servers -> SUBSET Keys]
    /\ lookup \in [Servers -> Lookup]
    /\ worker \in [Servers -> Worker]
    /\ restarts \in 0..MaxRestarts
    /\ raced \in [Servers -> BOOLEAN]

(* The marks of a server are its keys on their way, each of them once: in  *)
(* the queue, in the worker's hand, or about to be queued.  A mark without *)
(* its key would keep the schema from ever being asked about; a key on its *)
(* way twice would be asked about twice.                                   *)
MarkedIsOnItsWay ==
    \A s \in Servers :
        LET adding == IF lookup[s].at = "put" THEN <<lookup[s].key>> ELSE <<>>
            inHand == IF worker[s] = Idle THEN <<>> ELSE <<worker[s].key>>
            onWay  == queue[s] \o adding \o inHand
        IN marked[s] = ToSet(onWay) /\ IsInjective(onWay)

(* "A failed ask is cached too, and asked again after RETRY_AFTER", never  *)
(* before: with one server, the model is asked about a schema only when it *)
(* has no answer or an unusable one that is due again.                     *)
AskedWhenDue ==
    [][\A s \in Servers :
          (worker[s].at = "check" /\ worker'[s].at = "ask")
              => answers[worker[s].key] \in {"none", "due"}]_vars

(* With one server, every schema that is looked up has a usable answer in  *)
(* the end and keeps it, whatever fails, is full or is restarted on the    *)
(* way.                                                                    *)
Settled == \A k \in Keys : <>[](answers[k] = "usable")

(* With several servers a usable answer can be replaced, but only by the   *)
(* answer to an ask that was already on its way when it was stored.        *)
UsableLostToRaceOnly ==
    [][\A k \in Keys :
          (answers[k] = "usable" /\ answers'[k] # "usable")
              => \E s \in Servers : worker[s].key = k /\ raced[s]]_vars
=============================================================================
