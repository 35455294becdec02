------------------------ MODULE ClassifierWorkerProofs ------------------------
(***************************************************************************)
(* Theorems about ClassifierWorker for every set of schemas and servers,   *)
(* any queue limit and any number of restarts: its types, that a server's  *)
(* marks are its keys on their way, when the model is asked, and what can  *)
(* take a usable answer back.                                              *)
(***************************************************************************)
EXTENDS ClassifierWorker, TLAPS

(* What a lookup and a worker hold goes with where they are.               *)
KeyInHand ==
    \A s \in Servers :
        /\ lookup[s].at = "idle" => lookup[s].key = Nothing
        /\ lookup[s].at # "idle" => lookup[s].key \in Keys
        /\ worker[s].at = "idle" => worker[s] = Idle
        /\ worker[s].at # "idle" => worker[s].key \in Keys

Adding(s) == IF lookup[s].at = "put" THEN {lookup[s].key} ELSE {}
InHand(s) == IF worker[s].at = "idle" THEN {} ELSE {worker[s].key}

(* MarkedIsOnItsWay, place by place.                                       *)
OnItsWay ==
    \A s \in Servers :
        /\ marked[s] = ToSet(queue[s]) \cup Adding(s) \cup InHand(s)
        /\ IsInjective(queue[s])
        /\ ToSet(queue[s]) \cap Adding(s) = {}
        /\ ToSet(queue[s]) \cap InHand(s) = {}
        /\ Adding(s) \cap InHand(s) = {}

(* An ask on its way while a usable answer is there: another server stored *)
(* that answer since.                                                      *)
AskedBeforeAnswered ==
    \A s \in Servers :
        (worker[s].at \in {"ask", "record"} /\ answers[worker[s].key] = "usable") => raced[s]

WorkerInv == TypeOK /\ KeyInHand /\ OnItsWay /\ AskedBeforeAnswered
-----------------------------------------------------------------------------
(* Sequences without repetition: what adding at the end and taking from the*)
(* front do to their elements.                                             *)
LEMMA AppendKey ==
    ASSUME NEW S, NEW q \in Seq(S), NEW k \in S, IsInjective(q), k \notin ToSet(q)
    PROVE  /\ Append(q, k) \in Seq(S) /\ Len(Append(q, k)) = Len(q) + 1
           /\ ToSet(Append(q, k)) = ToSet(q) \cup {k}
           /\ IsInjective(Append(q, k))
<1> DEFINE a == Append(q, k)
<1>1. /\ a \in Seq(S) /\ Len(q) \in Nat /\ Len(a) = Len(q) + 1
      /\ DOMAIN a = 1..(Len(q) + 1) /\ DOMAIN q = 1..Len(q)
      /\ a[Len(q) + 1] = k /\ \A i \in 1..Len(q) : a[i] = q[i]
  OBVIOUS
<1>2. ToSet(a) = ToSet(q) \cup {k}
  <2>1. ToSet(a) = {a[i] : i \in 1..(Len(q) + 1)} /\ ToSet(q) = {q[i] : i \in 1..Len(q)}
    BY <1>1 DEF ToSet
  <2>2. 1..(Len(q) + 1) = 1..Len(q) \cup {Len(q) + 1}
    BY <1>1
  <2> QED BY <1>1, <2>1, <2>2
<1>3. IsInjective(a)
  <2>1. \A i, j \in 1..Len(q) : q[i] = q[j] => i = j
    BY <1>1 DEF IsInjective
  <2>2. \A i \in 1..Len(q) : q[i] # k
    BY <1>1 DEF ToSet
  <2>3. \A i, j \in 1..(Len(q) + 1) : a[i] = a[j] => i = j
    BY <1>1, <2>1, <2>2
  <2> QED BY <1>1, <2>3 DEF IsInjective
<1> QED BY <1>1, <1>2, <1>3

(* The first key of a queue without repeats, taken, is in it no more.      *)
LEMMA TakeKey ==
    ASSUME NEW S, NEW q \in Seq(S), q # <<>>, IsInjective(q)
    PROVE  /\ Head(q) \in S /\ Tail(q) \in Seq(S) /\ Len(Tail(q)) = Len(q) - 1
           /\ ToSet(q) = ToSet(Tail(q)) \cup {Head(q)}
           /\ Head(q) \notin ToSet(Tail(q))
           /\ IsInjective(Tail(q))
<1> DEFINE t == Tail(q)
<1>1. /\ Head(q) \in S /\ t \in Seq(S) /\ Len(q) \in Nat /\ Len(q) >= 1 /\ Len(t) = Len(q) - 1
      /\ Head(q) = q[1] /\ DOMAIN t = 1..(Len(q) - 1) /\ DOMAIN q = 1..Len(q)
      /\ \A i \in 1..(Len(q) - 1) : t[i] = q[i + 1]
  OBVIOUS
<1>2. \A i, j \in 1..Len(q) : q[i] = q[j] => i = j
  BY <1>1 DEF IsInjective
<1>3. ToSet(t) = {t[i] : i \in 1..(Len(q) - 1)} /\ ToSet(q) = {q[i] : i \in 1..Len(q)}
  BY <1>1 DEF ToSet
<1>4. ToSet(q) = ToSet(t) \cup {Head(q)}
  <2>1. \A i \in 1..Len(q) : i = 1 \/ i - 1 \in 1..(Len(q) - 1)
    BY <1>1
  <2>2. \A i \in 1..Len(q) : q[i] = Head(q) \/ q[i] = t[i - 1]
    BY <1>1, <2>1
  <2>3. ToSet(q) \subseteq ToSet(t) \cup {Head(q)}
    <3>1. ASSUME NEW i \in 1..Len(q), i # 1 PROVE q[i] \in ToSet(t)
      <4>1. i - 1 \in 1..(Len(q) - 1) /\ q[i] = t[i - 1]
        BY <1>1, <2>1, <3>1
      <4> QED BY <1>3, <4>1
    <3>2. \A i \in 1..Len(q) : q[i] \in ToSet(t) \cup {Head(q)}
      BY <1>1, <3>1
    <3> QED BY <1>3, <3>2
  <2>4. ToSet(t) \cup {Head(q)} \subseteq ToSet(q)
    BY <1>1, <1>3
  <2> QED BY <2>3, <2>4
<1>5. Head(q) \notin ToSet(t)
  BY <1>1, <1>2, <1>3
<1>6. IsInjective(t)
  <2>1. \A i, j \in 1..(Len(q) - 1) : t[i] = t[j] => i = j
    BY <1>1, <1>2
  <2> QED BY <1>1, <2>1 DEF IsInjective
<1> QED BY <1>1, <1>4, <1>5, <1>6

(* Two sequences without repetition and without a common element.          *)
LEMMA Joined ==
    ASSUME NEW S, NEW q \in Seq(S), NEW r \in Seq(S),
           IsInjective(q), IsInjective(r), ToSet(q) \cap ToSet(r) = {}
    PROVE  q \o r \in Seq(S) /\ ToSet(q \o r) = ToSet(q) \cup ToSet(r) /\ IsInjective(q \o r)
<1> DEFINE j == q \o r
<1>1. /\ j \in Seq(S) /\ Len(q) \in Nat /\ Len(r) \in Nat
      /\ DOMAIN q = 1..Len(q) /\ DOMAIN r = 1..Len(r) /\ DOMAIN j = 1..(Len(q) + Len(r))
      /\ \A n \in 1..Len(q) : j[n] = q[n]
      /\ \A n \in 1..Len(r) : j[Len(q) + n] = r[n]
  OBVIOUS
<1>2. \A n \in 1..(Len(q) + Len(r)) :
         \/ n \in 1..Len(q) /\ j[n] = q[n]
         \/ n - Len(q) \in 1..Len(r) /\ j[n] = r[n - Len(q)]
  <2> SUFFICES ASSUME NEW n \in 1..(Len(q) + Len(r)), n \notin 1..Len(q)
               PROVE  n - Len(q) \in 1..Len(r) /\ j[n] = r[n - Len(q)]
    BY <1>1
  <2>1. n - Len(q) \in 1..Len(r) /\ n = Len(q) + (n - Len(q))
    BY <1>1
  <2> QED BY <1>1, <2>1
<1>3. ToSet(j) = ToSet(q) \cup ToSet(r)
  <2>1. /\ ToSet(j) = {j[n] : n \in 1..(Len(q) + Len(r))}
        /\ ToSet(q) = {q[n] : n \in 1..Len(q)} /\ ToSet(r) = {r[n] : n \in 1..Len(r)}
    BY <1>1 DEF ToSet
  <2>2. ToSet(j) \subseteq ToSet(q) \cup ToSet(r)
    BY <1>2, <2>1
  <2>3. \A n \in 1..Len(q) : n \in 1..(Len(q) + Len(r))
    BY <1>1
  <2>4. \A n \in 1..Len(r) : Len(q) + n \in 1..(Len(q) + Len(r))
    BY <1>1
  <2>5. ToSet(q) \cup ToSet(r) \subseteq ToSet(j)
    BY <1>1, <2>1, <2>3, <2>4
  <2> QED BY <2>2, <2>5
<1>4. IsInjective(j)
  <2>1. /\ \A m, n \in 1..Len(q) : q[m] = q[n] => m = n
        /\ \A m, n \in 1..Len(r) : r[m] = r[n] => m = n
    BY <1>1 DEF IsInjective
  <2>2. \A m \in 1..Len(q), n \in 1..Len(r) : q[m] # r[n]
    BY <1>1 DEF ToSet
  <2>3. ASSUME NEW m \in 1..(Len(q) + Len(r)), NEW n \in 1..(Len(q) + Len(r)), j[m] = j[n]
        PROVE  m = n
    BY <1>1, <1>2, <2>1, <2>2, <2>3
  <2> QED BY <1>1, <2>3 DEF IsInjective
<1> QED BY <1>1, <1>3, <1>4
-----------------------------------------------------------------------------
(* With no lookup begun and nothing asked the invariant holds.             *)
LEMMA InitOK == Init => WorkerInv
<1> SUFFICES ASSUME Init PROVE WorkerInv
  OBVIOUS
<1>1. TypeOK
  BY QueueAssumption DEF Init, TypeOK, Lookup, Worker, NoLookup, Idle, Answer
<1>2. KeyInHand
  BY DEF Init, KeyInHand, NoLookup, Idle
<1>3. ToSet(<<>>) = {} /\ IsInjective(<<>>)
  BY DEF ToSet, IsInjective
<1>4. OnItsWay
  BY <1>3 DEF Init, OnItsWay, Adding, InHand, NoLookup, Idle
<1>5. AskedBeforeAnswered
  BY DEF Init, AskedBeforeAnswered, Idle
<1> QED BY <1>1, <1>2, <1>4, <1>5 DEF WorkerInv

(* A lookup queues its key, or, finding the queue full, unmarks it.        *)
LEMMA PutOK ==
    ASSUME WorkerInv, NEW s \in Servers, Put(s)
    PROVE  WorkerInv'
<1> USE DEF WorkerInv
<1> DEFINE k == lookup[s].key
<1>1. /\ k \in Keys /\ k \in marked[s] /\ Adding(s) = {k} /\ StoreFree(s)'
      /\ queue[s] \in Seq(Keys) /\ k \notin ToSet(queue[s]) /\ k \notin InHand(s)
  BY DEF Put, TypeOK, KeyInHand, OnItsWay, Adding, StoreFree
<1>2. /\ Append(queue[s], k) \in Seq(Keys) /\ Len(Append(queue[s], k)) = Len(queue[s]) + 1
      /\ ToSet(Append(queue[s], k)) = ToSet(queue[s]) \cup {k}
      /\ IsInjective(Append(queue[s], k))
  BY <1>1, AppendKey DEF OnItsWay
<1>3. Len(queue[s]) \in Nat
  BY <1>1
<1>4. TypeOK'
  BY <1>1, <1>2, <1>3, QueueAssumption DEF Put, TypeOK, Lookup, NoLookup
<1>5. KeyInHand'
  BY DEF Put, TypeOK, KeyInHand, NoLookup
<1>6. OnItsWay'
  <2> SUFFICES ASSUME NEW t \in Servers
               PROVE  /\ marked'[t] = ToSet(queue'[t]) \cup Adding(t)' \cup InHand(t)'
                      /\ IsInjective(queue'[t])
                      /\ ToSet(queue'[t]) \cap Adding(t)' = {}
                      /\ ToSet(queue'[t]) \cap InHand(t)' = {}
                      /\ Adding(t)' \cap InHand(t)' = {}
    BY DEF OnItsWay
  <2>1. CASE t # s
    <3>1. marked'[t] = marked[t] /\ queue'[t] = queue[t] /\ Adding(t)' = Adding(t) /\ InHand(t)' = InHand(t)
      BY <2>1 DEF Put, TypeOK, Adding, InHand
    <3> QED BY <3>1 DEF OnItsWay
  <2>2. CASE t = s /\ Len(queue[s]) >= MaxQueue
    <3>1. /\ marked'[t] = marked[t] \ {k} /\ queue'[t] = queue[t]
          /\ Adding(t)' = {} /\ InHand(t)' = InHand(t)
      BY <2>2 DEF Put, TypeOK, Adding, InHand, NoLookup
    <3> QED BY <1>1, <2>2, <3>1 DEF OnItsWay
  <2>3. CASE t = s /\ ~(Len(queue[s]) >= MaxQueue)
    <3>1. /\ marked'[t] = marked[t] /\ queue'[t] = Append(queue[t], k)
          /\ Adding(t)' = {} /\ InHand(t)' = InHand(t)
      BY <2>3 DEF Put, TypeOK, Adding, InHand, NoLookup
    <3> QED BY <1>1, <1>2, <2>3, <3>1 DEF OnItsWay
  <2> QED BY <2>1, <2>2, <2>3
<1>7. AskedBeforeAnswered'
  BY DEF Put, AskedBeforeAnswered
<1> QED BY <1>4, <1>5, <1>6, <1>7

(* The worker takes the oldest key.                                        *)
LEMMA TakeOK ==
    ASSUME WorkerInv, NEW s \in Servers, Take(s)
    PROVE  WorkerInv'
<1> USE DEF WorkerInv
<1> DEFINE k == Head(queue[s])
<1>1. queue[s] \in Seq(Keys) /\ queue[s] # <<>> /\ InHand(s) = {}
  BY DEF Take, TypeOK, InHand, Idle
<1>2. /\ k \in Keys /\ Tail(queue[s]) \in Seq(Keys) /\ Len(Tail(queue[s])) = Len(queue[s]) - 1
      /\ ToSet(queue[s]) = ToSet(Tail(queue[s])) \cup {k}
      /\ k \notin ToSet(Tail(queue[s])) /\ IsInjective(Tail(queue[s]))
  BY <1>1, TakeKey DEF OnItsWay
<1>3. Len(queue[s]) \in Nat
  BY <1>1
<1>4. worker'[s] = [key |-> k, at |-> "check", reply |-> "none"]
  BY DEF Take, TypeOK, Idle
<1>5. TypeOK'
  <2>1. queue' \in [Servers -> Seq(Keys)] /\ \A t \in Servers : Len(queue'[t]) <= MaxQueue
    BY <1>1, <1>2, <1>3, QueueAssumption DEF Take, TypeOK
  <2>2. worker' \in [Servers -> Worker]
    BY <1>2, <1>4 DEF Take, TypeOK, Worker, Answer, Idle
  <2> QED BY <2>1, <2>2 DEF Take, TypeOK
<1>6. KeyInHand'
  BY <1>2, <1>4 DEF Take, TypeOK, KeyInHand, Idle
<1>7. OnItsWay'
  <2> SUFFICES ASSUME NEW t \in Servers
               PROVE  /\ marked'[t] = ToSet(queue'[t]) \cup Adding(t)' \cup InHand(t)'
                      /\ IsInjective(queue'[t])
                      /\ ToSet(queue'[t]) \cap Adding(t)' = {}
                      /\ ToSet(queue'[t]) \cap InHand(t)' = {}
                      /\ Adding(t)' \cap InHand(t)' = {}
    BY DEF OnItsWay
  <2>1. CASE t # s
    <3>1. marked'[t] = marked[t] /\ queue'[t] = queue[t] /\ Adding(t)' = Adding(t) /\ InHand(t)' = InHand(t)
      BY <2>1 DEF Take, TypeOK, Adding, InHand
    <3> QED BY <3>1 DEF OnItsWay
  <2>2. CASE t = s
    <3>1. /\ marked'[t] = marked[t] /\ queue'[t] = Tail(queue[t])
          /\ Adding(t)' = Adding(t) /\ InHand(t)' = {k}
      BY <1>4, <2>2 DEF Take, TypeOK, Adding, InHand
    <3> QED BY <1>1, <1>2, <2>2, <3>1 DEF OnItsWay
  <2> QED BY <2>1, <2>2
<1>8. AskedBeforeAnswered'
  BY <1>4 DEF Take, TypeOK, AskedBeforeAnswered
<1> QED BY <1>5, <1>6, <1>7, <1>8

(* A lookup marks its key, unless the key is marked already.               *)
LEMMA MarkOK ==
    ASSUME WorkerInv, NEW s \in Servers, Mark(s)
    PROVE  WorkerInv'
<1> USE DEF WorkerInv
<1> DEFINE k == lookup[s].key
<1>1. k \in Keys /\ Adding(s) = {}
  BY DEF Mark, KeyInHand, Adding
<1>2. TypeOK'
  BY <1>1 DEF Mark, TypeOK, Lookup, NoLookup
<1>3. KeyInHand'
  BY <1>1 DEF Mark, TypeOK, KeyInHand, NoLookup
<1>4. OnItsWay'
  <2> SUFFICES ASSUME NEW t \in Servers
               PROVE  /\ marked'[t] = ToSet(queue'[t]) \cup Adding(t)' \cup InHand(t)'
                      /\ IsInjective(queue'[t])
                      /\ ToSet(queue'[t]) \cap Adding(t)' = {}
                      /\ ToSet(queue'[t]) \cap InHand(t)' = {}
                      /\ Adding(t)' \cap InHand(t)' = {}
    BY DEF OnItsWay
  <2>1. CASE t # s
    <3>1. marked'[t] = marked[t] /\ queue'[t] = queue[t] /\ Adding(t)' = Adding(t) /\ InHand(t)' = InHand(t)
      BY <2>1 DEF Mark, TypeOK, Adding, InHand
    <3> QED BY <3>1 DEF OnItsWay
  <2>2. CASE t = s /\ k \in marked[s]
    <3>1. marked'[t] = marked[t] /\ queue'[t] = queue[t] /\ Adding(t)' = {} /\ InHand(t)' = InHand(t)
      BY <2>2 DEF Mark, TypeOK, Adding, InHand, NoLookup
    <3> QED BY <1>1, <2>2, <3>1 DEF OnItsWay
  <2>3. CASE t = s /\ k \notin marked[s]
    <3>1. /\ marked'[t] = marked[t] \cup {k} /\ queue'[t] = queue[t]
          /\ Adding(t)' = {k} /\ InHand(t)' = InHand(t)
      BY <2>3 DEF Mark, TypeOK, Adding, InHand
    <3> QED BY <1>1, <2>3, <3>1 DEF OnItsWay
  <2> QED BY <2>1, <2>2, <2>3
<1>5. AskedBeforeAnswered'
  BY DEF Mark, AskedBeforeAnswered
<1> QED BY <1>2, <1>3, <1>4, <1>5

(* The worker puts its key down: it is nowhere else on its way.            *)
LEMMA UnmarkOK ==
    ASSUME WorkerInv, NEW s \in Servers, Unmark(s)
    PROVE  WorkerInv'
<1> USE DEF WorkerInv
<1> DEFINE k == worker[s].key
<1>1. InHand(s) = {k}
  BY DEF Unmark, InHand
<1>2. TypeOK'
  BY DEF Unmark, TypeOK, Worker, Idle, Answer
<1>3. KeyInHand'
  BY DEF Unmark, TypeOK, KeyInHand, Idle
<1>4. OnItsWay'
  <2> SUFFICES ASSUME NEW t \in Servers
               PROVE  /\ marked'[t] = ToSet(queue'[t]) \cup Adding(t)' \cup InHand(t)'
                      /\ IsInjective(queue'[t])
                      /\ ToSet(queue'[t]) \cap Adding(t)' = {}
                      /\ ToSet(queue'[t]) \cap InHand(t)' = {}
                      /\ Adding(t)' \cap InHand(t)' = {}
    BY DEF OnItsWay
  <2>1. CASE t # s
    <3>1. marked'[t] = marked[t] /\ queue'[t] = queue[t] /\ Adding(t)' = Adding(t) /\ InHand(t)' = InHand(t)
      BY <2>1 DEF Unmark, TypeOK, Adding, InHand
    <3> QED BY <3>1 DEF OnItsWay
  <2>2. CASE t = s
    <3>1. /\ marked'[t] = marked[t] \ {k} /\ queue'[t] = queue[t]
          /\ Adding(t)' = Adding(t) /\ InHand(t)' = {}
      BY <2>2 DEF Unmark, TypeOK, Adding, InHand, Idle
    <3> QED BY <1>1, <2>2, <3>1 DEF OnItsWay
  <2> QED BY <2>1, <2>2
<1>5. AskedBeforeAnswered'
  BY DEF Unmark, TypeOK, AskedBeforeAnswered, Idle
<1> QED BY <1>2, <1>3, <1>4, <1>5

(* A server starts again with nothing on its way.                          *)
LEMMA RestartOK ==
    ASSUME WorkerInv, NEW s \in Servers, Restart(s)
    PROVE  WorkerInv'
<1> USE DEF WorkerInv
<1>1. ToSet(<<>>) = {} /\ IsInjective(<<>>) /\ Len(<<>>) = 0 /\ <<>> \in Seq(Keys)
  BY DEF ToSet, IsInjective
<1>2. TypeOK'
  <2>1. queue' \in [Servers -> Seq(Keys)] /\ \A t \in Servers : Len(queue'[t]) <= MaxQueue
    BY <1>1, QueueAssumption DEF Restart, TypeOK
  <2>2. restarts' \in 0..MaxRestarts
    BY QueueAssumption DEF Restart, TypeOK
  <2> QED BY <2>1, <2>2 DEF Restart, TypeOK, Lookup, Worker, NoLookup, Idle, Answer
<1>3. KeyInHand'
  BY DEF Restart, TypeOK, KeyInHand, NoLookup, Idle
<1>4. OnItsWay'
  <2> SUFFICES ASSUME NEW t \in Servers
               PROVE  /\ marked'[t] = ToSet(queue'[t]) \cup Adding(t)' \cup InHand(t)'
                      /\ IsInjective(queue'[t])
                      /\ ToSet(queue'[t]) \cap Adding(t)' = {}
                      /\ ToSet(queue'[t]) \cap InHand(t)' = {}
                      /\ Adding(t)' \cap InHand(t)' = {}
    BY DEF OnItsWay
  <2>1. CASE t # s
    <3>1. marked'[t] = marked[t] /\ queue'[t] = queue[t] /\ Adding(t)' = Adding(t) /\ InHand(t)' = InHand(t)
      BY <2>1 DEF Restart, TypeOK, Adding, InHand
    <3> QED BY <3>1 DEF OnItsWay
  <2>2. CASE t = s
    <3>1. marked'[t] = {} /\ queue'[t] = <<>> /\ Adding(t)' = {} /\ InHand(t)' = {}
      BY <2>2 DEF Restart, TypeOK, Adding, InHand, NoLookup, Idle
    <3> QED BY <1>1, <3>1
  <2> QED BY <2>1, <2>2
<1>5. AskedBeforeAnswered'
  BY DEF Restart, TypeOK, AskedBeforeAnswered, Idle
<1> QED BY <1>2, <1>3, <1>4, <1>5

(* A worker moves on with its key, a lookup begins, or an answer changes:  *)
(* what is on its way stays where it is.                                   *)
LEMMA WayStays ==
    ASSUME WorkerInv, queue' = queue, marked' = marked,
           \A t \in Servers : Adding(t)' = Adding(t) /\ InHand(t)' = InHand(t)
    PROVE  OnItsWay'
BY DEF WorkerInv, OnItsWay

(* Reading a cached answer changes nothing.                                *)
LEMMA ReadAnswerOK ==
    ASSUME WorkerInv, NEW s \in Servers, NEW k \in Keys, ReadAnswer(s, k)
    PROVE  WorkerInv'
<1> USE DEF WorkerInv
<1>1. TypeOK'
  BY DEF ReadAnswer, TypeOK, Lookup
<1>2. KeyInHand'
  BY DEF ReadAnswer, TypeOK, KeyInHand
<1>3. \A t \in Servers : Adding(t)' = Adding(t) /\ InHand(t)' = InHand(t)
  <2>1. lookup[s].at = "idle" /\ lookup'[s].at = "mark" /\ worker' = worker
    BY DEF ReadAnswer, TypeOK, StoreFree, NoLookup
  <2>2. \A t \in Servers \ {s} : lookup'[t] = lookup[t]
    BY DEF ReadAnswer, TypeOK
  <2> QED BY <2>1, <2>2 DEF Adding, InHand
<1>4. OnItsWay'
  BY <1>3, WayStays DEF ReadAnswer
<1>5. AskedBeforeAnswered'
  BY DEF ReadAnswer, AskedBeforeAnswered
<1> QED BY <1>1, <1>2, <1>4, <1>5

(* Before it asks, the worker looks whether a usable answer came meanwhile.*)
LEMMA CheckOK ==
    ASSUME WorkerInv, NEW s \in Servers, Check(s) \/ CheckFails(s)
    PROVE  WorkerInv'
<1> USE DEF WorkerInv
<1>1. worker[s].at = "check" /\ worker[s].key \in Keys /\ worker[s] \in Worker
  BY DEF Check, CheckFails, TypeOK, KeyInHand
<1>2. PICK at \in {"unmark", "ask"} :
         /\ worker' = [worker EXCEPT ![s].at = at]
         /\ at = "ask" => answers[worker[s].key] # "usable"
         /\ queue' = queue /\ marked' = marked /\ lookup' = lookup /\ answers' = answers
         /\ restarts' = restarts /\ raced' \in [Servers -> BOOLEAN]
         /\ \A t \in Servers \ {s} : raced'[t] = raced[t]
  BY DEF Check, CheckFails, TypeOK
<1>3. worker'[s] = [worker[s] EXCEPT !.at = at] /\ \A t \in Servers \ {s} : worker'[t] = worker[t]
  BY <1>2 DEF TypeOK
<1>4. TypeOK'
  <2>1. worker' \in [Servers -> Worker]
    BY <1>1, <1>2 DEF TypeOK, Worker
  <2> QED BY <1>2, <2>1 DEF TypeOK
<1>5. KeyInHand'
  BY <1>1, <1>2, <1>3 DEF KeyInHand, Worker
<1>6. \A t \in Servers : Adding(t)' = Adding(t) /\ InHand(t)' = InHand(t)
  BY <1>1, <1>2, <1>3 DEF Adding, InHand, Worker
<1>7. OnItsWay'
  BY <1>2, <1>6, WayStays
<1>8. AskedBeforeAnswered'
  BY <1>1, <1>2, <1>3 DEF AskedBeforeAnswered, Worker
<1> QED BY <1>4, <1>5, <1>7, <1>8

(* The reply comes.                                                        *)
LEMMA AskOK ==
    ASSUME WorkerInv, NEW s \in Servers, NEW reply \in {"usable", "unusable"}, Ask(s, reply)
    PROVE  WorkerInv'
<1> USE DEF WorkerInv
<1>1. /\ worker[s] \in Worker /\ worker[s].at = "ask" /\ worker[s].key \in Keys
      /\ worker'[s] = [key |-> worker[s].key, at |-> "record", reply |-> reply]
      /\ \A t \in Servers \ {s} : worker'[t] = worker[t]
  BY DEF Ask, TypeOK, KeyInHand, Worker
<1>2. TypeOK'
  <2>1. worker' \in [Servers -> Worker]
    BY <1>1 DEF Ask, TypeOK, Worker, Answer
  <2> QED BY <2>1 DEF Ask, TypeOK
<1>3. KeyInHand'
  <2>1. worker'[s].at = "record" /\ worker'[s].key = worker[s].key /\ lookup' = lookup
    BY <1>1 DEF Ask
  <2> QED BY <1>1, <2>1 DEF KeyInHand
<1>4. \A t \in Servers : Adding(t)' = Adding(t) /\ InHand(t)' = InHand(t)
  <2>1. worker'[s].at = "record" /\ worker'[s].key = worker[s].key /\ lookup' = lookup
    BY <1>1 DEF Ask
  <2> QED BY <1>1, <2>1 DEF Adding, InHand
<1>5. OnItsWay'
  BY <1>4, WayStays DEF Ask
<1>6. AskedBeforeAnswered'
  <2>1. answers' = answers /\ raced' = raced
    BY DEF Ask
  <2>2. answers[worker[s].key] = "usable" => raced[s]
    BY <1>1 DEF AskedBeforeAnswered
  <2>3. worker'[s].key = worker[s].key
    BY <1>1
  <2> SUFFICES ASSUME NEW t \in Servers, worker'[t].at \in {"ask", "record"},
                      answers[worker'[t].key] = "usable"
               PROVE  raced[t]
    BY <2>1 DEF AskedBeforeAnswered
  <2>4. CASE t = s
    BY <2>2, <2>3, <2>4
  <2>5. CASE t # s
    BY <1>1, <2>5 DEF AskedBeforeAnswered
  <2> QED BY <2>4, <2>5
<1> QED BY <1>2, <1>3, <1>5, <1>6

(* The reply is stored, or is lost: any other worker that holds the same   *)
(* key is told that it was stored.                                         *)
LEMMA RecordOK ==
    ASSUME WorkerInv, NEW s \in Servers, Record(s) \/ RecordFails(s)
    PROVE  WorkerInv'
<1> USE DEF WorkerInv
<1>1. /\ worker[s] \in Worker /\ worker[s].at = "record" /\ worker[s].key \in Keys
      /\ worker' = [worker EXCEPT ![s].at = "unmark"]
      /\ worker'[s] = [worker[s] EXCEPT !.at = "unmark"]
      /\ \A t \in Servers \ {s} : worker'[t] = worker[t]
      /\ queue' = queue /\ marked' = marked /\ lookup' = lookup /\ restarts' = restarts
  BY DEF Record, RecordFails, TypeOK, KeyInHand
<1>2. /\ answers' \in [Keys -> Answer] /\ raced' \in [Servers -> BOOLEAN]
      /\ \A t \in Servers : raced[t] => raced'[t]
      /\ \A k \in Keys : k # worker[s].key => answers'[k] = answers[k]
      /\ \/ answers' = answers
         \/ \A t \in Servers \ {s} : worker[t].key = worker[s].key => raced'[t]
  BY <1>1 DEF Record, RecordFails, TypeOK, Worker
<1>3. TypeOK'
  <2>1. worker' \in [Servers -> Worker]
    BY <1>1 DEF TypeOK, Worker
  <2> QED BY <1>1, <1>2, <2>1 DEF TypeOK
<1>4. KeyInHand'
  BY <1>1 DEF KeyInHand, Worker
<1>5. \A t \in Servers : Adding(t)' = Adding(t) /\ InHand(t)' = InHand(t)
  BY <1>1 DEF Adding, InHand, Worker
<1>6. OnItsWay'
  BY <1>1, <1>5, WayStays
<1>7. AskedBeforeAnswered'
  <2> SUFFICES ASSUME NEW t \in Servers, worker'[t].at \in {"ask", "record"},
                      answers'[worker'[t].key] = "usable"
               PROVE  raced'[t]
    BY DEF AskedBeforeAnswered
  <2>1. t # s /\ worker'[t] = worker[t] /\ worker[t].key \in Keys
    BY <1>1 DEF KeyInHand, Worker
  <2> QED BY <1>2, <2>1 DEF AskedBeforeAnswered
<1> QED BY <1>3, <1>4, <1>6, <1>7

(* An answer falling due changes only when it may be asked for again.      *)
LEMMA FallDueOK ==
    ASSUME WorkerInv, NEW k \in Keys, FallDue(k)
    PROVE  WorkerInv'
<1> USE DEF WorkerInv
<1>1. TypeOK'
  BY DEF FallDue, TypeOK, Answer
<1>2. KeyInHand'
  BY DEF FallDue, KeyInHand
<1>3. OnItsWay'
  BY DEF FallDue, OnItsWay, Adding, InHand
<1>4. AskedBeforeAnswered'
  BY DEF FallDue, TypeOK, KeyInHand, AskedBeforeAnswered
<1> QED BY <1>1, <1>2, <1>3, <1>4

(* Every step of the lookups, the worker and the clock keeps the invariant.*)
LEMMA StepOK == WorkerInv /\ [Next]_vars => WorkerInv'
<1> SUFFICES ASSUME WorkerInv, [Next]_vars PROVE WorkerInv'
  OBVIOUS
<1>1. CASE UNCHANGED vars
  BY <1>1 DEF vars, WorkerInv, TypeOK, KeyInHand, OnItsWay, AskedBeforeAnswered, Adding, InHand
<1>2. ASSUME NEW s \in Servers, LookupStep(s) PROVE WorkerInv'
  BY <1>2, MarkOK, PutOK DEF LookupStep
<1>3. ASSUME NEW s \in Servers, WorkerStep(s) PROVE WorkerInv'
  BY <1>3, TakeOK, CheckOK, AskOK, RecordOK, UnmarkOK DEF WorkerStep
<1> QED BY <1>1, <1>2, <1>3, RestartOK, ReadAnswerOK, FallDueOK DEF Next

(* The inductive invariant of the worker.                                  *)
THEOREM WorkerInvariant == Spec => []WorkerInv
BY InitOK, StepOK, PTL DEF Spec

(* Types: a queue never exceeds MAX_QUEUE, whatever is put and taken.      *)
THEOREM Types == Spec => []TypeOK
<1>1. WorkerInv => TypeOK
  BY DEF WorkerInv
<1> QED BY <1>1, WorkerInvariant, PTL

(* The marks of a server are its keys on their way, each of them once: no  *)
(* schema is marked and forgotten, and none is asked about twice.          *)
THEOREM Marks == Spec => []MarkedIsOnItsWay
<1>1. ASSUME WorkerInv PROVE MarkedIsOnItsWay
  <2> USE DEF WorkerInv
  <2> SUFFICES ASSUME NEW s \in Servers
               PROVE  LET adding == IF lookup[s].at = "put" THEN <<lookup[s].key>> ELSE <<>>
                          inHand == IF worker[s] = Idle THEN <<>> ELSE <<worker[s].key>>
                          onWay  == queue[s] \o adding \o inHand
                      IN marked[s] = ToSet(onWay) /\ IsInjective(onWay)
    BY <1>1 DEF MarkedIsOnItsWay
  <2> DEFINE adding == IF lookup[s].at = "put" THEN <<lookup[s].key>> ELSE <<>>
             inHand == IF worker[s] = Idle THEN <<>> ELSE <<worker[s].key>>
  <2>1. /\ ToSet(<<>>) = {} /\ IsInjective(<<>>) /\ <<>> \in Seq(Keys)
        /\ \A k \in Keys : ToSet(<<k>>) = {k} /\ IsInjective(<<k>>) /\ <<k>> \in Seq(Keys)
    BY DEF ToSet, IsInjective
  <2>2. adding \in Seq(Keys) /\ ToSet(adding) = Adding(s) /\ IsInjective(adding)
    BY <1>1, <2>1 DEF KeyInHand, Adding
  <2>3. inHand \in Seq(Keys) /\ ToSet(inHand) = InHand(s) /\ IsInjective(inHand)
    <3>1. worker[s] = Idle <=> worker[s].at = "idle"
      BY <1>1 DEF KeyInHand, Idle
    <3>2. worker[s] # Idle => worker[s].key \in Keys
      BY <1>1, <3>1 DEF KeyInHand
    <3> QED BY <2>1, <3>1, <3>2 DEF InHand
  <2> HIDE DEF adding, inHand
  <2>4. /\ queue[s] \o adding \in Seq(Keys) /\ IsInjective(queue[s] \o adding)
        /\ ToSet(queue[s] \o adding) = ToSet(queue[s]) \cup Adding(s)
    BY <1>1, <2>2, Joined DEF TypeOK, OnItsWay
  <2>5. /\ IsInjective((queue[s] \o adding) \o inHand)
        /\ ToSet((queue[s] \o adding) \o inHand) = ToSet(queue[s]) \cup Adding(s) \cup InHand(s)
    <3> DEFINE before == queue[s] \o adding
    <3>1. before \in Seq(Keys) /\ IsInjective(before)
      BY <2>4
    <3>2. ToSet(before) \cap ToSet(inHand) = {}
      BY <1>1, <2>3, <2>4 DEF OnItsWay
    <3>3. ToSet(before) = ToSet(queue[s]) \cup Adding(s)
      BY <2>4
    <3> HIDE DEF before
    <3>4. IsInjective(before \o inHand) /\ ToSet(before \o inHand) = ToSet(before) \cup ToSet(inHand)
      BY <2>3, <3>1, <3>2, Joined
    <3> QED BY <2>3, <3>3, <3>4 DEF before
  <2> QED BY <1>1, <2>5 DEF OnItsWay, adding, inHand
<1> QED BY <1>1, WorkerInvariant, PTL

(* A usable answer is replaced only by the answer to an ask that was on its*)
(* way when another server stored it.                                      *)
THEOREM UsableKept == Spec => UsableLostToRaceOnly
<1> DEFINE Kept == \A k \in Keys :
                      (answers[k] = "usable" /\ answers'[k] # "usable")
                          => \E s \in Servers : worker[s].key = k /\ raced[s]
<1>1. ASSUME WorkerInv, [Next]_vars PROVE Kept
  <2> SUFFICES ASSUME NEW k \in Keys, answers[k] = "usable", answers'[k] # "usable"
               PROVE  \E s \in Servers : worker[s].key = k /\ raced[s]
    OBVIOUS
  <2>1. ~UNCHANGED answers
    OBVIOUS
  <2>2. ASSUME NEW j \in Keys, FallDue(j) PROVE FALSE
    BY <1>1, <2>2 DEF FallDue, WorkerInv, TypeOK
  <2>3. PICK s \in Servers : Record(s)
    BY <1>1, <2>1, <2>2 DEF Next, vars, LookupStep, WorkerStep, Restart, ReadAnswer, Mark, Put,
                            Take, Check, CheckFails, Ask, RecordFails, Unmark
  <2>4. worker[s].at = "record" /\ worker[s].key \in Keys /\ worker[s].key = k
    BY <1>1, <2>3 DEF Record, WorkerInv, TypeOK, KeyInHand
  <2> QED BY <1>1, <2>4 DEF WorkerInv, AskedBeforeAnswered
<1>2. WorkerInv /\ [Next]_vars => [Kept]_vars
  BY <1>1
<1>3. []WorkerInv /\ [][Next]_vars => [][Kept]_vars
  BY <1>2, PTL
<1> QED BY <1>3, WorkerInvariant DEF Spec, UsableLostToRaceOnly
-----------------------------------------------------------------------------
(* One server: what is on its way to be asked about has no answer, or one  *)
(* that is due again.                                                      *)
DueOnItsWay ==
    \A s \in Servers :
        /\ lookup[s].at # "idle" => answers[lookup[s].key] \in {"none", "due"}
        /\ \A k \in ToSet(queue[s]) : answers[k] \in {"none", "due"}
        /\ worker[s].at = "check" => answers[worker[s].key] \in {"none", "due"}

(* Only the server's own worker changes an answer, and the key in its hand *)
(* is nowhere else on its way.                                             *)
LEMMA DueStep ==
    ASSUME NEW s, Servers = {s}, WorkerInv, DueOnItsWay, [Next]_vars
    PROVE  DueOnItsWay'
<1> USE DEF WorkerInv
<1> SUFFICES /\ lookup'[s].at # "idle" => answers'[lookup'[s].key] \in {"none", "due"}
             /\ \A k \in ToSet(queue'[s]) : answers'[k] \in {"none", "due"}
             /\ worker'[s].at = "check" => answers'[worker'[s].key] \in {"none", "due"}
  BY DEF DueOnItsWay
<1>0. /\ lookup[s] \in Lookup /\ worker[s] \in Worker /\ s \in Servers
      /\ lookup[s].at # "idle" => lookup[s].key \in Keys /\ answers[lookup[s].key] \in {"none", "due"}
      /\ \A k \in ToSet(queue[s]) : answers[k] \in {"none", "due"}
      /\ worker[s].at = "check" => answers[worker[s].key] \in {"none", "due"}
  BY DEF DueOnItsWay, TypeOK, KeyInHand
<1>1. CASE UNCHANGED vars
  BY <1>0, <1>1 DEF vars
<1>2. CASE Mark(s)
  BY <1>0, <1>2 DEF Mark, TypeOK, NoLookup
<1>3. CASE Put(s)
  <2>1. ToSet(queue'[s]) \subseteq ToSet(queue[s]) \cup {lookup[s].key}
    <3>1. queue[s] \in Seq(Keys) /\ lookup[s].key \in Keys /\ lookup[s].key \notin ToSet(queue[s])
      BY <1>0, <1>3 DEF Put, TypeOK, OnItsWay, Adding
    <3>2. ToSet(Append(queue[s], lookup[s].key)) = ToSet(queue[s]) \cup {lookup[s].key}
      BY <1>0, <3>1, AppendKey DEF OnItsWay
    <3> QED BY <1>3, <3>2 DEF Put, TypeOK
  <2> QED BY <1>0, <1>3, <2>1 DEF Put, TypeOK, NoLookup
<1>4. CASE Take(s)
  <2>1. queue[s] \in Seq(Keys) /\ queue[s] # <<>>
    BY <1>4 DEF Take, TypeOK
  <2>2. ToSet(queue[s]) = ToSet(Tail(queue[s])) \cup {Head(queue[s])}
    BY <1>0, <2>1, TakeKey DEF OnItsWay
  <2>3. worker'[s].key = Head(queue[s]) /\ queue'[s] = Tail(queue[s])
    BY <1>0, <1>4 DEF Take, TypeOK, Idle
  <2> QED BY <1>0, <1>4, <2>2, <2>3 DEF Take
<1>5. CASE Check(s) \/ CheckFails(s)
  <2>1. worker'[s].at \in {"ask", "unmark"}
    BY <1>0, <1>5 DEF Check, CheckFails, TypeOK, Worker
  <2> QED BY <1>0, <1>5, <2>1 DEF Check, CheckFails
<1>6. ASSUME NEW reply \in {"usable", "unusable"}, Ask(s, reply)
      PROVE  worker'[s].at = "record" /\ UNCHANGED <<answers, queue, lookup>>
  BY <1>0, <1>6 DEF Ask, TypeOK, Worker
<1>7. CASE Record(s) \/ RecordFails(s)
  <2>1. worker'[s].at = "unmark" /\ lookup[s].at = "idle" /\ queue' = queue /\ lookup' = lookup
    BY <1>0, <1>7 DEF Record, RecordFails, TypeOK, Worker, StoreFree, NoLookup
  <2>2. worker[s].key \in Keys /\ worker[s].key \notin ToSet(queue[s])
        /\ ToSet(queue[s]) \subseteq Keys
    BY <1>0, <1>7 DEF Record, RecordFails, TypeOK, KeyInHand, OnItsWay, InHand, ToSet
  <2>3. \A k \in ToSet(queue[s]) : answers'[k] = answers[k]
    BY <1>7, <2>2 DEF Record, RecordFails, TypeOK
  <2> QED BY <1>0, <2>1, <2>3
<1>8. CASE Unmark(s)
  BY <1>0, <1>8 DEF Unmark, TypeOK, Idle
<1>9. CASE Restart(s)
  BY <1>0, <1>9 DEF Restart, TypeOK, NoLookup, Idle, ToSet
<1>10. ASSUME NEW k \in Keys, ReadAnswer(s, k) PROVE DueOnItsWay'
  <2>1. lookup'[s] = [key |-> k, at |-> "mark"] /\ answers[k] \in {"none", "due"}
    BY <1>0, <1>10 DEF ReadAnswer, TypeOK
  <2> QED BY <1>0, <1>10, <2>1 DEF ReadAnswer, DueOnItsWay
<1>11. ASSUME NEW k \in Keys, FallDue(k) PROVE DueOnItsWay'
  <2>1. \A j \in Keys : answers'[j] = answers[j] \/ answers'[j] = "due"
    BY <1>11 DEF FallDue, TypeOK
  <2>2. \A j : answers[j] \in {"none", "due"} => answers'[j] \in {"none", "due"}
    BY <1>11, <2>1 DEF FallDue, TypeOK
  <2> QED BY <1>11, <2>2 DEF FallDue, DueOnItsWay
<1>12. CASE LookupStep(s) \/ WorkerStep(s)
  BY <1>0, <1>2, <1>3, <1>4, <1>5, <1>6, <1>7, <1>8, <1>12 DEF LookupStep, WorkerStep
<1>13. Next => \/ LookupStep(s) \/ WorkerStep(s) \/ Restart(s)
               \/ \E k \in Keys : ReadAnswer(s, k) \/ FallDue(k)
  BY DEF Next
<1> QED BY <1>1, <1>9, <1>10, <1>11, <1>12, <1>13 DEF DueOnItsWay

(* With one server the model is asked about a schema only when there is no *)
(* answer or an unusable one that is due again: nothing is asked twice at  *)
(* once, and no failed ask is repeated before its time.                    *)
THEOREM AskedInTime == ASSUME NEW one, Servers = {one} PROVE Spec => AskedWhenDue
<1> DEFINE Due == \A s \in Servers :
                     (worker[s].at = "check" /\ worker'[s].at = "ask")
                         => answers[worker[s].key] \in {"none", "due"}
<1>1. Init => DueOnItsWay
  BY DEF Init, DueOnItsWay, NoLookup, Idle, ToSet
<1>2. WorkerInv /\ DueOnItsWay /\ [Next]_vars => DueOnItsWay'
  BY DueStep
<1>3. DueOnItsWay => Due
  BY DEF DueOnItsWay
<1>4. Spec => [][Due]_vars
  BY <1>1, <1>2, <1>3, WorkerInvariant, PTL DEF Spec
<1> QED BY <1>4, PTL DEF AskedWhenDue
=============================================================================
